-------------------------- MODULE RamFilesProofs --------------------------
(***************************************************************************)
(* LoneTasksAreWhole of RamFiles, for any paths, uploads, requests and     *)
(* lengths.                                                                *)
(*                                                                         *)
(* A task that is alone is met by no other: none has its paths, and none   *)
(* writes to a file that lies there.  The invariant says what such a task  *)
(* has left of its file at each place, and that the page waits for one     *)
(* request, which brings what is missing.                                  *)
(***************************************************************************)
EXTENDS RamFiles, SequenceTheorems, TLAPS

USE FilesAssumption

Contents == Seq(Chunks) \cup {Missing}
Places == {"idle", "parent", "open", "copy", "remove", "unlink", "rmdir", "mkdir", "bytes"}
Requests == [op : {"none", "put", "patch", "delete", "rmdir", "mkcol", "move", "copy"},
             path : Paths \cup {None}, to : Paths \cup {None},
             by : Uploaders \cup {Nobody}, heard : BOOLEAN]
IsUpload(r) == r.op \in {"put", "patch"}
AtPath(r) == r.op \notin {"rmdir", "mkcol", "none"}

\* Types, and what a task has by its method and its place.
DiskTyped ==
    /\ dir \in BOOLEAN
    /\ at \in [Paths -> Inodes \cup {None}] /\ data \in [Inodes -> Seq(Chunks)]
    /\ \A p \in Paths : at[p] # None => dir
    /\ \A p, q \in Paths : p # q /\ at[p] # None => at[p] # at[q]
TasksTyped ==
    /\ pc \in [Tasks -> Places] /\ req \in [Tasks -> Requests]
    /\ body \in [Tasks -> Seq(Chunks)]
    /\ fd \in [Tasks -> Inodes \cup {None}] /\ source \in [Tasks -> Inodes \cup {None}]
    /\ pos \in [Tasks -> Nat \cup {Appending}]
    /\ alone \in [Tasks -> BOOLEAN] /\ before \in [Tasks -> [Paths -> Contents]]
ClientsTyped ==
    /\ upload \in [Uploaders -> {"ready", "waits", "found", "failed", "done"}]
    /\ offset \in [Uploaders -> Nat] /\ fouled \in [Uploaders -> BOOLEAN]
    /\ tries \in [Uploaders -> Nat] /\ others \in Nat
Serves(r, where) ==
    /\ where = "idle" <=> r.op = "none"
    /\ where \in {"parent", "open"} => r.op \in {"put", "patch", "move", "copy"}
    /\ where = "copy" => r.op \in {"put", "patch"}
    /\ where = "remove" => r.op = "put"
    /\ where = "unlink" => r.op \in {"delete", "rmdir"}
    /\ where = "rmdir" => r.op = "rmdir"
    /\ where = "mkdir" => r.op = "mkcol"
    /\ where = "bytes" => r.op = "copy"
Proper(r) ==
    /\ AtPath(r) => r.path \in Paths /\ r.to \in Paths
    /\ r.heard => IsUpload(r)
    /\ IsUpload(r) => r.by \in Uploaders /\ r.path = Target[r.by] /\ r.to = r.path
    /\ ~IsUpload(r) => r.by = Nobody
Shape(t) ==
    /\ Serves(req[t], pc[t]) /\ Proper(req[t])
    /\ pc[t] \in {"copy", "remove", "bytes"} => fd[t] \in Inodes
    /\ pc[t] \notin {"copy", "remove", "bytes"} => fd[t] = None
    /\ pc[t] = "bytes" => source[t] \in Inodes
    /\ pc[t] = "copy" /\ req[t].op = "patch" => pos[t] = Appending
    /\ pc[t] = "copy" /\ req[t].op = "put" => pos[t] \in Nat
    /\ pc[t] \notin {"copy", "remove"} => pos[t] = 0
FilesTyped == DiskTyped /\ TasksTyped /\ ClientsTyped /\ \A t \in Tasks : Shape(t)

\* Who is alone is met by nobody.
Apart(t) == \A s \in Busy \ {t} : ~Meets(s, PathsOf(req[t]))

\* What a task that is alone has before it.
Kept(t) == Content(req[t].path) = before[t][req[t].path]
PutHolds(t) ==
    /\ pc[t] \in {"parent", "open"} => Kept(t) /\ body[t] = File(req[t].by)
    /\ pc[t] = "copy" => /\ at[req[t].path] = fd[t] /\ pos[t] = Len(data[fd[t]])
                         /\ data[fd[t]] \o body[t] = File(req[t].by)
    /\ pc[t] = "remove" => /\ at[req[t].path] = fd[t]
                           /\ IsPrefix(data[fd[t]], File(req[t].by))
PatchHolds(t) ==
    /\ pc[t] \in {"parent", "open"} => Kept(t) /\ at[req[t].path] # None
    /\ pc[t] = "copy" => /\ at[req[t].path] = fd[t]
                         /\ before[t][req[t].path] \in Seq(Chunks)
                         /\ IsPrefix(before[t][req[t].path], data[fd[t]])
CopyHolds(t) ==
    /\ Kept(t) \/ req[t].path = req[t].to
    /\ pc[t] = "bytes" => at[req[t].to] = fd[t] /\ at[req[t].path] = source[t]
Holds(t) ==
    /\ req[t].op = "put" => PutHolds(t)
    /\ req[t].op = "patch" => PatchHolds(t)
    /\ req[t].op \in {"delete", "move"} => Kept(t)
    /\ req[t].op = "copy" => CopyHolds(t)
AloneHolds == \A t \in Busy : alone[t] => Apart(t) /\ Holds(t)

\* The page waits for the one request that it hears of.
OneIsHeard ==
    /\ \A t \in Tasks : req[t].heard => upload[req[t].by] = "waits"
    /\ \A s, t \in Tasks : req[s].heard /\ req[t].heard /\ req[s].by = req[t].by => s = t
    /\ \A u \in Uploaders : upload[u] = "ready" => offset[u] = 0

\* What arrives of an upload that shared its path with nothing.
Arrives(t) ==
    /\ alone[t]
    /\ req[t].op = "patch" =>
         /\ pc[t] = "copy" => data[fd[t]] \o body[t] = File(req[t].by)
         /\ pc[t] # "copy" => before[t][req[t].path] \o body[t] = File(req[t].by)
UploadHolds ==
    /\ \A t \in Tasks : req[t].heard /\ ~fouled[req[t].by] => Arrives(t)
    /\ \A u \in Uploaders : upload[u] = "found" /\ ~fouled[u] =>
         /\ \A t \in Busy : ~Meets(t, {Target[u]})
         /\ offset[u] > 0 => /\ offset[u] <= Length
                             /\ Content(Target[u]) = SubSeq(File(u), 1, offset[u])

FilesInv == FilesTyped /\ AloneHolds /\ OneIsHeard /\ UploadHolds

-----------------------------------------------------------------------------
(* Sequences. *)

LEMMA PrefixRefl == ASSUME NEW s \in Seq(Chunks) PROVE IsPrefix(s, s) /\ IsPrefix(<<>>, s)
  BY DEF IsPrefix

LEMMA PrefixAppend ==
  ASSUME NEW s \in Seq(Chunks), NEW a \in Seq(Chunks), NEW c \in Chunks, IsPrefix(a, s)
  PROVE  IsPrefix(a, Append(s, c))
  BY DEF IsPrefix

LEMMA PrefixConcat ==
  ASSUME NEW s \in Seq(Chunks), NEW b \in Seq(Chunks)
  PROVE  IsPrefix(s, s \o b)
  BY DEF IsPrefix

LEMMA PrefixIsSub ==
  ASSUME NEW s \in Seq(Chunks), NEW f \in Seq(Chunks), IsPrefix(s, f)
  PROVE  s = SubSeq(f, 1, Len(s)) /\ Len(s) <= Len(f)
  BY DEF IsPrefix

LEMMA AppendTail ==
  ASSUME NEW s \in Seq(Chunks), NEW b \in Seq(Chunks), b # <<>>
  PROVE  Append(s, Head(b)) \o Tail(b) = s \o b
  <1>. DEFINE l == Append(s, Head(b)) \o Tail(b)
              r == s \o b
  <1>1. Len(b) \in Nat /\ Len(b) > 0 /\ Len(s) \in Nat
    OBVIOUS
  <1>2. Tail(b) \in Seq(Chunks) /\ Len(Tail(b)) = Len(b) - 1 /\ Head(b) = b[1] /\ Head(b) \in Chunks
        /\ \A i \in 1 .. Len(b) - 1 : Tail(b)[i] = b[i + 1]
    BY <1>1
  <1>3. Append(s, Head(b)) \in Seq(Chunks) /\ Len(Append(s, Head(b))) = Len(s) + 1
        /\ \A i \in 1 .. Len(s) + 1 : Append(s, Head(b))[i] = IF i <= Len(s) THEN s[i] ELSE Head(b)
    BY <1>2
  <1>4. l \in Seq(Chunks) /\ r \in Seq(Chunks) /\ Len(l) = Len(s) + Len(b) /\ Len(r) = Len(s) + Len(b)
    BY <1>1, <1>2, <1>3
  <1>5. \A i \in 1 .. Len(s) + Len(b) : l[i] = r[i]
    <2>. TAKE i \in 1 .. Len(s) + Len(b)
    <2>1. r[i] = IF i <= Len(s) THEN s[i] ELSE b[i - Len(s)]
      BY <1>1
    <2>2. l[i] = IF i <= Len(s) + 1 THEN Append(s, Head(b))[i] ELSE Tail(b)[i - (Len(s) + 1)]
      BY <1>1, <1>2, <1>3
    <2>. QED BY <2>1, <2>2, <1>1, <1>2, <1>3
  <1>. HIDE DEF l, r
  <1>. QED BY <1>4, <1>5, SeqEqual DEF l, r

LEMMA PlacedAtEnd ==
  ASSUME NEW s \in Seq(Chunks), NEW c \in Chunks
  PROVE  Placed(s, Len(s), c) = Append(s, c) /\ Placed(s, Appending, c) = Append(s, c)
  <1>1. Placed(s, Appending, c) = Append(s, c)
    BY DEF Placed
  <1>2. Len(s) # Appending /\ Len(s) + 1 > Len(s) /\ Len(s) \in Nat
    BY DEF Appending
  <1>3. Placed(s, Len(s), c) = [i \in 1 .. Len(s) + 1 |-> IF i = Len(s) + 1 THEN c ELSE s[i]]
    BY <1>2 DEF Placed
  <1>. DEFINE f == [i \in 1 .. Len(s) + 1 |-> IF i = Len(s) + 1 THEN c ELSE s[i]]
  <1>4. /\ Append(s, c) \in Seq(Chunks) /\ Len(Append(s, c)) = Len(s) + 1
        /\ \A i \in 1 .. Len(s) + 1 : Append(s, c)[i] = IF i = Len(s) + 1 THEN c ELSE s[i]
    BY <1>2
  <1>5. f \in [1 .. Len(s) + 1 -> Chunks]
    BY <1>2
  <1>6. f \in Seq(Chunks) /\ Len(f) = Len(s) + 1
    BY <1>2, <1>5
  <1>7. f = Append(s, c)
    BY <1>4, <1>6, SeqEqual
  <1>. QED BY <1>1, <1>3, <1>7

LEMMA PlacedType ==
  ASSUME NEW s \in Seq(Chunks), NEW c \in Chunks, NEW k \in Nat \cup {Appending}
  PROVE  Placed(s, k, c) \in Seq(Chunks)
  <1>1. CASE k = Appending
    BY <1>1 DEF Placed
  <1>2. CASE k # Appending
    <2>. DEFINE n == IF k + 1 > Len(s) THEN k + 1 ELSE Len(s)
    <2>1. k \in Nat /\ n \in Nat /\ Hole \in Chunks
      BY <1>2 DEF Chunks, Hole
    <2>2. \A i \in 1 .. n : (IF i = k + 1 THEN c ELSE IF i <= Len(s) THEN s[i] ELSE Hole) \in Chunks
      BY <2>1
    <2>3. Placed(s, k, c) = [i \in 1 .. n |-> IF i = k + 1 THEN c ELSE IF i <= Len(s) THEN s[i] ELSE Hole]
      BY <1>2 DEF Placed
    <2>. QED BY <2>1, <2>2, <2>3
  <1>. QED BY <1>1, <1>2

LEMMA FileType == \A u \in Uploaders : File(u) \in Seq(Chunks) /\ Len(File(u)) = Length
  BY FilesAssumption DEF File, Chunks

LEMMA SplitFile ==
  ASSUME NEW u \in Uploaders, NEW k \in 1 .. Length
  PROVE  SubSeq(File(u), 1, k) \o SubSeq(File(u), k + 1, Length) = File(u)
  <1>. DEFINE f == File(u)
              a == SubSeq(f, 1, k)
              b == SubSeq(f, k + 1, Length)
  <1>1. f \in Seq(Chunks) /\ Len(f) = Length /\ Length \in Nat /\ k \in Nat /\ k <= Length /\ k > 0
    BY FileType
  <1>. HIDE DEF f
  <1>2. a \in Seq(Chunks) /\ Len(a) = k /\ \A i \in 1 .. k : a[i] = f[i]
    BY <1>1
  <1>3. b \in Seq(Chunks) /\ Len(b) = Length - k /\ \A i \in 1 .. Length - k : b[i] = f[k + i]
    BY <1>1
  <1>. HIDE DEF a, b
  <1>4. /\ a \o b \in Seq(Chunks) /\ Len(a \o b) = Len(a) + Len(b)
        /\ \A i \in 1 .. Len(a) + Len(b) : (a \o b)[i] = IF i <= Len(a) THEN a[i] ELSE b[i - Len(a)]
    <2>1. a \in Seq(Chunks) /\ b \in Seq(Chunks)
      BY <1>2, <1>3
    <2>. QED BY <2>1, ConcatProperties, Zenon
  <1>5. Len(a) + Len(b) = Length /\ \A i \in 1 .. Length : (a \o b)[i] = f[i]
    BY <1>1, <1>2, <1>3, <1>4
  <1>6. a \o b = f
    BY <1>1, <1>4, <1>5, SeqEqual
  <1>. QED BY <1>6 DEF a, b, f

-----------------------------------------------------------------------------
(* What a step of one task leaves alone. *)

PathsIn(r) == PathsOf(r) \cap Paths
Framed(s) ==
    /\ \A t \in Tasks \ {s} :
          /\ pc'[t] = pc[t] /\ req'[t] = req[t] /\ body'[t] = body[t] /\ fd'[t] = fd[t]
          /\ pos'[t] = pos[t] /\ source'[t] = source[t]
    /\ UNCHANGED <<offset, tries, others, history>>
    /\ pc[s] # "idle"
    /\ \/ pc'[s] = "idle" /\ req'[s] = NoRequest /\ fd'[s] = None /\ source'[s] = None /\ pos'[s] = 0
       \/ pc'[s] # "idle" /\ req'[s] = req[s] /\ UNCHANGED upload
    /\ \A p \in Paths \ PathsOf(req[s]) : at'[p] = at[p]
    /\ \A p \in PathsIn(req[s]) : \/ at'[p] \in Free \cup {None}
                                  \/ \E q \in PathsIn(req[s]) : at'[p] = at[q]
    /\ \A i \in Inodes : \/ data'[i] = data[i] \/ i \in Free \cup {fd[s]}
                         \/ \E q \in PathsIn(req[s]) : i = at[q]
    /\ fd'[s] \in {None, fd[s]} \/ \E q \in PathsIn(req[s]) : fd'[s] = at'[q]
    /\ upload' = upload \/ /\ req[s].heard /\ pc'[s] = "idle"
                           /\ \E outcome \in {"failed", "done"} :
                                 upload' = [upload EXCEPT ![req[s].by] = outcome]

LEMMA OverFrame ==
  ASSUME FilesTyped, NEW s \in Tasks, pc[s] # "idle", NEW outcome \in {"failed", "done"}, Over(s, outcome)
  PROVE  /\ \A t \in Tasks \ {s} :
              /\ pc'[t] = pc[t] /\ req'[t] = req[t] /\ body'[t] = body[t] /\ fd'[t] = fd[t]
              /\ pos'[t] = pos[t] /\ source'[t] = source[t]
         /\ UNCHANGED <<offset, tries, others, history>>
         /\ pc'[s] = "idle" /\ req'[s] = NoRequest /\ fd'[s] = None /\ source'[s] = None /\ pos'[s] = 0
         /\ upload' = upload \/ /\ req[s].heard /\ pc'[s] = "idle"
                                /\ \E result \in {"failed", "done"} :
                                      upload' = [upload EXCEPT ![req[s].by] = result]
  BY DEF Over, FilesTyped, TasksTyped

LEMMA StepFrame ==
  ASSUME FilesTyped, NEW s \in Tasks, Step(s) \/ Drop(s)
  PROVE  Framed(s)
  <1>. USE DEF FilesTyped, TasksTyped, DiskTyped, PathsIn
  <1>0. s \in Tasks /\ (AtPath(req[s]) => PathsOf(req[s]) = {req[s].path, req[s].to} /\ req[s].path \in Paths
                                          /\ req[s].to \in Paths)
        /\ (pc[s] = "idle" \/ pc[s] \in {"unlink", "rmdir", "mkdir"} \/ AtPath(req[s]))
    BY DEF Shape, Serves, Proper, AtPath, PathsOf, Places
  <1>1. CASE Parent(s)
    BY <1>0, <1>1 DEF Parent, Framed, Goto, clientVars
  <1>2. CASE OpenUpload(s)
    <2>1. PICK i \in Inodes :
            \/ /\ req[s].op = "put" /\ CreateAt(req[s].path, i)
               /\ at' = [at EXCEPT ![req[s].path] = i] /\ data' = [data EXCEPT ![i] = <<>>]
               /\ fd' = [fd EXCEPT ![s] = i]
               /\ UNCHANGED pos
            \/ /\ req[s].op = "patch" /\ at[req[s].path] = i
               /\ fd' = [fd EXCEPT ![s] = i] /\ pos' = [pos EXCEPT ![s] = Appending]
               /\ UNCHANGED <<at, data>>
      BY <1>0, <1>2 DEF OpenUpload, AtPath
    <2>2. /\ pc[s] = "open" /\ pc' = [pc EXCEPT ![s] = "copy"]
          /\ UNCHANGED <<dir, req, body, source, clientVars, history>>
          /\ PathsOf(req[s]) = {req[s].path, req[s].to} /\ req[s].path \in Paths
      BY <1>0, <1>2 DEF OpenUpload, Goto
    <2>3. i \in Free \/ i = at[req[s].path]
      BY <2>1 DEF CreateAt
    <2>. QED BY <2>1, <2>2, <2>3 DEF Framed, clientVars
  <1>3. CASE Write(s)
    BY <1>3 DEF Write, Framed, clientVars
  <1>4. CASE OpenFails(s) \/ Written(s) \/ Drop(s)
    <2>1. pc[s] # "idle" /\ UNCHANGED fsVars /\ \E outcome \in {"failed", "done"} : Over(s, outcome)
      BY <1>4 DEF OpenFails, Written, Drop, Busy, Idle
    <2>. QED BY <2>1, OverFrame DEF Framed, fsVars
  <1>5. CASE Break(s)
    <2>1. pc[s] = "copy" /\ UNCHANGED fsVars
      BY <1>5 DEF Break
    <2>2. CASE Over(s, "failed")
      BY <2>1, <2>2, OverFrame DEF Framed, fsVars
    <2>3. CASE Goto(s, "remove") /\ UNCHANGED <<req, body, fd, pos, source, clientVars, history>>
      BY <2>1, <2>3 DEF Framed, fsVars, Goto, clientVars
    <2>. QED BY <1>5, <2>2, <2>3 DEF Break
  <1>6. CASE TidyUp(s)
    <2>1. /\ pc[s] = "remove" /\ Over(s, "failed") /\ at' = [at EXCEPT ![req[s].path] = None]
          /\ UNCHANGED data
      BY <1>6 DEF TidyUp
    <2>. QED BY <1>0, <2>1, OverFrame DEF Framed
  <1>7. CASE Unlink(s)
    <2>1. pc[s] = "unlink" /\ UNCHANGED data
      BY <1>7 DEF Unlink
    <2>2. CASE req[s].op = "rmdir"
      <3>1. /\ at' = [p \in Paths |-> None] /\ Goto(s, "rmdir")
            /\ UNCHANGED <<req, body, fd, pos, source, clientVars, history>>
        BY <1>7, <2>2 DEF Unlink
      <3>2. PathsOf(req[s]) = Paths
        BY <2>2 DEF PathsOf
      <3>. QED BY <2>1, <3>1, <3>2 DEF Framed, Goto, clientVars
    <2>3. CASE req[s].op # "rmdir"
      <3>1. at' = [at EXCEPT ![req[s].path] = None] /\ Over(s, "done")
        BY <1>7, <2>3 DEF Unlink
      <3>2. PathsOf(req[s]) = {req[s].path, req[s].to}
        BY <2>1, <2>3 DEF PathsOf, Shape, Serves
      <3>. QED BY <2>1, <3>1, <3>2, OverFrame DEF Framed
    <2>. QED BY <2>2, <2>3
  <1>8. CASE RemoveDir(s) \/ MakeDir(s)
    <2>1. pc[s] # "idle" /\ UNCHANGED <<at, data>> /\ Over(s, "done")
      BY <1>8 DEF RemoveDir, MakeDir
    <2>. QED BY <2>1, OverFrame DEF Framed
  <1>9. CASE Rename(s)
    <2>1. /\ pc[s] = "open" /\ Over(s, "done") /\ UNCHANGED data
          /\ at' = IF req[s].path = req[s].to THEN at
                   ELSE [at EXCEPT ![req[s].to] = at[req[s].path], ![req[s].path] = None]
      BY <1>9 DEF Rename
    <2>2. AtPath(req[s])
      BY <1>0, <2>1
    <2>3. \A p \in Paths \ PathsOf(req[s]) : at'[p] = at[p]
      BY <1>0, <2>1, <2>2
    <2>4. \A p \in PathsIn(req[s]) : at'[p] = None \/ \E q \in PathsIn(req[s]) : at'[p] = at[q]
      BY <1>0, <2>1, <2>2
    <2>. QED BY <2>1, <2>3, <2>4, OverFrame DEF Framed
  <1>10. CASE OpenCopy(s)
    <2>1. PICK i \in Inodes : /\ CreateAt(req[s].to, i)
                              /\ at' = [at EXCEPT ![req[s].to] = i] /\ data' = [data EXCEPT ![i] = <<>>]
                              /\ fd' = [fd EXCEPT ![s] = i]
      BY <1>10 DEF OpenCopy
    <2>2. /\ pc[s] = "open" /\ pc' = [pc EXCEPT ![s] = "bytes"]
          /\ source' = [source EXCEPT ![s] = at[req[s].path]]
          /\ UNCHANGED <<dir, req, body, pos, clientVars, history>>
          /\ PathsOf(req[s]) = {req[s].path, req[s].to} /\ req[s].to \in Paths
      BY <1>0, <1>10 DEF OpenCopy, Goto
    <2>3. i \in Free \/ i = at[req[s].to]
      BY <2>1 DEF CreateAt
    <2>. QED BY <2>1, <2>2, <2>3 DEF Framed, clientVars
  <1>11. CASE CopyBytes(s)
    <2>1. pc[s] = "bytes" /\ UNCHANGED at /\ Over(s, "done") /\ data' = [data EXCEPT ![fd[s]] = data[source[s]]]
      BY <1>11 DEF CopyBytes
    <2>. QED BY <2>1, OverFrame DEF Framed
  <1>. QED BY <1>1, <1>2, <1>3, <1>4, <1>5, <1>6, <1>7, <1>8, <1>9, <1>10, <1>11 DEF Step

-----------------------------------------------------------------------------
(* Types. *)

LEMMA NoRequestIsProper ==
  /\ NoRequest \in Requests /\ Serves(NoRequest, "idle") /\ Proper(NoRequest)
  /\ PathsOf(NoRequest) = {None} /\ ~NoRequest.heard
  BY DEF NoRequest, Requests, Serves, Proper, PathsOf, IsUpload, AtPath

LEMMA OverTyped ==
  ASSUME FilesTyped, NEW s \in Tasks, pc[s] # "idle", NEW outcome \in {"failed", "done"}, Over(s, outcome)
  PROVE  TasksTyped' /\ ClientsTyped' /\ Shape(s)'
  <1>1. TasksTyped'
    BY NoRequestIsProper DEF Over, FilesTyped, TasksTyped, history, Places
  <1>2. ClientsTyped'
    BY DEF Over, FilesTyped, ClientsTyped, Shape, Proper, history
  <1>3. pc'[s] = "idle" /\ req'[s] = NoRequest /\ fd'[s] = None /\ pos'[s] = 0
    BY DEF Over, FilesTyped, TasksTyped
  <1>4. Shape(s)'
    BY <1>3, NoRequestIsProper DEF Shape
  <1>. QED BY <1>1, <1>2, <1>4

\* A path gets a new inode, or the one it has.
LEMMA CreateTyped ==
  ASSUME FilesTyped, NEW p \in Paths, NEW i \in Inodes, CreateAt(p, i), dir, dir' = dir,
         at' = [at EXCEPT ![p] = i], data' = [data EXCEPT ![i] = <<>>]
  PROVE  DiskTyped'
  <1>1. i = at[p] \/ \A q \in Paths : at[q] # i
    BY DEF CreateAt, Free
  <1>2. at' \in [Paths -> Inodes \cup {None}] /\ data' \in [Inodes -> Seq(Chunks)]
    BY DEF FilesTyped, DiskTyped
  <1>3. \A a, b \in Paths : a # b /\ at'[a] # None => at'[a] # at'[b]
    BY <1>1 DEF FilesTyped, DiskTyped
  <1>. QED BY <1>2, <1>3 DEF FilesTyped, DiskTyped

LEMMA StepTyped ==
  ASSUME FilesTyped, NEW s \in Tasks, Step(s) \/ Drop(s)
  PROVE  FilesTyped'
  <1>0. \A t \in Tasks \ {s} : Shape(t)'
    BY StepFrame DEF Framed, FilesTyped, Shape
  <1>a. AtPath(req[s]) => req[s].path \in Paths /\ req[s].to \in Paths
    BY DEF FilesTyped, Shape, Proper
  <1>b. pc[s] \in {"parent", "open", "copy", "remove", "bytes"} => AtPath(req[s])
    BY DEF FilesTyped, Shape, Serves, AtPath
  <1>1. CASE Parent(s)
    <2>1. DiskTyped'
      BY <1>1 DEF Parent, FilesTyped, DiskTyped
    <2>2. TasksTyped' /\ ClientsTyped'
      BY <1>1 DEF Parent, Goto, FilesTyped, TasksTyped, ClientsTyped, clientVars, history,
         Places
    <2>3. Shape(s)'
      BY <1>1 DEF Parent, Goto, FilesTyped, TasksTyped, Shape, Serves
    <2>. QED BY <1>0, <2>1, <2>2, <2>3 DEF FilesTyped
  <1>2. CASE OpenUpload(s)
    <2>1. PICK i \in Inodes :
            \/ /\ req[s].op = "put" /\ dir /\ CreateAt(req[s].path, i)
               /\ at' = [at EXCEPT ![req[s].path] = i] /\ data' = [data EXCEPT ![i] = <<>>]
               /\ fd' = [fd EXCEPT ![s] = i]
               /\ UNCHANGED pos
            \/ /\ req[s].op = "patch" /\ at[req[s].path] = i
               /\ fd' = [fd EXCEPT ![s] = i] /\ pos' = [pos EXCEPT ![s] = Appending]
               /\ UNCHANGED <<at, data>>
      BY <1>2, <1>a DEF OpenUpload, AtPath, FilesTyped, DiskTyped
    <2>2. /\ pc[s] = "open" /\ pc' = [pc EXCEPT ![s] = "copy"]
          /\ UNCHANGED <<dir, req, body, source, clientVars, history>>
          /\ req[s].path \in Paths
      BY <1>2, <1>a, <1>b DEF OpenUpload, Goto
    <2>3. DiskTyped'
      BY <2>1, <2>2, CreateTyped DEF FilesTyped, DiskTyped
    <2>4. /\ fd' \in [Tasks -> Inodes \cup {None}] /\ pos' \in [Tasks -> Nat \cup {Appending}]
          /\ pc' \in [Tasks -> Places]
      <3>1. fd' \in [Tasks -> Inodes \cup {None}]
        BY <2>1 DEF FilesTyped, TasksTyped
      <3>2. pos' \in [Tasks -> Nat \cup {Appending}]
        BY <2>1 DEF FilesTyped, TasksTyped
      <3>. QED BY <2>2, <3>1, <3>2 DEF FilesTyped, TasksTyped, Places
    <2>5. TasksTyped' /\ ClientsTyped'
      BY <2>2, <2>4 DEF FilesTyped, TasksTyped, ClientsTyped, clientVars, history
    <2>6. Shape(s)'
      BY <2>1, <2>2 DEF FilesTyped, TasksTyped, Shape, Serves
    <2>. QED BY <1>0, <2>3, <2>5, <2>6 DEF FilesTyped
  <1>3. CASE Write(s)
    <2>1. /\ pc[s] = "copy" /\ body[s] # <<>> /\ fd[s] \in Inodes
          /\ data' = [data EXCEPT ![fd[s]] = Placed(data[fd[s]], pos[s], Head(body[s]))]
          /\ pos' = [pos EXCEPT ![s] = IF pos[s] = Appending THEN pos[s] ELSE pos[s] + 1]
          /\ body' = [body EXCEPT ![s] = Tail(body[s])]
          /\ UNCHANGED <<dir, at, pc, req, fd, source, clientVars, history>>
      BY <1>3 DEF Write, FilesTyped, Shape
    <2>2. body[s] \in Seq(Chunks) /\ Head(body[s]) \in Chunks /\ Tail(body[s]) \in Seq(Chunks)
      BY <2>1 DEF FilesTyped, TasksTyped
    <2>3. Placed(data[fd[s]], pos[s], Head(body[s])) \in Seq(Chunks)
      BY <2>1, <2>2, PlacedType DEF FilesTyped, DiskTyped, TasksTyped
    <2>4. DiskTyped'
      BY <2>1, <2>3 DEF FilesTyped, DiskTyped
    <2>p. pos'[s] \in Nat \cup {Appending} /\ (pos[s] \in Nat => pos'[s] \in Nat)
          /\ (pos[s] = Appending => pos'[s] = Appending)
      BY <2>1 DEF FilesTyped, TasksTyped, Appending
    <2>5. TasksTyped' /\ ClientsTyped'
      BY <2>1, <2>2, <2>p DEF FilesTyped, TasksTyped, ClientsTyped, clientVars, history
    <2>6. Shape(s)'
      BY <2>1, <2>p DEF FilesTyped, TasksTyped, Shape
    <2>. QED BY <1>0, <2>4, <2>5, <2>6 DEF FilesTyped
  <1>4. CASE OpenFails(s) \/ Written(s) \/ Drop(s)
    <2>1. pc[s] # "idle" /\ UNCHANGED fsVars /\ \E outcome \in {"failed", "done"} : Over(s, outcome)
      BY <1>4 DEF OpenFails, Written, Drop, Busy, Idle
    <2>. QED BY <1>0, <2>1, OverTyped DEF FilesTyped, DiskTyped, fsVars
  <1>5. CASE Break(s)
    <2>1. pc[s] = "copy" /\ UNCHANGED fsVars
      BY <1>5 DEF Break
    <2>2. CASE Over(s, "failed")
      BY <1>0, <2>1, <2>2, OverTyped DEF FilesTyped, DiskTyped, fsVars
    <2>3. CASE req[s].op = "put" /\ Goto(s, "remove") /\ UNCHANGED <<req, body, fd, pos, source, clientVars, history>>
      <3>1. TasksTyped' /\ ClientsTyped'
        BY <2>1, <2>3 DEF Goto, FilesTyped, TasksTyped, ClientsTyped, clientVars, history,
           Places
      <3>2. Shape(s)'
        BY <2>1, <2>3 DEF Goto, FilesTyped, TasksTyped, Shape, Serves
      <3>. QED BY <1>0, <2>1, <3>1, <3>2 DEF FilesTyped, DiskTyped, fsVars
    <2>. QED BY <1>5, <2>2, <2>3 DEF Break
  <1>6. CASE TidyUp(s)
    <2>1. /\ pc[s] = "remove" /\ Over(s, "failed") /\ at' = [at EXCEPT ![req[s].path] = None]
          /\ UNCHANGED <<dir, data>>
      BY <1>6 DEF TidyUp
    <2>2. DiskTyped'
      BY <2>1 DEF FilesTyped, DiskTyped
    <2>. QED BY <1>0, <2>1, <2>2, OverTyped DEF FilesTyped
  <1>7. CASE Unlink(s)
    <2>1. pc[s] = "unlink" /\ UNCHANGED <<dir, data>>
      BY <1>7 DEF Unlink
    <2>2. CASE req[s].op = "rmdir"
      <3>1. /\ at' = [p \in Paths |-> None] /\ Goto(s, "rmdir")
            /\ UNCHANGED <<req, body, fd, pos, source, clientVars, history>>
        BY <1>7, <2>2 DEF Unlink
      <3>2. DiskTyped'
        BY <2>1, <3>1 DEF FilesTyped, DiskTyped
      <3>3. TasksTyped' /\ ClientsTyped'
        BY <2>1, <3>1 DEF Goto, FilesTyped, TasksTyped, ClientsTyped, clientVars, history,
           Places
      <3>4. Shape(s)'
        BY <2>1, <2>2, <3>1 DEF Goto, FilesTyped, TasksTyped, Shape, Serves
      <3>. QED BY <1>0, <3>2, <3>3, <3>4 DEF FilesTyped
    <2>3. CASE req[s].op # "rmdir"
      <3>1. at' = [at EXCEPT ![req[s].path] = None] /\ Over(s, "done")
        BY <1>7, <2>3 DEF Unlink
      <3>2. DiskTyped'
        BY <2>1, <3>1 DEF FilesTyped, DiskTyped
      <3>. QED BY <1>0, <2>1, <3>1, <3>2, OverTyped DEF FilesTyped
    <2>. QED BY <2>2, <2>3
  <1>8. CASE RemoveDir(s) \/ MakeDir(s)
    <2>1. pc[s] # "idle" /\ UNCHANGED <<at, data>> /\ Over(s, "done")
          /\ (dir' = TRUE \/ dir' = (dir /\ \E p \in Paths : at[p] # None))
      BY <1>8 DEF RemoveDir, MakeDir
    <2>2. DiskTyped'
      BY <2>1 DEF FilesTyped, DiskTyped
    <2>. QED BY <1>0, <2>1, <2>2, OverTyped DEF FilesTyped
  <1>9. CASE Rename(s)
    <2>1. /\ pc[s] = "open" /\ Over(s, "done") /\ UNCHANGED <<dir, data>> /\ dir
          /\ at' = IF req[s].path = req[s].to THEN at
                   ELSE [at EXCEPT ![req[s].to] = at[req[s].path], ![req[s].path] = None]
      BY <1>9 DEF Rename
    <2>2. req[s].path \in Paths /\ req[s].to \in Paths
      BY <1>a, <1>b, <2>1
    <2>3. at' \in [Paths -> Inodes \cup {None}]
      BY <2>1, <2>2 DEF FilesTyped, DiskTyped
    <2>4. \A a, b \in Paths : a # b /\ at'[a] # None => at'[a] # at'[b]
      BY <2>1, <2>2 DEF FilesTyped, DiskTyped
    <2>5. DiskTyped'
      BY <2>1, <2>3, <2>4 DEF FilesTyped, DiskTyped
    <2>. QED BY <1>0, <2>1, <2>5, OverTyped DEF FilesTyped
  <1>10. CASE OpenCopy(s)
    <2>1. PICK i \in Inodes : /\ CreateAt(req[s].to, i)
                              /\ at' = [at EXCEPT ![req[s].to] = i] /\ data' = [data EXCEPT ![i] = <<>>]
                              /\ fd' = [fd EXCEPT ![s] = i]
      BY <1>10 DEF OpenCopy
    <2>2. /\ pc[s] = "open" /\ pc' = [pc EXCEPT ![s] = "bytes"] /\ req[s].op = "copy" /\ dir
          /\ source' = [source EXCEPT ![s] = at[req[s].path]] /\ at[req[s].path] # None
          /\ UNCHANGED <<dir, req, body, pos, clientVars, history>>
          /\ req[s].path \in Paths /\ req[s].to \in Paths
      BY <1>a, <1>b, <1>10 DEF OpenCopy, Goto
    <2>3. DiskTyped'
      BY <2>1, <2>2, CreateTyped
    <2>4. at[req[s].path] \in Inodes
      BY <2>2 DEF FilesTyped, DiskTyped
    <2>5. TasksTyped' /\ ClientsTyped'
      BY <2>1, <2>2, <2>4 DEF FilesTyped, TasksTyped, ClientsTyped, clientVars, history, Places
    <2>6. Shape(s)'
      BY <2>1, <2>2, <2>4 DEF FilesTyped, TasksTyped, Shape, Serves
    <2>. QED BY <1>0, <2>3, <2>5, <2>6 DEF FilesTyped
  <1>11. CASE CopyBytes(s)
    <2>1. /\ pc[s] = "bytes" /\ UNCHANGED <<dir, at>> /\ Over(s, "done")
          /\ data' = [data EXCEPT ![fd[s]] = data[source[s]]] /\ source[s] \in Inodes
      BY <1>11 DEF CopyBytes, FilesTyped, Shape
    <2>2. DiskTyped'
      BY <2>1 DEF FilesTyped, DiskTyped
    <2>. QED BY <1>0, <2>1, <2>2, OverTyped DEF FilesTyped
  <1>. QED BY <1>1, <1>2, <1>3, <1>4, <1>5, <1>6, <1>7, <1>8, <1>9, <1>10, <1>11 DEF Step

-----------------------------------------------------------------------------
(* Tasks that do not meet leave each other alone. *)

LEMMA PathsAreIn ==
  ASSUME FilesTyped, NEW t \in Busy
  PROVE  PathsOf(req[t]) \subseteq Paths /\ t \in Tasks
         /\ (AtPath(req[t]) => req[t].path \in PathsOf(req[t]) /\ req[t].to \in PathsOf(req[t]))
  BY DEF FilesTyped, Shape, Serves, Proper, AtPath, PathsOf, Busy, Idle

LEMMA QuietPaths ==
  ASSUME FilesTyped, NEW s \in Tasks, Framed(s), NEW paths \in SUBSET Paths, ~Meets(s, paths)
  PROVE  \A p \in paths : /\ at'[p] = at[p]
                          /\ at[p] # None => data'[at[p]] = data[at[p]]
  <1>. TAKE p \in paths
  <1>1. p \in Paths /\ p \notin PathsOf(req[s]) /\ (at[p] # None => at[p] # fd[s])
    BY DEF Meets
  <1>2. at'[p] = at[p]
    BY <1>1 DEF Framed
  <1>3. ASSUME at[p] # None PROVE data'[at[p]] = data[at[p]]
    <2>1. at[p] \in Inodes /\ at[p] \notin Free \cup {fd[s]}
      BY <1>1, <1>3 DEF FilesTyped, DiskTyped, Free
    <2>2. \A q \in PathsIn(req[s]) : at[p] # at[q]
      BY <1>1, <1>3 DEF FilesTyped, DiskTyped, PathsIn
    <2>. QED BY <2>1, <2>2 DEF Framed
  <1>. QED BY <1>2, <1>3

LEMMA QuietMeets ==
  ASSUME FilesTyped, DiskTyped', NEW s \in Tasks, Framed(s), NEW paths \in SUBSET Paths, ~Meets(s, paths),
         NEW r \in Tasks, pc'[r] # "idle", ~Meets(r, paths)
  PROVE  /\ PathsOf(req'[r]) \cap paths = {}
         /\ \A p \in paths : at'[p] # None => at'[p] # fd'[r]
  <1>1. req'[r] = req[r]
    BY DEF Framed
  <1>2. \A p \in paths : at'[p] = at[p]
    BY QuietPaths
  <1>3. CASE r # s
    BY <1>1, <1>2, <1>3 DEF Framed, Meets
  <1>4. CASE r = s
    <2>1. fd'[s] \in {None, fd[s]} \/ \E q \in PathsIn(req[s]) : fd'[s] = at'[q]
      BY DEF Framed
    <2>2. \A p \in paths : p \notin PathsOf(req[s]) /\ (at[p] # None => at[p] # fd[s])
      BY DEF Meets
    <2>3. ASSUME NEW p \in paths, at'[p] # None PROVE at'[p] # fd'[s]
      <3>1. \A q \in PathsIn(req[s]) : at'[p] # at'[q]
        BY <2>2, <2>3 DEF DiskTyped, PathsIn
      <3>. QED BY <1>2, <2>1, <2>2, <2>3, <3>1
    <2>. QED BY <1>1, <1>4, <2>2, <2>3
  <1>. QED BY <1>3, <1>4

LEMMA StepApart ==
  ASSUME FilesTyped, DiskTyped', NEW s \in Tasks, Framed(s),
         NEW t \in Tasks, pc'[t] # "idle", pc[t] # "idle", Apart(t)
  PROVE  Apart(t)'
  <1>1. req'[t] = req[t] /\ PathsOf(req[t]) \subseteq Paths
    BY PathsAreIn DEF Framed, Busy, Idle
  <1>. SUFFICES ASSUME NEW r \in Tasks \ {t}, pc'[r] # "idle"
                PROVE  /\ PathsOf(req'[r]) \cap PathsOf(req[t]) = {}
                       /\ \A p \in PathsOf(req[t]) : at'[p] # None => at'[p] # fd'[r]
    BY <1>1 DEF Apart, Meets, Busy, Idle
  <1>2. pc[r] # "idle" /\ pc[s] # "idle"
    BY DEF Framed
  <1>3. ~Meets(r, PathsOf(req[t]))
    BY <1>2 DEF Apart, Busy, Idle
  <1>4. CASE t # s
    <2>1. ~Meets(s, PathsOf(req[t]))
      BY <1>2, <1>4 DEF Apart, Busy, Idle
    <2>. QED BY <1>1, <1>3, <2>1, QuietMeets
  <1>5. CASE t = s
    <2>1. req'[r] = req[r] /\ fd'[r] = fd[r]
      BY <1>5 DEF Framed
    <2>2. /\ PathsOf(req[r]) \cap PathsOf(req[t]) = {}
          /\ \A p \in PathsOf(req[t]) : at[p] # None => at[p] # fd[r]
      BY <1>3 DEF Meets
    <2>3. ASSUME NEW p \in PathsOf(req[t]), at'[p] # None PROVE at'[p] # fd[r]
      <3>1. p \in PathsIn(req[s])
        BY <1>1, <1>5 DEF PathsIn
      <3>2. at'[p] \in Free \/ \E q \in PathsIn(req[s]) : at'[p] = at[q]
        BY <2>3, <3>1 DEF Framed
      <3>. QED BY <1>5, <2>2, <2>3, <3>2 DEF Free, PathsIn
    <2>. QED BY <2>1, <2>2, <2>3
  <1>. QED BY <1>4, <1>5

LEMMA StepOthersHold ==
  ASSUME FilesTyped, NEW s \in Tasks, Framed(s),
         NEW t \in Tasks \ {s}, pc[t] # "idle", Apart(t), Holds(t)
  PROVE  Holds(t)'
  <1>1. PathsOf(req[t]) \subseteq Paths /\ ~Meets(s, PathsOf(req[t]))
        /\ (AtPath(req[t]) => req[t].path \in PathsOf(req[t]) /\ req[t].to \in PathsOf(req[t]))
    BY PathsAreIn DEF Framed, Busy, Idle, Apart
  <1>2. \A p \in PathsOf(req[t]) : /\ at'[p] = at[p]
                                   /\ at[p] # None => data'[at[p]] = data[at[p]]
    BY <1>1, QuietPaths
  <1>3. /\ pc'[t] = pc[t] /\ req'[t] = req[t] /\ body'[t] = body[t] /\ fd'[t] = fd[t]
        /\ pos'[t] = pos[t] /\ source'[t] = source[t] /\ before' = before
    BY DEF Framed, history
  <1>4. AtPath(req[t]) => at'[req[t].path] = at[req[t].path] /\ at'[req[t].to] = at[req[t].to]
                          /\ Content(req[t].path)' = Content(req[t].path)
    BY <1>1, <1>2, <1>3 DEF Content
  <1>5. AtPath(req[t]) => (Kept(t)' <=> Kept(t))
    BY <1>3, <1>4 DEF Kept, Content
  <1>6. ASSUME req[t].op = "put" PROVE PutHolds(t)'
    <2>1. PutHolds(t) /\ AtPath(req[t])
      BY <1>6 DEF Holds, AtPath
    <2>2. pc[t] \in {"copy", "remove"} => fd[t] \in Inodes /\ fd[t] # None
      BY DEF FilesTyped, Shape
    <2>3. pc[t] \in {"copy", "remove"} => data'[fd[t]] = data[fd[t]]
      BY <1>1, <1>2, <2>1, <2>2 DEF PutHolds
    <2>. QED BY <1>3, <1>4, <1>5, <2>1, <2>2, <2>3 DEF PutHolds
  <1>7. ASSUME req[t].op = "patch" PROVE PatchHolds(t)'
    <2>1. PatchHolds(t) /\ AtPath(req[t])
      BY <1>7 DEF Holds, AtPath
    <2>2. pc[t] = "copy" => fd[t] \in Inodes /\ fd[t] # None
      BY DEF FilesTyped, Shape
    <2>3. pc[t] = "copy" => data'[fd[t]] = data[fd[t]]
      BY <1>1, <1>2, <2>1, <2>2 DEF PatchHolds
    <2>. QED BY <1>3, <1>4, <1>5, <2>1, <2>2, <2>3 DEF PatchHolds
  <1>8. ASSUME req[t].op = "copy" PROVE CopyHolds(t)'
    <2>1. CopyHolds(t) /\ AtPath(req[t])
      BY <1>8 DEF Holds, AtPath
    <2>. QED BY <1>3, <1>4, <1>5, <2>1 DEF CopyHolds
  <1>9. ASSUME req[t].op \in {"delete", "move"} PROVE Kept(t)'
    BY <1>5, <1>9 DEF Holds, AtPath
  <1>. QED BY <1>3, <1>6, <1>7, <1>8, <1>9 DEF Holds

-----------------------------------------------------------------------------
(* What a task that is alone does itself. *)

LEMMA EmptyConcat == ASSUME NEW s \in Seq(Chunks) PROVE <<>> \o s = s
  BY ConcatEmptySeq

\* The next chunk of a body goes behind what is there.
LEMMA WriteAppends ==
  ASSUME FilesTyped, NEW s \in Tasks, Write(s), pos[s] \in {Appending, Len(data[fd[s]])}
  PROVE  /\ fd[s] \in Inodes /\ fd'[s] = fd[s] /\ pc[s] = "copy" /\ pc'[s] = "copy"
         /\ data'[fd[s]] = Append(data[fd[s]], Head(body[s]))
         /\ data'[fd[s]] \o body'[s] = data[fd[s]] \o body[s]
         /\ pos[s] # Appending => pos'[s] = Len(data'[fd[s]])
         /\ Head(body[s]) \in Chunks /\ data[fd[s]] \in Seq(Chunks)
  <1>. DEFINE d == data[fd[s]]
  <1>1. /\ pc[s] = "copy" /\ body[s] # <<>> /\ fd[s] \in Inodes /\ body[s] \in Seq(Chunks)
        /\ d \in Seq(Chunks)
        /\ data'[fd[s]] = Placed(d, pos[s], Head(body[s]))
        /\ pos'[s] = IF pos[s] = Appending THEN pos[s] ELSE pos[s] + 1
        /\ body'[s] = Tail(body[s]) /\ fd'[s] = fd[s] /\ pc'[s] = pc[s]
    BY DEF Write, FilesTyped, TasksTyped, DiskTyped, Shape
  <1>2. Head(body[s]) \in Chunks
    BY <1>1
  <1>. HIDE DEF d
  <1>3. Placed(d, pos[s], Head(body[s])) = Append(d, Head(body[s]))
    BY <1>1, <1>2, PlacedAtEnd DEF d
  <1>4. Append(d, Head(body[s])) \o Tail(body[s]) = d \o body[s]
    BY <1>1, AppendTail
  <1>5. Len(Append(d, Head(body[s]))) = Len(d) + 1
    BY <1>1, <1>2
  <1>. QED BY <1>1, <1>2, <1>3, <1>4, <1>5 DEF d

LEMMA StepOwnHolds ==
  ASSUME FilesTyped, NEW s \in Tasks, Step(s) \/ Drop(s), pc'[s] # "idle", Holds(s)
  PROVE  Holds(s)'
  <1>. DEFINE r == req[s]
              p == req[s].path
  <1>0. Framed(s) /\ req'[s] = req[s] /\ before' = before
    BY StepFrame DEF Framed, history
  <1>a. AtPath(req[s]) => p \in Paths /\ req[s].to \in Paths
    BY DEF FilesTyped, Shape, Proper
  <1>b. pc[s] \in {"parent", "open", "copy", "remove", "bytes"} => AtPath(req[s])
    BY DEF FilesTyped, Shape, Serves, AtPath
  <1>1. CASE Parent(s)
    <2>1. /\ pc[s] = "parent" /\ pc'[s] = "open"
          /\ UNCHANGED <<at, data, req, body, fd, pos, source, before>>
      BY <1>0, <1>1 DEF Parent, Goto, FilesTyped, TasksTyped
    <2>2. Content(p)' = Content(p)
      BY <2>1 DEF Content
    <2>. QED BY <2>1, <2>2 DEF Holds, PutHolds, PatchHolds, CopyHolds, Kept, Content
  <1>2. CASE OpenUpload(s)
    <2>1. /\ pc[s] = "open" /\ pc'[s] = "copy" /\ pos[s] = 0 /\ UNCHANGED body
      BY <1>2 DEF OpenUpload, Goto, FilesTyped, TasksTyped, Shape
    <2>2. CASE r.op = "put"
      <3>1. PICK i \in Inodes : /\ at'[p] = i /\ data'[i] = <<>> /\ fd'[s] = i /\ pos'[s] = 0
        BY <1>2, <1>a, <1>b, <2>1, <2>2 DEF OpenUpload, FilesTyped, DiskTyped, TasksTyped
      <3>2. body[s] = File(r.by) /\ r.by \in Uploaders
        BY <2>1, <2>2 DEF Holds, PutHolds, FilesTyped, Shape, Proper, IsUpload
      <3>3. <<>> \o body[s] = File(r.by) /\ Len(<<>>) = 0
        BY <3>2, EmptyConcat, FileType
      <3>. QED BY <1>0, <2>1, <2>2, <3>1, <3>3 DEF Holds, PutHolds
    <2>3. CASE r.op = "patch"
      <3>1. /\ at[p] # None /\ fd'[s] = at[p] /\ UNCHANGED <<at, data>>
        BY <1>2, <2>3 DEF OpenUpload, FilesTyped, TasksTyped
      <3>2. data[at[p]] = before[s][p] /\ data[at[p]] \in Seq(Chunks)
        BY <1>a, <1>b, <2>1, <2>3, <3>1 DEF Holds, PatchHolds, Kept, Content, FilesTyped,
           DiskTyped
      <3>. QED BY <1>0, <2>1, <2>3, <3>1, <3>2, PrefixRefl DEF Holds, PatchHolds
    <2>. QED BY <1>2, <2>2, <2>3 DEF OpenUpload
  <1>3. CASE Write(s)
    <2>1. pc[s] = "copy" /\ at' = at
      BY <1>3 DEF Write
    <2>2. CASE r.op = "put"
      <3>1. /\ at[p] = fd[s] /\ pos[s] = Len(data[fd[s]])
            /\ data[fd[s]] \o body[s] = File(r.by)
        BY <2>1, <2>2 DEF Holds, PutHolds
      <3>2. pos[s] # Appending
        BY <2>1, <2>2 DEF FilesTyped, Shape, Appending
      <3>. QED BY <1>0, <1>3, <2>1, <2>2, <3>1, <3>2, WriteAppends DEF Holds, PutHolds
    <2>3. CASE r.op = "patch"
      <3>1. /\ at[p] = fd[s] /\ pos[s] = Appending
            /\ before[s][p] \in Seq(Chunks) /\ IsPrefix(before[s][p], data[fd[s]])
        BY <2>1, <2>3 DEF Holds, PatchHolds, FilesTyped, Shape
      <3>2. IsPrefix(before[s][p], data'[fd[s]])
        <4>1. /\ data'[fd[s]] = Append(data[fd[s]], Head(body[s]))
              /\ Head(body[s]) \in Chunks /\ data[fd[s]] \in Seq(Chunks)
          BY <1>3, <3>1, WriteAppends
        <4>2. IsPrefix(before[s][p], Append(data[fd[s]], Head(body[s])))
          BY <3>1, <4>1, PrefixAppend
        <4>. QED BY <4>1, <4>2
      <3>. QED BY <1>0, <1>3, <2>1, <2>3, <3>1, <3>2, WriteAppends DEF Holds, PatchHolds
    <2>. QED BY <2>1, <2>2, <2>3 DEF FilesTyped, Shape, Serves
  <1>4. CASE OpenFails(s) \/ Written(s) \/ Drop(s) \/ TidyUp(s) \/ RemoveDir(s) \/ MakeDir(s)
             \/ Rename(s) \/ CopyBytes(s)
    BY <1>4 DEF OpenFails, Written, Drop, TidyUp, RemoveDir, MakeDir, Rename, CopyBytes, Over,
                FilesTyped, TasksTyped
  <1>5. CASE Break(s)
    <2>1. /\ r.op = "put" /\ pc[s] = "copy" /\ pc'[s] = "remove" /\ UNCHANGED <<at, data, fd>>
      BY <1>5 DEF Break, Over, Goto, fsVars, FilesTyped, TasksTyped
    <2>2. at[p] = fd[s] /\ data[fd[s]] \o body[s] = File(r.by)
      BY <2>1 DEF Holds, PutHolds
    <2>3. data[fd[s]] \in Seq(Chunks) /\ body[s] \in Seq(Chunks)
      BY <2>1 DEF FilesTyped, DiskTyped, TasksTyped, Shape
    <2>4. IsPrefix(data[fd[s]], File(r.by))
      <3>1. IsPrefix(data[fd[s]], data[fd[s]] \o body[s])
        BY <2>3, PrefixConcat
      <3>. QED BY <2>2, <3>1
    <2>. QED BY <1>0, <2>1, <2>2, <2>4 DEF Holds, PutHolds
  <1>6. CASE Unlink(s)
    <2>1. r.op = "rmdir"
      BY <1>6 DEF Unlink, Over, FilesTyped, TasksTyped
    <2>. QED BY <1>0, <2>1 DEF Holds
  <1>7. CASE OpenCopy(s)
    <2>1. PICK i \in Inodes : /\ CreateAt(r.to, i)
                              /\ at' = [at EXCEPT ![r.to] = i] /\ data' = [data EXCEPT ![i] = <<>>]
                              /\ fd' = [fd EXCEPT ![s] = i]
      BY <1>7 DEF OpenCopy
    <2>2. /\ pc[s] = "open" /\ pc'[s] = "bytes" /\ r.op = "copy" /\ source'[s] = at[p] /\ at[p] # None
          /\ p \in Paths /\ r.to \in Paths
      BY <1>7, <1>a, <1>b DEF OpenCopy, Goto, FilesTyped, TasksTyped
    <2>3. at'[r.to] = i /\ fd'[s] = i /\ (i \in Free \/ i = at[r.to])
      BY <2>1, <2>2 DEF CreateAt, FilesTyped, DiskTyped, TasksTyped
    <2>4. CASE p = r.to
      <3>1. i = at[p]
        BY <2>1, <2>2, <2>4 DEF CreateAt
      <3>. QED BY <1>0, <2>2, <2>3, <2>4, <3>1 DEF Holds, CopyHolds
    <2>5. CASE p # r.to
      <3>1. at'[p] = at[p] /\ at[p] # i
        BY <2>1, <2>2, <2>3, <2>5 DEF FilesTyped, DiskTyped, Free
      <3>2. data'[at[p]] = data[at[p]]
        BY <2>1, <2>2, <3>1 DEF FilesTyped, DiskTyped
      <3>3. Kept(s)
        BY <2>2, <2>5 DEF Holds, CopyHolds
      <3>4. Kept(s)'
        BY <1>0, <3>1, <3>2, <3>3 DEF Kept, Content
      <3>. QED BY <1>0, <2>2, <2>3, <3>1, <3>4 DEF Holds, CopyHolds
    <2>. QED BY <2>4, <2>5
  <1>. QED BY <1>1, <1>2, <1>3, <1>4, <1>5, <1>6, <1>7 DEF Step

-----------------------------------------------------------------------------
(* A step of a task keeps the invariant. *)

LEMMA StepHeard ==
  ASSUME FilesTyped, OneIsHeard, NEW s \in Tasks, Framed(s)
  PROVE  OneIsHeard'
  <1>1. \A t \in Tasks : /\ req'[t] = req[t] \/ ~req'[t].heard
                         /\ req'[t].heard => req[t].heard
    BY NoRequestIsProper DEF Framed
  <1>2. UNCHANGED upload \/ /\ req[s].heard /\ ~req'[s].heard
                            /\ \E outcome \in {"failed", "done"} :
                                  upload' = [upload EXCEPT ![req[s].by] = outcome]
    BY NoRequestIsProper DEF Framed
  <1>3. ASSUME NEW t \in Tasks, req'[t].heard PROVE upload'[req'[t].by] = "waits"
    <2>1. req'[t] = req[t] /\ req[t].heard /\ upload[req[t].by] = "waits"
      BY <1>1, <1>3 DEF OneIsHeard
    <2>2. CASE UNCHANGED upload
      BY <2>1, <2>2
    <2>3. CASE ~UNCHANGED upload
      <3>1. t # s /\ req[s].heard
        BY <1>2, <1>3, <2>3
      <3>2. req[t].by # req[s].by
        BY <2>1, <3>1 DEF OneIsHeard
      <3>3. req[t].by \in Uploaders
        BY <2>1 DEF FilesTyped, Shape, Proper
      <3>. QED BY <1>2, <2>1, <2>3, <3>2, <3>3 DEF FilesTyped, ClientsTyped
    <2>. QED BY <2>2, <2>3
  <1>4. \A a, b \in Tasks : req'[a].heard /\ req'[b].heard /\ req'[a].by = req'[b].by => a = b
    BY <1>1 DEF OneIsHeard
  <1>5. \A u \in Uploaders : upload'[u] = "ready" => offset'[u] = 0
    BY <1>2 DEF OneIsHeard, Framed, FilesTyped, ClientsTyped
  <1>. QED BY <1>3, <1>4, <1>5 DEF OneIsHeard

LEMMA StepAlone ==
  ASSUME FilesTyped, AloneHolds, NEW s \in Tasks, Step(s) \/ Drop(s)
  PROVE  AloneHolds'
  <1>. SUFFICES ASSUME NEW t \in Tasks, pc'[t] # "idle", alone'[t]
                PROVE  Apart(t)' /\ Holds(t)'
    BY DEF AloneHolds, Busy, Idle
  <1>1. Framed(s) /\ FilesTyped'
    BY StepFrame, StepTyped
  <1>2. alone[t] /\ pc[t] # "idle"
    BY <1>1 DEF Framed, history
  <1>3. Apart(t) /\ Holds(t)
    BY <1>2 DEF AloneHolds, Busy, Idle
  <1>4. Apart(t)'
    BY <1>1, <1>2, <1>3, StepApart DEF FilesTyped
  <1>5. Holds(t)'
    BY <1>1, <1>2, <1>3, StepOthersHold, StepOwnHolds
  <1>. QED BY <1>4, <1>5

LEMMA StepArrives ==
  ASSUME FilesTyped, NEW s \in Tasks, Step(s) \/ Drop(s), NEW t \in Tasks, pc'[t] # "idle", IsUpload(req[t]),
         Apart(t), Holds(t), Arrives(t)
  PROVE  Arrives(t)'
  <1>1. /\ Framed(s) /\ pc[t] # "idle" /\ req'[t] = req[t] /\ UNCHANGED <<alone, before>>
    BY StepFrame DEF Framed, history
  <1>. SUFFICES ASSUME req[t].op = "patch"
                PROVE  /\ pc'[t] = "copy" => data'[fd'[t]] \o body'[t] = File(req[t].by)
                       /\ pc'[t] # "copy" => before[t][req[t].path] \o body'[t] = File(req[t].by)
    BY <1>1 DEF Arrives
  <1>2. /\ req[t].path \in Paths /\ PathsOf(req[t]) = {req[t].path} /\ pc[t] \in {"parent", "open", "copy"}
        /\ pc[t] = "copy" => fd[t] \in Inodes /\ fd[t] # None /\ at[req[t].path] = fd[t] /\ pos[t] = Appending
        /\ pc[t] # "copy" => Kept(t) /\ at[req[t].path] # None
    <2>1. Proper(req[t]) /\ Serves(req[t], pc[t]) /\ pc[t] \in Places
      BY DEF FilesTyped, TasksTyped, Shape
    <2>2. req[t].path \in Paths /\ PathsOf(req[t]) = {req[t].path}
      BY <2>1 DEF Proper, AtPath, IsUpload, PathsOf
    <2>3. pc[t] \in {"parent", "open", "copy"}
      BY <1>1, <2>1 DEF Serves, Places
    <2>4. pc[t] = "copy" => fd[t] \in Inodes /\ fd[t] # None /\ pos[t] = Appending
      BY DEF FilesTyped, Shape
    <2>5. PatchHolds(t)
      BY DEF Holds
    <2>. QED BY <2>2, <2>3, <2>4, <2>5 DEF PatchHolds
  <1>3. CASE t # s
    <2>1. /\ pc'[t] = pc[t] /\ body'[t] = body[t] /\ fd'[t] = fd[t]
      BY <1>1, <1>3 DEF Framed
    <2>2. ~Meets(s, PathsOf(req[t]))
      BY <1>1, <1>3 DEF Apart, Framed, Busy, Idle
    <2>3. pc[t] = "copy" => data'[fd[t]] = data[fd[t]]
      BY <1>1, <1>2, <2>2, QuietPaths
    <2>. QED BY <2>1, <2>3 DEF Arrives
  <1>4. CASE t = s
    <2>1. Parent(s) \/ OpenUpload(s) \/ Write(s)
      BY <1>2, <1>4 DEF Step, Drop, OpenFails, Written, Break, TidyUp, Unlink, RemoveDir,
         MakeDir,
                        Rename, OpenCopy, CopyBytes, Over, FilesTyped, TasksTyped
    <2>2. CASE Parent(s)
      <3>1. pc[s] = "parent" /\ pc'[s] = "open" /\ UNCHANGED body
        BY <2>2 DEF Parent, Goto, FilesTyped, TasksTyped
      <3>. QED BY <1>4, <3>1 DEF Arrives
    <2>3. CASE OpenUpload(s)
      <3>1. /\ pc[s] = "open" /\ pc'[s] = "copy" /\ fd'[s] = at[req[s].path] /\ UNCHANGED <<data, body>>
        BY <1>4, <2>3 DEF OpenUpload, Goto, FilesTyped, TasksTyped
      <3>2. data[at[req[s].path]] = before[s][req[s].path]
        BY <1>2, <1>4, <3>1 DEF Kept, Content
      <3>. QED BY <1>4, <3>1, <3>2 DEF Arrives
    <2>4. CASE Write(s)
      <3>1. pc[s] = "copy"
        BY <2>4 DEF Write
      <3>2. fd'[s] = fd[s] /\ pc'[s] = "copy" /\ data'[fd[s]] \o body'[s] = data[fd[s]] \o body[s]
        BY <1>2, <1>4, <2>4, <3>1, WriteAppends
      <3>. QED BY <1>4, <3>1, <3>2 DEF Arrives
    <2>. QED BY <2>1, <2>2, <2>3, <2>4
  <1>. QED BY <1>3, <1>4

LEMMA StepUploads ==
  ASSUME FilesInv, NEW s \in Tasks, Step(s) \/ Drop(s)
  PROVE  UploadHolds'
  <1>1. Framed(s) /\ FilesTyped /\ FilesTyped' /\ UNCHANGED <<fouled, offset>>
    BY StepFrame, StepTyped DEF FilesInv, Framed, history
  <1>2. ASSUME NEW t \in Tasks, req'[t].heard, ~fouled'[req'[t].by] PROVE Arrives(t)'
    <2>1. req'[t] = req[t] /\ req[t].heard /\ ~fouled[req[t].by]
      BY <1>1, <1>2, NoRequestIsProper DEF Framed
    <2>2. Arrives(t) /\ IsUpload(req[t]) /\ pc[t] # "idle" /\ pc'[t] # "idle"
      BY <1>1, <2>1 DEF FilesInv, FilesTyped, UploadHolds, Shape, Proper, Serves, IsUpload
    <2>3. Apart(t) /\ Holds(t)
      BY <2>2 DEF FilesInv, AloneHolds, Arrives, Busy, Idle
    <2>. QED BY <1>1, <2>2, <2>3, StepArrives
  <1>3. ASSUME NEW u \in Uploaders, upload'[u] = "found", ~fouled'[u]
        PROVE  /\ \A t \in Busy' : ~Meets(t, {Target[u]})'
               /\ offset'[u] > 0 => /\ offset'[u] <= Length
                                    /\ Content(Target[u])' = SubSeq(File(u), 1, offset'[u])
    <2>1. upload[u] = "found" /\ ~fouled[u]
      BY <1>1, <1>3 DEF Framed, FilesTyped, ClientsTyped
    <2>2. /\ \A t \in Busy : ~Meets(t, {Target[u]})
          /\ offset[u] > 0 => /\ offset[u] <= Length
                              /\ Content(Target[u]) = SubSeq(File(u), 1, offset[u])
      BY <2>1 DEF FilesInv, UploadHolds
    <2>3. ~Meets(s, {Target[u]}) /\ Target[u] \in Paths
      BY <1>1, <2>2 DEF Framed, Busy, Idle
    <2>4. at'[Target[u]] = at[Target[u]]
          /\ (at[Target[u]] # None => data'[at[Target[u]]] = data[at[Target[u]]])
      BY <1>1, <2>3, QuietPaths
    <2>5. ASSUME NEW t \in Tasks, pc'[t] # "idle"
          PROVE  /\ PathsOf(req'[t]) \cap {Target[u]} = {}
                 /\ \A p \in {Target[u]} : at'[p] # None => at'[p] # fd'[t]
      <3>1. ~Meets(t, {Target[u]})
        BY <1>1, <2>2, <2>5 DEF Framed, Busy, Idle
      <3>. QED BY <1>1, <2>3, <2>5, <3>1, QuietMeets DEF FilesTyped
    <2>6. \A t \in Busy' : ~Meets(t, {Target[u]})'
      BY <2>5 DEF Meets, Busy, Idle
    <2>. QED BY <1>1, <2>2, <2>4, <2>6 DEF Content
  <1>. QED BY <1>2, <1>3 DEF UploadHolds

LEMMA StepInv ==
  ASSUME FilesInv, NEW s \in Tasks, Step(s) \/ Drop(s)
  PROVE  FilesInv'
  BY StepTyped, StepFrame, StepHeard, StepAlone, StepUploads DEF FilesInv

-----------------------------------------------------------------------------
(* A request is taken up. *)

LEMMA ContentType == ASSUME FilesTyped, NEW p \in Paths PROVE Content(p) \in Contents
  BY DEF FilesTyped, DiskTyped, Content, Contents

\* What a new request brings, and what the page that sent it knows.
Brings(r, where, b) ==
    /\ r \in Requests /\ Proper(r) /\ Serves(r, where) /\ where \in {"parent", "unlink", "mkdir"}
    /\ b \in Seq(Chunks)
    /\ r.op = "put" => b = File(r.by)
    /\ r.op = "patch" => at[r.path] # None
    /\ ~IsUpload(r) => UNCHANGED upload
    /\ IsUpload(r) => /\ r.heard /\ upload[r.by] \in {"ready", "found"}
                      /\ upload' = [upload EXCEPT ![r.by] = "waits"]
                      /\ r.op = "patch" /\ ~fouled[r.by] => Content(r.path) \o b = File(r.by)

LEMMA TakeUpInv ==
  ASSUME FilesInv, NEW t \in Tasks, NEW r, NEW where, NEW b, TakeUp(t, r, where, b), Brings(r, where, b),
         UNCHANGED <<fsVars, fd, pos, source, offset>>,
         tries' \in [Uploaders -> Nat], others' \in Nat
  PROVE  FilesInv'
  <1>. DEFINE met == {s \in Busy : Meets(s, PathsOf(r))}
  <1>1. /\ pc[t] = "idle" /\ pc'[t] = where /\ where # "idle" /\ where \in Places
        /\ req'[t] = r /\ body'[t] = b
        /\ before'[t] = [p \in Paths |-> Content(p)] /\ fd[t] = None /\ pos[t] = 0
    BY DEF TakeUp, Brings, FilesInv, FilesTyped, TasksTyped, Shape, Idle, Places
  <1>2. \A s \in Tasks \ {t} : /\ pc'[s] = pc[s] /\ req'[s] = req[s] /\ body'[s] = body[s]
                               /\ before'[s] = before[s]
    BY DEF TakeUp, FilesInv, FilesTyped, TasksTyped
  <1>3. UNCHANGED <<dir, at, data, fd, pos, source, offset>>
    BY DEF fsVars
  <1>4. /\ alone'[t] <=> met = {}
        /\ \A s \in Tasks \ {t} : alone'[s] <=> alone[s] /\ s \notin met
        /\ alone' \in [Tasks -> BOOLEAN]
    BY DEF TakeUp, FilesInv, FilesTyped, TasksTyped
  <1>5. /\ fouled' \in [Uploaders -> BOOLEAN]
        /\ \A u \in Uploaders : ~fouled'[u] =>
             /\ ~fouled[u]
             /\ Target[u] \notin PathsOf(r) \/ r.by = u \/ upload[u] = "ready"
             /\ r.by # u \/ met = {}
    BY DEF TakeUp, FilesInv, FilesTyped, ClientsTyped
  <1>6. FilesTyped'
    <2>1. DiskTyped'
      BY <1>3 DEF FilesInv, FilesTyped, DiskTyped
    <2>2. TasksTyped'
      <3>1. [p \in Paths |-> Content(p)] \in [Paths -> Contents]
        BY ContentType DEF FilesInv
      <3>2. before' \in [Tasks -> [Paths -> Contents]]
        BY <3>1 DEF TakeUp, FilesInv, FilesTyped, TasksTyped
      <3>3. pc' \in [Tasks -> Places] /\ req' \in [Tasks -> Requests] /\ body' \in [Tasks -> Seq(Chunks)]
        BY <1>1 DEF TakeUp, Brings, FilesInv, FilesTyped, TasksTyped
      <3>. QED BY <1>3, <1>4, <3>2, <3>3 DEF FilesInv, FilesTyped, TasksTyped
    <2>3. ClientsTyped'
      <3>1. upload' \in [Uploaders -> {"ready", "waits", "found", "failed", "done"}]
        BY DEF Brings, Proper, FilesInv, FilesTyped, ClientsTyped
      <3>. QED BY <1>3, <1>5, <3>1 DEF FilesInv, FilesTyped, ClientsTyped
    <2>4. Shape(t)'
      BY <1>1, <1>3 DEF Shape, Brings
    <2>5. \A s \in Tasks \ {t} : Shape(s)'
      BY <1>2, <1>3 DEF FilesInv, FilesTyped, Shape
    <2>. QED BY <2>1, <2>2, <2>3, <2>4, <2>5 DEF FilesTyped
  <1>7. AloneHolds'
    <2>1. ASSUME alone'[t] PROVE Apart(t)'
      <3>1. \A s \in Tasks \ {t} : pc[s] # "idle" => ~Meets(s, PathsOf(r))
        BY <1>4, <2>1 DEF Busy, Idle
      <3>. QED BY <1>1, <1>2, <1>3, <3>1 DEF Apart, Meets, Busy, Idle
    <2>2. Holds(t)'
      <3>1. AtPath(r) => r.path \in Paths /\ before'[t][r.path] = Content(r.path)
        BY <1>1 DEF Brings, Proper
      <3>2. AtPath(r) => Kept(t)'
        BY <1>1, <1>3, <3>1 DEF Kept, Content
      <3>3. r.op \in {"put", "patch", "copy"} => where = "parent"
        BY DEF Brings, Serves
      <3>. QED BY <1>1, <1>3, <3>2, <3>3 DEF Holds, PutHolds, PatchHolds, CopyHolds, Brings, AtPath
    <2>3. ASSUME NEW s \in Tasks \ {t}, pc[s] # "idle", alone'[s] PROVE Apart(s)' /\ Holds(s)'
      <3>1. Apart(s) /\ Holds(s) /\ ~Meets(s, PathsOf(r))
        BY <1>4, <2>3 DEF FilesInv, AloneHolds, Busy, Idle
      <3>2. Apart(s)'
        <4>1. \A x \in Tasks \ {s, t} : pc'[x] # "idle" => ~Meets(x, PathsOf(req[s]))
          BY <1>2, <3>1 DEF Apart, Busy, Idle
        <4>2. PathsOf(r) \cap PathsOf(req[s]) = {}
          BY <3>1 DEF Meets
        <4>. QED BY <1>1, <1>2, <1>3, <4>1, <4>2 DEF Apart, Meets, Busy, Idle
      <3>3. Holds(s)'
        BY <1>2, <1>3, <3>1 DEF Holds, PutHolds, PatchHolds, CopyHolds, Kept, Content
      <3>. QED BY <3>2, <3>3
    <2>. QED BY <1>2, <2>1, <2>2, <2>3 DEF AloneHolds, Busy, Idle
  <1>h. \A s \in Tasks : req[s].heard => /\ s # t /\ upload[req[s].by] = "waits" /\ IsUpload(req[s])
                                         /\ req[s].by \in Uploaders /\ pc[s] # "idle"
    BY <1>1 DEF FilesInv, FilesTyped, Shape, Serves, Proper, IsUpload, OneIsHeard
  <1>8. OneIsHeard'
    <2>1. ~IsUpload(r) => ~r.heard /\ UNCHANGED upload
      BY DEF Brings, Proper
    <2>2. IsUpload(r) => \A s \in Tasks : req[s].heard => req[s].by # r.by
      BY <1>h DEF Brings
    <2>3. \A s \in Tasks : req'[s].heard => upload'[req'[s].by] = "waits"
      <3>1. CASE ~IsUpload(r)
        BY <1>1, <1>2, <1>h, <2>1, <3>1
      <3>2. CASE IsUpload(r)
        <4>1. /\ r.by \in Uploaders /\ upload'[r.by] = "waits"
              /\ \A u \in Uploaders \ {r.by} : upload'[u] = upload[u]
          BY <3>2 DEF Brings, Proper, FilesInv, FilesTyped, ClientsTyped
        <4>. QED BY <1>1, <1>2, <1>h, <2>2, <3>2, <4>1
      <3>. QED BY <3>1, <3>2
    <2>4. \A x, y \in Tasks : req'[x].heard /\ req'[y].heard /\ req'[x].by = req'[y].by => x = y
      BY <1>1, <1>2, <1>h, <2>1, <2>2 DEF FilesInv, OneIsHeard
    <2>5. \A u \in Uploaders : upload'[u] = "ready" => offset'[u] = 0
      BY <1>3, <2>1 DEF Brings, FilesInv, FilesTyped, ClientsTyped, OneIsHeard
    <2>. QED BY <2>3, <2>4, <2>5 DEF OneIsHeard
  <1>9. UploadHolds'
    <2>1. ASSUME NEW s \in Tasks \ {t}, req[s].heard, ~fouled'[req[s].by] PROVE Arrives(s)'
      <3>1. Arrives(s) /\ ~fouled[req[s].by]
        BY <1>5, <1>h, <2>1 DEF FilesInv, UploadHolds
      <3>2. Target[req[s].by] \notin PathsOf(r)
        BY <1>5, <1>h, <2>1 DEF Brings, Proper
      <3>3. /\ PathsOf(req[s]) = {Target[req[s].by]} /\ Target[req[s].by] \in Paths
            /\ req[s].path = Target[req[s].by]
        BY <1>h, <2>1 DEF FilesInv, FilesTyped, Shape, Proper, PathsOf, IsUpload
      <3>4. fd[s] = None \/ fd[s] = at[Target[req[s].by]]
        <4>1. Holds(s)
          BY <1>h, <2>1, <3>1 DEF FilesInv, AloneHolds, Arrives, Busy, Idle
        <4>2. pc[s] \in {"copy", "remove"} \/ fd[s] = None
          BY <1>h, <2>1 DEF FilesInv, FilesTyped, Shape, Serves, IsUpload
        <4>. QED BY <1>h, <2>1, <3>3, <4>1, <4>2 DEF Holds, PutHolds, PatchHolds, IsUpload, FilesInv, FilesTyped, Shape, Serves
      <3>5. PathsOf(r) \subseteq Paths
        BY DEF Brings, Proper, Serves, AtPath, PathsOf
      <3>6. ~Meets(s, PathsOf(r))
        BY <3>2, <3>3, <3>4, <3>5 DEF Meets, FilesInv, FilesTyped, DiskTyped
      <3>7. alone'[s]
        BY <1>4, <3>1, <3>6 DEF Arrives
      <3>. QED BY <1>2, <1>3, <3>1, <3>7 DEF Arrives
    <2>2. ASSUME r.heard, ~fouled'[r.by] PROVE Arrives(t)'
      <3>1. IsUpload(r) /\ r.by \in Uploaders
        BY <2>2 DEF Brings, Proper
      <3>2. alone'[t] /\ ~fouled[r.by]
        BY <1>4, <1>5, <2>2, <3>1
      <3>3. r.op = "patch" => where = "parent" /\ before'[t][r.path] \o b = File(r.by)
        BY <1>1, <3>1, <3>2 DEF Brings, Proper, Serves
      <3>. QED BY <1>1, <3>2, <3>3 DEF Arrives
    <2>3. ASSUME NEW u \in Uploaders, upload'[u] = "found", ~fouled'[u]
          PROVE  /\ \A s \in Busy' : ~Meets(s, {Target[u]})'
                 /\ offset'[u] > 0 => /\ offset'[u] <= Length
                                      /\ Content(Target[u])' = SubSeq(File(u), 1, offset'[u])
      <3>1. upload[u] = "found" /\ ~fouled[u] /\ (IsUpload(r) => r.by # u)
        BY <1>5, <2>3 DEF Brings, Proper, FilesInv, FilesTyped, ClientsTyped
      <3>2. Target[u] \notin PathsOf(r)
        BY <1>5, <2>3, <3>1 DEF Brings, Proper
      <3>3. /\ \A s \in Busy : ~Meets(s, {Target[u]})
            /\ offset[u] > 0 => /\ offset[u] <= Length
                                /\ Content(Target[u]) = SubSeq(File(u), 1, offset[u])
        BY <3>1 DEF FilesInv, UploadHolds
      <3>4. \A s \in Busy' : ~Meets(s, {Target[u]})'
        BY <1>1, <1>2, <1>3, <3>2, <3>3 DEF Meets, Busy, Idle
      <3>. QED BY <1>3, <3>3, <3>4 DEF Content
    <2>. QED BY <1>1, <1>2, <2>1, <2>2, <2>3 DEF UploadHolds
  <1>. QED BY <1>6, <1>7, <1>8, <1>9 DEF FilesInv

-----------------------------------------------------------------------------
(* The page and the other clients. *)

\* The requests of the tasks may lose their listener: what is alone stays as it was.
LEMMA StillAlone ==
  ASSUME FilesInv, UNCHANGED <<pc, body, fd, pos, source, at, data, alone, before>>,
         \A t \in Tasks : /\ req'[t].op = req[t].op /\ req'[t].path = req[t].path /\ req'[t].to = req[t].to
                         /\ req'[t].by = req[t].by
  PROVE  /\ AloneHolds' /\ Busy' = Busy
         /\ \A t \in Tasks : Arrives(t) => Arrives(t)'
         /\ \A t \in Tasks, p \in Paths : Meets(t, {p})' <=> Meets(t, {p})
         /\ \A p \in Paths : Content(p)' = Content(p)
  <1>1. \A t \in Tasks : PathsOf(req'[t]) = PathsOf(req[t])
    BY DEF PathsOf
  <1>2. Busy' = Busy /\ \A p \in Paths : Content(p)' = Content(p)
    BY DEF Busy, Idle, Content
  <1>3. ASSUME NEW t \in Tasks, Apart(t) PROVE Apart(t)'
    <2>1. ASSUME NEW s \in Busy \ {t} PROVE ~Meets(s, PathsOf(req[t]))'
      <3>1. s \in Tasks /\ ~Meets(s, PathsOf(req[t]))
        BY <1>3, <2>1 DEF Apart, Busy
      <3>. QED BY <1>1, <3>1 DEF Meets
    <2>. QED BY <1>2, <2>1 DEF Apart
  <1>4. ASSUME NEW t \in Tasks PROVE Kept(t)' <=> Kept(t)
    BY DEF Kept, Content
  <1>5. ASSUME NEW t \in Tasks, Holds(t) PROVE Holds(t)'
    <2>1. PutHolds(t) => PutHolds(t)'
      BY <1>4 DEF PutHolds
    <2>2. PatchHolds(t) => PatchHolds(t)'
      BY <1>4 DEF PatchHolds
    <2>3. CopyHolds(t) => CopyHolds(t)'
      BY <1>4 DEF CopyHolds
    <2>. QED BY <1>4, <1>5, <2>1, <2>2, <2>3 DEF Holds
  <1>6. AloneHolds'
    BY <1>2, <1>3, <1>5 DEF FilesInv, AloneHolds, Busy
  <1>7. \A t \in Tasks : Arrives(t) => Arrives(t)'
    BY DEF Arrives
  <1>8. ASSUME NEW t \in Tasks, NEW p \in Paths PROVE Meets(t, {p})' <=> Meets(t, {p})
    BY <1>1 DEF Meets
  <1>. QED BY <1>2, <1>6, <1>7, <1>8

\* A request that does not get to a task: refused at once, or lost on its way.
LEMMA FailedInv ==
  ASSUME FilesInv, NEW u \in Uploaders, upload[u] \in {"ready", "found"},
         upload' = [upload EXCEPT ![u] = "failed"], UNCHANGED <<taskVars, history, fsVars, offset, others>>,
         tries' \in [Uploaders -> Nat]
  PROVE  FilesInv'
  <1>1. UNCHANGED <<pc, req, body, fd, pos, source, dir, at, data, alone, before, fouled, offset, others>>
    BY DEF taskVars, history, fsVars
  <1>2. /\ upload' \in [Uploaders -> {"ready", "waits", "found", "failed", "done"}]
        /\ \A v \in Uploaders \ {u} : upload'[v] = upload[v]
        /\ upload'[u] = "failed"
    BY DEF FilesInv, FilesTyped, ClientsTyped
  <1>3. FilesTyped'
    BY <1>1, <1>2 DEF FilesInv, FilesTyped, DiskTyped, TasksTyped, ClientsTyped, Shape
  <1>4. /\ AloneHolds' /\ Busy' = Busy
        /\ \A t \in Tasks : Arrives(t) => Arrives(t)'
        /\ \A t \in Tasks, p \in Paths : Meets(t, {p})' <=> Meets(t, {p})
        /\ \A p \in Paths : Content(p)' = Content(p)
    BY <1>1, StillAlone
  <1>5. OneIsHeard'
    <2>1. \A t \in Tasks : req[t].heard => req[t].by # u /\ req[t].by \in Uploaders
      BY DEF FilesInv, OneIsHeard, FilesTyped, Shape, Proper
    <2>. QED BY <1>1, <1>2, <2>1 DEF FilesInv, OneIsHeard
  <1>6. UploadHolds'
    <2>1. \A t \in Tasks : req'[t].heard /\ ~fouled'[req'[t].by] => Arrives(t)'
      BY <1>1, <1>4 DEF FilesInv, UploadHolds
    <2>2. ASSUME NEW v \in Uploaders, upload'[v] = "found", ~fouled'[v]
          PROVE  /\ \A t \in Busy' : ~Meets(t, {Target[v]})'
                 /\ offset'[v] > 0 => /\ offset'[v] <= Length
                                      /\ Content(Target[v])' = SubSeq(File(v), 1, offset'[v])
      <3>1. upload[v] = "found" /\ ~fouled[v] /\ Target[v] \in Paths
        BY <1>1, <1>2, <2>2
      <3>. QED BY <1>1, <1>4, <3>1 DEF FilesInv, UploadHolds, Busy
    <2>. QED BY <2>1, <2>2 DEF UploadHolds
  <1>. QED BY <1>3, <1>4, <1>5, <1>6 DEF FilesInv

LEMMA SendInv == ASSUME FilesInv, NEW u \in Uploaders, Send(u) PROVE FilesInv'
  <1>1. /\ upload[u] \in {"ready", "found"} /\ tries' \in [Uploaders -> Nat]
        /\ UNCHANGED <<fsVars, offset, others>> /\ others' \in Nat
        /\ offset[u] > 0 => upload[u] = "found"
    BY DEF Send, FilesInv, FilesTyped, ClientsTyped, OneIsHeard
  <1>2. CASE upload' = [upload EXCEPT ![u] = "failed"] /\ UNCHANGED <<taskVars, history>>
    BY <1>1, <1>2, FailedInv
  <1>. DEFINE r(op) == [op |-> op, path |-> Target[u], to |-> Target[u], by |-> u, heard |-> TRUE]
  <1>3. ASSUME NEW op \in {"put", "patch"}
        PROVE  r(op) \in Requests /\ Proper(r(op)) /\ Serves(r(op), "parent") /\ IsUpload(r(op))
    BY DEF Requests, Proper, Serves, IsUpload, AtPath
  <1>4. CASE \E t \in Idle : offset[u] > 0 /\ Patch(t, u)
    <2>1. PICK t \in Idle : offset[u] > 0 /\ Patch(t, u)
      BY <1>4
    <2>. DEFINE b == SubSeq(File(u), offset[u] + 1, Length)
    <2>2. CASE at[Target[u]] = None
      BY <1>2, <2>1, <2>2 DEF Patch
    <2>3. CASE at[Target[u]] # None
      <3>1. /\ TakeUp(t, r("patch"), "parent", b)
            /\ upload' = [upload EXCEPT ![u] = "waits"] /\ UNCHANGED <<fd, pos, source>>
        BY <2>1, <2>3 DEF Patch
      <3>2. b \in Seq(Chunks)
        BY FileType DEF FilesInv, FilesTyped, ClientsTyped
      <3>3. ASSUME ~fouled[u] PROVE Content(Target[u]) \o b = File(u)
        <4>1. /\ offset[u] \in 1 .. Length
              /\ Content(Target[u]) = SubSeq(File(u), 1, offset[u])
          <5>1. upload[u] = "found" /\ ~fouled[u] /\ offset[u] > 0 /\ offset[u] \in Nat
            BY <1>1, <2>1, <3>3 DEF FilesInv, FilesTyped, ClientsTyped
          <5>2. offset[u] <= Length /\ Content(Target[u]) = SubSeq(File(u), 1, offset[u])
            BY <5>1 DEF FilesInv, UploadHolds
          <5>. QED BY <5>1, <5>2
        <4>. QED BY <4>1, SplitFile
      <3>4. Brings(r("patch"), "parent", b)
        BY <1>1, <1>3, <2>3, <3>1, <3>2, <3>3 DEF Brings
      <3>. QED BY <1>1, <3>1, <3>4, TakeUpInv DEF Idle
    <2>. QED BY <2>2, <2>3
  <1>5. CASE \E t \in Idle : Put(t, u)
    <2>1. PICK t \in Idle : Put(t, u)
      BY <1>5
    <2>2. CASE ~AllowDelete /\ Size(Target[u]) > 0
      BY <1>2, <2>1, <2>2 DEF Put
    <2>3. CASE ~(~AllowDelete /\ Size(Target[u]) > 0)
      <3>1. /\ TakeUp(t, r("put"), "parent", File(u))
            /\ upload' = [upload EXCEPT ![u] = "waits"] /\ UNCHANGED <<fd, pos, source>>
        BY <2>1, <2>3 DEF Put
      <3>2. Brings(r("put"), "parent", File(u))
        BY <1>1, <1>3, <3>1, FileType DEF Brings
      <3>. QED BY <1>1, <3>1, <3>2, TakeUpInv DEF Idle
    <2>. QED BY <2>2, <2>3
  <1>. QED BY <1>2, <1>4, <1>5 DEF Send

LEMMA RetryInv == ASSUME FilesInv, NEW u \in Uploaders, Retry(u) PROVE FilesInv'
  <1>1. UNCHANGED <<pc, req, body, fd, pos, source, dir, at, data, alone, before, tries, others>>
    BY DEF Retry, taskVars, fsVars
  <1>2. /\ upload[u] = "failed" /\ upload'[u] = "found" /\ offset'[u] = Size(Target[u])
        /\ \A v \in Uploaders \ {u} : upload'[v] = upload[v] /\ offset'[v] = offset[v] /\ fouled'[v] = fouled[v]
        /\ fouled'[u] <=> \/ fouled[u]
                          \/ at[Target[u]] # None /\ ~IsPrefix(Content(Target[u]), File(u))
                          \/ \E t \in Busy : Meets(t, {Target[u]})
    BY DEF Retry, FilesInv, FilesTyped, ClientsTyped
  <1>3. FilesTyped'
    <2>1. Size(Target[u]) \in Nat
      BY DEF Size, FilesInv, FilesTyped, DiskTyped
    <2>2. ClientsTyped'
      BY <1>1, <2>1 DEF Retry, FilesInv, FilesTyped, ClientsTyped
    <2>. QED BY <1>1, <2>2 DEF FilesInv, FilesTyped, DiskTyped, TasksTyped, Shape
  <1>4. /\ AloneHolds' /\ Busy' = Busy
        /\ \A t \in Tasks : Arrives(t) => Arrives(t)'
        /\ \A t \in Tasks, p \in Paths : Meets(t, {p})' <=> Meets(t, {p})
        /\ \A p \in Paths : Content(p)' = Content(p)
    BY <1>1, StillAlone
  <1>h. \A t \in Tasks : req[t].heard => req[t].by # u /\ req[t].by \in Uploaders
    BY <1>2 DEF FilesInv, OneIsHeard, FilesTyped, Shape, Proper
  <1>5. OneIsHeard'
    BY <1>1, <1>2, <1>h DEF FilesInv, OneIsHeard
  <1>6. UploadHolds'
    <2>1. \A t \in Tasks : req'[t].heard /\ ~fouled'[req'[t].by] => Arrives(t)'
      BY <1>1, <1>2, <1>4, <1>h DEF FilesInv, UploadHolds
    <2>2. ASSUME NEW v \in Uploaders \ {u}, upload'[v] = "found", ~fouled'[v]
          PROVE  /\ \A t \in Busy' : ~Meets(t, {Target[v]})'
                 /\ offset'[v] > 0 => /\ offset'[v] <= Length
                                      /\ Content(Target[v])' = SubSeq(File(v), 1, offset'[v])
      <3>1. upload[v] = "found" /\ ~fouled[v] /\ offset'[v] = offset[v] /\ Target[v] \in Paths
        BY <1>2, <2>2
      <3>. QED BY <1>4, <3>1 DEF FilesInv, UploadHolds, Busy
    <2>3. ASSUME ~fouled'[u]
          PROVE  /\ \A t \in Busy' : ~Meets(t, {Target[u]})'
                 /\ offset'[u] > 0 => /\ offset'[u] <= Length
                                      /\ Content(Target[u])' = SubSeq(File(u), 1, offset'[u])
      <3>1. \A t \in Busy : ~Meets(t, {Target[u]})
        BY <1>2, <2>3
      <3>2. ASSUME offset'[u] > 0
            PROVE  offset'[u] <= Length /\ Content(Target[u]) = SubSeq(File(u), 1, offset'[u])
        <4>1. at[Target[u]] # None
          BY <1>2, <3>2 DEF Size
        <4>2. IsPrefix(Content(Target[u]), File(u))
          BY <1>2, <2>3, <4>1
        <4>3. Content(Target[u]) \in Seq(Chunks) /\ offset'[u] = Len(Content(Target[u]))
          BY <1>2, <4>1 DEF Content, Size, FilesInv, FilesTyped, DiskTyped
        <4>. QED BY <4>2, <4>3, PrefixIsSub, FileType
      <3>. QED BY <1>4, <3>1, <3>2 DEF Busy
    <2>. QED BY <1>2, <2>1, <2>2, <2>3 DEF UploadHolds
  <1>. QED BY <1>3, <1>4, <1>5, <1>6 DEF FilesInv

LEMMA LoseInv == ASSUME FilesInv, NEW u \in Uploaders, Lose(u) PROVE FilesInv'
  <1>1. UNCHANGED <<pc, body, fd, pos, source, dir, at, data, alone, before, fouled, offset, tries, others>>
    BY DEF Lose, fsVars, history
  <1>2. /\ upload'[u] = "failed" /\ \A v \in Uploaders \ {u} : upload'[v] = upload[v]
        /\ upload' \in [Uploaders -> {"ready", "waits", "found", "failed", "done"}]
    BY DEF Lose, FilesInv, FilesTyped, ClientsTyped
  <1>3. req' \in [Tasks -> Requests]
    <2>1. ASSUME NEW q \in Requests PROVE [q EXCEPT !.heard = FALSE] \in Requests
      BY DEF Requests
    <2>2. \A t \in Tasks : req[t] \in Requests
      BY DEF FilesInv, FilesTyped, TasksTyped
    <2>3. \A t \in Tasks : (IF req[t].by = u THEN [req[t] EXCEPT !.heard = FALSE] ELSE req[t]) \in Requests
      BY <2>1, <2>2
    <2>. QED BY <2>3 DEF Lose
  <1>4. \A t \in Tasks : /\ req'[t].op = req[t].op /\ req'[t].path = req[t].path /\ req'[t].to = req[t].to
                         /\ req'[t].by = req[t].by
                         /\ req'[t].heard => req[t].heard /\ req[t].by # u
    BY DEF Lose, FilesInv, FilesTyped, TasksTyped, Requests
  <1>5. \A t \in Tasks : PathsOf(req'[t]) = PathsOf(req[t])
    BY <1>4 DEF PathsOf
  <1>6. FilesTyped'
    <2>1. TasksTyped' /\ ClientsTyped' /\ DiskTyped'
      BY <1>1, <1>2, <1>3 DEF FilesInv, FilesTyped, DiskTyped, TasksTyped, ClientsTyped
    <2>2. ASSUME NEW t \in Tasks PROVE Shape(t)'
      <3>1. Serves(req'[t], pc[t]) /\ Proper(req'[t])
        BY <1>4 DEF FilesInv, FilesTyped, Shape, Serves, Proper, AtPath, IsUpload
      <3>. QED BY <1>1, <1>4, <3>1 DEF FilesInv, FilesTyped, Shape
    <2>. QED BY <2>1, <2>2 DEF FilesTyped
  <1>7. /\ AloneHolds' /\ Busy' = Busy
        /\ \A t \in Tasks : Arrives(t) => Arrives(t)'
        /\ \A t \in Tasks, p \in Paths : Meets(t, {p})' <=> Meets(t, {p})
        /\ \A p \in Paths : Content(p)' = Content(p)
    BY <1>1, <1>4, StillAlone
  <1>8. OneIsHeard'
    <2>1. \A t \in Tasks : req[t].heard => req[t].by \in Uploaders
      BY DEF FilesInv, FilesTyped, Shape, Proper
    <2>. QED BY <1>1, <1>2, <1>4, <2>1 DEF FilesInv, OneIsHeard
  <1>9. UploadHolds'
    <2>1. \A t \in Tasks : req'[t].heard /\ ~fouled'[req'[t].by] => Arrives(t)'
      BY <1>1, <1>4, <1>7 DEF FilesInv, UploadHolds
    <2>2. ASSUME NEW v \in Uploaders, upload'[v] = "found", ~fouled'[v]
          PROVE  /\ \A t \in Busy' : ~Meets(t, {Target[v]})'
                 /\ offset'[v] > 0 => /\ offset'[v] <= Length
                                      /\ Content(Target[v])' = SubSeq(File(v), 1, offset'[v])
      <3>1. upload[v] = "found" /\ ~fouled[v] /\ Target[v] \in Paths
        BY <1>1, <1>2, <2>2
      <3>. QED BY <1>1, <1>7, <3>1 DEF FilesInv, UploadHolds, Busy
    <2>. QED BY <2>1, <2>2 DEF UploadHolds
  <1>. QED BY <1>6, <1>7, <1>8, <1>9 DEF FilesInv

LEMMA AskInv ==
  ASSUME FilesInv, NEW t \in Tasks,
         \/ DeleteDir(t) \/ Mkcol(t)
         \/ \E p \in Paths : Delete(t, p) \/ \E q \in Paths : Move(t, p, q) \/ Copy(t, p, q)
  PROVE  FilesInv'
  <1>. DEFINE r(op, p, q) == [op |-> op, path |-> p, to |-> q, by |-> Nobody, heard |-> FALSE]
  <1>1. ASSUME NEW q \in Requests, NEW where \in {"parent", "unlink", "mkdir"},
               Ask(t, q, where), Proper(q), Serves(q, where), ~IsUpload(q)
        PROVE  FilesInv'
    <2>1. Brings(q, where, <<>>)
      BY <1>1 DEF Ask, Brings, IsUpload
    <2>2. /\ TakeUp(t, q, where, <<>>) /\ UNCHANGED <<fsVars, fd, pos, source, offset>>
          /\ tries' \in [Uploaders -> Nat] /\ others' \in Nat
      BY <1>1 DEF Ask, FilesInv, FilesTyped, ClientsTyped
    <2>. QED BY <2>1, <2>2, TakeUpInv
  <1>2. CASE DeleteDir(t)
    <2>1. r("rmdir", None, None) \in Requests /\ Proper(r("rmdir", None, None))
          /\ Serves(r("rmdir", None, None), "unlink") /\ ~IsUpload(r("rmdir", None, None))
      BY DEF Requests, Proper, Serves, IsUpload, AtPath
    <2>. QED BY <1>1, <1>2, <2>1 DEF DeleteDir
  <1>3. CASE Mkcol(t)
    <2>1. r("mkcol", None, None) \in Requests /\ Proper(r("mkcol", None, None))
          /\ Serves(r("mkcol", None, None), "mkdir") /\ ~IsUpload(r("mkcol", None, None))
      BY DEF Requests, Proper, Serves, IsUpload, AtPath
    <2>. QED BY <1>1, <1>3, <2>1 DEF Mkcol
  <1>4. ASSUME NEW p \in Paths, Delete(t, p) PROVE FilesInv'
    <2>1. r("delete", p, p) \in Requests /\ Proper(r("delete", p, p))
          /\ Serves(r("delete", p, p), "unlink") /\ ~IsUpload(r("delete", p, p))
      BY DEF Requests, Proper, Serves, IsUpload, AtPath
    <2>. QED BY <1>1, <1>4, <2>1 DEF Delete
  <1>5. ASSUME NEW p \in Paths, NEW q \in Paths, Move(t, p, q) \/ Copy(t, p, q) PROVE FilesInv'
    <2>1. ASSUME NEW op \in {"move", "copy"}
          PROVE  r(op, p, q) \in Requests /\ Proper(r(op, p, q))
                 /\ Serves(r(op, p, q), "parent") /\ ~IsUpload(r(op, p, q))
      BY DEF Requests, Proper, Serves, IsUpload, AtPath
    <2>2. Ask(t, r("move", p, q), "parent") \/ Ask(t, r("copy", p, q), "parent")
      BY <1>5 DEF Move, Copy
    <2>. QED BY <1>1, <2>1, <2>2
  <1>. QED BY <1>2, <1>3, <1>4, <1>5

-----------------------------------------------------------------------------
(* The specification. *)

LEMMA InitInv == ASSUME Init PROVE FilesInv
  <1>. DEFINE i == CHOOSE f \in [Old -> Inodes] : \A p, q \in Old : p # q => f[p] # f[q]
  <1>1. i \in [Old -> Inodes] /\ \A p, q \in Old : p # q => i[p] # i[q]
    <2>1. \E f \in [Old -> Inodes] : \A p, q \in Old : p # q => f[p] # f[q]
      BY FilesAssumption
    <2>. QED BY <2>1
  <1>2. /\ at = [p \in Paths |-> IF p \in Old THEN i[p] ELSE None]
        /\ data = [n \in Inodes |-> IF \E p \in Old : i[p] = n THEN <<Older>> ELSE <<>>]
    BY DEF Init
  <1>. HIDE DEF i
  <1>3. DiskTyped
    <2>1. dir = (Old # {})
      BY DEF Init
    <2>2. at \in [Paths -> Inodes \cup {None}]
      BY <1>1, <1>2
    <2>3. <<Older>> \in Seq(Chunks) /\ <<>> \in Seq(Chunks)
      BY DEF Older, Chunks
    <2>4. data \in [Inodes -> Seq(Chunks)]
      BY <1>2, <2>3
    <2>5. \A p \in Paths : at[p] # None => p \in Old /\ at[p] = i[p]
      BY <1>2
    <2>6. \A p, q \in Paths : p # q /\ at[p] # None => at[p] # at[q]
      BY <1>1, <2>5
    <2>. QED BY <2>1, <2>2, <2>4, <2>5, <2>6 DEF DiskTyped
  <1>4. TasksTyped
    <2>1. Missing \in Contents
      BY DEF Contents
    <2>2. <<>> \in Seq(Chunks)
      OBVIOUS
    <2>. QED BY <2>1, <2>2, NoRequestIsProper DEF Init, TasksTyped, Places
  <1>5. ClientsTyped
    BY DEF Init, ClientsTyped
  <1>6. \A t \in Tasks : Shape(t)
    BY NoRequestIsProper DEF Init, Shape
  <1>7. Busy = {} /\ \A t \in Tasks : ~req[t].heard
    BY NoRequestIsProper DEF Init, Busy, Idle
  <1>8. \A u \in Uploaders : upload[u] = "ready" /\ offset[u] = 0
    BY DEF Init
  <1>. QED BY <1>3, <1>4, <1>5, <1>6, <1>7, <1>8
           DEF FilesInv, FilesTyped, AloneHolds, OneIsHeard, UploadHolds

LEMMA StutterInv == ASSUME FilesInv, UNCHANGED vars PROVE FilesInv'
  <1>1. UNCHANGED <<pc, req, body, fd, pos, source, dir, at, data, alone, before, fouled,
                    upload, offset, tries, others>>
    BY DEF vars, fsVars, taskVars, clientVars, history
  <1>2. /\ AloneHolds' /\ Busy' = Busy
        /\ \A t \in Tasks : Arrives(t) => Arrives(t)'
        /\ \A t \in Tasks, p \in Paths : Meets(t, {p})' <=> Meets(t, {p})
        /\ \A p \in Paths : Content(p)' = Content(p)
    BY <1>1, StillAlone
  <1>3. FilesTyped'
    BY <1>1 DEF FilesInv, FilesTyped, DiskTyped, TasksTyped, ClientsTyped, Shape
  <1>4. OneIsHeard'
    BY <1>1 DEF FilesInv, OneIsHeard
  <1>5. UploadHolds'
    <2>1. \A t \in Tasks : req'[t].heard /\ ~fouled'[req'[t].by] => Arrives(t)'
      BY <1>1, <1>2 DEF FilesInv, UploadHolds
    <2>2. ASSUME NEW v \in Uploaders, upload'[v] = "found", ~fouled'[v]
          PROVE  /\ \A t \in Busy' : ~Meets(t, {Target[v]})'
                 /\ offset'[v] > 0 => /\ offset'[v] <= Length
                                      /\ Content(Target[v])' = SubSeq(File(v), 1, offset'[v])
      <3>1. upload[v] = "found" /\ ~fouled[v] /\ Target[v] \in Paths
        BY <1>1, <2>2
      <3>. QED BY <1>1, <1>2, <3>1 DEF FilesInv, UploadHolds, Busy
    <2>. QED BY <2>1, <2>2 DEF UploadHolds
  <1>. QED BY <1>2, <1>3, <1>4, <1>5 DEF FilesInv

LEMMA NextInv == ASSUME FilesInv, [Next]_vars PROVE FilesInv'
  <1>1. CASE Client
    <2>1. CASE \E u \in Uploaders : Send(u) \/ Retry(u) \/ Lose(u)
      BY <2>1, SendInv, RetryInv, LoseInv
    <2>2. CASE \E t \in Tasks :
                 \/ DeleteDir(t) \/ Mkcol(t)
                 \/ \E p \in Paths : Delete(t, p) \/ \E q \in Paths : Move(t, p, q) \/ Copy(t, p, q)
      BY <2>2, AskInv
    <2>. QED BY <1>1, <2>1, <2>2 DEF Client
  <1>2. CASE \E t \in Tasks : Step(t) \/ Drop(t)
    BY <1>2, StepInv
  <1>3. CASE UNCHANGED vars
    BY <1>3, StutterInv
  <1>. QED BY <1>1, <1>2, <1>3 DEF Next, Done

\* Every reachable state of the file server keeps the invariant: what a task that
\* is alone has left of its file, and which request the page waits for.
THEOREM FilesInvariant == Spec => []FilesInv
  <1>. QED BY InitInv, NextInv, PTL DEF Spec

\* The state of the file system and of its tasks: an inode has one path at most, no
\* file is without its directory, and who copies has an open file.
THEOREM FilesTypeCorrect == Spec => []TypeOK
  <1>1. FilesInv => TypeOK
    BY DEF FilesInv, FilesTyped, DiskTyped, Shape, TypeOK
  <1>. QED BY <1>1, FilesInvariant, PTL

-----------------------------------------------------------------------------
(* How a task ends. *)

\* The requests of the clients end no task and complete no upload.
LEMMA ClientEndsNothing ==
  ASSUME FilesInv, Client \/ UNCHANGED vars
  PROVE  /\ \A t \in Tasks : pc[t] # "idle" => pc'[t] = pc[t]
         /\ \A u \in Uploaders : upload'[u] = "done" => upload[u] = "done"
  <1>. DEFINE Harmless == /\ \A t \in Tasks : pc[t] # "idle" => pc'[t] = pc[t]
                          /\ \A u \in Uploaders : upload'[u] = "done" => upload[u] = "done"
  <1>1. ASSUME NEW t \in Tasks, NEW r, NEW where, NEW b, TakeUp(t, r, where, b)
        PROVE  \A s \in Tasks : pc[s] # "idle" => pc'[s] = pc[s]
    BY <1>1 DEF TakeUp, Idle, FilesInv, FilesTyped, TasksTyped
  <1>2. ASSUME NEW u \in Uploaders, Send(u) PROVE Harmless
    <2>1. \/ UNCHANGED pc
          \/ \E t \in Tasks : \E r, b : TakeUp(t, r, "parent", b)
      <3>1. ASSUME NEW t \in Idle, Patch(t, u) \/ Put(t, u)
            PROVE  UNCHANGED pc \/ \E r, b : TakeUp(t, r, "parent", b)
        BY <3>1 DEF Patch, Put, taskVars
      <3>. QED BY <1>2, <3>1 DEF Send, Idle, taskVars
    <2>2. \E s \in {"failed", "waits"} : upload' = [upload EXCEPT ![u] = s]
      BY <1>2 DEF Send, Patch, Put
    <2>. QED BY <1>1, <2>1, <2>2 DEF FilesInv, FilesTyped, ClientsTyped
  <1>3. ASSUME NEW u \in Uploaders, Retry(u) \/ Lose(u) PROVE Harmless
    BY <1>3 DEF Retry, Lose, taskVars, FilesInv, FilesTyped, ClientsTyped
  <1>4. ASSUME NEW t \in Tasks, NEW r, NEW where, Ask(t, r, where) PROVE Harmless
    BY <1>1, <1>4 DEF Ask
  <1>5. ASSUME NEW t \in Tasks,
               \/ DeleteDir(t) \/ Mkcol(t)
               \/ \E p \in Paths : Delete(t, p) \/ \E q \in Paths : Move(t, p, q) \/ Copy(t, p, q)
        PROVE  Harmless
    BY <1>4, <1>5 DEF DeleteDir, Mkcol, Delete, Move, Copy
  <1>6. CASE UNCHANGED vars
    BY <1>6 DEF vars, taskVars, clientVars
  <1>. QED BY <1>2, <1>3, <1>5, <1>6 DEF Client

\* A task that ends where the disk stays as it is.
LEMMA StillEnds ==
  ASSUME FilesTyped, NEW t \in Tasks, Holds(t), pc[t] \notin {"idle", "bytes"}, UNCHANGED <<at, data>>
  PROVE  EndsAsAlone(t)
  <1>. DEFINE r == req[t]
              was == before[t][r.path]
  <1>. DEFINE left == Content(r.path)
  <1>1. AtPath(r) => r.path \in Paths
    BY DEF FilesTyped, Shape, Proper
  <1>2. ASSUME r.op = "put"
        PROVE  \/ left \in {was, Missing} /\ (body[t] # <<>> \/ pc[t] # "copy")
               \/ /\ IsPrefix(left, File(r.by))
                  /\ pc[t] = "copy" /\ body[t] = <<>> => left = File(r.by)
    <2>1. PutHolds(t) /\ pc[t] \in {"parent", "open", "copy", "remove"} /\ AtPath(r)
      BY <1>2 DEF Holds, FilesTyped, TasksTyped, Shape, Serves, Places, AtPath
    <2>2. CASE pc[t] \in {"parent", "open"}
      BY <2>1, <2>2 DEF PutHolds, Kept
    <2>3. CASE pc[t] = "copy"
      <3>1. /\ fd[t] \in Inodes /\ data[fd[t]] \in Seq(Chunks) /\ body[t] \in Seq(Chunks)
            /\ data[fd[t]] \o body[t] = File(r.by) /\ left = data[fd[t]]
        BY <2>1, <2>3 DEF PutHolds, Content, FilesTyped, DiskTyped, TasksTyped, Shape
      <3>2. IsPrefix(data[fd[t]], File(r.by))
        <4>1. IsPrefix(data[fd[t]], data[fd[t]] \o body[t])
          BY <3>1, PrefixConcat
        <4>. QED BY <3>1, <4>1
      <3>3. body[t] = <<>> => data[fd[t]] = File(r.by)
        BY <3>1, ConcatEmptySeq
      <3>. QED BY <2>3, <3>1, <3>2, <3>3
    <2>4. CASE pc[t] = "remove"
      BY <2>1, <2>4 DEF PutHolds, Content, FilesTyped, Shape
    <2>. QED BY <2>1, <2>2, <2>3, <2>4
  <1>3. ASSUME r.op = "patch" PROVE IsPrefix(was, left)
    <2>1. PatchHolds(t) /\ pc[t] \in {"parent", "open", "copy"} /\ AtPath(r)
      BY <1>3 DEF Holds, FilesTyped, TasksTyped, Shape, Serves, Places, AtPath
    <2>2. CASE pc[t] \in {"parent", "open"}
      <3>1. left = was /\ left \in Seq(Chunks)
        BY <1>1, <2>1, <2>2 DEF PatchHolds, Kept, Content, FilesTyped, DiskTyped
      <3>. QED BY <3>1, PrefixRefl
    <2>3. CASE pc[t] = "copy"
      BY <2>1, <2>3 DEF PatchHolds, Content, FilesTyped, Shape
    <2>. QED BY <2>1, <2>2, <2>3
  <1>4. r.op \in {"delete", "move"} => left = was /\ AtPath(r)
    BY DEF Holds, Kept, AtPath
  <1>5. r.op = "copy" /\ r.path # r.to => left = was /\ AtPath(r)
    BY DEF Holds, CopyHolds, Kept, AtPath
  <1>6. r.op \in {"put", "patch"} => AtPath(r)
    BY DEF AtPath
  <1>7. left = IF at'[r.path] = None THEN Missing ELSE data'[at'[r.path]]
    BY DEF Content
  <1>. HIDE DEF left
  <1>8. CASE r.op = "put"
    BY <1>2, <1>7, <1>8 DEF EndsAsAlone
  <1>9. CASE r.op = "patch"
    BY <1>3, <1>7, <1>9 DEF EndsAsAlone
  <1>10. CASE r.op \in {"delete", "move", "copy"}
    BY <1>4, <1>5, <1>7, <1>10 DEF EndsAsAlone
  <1>11. CASE r.op \notin {"put", "patch", "delete", "move", "copy"}
    BY <1>11 DEF EndsAsAlone
  <1>. QED BY <1>8, <1>9, <1>10, <1>11

\* A task that was alone comes out as its method says.
LEMMA TaskEnds ==
  ASSUME FilesInv, NEW t \in Tasks, Step(t) \/ Drop(t), pc'[t] = "idle", alone[t]
  PROVE  EndsAsAlone(t)
  <1>1. FilesTyped /\ Holds(t) /\ pc[t] # "idle"
    <2>1. pc[t] # "idle"
      BY StepFrame DEF FilesInv, Framed
    <2>. QED BY <2>1 DEF FilesInv, AloneHolds, Busy, Idle
  <1>. DEFINE p == req[t].path
              q == req[t].to
  <1>a. AtPath(req[t]) => p \in Paths /\ q \in Paths
    BY <1>1 DEF FilesTyped, Shape, Proper
  <1>2. CASE Parent(t) \/ OpenUpload(t) \/ Write(t) \/ OpenCopy(t)
    BY <1>1, <1>2 DEF Parent, OpenUpload, Write, OpenCopy, Goto, FilesTyped, TasksTyped
  <1>3. CASE OpenFails(t) \/ Written(t) \/ Drop(t) \/ Break(t) \/ RemoveDir(t) \/ MakeDir(t)
    <2>1. pc[t] # "bytes" /\ UNCHANGED <<at, data>>
      BY <1>3 DEF OpenFails, Written, Drop, Break, RemoveDir, MakeDir, fsVars
    <2>. QED BY <1>1, <2>1, StillEnds
  <1>4. CASE TidyUp(t)
    <2>1. pc[t] = "remove" /\ at' = [at EXCEPT ![p] = None]
      BY <1>4 DEF TidyUp
    <2>2. req[t].op = "put" /\ p \in Paths
      BY <1>1, <1>a, <2>1 DEF FilesTyped, Shape, Serves, AtPath
    <2>3. at'[p] = None
      BY <1>1, <2>1, <2>2 DEF FilesTyped, DiskTyped
    <2>. QED BY <2>1, <2>2, <2>3 DEF EndsAsAlone
  <1>5. CASE Unlink(t)
    <2>1. /\ req[t].op = "delete" /\ at' = [at EXCEPT ![p] = None]
      BY <1>1, <1>5 DEF Unlink, Goto, FilesTyped, TasksTyped, Shape, Serves
    <2>2. at'[p] = None
      BY <1>1, <1>a, <2>1 DEF FilesTyped, DiskTyped, AtPath
    <2>. QED BY <2>1, <2>2 DEF EndsAsAlone
  <1>6. CASE Rename(t)
    <2>1. /\ req[t].op = "move" /\ at[p] # None /\ data' = data
          /\ p # q => at' = [at EXCEPT ![q] = at[p], ![p] = None]
      BY <1>6 DEF Rename
    <2>2. p \in Paths /\ q \in Paths /\ before[t][p] = data[at[p]]
      BY <1>1, <1>a, <2>1 DEF Holds, Kept, Content, AtPath
    <2>3. p # q => at'[p] = None /\ at'[q] = at[p]
      BY <1>1, <2>1, <2>2 DEF FilesTyped, DiskTyped
    <2>. QED BY <2>1, <2>2, <2>3 DEF EndsAsAlone
  <1>7. CASE CopyBytes(t)
    <2>1. /\ pc[t] = "bytes" /\ at' = at /\ data' = [data EXCEPT ![fd[t]] = data[source[t]]]
      BY <1>7 DEF CopyBytes
    <2>2. /\ req[t].op = "copy" /\ p \in Paths /\ q \in Paths
          /\ fd[t] \in Inodes /\ source[t] \in Inodes /\ at[q] = fd[t] /\ at[p] = source[t]
          /\ p # q => Kept(t)
      BY <1>1, <1>a, <2>1 DEF Holds, CopyHolds, FilesTyped, Shape, Serves, AtPath
    <2>3. data'[fd[t]] = data[source[t]]
      BY <1>1, <2>1, <2>2 DEF FilesTyped, DiskTyped
    <2>4. p # q => data'[source[t]] = data[source[t]] /\ before[t][p] = data[source[t]]
      <3>1. p # q => source[t] # fd[t]
        BY <1>1, <2>2 DEF FilesTyped, DiskTyped
      <3>. QED BY <1>1, <2>1, <2>2, <3>1 DEF FilesTyped, DiskTyped, Kept, Content
    <2>. QED BY <2>1, <2>2, <2>3, <2>4 DEF EndsAsAlone
  <1>. QED BY <1>2, <1>3, <1>4, <1>5, <1>6, <1>7 DEF Step

\* The answer that makes the page report an upload as complete.
LEMMA UploadEnds ==
  ASSUME FilesInv, NEW t \in Tasks, Step(t) \/ Drop(t),
         NEW u \in Uploaders, upload[u] # "done", upload'[u] = "done", ~fouled[u]
  PROVE  Content(Target[u])' = File(u)
  <1>1. /\ Framed(t) /\ FilesTyped /\ upload' # upload
    BY StepFrame DEF FilesInv
  <1>2. req[t].heard /\ IsUpload(req[t]) /\ req[t].by \in Uploaders /\ req[t].path = Target[req[t].by]
    <2>1. req[t].heard
      BY <1>1 DEF Framed
    <2>. QED BY <1>1, <2>1 DEF FilesTyped, Shape, Proper
  <1>3. Written(t)
    <2>1. ~Over(t, "failed")
      BY <1>1, <1>2 DEF Over, FilesTyped, ClientsTyped
    <2>2. pc[t] \in {"parent", "open", "copy", "remove"}
      BY <1>1, <1>2 DEF FilesTyped, TasksTyped, Shape, Serves, Places, IsUpload, Framed
    <2>. QED BY <1>1, <1>2, <2>1, <2>2
             DEF Step, Drop, Parent, OpenUpload, OpenFails, Write, Break, TidyUp, Unlink, RemoveDir,
                 MakeDir, Rename, OpenCopy, CopyBytes, clientVars, IsUpload
  <1>4. /\ pc[t] = "copy" /\ body[t] = <<>> /\ UNCHANGED <<at, data>> /\ req[t].by = u
    <2>1. \E outcome \in {"failed", "done"} : upload' = [upload EXCEPT ![req[t].by] = outcome]
      BY <1>1 DEF Framed
    <2>2. req[t].by = u
      BY <1>1, <1>2, <2>1 DEF FilesTyped, ClientsTyped
    <2>. QED BY <1>3, <2>2 DEF Written, fsVars
  <1>5. Arrives(t) /\ Holds(t)
    <2>1. Arrives(t)
      BY <1>2, <1>4 DEF FilesInv, UploadHolds
    <2>. QED BY <1>4, <2>1 DEF FilesInv, AloneHolds, Arrives, Busy, Idle
  <1>6. at[Target[u]] = fd[t] /\ data[fd[t]] \o body[t] = File(u)
    BY <1>2, <1>4, <1>5 DEF Holds, PutHolds, PatchHolds, Arrives, IsUpload
  <1>7. fd[t] # None /\ data[fd[t]] \in Seq(Chunks)
    BY <1>1, <1>4 DEF FilesTyped, Shape, DiskTyped
  <1>8. data[fd[t]] = File(u)
    BY <1>4, <1>6, <1>7, ConcatEmptySeq
  <1>. QED BY <1>4, <1>6, <1>7, <1>8 DEF Content

LEMMA LoneTasksStep ==
  ASSUME FilesInv, [Next]_vars
  PROVE  (\A u \in Uploaders : ArrivesWhole(u)) /\ (\A t \in Tasks : EndsAsAlone(t))
  <1>1. CASE Client \/ UNCHANGED vars
    BY <1>1, ClientEndsNothing DEF ArrivesWhole, EndsAsAlone
  <1>2. ASSUME NEW s \in Tasks, Step(s) \/ Drop(s)
        PROVE  (\A u \in Uploaders : ArrivesWhole(u)) /\ (\A t \in Tasks : EndsAsAlone(t))
    <2>1. \A u \in Uploaders : ArrivesWhole(u)
      BY <1>2, UploadEnds DEF ArrivesWhole
    <2>2. ASSUME NEW t \in Tasks, pc[t] # "idle", pc'[t] = "idle", alone[t] PROVE EndsAsAlone(t)
      <3>1. t = s
        BY <1>2, <2>2, StepFrame DEF FilesInv, Framed
      <3>. QED BY <1>2, <2>2, <3>1, TaskEnds
    <2>3. ASSUME NEW t \in Tasks, ~(pc[t] # "idle" /\ pc'[t] = "idle" /\ alone[t]) PROVE EndsAsAlone(t)
      BY <2>3 DEF EndsAsAlone
    <2>. QED BY <2>1, <2>2, <2>3
  <1>. QED BY <1>1, <1>2 DEF Next, Done

\* An upload that nothing else met is whole on the server when the page says so,
\* and a request that was alone does what its method says (handle_upload,
\* handle_delete, handle_move, handle_copy; ajax and retry of the page).
THEOREM LoneTasks == Spec => LoneTasksAreWhole
  <1>1. FilesInv /\ [Next]_vars => [\A u \in Uploaders : ArrivesWhole(u)]_vars
    BY LoneTasksStep
  <1>2. FilesInv /\ [Next]_vars => [\A t \in Tasks : EndsAsAlone(t)]_vars
    BY LoneTasksStep
  <1>. QED BY FilesInvariant, <1>1, <1>2, PTL DEF Spec, LoneTasksAreWhole, LoneUploadIsWhole, AloneIsSequential
=============================================================================
