------------------------------ MODULE RamFiles ------------------------------
(* The requests of ram that change files, and the upload protocol of its web   *)
(* page. Every request is a task of its own; no lock orders two requests for   *)
(* one path. A task looks at the path, then opens it, then copies the body; a  *)
(* body that breaks off makes it tidy up by path, not by open file.            *)
(*                                                                             *)
(* One directory, `dir`, holds all the paths. A file is an inode: a path may   *)
(* be unlinked or renamed while a task still writes to what it opened.         *)
EXTENDS Integers, Sequences, FiniteSets, SequencesExt

CONSTANTS
    Paths,        \* file names in the directory
    Uploaders,    \* uploads of the web page, one file each
    Target,       \* [Uploaders -> Paths]: where each uploads to
    Length,       \* chunks of an uploaded file
    Small,        \* files of fewer chunks are not kept for a resumption
    Tasks,        \* slots for requests the server works on
    Inodes,       \* inodes of the file system
    AllowDelete,  \* --allow-delete
    Old,          \* the paths that have a file at the start
    Nobody, None, \* no uploader; no file
    MaxTries,     \* bound: requests of one upload
    MaxOthers     \* bound: requests of other clients

ASSUME FilesAssumption ==
    /\ Target \in [Uploaders -> Paths] /\ Old \subseteq Paths
    /\ Nobody \notin Uploaders /\ None \notin Inodes
    /\ {Length, Small, MaxTries, MaxOthers} \subseteq Nat
    /\ AllowDelete \in BOOLEAN
    /\ \E f \in [Old -> Inodes] : \A p, q \in Old : p # q => f[p] # f[q]

VARIABLES
    dir,       \* the directory exists
    at,        \* the inode of a path, or None
    data,      \* the chunks of an inode
    pc, req,   \* a task: where it stands, and what it was asked
    body,      \*   chunks of its body it has not written yet
    fd, pos,   \*   the inode it writes to, and the position it writes at
    source,    \*   the inode it copies from
    upload,    \* an upload: where it stands
    offset,    \*   what the page believes the server has of the file
    tries, others,
    alone,     \* history: no other task has had its paths since it came
    before,    \* history: the contents its paths had when it came
    fouled     \* history: an upload shared its path with something else

fsVars == <<dir, at, data>>
taskVars == <<pc, req, body, fd, pos, source>>
clientVars == <<upload, offset, tries, others>>
history == <<alone, before, fouled>>
vars == <<fsVars, taskVars, clientVars, history>>

Appending == -1                     \* O_APPEND instead of a position
Hole == <<Nobody, 0>>               \* a chunk nobody wrote
Older == <<Nobody, 1>>              \* the content of a file of the start
Chunks == (Uploaders \cup {Nobody}) \X Nat
File(u) == [i \in 1..Length |-> <<u, i>>]
Missing == <<None>>                 \* the "content" of a path without a file
Content(p) == IF at[p] = None THEN Missing ELSE data[at[p]]
Size(p) == IF at[p] = None THEN 0 ELSE Len(data[at[p]])

Idle == {t \in Tasks : pc[t] = "idle"}
Busy == Tasks \ Idle
Free == Inodes \ ({at[p] : p \in Paths} \cup {fd[t] : t \in Tasks} \cup {source[t] : t \in Tasks})
PathsOf(r) == IF r.op \in {"mkcol", "rmdir"} THEN Paths ELSE {r.path, r.to}
NoRequest == [op |-> "none", path |-> None, to |-> None, by |-> Nobody,
              heard |-> FALSE]

Init ==
    /\ dir = (Old # {})
    /\ LET i == CHOOSE f \in [Old -> Inodes] : \A p, q \in Old : p # q => f[p] # f[q]
       IN /\ at = [p \in Paths |-> IF p \in Old THEN i[p] ELSE None]
          /\ data = [n \in Inodes |-> IF \E p \in Old : i[p] = n THEN <<Older>> ELSE <<>>]
    /\ pc = [t \in Tasks |-> "idle"] /\ req = [t \in Tasks |-> NoRequest]
    /\ body = [t \in Tasks |-> <<>>]
    /\ fd = [t \in Tasks |-> None] /\ source = [t \in Tasks |-> None] /\ pos = [t \in Tasks |-> 0]
    /\ upload = [u \in Uploaders |-> "ready"] /\ offset = [u \in Uploaders |-> 0]
    /\ tries = [u \in Uploaders |-> 0] /\ others = 0
    /\ alone = [t \in Tasks |-> TRUE] /\ fouled = [u \in Uploaders |-> FALSE]
    /\ before = [t \in Tasks |-> [p \in Paths |-> Missing]]

-----------------------------------------------------------------------------
(* Tasks. *)

\* Task s has one of these paths, or writes to a file that a MOVE has brought there.
Meets(s, paths) ==
    \/ PathsOf(req[s]) \cap paths # {}
    \/ \E p \in paths : at[p] # None /\ at[p] = fd[s]

\* A request is taken up: its task is at `where` with the chunks `b` to come.
TakeUp(t, r, where, b) ==
    LET others2 == {s \in Busy : Meets(s, PathsOf(r))}
    IN /\ t \in Idle
       /\ pc' = [pc EXCEPT ![t] = where] /\ req' = [req EXCEPT ![t] = r]
       /\ body' = [body EXCEPT ![t] = b]
       /\ alone' = [s \in Tasks |-> IF s = t THEN others2 = {} ELSE alone[s] /\ s \notin others2]
       /\ before' = [before EXCEPT ![t] = [p \in Paths |-> Content(p)]]
       /\ fouled' = [u \in Uploaders |->
             \/ fouled[u]
             \/ (Target[u] \in PathsOf(r) /\ r.by # u /\ upload[u] # "ready")
             \/ (r.by = u /\ others2 # {})]

\* The task is over; the upload that waits for it learns `outcome`.
Over(t, outcome) ==
    /\ pc' = [pc EXCEPT ![t] = "idle"] /\ req' = [req EXCEPT ![t] = NoRequest]
    /\ body' = [body EXCEPT ![t] = <<>>]
    /\ fd' = [fd EXCEPT ![t] = None] /\ pos' = [pos EXCEPT ![t] = 0]
    /\ source' = [source EXCEPT ![t] = None]
    /\ upload' = IF ~req[t].heard THEN upload ELSE [upload EXCEPT ![req[t].by] = outcome]
    /\ UNCHANGED <<offset, tries, others, history>>

Goto(t, where) == pc' = [pc EXCEPT ![t] = where]

\* ensure_path_parent
Parent(t) ==
    /\ pc[t] = "parent"
    /\ dir' = TRUE
    /\ Goto(t, "open")
    /\ UNCHANGED <<at, data, req, body, fd, pos, source, clientVars, history>>

\* The inode a file is created or truncated in: File::create and fs::copy.
CreateAt(p, i) ==
    IF at[p] = None
    THEN i \in Free /\ i = CHOOSE n \in Free : TRUE
    ELSE i = at[p]

\* handle_upload: PUT creates or truncates, PATCH needs a file to append to.
OpenUpload(t) ==
    LET p == req[t].path
    IN /\ pc[t] = "open" /\ req[t].op \in {"put", "patch"}
       /\ \/ /\ req[t].op = "put" /\ dir
             /\ \E i \in Inodes :
                   /\ CreateAt(p, i)
                   /\ at' = [at EXCEPT ![p] = i] /\ data' = [data EXCEPT ![i] = <<>>]
                   /\ fd' = [fd EXCEPT ![t] = i]
             /\ UNCHANGED pos
          \/ /\ req[t].op = "patch" /\ at[p] # None
             /\ fd' = [fd EXCEPT ![t] = at[p]] /\ pos' = [pos EXCEPT ![t] = Appending]
             /\ UNCHANGED <<at, data>>
       /\ Goto(t, "copy")
       /\ UNCHANGED <<dir, req, body, source, clientVars, history>>

\* The file or the directory went away in between: an error, nothing to tidy up.
OpenFails(t) ==
    /\ pc[t] = "open"
    /\ \/ req[t].op = "put" /\ ~dir
       \/ req[t].op \in {"patch", "move", "copy"} /\ at[req[t].path] = None
    /\ Over(t, "failed")
    /\ UNCHANGED fsVars

Placed(s, k, c) ==
    IF k = Appending THEN Append(s, c)
    ELSE [i \in 1..(IF k + 1 > Len(s) THEN k + 1 ELSE Len(s)) |->
             IF i = k + 1 THEN c ELSE IF i <= Len(s) THEN s[i] ELSE Hole]

\* io::copy: the next chunk of the body.
Write(t) ==
    /\ pc[t] = "copy" /\ body[t] # <<>>
    /\ data' = [data EXCEPT ![fd[t]] = Placed(@, pos[t], Head(body[t]))]
    /\ pos' = [pos EXCEPT ![t] = IF @ = Appending THEN @ ELSE @ + 1]
    /\ body' = [body EXCEPT ![t] = Tail(@)]
    /\ UNCHANGED <<dir, at, pc, req, fd, source, clientVars, history>>

Written(t) ==
    /\ pc[t] = "copy" /\ body[t] = <<>>
    /\ \E outcome \in {"done", "failed"} : Over(t, outcome)   \* the answer may get lost
    /\ UNCHANGED fsVars

Break_NoThreshold(t) ==       \* Mutant: a broken append tidies up as well
    /\ pc[t] = "copy"
    /\ IF Size(req[t].path) < Small
       THEN Goto(t, "remove") /\ UNCHANGED <<req, body, fd, pos, source, clientVars, history>>
       ELSE Over(t, "failed")
    /\ UNCHANGED fsVars

\* The body breaks off. What is at the path decides: a small file goes.
Break(t) ==
    /\ pc[t] = "copy"
    /\ IF req[t].op = "put" /\ Size(req[t].path) < Small
       THEN Goto(t, "remove") /\ UNCHANGED <<req, body, fd, pos, source, clientVars, history>>
       ELSE Over(t, "failed")
    /\ UNCHANGED fsVars

TidyUp(t) ==
    /\ pc[t] = "remove"
    /\ at' = [at EXCEPT ![req[t].path] = None]
    /\ Over(t, "failed")
    /\ UNCHANGED <<dir, data>>

\* The connection is gone and hyper drops the task where it stands; what runs on a
\* blocking thread goes on.
Drop(t) ==
    /\ t \in Busy /\ pc[t] \notin {"rmdir", "bytes"}
    /\ Over(t, "failed")
    /\ UNCHANGED fsVars

-----------------------------------------------------------------------------
(* handle: what is decided when the request is taken up, from the metadata of  *)
(* its path.                                                                   *)

Put(t, u) ==
    IF ~AllowDelete /\ Size(Target[u]) > 0
    THEN upload' = [upload EXCEPT ![u] = "failed"] /\ UNCHANGED <<taskVars, history>>
    ELSE /\ TakeUp(t, [op |-> "put", path |-> Target[u], to |-> Target[u], by |-> u, heard |-> TRUE],
                   "parent", File(u))
         /\ upload' = [upload EXCEPT ![u] = "waits"] /\ UNCHANGED <<fd, pos, source>>

Patch_FromStart(t, u) ==      \* Mutant: the page sends the whole file again
    IF at[Target[u]] = None
    THEN upload' = [upload EXCEPT ![u] = "failed"] /\ UNCHANGED <<taskVars, history>>
    ELSE /\ TakeUp(t, [op |-> "patch", path |-> Target[u], to |-> Target[u], by |-> u, heard |-> TRUE],
                   "parent", File(u))
         /\ upload' = [upload EXCEPT ![u] = "waits"] /\ UNCHANGED <<fd, pos, source>>

\* parse_upload_offset answers "append" with the size there is, whatever the page believes.
Patch(t, u) ==
    IF at[Target[u]] = None
    THEN upload' = [upload EXCEPT ![u] = "failed"] /\ UNCHANGED <<taskVars, history>>
    ELSE /\ TakeUp(t, [op |-> "patch", path |-> Target[u], to |-> Target[u], by |-> u, heard |-> TRUE],
                   "parent", SubSeq(File(u), offset[u] + 1, Length))
         /\ upload' = [upload EXCEPT ![u] = "waits"] /\ UNCHANGED <<fd, pos, source>>

(* The page. *)

\* ajax: the request reaches the server, or the network loses it.
Send(u) ==
    /\ upload[u] \in {"ready", "found"} /\ tries[u] < MaxTries
    /\ tries' = [tries EXCEPT ![u] = @ + 1]
    /\ \/ \E t \in Idle : IF offset[u] > 0 THEN Patch(t, u) ELSE Put(t, u)
       \/ upload' = [upload EXCEPT ![u] = "failed"] /\ UNCHANGED <<taskVars, history>>
    /\ UNCHANGED <<fsVars, offset, others>>

\* retry: HEAD tells how much of the file the server has.
Retry(u) ==
    /\ upload[u] = "failed" /\ tries[u] < MaxTries
    /\ upload' = [upload EXCEPT ![u] = "found"]
    /\ offset' = [offset EXCEPT ![u] = Size(Target[u])]
    /\ fouled' = [fouled EXCEPT ![u] =
          \/ @
          \/ at[Target[u]] # None /\ ~IsPrefix(Content(Target[u]), File(u))
          \/ \E t \in Busy : Meets(t, {Target[u]})]
    /\ UNCHANGED <<fsVars, taskVars, tries, others, alone, before>>

\* The page sees its connection fail; the server does not yet.
Lose(u) ==
    /\ upload[u] = "waits"
    /\ upload' = [upload EXCEPT ![u] = "failed"]
    /\ req' = [t \in Tasks |-> IF req[t].by = u THEN [req[t] EXCEPT !.heard = FALSE] ELSE req[t]]
    /\ UNCHANGED <<fsVars, pc, body, fd, pos, source, offset, tries, others, history>>

-----------------------------------------------------------------------------
(* Requests of other clients. *)

Ask(t, r, where) ==
    /\ others < MaxOthers /\ others' = others + 1
    /\ TakeUp(t, r, where, <<>>)
    /\ UNCHANGED <<fsVars, fd, pos, source, upload, offset, tries>>

Delete(t, p) ==
    /\ AllowDelete /\ at[p] # None
    /\ Ask(t, [op |-> "delete", path |-> p, to |-> p, by |-> Nobody, heard |-> FALSE], "unlink")

DeleteDir(t) ==
    /\ AllowDelete /\ dir
    /\ Ask(t, [op |-> "rmdir", path |-> None, to |-> None, by |-> Nobody, heard |-> FALSE], "unlink")

Mkcol(t) ==
    /\ ~dir
    /\ Ask(t, [op |-> "mkcol", path |-> None, to |-> None, by |-> Nobody, heard |-> FALSE], "mkdir")

\* MOVE needs both rights, COPY the right to upload; both make the parent of the target.
Move(t, p, q) ==
    /\ AllowDelete /\ at[p] # None
    /\ Ask(t, [op |-> "move", path |-> p, to |-> q, by |-> Nobody, heard |-> FALSE], "parent")

Copy(t, p, q) ==
    /\ at[p] # None
    /\ Ask(t, [op |-> "copy", path |-> p, to |-> q, by |-> Nobody, heard |-> FALSE], "parent")

\* remove_file, and the files of remove_dir_all.
Unlink(t) ==
    /\ pc[t] = "unlink"
    /\ IF req[t].op = "rmdir"
       THEN /\ at' = [p \in Paths |-> None]
            /\ Goto(t, "rmdir") /\ UNCHANGED <<req, body, fd, pos, source, clientVars, history>>
       ELSE /\ at' = [at EXCEPT ![req[t].path] = None]
            /\ Over(t, "done")
    /\ UNCHANGED <<dir, data>>

\* The directory itself: an error when a file came in between.
RemoveDir(t) ==
    /\ pc[t] = "rmdir"
    /\ dir' = (dir /\ \E p \in Paths : at[p] # None)
    /\ Over(t, "done")
    /\ UNCHANGED <<at, data>>

MakeDir(t) ==
    /\ pc[t] = "mkdir"
    /\ dir' = TRUE
    /\ Over(t, "done")
    /\ UNCHANGED <<at, data>>

Rename(t) ==
    LET p == req[t].path
        q == req[t].to
    IN /\ pc[t] = "open" /\ req[t].op = "move" /\ at[p] # None /\ dir
       /\ at' = IF p = q THEN at ELSE [at EXCEPT ![q] = at[p], ![p] = None]
       /\ Over(t, "done")
       /\ UNCHANGED <<dir, data>>

\* fs::copy opens the source, truncates the target, then moves the bytes.
OpenCopy(t) ==
    /\ pc[t] = "open" /\ req[t].op = "copy" /\ at[req[t].path] # None /\ dir
    /\ \E i \in Inodes :
          /\ CreateAt(req[t].to, i)
          /\ at' = [at EXCEPT ![req[t].to] = i] /\ data' = [data EXCEPT ![i] = <<>>]
          /\ fd' = [fd EXCEPT ![t] = i]
    /\ source' = [source EXCEPT ![t] = at[req[t].path]]
    /\ Goto(t, "bytes")
    /\ UNCHANGED <<dir, req, body, pos, clientVars, history>>

CopyBytes(t) ==
    /\ pc[t] = "bytes"
    /\ data' = [data EXCEPT ![fd[t]] = data[source[t]]]
    /\ Over(t, "done")
    /\ UNCHANGED <<dir, at>>

-----------------------------------------------------------------------------
Step(t) ==
    \/ Parent(t) \/ OpenUpload(t) \/ OpenFails(t) \/ Write(t) \/ Written(t)
    \/ Break(t) \/ TidyUp(t) \/ Unlink(t) \/ RemoveDir(t) \/ MakeDir(t)
    \/ Rename(t) \/ OpenCopy(t) \/ CopyBytes(t)

Client ==
    \/ \E u \in Uploaders : Send(u) \/ Retry(u) \/ Lose(u)
    \/ \E t \in Tasks :
          \/ DeleteDir(t) \/ Mkcol(t)
          \/ \E p \in Paths :
                Delete(t, p) \/ (\E q \in Paths : Move(t, p, q) \/ Copy(t, p, q))

Done == Busy = {} /\ UNCHANGED vars          \* the clients have sent all they may

Next == Client \/ (\E t \in Tasks : Step(t) \/ Drop(t)) \/ Done

Spec == Init /\ [][Next]_vars

-----------------------------------------------------------------------------
TypeOK ==
    /\ dir \in BOOLEAN
    /\ at \in [Paths -> Inodes \cup {None}]
    /\ data \in [Inodes -> Seq(Chunks)]
    /\ \A p \in Paths : at[p] # None => dir
    /\ \A p, q \in Paths : p # q /\ at[p] # None => at[p] # at[q]
    /\ \A t \in Tasks : pc[t] = "copy" => fd[t] \in Inodes

\* An upload the page reports as complete is on the server as the user gave it,
\* through failures, lost answers, dropped tasks and resumptions - provided that
\* nobody else asked for the path, that no earlier request of the upload was still
\* at work, and that the file the page resumed was its own.
ArrivesWhole(u) ==
    upload[u] # "done" /\ upload'[u] = "done" /\ ~fouled[u] => Content(Target[u])' = File(u)
LoneUploadIsWhole == [][\A u \in Uploaders : ArrivesWhole(u)]_vars

\* A request that has its paths to itself does what its method says and nothing
\* else; when it breaks off it leaves a part of what it was to write, or no file,
\* and an append never costs what was there before.
EndsAsAlone(t) ==
    LET r == req[t]
        was == before[t][r.path]
        Left(x) == IF at'[x] = None THEN Missing ELSE data'[at'[x]]
        left == Left(r.path)
    IN pc[t] # "idle" /\ pc'[t] = "idle" /\ alone[t] =>
       /\ r.op = "put" =>
             \/ left \in {was, Missing} /\ (body[t] # <<>> \/ pc[t] # "copy")
             \/ IsPrefix(left, File(r.by)) /\ (pc[t] = "copy" /\ body[t] = <<>> => left = File(r.by))
       /\ r.op = "patch" => IsPrefix(was, left)
       /\ r.op = "delete" /\ pc[t] = "unlink" => left \in {was, Missing}
       /\ r.op = "move" /\ r.path # r.to => left = was \/ (left = Missing /\ Left(r.to) = was)
       /\ r.op = "copy" /\ r.path # r.to => left = was /\ (pc[t] = "bytes" => Left(r.to) = was)
AloneIsSequential == [][\A t \in Tasks : EndsAsAlone(t)]_vars

\* What is done alone comes out as if nothing else had been done.
LoneTasksAreWhole == LoneUploadIsWhole /\ AloneIsSequential
=============================================================================
