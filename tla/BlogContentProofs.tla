------------------------- MODULE BlogContentProofs -------------------------
(***************************************************************************)
(* Theorems about BlogContent for every set of requests, paths and names.  *)
(*                                                                         *)
(* Posts change under content_lock only, so what its holder has read stays *)
(* true (ReadsHold).  Names and pairs change outside of it: there the      *)
(* argument is that a bulk change which met no other change leaves no post *)
(* with the old name (OldNameGoes), whatever is seeded meanwhile.          *)
(***************************************************************************)
EXTENDS BlogContent, TLAPS

USE ContentAssumption

-----------------------------------------------------------------------------
(* What requests and rows are. *)

\* The fields of a request, by what it asks.
LEMMA InputKinds ==
    ASSUME NEW q \in Inputs
    PROVE  /\ q # Idle
           /\ q.op \in Bulk \cup PostOps \cup {"view", "createTag", "createCategory"}
           /\ q.op = "save" =>
                 /\ q.path \in Paths /\ q.old \in Paths \cup {None}
                 /\ q.category \in Categories \cup {None} /\ q.tags \in SUBSET Tags
                 /\ q.text \in STRING /\ q.draft \in BOOLEAN
           /\ q.op = "delete" => q.path \in Paths
           /\ q.op = "setDraft" => q.path \in Paths /\ q.draft \in BOOLEAN
           /\ q.op \in Bulk => q.category \in Categories \cup {None} /\ q.from # q.to
           /\ q.op \in {"renameTag", "deleteTag"} => q.from \in Tags
           /\ q.op = "renameTag" => q.to \in Tags
           /\ q.op \in {"deleteTag", "deleteCategory"} => q.to = None
           /\ q.op \in {"renameCategory", "deleteCategory"} =>
                 q.from \in Categories /\ q.category = None
           /\ q.op = "renameCategory" => q.to \in Categories
           /\ q.op = "createTag" => q.to \in Tags /\ q.category \in Categories \cup {None}
           /\ q.op = "createCategory" => q.to \in Categories
<1>1. CASE q \in PostInputs
  BY <1>1 DEF PostInputs, Bulk, PostOps, Idle
<1>2. CASE q \in BulkInputs
  BY <1>2 DEF BulkInputs, Bulk, PostOps, Idle
<1>3. CASE q \in OtherInputs
  BY <1>3 DEF OtherInputs, Bulk, PostOps, Idle
<1> QED BY <1>1, <1>2, <1>3 DEF ContentAssumption

LEMMA Nobody == None \notin Requests /\ None \notin Paths /\ None \notin Names /\ None \notin PostRecords
  BY DEF ContentAssumption

LEMMA RecordFields ==
    ASSUME NEW p \in PostRecords
    PROVE  /\ p # None /\ p.path \in Paths /\ p.category \in Categories \cup {None}
           /\ p.tags \in SUBSET Tags /\ p.text \in STRING /\ p.draft \in BOOLEAN
  BY DEF PostRecords, ContentAssumption

LEMMA WrittenType ==
    ASSUME NEW q \in Inputs, q.op = "save"
    PROVE  Written(q) \in PostRecords /\ Written(q).path = q.path
  BY InputKinds DEF Written, PostRecords

\* What a bulk change makes of a post.
LEMMA EditedType ==
    ASSUME NEW q \in Inputs, q.op \in Bulk, NEW p \in PostRecords
    PROVE  /\ Edited(q, p) \in PostRecords
           /\ Edited(q, p).path = p.path /\ Edited(q, p).text = p.text
<1>1. CASE q.op = "renameCategory" /\ p.category = q.from
  BY <1>1, InputKinds, RecordFields DEF Edited, PostRecords
<1>2. CASE q.op = "deleteCategory" /\ p.category = q.from
  BY <1>2, InputKinds, RecordFields DEF Edited, PostRecords
<1>3. CASE /\ q.op \in {"renameTag", "deleteTag"} /\ q.from \in p.tags
           /\ q.category \in {None, p.category}
  <2>1. Edited(q, p) = [p EXCEPT !.tags = (@ \ {q.from}) \cup ({q.to} \ {None})]
    BY <1>3 DEF Edited
  <2>2. (p.tags \ {q.from}) \cup ({q.to} \ {None}) \in SUBSET Tags
    BY <1>3, InputKinds, RecordFields
  <2> QED BY <2>1, <2>2 DEF PostRecords
<1>4. CASE /\ ~(q.op = "renameCategory" /\ p.category = q.from)
           /\ ~(q.op = "deleteCategory" /\ p.category = q.from)
           /\ ~(/\ q.op \in {"renameTag", "deleteTag"} /\ q.from \in p.tags
                /\ q.category \in {None, p.category})
  <2>1. Edited(q, p) = p
    BY <1>4 DEF Edited
  <2> QED BY <2>1
<1> QED BY <1>1, <1>2, <1>3, <1>4

-----------------------------------------------------------------------------
(* The inductive invariant. *)

Locked == {"check", "change", "collect", "adopt", "stage", "away", "in"}
Changed == {"stage", "away", "in", "forget", "know", "relate", "list", "put"}

\* A row has the id of its path, a file its path, and a request that is idle asks nothing.
PathsFit ==
    /\ \A i \in Ids : Is(i) => IdOf[posts[i].path] = i
    /\ \A tree \in {dir, backup, staging} : \A p \in Paths :
          tree.files[p] # None => tree.files[p].path = p

\* Which requests come to which places, and with content_lock or without.
PlacedAt(r) ==
    /\ pc[r] = "idle" <=> req[r] = Idle
    /\ lock = r => pc[r] \in Locked \cup {"seedNames", "seedPairs"}
    /\ pc[r] \in Locked => lock = r
    /\ lock = r \/ pc[r] = "lock" => req[r].op \in Bulk \cup PostOps
    /\ pc[r] \in {"seedNames", "seedPairs"} =>
          IF lock = r THEN req[r].op # "import" ELSE req[r].op \notin PostOps
    /\ pc[r] = "check" => req[r].op = "save"
    /\ pc[r] \in {"collect", "adopt"} => req[r].op = "import"
    /\ pc[r] = "change" => req[r].op # "import"
    /\ pc[r] = "forget" => req[r].op \in Bulk
    /\ pc[r] \in {"know", "relate", "list", "put"} =>
          req[r].op \in Bulk \cup {"createTag", "createCategory"}
Placed == \A r \in Requests : PlacedAt(r)

\* What the holder of content_lock has read stays true.
ReadsHold ==
    \A r \in Requests : lock = r =>
       /\ pc[r] \in {"seedNames", "seedPairs", "check", "change"} => seen[r] = posts
       /\ pc[r] = "change" /\ req[r].op = "save" => ~PathTaken(req[r])
       /\ pc[r] = "adopt" => \A p \in todo[r] : dir.files[p] # None /\ ByPath(p) = {}
       /\ pc[r] \in {"away", "in"} => staging.files = FilesOf(posts)

\* A bulk change that no other change has met.
Undisturbed(r) == Busy(r) /\ req[r].op \in Bulk /\ (~raced \/ alone[r])
Meets ==
    \A r, s \in Requests : r # s /\ Busy(s) =>
       /\ Busy(r) => ~alone[r]
       /\ Undisturbed(r) => req[s].op \notin Bulk \cup PostOps

\* It leaves no post with the old name, and on its way takes the name out of the lists.
Outdated(q, p) == q.category \in {None, p.category} /\ (q.from \in p.tags \/ q.from = p.category)
OldNameGoes ==
    \A r \in Requests : Undisturbed(r) /\ pc[r] \in Changed =>
       \A i \in Ids : Is(i) => ~Outdated(req[r], posts[i])
ListsFollow ==
    \A r \in Requests : Undisturbed(r) /\ alone[r] =>
       LET q == req[r]
       IN /\ pc[r] \in {"know", "relate", "list", "put"} /\ q.category = None => q.from \notin names
          /\ pc[r] \in {"relate", "list", "put"} /\ q.to # None => q.to \in names
          /\ pc[r] \in {"list", "put"} =>
                \A c \in Categories, t \in Tags : <<c, t>> \in pairs /\ q.from \in {c, t} =>
                    q.category \notin {None, c}
          /\ pc[r] = "put" => list[r] = names


IInv == TypeOK /\ PathsFit /\ Placed /\ ReadsHold /\ Meets /\ NamesFollowPosts /\ OldNameGoes /\ ListsFollow

-----------------------------------------------------------------------------
(* Types. *)

LEMMA FilesOfType ==
    ASSUME NEW ps \in Rows
    PROVE  /\ FilesOf(ps) \in [Paths -> PostRecords \cup {None}]
           /\ \A p \in Paths : FilesOf(ps)[p] # None => FilesOf(ps)[p].path = p
<1> SUFFICES ASSUME NEW p \in Paths
             PROVE  /\ FilesOf(ps)[p] \in PostRecords \cup {None}
                    /\ FilesOf(ps)[p] # None => FilesOf(ps)[p].path = p
  BY DEF FilesOf
<1>1. CASE \E i \in Ids : ps[i] # None /\ ps[i].path = p
  <2>1. FilesOf(ps)[p] = ps[CHOOSE i \in Ids : ps[i] # None /\ ps[i].path = p]
    BY <1>1 DEF FilesOf
  <2>2. PICK i \in Ids : /\ ps[i] # None /\ ps[i].path = p /\ FilesOf(ps)[p] = ps[i]
    BY <1>1, <2>1
  <2> QED BY <2>2 DEF Rows
<1>2. CASE ~\E i \in Ids : ps[i] # None /\ ps[i].path = p
  BY <1>2 DEF FilesOf
<1> QED BY <1>1, <1>2

LEMMA NamesOfType ==
    ASSUME NEW ps \in Rows
    PROVE  NamesOf(ps) \subseteq Names /\ PairsOf(ps) \subseteq Categories \X Tags
<1>1. \A i \in Ids : ps[i] # None => ps[i].category \in Categories \cup {None} /\ ps[i].tags \in SUBSET Tags
  BY RecordFields DEF Rows
<1> QED BY <1>1 DEF NamesOf, PairsOf, CategoryOf, Names

LEMMA OnlyType ==
    ASSUME NEW p \in PostRecords
    PROVE  Only(p) \in Rows
  BY RecordFields DEF Only, NoPosts, Rows

\* An orphan or a seed is a post at its path.
LEMMA SeedsFit ==
    /\ DOMAIN Seeds \subseteq Paths /\ \A p \in DOMAIN Seeds : Seeds[p] \in PostRecords /\ Seeds[p].path = p
    /\ DOMAIN Orphans \subseteq Paths
    /\ \A p \in DOMAIN Orphans : Orphans[p] \in PostRecords /\ Orphans[p].path = p
  BY DEF ContentAssumption, FileSets

\* Every row of the start has the id of its path.
LEMMA InitialRows ==
    ASSUME Init
    PROVE  posts \in Rows /\ \A i \in Ids : Is(i) => IdOf[posts[i].path] = i
<1> SUFFICES ASSUME NEW i \in Ids
             PROVE  /\ posts[i] \in PostRecords \cup {None}
                    /\ Is(i) => IdOf[posts[i].path] = i
  BY DEF Rows, Init
<1>1. CASE \E p \in DOMAIN Seeds : IdOf[p] = i
  <2>1. posts[i] = Seeds[CHOOSE p \in DOMAIN Seeds : IdOf[p] = i]
    BY <1>1 DEF Init
  <2>2. PICK p \in DOMAIN Seeds : IdOf[p] = i /\ posts[i] = Seeds[p]
    BY <1>1, <2>1
  <2> QED BY <2>2, SeedsFit
<1>2. CASE ~\E p \in DOMAIN Seeds : IdOf[p] = i
  BY <1>2 DEF Init, Is
<1> QED BY <1>1, <1>2

LEMMA TypeInit == Init => TypeOK /\ PathsFit
<1> SUFFICES ASSUME Init PROVE TypeOK /\ PathsFit
  OBVIOUS
<1>1. posts \in Rows /\ names \subseteq Names /\ pairs \subseteq Categories \X Tags
  BY InitialRows, NamesOfType DEF Init
<1>2. /\ Absent \in Directories
      /\ \A p \in Paths : Absent.files[p] = None
  BY DEF Absent, NoFiles, Directories
<1>3. /\ dir = [there |-> TRUE, files |-> FilesOf(posts), list |-> names]
      /\ backup = Absent /\ staging = Absent
  BY DEF Init
<1>4. /\ FilesOf(posts) \in [Paths -> PostRecords \cup {None}]
      /\ \A p \in Paths : FilesOf(posts)[p] # None => FilesOf(posts)[p].path = p
  BY <1>1, FilesOfType
<1>5. dir \in Directories
  BY <1>1, <1>3, <1>4 DEF Directories
<1>6. seen \in [Requests -> Rows]
  BY DEF Init, NoPosts, Rows
<1>7. PathsFit
  BY <1>2, <1>3, <1>4, InitialRows DEF PathsFit
<1> QED BY <1>1, <1>2, <1>3, <1>5, <1>6, <1>7 DEF Init, TypeOK, RowsType, DiskType, RequestType, HistoryType,
                                                  Places

Step(r) == (\E q \in Inputs : Begin(r, q)) \/ Handle(r) \/ Fail(r) \/ LoseAnswer(r)

LEMMA ReturnType ==
    ASSUME RequestType, NEW r \in Requests, Return(r)
    PROVE  RequestType'
<1>1. NoPosts \in Rows
  BY DEF NoPosts, Rows
<1> QED BY <1>1 DEF RequestType, Return, Places

LEMMA GotoType ==
    ASSUME RequestType, NEW r \in Requests, NEW where \in Places, Goto(r, where)
    PROVE  /\ pc' \in [Requests -> Places] /\ req' \in [Requests -> Inputs \cup {Idle}]
           /\ seen' \in [Requests -> Rows] /\ todo' \in [Requests -> SUBSET Paths]
           /\ list' \in [Requests -> SUBSET Names]
           /\ lock' \in Requests \cup {None} => RequestType'
  BY DEF RequestType, Goto

LEMMA RequestTypeStep ==
    ASSUME TypeOK, NEW r \in Requests,
           Step(r)
    PROVE  RequestType'
<1> USE DEF TypeOK, Step
<1>1. CASE \E q \in Inputs : Begin(r, q)
  BY <1>1 DEF Begin, RequestType, RowsType, Places
<1>2. CASE Lock(r)
  BY <1>2 DEF Lock, RequestType, RowsType, Places
<1>3. CASE SeedNames(r)
  BY <1>3, GotoType DEF SeedNames, SeedsNames, RequestType, Places
<1>4. CASE SeedPairs(r)
  BY <1>4, GotoType, ReturnType DEF SeedPairs, SeedsPairs, RequestType, Places
<1>5. CASE Check(r)
  BY <1>5, GotoType, ReturnType DEF Check, RequestType, Places
<1>6. CASE Save(r)
  BY <1>6, GotoType DEF Save, Saves, RequestType, Places
<1>7. CASE Delete(r)
  BY <1>7, GotoType, ReturnType DEF Delete, Deletes, RequestType, Places
<1>8. CASE SetDraft(r)
  BY <1>8, GotoType, ReturnType DEF SetDraft, Marks, RequestType, Places
<1>9. CASE Rewrite(r)
  BY <1>9, GotoType DEF Rewrite, Rewrites, RequestType, Places
<1>10. CASE Collect(r)
  BY <1>10 DEF Collect, RequestType, Places
<1>11. CASE Adopt(r)
  BY <1>11 DEF Adopt, Adopts, RequestType, Places
<1>12. CASE Stage(r)
  BY <1>12, GotoType DEF Stage, RequestType, Places
<1>13. CASE MoveAway(r)
  BY <1>13, GotoType DEF MoveAway, RequestType, Places
<1>14. CASE MoveIn(r)
  BY <1>14, GotoType, ReturnType DEF MoveIn, Exported, RequestType, Places
<1>15. CASE Forget(r)
  BY <1>15, GotoType DEF Forget, Forgets, RequestType, Places
<1>16. CASE Know(r)
  BY <1>16, GotoType DEF Know, Knows, RequestType, Places
<1>17. CASE Relate(r)
  BY <1>17, GotoType DEF Relate, Relates, RequestType, Places
<1>18. CASE List(r)
  BY <1>18 DEF List, RequestType, RowsType, Places
<1>19. CASE Put(r)
  BY <1>19, ReturnType DEF Put
<1>20. CASE Fail(r)
  BY <1>20, ReturnType DEF Fail
<1>21. CASE LoseAnswer(r)
  BY <1>21, ReturnType DEF LoseAnswer
<1> QED BY <1>1, <1>2, <1>3, <1>4, <1>5, <1>6, <1>7, <1>8, <1>9, <1>10, <1>11, <1>12, <1>13,
           <1>14, <1>15, <1>16, <1>17, <1>18, <1>19, <1>20, <1>21 DEF Handle

-----------------------------------------------------------------------------
(* Control: a step of one request leaves the others where they are, and comes from where   *)
(* requests of its kind come.                                                              *)

LEMMA OthersStay ==
    ASSUME RequestType, Placed, NEW r \in Requests, Step(r), NEW s \in Requests, s # r
    PROVE  /\ pc'[s] = pc[s] /\ req'[s] = req[s] /\ seen'[s] = seen[s]
           /\ todo'[s] = todo[s] /\ list'[s] = list[s]
           /\ lock' = s <=> lock = s
<1> USE DEF Step
<1>1. CASE \E q \in Inputs : Begin(r, q)
  BY <1>1 DEF Begin, RequestType
<1>2. CASE Lock(r)
  BY <1>2 DEF Lock, RequestType
<1>3. CASE SeedNames(r)
  BY <1>3 DEF SeedNames, SeedsNames, Goto, RequestType
<1>4. CASE SeedPairs(r)
  BY <1>4 DEF SeedPairs, SeedsPairs, Goto, Return, RequestType
<1>5. CASE Check(r)
  BY <1>5 DEF Check, Goto, Return, RequestType
<1>6. CASE Save(r)
  BY <1>6 DEF Save, Saves, Goto, RequestType
<1>7. CASE Delete(r)
  BY <1>7 DEF Delete, Deletes, Goto, Return, RequestType
<1>8. CASE SetDraft(r)
  BY <1>8 DEF SetDraft, Marks, Goto, Return, RequestType
<1>9. CASE Rewrite(r)
  BY <1>9 DEF Rewrite, Rewrites, Goto, At, RequestType, Placed, PlacedAt, Locked
<1>10. CASE Collect(r)
  BY <1>10 DEF Collect, RequestType
<1>11. CASE Adopt(r)
  BY <1>11 DEF Adopt, Adopts, RequestType
<1>12. CASE Stage(r)
  BY <1>12 DEF Stage, Goto, RequestType
<1>13. CASE MoveAway(r)
  BY <1>13 DEF MoveAway, Goto, RequestType
<1>14. CASE MoveIn(r)
  BY <1>14 DEF MoveIn, Exported, Goto, Return, At, RequestType, Placed, PlacedAt, Locked
<1>15. CASE Forget(r)
  BY <1>15 DEF Forget, Forgets, Goto, RequestType
<1>16. CASE Know(r)
  BY <1>16 DEF Know, Knows, Goto, RequestType
<1>17. CASE Relate(r)
  BY <1>17 DEF Relate, Relates, Goto, RequestType
<1>18. CASE List(r)
  BY <1>18 DEF List, RequestType
<1>19. CASE Put(r)
  BY <1>19 DEF Put, Return, RequestType
<1>20. CASE Fail(r)
  BY <1>20 DEF Fail, Return, RequestType
<1>21. CASE LoseAnswer(r)
  BY <1>21 DEF LoseAnswer, Return, RequestType
<1> QED BY <1>1, <1>2, <1>3, <1>4, <1>5, <1>6, <1>7, <1>8, <1>9, <1>10, <1>11, <1>12, <1>13, <1>14,
           <1>15, <1>16, <1>17, <1>18, <1>19, <1>20, <1>21 DEF Handle

LEMMA BusyAsks ==
    ASSUME RequestType, Placed, NEW r \in Requests, Busy(r)
    PROVE  /\ req[r] \in Inputs
           /\ req[r].op \in Bulk \cup PostOps \cup {"view", "createTag", "createCategory"}
<1>1. req[r] \in Inputs
  BY DEF RequestType, Placed, PlacedAt, Busy
<1> QED BY <1>1, InputKinds

LEMMA PlacedStep ==
    ASSUME RequestType, Placed, NEW r \in Requests, Step(r)
    PROVE  Placed'
<1>1. ASSUME NEW s \in Requests, s # r
      PROVE  PlacedAt(s)'
  BY <1>1, OthersStay DEF Placed, PlacedAt
<1>2. PlacedAt(r)'
  <2> USE DEF Step
  <2>1. ASSUME NEW q \in Inputs, Begin(r, q)
        PROVE  PlacedAt(r)'
    <3>1. pc[r] = "idle" /\ req'[r] = q /\ lock' = lock /\ lock # r
      BY <2>1 DEF Begin, At, RequestType, Placed, PlacedAt, Locked
    <3>2. pc'[r] = IF q.op \in PostOps THEN "lock" ELSE "seedNames"
      BY <2>1 DEF Begin, RequestType
    <3>3. q # Idle /\ q.op \in Bulk \cup PostOps \cup {"view", "createTag", "createCategory"}
      BY InputKinds
    <3> QED BY <3>1, <3>2, <3>3 DEF PlacedAt, Locked
  <2>2. CASE Lock(r)
    BY <2>2 DEF Lock, At, RequestType, Placed, PlacedAt, Locked, Bulk, PostOps, Idle
  <2>3. CASE SeedNames(r)
    BY <2>3 DEF SeedNames, SeedsNames, Goto, At, RequestType, Placed, PlacedAt, Locked, Bulk,
                PostOps, Idle
  <2>4. CASE SeedPairs(r)
    <3>1. req[r].op \in Bulk \cup PostOps \cup {"view", "createTag", "createCategory"}
      BY <2>4, BusyAsks DEF SeedPairs, SeedsPairs, At, Busy
    <3> QED
      BY <2>4, <3>1 DEF SeedPairs, SeedsPairs, Goto, Return, At, RequestType, Placed, PlacedAt,
                        Locked, PostOps
  <2>5. CASE Check(r)
    BY <2>5 DEF Check, Goto, Return, At, RequestType, Placed, PlacedAt, Locked, Bulk, PostOps, Idle
  <2>6. CASE Save(r)
    BY <2>6 DEF Save, Saves, Goto, At, RequestType, Placed, PlacedAt, Locked, Bulk, PostOps, Idle
  <2>7. CASE Delete(r)
    BY <2>7 DEF Delete, Deletes, Goto, Return, At, RequestType, Placed, PlacedAt, Locked, Bulk,
                PostOps, Idle
  <2>8. CASE SetDraft(r)
    BY <2>8 DEF SetDraft, Marks, Goto, Return, At, RequestType, Placed, PlacedAt, Locked, Bulk,
                PostOps, Idle
  <2>9. CASE Rewrite(r)
    BY <2>9, Nobody DEF Rewrite, Rewrites, Goto, At, RequestType, Placed, PlacedAt, Locked
  <2>10. CASE Collect(r)
    BY <2>10 DEF Collect, At, RequestType, Placed, PlacedAt, Locked, Bulk, PostOps, Idle
  <2>11. CASE Adopt(r)
    BY <2>11 DEF Adopt, Adopts, At, RequestType, Placed, PlacedAt, Locked, Bulk, PostOps, Idle
  <2>12. CASE Stage(r)
    BY <2>12 DEF Stage, Goto, At, RequestType, Placed, PlacedAt, Locked, Bulk, PostOps, Idle
  <2>13. CASE MoveAway(r)
    BY <2>13 DEF MoveAway, Goto, At, RequestType, Placed, PlacedAt, Locked, Bulk, PostOps, Idle
  <2>14. CASE MoveIn(r)
    BY <2>14 DEF MoveIn, Exported, Goto, Return, At, RequestType, Placed, PlacedAt, Locked, Bulk,
                 PostOps, Idle
  <2>15. CASE Forget(r)
    BY <2>15 DEF Forget, Forgets, Goto, At, RequestType, Placed, PlacedAt, Locked, Bulk, PostOps,
                 Idle
  <2>16. CASE Know(r)
    BY <2>16 DEF Know, Knows, Goto, At, RequestType, Placed, PlacedAt, Locked, Bulk, PostOps, Idle
  <2>17. CASE Relate(r)
    BY <2>17 DEF Relate, Relates, Goto, At, RequestType, Placed, PlacedAt, Locked, Bulk, PostOps,
                 Idle
  <2>18. CASE List(r)
    BY <2>18 DEF List, At, RequestType, Placed, PlacedAt, Locked, Bulk, PostOps, Idle
  <2>19. CASE Put(r)
    BY <2>19 DEF Put, Return, At, RequestType, Placed, PlacedAt, Locked, Bulk, PostOps, Idle
  <2>20. CASE Fail(r)
    BY <2>20 DEF Fail, Return, At, RequestType, Placed, PlacedAt, Locked, Bulk, PostOps, Idle
  <2>21. CASE LoseAnswer(r)
    BY <2>21 DEF LoseAnswer, Return, At, RequestType, Placed, PlacedAt, Locked, Bulk, PostOps, Idle
  <2> QED BY <2>1, <2>2, <2>3, <2>4, <2>5, <2>6, <2>7, <2>8, <2>9, <2>10, <2>11, <2>12, <2>13,
             <2>14, <2>15, <2>16, <2>17, <2>18, <2>19, <2>20, <2>21 DEF Handle
<1> QED BY <1>1, <1>2 DEF Placed

-----------------------------------------------------------------------------
(* Rows: posts, names and pairs. *)

RowsFit == \A i \in Ids : Is(i) => IdOf[posts[i].path] = i

\* Whether its handler goes on or not, a step changes the database as one of the statements
\* does, or not at all.
LEMMA ChangesOrNot ==
    ASSUME NEW r \in Requests, Step(r)
    PROVE  Changes(r) \/ UNCHANGED db
<1>1. CASE Handle(r)
  <2>1. CASE SeedNames(r) \/ SeedPairs(r)
    BY <2>1 DEF SeedNames, SeedPairs, Changes
  <2>2. CASE Save(r) \/ Delete(r) \/ SetDraft(r) \/ Rewrite(r)
    BY <2>2 DEF Save, Delete, SetDraft, Rewrite, Changes
  <2>3. CASE Adopt(r)
    BY <2>3 DEF Adopt, Changes
  <2>4. CASE Forget(r) \/ Know(r) \/ Relate(r)
    BY <2>4 DEF Forget, Know, Relate, Changes
  <2>5. CASE Lock(r) \/ Check(r) \/ Collect(r) \/ Stage(r) \/ MoveAway(r) \/ MoveIn(r) \/ List(r) \/ Put(r)
    BY <2>5 DEF Lock, Check, Collect, Stage, MoveAway, MoveIn, List, Put
  <2> QED BY <1>1, <2>1, <2>2, <2>3, <2>4, <2>5 DEF Handle
<1>2. CASE Fail(r) \/ \E q \in Inputs : Begin(r, q)
  BY <1>2 DEF Fail, Begin
<1>3. CASE LoseAnswer(r)
  BY <1>3 DEF LoseAnswer
<1> QED BY <1>1, <1>2, <1>3 DEF Step

LEMMA ChangesPlace ==
    ASSUME NEW r \in Requests, Changes(r)
    PROVE  pc[r] \in {"seedNames", "seedPairs", "change", "adopt", "forget", "know", "relate"}
  BY DEF Changes, SeedsNames, SeedsPairs, Saves, Deletes, Marks, Rewrites, Adopts, Forgets, Knows,
         Relates, At

\* What a bulk change writes: every post as the closure leaves it.
LEMMA RewriteIs ==
    ASSUME IInv, NEW r \in Requests, Rewrites(r)
    PROVE  /\ req[r] \in Inputs /\ req[r].op \in Bulk /\ pc[r] = "change"
           /\ posts' = [i \in Ids |-> IF posts[i] = None THEN None ELSE Edited(req[r], posts[i])]
           /\ \E ps \in Rows : /\ Known(ps)
                             /\ \A i \in Ids : posts'[i] # posts[i] => ps[i] = posts'[i]
<1> DEFINE new == [i \in Ids |-> IF posts[i] = None THEN None ELSE Edited(req[r], posts[i])]
           touched == {i \in Ids : new[i] # posts[i]}
           ps == [i \in Ids |-> IF i \in touched THEN new[i] ELSE None]
<1>1. pc[r] = "change" /\ req[r].op \in Bulk
  BY DEF Rewrites, At
<1>2. lock = r /\ req[r] \in Inputs
  BY <1>1, BusyAsks DEF IInv, TypeOK, Placed, PlacedAt, Locked, Busy
<1>3. seen[r] = posts
  BY <1>1, <1>2 DEF IInv, ReadsHold
<1>4. Revised(r) = new /\ Touched(r) = touched
  BY <1>3 DEF Revised, Touched
<1>5. posts' = [i \in Ids |-> IF i \in touched THEN new[i] ELSE posts[i]] /\ Known(ps)
  BY <1>4 DEF Rewrites
<1>6. posts' = new
  BY <1>5
<1>7. new \in Rows
  BY <1>1, <1>2, EditedType DEF IInv, TypeOK, RowsType, Rows
<1>8. ps \in Rows
  BY <1>7 DEF Rows
<1> QED BY <1>1, <1>2, <1>5, <1>6, <1>8

\* What an import writes: a file that is there and that no post has.
LEMMA AdoptIs ==
    ASSUME IInv, NEW r \in Requests, NEW p \in todo[r], Adopts(r, p)
    PROVE  /\ lock = r /\ pc[r] = "adopt" /\ p \in Paths /\ ByPath(p) = {}
           /\ \E new \in PostRecords : /\ new.path = p
                                     /\ posts' = [posts EXCEPT ![IdOf[p]] = new]
                                     /\ Known(Only(new))
<1>1. /\ pc[r] = "adopt"
      /\ posts' = [posts EXCEPT ![IdOf[p]] = [dir.files[p] EXCEPT !.draft = TRUE]]
      /\ Known(Only([dir.files[p] EXCEPT !.draft = TRUE]))
  BY DEF Adopts, At
<1>2. lock = r
  BY <1>1 DEF IInv, Placed, PlacedAt, Locked
<1>3. p \in Paths /\ dir.files[p] # None /\ ByPath(p) = {}
  BY <1>1, <1>2 DEF IInv, ReadsHold, TypeOK, RequestType
<1>4. dir.files[p] \in PostRecords /\ dir.files[p].path = p
  BY <1>3 DEF IInv, PathsFit, TypeOK, DiskType, Directories
<1>5. /\ [dir.files[p] EXCEPT !.draft = TRUE] \in PostRecords
      /\ [dir.files[p] EXCEPT !.draft = TRUE].path = p
  BY <1>4 DEF PostRecords
<1> QED BY <1>1, <1>2, <1>3, <1>5

LEMMA KnownType ==
    ASSUME RowsType, NEW ps \in Rows, Known(ps)
    PROVE  names' \subseteq Names /\ pairs' \subseteq Categories \X Tags
  BY NamesOfType DEF RowsType, Known

\* A bulk change or a new name leaves pairs of categories and tags.
LEMMA RelatedType ==
    ASSUME NEW q \in Inputs, q.op \in Bulk \cup {"createTag", "createCategory"},
           pairs \subseteq Categories \X Tags
    PROVE  Related(q) \subseteq Categories \X Tags
<1>1. CASE q.op = "createTag"
  BY <1>1, InputKinds DEF Related
<1>2. CASE q.op = "createCategory"
  BY <1>2 DEF Related
<1>3. CASE q.op = "renameTag"
  BY <1>3, InputKinds DEF Related, Bulk
<1>4. CASE q.op = "deleteTag"
  BY <1>4 DEF Related
<1>5. CASE q.op = "renameCategory"
  <2>1. Related(q) = (pairs \ ({q.from} \X Tags))
                     \cup {<<q.to, t>> : t \in {u \in Tags : <<q.from, u>> \in pairs}}
    BY <1>5 DEF Related
  <2>2. \A t \in Tags : <<q.to, t>> \in Categories \X Tags
    BY <1>5, InputKinds
  <2>3. {<<q.to, t>> : t \in {u \in Tags : <<q.from, u>> \in pairs}} \subseteq Categories \X Tags
    BY <2>2, Zenon
  <2>4. pairs \ ({q.from} \X Tags) \subseteq Categories \X Tags
    OBVIOUS
  <2> QED BY <2>1, <2>3, <2>4
<1>6. CASE q.op = "deleteCategory"
  BY <1>6 DEF Related
<1> QED BY <1>1, <1>2, <1>3, <1>4, <1>5, <1>6 DEF Bulk

LEMMA RowsStep ==
    ASSUME IInv, NEW r \in Requests, Step(r)
    PROVE  RowsType' /\ RowsFit'
<1> USE DEF IInv, TypeOK
<1>0. RowsFit
  BY DEF PathsFit, RowsFit
<1>1. CASE UNCHANGED db
  BY <1>0, <1>1 DEF db, RowsType, RowsFit, Is
<1>2. CASE SeedsNames(r) \/ SeedsPairs(r)
  <2>1. seen[r] \in Rows
    BY DEF RequestType
  <2>2. NamesOf(seen[r]) \subseteq Names /\ PairsOf(seen[r]) \subseteq Categories \X Tags
    BY <2>1, NamesOfType
  <2> QED BY <1>0, <1>2, <2>2 DEF SeedsNames, SeedsPairs, RowsType, RowsFit, Is
<1>3. CASE Saves(r)
  <2> DEFINE q == req[r]
  <2>1. q \in Inputs /\ q.op = "save"
    BY <1>3, BusyAsks DEF Saves, At, Busy
  <2>2. Written(q) \in PostRecords /\ Written(q).path = q.path /\ q.path \in Paths
    BY <2>1, WrittenType, InputKinds
  <2>3. /\ Known(Only(Written(q)))
        /\ \A i \in Ids : \/ i = IdOf[q.path] /\ posts'[i] = Written(q)
                          \/ posts'[i] \in {None, posts[i]}
        /\ posts' = [i \in Ids |-> posts'[i]]
    BY <1>3 DEF Saves
  <2>4. posts' \in Rows
    BY <2>2, <2>3 DEF RowsType, Rows
  <2>5. RowsFit'
    BY <1>0, <2>2, <2>3 DEF RowsFit, Is
  <2> QED BY <2>2, <2>3, <2>4, <2>5, OnlyType, KnownType DEF RowsType
<1>4. CASE Deletes(r)
  <2>1. /\ \A i \in Ids : posts'[i] \in {None, posts[i]}
        /\ posts' = [i \in Ids |-> posts'[i]] /\ UNCHANGED <<names, pairs>>
    BY <1>4 DEF Deletes
  <2> QED BY <1>0, <2>1 DEF RowsType, RowsFit, Rows, Is
<1>5. CASE Marks(r)
  <2>1. req[r] \in Inputs /\ req[r].op = "setDraft" /\ req[r].draft \in BOOLEAN
    BY <1>5, BusyAsks, InputKinds DEF Marks, At, Busy
  <2>2. /\ posts' = [i \in Ids |-> IF i \in ByPath(req[r].path)
                                   THEN [posts[i] EXCEPT !.draft = req[r].draft] ELSE posts[i]]
        /\ Known(posts')
    BY <1>5 DEF Marks
  <2>3. ASSUME NEW p \in PostRecords
        PROVE  /\ [p EXCEPT !.draft = req[r].draft] \in PostRecords
               /\ [p EXCEPT !.draft = req[r].draft].path = p.path
    BY <2>1 DEF PostRecords
  <2>4. \A i \in Ids : i \in ByPath(req[r].path) => posts[i] \in PostRecords
    BY DEF ByPath, Is, RowsType, Rows
  <2>5. posts' \in Rows
    BY <2>2, <2>3, <2>4 DEF RowsType, Rows
  <2>6. RowsFit'
    BY <1>0, <2>2, <2>3, <2>4 DEF RowsFit, Is, RowsType, Rows
  <2> QED BY <2>2, <2>5, <2>6, KnownType DEF RowsType
<1>6. CASE Rewrites(r)
  <2>1. PICK ps \in Rows : Known(ps)
    BY <1>6, RewriteIs
  <2>2. /\ req[r] \in Inputs /\ req[r].op \in Bulk
        /\ posts' = [i \in Ids |-> IF posts[i] = None THEN None ELSE Edited(req[r], posts[i])]
    BY <1>6, RewriteIs
  <2>3. \A i \in Ids : posts[i] # None =>
           /\ Edited(req[r], posts[i]) \in PostRecords
           /\ Edited(req[r], posts[i]).path = posts[i].path
    BY <2>2, EditedType DEF RowsType, Rows
  <2>4. posts' \in Rows /\ RowsFit'
    BY <1>0, <2>2, <2>3 DEF RowsFit, Is, Rows
  <2> QED BY <2>1, <2>4, KnownType DEF RowsType
<1>7. CASE \E p \in todo[r] : Adopts(r, p)
  <2>1. PICK p \in Paths, new \in PostRecords :
           new.path = p /\ posts' = [posts EXCEPT ![IdOf[p]] = new] /\ Known(Only(new))
    BY <1>7, AdoptIs DEF RequestType
  <2>2. posts' \in Rows
    BY <2>1 DEF RowsType, Rows
  <2>3. RowsFit'
    BY <1>0, <2>1 DEF RowsFit, Is, RowsType, Rows
  <2> QED BY <2>1, <2>2, <2>3, OnlyType, KnownType DEF RowsType
<1>8. CASE Forgets(r) \/ Knows(r)
  <2>1. names' \subseteq names \cup (IF pc[r] = "know" THEN Added(req[r]) ELSE {})
    BY <1>8 DEF Forgets, Knows, At
  <2>2. pc[r] = "know" => Added(req[r]) \subseteq Names
    <3> SUFFICES ASSUME pc[r] = "know" PROVE Added(req[r]) \subseteq Names
      OBVIOUS
    <3>1. req[r] \in Inputs /\ req[r].op \in Bulk \cup {"createTag", "createCategory"}
      BY BusyAsks DEF Placed, PlacedAt, Busy
    <3>2. /\ req[r].to \in Names \cup {None}
          /\ req[r].op = "createTag" => req[r].category \in Names \cup {None}
      BY <3>1, InputKinds DEF Bulk, Names
    <3> QED BY <3>2 DEF Added
  <2> QED BY <1>0, <1>8, <2>1, <2>2 DEF Forgets, Knows, RowsType, RowsFit, Is
<1>9. CASE Relates(r)
  <2>1. req[r] \in Inputs /\ req[r].op \in Bulk \cup {"createTag", "createCategory"}
    BY <1>9, BusyAsks DEF Relates, At, Placed, PlacedAt, Busy
  <2>2. Related(req[r]) \subseteq Categories \X Tags
    BY <2>1, RelatedType DEF RowsType
  <2> QED BY <1>0, <1>9, <2>2 DEF Relates, RowsType, RowsFit, Is
<1> QED BY <1>1, <1>2, <1>3, <1>4, <1>5, <1>6, <1>7, <1>8, <1>9, ChangesOrNot DEF Changes

-----------------------------------------------------------------------------
(* Directories. *)

TreeFits(tree) ==
    /\ tree \in Directories
    /\ \A p \in Paths : tree.files[p] # None => tree.files[p].path = p

LEMMA AbsentFits == TreeFits(Absent)
  BY DEF TreeFits, Absent, NoFiles, Directories

LEMMA TreesFit ==
    ASSUME IInv
    PROVE  TreeFits(dir) /\ TreeFits(backup) /\ TreeFits(staging)
  BY DEF IInv, TypeOK, DiskType, PathsFit, TreeFits

LEMMA DiskStep ==
    ASSUME IInv, NEW r \in Requests, Step(r)
    PROVE  TreeFits(dir)' /\ TreeFits(backup)' /\ TreeFits(staging)'
<1> USE DEF Step
<1>0. TreeFits(dir) /\ TreeFits(backup) /\ TreeFits(staging) /\ TreeFits(Absent)
  BY TreesFit, AbsentFits
<1>1. CASE UNCHANGED disk
  BY <1>0, <1>1 DEF disk, TreeFits
<1>2. CASE Stage(r)
  <2>1. /\ FilesOf(posts) \in [Paths -> PostRecords \cup {None}]
        /\ \A p \in Paths : FilesOf(posts)[p] # None => FilesOf(posts)[p].path = p
    BY FilesOfType DEF IInv, TypeOK, RowsType
  <2>2. staging' = [there |-> TRUE, files |-> FilesOf(posts), list |-> names]
    BY <1>2 DEF Stage
  <2>3. TreeFits(staging)'
    BY <2>1, <2>2 DEF TreeFits, Directories, IInv, TypeOK, RowsType
  <2> QED BY <1>0, <1>2, <2>3 DEF Stage, TreeFits
<1>3. CASE MoveAway(r)
  BY <1>0, <1>3 DEF MoveAway, TreeFits
<1>4. CASE MoveIn(r)
  BY <1>0, <1>4 DEF MoveIn, TreeFits
<1>5. CASE Put(r)
  <2>1. dir' = [dir EXCEPT !.there = TRUE, !.list = list[r]] /\ list[r] \in SUBSET Names
    BY <1>5 DEF Put, IInv, TypeOK, RequestType
  <2>2. TreeFits(dir)'
    BY <1>0, <2>1 DEF TreeFits, Directories
  <2> QED BY <1>0, <1>5, <2>2 DEF Put, TreeFits
<1>6. CASE Fail(r)
  BY <1>0, <1>6 DEF Fail, TreeFits
<1> QED
  BY <1>1, <1>2, <1>3, <1>4, <1>5, <1>6
  DEF Handle, Begin, Lock, SeedNames, SeedsNames, SeedPairs, SeedsPairs, Check, Save, Saves, Delete,
      Deletes, SetDraft, Marks, Rewrite, Rewrites, Collect, Adopt, Adopts, Forget, Forgets, Know,
      Knows, Relate, Relates, List, LoseAnswer, disk

LEMMA PutFileStep ==
    ASSUME IInv, NEW p \in DOMAIN Orphans, PutFile(p)
    PROVE  TreeFits(dir)' /\ TreeFits(backup)' /\ TreeFits(staging)'
<1>1. TreeFits(dir) /\ TreeFits(backup) /\ TreeFits(staging)
  BY TreesFit
<1>2. p \in Paths /\ Orphans[p] \in PostRecords /\ Orphans[p].path = p
  BY SeedsFit
<1>3. TreeFits(dir)'
  BY <1>1, <1>2 DEF PutFile, TreeFits, Directories
<1> QED BY <1>1, <1>3 DEF PutFile, TreeFits

LEMMA HistoryTypeStep ==
    ASSUME IInv, NEW r \in Requests, Step(r)
    PROVE  HistoryType'
<1> USE DEF Step, IInv, TypeOK, HistoryType
<1>1. CASE \E q \in Inputs : Begin(r, q)
  <2>1. PICK q \in Inputs : Begin(r, q)
    BY <1>1
  <2>2. sent' \in Nat
    BY <2>1 DEF Begin
  <2>3. alone' = [s \in Requests |-> IF s = r THEN ~\E o \in Requests : Busy(o)
                                     ELSE alone[s] /\ ~Busy(s)]
    BY <2>1 DEF Begin
  <2>4. \A s \in Requests : alone[s] \in BOOLEAN
    OBVIOUS
  <2>5. ASSUME NEW s \in Requests
        PROVE  (IF s = r THEN ~\E o \in Requests : Busy(o) ELSE alone[s] /\ ~Busy(s)) \in BOOLEAN
    BY <2>4, Zenon
  <2>6. alone' \in [Requests -> BOOLEAN]
    BY <2>3, <2>5, Zenon
  <2>7. raced' \in BOOLEAN
    BY <2>1, Zenon DEF Begin
  <2> QED BY <2>2, <2>6, <2>7
<1>2. CASE UNCHANGED <<sent, history>>
  BY <1>2 DEF history
<1> QED
  BY <1>1, <1>2
  DEF Handle, Lock, SeedNames, SeedsNames, SeedPairs, SeedsPairs, Check, Save, Saves, Delete,
      Deletes, SetDraft, Marks, Rewrite, Rewrites, Collect, Adopt, Adopts, Stage, MoveAway, MoveIn,
      Forget, Forgets, Know, Knows, Relate, Relates, List, Put, Fail, LoseAnswer

\* Every variable keeps its type, every row the id of its path, every file its path.
LEMMA TypeStep ==
    ASSUME IInv, NEW r \in Requests, Step(r)
    PROVE  TypeOK' /\ PathsFit' /\ Placed'
<1>1. RowsType' /\ RowsFit' /\ HistoryType' /\ Placed'
  BY RowsStep, HistoryTypeStep, PlacedStep DEF IInv, TypeOK
<1>2. RequestType'
  BY RequestTypeStep DEF IInv
<1>3. DiskType' /\ PathsFit'
  BY <1>1, DiskStep DEF DiskType, PathsFit, RowsFit, TreeFits
<1> QED BY <1>1, <1>2, <1>3 DEF TypeOK

-----------------------------------------------------------------------------
(* What the holder of content_lock has read. *)

\* Only the holder of content_lock changes posts and staging, and takes files away.
LEMMA LockGuards ==
    ASSUME IInv, NEW r \in Requests, Step(r), lock # r
    PROVE  posts' = posts /\ staging' = staging /\ dir'.files = dir.files
<1> USE DEF Step, IInv, Placed, PlacedAt, Locked, At
<1>1. CASE Put(r)
  <2>1. dir' = [dir EXCEPT !.there = TRUE, !.list = list[r]] /\ dir \in Directories
    BY <1>1 DEF Put, TypeOK, DiskType
  <2>2. dir'.files = dir.files
    BY <2>1 DEF Directories
  <2> QED BY <1>1, <2>2 DEF Put, db
<1>2. CASE Fail(r)
  BY <1>2 DEF Fail, db
<1>3. pc[r] \notin Locked
  BY DEF Locked
<1>4. CASE LoseAnswer(r)
  <2>1. posts' = posts
    BY <1>3, <1>4 DEF LoseAnswer, Changes, SeedsNames, SeedsPairs, Saves, Deletes, Marks, Rewrites,
                      Adopts, Forgets, Knows, Relates
  <2> QED BY <1>4, <2>1 DEF LoseAnswer, disk
<1> QED
  BY <1>1, <1>2, <1>3, <1>4
  DEF Handle, Begin, Lock, SeedNames, SeedsNames, SeedPairs, SeedsPairs, Check, Save, Saves, Delete,
      Deletes, SetDraft, Marks, Rewrite, Rewrites, Collect, Adopt, Adopts, Stage, MoveAway, MoveIn,
      Forget, Forgets, Know, Knows, Relate, Relates, List, db, disk

Holds(r) ==
    lock = r =>
       /\ pc[r] \in {"seedNames", "seedPairs", "check", "change"} => seen[r] = posts
       /\ pc[r] = "change" /\ req[r].op = "save" => ~PathTaken(req[r])
       /\ pc[r] = "adopt" => \A p \in todo[r] : dir.files[p] # None /\ ByPath(p) = {}
       /\ pc[r] \in {"away", "in"} => staging.files = FilesOf(posts)

LEMMA HoldsStep ==
    ASSUME IInv, NEW r \in Requests, Step(r)
    PROVE  Holds(r)'
<1> USE DEF Step, Holds
<1>0. /\ RequestType /\ Placed /\ PlacedAt(r) /\ Holds(r)
  BY DEF IInv, TypeOK, Placed, ReadsHold
<1>1. CASE \E q \in Inputs : Begin(r, q)
  BY <1>0, <1>1 DEF Begin, At, PlacedAt, Locked
<1>2. CASE Lock(r)
  BY <1>0, <1>2 DEF Lock, RequestType, db
<1>3. CASE SeedNames(r)
  BY <1>0, <1>3 DEF SeedNames, SeedsNames, Goto, At, RequestType
<1>4. CASE SeedPairs(r)
  <2>1. lock # r => lock' # r
    BY <1>4, Nobody DEF SeedPairs, SeedsPairs, Return
  <2> QED BY <1>0, <1>4, <2>1 DEF SeedPairs, SeedsPairs, Goto, At, RequestType
<1>5. CASE Check(r)
  <2>1. CASE lock' = r
    <3>1. UNCHANGED <<posts, req, seen>> /\ pc' = [pc EXCEPT ![r] = "change"] /\ ~PathTaken(req[r])
      BY <1>5, <2>1, <1>0, Nobody DEF Check, Goto, Return, At, PlacedAt, Locked, db
    <3>2. ~PathTaken(req[r])'
      BY <3>1 DEF PathTaken, ByPath, Is
    <3>3. pc'[r] = "change" /\ seen'[r] = posts'
      BY <1>0, <1>5, <3>1 DEF Check, At, PlacedAt, Locked, RequestType
    <3> QED BY <3>2, <3>3
  <2> QED BY <2>1
<1>6. CASE Save(r) \/ Delete(r) \/ SetDraft(r) \/ Rewrite(r)
  <2>1. pc'[r] \in {"stage", "forget", "idle"}
    BY <1>0, <1>6 DEF Save, Saves, Delete, Deletes, SetDraft, Marks, Rewrite, Rewrites, Goto,
                      Return, RequestType
  <2> QED BY <2>1
<1>7. CASE Collect(r)
  <2>1. /\ UNCHANGED <<dir, posts>> /\ pc'[r] \in {"stage", "adopt"}
        /\ todo'[r] = {p \in Paths : dir.files[p] # None /\ ByPath(p) = {}}
    BY <1>0, <1>7 DEF Collect, RequestType, db, disk
  <2>2. \A p \in Paths : ByPath(p)' = ByPath(p)
    BY <2>1 DEF ByPath, Is
  <2> QED BY <2>1, <2>2
<1>8. CASE Adopt(r)
  <2>0. PICK p \in todo[r] : /\ Adopts(r, p) /\ todo' = [todo EXCEPT ![r] = @ \ {p}]
                             /\ UNCHANGED disk
    BY <1>8 DEF Adopt
  <2>1. /\ lock = r /\ pc[r] = "adopt" /\ p \in Paths
        /\ \E new \in PostRecords : new.path = p /\ posts' = [posts EXCEPT ![IdOf[p]] = new]
    BY <2>0, AdoptIs
  <2>2. pc'[r] \in {"stage", "adopt"} /\ todo'[r] = todo[r] \ {p}
    BY <1>0, <1>8, <2>0 DEF Adopt, RequestType
  <2>3. ASSUME NEW o \in todo[r], o # p
        PROVE  dir'.files[o] # None /\ ByPath(o)' = {}
    <3>1. dir.files[o] # None /\ ByPath(o) = {}
      BY <1>0, <2>1
    <3>2. PICK new \in PostRecords : new.path = p /\ posts' = [posts EXCEPT ![IdOf[p]] = new]
      BY <2>1
    <3>3. \A i \in Ids : posts'[i] = posts[i] \/ posts'[i] = new
      BY <3>2 DEF IInv, TypeOK, RowsType, Rows
    <3> QED BY <2>0, <2>3, <3>1, <3>2, <3>3 DEF ByPath, Is, disk
  <2> QED BY <2>2, <2>3
<1>9. CASE Stage(r)
  BY <1>0, <1>9 DEF Stage, Goto, RequestType, db
<1>10. CASE MoveAway(r)
  BY <1>0, <1>10 DEF MoveAway, Goto, At, RequestType, db
<1>11. CASE MoveIn(r)
  <2>1. pc'[r] \in {"idle", "forget"}
    BY <1>0, <1>11 DEF MoveIn, Exported, Goto, Return, RequestType
  <2> QED BY <2>1
<1>12. CASE Forget(r) \/ Know(r) \/ Relate(r) \/ List(r)
  BY <1>0, <1>12 DEF Forget, Forgets, Know, Knows, Relate, Relates, List, At, PlacedAt, Locked
<1>13. CASE Put(r) \/ Fail(r) \/ LoseAnswer(r)
  <2>1. pc'[r] = "idle"
    BY <1>0, <1>13 DEF Put, Fail, LoseAnswer, Return, RequestType
  <2> QED BY <2>1
<1> QED BY <1>1, <1>2, <1>3, <1>4, <1>5, <1>6, <1>7, <1>8, <1>9, <1>10, <1>11, <1>12, <1>13 DEF Handle

\* What the holder of content_lock has read stays true, whatever the others do.
LEMMA ReadsHoldStep ==
    ASSUME IInv, NEW r \in Requests, Step(r)
    PROVE  ReadsHold'
<1>1. ASSUME NEW s \in Requests, s # r
      PROVE  Holds(s)'
  <2>1. /\ pc'[s] = pc[s] /\ req'[s] = req[s] /\ seen'[s] = seen[s]
        /\ todo'[s] = todo[s] /\ list'[s] = list[s] /\ (lock' = s <=> lock = s)
    BY <1>1, OthersStay DEF IInv, TypeOK
  <2>2. CASE lock = s
    <3>1. posts' = posts /\ staging' = staging /\ dir'.files = dir.files
      BY <1>1, <2>2, LockGuards
    <3>2. PathTaken(req[s])' = PathTaken(req[s]) /\ \A p : ByPath(p)' = ByPath(p)
      BY <2>1, <3>1 DEF PathTaken, ByPath, Is
    <3> QED BY <2>1, <2>2, <3>1, <3>2 DEF Holds, IInv, ReadsHold
  <2> QED BY <2>1, <2>2 DEF Holds
<1>2. Holds(r)'
  BY HoldsStep
<1> QED BY <1>1, <1>2 DEF ReadsHold, Holds

-----------------------------------------------------------------------------
(* Requests that meet. *)

\* Only a new request makes two requests meet: every other step leaves the history, and
\* who is still at work was, with the same question.
LEMMA Onward ==
    ASSUME IInv, NEW r \in Requests, Handle(r) \/ Fail(r) \/ LoseAnswer(r)
    PROVE  /\ UNCHANGED history /\ Busy(r)
           /\ \A s \in Requests : Busy(s)' => Busy(s) /\ req'[s] = req[s]
<1>1. UNCHANGED history /\ Busy(r)
  <2>1. CASE Handle(r) \/ Fail(r)
    BY <2>1
    DEF Handle, Lock, SeedNames, SeedsNames, SeedPairs, SeedsPairs, Check, Save, Saves, Delete,
        Deletes, SetDraft, Marks, Rewrite, Rewrites, Collect, Adopt, Adopts, Stage, MoveAway,
        MoveIn, Forget, Forgets, Know, Knows, Relate, Relates, List, Put, Fail, At, Busy
  <2>2. CASE LoseAnswer(r)
    BY <2>2, ChangesPlace DEF LoseAnswer, Busy
  <2> QED BY <2>1, <2>2
<1>2. ASSUME NEW s \in Requests, s # r, Busy(s)'
      PROVE  Busy(s) /\ req'[s] = req[s]
  BY <1>2, OthersStay DEF Step, IInv, TypeOK, Busy
<1>3. UNCHANGED req \/ Return(r)
  BY DEF Handle, Lock, SeedNames, SeedsNames, SeedPairs, SeedsPairs, Check, Save, Saves, Delete,
         Deletes, SetDraft, Marks, Rewrite, Rewrites, Collect, Adopt, Adopts, Stage, MoveAway,
         MoveIn, Exported, Forget, Forgets, Know, Knows, Relate, Relates, List, Put, Fail,
         LoseAnswer, Goto
<1>4. Return(r) => ~Busy(r)'
  BY DEF Return, Busy, IInv, TypeOK, RequestType
<1> QED BY <1>1, <1>2, <1>3, <1>4

\* A bulk change that is undisturbed after a step was so before, unless it came with it.
LEMMA StillUndisturbed ==
    ASSUME IInv, NEW r \in Requests, Step(r), NEW s \in Requests, Undisturbed(s)',
           r # s \/ pc[r] # "idle"
    PROVE  Undisturbed(s) /\ req'[s] = req[s] /\ (alone'[s] => alone[s]) /\ (raced => raced')
<1>1. CASE \E q \in Inputs : Begin(r, q)
  <2>1. PICK q \in Inputs : Begin(r, q)
    BY <1>1
  <2>2. r # s /\ req'[s] = req[s] /\ pc'[s] = pc[s]
    BY <2>1, OthersStay DEF Begin, At, IInv, TypeOK
  <2>3. alone'[s] => alone[s]
    BY <2>1, <2>2, Zenon DEF Begin
  <2>4. raced => raced'
    BY <2>1, Zenon DEF Begin
  <2> QED BY <2>2, <2>3, <2>4 DEF Undisturbed, Busy
<1>2. CASE Handle(r) \/ Fail(r) \/ LoseAnswer(r)
  BY <1>2, Onward DEF Undisturbed, history
<1> QED BY <1>1, <1>2 DEF Step

LEMMA MeetsStep ==
    ASSUME IInv, NEW r \in Requests, Step(r)
    PROVE  Meets'
<1>1. ASSUME NEW q \in Inputs, Begin(r, q)
      PROVE  Meets'
  <2> SUFFICES ASSUME NEW a \in Requests, NEW b \in Requests, a # b, Busy(b)', Busy(a)'
               PROVE  /\ ~alone'[a]
                      /\ Undisturbed(a)' => req'[b].op \notin Bulk \cup PostOps
    BY DEF Meets, Undisturbed
  <2>1. pc[r] = "idle" /\ req' = [req EXCEPT ![r] = q] /\ req'[r] = q
    BY <1>1 DEF Begin, At, IInv, TypeOK, RequestType
  <2>2. \A s \in Requests : s # r => Busy(s)' = Busy(s) /\ req'[s] = req[s]
    BY <1>1, OthersStay DEF Step, IInv, TypeOK, Busy
  <2>3. alone' = [s \in Requests |-> IF s = r THEN ~\E o \in Requests : Busy(o)
                                     ELSE alone[s] /\ ~Busy(s)]
    BY <1>1 DEF Begin
  <2>4. raced' = (raced \/ \E s \in Requests :
                     /\ Busy(s) /\ {q.op, req[s].op} \cap Bulk # {}
                     /\ {q.op, req[s].op} \subseteq Bulk \cup PostOps)
    BY <1>1 DEF Begin
  <2>5. ~alone'[a]
    <3>1. CASE a = r
      BY <2>2, <2>3, <3>1, Zenon
    <3>2. CASE a # r
      BY <2>2, <2>3, <3>2, Zenon
    <3> QED BY <3>1, <3>2
  <2>6. ASSUME Undisturbed(a)'
        PROVE  req'[b].op \notin Bulk \cup PostOps
    <3>1. req'[a].op \in Bulk /\ ~raced'
      BY <2>5, <2>6 DEF Undisturbed
    <3>0. \A s \in Requests : Busy(s) =>
             \/ {q.op, req[s].op} \cap Bulk = {} \/ ~({q.op, req[s].op} \subseteq Bulk \cup PostOps)
      BY <2>4, <3>1
    <3>2. CASE a = r
      <4>1. req'[a] = q /\ Busy(b) /\ req'[b] = req[b]
        BY <2>1, <2>2, <3>2
      <4> QED BY <3>0, <3>1, <4>1
    <3>3. CASE b = r
      <4>1. req'[b] = q /\ Busy(a) /\ req'[a] = req[a]
        BY <2>1, <2>2, <3>3
      <4> QED BY <3>0, <3>1, <4>1
    <3>4. CASE a # r /\ b # r
      <4>1. Busy(a) /\ Busy(b) /\ req'[a] = req[a] /\ req'[b] = req[b] /\ ~raced
        BY <2>2, <2>4, <3>1, <3>4
      <4> QED BY <3>1, <4>1 DEF IInv, Meets, Undisturbed
    <3> QED BY <3>2, <3>3, <3>4
  <2> QED BY <2>5, <2>6
<1>2. CASE Handle(r) \/ Fail(r) \/ LoseAnswer(r)
  <2>1. /\ UNCHANGED history
        /\ \A s \in Requests : Busy(s)' => Busy(s) /\ req'[s] = req[s]
    BY <1>2, Onward
  <2> QED BY <2>1 DEF IInv, Meets, Undisturbed, history
<1> QED BY <1>1, <1>2 DEF Step

-----------------------------------------------------------------------------
(* Names follow posts. *)

\* Whether the names N and the pairs P have all that a post has.
Covers(N, P, p) == p.tags \cup CategoryOf(p) \subseteq N /\ CategoryOf(p) \X p.tags \subseteq P

LEMMA CoversIs ==
    ASSUME NEW ps, NEW N, NEW P
    PROVE  (NamesOf(ps) \subseteq N /\ PairsOf(ps) \subseteq P)
              <=> \A i \in Ids : ps[i] # None => Covers(N, P, ps[i])
<1>1. NamesOf(ps) \subseteq N
         <=> \A i \in Ids : ps[i] # None => ps[i].tags \cup CategoryOf(ps[i]) \subseteq N
  BY Zenon DEF NamesOf
<1>2. PairsOf(ps) \subseteq P
         <=> \A i \in Ids : ps[i] # None => CategoryOf(ps[i]) \X ps[i].tags \subseteq P
  BY Zenon DEF PairsOf
<1> QED BY <1>1, <1>2, Zenon DEF Covers

\* What becomes known covers the posts it comes from.
LEMMA KnownCovers ==
    ASSUME NEW ps, Known(ps)
    PROVE  \A i \in Ids : ps[i] # None => Covers(names', pairs', ps[i])
<1>1. NamesOf(ps) \subseteq names' /\ PairsOf(ps) \subseteq pairs'
  BY DEF Known
<1> QED BY <1>1, CoversIs

LEMMA OnlyIs ==
    ASSUME NEW p \in PostRecords
    PROVE  /\ IdOf[p.path] \in Ids /\ Only(p)[IdOf[p.path]] = p
           /\ NamesOf(Only(p)) = p.tags \cup CategoryOf(p)
<1>1. IdOf[p.path] \in Ids
  BY RecordFields DEF ContentAssumption
<1>2. Only(p)[IdOf[p.path]] = p /\ \A i \in Ids : i # IdOf[p.path] => Only(p)[i] = None
  BY <1>1 DEF Only, NoPosts
<1>3. p # None
  BY RecordFields
<1>4. {j \in Ids : Only(p)[j] # None} = {IdOf[p.path]}
  BY <1>1, <1>2, <1>3
<1> QED BY <1>1, <1>2, <1>4 DEF NamesOf

\* A bulk change leaves no post with the name it takes away.
LEMMA EditedClears ==
    ASSUME NEW q \in Inputs, q.op \in Bulk, NEW p \in PostRecords
    PROVE  ~Outdated(q, Edited(q, p))
<1>0. /\ p.category \in Categories \cup {None} /\ p.tags \in SUBSET Tags
      /\ Tags \cap Categories = {} /\ None \notin Tags /\ None \notin Categories
  BY RecordFields DEF ContentAssumption, Names
<1>1. CASE q.op = "renameCategory"
  <2>1. q.from \in Categories /\ q.to \in Categories /\ q.from # q.to
    BY <1>1, InputKinds DEF Bulk
  <2>2. CASE p.category = q.from
    <3>1. Edited(q, p) = [p EXCEPT !.category = q.to]
      BY <1>1, <2>2 DEF Edited
    <3> QED BY <1>0, <2>1, <3>1 DEF Outdated, PostRecords
  <2>3. CASE p.category # q.from
    <3>1. Edited(q, p) = p
      BY <1>1, <2>3 DEF Edited
    <3> QED BY <1>0, <2>1, <2>3, <3>1 DEF Outdated
  <2> QED BY <2>2, <2>3
<1>2. CASE q.op = "deleteCategory"
  <2>1. q.from \in Categories
    BY <1>2, InputKinds DEF Bulk
  <2>2. CASE p.category = q.from
    <3>1. Edited(q, p) = [p EXCEPT !.category = None]
      BY <1>2, <2>2 DEF Edited
    <3> QED BY <1>0, <2>1, <3>1 DEF Outdated, PostRecords
  <2>3. CASE p.category # q.from
    <3>1. Edited(q, p) = p
      BY <1>2, <2>3 DEF Edited
    <3> QED BY <1>0, <2>1, <2>3, <3>1 DEF Outdated
  <2> QED BY <2>2, <2>3
<1>3. CASE q.op \in {"renameTag", "deleteTag"}
  <2>1. q.from \in Tags /\ q.from # q.to
    BY <1>3, InputKinds DEF Bulk
  <2>2. CASE q.from \in p.tags /\ q.category \in {None, p.category}
    <3>1. Edited(q, p) = [p EXCEPT !.tags = (@ \ {q.from}) \cup ({q.to} \ {None})]
      BY <1>3, <2>2 DEF Edited
    <3>2. Edited(q, p).category = p.category /\ q.from \notin Edited(q, p).tags
      BY <2>1, <3>1 DEF PostRecords
    <3> QED BY <1>0, <2>1, <3>2 DEF Outdated
  <2>3. CASE ~(q.from \in p.tags /\ q.category \in {None, p.category})
    <3>1. Edited(q, p) = p
      BY <1>3, <2>3 DEF Edited
    <3> QED BY <1>0, <2>1, <2>3, <3>1 DEF Outdated
  <2> QED BY <2>2, <2>3
<1> QED BY <1>1, <1>2, <1>3 DEF Bulk

\* A change of the posts is one of the requests that lock, and makes its posts known.
LEMMA PostsChange ==
    ASSUME IInv, NEW r \in Requests, Step(r), posts' # posts
    PROVE  /\ Busy(r) /\ req[r].op \in Bulk \cup PostOps /\ pc[r] \in {"change", "adopt"}
           /\ \/ Saves(r) \/ Deletes(r) \/ Marks(r) \/ Rewrites(r) \/ \E p \in todo[r] : Adopts(r, p)
           /\ req[r].op \in Bulk => Rewrites(r)
<1> USE DEF IInv, Placed, PlacedAt, Locked, At, Busy
<1>1. Saves(r) \/ Deletes(r) \/ Marks(r) \/ Rewrites(r) \/ \E p \in todo[r] : Adopts(r, p)
  BY ChangesOrNot DEF Changes, SeedsNames, SeedsPairs, Forgets, Knows, Relates, db
<1>2. pc[r] \in {"change", "adopt"}
  BY <1>1 DEF Saves, Deletes, Marks, Rewrites, Adopts
<1>3. lock = r /\ req[r].op \in Bulk \cup PostOps
  BY <1>2
<1>4. req[r].op \in Bulk => Rewrites(r)
  BY <1>1, <1>2 DEF Saves, Deletes, Marks, Rewrites, Adopts, Bulk
<1> QED BY <1>1, <1>2, <1>3, <1>4

\* A bulk change that met no other change: no post has the old name from its rewriting on.
LEMMA OldNameGoesStep ==
    ASSUME IInv, NEW r \in Requests, Step(r)
    PROVE  OldNameGoes'
<1> SUFFICES ASSUME NEW s \in Requests, Undisturbed(s)', pc'[s] \in Changed,
                    NEW i \in Ids, posts'[i] # None
             PROVE  ~Outdated(req'[s], posts'[i])
  BY DEF OldNameGoes, Is
<1>1. r # s \/ pc[r] # "idle"
  <2>1. ASSUME r = s, pc[r] = "idle"
        PROVE  FALSE
    <3>0. ~LoseAnswer(r)
      BY <2>1, ChangesPlace DEF LoseAnswer
    <3>1. PICK q \in Inputs : Begin(r, q)
      BY <2>1, <3>0 DEF Step, Handle, Fail, Busy, Lock, SeedNames, SeedsNames, SeedPairs,
                        SeedsPairs, Check, Save, Saves, Delete, Deletes, SetDraft, Marks, Rewrite,
                        Rewrites, Collect, Adopt, Adopts, Stage, MoveAway, MoveIn, Forget, Forgets,
                        Know, Knows, Relate, Relates, List, Put, At
    <3> QED BY <2>1, <3>1 DEF Begin, IInv, TypeOK, RequestType, Changed
  <2> QED BY <2>1
<1>2. Undisturbed(s) /\ req'[s] = req[s]
  BY <1>1, StillUndisturbed
<1>3. CASE posts' = posts /\ pc[s] \in Changed
  BY <1>2, <1>3 DEF IInv, OldNameGoes, Is
<1>4. CASE r # s
  <2>1. pc'[s] = pc[s]
    BY <1>4, OthersStay DEF IInv, TypeOK
  <2>2. posts' = posts
    BY <1>2, <1>4, PostsChange DEF IInv, Meets
  <2> QED BY <1>3, <2>1, <2>2
<1>5. CASE r = s /\ Rewrites(r)
  <2>1. /\ req[r] \in Inputs /\ req[r].op \in Bulk
        /\ posts' = [j \in Ids |-> IF posts[j] = None THEN None ELSE Edited(req[r], posts[j])]
    BY <1>5, RewriteIs
  <2>2. posts[i] \in PostRecords /\ posts'[i] = Edited(req[r], posts[i])
    BY <2>1 DEF IInv, TypeOK, RowsType, Rows
  <2> QED BY <1>2, <1>5, <2>1, <2>2, EditedClears
<1>6. CASE r = s /\ ~Rewrites(r)
  <2>1. posts' = posts
    BY <1>2, <1>6, PostsChange DEF Undisturbed
  <2>2. pc[s] \in Changed
    <3>1. req[r].op \in Bulk /\ PlacedAt(r) /\ pc[r] # "idle"
      BY <1>2, <1>6 DEF Undisturbed, Busy, IInv, Placed
    <3>2. ~Fail(r) /\ ~LoseAnswer(r)
      BY <1>2, <1>6 DEF Fail, LoseAnswer, Return, Undisturbed, Busy, IInv, TypeOK, RequestType
    <3>3. ~Rewrite(r) /\ pc'[r] \in Changed
      BY <1>6 DEF Rewrite
    <3>4. ~Save(r) /\ ~Delete(r) /\ ~SetDraft(r) /\ ~Collect(r) /\ ~Adopt(r) /\ ~Check(r)
      BY <3>1
      DEF Save, Saves, Delete, Deletes, SetDraft, Marks, Collect, Adopt, Adopts, Check, At, PlacedAt,
          Bulk, PostOps
    <3>5. ~(\E q \in Inputs : Begin(r, q)) /\ ~Lock(r) /\ ~SeedNames(r)
      BY <3>1, <3>3 DEF Begin, Lock, SeedNames, SeedsNames, Goto, At, IInv, TypeOK, RequestType, Changed
    <3>6. ~SeedPairs(r)
      BY <3>1, <3>3 DEF SeedPairs, Goto, Return, IInv, TypeOK, RequestType, Changed, Bulk
    <3>7. CASE Stage(r) \/ MoveAway(r) \/ MoveIn(r)
      BY <1>6, <3>7 DEF Stage, MoveAway, MoveIn, At, Changed
    <3>8. CASE Forget(r) \/ Know(r) \/ Relate(r) \/ List(r) \/ Put(r)
      BY <1>6, <3>8 DEF Forget, Forgets, Know, Knows, Relate, Relates, List, Put, At, Changed
    <3> QED BY <3>2, <3>3, <3>4, <3>5, <3>6, <3>7, <3>8 DEF Step, Handle
  <2> QED BY <1>3, <2>1, <2>2
<1> QED BY <1>4, <1>5, <1>6

\* A change of the posts makes known what it writes.
LEMMA WrittenIsKnown ==
    ASSUME IInv, NEW r \in Requests, Step(r), posts' # posts
    PROVE  /\ names \subseteq names' /\ pairs \subseteq pairs'
           /\ \A i \in Ids : \/ posts'[i] \in {None, posts[i]}
                             \/ Covers(names', pairs', posts'[i])
<1>1. CASE Saves(r)
  <2>1. req[r] \in Inputs /\ req[r].op = "save"
    BY <1>1, BusyAsks DEF Saves, At, Busy, IInv, TypeOK
  <2>2. Known(Only(Written(req[r])))
    BY <1>1 DEF Saves
  <2>3. \A i \in Ids : \/ i = IdOf[req[r].path] /\ posts'[i] = Written(req[r])
                       \/ posts'[i] \in {None, posts[i]}
    BY <1>1 DEF Saves
  <2>4. Written(req[r]) \in PostRecords /\ Written(req[r]).path = req[r].path
    BY <2>1, WrittenType
  <2>5. PICK ps : ps = Only(Written(req[r]))
    OBVIOUS
  <2>6. ps[IdOf[req[r].path]] = Written(req[r]) /\ Written(req[r]) # None
    BY <2>4, <2>5, OnlyIs, RecordFields
  <2> QED BY <2>2, <2>3, <2>5, <2>6, KnownCovers DEF Known
<1>2. CASE Deletes(r)
  <2>1. /\ \A i \in Ids : posts'[i] \in {None, posts[i]}
        /\ UNCHANGED <<names, pairs>>
    BY <1>2 DEF Deletes
  <2> QED BY <2>1
<1>3. CASE Marks(r)
  <2>1. Known(posts')
    BY <1>3 DEF Marks, db
  <2>2. PICK ps : ps = posts'
    OBVIOUS
  <2> QED BY <2>1, <2>2, KnownCovers DEF Known
<1>4. CASE Rewrites(r)
  <2>1. PICK ps \in Rows : /\ Known(ps)
                           /\ \A i \in Ids : posts'[i] # posts[i] => ps[i] = posts'[i]
    BY <1>4, RewriteIs
  <2> QED BY <2>1, KnownCovers DEF Known
<1>5. CASE \E p \in todo[r] : Adopts(r, p)
  <2>1. PICK p \in todo[r], new \in PostRecords :
           new.path = p /\ posts' = [posts EXCEPT ![IdOf[p]] = new] /\ Known(Only(new))
    BY <1>5, AdoptIs
  <2>2. \A i \in Ids : (i = IdOf[p] /\ posts'[i] = new) \/ posts'[i] = posts[i]
    BY <2>1 DEF IInv, TypeOK, RowsType, Rows
  <2>3. PICK ps : ps = Only(new)
    OBVIOUS
  <2>4. ps[IdOf[p]] = new /\ new # None
    BY <2>1, <2>3, OnlyIs, RecordFields
  <2> QED BY <2>1, <2>2, <2>3, <2>4, KnownCovers DEF Known
<1> QED BY <1>1, <1>2, <1>3, <1>4, <1>5, PostsChange

\* What a bulk change forgets, no post that is not outdated needs.
LEMMA ForgetSpares ==
    ASSUME NEW q \in Inputs, q.op \in Bulk \cup {"createTag", "createCategory"},
           NEW p \in PostRecords, Covers(names, pairs, p), q.op \in Bulk => ~Outdated(q, p)
    PROVE  Covers(names \ Dropped(q), pairs, p) /\ Covers(names, Related(q), p)
<1>0. /\ p.category \in Categories \cup {None} /\ p.tags \in SUBSET Tags
      /\ Tags \cap Categories = {} /\ None \notin Tags /\ None \notin Categories
  BY RecordFields DEF ContentAssumption, Names
<1>1. Covers(names \ Dropped(q), pairs, p)
  <2>1. CASE q.op \in Bulk /\ q.category = None
    <3>1. q.from \notin p.tags \cup CategoryOf(p)
      BY <2>1 DEF Outdated, CategoryOf
    <3> QED BY <3>1 DEF Covers, Dropped
  <2>2. CASE ~(q.op \in Bulk /\ q.category = None)
    BY <2>2 DEF Covers, Dropped
  <2> QED BY <2>1, <2>2
<1>2. ASSUME NEW c \in CategoryOf(p), NEW t \in p.tags
      PROVE  <<c, t>> \in Related(q)
  <2>0. <<c, t>> \in pairs /\ c = p.category /\ c \in Categories /\ t \in Tags
    BY <1>0, <1>2 DEF Covers, CategoryOf
  <2>1. CASE q.op \in {"createTag", "createCategory"}
    BY <2>0, <2>1 DEF Related
  <2>2. CASE q.op \in {"renameTag", "deleteTag"}
    <3>1. q.category # None => (q.category = c => t # q.from)
      BY <2>0, <2>2 DEF Outdated, Bulk
    <3>2. q.category = None => t # q.from
      BY <2>0, <2>2 DEF Outdated, Bulk
    <3>3. CASE q.category # None
      BY <2>0, <2>2, <3>1, <3>3 DEF Related
    <3>4. CASE q.category = None
      BY <2>0, <2>2, <3>2, <3>4 DEF Related
    <3> QED BY <3>3, <3>4
  <2>3. CASE q.op \in {"renameCategory", "deleteCategory"}
    <3>1. q.category = None
      BY <2>3, InputKinds DEF Bulk
    <3>2. c # q.from
      BY <2>0, <2>3, <3>1 DEF Outdated, Bulk
    <3>3. CASE q.op = "renameCategory"
      BY <2>0, <3>2, <3>3 DEF Related
    <3>4. CASE q.op = "deleteCategory"
      BY <2>0, <3>2, <3>4 DEF Related
    <3> QED BY <2>3, <3>3, <3>4
  <2> QED BY <2>1, <2>2, <2>3 DEF Bulk
<1>3. Covers(names, Related(q), p)
  BY <1>2 DEF Covers
<1> QED BY <1>1, <1>3

\* Names and pairs go only when a bulk change takes them out of the lists.
LEMMA NamesFollowPostsStep ==
    ASSUME IInv, NEW r \in Requests, Step(r)
    PROVE  NamesFollowPosts'
<1>1. raced => raced'
  <2>1. CASE \E q \in Inputs : Begin(r, q)
    BY <2>1, Zenon DEF Begin
  <2>2. CASE Handle(r) \/ Fail(r) \/ LoseAnswer(r)
    BY <2>2, Onward DEF history
  <2> QED BY <2>1, <2>2 DEF Step
<1> SUFFICES ASSUME ~raced
             PROVE  NamesOf(posts)' \subseteq names' /\ PairsOf(posts)' \subseteq pairs'
  BY <1>1 DEF NamesFollowPosts, IInv
<1>2. \A i \in Ids : posts[i] # None => Covers(names, pairs, posts[i])
  BY CoversIs DEF IInv, NamesFollowPosts
<1>3. \A i \in Ids : posts'[i] # None => Covers(names', pairs', posts'[i])
  <2> SUFFICES ASSUME NEW i \in Ids, posts'[i] # None PROVE Covers(names', pairs', posts'[i])
    OBVIOUS
  <2>1. ASSUME NEW p, Covers(names, pairs, p), names \subseteq names', pairs \subseteq pairs'
        PROVE  Covers(names', pairs', p)
    BY <2>1 DEF Covers
  <2>2. CASE posts' # posts
    BY <1>2, <2>1, <2>2, WrittenIsKnown
  <2>3. CASE posts' = posts /\ names \subseteq names' /\ pairs \subseteq pairs'
    BY <1>2, <2>1, <2>3
  <2>4. CASE posts' = posts /\ ~(names \subseteq names' /\ pairs \subseteq pairs')
    <3>1. /\ Forgets(r) \/ Relates(r)
          /\ \/ UNCHANGED pairs /\ names' = names \ Dropped(req[r])
             \/ UNCHANGED names /\ pairs' = Related(req[r])
      <4>1. CASE Forgets(r) \/ Relates(r)
        BY <4>1 DEF Forgets, Relates
      <4>2. CASE Saves(r) \/ Deletes(r) \/ Marks(r) \/ Rewrites(r) \/ \E p \in todo[r] : Adopts(r, p)
        BY <2>4, <4>2 DEF Saves, Deletes, Marks, Rewrites, Adopts, Known
      <4>3. CASE SeedsNames(r) \/ SeedsPairs(r) \/ Knows(r)
        BY <2>4, <4>3 DEF SeedsNames, SeedsPairs, Knows
      <4>4. ~UNCHANGED db
        BY <2>4 DEF db
      <4> QED BY <4>1, <4>2, <4>3, <4>4, ChangesOrNot DEF Changes
    <3>2. /\ req[r] \in Inputs /\ req[r].op \in Bulk \cup {"createTag", "createCategory"}
          /\ Busy(r) /\ pc[r] \in Changed
      BY <3>1, BusyAsks
      DEF Forgets, Relates, At, Busy, Changed, IInv, TypeOK, Placed, PlacedAt
    <3>3. req[r].op \in Bulk => ~Outdated(req[r], posts[i])
      BY <2>4, <3>2 DEF IInv, OldNameGoes, Undisturbed, Is
    <3>4. posts[i] \in PostRecords /\ Covers(names, pairs, posts[i]) /\ posts'[i] = posts[i]
      BY <1>2, <2>4 DEF IInv, TypeOK, RowsType, Rows
    <3> QED BY <3>1, <3>2, <3>3, <3>4, ForgetSpares
  <2> QED BY <2>2, <2>3, <2>4
<1>4. ASSUME NEW ps, NEW N, NEW P, \A i \in Ids : ps[i] # None => Covers(N, P, ps[i])
      PROVE  NamesOf(ps) \subseteq N /\ PairsOf(ps) \subseteq P
  BY <1>4, CoversIs
<1> QED BY <1>3, <1>4 DEF NamesOf, PairsOf

-----------------------------------------------------------------------------
(* A bulk change that is alone. *)

\* What a bulk change takes away leaves no pair of the old name.
LEMMA RelatedClears ==
    ASSUME NEW q \in Inputs, q.op \in Bulk, pairs \subseteq Categories \X Tags,
           NEW c \in Categories, NEW t \in Tags, <<c, t>> \in Related(q), q.from \in {c, t}
    PROVE  q.category \notin {None, c}
<1>0. Tags \cap Categories = {} /\ None \notin Tags /\ None \notin Categories
  BY DEF ContentAssumption, Names
<1>1. CASE q.op = "renameTag"
  <2>1. q.from \in Tags /\ q.to \in Tags /\ q.from # q.to /\ t = q.from
    BY <1>0, <1>1, InputKinds DEF Bulk
  <2>2. CASE q.category # None
    <3>1. Related(q) = (pairs \ ({q.category} \X {q.from})) \cup ({q.category} \X {q.to})
      BY <1>1, <2>2 DEF Related
    <3> QED BY <2>1, <2>2, <3>1
  <2>3. CASE q.category = None
    <3> DEFINE cs == {d \in Categories : <<d, q.from>> \in pairs}
    <3>1. Related(q) = (pairs \ (cs \X {q.from})) \cup (cs \X {q.to})
      BY <1>1, <2>3 DEF Related
    <3> QED BY <2>1, <2>3, <3>1
  <2> QED BY <2>2, <2>3
<1>2. CASE q.op = "deleteTag"
  <2>1. q.from \in Tags /\ t = q.from
    BY <1>0, <1>2, InputKinds DEF Bulk
  <2>2. Related(q) = pairs \ ((IF q.category # None THEN {q.category} ELSE Categories) \X {q.from})
    BY <1>2 DEF Related
  <2> QED BY <2>1, <2>2
<1>3. CASE q.op = "renameCategory"
  <2>1. q.from \in Categories /\ q.to \in Categories /\ q.from # q.to /\ c = q.from
    BY <1>0, <1>3, InputKinds DEF Bulk
  <2>2. Related(q) = (pairs \ ({q.from} \X Tags))
                     \cup {<<q.to, u>> : u \in {v \in Tags : <<q.from, v>> \in pairs}}
    BY <1>3 DEF Related
  <2> QED BY <2>1, <2>2
<1>4. CASE q.op = "deleteCategory"
  <2>1. q.from \in Categories /\ c = q.from
    BY <1>0, <1>4, InputKinds DEF Bulk
  <2>2. Related(q) = pairs \ ({q.from} \X Tags)
    BY <1>4 DEF Related
  <2> QED BY <2>1, <2>2
<1> QED BY <1>1, <1>2, <1>3, <1>4 DEF Bulk

Follows(r) ==
    LET q == req[r]
    IN /\ pc[r] \in {"know", "relate", "list", "put"} /\ q.category = None => q.from \notin names
       /\ pc[r] \in {"relate", "list", "put"} /\ q.to # None => q.to \in names
       /\ pc[r] \in {"list", "put"} =>
             \A c \in Categories, t \in Tags : <<c, t>> \in pairs /\ q.from \in {c, t} =>
                 q.category \notin {None, c}
       /\ pc[r] = "put" => list[r] = names

\* A bulk change that is alone takes its name out of the lists, one after the other.
LEMMA FollowsStep ==
    ASSUME IInv, NEW r \in Requests, Handle(r), Undisturbed(r), alone[r], Busy(r)'
    PROVE  Follows(r)'
<1> USE DEF Follows
<1>0. /\ RequestType /\ PlacedAt(r) /\ Follows(r)
      /\ req[r] \in Inputs /\ req[r].op \in Bulk /\ req'[r] = req[r]
      /\ req[r].from # req[r].to /\ req[r].category \in Categories \cup {None}
  <2>1. req[r] \in Inputs /\ req[r].op \in Bulk
    BY BusyAsks DEF Undisturbed, IInv, TypeOK
  <2> QED BY <2>1, InputKinds, Onward DEF IInv, TypeOK, Placed, ListsFollow, Undisturbed
<1>1. CASE Forget(r)
  <2>1. pc'[r] = "know" /\ names' = names \ Dropped(req[r])
    BY <1>0, <1>1 DEF Forget, Forgets, Goto, RequestType
  <2> QED BY <1>0, <2>1 DEF Dropped
<1>2. CASE Know(r)
  <2>1. pc[r] = "know" /\ pc'[r] = "relate" /\ names' = names \cup ({req[r].to} \ {None})
    BY <1>0, <1>2 DEF Know, Knows, Goto, At, RequestType, Added, Bulk
  <2> QED BY <1>0, <2>1
<1>3. CASE Relate(r)
  <2>1. pc[r] = "relate" /\ pc'[r] = "list" /\ pairs' = Related(req[r]) /\ names' = names
    BY <1>0, <1>3 DEF Relate, Relates, Goto, At, RequestType
  <2>2. \A c \in Categories, t \in Tags : <<c, t>> \in Related(req[r]) /\ req[r].from \in {c, t} =>
            req[r].category \notin {None, c}
    BY <1>0, RelatedClears DEF IInv, TypeOK, RowsType
  <2> QED BY <1>0, <2>1, <2>2
<1>4. CASE List(r)
  <2>1. pc[r] = "list" /\ pc'[r] = "put" /\ list'[r] = names /\ UNCHANGED <<names, pairs>>
    BY <1>0, <1>4 DEF List, At, RequestType, db
  <2> QED BY <1>0, <2>1
<1>5. CASE ~(Forget(r) \/ Know(r) \/ Relate(r) \/ List(r))
  <2>1. pc'[r] \notin {"know", "relate", "list", "put"}
    <3>1. CASE SeedPairs(r)
      BY <1>0, <3>1 DEF SeedPairs, SeedsPairs, Goto, Return, RequestType
    <3>2. CASE SeedNames(r) \/ Stage(r) \/ MoveAway(r)
      BY <1>0, <3>2 DEF SeedNames, SeedsNames, Stage, MoveAway, Goto, RequestType
    <3>3. CASE Check(r) \/ Save(r) \/ Delete(r) \/ SetDraft(r) \/ Rewrite(r)
      BY <1>0, <3>3 DEF Check, Save, Saves, Delete, Deletes, SetDraft, Marks, Rewrite, Rewrites,
                        Goto, Return, RequestType
    <3>4. CASE MoveIn(r) \/ Put(r)
      BY <1>0, <3>4 DEF MoveIn, Exported, Put, Goto, Return, RequestType
    <3>5. CASE Lock(r)
      BY <1>0, <3>5 DEF Lock, RequestType
    <3>6. CASE Collect(r)
      BY <1>0, <3>6 DEF Collect, RequestType
    <3>7. CASE Adopt(r)
      BY <1>0, <3>7 DEF Adopt, Adopts, RequestType
    <3> QED BY <1>5, <3>1, <3>2, <3>3, <3>4, <3>5, <3>6, <3>7 DEF Handle
  <2> QED BY <2>1
<1> QED BY <1>1, <1>2, <1>3, <1>4, <1>5

LEMMA ListsFollowStep ==
    ASSUME IInv, NEW r \in Requests, Step(r)
    PROVE  ListsFollow'
<1> SUFFICES ASSUME NEW s \in Requests, Undisturbed(s)', alone'[s]
             PROVE  Follows(s)'
  BY DEF ListsFollow, Follows
<1>1. CASE \E q \in Inputs : Begin(r, q)
  <2>1. PICK q \in Inputs : Begin(r, q)
    BY <1>1
  <2>2. CASE s = r
    <3>1. pc'[r] \in {"lock", "seedNames"}
      BY <2>1 DEF Begin, IInv, TypeOK, RequestType
    <3> QED BY <2>2, <3>1 DEF Follows
  <2>3. CASE s # r
    <3>1. Busy(s)
      BY <2>3, OthersStay DEF IInv, TypeOK, Undisturbed, Busy
    <3>2. ~alone'[s]
      BY <2>1, <2>3, <3>1, Zenon DEF Begin
    <3> QED BY <3>2
  <2> QED BY <2>2, <2>3
<1>2. CASE Handle(r) \/ Fail(r) \/ LoseAnswer(r)
  <2>1. Undisturbed(s) /\ alone[s] /\ Busy(r) /\ Busy(s)
    BY <1>2, Onward DEF Undisturbed, history
  <2>2. s = r
    BY <2>1 DEF IInv, Meets
  <2>3. CASE Handle(r)
    BY <2>1, <2>2, <2>3, FollowsStep DEF Undisturbed
  <2>4. CASE Fail(r) \/ LoseAnswer(r)
    <3>1. pc'[r] = "idle"
      BY <2>4 DEF Fail, LoseAnswer, Return, IInv, TypeOK, RequestType
    <3> QED BY <2>2, <3>1 DEF Undisturbed, Busy
  <2> QED BY <1>2, <2>3, <2>4
<1> QED BY <1>1, <1>2 DEF Step

-----------------------------------------------------------------------------
(* The invariant. *)

LEMMA Initially == Init => IInv
<1> SUFFICES ASSUME Init PROVE IInv
  OBVIOUS
<1>1. TypeOK /\ PathsFit
  BY TypeInit
<1>2. lock = None /\ \A r \in Requests : pc[r] = "idle" /\ req[r] = Idle /\ lock # r
  BY Nobody DEF Init
<1>3. Placed
  BY <1>2 DEF Placed, PlacedAt, Locked
<1>4. ReadsHold
  BY <1>2 DEF ReadsHold
<1>5. Meets /\ OldNameGoes /\ ListsFollow
  BY <1>2 DEF Meets, OldNameGoes, ListsFollow, Undisturbed, Busy
<1>6. NamesFollowPosts
  BY DEF Init, NamesFollowPosts
<1> QED BY <1>1, <1>3, <1>4, <1>5, <1>6 DEF IInv

\* A file that is put into the directory takes nothing away.
LEMMA FilesStay ==
    ASSUME IInv, NEW p \in DOMAIN Orphans, PutFile(p)
    PROVE  IInv'
<1>1. TreeFits(dir)' /\ TreeFits(backup)' /\ TreeFits(staging)'
  BY PutFileStep
<1>2. UNCHANGED <<db, backup, staging, lock, request, sent, history>>
  BY DEF PutFile
<1> USE DEF db, request, history
<1>3. RowsType' /\ RequestType' /\ HistoryType' /\ RowsFit'
  BY <1>2 DEF IInv, TypeOK, RowsType, RequestType, HistoryType, PathsFit, RowsFit, Is
<1>4. TypeOK' /\ PathsFit'
  BY <1>1, <1>3 DEF TypeOK, DiskType, PathsFit, RowsFit, TreeFits
<1>5. Placed' /\ Meets'
  BY <1>2 DEF IInv, Placed, PlacedAt, Meets, Undisturbed, Busy
<1>6. NamesFollowPosts' /\ OldNameGoes' /\ ListsFollow'
  <2>1. NamesFollowPosts'
    BY <1>2 DEF IInv, NamesFollowPosts, NamesOf, PairsOf
  <2>2. OldNameGoes'
    BY <1>2 DEF IInv, OldNameGoes, Undisturbed, Busy, Is
  <2>3. ListsFollow'
    BY <1>2 DEF IInv, ListsFollow, Undisturbed, Busy
  <2> QED BY <2>1, <2>2, <2>3
<1>7. ReadsHold'
  <2>1. \A o \in Paths : dir.files[o] # None => dir'.files[o] # None
    <3>1. dir' = [dir EXCEPT !.files[p] = Orphans[p]] /\ dir \in Directories /\ dir.files[p] = None
      BY DEF PutFile, IInv, TypeOK, DiskType
    <3>2. \A o \in Paths : o # p => dir'.files[o] = dir.files[o]
      BY <3>1 DEF Directories
    <3> QED BY <3>1, <3>2
  <2>2. ASSUME NEW r \in Requests, lock = r
        PROVE  Holds(r)'
    <3>1. \A o : ByPath(o)' = ByPath(o)
      BY <1>2 DEF ByPath, Is
    <3>2. PathTaken(req[r])' = PathTaken(req[r])
      BY <1>2, <3>1 DEF PathTaken
    <3>3. todo[r] \subseteq Paths
      BY DEF IInv, TypeOK, RequestType
    <3>4. Holds(r)
      BY DEF IInv, ReadsHold, Holds
    <3>5. FilesOf(posts)' = FilesOf(posts)
      BY <1>2 DEF FilesOf
    <3> QED BY <1>2, <2>1, <3>1, <3>2, <3>3, <3>4, <3>5 DEF Holds
  <2> QED BY <1>2, <2>2 DEF ReadsHold, Holds
<1> QED BY <1>4, <1>5, <1>6, <1>7 DEF IInv

LEMMA Stutters == IInv /\ UNCHANGED vars => IInv'
<1> SUFFICES ASSUME IInv, UNCHANGED vars PROVE IInv'
  OBVIOUS
<1>0. UNCHANGED <<db, disk, lock, request, sent, history>>
  BY DEF vars
<1> USE <1>0 DEF db, disk, request, history
<1>1. TypeOK'
  BY DEF IInv, TypeOK, RowsType, DiskType, RequestType, HistoryType
<1>2. PathsFit' /\ Placed' /\ Meets'
  BY DEF IInv, PathsFit, Is, Placed, PlacedAt, Meets, Undisturbed, Busy
<1>3. ReadsHold'
  BY DEF IInv, ReadsHold, PathTaken, ByPath, Is, FilesOf
<1>4. NamesFollowPosts'
  BY DEF IInv, NamesFollowPosts, NamesOf, PairsOf
<1>5. OldNameGoes' /\ ListsFollow'
  BY DEF IInv, OldNameGoes, ListsFollow, Undisturbed, Busy, Is
<1> QED BY <1>1, <1>2, <1>3, <1>4, <1>5 DEF IInv

LEMMA Invariance == Spec => []IInv
<1>1. Init => IInv
  BY Initially
<1>2. IInv /\ [Next]_vars => IInv'
  <2> SUFFICES ASSUME IInv, [Next]_vars PROVE IInv'
    OBVIOUS
  <2>1. ASSUME NEW r \in Requests, Step(r)
        PROVE  IInv'
    BY <2>1, TypeStep, ReadsHoldStep, MeetsStep, NamesFollowPostsStep, OldNameGoesStep, ListsFollowStep
    DEF IInv
  <2>2. ASSUME NEW p \in DOMAIN Orphans, PutFile(p)
        PROVE  IInv'
    BY <2>2, FilesStay
  <2>3. CASE UNCHANGED vars
    BY <2>3, Stutters
  <2> QED BY <2>1, <2>2, <2>3 DEF Next, Step, Done
<1> QED BY <1>1, <1>2, PTL DEF Spec

-----------------------------------------------------------------------------
(* The theorems. *)

\* Requests, rows and directories are of their types; post records keep the path they are
\* filed under (posts.rs, storage.rs, orphans.rs).
THEOREM TypeCorrect == Spec => []TypeOK
  BY Invariance, PTL DEF IInv

\* Every tag and category of a post is a candidate and its tags are allowed to its category,
\* in whatever order saves, imports, seedings and new names meet, as long as no rename or
\* deletion of a name meets another change (posts.rs, taxonomy.rs).
THEOREM NamesFollowPostsAlways == Spec => []NamesFollowPosts
  BY Invariance, PTL DEF IInv

\* A change of posts that is over and was not refused leaves in the content directory all
\* posts of the database and nothing else (export_blog_content, replace_export_directory).
THEOREM ExportsAreCompleteAlways == Spec => ExportsAreComplete
<1> DEFINE Complete == \A r \in Requests :
              pc[r] = "in" /\ pc'[r] \in {"idle", "forget"} /\ ~dir.there /\ dir' # backup
              => dir'.files = FilesOf(posts) /\ backup' = Absent
<1>1. IInv /\ [Next]_vars => [Complete]_vars
  <2> SUFFICES ASSUME IInv, Next, NEW r \in Requests, pc[r] = "in",
                      pc'[r] \in {"idle", "forget"}, ~dir.there, dir' # backup
               PROVE  dir'.files = FilesOf(posts) /\ backup' = Absent
    OBVIOUS
  <2>1. PICK s \in Requests : Step(s)
    BY DEF Next, Step, PutFile, request, Done, vars
  <2>2. s = r
    BY <2>1, OthersStay DEF IInv, TypeOK
  <2>3. staging.files = FilesOf(posts)
    BY DEF IInv, Placed, PlacedAt, Locked, ReadsHold
  <2>4. ~Fail(r) /\ ~LoseAnswer(r)
    BY ChangesPlace DEF Fail, LoseAnswer, At
  <2>5. MoveIn(r)
    BY <2>1, <2>2, <2>4
    DEF Step, Handle, Begin, Lock, SeedNames, SeedsNames, SeedPairs, SeedsPairs, Check, Save, Saves,
        Delete, Deletes, SetDraft, Marks, Rewrite, Rewrites, Collect, Adopt, Adopts, Stage,
        MoveAway, Forget, Forgets, Know, Knows, Relate, Relates, List, Put, At
  <2> QED BY <2>3, <2>5 DEF MoveIn
<1>2. [][Complete]_vars => ExportsAreComplete
  BY PTL DEF ExportsAreComplete
<1> QED BY <1>1, <1>2, Invariance, PTL DEF Spec

\* A request that has changed the posts leaves its place, and adopts no file twice.
LEMMA LeavesChange ==
    ASSUME RequestType, NEW r \in Requests, Step(r), posts' # posts, pc[r] = "change"
    PROVE  pc'[r] # "change"
<1>1. Save(r) \/ Delete(r) \/ SetDraft(r) \/ Rewrite(r) \/ LoseAnswer(r)
  BY DEF Step, Handle, Begin, Lock, SeedNames, SeedsNames, SeedPairs, SeedsPairs, Check, Collect,
         Adopt, Adopts, Stage, MoveAway, MoveIn, Forget, Forgets, Know, Knows, Relate, Relates,
         List, Put, Fail, At, db
<1>2. CASE LoseAnswer(r)
  BY <1>2 DEF LoseAnswer, Return, RequestType
<1>3. CASE Save(r) \/ Delete(r) \/ SetDraft(r) \/ Rewrite(r)
  BY <1>3 DEF Save, Delete, SetDraft, Rewrite, Goto, Return, RequestType
<1> QED BY <1>1, <1>2, <1>3

LEMMA AdoptedGoes ==
    ASSUME RequestType, NEW r \in Requests, Step(r), posts' # posts, pc[r] = "adopt"
    PROVE  \E p \in todo[r] \ todo'[r] : Adopts(r, p)
<1>1. Adopt(r) \/ LoseAnswer(r)
  BY DEF Step, Handle, Begin, Lock, SeedNames, SeedsNames, SeedPairs, SeedsPairs, Check, Save,
         Saves, Delete, Deletes, SetDraft, Marks, Rewrite, Rewrites, Collect, Stage, MoveAway,
         MoveIn, Forget, Forgets, Know, Knows, Relate, Relates, List, Put, Fail, At, db
<1>2. CASE Adopt(r)
  <2>1. PICK p \in todo[r] : Adopts(r, p) /\ todo' = [todo EXCEPT ![r] = @ \ {p}]
    BY <1>2 DEF Adopt
  <2>2. p \notin todo'[r]
    BY <2>1 DEF RequestType
  <2> QED BY <2>1, <2>2
<1>3. CASE LoseAnswer(r)
  <2>1. todo'[r] = {}
    BY <1>3 DEF LoseAnswer, Return, RequestType
  <2>2. PICK p \in todo[r] : Adopts(r, p)
    BY <1>3 DEF LoseAnswer, Changes, SeedsNames, SeedsPairs, Saves, Deletes, Marks, Rewrites,
                Forgets, Knows, Relates, At
  <2> QED BY <2>1, <2>2
<1> QED BY <1>1, <1>2, <1>3

\* No post goes, and none loses its path or its text, but by a request that deletes or saves
\* it, or by a save or an import of another path with the same id (a.mdx beside a.md):
\* whatever a bulk change or a change of the draft mark has read before it locked, however
\* many files an import adopts, and whether the answer to the statement comes or not.
THEOREM PostsGoWhenAskedAlways == Spec => PostsGoWhenAsked
<1> DEFINE Twin(i, p) == IdOf[p] = i /\ p # posts[i].path
           AskedBy(i, r) ==
              \/ /\ pc[r] = "change" /\ pc'[r] # "change"
                 /\ \/ req[r].op = "delete" /\ req[r].path = posts[i].path
                    \/ req[r].op = "save" /\ (req[r].old = posts[i].path \/ Twin(i, req[r].path))
              \/ pc[r] = "adopt" /\ \E p \in todo[r] \ todo'[r] : Twin(i, p)
           Asked == \A i \in Ids :
              Is(i) /\ (posts'[i] = None \/ posts'[i].text # posts[i].text
                                       \/ posts'[i].path # posts[i].path) =>
                 \E r \in Requests : AskedBy(i, r)
<1>1. IInv /\ [Next]_vars => [Asked]_vars
  <2> SUFFICES ASSUME IInv, Next, NEW i \in Ids, Is(i),
                      \/ posts'[i] = None \/ posts'[i].text # posts[i].text
                      \/ posts'[i].path # posts[i].path
               PROVE  \E r \in Requests : AskedBy(i, r)
    OBVIOUS
  <2>0. /\ posts[i] \in PostRecords /\ posts[i] # None /\ posts[i].path \in Paths
        /\ IdOf[posts[i].path] = i
    BY RecordFields DEF Is, IInv, TypeOK, RowsType, Rows, PathsFit
  <2>1. PICK r \in Requests : Step(r) /\ posts' # posts
    BY <2>0 DEF Next, Step, PutFile, db, Done, vars
  <2>2. /\ Busy(r) /\ RequestType /\ PlacedAt(r) /\ req[r] \in Inputs
        /\ Saves(r) \/ Deletes(r) \/ Marks(r) \/ Rewrites(r) \/ \E p \in todo[r] : Adopts(r, p)
    BY <2>1, PostsChange, BusyAsks DEF IInv, TypeOK, Placed
  <2>3. pc[r] = "change" => pc'[r] # "change"
    BY <2>1, LeavesChange DEF IInv, TypeOK
  <2>4. CASE Saves(r)
    <3>1. /\ pc[r] = "change" /\ req[r].op = "save"
          /\ posts'[i] = IF i = IdOf[req[r].path] THEN Written(req[r])
                         ELSE IF req[r].old \notin {None, req[r].path} /\ Is(i) /\ posts[i].path = req[r].old
                         THEN None ELSE posts[i]
      BY <2>4 DEF Saves, At
    <3>2. CASE i = IdOf[req[r].path] /\ req[r].path = posts[i].path
      <4>1. ~PathTaken(req[r])
        BY <2>2, <3>1 DEF IInv, ReadsHold, PlacedAt, Locked
      <4>2. req[r].old = posts[i].path
        BY <3>2, <4>1 DEF PathTaken, ByPath
      <4> QED BY <2>3, <3>1, <4>2
    <3>3. CASE i = IdOf[req[r].path] /\ req[r].path # posts[i].path
      BY <2>3, <3>1, <3>3
    <3>4. CASE i # IdOf[req[r].path]
      <4>1. req[r].old = posts[i].path
        BY <2>0, <3>1, <3>4
      <4> QED BY <2>3, <3>1, <4>1
    <3> QED BY <3>2, <3>3, <3>4
  <2>5. CASE Deletes(r)
    <3>1. /\ pc[r] = "change" /\ req[r].op = "delete"
          /\ posts'[i] = IF i \in ByPath(req[r].path) THEN None ELSE posts[i]
      BY <2>5 DEF Deletes, At
    <3>2. req[r].path = posts[i].path
      BY <2>0, <3>1 DEF ByPath
    <3> QED BY <2>3, <3>1, <3>2
  <2>6. CASE Marks(r)
    <3>1. posts'[i] = [posts[i] EXCEPT !.draft = req[r].draft] \/ posts'[i] = posts[i]
      BY <2>6 DEF Marks
    <3>2. [posts[i] EXCEPT !.draft = req[r].draft] \in PostRecords
      BY <2>0, <2>2, <2>6, InputKinds DEF Marks, PostRecords
    <3> QED BY <2>0, <3>1, <3>2, RecordFields DEF PostRecords
  <2>7. CASE Rewrites(r)
    <3>1. /\ req[r] \in Inputs /\ req[r].op \in Bulk
          /\ posts'[i] = Edited(req[r], posts[i])
      BY <2>0, <2>7, RewriteIs
    <3> QED BY <2>0, <3>1, EditedType, RecordFields
  <2>8. CASE \E p \in todo[r] : Adopts(r, p)
    <3>1. PICK p \in todo[r] \ todo'[r] : Adopts(r, p)
      <4>1. pc[r] = "adopt"
        BY <2>8 DEF Adopts, At
      <4> QED BY <2>1, <2>2, <4>1, AdoptedGoes
    <3>2. PICK new \in PostRecords : posts' = [posts EXCEPT ![IdOf[p]] = new]
      BY <3>1, AdoptIs
    <3>3. pc[r] = "adopt" /\ p \in Paths /\ ByPath(p) = {}
      BY <3>1, AdoptIs
    <3>4. posts[i].path # p
      BY <2>0, <3>3 DEF ByPath, Is
    <3>5. IdOf[p] = i
      <4>1. IdOf[p] # i => posts'[i] = posts[i]
        BY <3>2 DEF IInv, TypeOK, RowsType, Rows
      <4> QED BY <2>0, <4>1
    <3> QED BY <3>1, <3>3, <3>4, <3>5
  <2> QED BY <2>2, <2>4, <2>5, <2>6, <2>7, <2>8
<1>2. [][Asked]_vars => PostsGoWhenAsked
  BY PTL DEF PostsGoWhenAsked
<1> QED BY <1>1, <1>2, Invariance, PTL DEF Spec

\* A rename or a deletion of a name during which no other request is at work is complete:
\* no post, pair or list has the old name, although the seeding it begins with knows it again
\* (rename_tag, delete_tag, rename_category, delete_category, routes/blog.rs).
THEOREM LoneBulkIsCompleteAlways == Spec => LoneBulkIsComplete
<1> DEFINE Whole == \A r \in Requests :
              pc[r] = "put" /\ dir' # dir /\ pc'[r] = "idle" /\ req[r].op \in Bulk /\ alone[r] =>
                 Forgotten(req[r]) /\ dir'.list = names
<1>1. IInv /\ [Next]_vars => [Whole]_vars
  <2> SUFFICES ASSUME IInv, Next, NEW r \in Requests, pc[r] = "put", dir' # dir, pc'[r] = "idle",
                      req[r].op \in Bulk, alone[r]
               PROVE  Forgotten(req[r]) /\ dir'.list = names
    OBVIOUS
  <2> DEFINE q == req[r]
  <2>1. Undisturbed(r) /\ q \in Inputs
    BY BusyAsks DEF Undisturbed, Busy, IInv, TypeOK
  <2>2. dir'.list = names
    <3>1. PICK s \in Requests : Step(s)
      BY DEF Next, Step, PutFile, request, Done, vars
    <3>2. s = r
      BY <3>1, OthersStay DEF IInv, TypeOK
    <3>3. Put(r)
      <4>1. ~LoseAnswer(r)
        BY ChangesPlace DEF LoseAnswer
      <4> QED
        BY <3>1, <3>2, <4>1
        DEF Step, Handle, Begin, Lock, SeedNames, SeedsNames, SeedPairs, SeedsPairs, Check, Save,
            Saves, Delete, Deletes, SetDraft, Marks, Rewrite, Rewrites, Collect, Adopt, Adopts,
            Stage, MoveAway, MoveIn, Forget, Forgets, Know, Knows, Relate, Relates, List, Fail, At
    <3>4. list[r] = names
      BY <2>1 DEF IInv, ListsFollow
    <3> QED BY <3>3, <3>4 DEF Put, IInv, TypeOK, DiskType, Directories
  <2>3. ASSUME NEW i \in Ids, Is(i), q.category \in {None, posts[i].category}
        PROVE  q.from \notin NamesOf(Only(posts[i]))
    <3>1. posts[i] \in PostRecords
      BY <2>3 DEF Is, IInv, TypeOK, RowsType, Rows
    <3>2. ~Outdated(q, posts[i])
      BY <2>1, <2>3 DEF IInv, OldNameGoes, Changed
    <3> QED BY <2>3, <3>1, <3>2, OnlyIs DEF Outdated, CategoryOf
  <2>4. ASSUME NEW rel \in pairs, q.from \in {rel[1], rel[2]}, q.category \in {None, rel[1]}
        PROVE  FALSE
    <3>1. PICK c \in Categories, t \in Tags : rel = <<c, t>>
      BY DEF IInv, TypeOK, RowsType
    <3> QED BY <2>1, <2>4, <3>1 DEF IInv, ListsFollow
  <2>5. /\ q.category = None => q.from \notin names
        /\ q.to # None => q.to \in names
    BY <2>1 DEF IInv, ListsFollow
  <2>6. Forgotten(q)
    BY <2>3, <2>4, <2>5, Zenon DEF Forgotten
  <2> QED BY <2>2, <2>6
<1>2. [][Whole]_vars => LoneBulkIsComplete
  BY PTL DEF LoneBulkIsComplete
<1> QED BY <1>1, <1>2, Invariance, PTL DEF Spec

=============================================================================
