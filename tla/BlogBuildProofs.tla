--------------------------- MODULE BlogBuildProofs ---------------------------
(***************************************************************************)
(* Invariants of BlogBuild for any number of editors, builds by hand and   *)
(* changes, with and without failures.  What follows from "one process of  *)
(* the build command at a time" is proved for Survivors = FALSE only.      *)
(* After them, of BuildHistory: what is kept of builds is true, and what   *)
(* is shown of a log are its last lines, for any texts.                    *)
(***************************************************************************)
EXTENDS BlogBuild, BuildHistory, FiniteSetTheorems, WellFoundedInduction, TLAPS

USE BlogAssumption

-----------------------------------------------------------------------------
(* The inductive invariant. *)

Locking == {"export", "staged", "moved"}
Busy == {"render", "publish", "moved"}

\* The guard of content_lock is held from the moment it is taken to the last step that
\* needs it.
LockHeld ==
    /\ \A e \in Editors : lock = e <=> pc[e] \in Locking \cup {"commit", "audit"}
    /\ \A b \in Builders : lock = b <=> pc[b] \in Locking

\* The permit belongs to the build that goes on, and a process of the build command to the
\* build that waits for it.
PermitHeld ==
    /\ \A b \in Builders : permit = b <=> pc[b] \in Locking \cup {"lock", "spawn", "wait"}
    /\ \A b \in Builders : child[b] # None <=> pc[b] = "wait"
    /\ \A b \in Builders : child[b] # None => worker[child[b]] # "none"
    /\ \A w \in Slots : worker[w] # "none" => \E b \in Builders : child[b] = w

\* Whoever exports under the lock writes the database as it is.
ExportsAreFresh ==
    /\ \A a \in Actors : mine[a] <= db
    /\ \A a \in Actors : pc[a] \in {"staged", "moved"} => mine[a] = db
    /\ dir <= db /\ backup <= db /\ promised <= db
    /\ backup # Gone => dir = Gone

\* Nothing that was rendered is newer than the content directory or its backup.
Pages == (next \cup site \cup previous) \cap Versions
RenderedIsOld ==
    \A v \in Pages : (dir # Gone => v <= dir) /\ (backup # Gone => v <= backup) /\ v <= db

\* Nothing that a process has rendered is older than what is shown.
NextIsNewer ==
    \A w \in Slots : worker[w] \in Busy =>
        \A v \in next \cap Versions, u \in (site \cup previous) \cap Versions : u <= v

\* The loop runs while it is not idle, and whenever changes wait.
LoopRuns == (running <=> pc[Background] # "idle") /\ (dirty => running)

\* How far the loop has carried the promised changes that nobody has marked since.
Exported == ~dirty /\ pc[Background] \in {"spawn", "wait", "built", "idle"}
Settled == ~dirty /\ pc[Background] \in {"built", "idle"}
Complete == \/ Settled
            \/ ~dirty /\ pc[Background] = "wait" /\ worker[child[Background]] = "ok"

PromisesCarried ==
    /\ Exported => (dir # Gone => dir >= promised) /\ (backup # Gone => backup >= promised)
    /\ \A w \in Slots : Exported /\ worker[w] \in Busy => \A v \in next \cap Versions : v >= promised
    /\ Complete => \A v \in (site \cup previous) \cap Versions : v >= promised

IInv ==
    /\ TypeOK
    /\ LockHeld /\ ExportsAreFresh /\ RenderedIsOld /\ LoopRuns
    /\ PermitHeld /\ NextIsNewer /\ PromisesCarried

-----------------------------------------------------------------------------
(* Types. *)

\* Nobody does anything.
LEMMA IdleType ==
    ASSUME NEW p, p = [a \in Actors |-> "idle"], NEW k, k = [e \in Editors |-> "same"],
           NEW m, m = [a \in Actors |-> Gone]
    PROVE  /\ p \in [Actors -> Shared \cup EditorPcs \cup BuilderPcs]
           /\ \A e \in Editors : p[e] \in Shared \cup EditorPcs
           /\ \A b \in Builders : p[b] \in Shared \cup BuilderPcs
           /\ \A b \in Hands : p[b] \notin LoopPcs
           /\ k \in [Editors -> Kinds]
           /\ m \in [Actors -> 0..MaxVersion]
<1>1. Editors \subseteq Actors /\ Builders \subseteq Actors /\ Hands \subseteq Actors
  BY DEF Actors, Builders
<1>2. 0 \in 0..MaxVersion
  OBVIOUS
<1>3. "idle" \in Shared /\ "idle" \notin LoopPcs /\ "same" \in Kinds
  BY DEF Shared, LoopPcs, Kinds
<1>4. p \in [Actors -> Shared \cup EditorPcs \cup BuilderPcs]
  BY <1>3
<1>5. k \in [Editors -> Kinds] /\ m \in [Actors -> 0..MaxVersion]
  BY <1>2, <1>3 DEF Gone
<1>6. \A a \in Actors : p[a] = "idle"
  OBVIOUS
<1> QED BY <1>1, <1>3, <1>4, <1>5, <1>6

LEMMA TypeInit == Init => TypeOK
<1> SUFFICES ASSUME Init PROVE TypeOK
  OBVIOUS
<1>1. HandlerType
  BY IdleType DEF Init, HandlerType
<1>2. BuildType /\ DataType
  BY DEF Init, BuildType, DataType, Versions, Gone
<1> QED BY <1>1, <1>2 DEF TypeOK

\* Killing npm keeps the types of the builds.
LEMMA KillType ==
    ASSUME BuildType, NEW b \in Actors, At(b, "wait") => b \in Builders, Kill(b)
    PROVE  child' \in [Builders -> Slots \cup {None}] /\ (permit' \in Builders \cup {None} => BuildType')
<1>1. CASE At(b, "wait")
  BY <1>1 DEF Kill, BuildType
<1>2. CASE ~At(b, "wait")
  BY <1>2 DEF Kill, BuildType
<1> QED BY <1>1, <1>2

LEMMA TypeEditor ==
    ASSUME TypeOK, NEW e \in Editors, Handle(e)
    PROVE  TypeOK'
<1> USE DEF TypeOK, HandlerType, BuildType, DataType, Shared, EditorPcs, BuilderPcs, LoopPcs,
            handlers, schedule, build, content, dist, Actors, Requests, Builders
<1>1. ASSUME NEW k \in Kinds, Edit(e, k)
      PROVE  TypeOK'
  BY <1>1 DEF Edit, Goes
<1>2. CASE Commit(e)
  BY <1>2 DEF Commit, Goes, Versions, Gone
<1>3. CASE Refuse(e)
  BY <1>3 DEF Refuse, Ends, Goes, Unlock, Kinds, Gone
<1>4. CASE Audit(e)
  BY <1>4 DEF Audit, Ends, Goes, Unlock, Kinds, Gone
<1>5. CASE Trigger(e)
  BY <1>5 DEF Trigger, Kinds, Gone
<1>6. CASE EditFails(e)
  BY <1>6 DEF EditFails, Ends, Goes, Unlock, Restore, Kinds, Gone
<1> QED BY <1>1, <1>2, <1>3, <1>4, <1>5, <1>6 DEF Handle

LEMMA TypeExport ==
    ASSUME TypeOK, NEW a \in Actors, Export(a)
    PROVE  TypeOK'
<1> USE DEF TypeOK, HandlerType, BuildType, DataType, Shared, EditorPcs, BuilderPcs, LoopPcs,
            handlers, schedule, build, content, dist, Actors, Requests, Builders
<1>1. CASE Lock(a)
  BY <1>1 DEF Lock, Goes
<1>2. CASE Populate(a)
  BY <1>2 DEF Populate, Goes, Versions
<1>3. CASE MoveAway(a)
  BY <1>3 DEF MoveAway, Goes, Gone
<1>4. CASE MoveIn(a)
  BY <1>4 DEF MoveIn, Goes, Ends, Unlock, Kinds, Gone
<1> QED BY <1>1, <1>2, <1>3, <1>4 DEF Export

LEMMA TypeBuilder ==
    ASSUME TypeOK,
           \/ \E b \in Hands : BuildByHand(b)
           \/ Begin \/ Check
           \/ \E b \in Builders : Build(b)
    PROVE  TypeOK'
<1> USE DEF TypeOK, HandlerType, BuildType, DataType, Shared, EditorPcs, BuilderPcs, LoopPcs,
            handlers, schedule, build, content, dist, Actors, Requests, Builders
<1>1. ASSUME NEW b \in Hands, BuildByHand(b)
      PROVE  TypeOK'
  BY <1>1 DEF BuildByHand, Goes
<1>2. CASE Begin
  BY <1>2 DEF Begin, Goes
<1>3. CASE Check
  BY <1>3 DEF Check, Goes, Gone
<1>4. ASSUME NEW b \in Builders, Build(b)
      PROVE  TypeOK'
  <2>1. CASE Acquire(b)
    BY <2>1 DEF Acquire, Goes
  <2>2. CASE Spawn(b)
    BY <2>2 DEF Spawn, Goes
  <2>3. CASE Finish(b)
    <3>1. BuildType'
      BY <2>3 DEF Finish, Return
    <3>2. HandlerType' /\ DataType'
      BY <2>3 DEF Finish, After, Ends, Goes, Kinds, Gone
    <3> QED BY <3>1, <3>2
  <2>4. CASE BuildFails(b)
    BY <2>4 DEF BuildFails, After, Ends, Goes, Return, Unlock, Restore, Kinds, Gone
  <2>5. CASE Timeout(b)
    <3>1. BuildType'
      BY <2>5, KillType DEF Timeout, Return
    <3>2. HandlerType' /\ DataType'
      BY <2>5 DEF Timeout, After, Ends, Goes, Kinds, Gone
    <3> QED BY <3>1, <3>2
  <2> QED BY <1>4, <2>1, <2>2, <2>3, <2>4, <2>5 DEF Build
<1> QED BY <1>1, <1>2, <1>3, <1>4

LEMMA TypeWorker ==
    ASSUME TypeOK, NEW w \in Slots, Work(w)
    PROVE  TypeOK'
<1> USE DEF TypeOK, HandlerType, BuildType, DataType, handlers, schedule, content, dist
<1>1. CASE Clean(w)
  BY <1>1 DEF Clean
<1>2. CASE Render(w) \/ Rendered(w)
  BY <1>2 DEF Render, Rendered, Read
<1>3. CASE RenderFails(w)
  BY <1>3 DEF RenderFails, Exit
<1>4. CASE Publish(w)
  BY <1>4 DEF Publish, Exit
<1>5. CASE Switch(w)
  BY <1>5 DEF Switch, Exit
<1> QED BY <1>1, <1>2, <1>3, <1>4, <1>5 DEF Work

LEMMA TypeEnd ==
    ASSUME TypeOK, (\E r \in Requests : Cancel(r)) \/ Crash \/ UNCHANGED vars
    PROVE  TypeOK'
<1> USE DEF TypeOK, HandlerType, BuildType, DataType, Shared, EditorPcs, BuilderPcs, LoopPcs,
            handlers, schedule, build, content, dist, Actors, Requests, Builders
<1>1. ASSUME NEW r \in Requests, Cancel(r)
      PROVE  TypeOK'
  <2>1. At(r, "wait") => r \in Builders
    BY DEF At
  <2>2. BuildType'
    BY <1>1, <2>1, KillType DEF Cancel, Return
  <2>3. HandlerType' /\ DataType'
    BY <1>1 DEF Cancel, Ends, Goes, Unlock, Kinds, Gone
  <2> QED BY <2>2, <2>3
<1>2. CASE Crash
  <2>2. HandlerType'
    BY <1>2, IdleType DEF Crash
  <2>3. BuildType' /\ DataType'
    BY <1>2 DEF Crash, Gone
  <2> QED BY <2>2, <2>3
<1>3. CASE UNCHANGED vars
  BY <1>3 DEF vars
<1> QED BY <1>1, <1>2, <1>3

LEMMA TypeNext == TypeOK /\ [Next]_vars => TypeOK'
  BY TypeEditor, TypeExport, TypeBuilder, TypeWorker, TypeEnd DEF Next

\* Every reachable state has its types: handlers and builds stand at places of their own,
\* directories hold exports and sites the pages read from them.
THEOREM TypeCorrect == Spec => []TypeOK
  BY TypeInit, TypeNext, PTL DEF Spec

-----------------------------------------------------------------------------
(* content_lock. *)

LEMMA Names ==
    /\ Background \in Builders /\ Background \in Actors /\ Background \notin Editors \cup Hands
    /\ Editors \subseteq Actors /\ Builders \subseteq Actors /\ Hands \subseteq Builders
    /\ Actors = Editors \cup Builders /\ Editors \cap Builders = {}
    /\ None \notin Actors /\ None \notin Slots
    /\ Requests = Editors \cup Hands /\ Builders = {Background} \cup Hands
  BY DEF Actors, Builders, Requests

LEMMA LoopStep ==
    ASSUME TypeOK, LoopRuns, [Next]_vars
    PROVE  LoopRuns'
<1> USE Names DEF TypeOK, HandlerType, LoopRuns, At, Goes
<1> USE DEF handlers, schedule, build, content, dist
<1>1. CASE Check
  BY <1>1 DEF Check
<1>2. CASE Begin
  BY <1>2 DEF Begin
<1>3. ASSUME NEW e \in Editors, Trigger(e)
      PROVE  LoopRuns'
  BY <1>3 DEF Trigger
<1>4. CASE Crash
  BY <1>4 DEF Crash
<1>5. ASSUME UNCHANGED <<dirty, running>>,
             pc'[Background] = pc[Background] \/ (pc[Background] # "idle" /\ pc'[Background] # "idle")
      PROVE  LoopRuns'
  BY <1>5
<1>6. ASSUME NEW e \in Editors, Handle(e)
      PROVE  LoopRuns'
  <2>1. CASE \/ \E k \in Kinds : Edit(e, k)
             \/ Commit(e) \/ Refuse(e) \/ Audit(e) \/ EditFails(e)
    BY <1>5, <2>1 DEF Edit, Commit, Refuse, Audit, EditFails, Ends
  <2> QED BY <1>3, <1>6, <2>1 DEF Handle
<1>7. ASSUME NEW a \in Actors, Export(a)
      PROVE  LoopRuns'
  BY <1>5, <1>7 DEF Export, Lock, Populate, MoveAway, MoveIn, Ends
<1>8. ASSUME NEW b \in Builders, Build(b)
      PROVE  LoopRuns'
  <2>1. CASE Acquire(b) \/ Spawn(b)
    BY <1>5, <2>1 DEF Acquire, Spawn
  <2>2. CASE Finish(b) \/ BuildFails(b) \/ Timeout(b)
    BY <1>5, <2>2 DEF Finish, BuildFails, Timeout, After, Ends
  <2> QED BY <1>8, <2>1, <2>2 DEF Build
<1>9. ASSUME NEW r \in Requests, Cancel(r)
      PROVE  LoopRuns'
  BY <1>5, <1>9 DEF Cancel, Ends
<1>10. ASSUME NEW b \in Hands, BuildByHand(b)
       PROVE  LoopRuns'
  BY <1>5, <1>10 DEF BuildByHand
<1>11. ASSUME NEW w \in Slots, Work(w)
       PROVE  LoopRuns'
  BY <1>5, <1>11 DEF Work, Clean, Render, Rendered, Read, RenderFails, Publish, Switch
<1>12. CASE UNCHANGED vars
  BY <1>5, <1>12 DEF vars
<1> QED
  BY <1>1, <1>2, <1>4, <1>6, <1>7, <1>8, <1>9, <1>10, <1>11, <1>12 DEF Next

LEMMA LockStep ==
    ASSUME TypeOK, LockHeld, LoopRuns, [Next]_vars
    PROVE  LockHeld'
<1> USE Names DEF TypeOK, HandlerType, LockHeld, Locking, At, Goes
<1> USE DEF handlers, schedule, build, content, dist
<1>1. ASSUME NEW e \in Editors, Handle(e)
      PROVE  LockHeld'
  <2>1. CASE (\E k \in Kinds : Edit(e, k)) \/ Commit(e)
    BY <2>1 DEF Edit, Commit
  <2>2. CASE Refuse(e) \/ EditFails(e)
    BY <2>2 DEF Refuse, EditFails, Ends, Unlock
  <2>3. CASE Audit(e)
    BY <2>3 DEF Audit, Ends, Unlock
  <2>4. CASE Trigger(e)
    BY <2>4 DEF Trigger, LoopRuns
  <2> QED BY <1>1, <2>1, <2>2, <2>3, <2>4 DEF Handle
<1>2. ASSUME NEW a \in Actors, Export(a)
      PROVE  LockHeld'
  <2>1. CASE Lock(a)
    BY <2>1 DEF Lock
  <2>2. CASE Populate(a) \/ MoveAway(a)
    BY <2>2 DEF Populate, MoveAway
  <2>3. CASE MoveIn(a)
    BY <2>3 DEF MoveIn, Ends, Unlock
  <2> QED BY <1>2, <2>1, <2>2, <2>3 DEF Export
<1>3. ASSUME NEW b \in Hands, BuildByHand(b)
      PROVE  LockHeld'
  BY <1>3 DEF BuildByHand
<1>4. CASE Begin \/ Check
  BY <1>4 DEF Begin, Check
<1>5. ASSUME NEW b \in Builders, Build(b)
      PROVE  LockHeld'
  <2>1. CASE Acquire(b) \/ Spawn(b)
    BY <2>1 DEF Acquire, Spawn
  <2>2. CASE Finish(b) \/ Timeout(b)
    BY <2>2 DEF Finish, Timeout, After, Ends
  <2>3. CASE BuildFails(b)
    BY <2>3 DEF BuildFails, After, Ends, Unlock
  <2> QED BY <1>5, <2>1, <2>2, <2>3 DEF Build
<1>6. ASSUME NEW w \in Slots, Work(w)
      PROVE  LockHeld'
  BY <1>6 DEF Work, Clean, Render, Rendered, Read, RenderFails, Publish, Switch
<1>7. ASSUME NEW r \in Requests, Cancel(r)
      PROVE  LockHeld'
  BY <1>7 DEF Cancel, Ends, Unlock
<1>8. CASE Crash
  BY <1>8 DEF Crash
<1>9. CASE UNCHANGED vars
  BY <1>9 DEF vars
<1> QED BY <1>1, <1>2, <1>3, <1>4, <1>5, <1>6, <1>7, <1>8, <1>9 DEF Next

\* Only one actor at a time is between the lock and its release.
LEMMA OneLocks ==
    ASSUME TypeOK, LockHeld, NEW a \in Actors, NEW b \in Actors,
           pc[a] \in Locking \/ (a \in Editors /\ pc[a] \in {"commit", "audit"}),
           pc[b] \in Locking \/ (b \in Editors /\ pc[b] \in {"commit", "audit"})
    PROVE  a = b
  BY Names DEF LockHeld

-----------------------------------------------------------------------------
(* Exports and what is read from them. *)

ContentInv == ExportsAreFresh /\ RenderedIsOld

\* A step that leaves the database, the directories and the promises alone, after which
\* nobody is in the middle of an export who was not, with the version it had.
LEMMA QuietContent ==
    ASSUME TypeOK, ContentInv, UNCHANGED <<db, dir, backup, promised>>,
           Pages' \subseteq Pages,
           \A a \in Actors : mine'[a] \in {mine[a], Gone},
           \A a \in Actors : pc'[a] \in {"staged", "moved"} =>
               pc[a] \in {"staged", "moved"} /\ mine'[a] = mine[a]
    PROVE  ContentInv'
<1>1. ExportsAreFresh'
  BY DEF ContentInv, ExportsAreFresh, TypeOK, DataType, Versions, Gone
<1>2. RenderedIsOld'
  BY DEF ContentInv, RenderedIsOld
<1> QED BY <1>1, <1>2 DEF ContentInv

\* The same when the rename of an export fails and the backup is put back.
LEMMA RestoreContent ==
    ASSUME TypeOK, ContentInv, NEW a \in Actors, Restore(a),
           UNCHANGED <<db, promised, next, site, previous>>,
           \A x \in Actors : mine'[x] \in {mine[x], Gone},
           \A x \in Actors : pc'[x] \in {"staged", "moved"} =>
               pc[x] \in {"staged", "moved"} /\ mine'[x] = mine[x]
    PROVE  ContentInv'
<1>1. Pages' = Pages
  BY DEF Pages
<1>2. CASE At(a, "moved")
  <2>1. dir' = backup /\ backup' = Gone
    BY <1>2 DEF Restore
  <2>2. ExportsAreFresh'
    BY <2>1 DEF ContentInv, ExportsAreFresh, TypeOK, DataType, Versions, Gone
  <2>3. RenderedIsOld'
    BY <1>1, <2>1 DEF ContentInv, RenderedIsOld
  <2> QED BY <2>2, <2>3 DEF ContentInv
<1>3. CASE ~At(a, "moved")
  <2>1. UNCHANGED <<dir, backup>>
    BY <1>3 DEF Restore, content
  <2> QED BY <1>1, <2>1, QuietContent
<1> QED BY <1>2, <1>3

LEMMA ContentExport ==
    ASSUME TypeOK, LockHeld, ContentInv, NEW a \in Actors, Export(a)
    PROVE  ContentInv'
<1> USE Names DEF TypeOK, HandlerType, At, Goes
<1> USE DEF handlers, schedule, build, content, dist
<1>0. /\ \A v \in Pages : v \in Int
      /\ db \in Int /\ dir \in Int /\ backup \in Int /\ promised \in Int
  BY DEF Pages, Versions, DataType
<1>1. CASE Lock(a)
  <2>1. Pages' = Pages
    BY <1>1 DEF Lock, Pages
  <2> QED BY <1>1, <2>1, QuietContent DEF Lock
<1>2. CASE Populate(a)
  <2>1. ExportsAreFresh'
    BY <1>0, <1>2 DEF Populate, ContentInv, ExportsAreFresh
  <2>2. RenderedIsOld'
    BY <1>2 DEF Populate, ContentInv, RenderedIsOld, Pages
  <2> QED BY <2>1, <2>2 DEF ContentInv
<1>3. CASE MoveAway(a)
  <2>1. ExportsAreFresh'
    BY <1>0, <1>3 DEF MoveAway, ContentInv, ExportsAreFresh, Gone
  <2>2. RenderedIsOld'
    BY <1>0, <1>3 DEF MoveAway, ContentInv, RenderedIsOld, Pages
  <2> QED BY <2>1, <2>2 DEF ContentInv
<1>4. CASE MoveIn(a)
  <2>1. mine[a] = db /\ dir' = db /\ backup' = Gone /\ UNCHANGED <<db, promised, dist>>
    BY <1>4 DEF MoveIn, ContentInv, ExportsAreFresh
  <2>2. \A x \in Actors : /\ mine'[x] \in {mine[x], Gone}
                          /\ pc'[x] \in {"staged", "moved"} =>
                                 pc[x] \in {"staged", "moved"} /\ mine'[x] = mine[x]
    BY <1>4 DEF MoveIn, Ends
  <2>3. ExportsAreFresh'
    BY <1>0, <2>1, <2>2 DEF ContentInv, ExportsAreFresh, DataType, Versions, Gone
  <2>4. RenderedIsOld'
    BY <1>0, <2>1 DEF ContentInv, RenderedIsOld, Pages
  <2> QED BY <2>3, <2>4 DEF ContentInv
<1> QED BY <1>1, <1>2, <1>3, <1>4 DEF Export

LEMMA ContentEditor ==
    ASSUME TypeOK, LockHeld, ContentInv, NEW e \in Editors, Handle(e)
    PROVE  ContentInv'
<1> USE Names DEF TypeOK, HandlerType, At, Goes
<1> USE DEF handlers, schedule, build, content, dist
<1>0. /\ \A v \in Pages : v \in Int
      /\ db \in Int /\ dir \in Int /\ backup \in Int /\ promised \in Int
      /\ \A a \in Actors : mine[a] \in Int
  BY DEF Pages, Versions, DataType
<1>1. CASE (\E k \in Kinds : Edit(e, k)) \/ Refuse(e) \/ Audit(e)
  <2>1. Pages' = Pages
    BY <1>1 DEF Edit, Refuse, Audit, Pages
  <2> QED BY <1>1, <2>1, QuietContent DEF Edit, Refuse, Audit, Ends
<1>2. CASE Commit(e)
  <2>1. \A a \in Actors : pc[a] \notin {"staged", "moved"}
    BY <1>2 DEF Commit, LockHeld, Locking
  <2>2. db' \in {db, db + 1} /\ UNCHANGED <<dir, backup, promised, next, site, previous>>
    BY <1>2 DEF Commit
  <2>3. \A a \in Actors : mine'[a] \in {mine[a], Gone, db} /\ pc'[a] \notin {"staged", "moved"}
    BY <1>2, <2>1 DEF Commit
  <2>4. ExportsAreFresh'
    BY <1>0, <2>2, <2>3 DEF ContentInv, ExportsAreFresh, DataType, Versions, Gone
  <2>5. RenderedIsOld'
    BY <1>0, <2>2 DEF ContentInv, RenderedIsOld, Pages
  <2> QED BY <2>4, <2>5 DEF ContentInv
<1>3. CASE Trigger(e)
  <2>1. promised' \in {promised, mine[e]} /\ UNCHANGED <<db, dir, backup, dist>>
    BY <1>3 DEF Trigger
  <2>2. \A a \in Actors : /\ mine'[a] \in {mine[a], Gone}
                          /\ pc'[a] \in {"staged", "moved"} =>
                                 pc[a] \in {"staged", "moved"} /\ mine'[a] = mine[a]
    BY <1>3 DEF Trigger
  <2>3. ExportsAreFresh'
    BY <1>0, <2>1, <2>2 DEF ContentInv, ExportsAreFresh, DataType, Versions, Gone
  <2>4. RenderedIsOld'
    BY <2>1 DEF ContentInv, RenderedIsOld, Pages
  <2> QED BY <2>3, <2>4 DEF ContentInv
<1>4. CASE EditFails(e)
  BY <1>4, RestoreContent DEF EditFails, Ends
<1> QED BY <1>1, <1>2, <1>3, <1>4 DEF Handle

LEMMA ContentBuilder ==
    ASSUME TypeOK, ContentInv, NEW b \in Builders, Build(b)
    PROVE  ContentInv'
<1> USE Names DEF TypeOK, HandlerType, At, Goes
<1> USE DEF handlers, schedule, build, content, dist
<1>1. CASE Acquire(b) \/ Spawn(b)
  <2>1. Pages' = Pages
    BY <1>1 DEF Acquire, Spawn, Pages
  <2> QED BY <1>1, <2>1, QuietContent DEF Acquire, Spawn
<1>2. CASE Finish(b) \/ Timeout(b)
  <2>1. Pages' = Pages
    BY <1>2 DEF Finish, Timeout, Pages
  <2> QED BY <1>2, <2>1, QuietContent DEF Finish, Timeout, After, Ends
<1>3. CASE BuildFails(b)
  BY <1>3, RestoreContent DEF BuildFails, After, Ends
<1> QED BY <1>1, <1>2, <1>3 DEF Build

LEMMA ContentWorker ==
    ASSUME TypeOK, ContentInv, NEW w \in Slots, Work(w)
    PROVE  ContentInv'
<1> USE Names DEF TypeOK, handlers, schedule, build, content, dist
<1>1. CASE Render(w) \/ Rendered(w)
  <2>1. next' = next \cup {dir} /\ UNCHANGED <<db, dir, backup, promised, mine, pc, site, previous>>
    BY <1>1 DEF Render, Rendered, Read
  <2>2. ExportsAreFresh'
    BY <2>1 DEF ContentInv, ExportsAreFresh
  <2>3. ASSUME NEW v \in Pages'
        PROVE  (dir # Gone => v <= dir) /\ (backup # Gone => v <= backup) /\ v <= db
    <3>1. CASE v \in Pages
      BY <3>1 DEF ContentInv, RenderedIsOld
    <3>2. CASE v \notin Pages
      <4>1. v = dir /\ dir # Gone
        BY <2>1, <2>3, <3>2 DEF Pages, Versions, Gone
      <4> QED BY <4>1 DEF ContentInv, ExportsAreFresh, DataType
    <3> QED BY <3>1, <3>2
  <2>4. RenderedIsOld'
    BY <2>1, <2>3 DEF RenderedIsOld
  <2> QED BY <2>2, <2>4 DEF ContentInv
<1>2. CASE Clean(w) \/ RenderFails(w) \/ Publish(w) \/ Switch(w)
  <2>1. Pages' \subseteq Pages
    BY <1>2 DEF Clean, RenderFails, Publish, Switch, Pages
  <2>2. UNCHANGED <<db, dir, backup, promised, mine, pc>>
    BY <1>2 DEF Clean, RenderFails, Publish, Switch
  <2> QED BY <2>1, <2>2, QuietContent
<1> QED BY <1>1, <1>2 DEF Work

LEMMA ContentStep ==
    ASSUME TypeOK, LockHeld, ContentInv, [Next]_vars
    PROVE  ContentInv'
<1> USE Names DEF TypeOK, HandlerType, At, Goes
<1> USE DEF handlers, schedule, build, content, dist
<1>1. ASSUME NEW b \in Hands, BuildByHand(b)
      PROVE  ContentInv'
  <2>1. Pages' = Pages
    BY <1>1 DEF BuildByHand, Pages
  <2> QED BY <1>1, <2>1, QuietContent DEF BuildByHand
<1>2. CASE Begin
  <2>1. Pages' = Pages
    BY <1>2 DEF Begin, Pages
  <2> QED BY <1>2, <2>1, QuietContent DEF Begin
<1>3. CASE Check
  <2>1. /\ promised' \in {promised, Gone} /\ UNCHANGED <<db, dir, backup, mine, next, site, previous>>
        /\ \A a \in Actors : pc'[a] \in {"staged", "moved"} => pc[a] \in {"staged", "moved"}
    BY <1>3 DEF Check
  <2>2. ExportsAreFresh'
    BY <2>1 DEF ContentInv, ExportsAreFresh, DataType, Versions, Gone
  <2>3. RenderedIsOld'
    BY <2>1 DEF ContentInv, RenderedIsOld, Pages
  <2> QED BY <2>2, <2>3 DEF ContentInv
<1>4. ASSUME NEW r \in Requests, Cancel(r)
      PROVE  ContentInv'
  <2>1. Pages' = Pages
    BY <1>4 DEF Cancel, Pages
  <2> QED BY <1>4, <2>1, QuietContent DEF Cancel, Ends
<1>5. CASE Crash
  <2>1. ExportsAreFresh'
    BY <1>5 DEF Crash, ContentInv, ExportsAreFresh, DataType, Versions, Gone
  <2>2. RenderedIsOld'
    BY <1>5 DEF Crash, ContentInv, RenderedIsOld, Pages
  <2> QED BY <2>1, <2>2 DEF ContentInv
<1>6. CASE UNCHANGED vars
  <2>1. Pages' = Pages
    BY <1>6 DEF vars, Pages
  <2> QED BY <1>6, <2>1, QuietContent DEF vars
<1> QED
  BY <1>1, <1>2, <1>3, <1>4, <1>5, <1>6, ContentEditor, ContentExport, ContentBuilder,
     ContentWorker
  DEF Next

-----------------------------------------------------------------------------
(* The permit of builds and the processes they wait for. *)

Held == Locking \cup {"lock", "spawn", "wait"}

\* Steps that take or give back no permit and start or end no process.
LEMMA QuietPermit ==
    ASSUME TypeOK, PermitHeld, UNCHANGED build,
           \A b \in Builders : /\ pc'[b] \in Held <=> pc[b] \in Held
                               /\ pc'[b] = "wait" <=> pc[b] = "wait"
    PROVE  PermitHeld'
  BY DEF PermitHeld, Held, build

\* A build that is over, however it ends, gives back its permit and leaves no process.
LEMMA EndOfBuild ==
    ASSUME TypeOK, PermitHeld, NEW b \in Builders, NEW l, l \notin Held, pc[b] \in Held,
           Goes(b, l), Return(b),
           \/ /\ pc[b] = "wait"
              /\ child' = [child EXCEPT ![b] = None]
              /\ worker' = [worker EXCEPT ![child[b]] = "none"]
           \/ pc[b] # "wait" /\ UNCHANGED <<child, worker>>
    PROVE  PermitHeld'
<1> USE Names DEF TypeOK, HandlerType, BuildType
<1>0. /\ permit = b /\ permit' = None /\ pc' = [pc EXCEPT ![b] = l]
      /\ \A c \in Builders : c # b => pc[c] \notin Held /\ child[c] = None
  BY DEF PermitHeld, Held, Return, Goes
<1>1. \A c \in Builders : permit' = c <=> pc'[c] \in Held
  BY <1>0
<1>2. CASE pc[b] = "wait"
  <2>1. child' = [child EXCEPT ![b] = None] /\ worker' = [worker EXCEPT ![child[b]] = "none"]
    BY <1>2
  <2>2. \A c \in Builders : child'[c] = None /\ pc'[c] # "wait"
    BY <1>0, <2>1 DEF Held
  <2>3. ASSUME NEW w \in Slots PROVE worker'[w] = "none"
    <3>1. CASE worker[w] # "none"
      <4>1. child[b] = w
        BY <1>0, <3>1 DEF PermitHeld
      <4> QED BY <2>1, <4>1
    <3>2. CASE worker[w] = "none"
      BY <2>1, <3>2
    <3> QED BY <3>1, <3>2
  <2> QED BY <1>1, <2>2, <2>3 DEF PermitHeld, Held
<1>3. CASE pc[b] # "wait"
  <2>1. UNCHANGED <<child, worker>>
    BY <1>3
  <2>2. \A c \in Builders : child[c] = None /\ pc'[c] # "wait"
    BY <1>0, <1>3 DEF PermitHeld, Held
  <2> QED BY <1>1, <2>1, <2>2 DEF PermitHeld, Held
<1> QED BY <1>2, <1>3

LEMMA PermitStep ==
    ASSUME Survivors = FALSE, TypeOK, LoopRuns, PermitHeld, [Next]_vars
    PROVE  PermitHeld'
<1> USE Names DEF TypeOK, HandlerType, At, Goes
<1> USE DEF handlers, schedule, content, dist
<1>1. ASSUME NEW e \in Editors, Handle(e)
      PROVE  PermitHeld'
  <2>1. CASE Trigger(e)
    BY <2>1, QuietPermit DEF Trigger, LoopRuns, Held, Locking
  <2>2. CASE (\E k \in Kinds : Edit(e, k)) \/ Commit(e) \/ Refuse(e) \/ Audit(e) \/ EditFails(e)
    BY <2>2, QuietPermit DEF Edit, Commit, Refuse, Audit, EditFails, Ends
  <2> QED BY <1>1, <2>1, <2>2 DEF Handle
<1>2. ASSUME NEW a \in Actors, Export(a)
      PROVE  PermitHeld'
  <2>1. CASE Lock(a) \/ Populate(a) \/ MoveAway(a)
    BY <2>1, QuietPermit DEF Lock, Populate, MoveAway, Held, Locking
  <2>2. CASE MoveIn(a)
    BY <2>2, QuietPermit DEF MoveIn, Ends, Held, Locking
  <2> QED BY <1>2, <2>1, <2>2 DEF Export
<1>3. ASSUME NEW b \in Hands, BuildByHand(b)
      PROVE  PermitHeld'
  BY <1>3, QuietPermit DEF BuildByHand, Held, Locking
<1>4. CASE Begin \/ Check
  BY <1>4, QuietPermit DEF Begin, Check, Held, Locking
<1>5. ASSUME NEW b \in Builders, Acquire(b)
      PROVE  PermitHeld'
  BY <1>5 DEF Acquire, PermitHeld, Held, Locking
<1>6. ASSUME NEW b \in Builders, Spawn(b)
      PROVE  PermitHeld'
  <2>1. PICK w \in Slots : /\ worker[w] = "none"
                           /\ worker' = [worker EXCEPT ![w] = "start"]
                           /\ child' = [child EXCEPT ![b] = w]
    BY <1>6 DEF Spawn
  <2>2. pc[b] = "spawn" /\ pc' = [pc EXCEPT ![b] = "wait"] /\ permit' = permit
    BY <1>6 DEF Spawn
  <2>3. \A c \in Builders : permit' = c <=> pc'[c] \in Locking \cup {"lock", "spawn", "wait"}
    BY <2>2 DEF PermitHeld
  <2>4. \A c \in Builders : child'[c] # None <=> pc'[c] = "wait"
    BY <2>1, <2>2 DEF PermitHeld, BuildType
  <2>5. \A c \in Builders : child'[c] # None => worker'[child'[c]] # "none"
    BY <2>1, <2>2 DEF PermitHeld, BuildType
  <2>6. \A x \in Slots : worker'[x] # "none" => \E c \in Builders : child'[c] = x
    <3> SUFFICES ASSUME NEW x \in Slots, worker'[x] # "none"
                 PROVE  \E c \in Builders : child'[c] = x
      OBVIOUS
    <3>1. CASE x = w
      BY <2>1, <3>1 DEF BuildType
    <3>2. CASE x # w
      <4>1. PICK c \in Builders : child[c] = x
        BY <2>1, <3>2 DEF BuildType, PermitHeld
      <4>2. c # b
        BY <2>2, <4>1 DEF PermitHeld
      <4> QED BY <2>1, <4>1, <4>2 DEF BuildType
    <3> QED BY <3>1, <3>2
  <2> QED BY <2>3, <2>4, <2>5, <2>6 DEF PermitHeld
<1>7. ASSUME NEW b \in Builders, Finish(b) \/ Timeout(b)
      PROVE  PermitHeld'
  <2>1. pc[b] = "wait" /\ \E l \in {"idle", "built", "broken"} : Goes(b, l)
    BY <1>7 DEF Finish, Timeout, After, Ends
  <2>2. /\ child' = [child EXCEPT ![b] = None] /\ worker' = [worker EXCEPT ![child[b]] = "none"]
        /\ Return(b)
    BY <1>7 DEF Finish, Timeout, Kill
  <2> QED BY <2>1, <2>2, EndOfBuild DEF Held, Locking
<1>8. ASSUME NEW b \in Builders, BuildFails(b)
      PROVE  PermitHeld'
  <2>1. /\ pc[b] \in Held /\ pc[b] # "wait" /\ \E l \in {"idle", "built", "broken"} : Goes(b, l)
        /\ UNCHANGED <<child, worker>> /\ Return(b)
    BY <1>8 DEF BuildFails, After, Ends, Held, Locking
  <2> QED BY <2>1, EndOfBuild DEF Held, Locking
<1>9. ASSUME NEW w \in Slots, Work(w)
      PROVE  PermitHeld'
  <2>1. UNCHANGED <<pc, permit, child>>
    BY <1>9 DEF Work, Clean, Render, Rendered, Read, RenderFails, Publish, Switch
  <2>2. \E b \in Builders : child[b] = w
    BY <1>9 DEF Work, Clean, Render, Rendered, Read, RenderFails, Publish, Switch, PermitHeld
  <2>3. \E s : s # "none" /\ worker' = [worker EXCEPT ![w] = s]
    BY <1>9, <2>2 DEF Work, Clean, Render, Rendered, Read, RenderFails, Publish, Switch, Exit
  <2> QED BY <2>1, <2>2, <2>3 DEF PermitHeld, BuildType
<1>10. ASSUME NEW r \in Requests, Cancel(r)
       PROVE  PermitHeld'
  <2>1. CASE r \in Builders /\ pc[r] \in Held
    <3>1. Goes(r, "idle") /\ Return(r)
      BY <1>10 DEF Cancel, Ends
    <3>2. \/ /\ pc[r] = "wait"
             /\ child' = [child EXCEPT ![r] = None]
             /\ worker' = [worker EXCEPT ![child[r]] = "none"]
          \/ pc[r] # "wait" /\ UNCHANGED <<child, worker>>
      BY <1>10 DEF Cancel, Kill
    <3> QED BY <2>1, <3>1, <3>2, EndOfBuild DEF Held, Locking
  <2>2. CASE r \notin Builders \/ pc[r] \notin Held
    <3>1. permit # r /\ pc[r] # "wait"
      BY <2>2 DEF PermitHeld, Held, BuildType, Shared, EditorPcs
    <3>2. UNCHANGED build
      BY <1>10, <3>1 DEF Cancel, Return, Kill, build
    <3> QED BY <1>10, <2>2, <3>2, QuietPermit DEF Cancel, Ends, Held, Locking
  <2> QED BY <2>1, <2>2
<1>11. CASE Crash
  BY <1>11 DEF Crash, PermitHeld, Locking
<1>12. CASE UNCHANGED vars
  BY <1>12, QuietPermit DEF vars, build
<1> QED
  BY <1>1, <1>2, <1>3, <1>4, <1>5, <1>6, <1>7, <1>8, <1>9, <1>10, <1>11, <1>12 DEF Next, Build

\* At most one build waits for a process, and there is at most one process.
LEMMA OnlyChild ==
    ASSUME TypeOK, PermitHeld, NEW b \in Builders, pc[b] \in Held
    PROVE  /\ \A c \in Builders : c # b => pc[c] \notin Held
           /\ \A w \in Slots : worker[w] # "none" => pc[b] = "wait" /\ child[b] = w
  BY DEF PermitHeld, Held

LEMMA WriterAlone == TypeOK /\ PermitHeld => OneWriter
  BY DEF PermitHeld, OneWriter, TypeOK, BuildType

-----------------------------------------------------------------------------
(* What is rendered is not older than what is shown. *)

LEMMA QuietNext ==
    ASSUME NextIsNewer, next' \subseteq next,
           (site \cup previous)' \subseteq site \cup previous,
           \A w \in Slots : worker'[w] \in Busy => worker[w] \in Busy
    PROVE  NextIsNewer'
  BY DEF NextIsNewer

LEMMA NextStep ==
    ASSUME TypeOK, ContentInv, PermitHeld, NextIsNewer, [Next]_vars
    PROVE  NextIsNewer'
<1> USE DEF TypeOK, BuildType, handlers, schedule, build, content, dist
<1>1. ASSUME NEW e \in Editors, Handle(e)
      PROVE  NextIsNewer'
  BY <1>1, QuietNext DEF Handle, Edit, Commit, Refuse, Audit, Trigger, EditFails
<1>2. ASSUME NEW a \in Actors, Export(a)
      PROVE  NextIsNewer'
  BY <1>2, QuietNext DEF Export, Lock, Populate, MoveAway, MoveIn
<1>3. CASE (\E b \in Hands : BuildByHand(b)) \/ Begin \/ Check
  BY <1>3, QuietNext DEF BuildByHand, Begin, Check
<1>4. ASSUME NEW b \in Builders, Build(b)
      PROVE  NextIsNewer'
  <2>1. UNCHANGED dist
    BY <1>4 DEF Build, Acquire, Spawn, Finish, BuildFails, Timeout
  <2>2. CASE Acquire(b) \/ BuildFails(b)
    BY <2>1, <2>2, QuietNext DEF Acquire, BuildFails
  <2>3. CASE Spawn(b)
    BY <2>1, <2>3, QuietNext DEF Spawn, Busy
  <2>4. CASE Finish(b) \/ Timeout(b)
    <3>1. \A w \in Slots : worker'[w] \in {worker[w], "none"}
      BY <2>4 DEF Finish, Timeout, Kill
    <3> QED BY <2>1, <3>1, QuietNext DEF Busy
  <2> QED BY <1>4, <2>2, <2>3, <2>4 DEF Build
<1>5. ASSUME NEW w \in Slots, Clean(w)
      PROVE  NextIsNewer'
  BY <1>5 DEF Clean, NextIsNewer
<1>6. ASSUME NEW w \in Slots, Render(w) \/ Rendered(w)
      PROVE  NextIsNewer'
  <2>1. worker[w] \in Busy /\ next' = next \cup {dir} /\ UNCHANGED <<site, previous>>
    BY <1>6 DEF Render, Rendered, Read, Busy
  <2>2. \A v \in next \cap Versions, u \in (site \cup previous) \cap Versions : u <= v
    BY <2>1 DEF NextIsNewer
  <2>3. dir \in Versions => \A u \in (site \cup previous) \cap Versions : u <= dir
    BY DEF ContentInv, RenderedIsOld, Pages, Versions, Gone
  <2> QED BY <2>1, <2>2, <2>3 DEF NextIsNewer
<1>7. ASSUME NEW w \in Slots, RenderFails(w)
      PROVE  NextIsNewer'
  BY <1>7, QuietNext DEF RenderFails, Exit, Busy
<1>8. ASSUME NEW w \in Slots, Publish(w)
      PROVE  NextIsNewer'
  <2>1. /\ UNCHANGED next /\ (site \cup previous)' \subseteq site \cup previous
        /\ \A x \in Slots : worker'[x] \in Busy => worker[x] \in Busy
    BY <1>8 DEF Publish, Exit, Busy
  <2> QED BY <2>1, QuietNext
<1>9. ASSUME NEW w \in Slots, Switch(w)
      PROVE  NextIsNewer'
  <2>1. \A x \in Slots : worker'[x] \notin Busy
    BY <1>9, WriterAlone DEF Switch, Exit, Busy, OneWriter
  <2> QED BY <2>1 DEF NextIsNewer
<1>10. ASSUME NEW r \in Requests, Cancel(r)
       PROVE  NextIsNewer'
  <2>1. UNCHANGED dist /\ \A w \in Slots : worker'[w] \in {worker[w], "none"}
    BY <1>10 DEF Cancel, Kill
  <2> QED BY <2>1, QuietNext DEF Busy
<1>11. CASE Crash
  BY <1>11, QuietNext DEF Crash, Busy
<1>12. CASE UNCHANGED vars
  BY <1>12, QuietNext DEF vars
<1> QED
  BY <1>1, <1>2, <1>3, <1>4, <1>5, <1>6, <1>7, <1>8, <1>9, <1>10, <1>11, <1>12 DEF Next, Work

-----------------------------------------------------------------------------
(* What was promised is carried to the site. *)

\* Steps that leave directories and sites alone and take the loop no further.
LEMMA QuietPromises ==
    ASSUME PromisesCarried, UNCHANGED <<dir, backup, next, site, previous, promised>>,
           Exported' => Exported, Complete' => Complete,
           \A w \in Slots : worker'[w] \in Busy => worker[w] \in Busy
    PROVE  PromisesCarried'
  BY DEF PromisesCarried

\* The same when an export moves the directory to its backup or puts it back.
LEMMA MovePromises ==
    ASSUME PromisesCarried, UNCHANGED <<next, site, previous, promised, worker>>,
           dir' \in {dir, backup, Gone}, backup' \in {backup, dir, Gone},
           Exported' => Exported, Complete' => Complete
    PROVE  PromisesCarried'
  BY DEF PromisesCarried

\* Nothing is claimed of changes that are still marked.
LEMMA MarkedPromises == dirty' => PromisesCarried'
  BY DEF PromisesCarried, Exported, Complete, Settled

\* Nor when nothing is promised.
LEMMA NoPromises == TypeOK' /\ promised' = Gone => PromisesCarried'
  BY DEF PromisesCarried, TypeOK, DataType, Versions, Gone

LEMMA PromiseEditor ==
    ASSUME TypeOK, PromisesCarried, NEW e \in Editors, Handle(e)
    PROVE  PromisesCarried'
<1> USE Names DEF TypeOK, HandlerType, At, Goes
<1> USE DEF handlers, schedule, build, content, dist
<1>1. CASE Trigger(e)
  BY <1>1, MarkedPromises DEF Trigger
<1>2. CASE (\E k \in Kinds : Edit(e, k)) \/ Commit(e) \/ Refuse(e) \/ Audit(e) \/ EditFails(e)
  <2>1. /\ pc'[Background] = pc[Background]
        /\ UNCHANGED <<dirty, child, worker, next, site, previous, promised>>
    BY <1>2 DEF Edit, Commit, Refuse, Audit, EditFails, Ends
  <2>2. (Exported' => Exported) /\ (Complete' => Complete)
    BY <2>1 DEF Exported, Complete, Settled
  <2>3. dir' \in {dir, backup, Gone} /\ backup' \in {backup, dir, Gone}
    BY <1>2 DEF Edit, Commit, Refuse, Audit, EditFails, Restore
  <2> QED BY <2>1, <2>2, <2>3, MovePromises
<1> QED BY <1>1, <1>2 DEF Handle

LEMMA PromiseExport ==
    ASSUME TypeOK, ContentInv, PermitHeld, PromisesCarried, NEW a \in Actors, Export(a)
    PROVE  PromisesCarried'
<1> USE Names DEF TypeOK, HandlerType, At, Goes
<1> USE DEF handlers, schedule, build, content, dist
<1>1. CASE Lock(a) \/ Populate(a) \/ MoveAway(a)
  <2>1. /\ UNCHANGED <<dirty, child, worker, next, site, previous, promised>>
        /\ pc'[Background] = pc[Background] \/ pc'[Background] \in Locking \cup {"commit"}
    BY <1>1 DEF Lock, Populate, MoveAway, Locking
  <2>2. (Exported' => Exported) /\ (Complete' => Complete)
    BY <2>1 DEF Exported, Complete, Settled, Locking
  <2>3. dir' \in {dir, backup, Gone} /\ backup' \in {backup, dir, Gone}
    BY <1>1 DEF Lock, Populate, MoveAway
  <2> QED BY <2>1, <2>2, <2>3, MovePromises
<1>2. CASE MoveIn(a)
  <2>1. /\ dir' = db /\ backup' = Gone /\ db >= promised
        /\ UNCHANGED <<dirty, child, worker, next, site, previous, promised>>
    BY <1>2 DEF MoveIn, ContentInv, ExportsAreFresh, DataType, Versions
  <2>2. (dir' # Gone => dir' >= promised) /\ (backup' # Gone => backup' >= promised)
    BY <2>1
  <2>3. CASE a = Background
    <3>1. pc[a] \in Held /\ pc[a] # "wait" /\ pc'[a] = "spawn"
      BY <1>2, <2>3 DEF MoveIn, Ends, Held, Locking
    <3>2. \A w \in Slots : worker[w] = "none"
      BY <2>3, <3>1, OnlyChild
    <3>3. ~Complete'
      BY <2>3, <3>1 DEF Complete, Settled
    <3> QED BY <2>1, <2>2, <3>2, <3>3 DEF PromisesCarried, Busy
  <2>4. CASE a # Background
    <3>1. pc'[Background] = pc[Background]
      BY <1>2, <2>4 DEF MoveIn, Ends
    <3>2. (Exported' => Exported) /\ (Complete' => Complete)
      BY <2>1, <3>1 DEF Exported, Complete, Settled
    <3> QED BY <2>1, <2>2, <3>2 DEF PromisesCarried
  <2> QED BY <2>3, <2>4
<1> QED BY <1>1, <1>2 DEF Export

LEMMA PromiseBuilder ==
    ASSUME TypeOK, PermitHeld, PromisesCarried, NEW b \in Builders, Build(b)
    PROVE  PromisesCarried'
<1> USE Names DEF TypeOK, HandlerType, BuildType, At, Goes
<1> USE DEF handlers, schedule, build, content, dist
<1>0. UNCHANGED <<dirty, next, site, previous, promised>>
  BY DEF Build, Acquire, Spawn, Finish, BuildFails, Timeout
<1>1. CASE Acquire(b)
  <2>1. (Exported' => Exported) /\ (Complete' => Complete) /\ UNCHANGED <<dir, backup, worker>>
    BY <1>1 DEF Acquire, Exported, Complete, Settled
  <2> QED BY <1>0, <2>1, QuietPromises
<1>2. CASE Spawn(b)
  <2>1. PICK w \in Slots : /\ worker[w] = "none"
                           /\ worker' = [worker EXCEPT ![w] = "start"]
                           /\ child' = [child EXCEPT ![b] = w]
    BY <1>2 DEF Spawn
  <2>2. pc[b] = "spawn" /\ pc' = [pc EXCEPT ![b] = "wait"] /\ UNCHANGED <<dir, backup>>
    BY <1>2 DEF Spawn
  <2>3. Exported' => Exported
    BY <1>0, <2>2 DEF Exported
  <2>4. Complete' => Complete
    <3>1. CASE b = Background
      <4>1. worker'[child'[Background]] = "start" /\ pc'[Background] = "wait"
        BY <2>1, <2>2, <3>1
      <4> QED BY <4>1 DEF Complete, Settled
    <3>2. CASE b # Background
      <4>1. pc[Background] # "wait" /\ pc'[Background] = pc[Background]
        BY <2>2, <3>2, OnlyChild DEF Held
      <4> QED BY <1>0, <4>1 DEF Complete, Settled
    <3> QED BY <3>1, <3>2
  <2>5. \A x \in Slots : worker'[x] \in Busy => worker[x] \in Busy
    BY <2>1 DEF Busy
  <2> QED BY <1>0, <2>2, <2>3, <2>4, <2>5, QuietPromises
<1>3. CASE Finish(b) \/ Timeout(b)
  <2>1. pc[b] = "wait" /\ UNCHANGED <<dir, backup>> /\ \A x \in Slots : worker'[x] \in {worker[x], "none"}
    <3>1. pc[b] = "wait" /\ UNCHANGED <<dir, backup>>
      BY <1>3 DEF Finish, Timeout
    <3>2. worker' = [worker EXCEPT ![child[b]] = "none"] \/ worker' = worker
      BY <1>3, <3>1 DEF Finish, Timeout, Kill
    <3> QED BY <3>1, <3>2
  <2>2. CASE b = Background
    <3>1. \/ pc'[b] = "built" /\ worker[child[b]] = "ok"
          \/ pc'[b] = "broken"
      BY <1>3, <2>2 DEF Finish, Timeout, After, Ends
    <3>2. (Exported' => Exported) /\ (Complete' => Complete)
      BY <1>0, <2>1, <2>2, <3>1 DEF Exported, Complete, Settled
    <3> QED BY <1>0, <2>1, <3>2, QuietPromises DEF Busy
  <2>3. CASE b # Background
    <3>1. pc[Background] # "wait" /\ pc'[Background] = pc[Background]
      BY <1>3, <2>1, <2>3, OnlyChild DEF Held, Finish, Timeout, After, Ends
    <3>2. (Exported' => Exported) /\ (Complete' => Complete)
      BY <1>0, <3>1 DEF Exported, Complete, Settled
    <3> QED BY <1>0, <2>1, <3>2, QuietPromises DEF Busy
  <2> QED BY <2>2, <2>3
<1>4. CASE BuildFails(b)
  <2>1. /\ UNCHANGED <<worker, child>>
        /\ dir' \in {dir, backup, Gone} /\ backup' \in {backup, dir, Gone}
        /\ pc'[Background] = pc[Background] \/ pc'[Background] = "broken"
    BY <1>4 DEF BuildFails, Restore, After, Ends
  <2>2. (Exported' => Exported) /\ (Complete' => Complete)
    BY <1>0, <2>1 DEF Exported, Complete, Settled
  <2> QED BY <1>0, <2>1, <2>2, MovePromises
<1> QED BY <1>1, <1>2, <1>3, <1>4 DEF Build

LEMMA PromiseWorker ==
    ASSUME TypeOK, PermitHeld, ContentInv, PromisesCarried, NEW w \in Slots, Work(w)
    PROVE  PromisesCarried'
<1> USE Names DEF TypeOK, HandlerType, BuildType
<1> USE DEF handlers, schedule, build, content, dist
<1>0. /\ UNCHANGED <<pc, dirty, child, dir, backup, promised>>
      /\ Exported' <=> Exported
  BY DEF Work, Clean, Render, Rendered, Read, RenderFails, Publish, Switch, Exported
<1>1. ASSUME \A x \in Slots : worker'[x] = "ok" => worker[x] = "ok"
      PROVE  Complete' => Complete
  <2>1. pc[Background] = "wait" => child[Background] \in Slots
    BY DEF PermitHeld
  <2> QED BY <1>0, <1>1, <2>1 DEF Complete, Settled
<1>2. CASE Clean(w)
  BY <1>0, <1>1, <1>2 DEF Clean, PromisesCarried
<1>3. CASE Render(w) \/ Rendered(w)
  <2>1. worker[w] \in Busy /\ next' = next \cup {dir} /\ UNCHANGED <<site, previous>>
    BY <1>3 DEF Render, Rendered, Read, Busy
  <2>2. Complete' => Complete
    BY <1>1, <1>3 DEF Render, Rendered, Read
  <2>3. Exported => \A v \in next' \cap Versions : v >= promised
    BY <2>1 DEF PromisesCarried, Versions, Gone
  <2> QED BY <1>0, <2>1, <2>2, <2>3 DEF PromisesCarried
<1>4. CASE RenderFails(w)
  BY <1>0, <1>1, <1>4, QuietPromises DEF RenderFails, Exit, Busy
<1>5. CASE Publish(w)
  <2>1. /\ UNCHANGED next /\ (site \cup previous)' \subseteq site \cup previous
        /\ \A x \in Slots : worker'[x] \in Busy => worker[x] \in Busy
    BY <1>5 DEF Publish, Exit, Busy
  <2>2. Complete' => Complete
    BY <1>1, <1>5 DEF Publish, Exit
  <2> QED BY <1>0, <2>1, <2>2 DEF PromisesCarried
<1>6. CASE Switch(w)
  <2>1. \A x \in Slots : worker'[x] \notin Busy
    BY <1>6, WriterAlone DEF Switch, Exit, Busy, OneWriter
  <2>2. CASE next # {} /\ site = {}
    <3>1. site' = next /\ previous' = {}
      BY <1>6, <2>2 DEF Switch
    <3>2. Exported => \A v \in next \cap Versions : v >= promised
      BY <1>6 DEF Switch, PromisesCarried, Busy
    <3>3. Complete' => Exported'
      BY DEF Complete, Settled, Exported
    <3> QED BY <1>0, <2>1, <3>1, <3>2, <3>3 DEF PromisesCarried
  <2>3. CASE ~(next # {} /\ site = {})
    <3>1. (site \cup previous)' \subseteq site \cup previous
      BY <1>6, <2>3 DEF Switch
    <3>2. Complete' => Complete
      BY <1>1, <1>6, <2>3 DEF Switch, Exit
    <3> QED BY <1>0, <2>1, <3>1, <3>2 DEF PromisesCarried
  <2> QED BY <2>2, <2>3
<1> QED BY <1>2, <1>3, <1>4, <1>5, <1>6 DEF Work

LEMMA PromiseStep ==
    ASSUME Survivors = FALSE, TypeOK, ContentInv, LoopRuns, PermitHeld, PromisesCarried, [Next]_vars
    PROVE  PromisesCarried'
<1> USE Names DEF TypeOK, HandlerType, BuildType, At, Goes
<1> USE DEF handlers, schedule, build, content, dist
<1>0. TypeOK'
  BY TypeNext
<1>1. ASSUME NEW b \in Hands, BuildByHand(b)
      PROVE  PromisesCarried'
  <2>1. (Exported' => Exported) /\ (Complete' => Complete)
    BY <1>1 DEF BuildByHand, Exported, Complete, Settled
  <2> QED BY <1>1, <2>1, QuietPromises DEF BuildByHand
<1>2. CASE Begin
  <2>1. ~Exported' /\ ~Complete'
    BY <1>2 DEF Begin, Exported, Complete, Settled
  <2> QED BY <2>1 DEF PromisesCarried
<1>3. CASE Check
  <2>1. CASE dirty
    BY <1>3, <2>1, MarkedPromises DEF Check
  <2>2. CASE ~dirty /\ pc[Background] = "broken"
    BY <1>0, <1>3, <2>2, NoPromises DEF Check
  <2>3. CASE ~dirty /\ pc[Background] = "built"
    <3>1. Exported /\ Complete
      BY <2>3 DEF Exported, Complete, Settled
    <3> QED BY <1>3, <2>3, <3>1, QuietPromises DEF Check
  <2> QED BY <1>3, <2>1, <2>2, <2>3 DEF Check
<1>4. ASSUME NEW r \in Requests, Cancel(r)
      PROVE  PromisesCarried'
  <2>1. /\ UNCHANGED <<dirty, dir, backup, next, site, previous, promised>>
        /\ pc'[Background] = pc[Background]
    BY <1>4 DEF Cancel, Ends
  <2>2. \A x \in Slots : worker'[x] \in {worker[x], "none"}
    BY <1>4 DEF Cancel, Kill
  <2>3. pc[Background] = "wait" => UNCHANGED <<child, worker>>
    <3> SUFFICES ASSUME pc[Background] = "wait" PROVE UNCHANGED <<child, worker>>
      OBVIOUS
    <3>1. pc[r] # "wait"
      BY OnlyChild DEF Held, Shared, EditorPcs
    <3> QED BY <1>4, <3>1 DEF Cancel, Kill
  <2>4. (Exported' => Exported) /\ (Complete' => Complete)
    BY <2>1, <2>3 DEF Exported, Complete, Settled
  <2> QED BY <2>1, <2>2, <2>4, QuietPromises DEF Busy
<1>5. CASE Crash
  BY <1>0, <1>5, NoPromises DEF Crash
<1>6. CASE UNCHANGED vars
  <2>1. (Exported' => Exported) /\ (Complete' => Complete)
    BY <1>6 DEF vars, Exported, Complete, Settled
  <2> QED BY <1>6, <2>1, QuietPromises DEF vars
<1> QED
  BY <1>1, <1>2, <1>3, <1>4, <1>5, <1>6, PromiseEditor, PromiseExport, PromiseBuilder,
     PromiseWorker
  DEF Next

-----------------------------------------------------------------------------
(* Theorems. *)

\* What holds however the build command is killed.
CommonInv == TypeOK /\ LoopRuns /\ LockHeld /\ ContentInv

LEMMA CommonInvariant == Spec => []CommonInv
<1>1. Init => CommonInv
  <2> SUFFICES ASSUME Init PROVE CommonInv
    OBVIOUS
  <2>1. LoopRuns /\ LockHeld
    BY Names DEF Init, LoopRuns, LockHeld, Locking
  <2>2. ContentInv
    BY DEF Init, ContentInv, ExportsAreFresh, RenderedIsOld, Pages, Versions, Gone
  <2> QED BY <2>1, <2>2, TypeInit DEF CommonInv
<1>2. CommonInv /\ [Next]_vars => CommonInv'
  BY TypeNext, LoopStep, LockStep, ContentStep DEF CommonInv
<1> QED BY <1>1, <1>2, PTL DEF Spec

BuildInv == PermitHeld /\ NextIsNewer /\ PromisesCarried

LEMMA BuildInvariant ==
    ASSUME Survivors = FALSE
    PROVE  Spec => []BuildInv
<1>1. Init => BuildInv
  <2> SUFFICES ASSUME Init PROVE BuildInv
    OBVIOUS
  <2>1. PermitHeld
    BY Names DEF Init, PermitHeld, Locking
  <2>2. NextIsNewer
    BY DEF Init, NextIsNewer, Busy
  <2>3. PromisesCarried
    BY DEF Init, PromisesCarried, Versions, Gone
  <2> QED BY <2>1, <2>2, <2>3 DEF BuildInv
<1>2. CommonInv /\ BuildInv /\ [Next]_vars => BuildInv'
  BY PermitStep, NextStep, PromiseStep DEF CommonInv, BuildInv
<1> QED BY <1>1, <1>2, CommonInvariant, PTL DEF Spec

\* No export replaces the content directory by an older state of the database, whatever
\* handlers and builds overlap, fail or are dropped, and also when what npm has started
\* lives on.
THEOREM ExportsAreOrdered == Spec => [][ExportsInOrder]_vars
<1>1. CommonInv /\ CommonInv' /\ [Next]_vars => [ExportsInOrder]_vars
  <2> SUFFICES ASSUME CommonInv, Next, dir' # Gone, backup # Gone
               PROVE  dir' >= backup
    BY DEF ExportsInOrder
  <2> USE DEF CommonInv, TypeOK, DataType, Gone
  <2>1. dir = Gone /\ backup <= db
    BY DEF ContentInv, ExportsAreFresh
  <2>2. dir' = dir \/ dir' = backup \/ dir' = Gone \/ \E a \in Actors : MoveIn(a)
    BY DEF Next, Handle, Edit, Commit, Refuse, Audit, Trigger, EditFails, Export, Lock,
       Populate,
           MoveAway, BuildByHand, Begin, Check, Build, Acquire, Spawn, Finish, BuildFails, Timeout,
           Work, Clean, Render, Rendered, Read, RenderFails, Publish, Switch, Cancel, Crash, Restore,
           content
  <2>3. ASSUME NEW a \in Actors, MoveIn(a)
        PROVE  dir' = db
    BY <2>3 DEF MoveIn, At, ContentInv, ExportsAreFresh
  <2> QED BY <2>1, <2>2, <2>3, Names DEF Versions
<1> QED BY <1>1, CommonInvariant, PTL DEF Spec

\* When union ends what npm has started with it, two processes of the build command
\* never write dist.next and dist at a time: BUILD_SEMAPHORE covers the whole build, and
\* a build that is dropped or times out ends its process before it lets go.
THEOREM OneWriterAlways ==
    ASSUME Survivors = FALSE
    PROVE  Spec => []OneWriter
<1>1. CommonInv /\ BuildInv => OneWriter
  BY WriterAlone DEF CommonInv, BuildInv
<1> QED BY <1>1, CommonInvariant, BuildInvariant, PTL

\* When the loop of trigger_background_build has stopped, the site shows every change
\* that was answered and whose build did not fail: a change that comes while a build goes
\* on marks the schedule, and the loop looks at it again before it stops.
THEOREM UpdatesShowAlways ==
    ASSUME Survivors = FALSE
    PROVE  Spec => []UpdatesShow
<1>1. CommonInv /\ BuildInv => UpdatesShow
  BY DEF CommonInv, BuildInv, LoopRuns, PromisesCarried, Complete, Settled, UpdatesShow
<1> QED BY <1>1, CommonInvariant, BuildInvariant, PTL

\* Neither what a build reads nor what the public sees goes back: when a site replaces
\* another, its oldest and its newest page are at least as new as those of the other.
THEOREM NeverOlderAlways ==
    ASSUME Survivors = FALSE
    PROVE  Spec => NeverOlder
<1>1. CommonInv /\ BuildInv /\ [Next]_vars => [SitesInOrder]_vars
  <2> SUFFICES ASSUME CommonInv, BuildInv, Next, Shown # {}, Shown' # {}
               PROVE  /\ \A new \in Shown' : \E old \in Shown : old <= new
                      /\ \A old \in Shown : \E new \in Shown' : old <= new
    BY DEF SitesInOrder
  <2> USE DEF CommonInv, BuildInv
  <2>1. Shown \in SUBSET Int /\ Shown' \in SUBSET Int
    BY DEF Shown, Versions
  <2>2. CASE Shown' = Shown
    BY <2>1, <2>2
  <2>3. CASE \A v \in Shown', u \in Shown : u <= v
    BY <2>1, <2>3
  <2>4. \/ UNCHANGED <<site, previous>>
        \/ \E w \in Slots : Publish(w) \/ Switch(w)
    BY DEF Next, Handle, Edit, Commit, Refuse, Audit, Trigger, EditFails, Export, Lock,
       Populate,
           MoveAway, MoveIn, BuildByHand, Begin, Check, Build, Acquire, Spawn, Finish, BuildFails,
           Timeout, Work, Clean, Render, Rendered, Read, RenderFails, Cancel, Crash, dist
  <2>5. CASE UNCHANGED <<site, previous>>
    BY <2>2, <2>5 DEF Shown
  <2>6. ASSUME NEW w \in Slots, Publish(w)
        PROVE  Shown' = Shown \/ Shown' = {}
    <3>1. CASE next = {}
      BY <2>6, <3>1 DEF Publish, Shown
    <3>2. CASE next # {}
      BY <2>6, <3>2 DEF Publish, Shown
    <3> QED BY <3>1, <3>2
  <2>7. ASSUME NEW w \in Slots, Switch(w)
        PROVE  Shown' = Shown \/ \A v \in Shown', u \in Shown : u <= v
    <3>1. CASE next # {} /\ site = {}
      <4>1. Shown = previous \cap Versions /\ Shown' = next \cap Versions
        BY <2>7, <3>1 DEF Switch, Shown
      <4> QED BY <2>7, <4>1 DEF Switch, NextIsNewer, Busy
    <3>2. CASE ~(next # {} /\ site = {})
      BY <2>7, <3>2 DEF Switch, Shown
    <3> QED BY <3>1, <3>2
  <2> QED BY <2>2, <2>3, <2>4, <2>5, <2>6, <2>7
<1>2. CommonInv /\ BuildInv /\ [Next]_vars => [SitesInOrder]_vars
  BY <1>1
<1> QED BY <1>2, ExportsAreOrdered, CommonInvariant, BuildInvariant, PTL DEF NeverOlder, Spec

-----------------------------------------------------------------------------
(* HistoryIsTrue of BuildHistory, for any processes, builds, days and texts. *)

Outcome(how) == IF how = "ok" THEN "succeeded" ELSE "failed"
Rows == [status : {"none", "running", "succeeded", "failed", "abandoned"}, log : BOOLEAN, since : Nat]
Works == [job : 0 .. MaxJobs, at : {"quiet", "run", "log", "finish", "audit"}, how : {"ok", "bad", "nospawn"},
          text : {<<>>} \cup Written]
Loops == [paths : SUBSET Jobs, wake : Nat, ok : BOOLEAN]

HistoryTypeOK ==
    /\ now \in Nat /\ starts \in Nat /\ made \in 0 .. MaxJobs
    /\ proc \in [Processes -> {"down", "starting", "ready", "up", "draining"}]
    /\ builds \in [Processes -> Works]
    /\ prune \in [Processes -> Loops]
    /\ jobs \in [Jobs -> Rows] /\ audits \in [Jobs -> Int]
    /\ truth \in [Jobs -> {"none", "going", "succeeded", "failed", "lost"}]
    /\ known \in [Processes -> 0 .. MaxJobs]

\* What exists was made.
MadeBefore ==
    /\ Stored \cup cut \subseteq 1 .. made
    /\ \A j \in Jobs : jobs[j].status = "none" => jobs[j] = NoRow
    /\ \A p \in Processes : known[p] <= made

\* A build is under way in one process, which serves or drains.
WorkIsApart ==
    \A p \in Processes :
        /\ builds[p] # Quiet => /\ builds[p].job \in 1 .. made /\ builds[p].at # "quiet"
                                /\ proc[p] \in {"up", "draining"} /\ builds[p].job \notin cut
        /\ \A q \in Processes : p # q /\ builds[p].job = builds[q].job => builds[p] = Quiet

\* Two processes live after two starts.
StartsAreCounted ==
    \A p \in Processes : Lives(p) => starts > 0 /\ \A q \in Processes \ {p} : Lives(q) => starts > 1

\* The row of a build that goes on is of today, and says what the build has got to.
Along(w) ==
    LET row == jobs[w.job] IN
    /\ row.since = now
    /\ w.at = "run" => truth[w.job] = "going"
    /\ w.at # "run" => truth[w.job] = Outcome(w.how)
    /\ w.at \in {"run", "log", "finish"} => row.status \in {"running", "abandoned"} /\ ~row.log
    /\ w.at = "finish" => w.job \in Stored
    /\ w.at = "audit" => row.status = Outcome(w.how) /\ row.log
RowGoesAlong == \A p \in Processes : builds[p] # Quiet => Along(builds[p])

\* What a loop is about to remove has no row any more.
PathsHaveNoRow ==
    \A p \in Processes :
        /\ proc[p] = "down" => prune[p].paths = {} /\ ~prune[p].ok
        /\ prune[p].paths # {} => prune[p].ok
        /\ \A j \in prune[p].paths : j <= made /\ jobs[j] = NoRow

\* A loop that succeeded sleeps until a day after, and what is left is of the retention.
Young(l) ==
    /\ l.paths # {} => \A j \in Jobs : Exists(j) => now - jobs[j].since <= Retention
    /\ l.paths = {} =>
          /\ now <= l.wake /\ l.wake <= now + 1
          /\ \A j \in Jobs : Exists(j) => l.wake - jobs[j].since <= Retention + 1
LeftIsYoung == \A p \in Processes : prune[p].ok => Young(prune[p])

HistoryInv ==
    /\ HistoryTypeOK /\ MadeBefore /\ WorkIsApart /\ StartsAreCounted /\ RowGoesAlong /\ PathsHaveNoRow
    /\ LeftIsYoung /\ RowsAreTrue /\ NoneLeftRunning /\ LogsHaveRows

LEMMA Blank ==
  /\ Quiet.job = 0 /\ Quiet.at = "quiet" /\ Quiet \in Works
  /\ NoRow \in Rows /\ NoRow.status = "none" /\ ~NoRow.log
  /\ Asleep \in Loops /\ ~Asleep.ok /\ Asleep.paths = {}
  BY HistoryAssumption DEF Quiet, NoRow, Asleep, Works, Rows, Loops

\* What one place of a function becomes.
LEMMA PutAt ==
  ASSUME NEW S, NEW T, NEW f \in [S -> T], NEW x \in S, NEW v \in T, NEW g, g = [f EXCEPT ![x] = v]
  PROVE  g \in [S -> T] /\ g[x] = v /\ \A y \in S : y # x => g[y] = f[y]
  OBVIOUS

LEMMA Typed ==
  ASSUME HistoryTypeOK
  PROVE  /\ \A p \in Processes : builds[p] \in Works /\ prune[p] \in Loops
         /\ \A j \in Jobs : jobs[j] \in Rows
         /\ 1 .. made \subseteq Jobs
         /\ \A p \in Processes : 1 .. known[p] \subseteq Jobs
  <1>1. made \in 0 .. MaxJobs /\ known \in [Processes -> 0 .. MaxJobs] /\ MaxJobs \in Nat
    BY HistoryAssumption DEF HistoryTypeOK
  <1>2. \A n \in 0 .. MaxJobs : 1 .. n \subseteq Jobs
    BY <1>1 DEF Jobs
  <1>3. \A p \in Processes : known[p] \in 0 .. MaxJobs
    BY <1>1
  <1>. QED BY <1>1, <1>2, <1>3 DEF HistoryTypeOK

-----------------------------------------------------------------------------
(* What does not change. *)

LEMMA StoredStays == ASSUME logs' = logs PROVE Stored' = Stored
  BY DEF Stored

LEMMA RowsStay ==
  ASSUME HistoryInv, UNCHANGED <<now, builds, jobs, truth, logs>> PROVE RowGoesAlong'
  BY StoredStays DEF HistoryInv, RowGoesAlong, Along, Outcome

LEMMA TruthStays ==
  ASSUME HistoryInv, UNCHANGED <<jobs, truth, cut, builds>>, starts' \in Nat, starts <= starts' PROVE RowsAreTrue'
  BY DEF HistoryInv, HistoryTypeOK, RowsAreTrue, Going

LEMMA YoungStays ==
  ASSUME UNCHANGED <<now, jobs>>, NEW l PROVE Young(l) => Young(l)'
  BY DEF Young, Exists
  
\* A process that starts, binds its port or begins to drain.
LEMMA ProcessInv ==
  ASSUME HistoryInv, NEW p \in Processes, NEW state \in {"starting", "ready", "up", "draining"},
         proc' = [proc EXCEPT ![p] = state], UNCHANGED <<now, builds, made, jobs, audits, logs, truth, cut, unlinked>>,
         Lives(p) => starts' = starts /\ known' = known /\ prune' = prune /\ (builds[p] = Quiet \/ state \in {"up", "draining"}),
         ~Lives(p) => starts' = starts + 1 /\ state = "starting" /\ known' = [known EXCEPT ![p] = made]
                     /\ prune' = [prune EXCEPT ![p] = [Asleep EXCEPT !.wake = now]],
         state \in {"ready", "up", "draining"} => \A j \in 1 .. known[p] : jobs[j].status # "running"
  PROVE  HistoryInv'
  <1>. DEFINE begun == [Asleep EXCEPT !.wake = now]
  <1>1. begun \in Loops /\ begun.paths = {} /\ ~begun.ok
    BY DEF HistoryInv, HistoryTypeOK, Asleep, Loops
  <1>2. proc' \in [Processes -> {"down", "starting", "ready", "up", "draining"}] /\ proc'[p] = state
        /\ \A q \in Processes : q # p => proc'[q] = proc[q]
    BY DEF HistoryInv, HistoryTypeOK
  <1>3. prune' \in [Processes -> Loops]
        /\ \A q \in Processes : prune'[q] = prune[q] \/ (q = p /\ ~Lives(p) /\ prune'[q] = begun)
    <2>1. prune \in [Processes -> Loops] /\ (prune' = prune \/ (~Lives(p) /\ prune' = [prune EXCEPT ![p] = begun]))
      BY DEF HistoryInv, HistoryTypeOK
    <2>. HIDE DEF begun
    <2>. QED BY <1>1, <2>1
  <1>4. known' \in [Processes -> 0 .. MaxJobs]
        /\ \A q \in Processes : known'[q] = known[q] \/ (q = p /\ ~Lives(p) /\ known'[q] = made)
    <2>1. known \in [Processes -> 0 .. MaxJobs] /\ made \in 0 .. MaxJobs
          /\ (known' = known \/ (~Lives(p) /\ known' = [known EXCEPT ![p] = made]))
      BY DEF HistoryInv, HistoryTypeOK
    <2>. QED BY <2>1
  <1>5. starts' \in Nat /\ starts <= starts'
    BY DEF HistoryInv, HistoryTypeOK
  <1>. HIDE DEF begun
  <1>6. HistoryTypeOK'
    BY <1>2, <1>3, <1>4, <1>5 DEF HistoryInv, HistoryTypeOK
  <1>7. MadeBefore'
    BY <1>4, StoredStays DEF HistoryInv, HistoryTypeOK, MadeBefore
  <1>8. WorkIsApart'
    BY <1>2 DEF HistoryInv, WorkIsApart, Lives
  <1>9. StartsAreCounted'
    BY <1>2, <1>5 DEF HistoryInv, HistoryTypeOK, StartsAreCounted, Lives
  <1>10. RowGoesAlong' /\ RowsAreTrue'
    BY <1>5, RowsStay, TruthStays
  <1>11. PathsHaveNoRow'
    <2>. SUFFICES ASSUME NEW q \in Processes
                  PROVE  /\ proc'[q] = "down" => prune'[q].paths = {} /\ ~prune'[q].ok
                         /\ prune'[q].paths # {} => prune'[q].ok
                         /\ \A j \in prune'[q].paths : j <= made' /\ jobs'[j] = NoRow
      BY DEF PathsHaveNoRow
    <2>1. CASE prune'[q] = prune[q]
      BY <1>2, <2>1 DEF HistoryInv, PathsHaveNoRow
    <2>2. CASE prune'[q] = begun
      BY <1>1, <2>2
    <2>. QED BY <1>3, <2>1, <2>2
  <1>12. LeftIsYoung'
    BY <1>1, <1>3, YoungStays DEF HistoryInv, LeftIsYoung
  <1>13. NoneLeftRunning'
    BY <1>2, <1>4 DEF HistoryInv, NoneLeftRunning, Lives
  <1>14. LogsHaveRows'
    <2>1. \A q \in Processes : prune[q].paths \subseteq prune'[q].paths
      BY <1>1, <1>3 DEF HistoryInv, PathsHaveNoRow, Lives
    <2>. QED BY <2>1, StoredStays DEF HistoryInv, LogsHaveRows
  <1>. QED BY <1>6, <1>7, <1>8, <1>9, <1>10, <1>11, <1>12, <1>13, <1>14 DEF HistoryInv

LEMMA StartInv == ASSUME HistoryInv, NEW p \in Processes, Start(p) PROVE HistoryInv'
  BY ProcessInv DEF Start, Lives, table

LEMMA BindInv == ASSUME HistoryInv, NEW p \in Processes, Bind(p) PROVE HistoryInv'
  <1>1. Lives(p) /\ \A j \in 1 .. known[p] : jobs[j].status # "running"
    BY DEF HistoryInv, NoneLeftRunning, Bind, Lives
  <1>. QED BY <1>1, ProcessInv DEF Bind, table, past

LEMMA ShutdownInv == ASSUME HistoryInv, NEW p \in Processes, Shutdown(p) PROVE HistoryInv'
  <1>1. Lives(p) /\ \A j \in 1 .. known[p] : jobs[j].status # "running"
    BY DEF HistoryInv, NoneLeftRunning, Shutdown, Lives
  <1>. QED BY <1>1, ProcessInv DEF Shutdown, table, past

-----------------------------------------------------------------------------
(* Rows are declared abandoned, or removed. *)

LEMMA AbandonInv == ASSUME HistoryInv, NEW p \in Processes, Abandon(p) PROVE HistoryInv'
  <1>1. /\ proc[p] = "starting" /\ proc' = [proc EXCEPT ![p] = "ready"]
        /\ UNCHANGED <<now, starts, builds, prune, made, audits, logs, truth, cut, unlinked, known>>
    BY DEF Abandon, past
  <1>2. ASSUME NEW j \in Jobs
        PROVE  /\ jobs'[j] \in Rows /\ jobs'[j].since = jobs[j].since /\ jobs'[j].log = jobs[j].log
               /\ (jobs'[j] = NoRow <=> jobs[j] = NoRow)
               /\ jobs'[j].status = IF jobs[j].status = "running" THEN "abandoned" ELSE jobs[j].status
    <2>1. jobs[j] \in Rows
      BY Typed DEF HistoryInv
    <2>2. jobs'[j] = IF jobs[j].status = "running" THEN [jobs[j] EXCEPT !.status = "abandoned"] ELSE jobs[j]
      BY DEF Abandon
    <2>. QED BY <2>1, <2>2, Blank DEF Rows
  <1>3. proc' \in [Processes -> {"down", "starting", "ready", "up", "draining"}] /\ proc'[p] = "ready"
        /\ \A q \in Processes : q # p => proc'[q] = proc[q]
    BY <1>1 DEF HistoryInv, HistoryTypeOK
  <1>4. HistoryTypeOK'
    <2>1. jobs' = [j \in Jobs |-> jobs'[j]]
      BY DEF Abandon
    <2>2. jobs' \in [Jobs -> Rows]
      BY <1>2, <2>1
    <2>. QED BY <1>1, <1>3, <2>2 DEF HistoryInv, HistoryTypeOK
  <1>5. Stored' = Stored /\ \A q \in Processes : builds[q].job \in 1 .. made => builds[q].job \in Jobs
    BY <1>1, StoredStays, Typed DEF HistoryInv
  <1>6. MadeBefore'
    BY <1>1, <1>2, <1>5, Blank DEF HistoryInv, MadeBefore
  <1>7. WorkIsApart'
    BY <1>1, <1>3 DEF HistoryInv, WorkIsApart
  <1>8. StartsAreCounted'
    BY <1>1, <1>3 DEF HistoryInv, StartsAreCounted, Lives
  <1>9. RowGoesAlong'
    <2>. SUFFICES ASSUME NEW q \in Processes, builds[q] # Quiet PROVE Along(builds[q])'
      BY <1>1 DEF RowGoesAlong
    <2>1. builds[q].job \in Jobs /\ Along(builds[q]) /\ builds[q] \in Works
      BY <1>5, Typed DEF HistoryInv, WorkIsApart, RowGoesAlong
    <2>. QED BY <1>1, <1>2, <1>5, <2>1 DEF Along, Outcome
  <1>10. PathsHaveNoRow'
    <2>1. \A q \in Processes : prune[q].paths \subseteq Jobs
      BY Typed DEF HistoryInv, Loops
    <2>. QED BY <1>1, <1>2, <1>3, <2>1 DEF HistoryInv, PathsHaveNoRow
  <1>11. LeftIsYoung'
    BY <1>1, <1>2 DEF HistoryInv, LeftIsYoung, Young, Exists
  <1>12. RowsAreTrue'
    <2>. SUFFICES ASSUME NEW j \in Jobs
                  PROVE  /\ jobs'[j].status \in {"succeeded", "failed"} => truth'[j] = jobs'[j].status
                         /\ jobs'[j].status = "running" => Going(j)' \/ j \in cut'
                         /\ jobs'[j].status = "abandoned" =>
                              \/ j \in cut'
                              \/ \E q \in Processes : builds'[q].job = j /\ starts' > 1
      BY DEF RowsAreTrue, Jobs
    <2>1. CASE jobs[j].status # "running"
      BY <1>1, <1>2, <2>1 DEF HistoryInv, RowsAreTrue
    <2>2. CASE jobs[j].status = "running" /\ j \notin cut
      <3>1. PICK q \in Processes : builds[q].job = j
        BY <2>2 DEF HistoryInv, RowsAreTrue, Going
      <3>2. builds[q] # Quiet
        BY <3>1, Blank DEF Jobs
      <3>3. q # p /\ Lives(q) /\ Lives(p)
        BY <1>1, <3>2 DEF HistoryInv, WorkIsApart, Lives
      <3>. QED BY <1>1, <1>2, <2>2, <3>1, <3>3 DEF HistoryInv, StartsAreCounted
    <2>. QED BY <1>1, <1>2, <2>1, <2>2
  <1>13. NoneLeftRunning'
    <2>. SUFFICES ASSUME NEW q \in Processes, proc'[q] \in {"ready", "up", "draining"}, NEW j \in 1 .. known[q]
                  PROVE  jobs'[j].status # "running"
      BY <1>1 DEF NoneLeftRunning
    <2>. QED BY <1>2, Typed DEF HistoryInv
  <1>14. LogsHaveRows'
    BY <1>1, <1>2, <1>5 DEF HistoryInv, LogsHaveRows
  <1>. QED BY <1>4, <1>6, <1>7, <1>8, <1>9, <1>10, <1>11, <1>12, <1>13, <1>14 DEF HistoryInv

\* The loop sleeps after a failure; a day passes; both leave the tables alone.
LEMMA PruneFailsInv == ASSUME HistoryInv, NEW p \in Processes, PruneFails(p) PROVE HistoryInv'
  <1>. DEFINE asleep == [paths |-> {}, wake |-> now + 1, ok |-> FALSE]
  <1>1. /\ Lives(p) /\ prune[p].paths = {} /\ prune' = [prune EXCEPT ![p] = asleep]
        /\ UNCHANGED <<now, starts, proc, builds, made, jobs, audits, logs, truth, cut, unlinked, known>>
    BY DEF PruneFails, Due, Sleeps, table, past
  <1>2. asleep \in Loops
    BY DEF HistoryInv, HistoryTypeOK, Loops
  <1>3. prune' \in [Processes -> Loops] /\ prune'[p] = asleep /\ \A q \in Processes : q # p => prune'[q] = prune[q]
    BY <1>1, <1>2 DEF HistoryInv, HistoryTypeOK
  <1>4. (MadeBefore /\ WorkIsApart /\ StartsAreCounted /\ NoneLeftRunning)'
    BY <1>1, StoredStays DEF HistoryInv, MadeBefore, WorkIsApart, StartsAreCounted, Lives,
       NoneLeftRunning
  <1>5. RowGoesAlong' /\ RowsAreTrue'
    BY <1>1, RowsStay, TruthStays DEF HistoryInv, HistoryTypeOK
  <1>6. HistoryTypeOK'
    BY <1>1, <1>3 DEF HistoryInv, HistoryTypeOK
  <1>7. PathsHaveNoRow'
    BY <1>1, <1>3 DEF HistoryInv, PathsHaveNoRow
  <1>8. LeftIsYoung'
    BY <1>1, <1>3, YoungStays DEF HistoryInv, LeftIsYoung
  <1>9. LogsHaveRows'
    <2>1. \A q \in Processes : prune[q].paths \subseteq prune'[q].paths
      BY <1>1, <1>3
    <2>. QED BY <1>1, <2>1, StoredStays DEF HistoryInv, LogsHaveRows
  <1>. QED BY <1>4, <1>5, <1>6, <1>7, <1>8, <1>9 DEF HistoryInv

LEMMA TickInv == ASSUME HistoryInv, Tick PROVE HistoryInv'
  <1>1. /\ now' = now + 1 /\ now \in Nat
        /\ UNCHANGED <<starts, proc, builds, prune, made, jobs, audits, logs, truth, cut, unlinked, known>>
        /\ \A p \in Processes : builds[p] = Quiet /\ (Lives(p) => prune[p].paths = {} /\ prune[p].wake > now)
    BY DEF Tick, table, past, HistoryInv, HistoryTypeOK
  <1>2. (MadeBefore /\ WorkIsApart /\ StartsAreCounted /\ NoneLeftRunning)'
    BY <1>1, StoredStays DEF HistoryInv, MadeBefore, WorkIsApart, StartsAreCounted, Lives,
       NoneLeftRunning
  <1>3. RowGoesAlong'
    BY <1>1 DEF RowGoesAlong
  <1>4. HistoryTypeOK' /\ RowsAreTrue'
    BY <1>1, TruthStays DEF HistoryInv, HistoryTypeOK
  <1>5. PathsHaveNoRow' /\ LogsHaveRows'
    BY <1>1, StoredStays DEF HistoryInv, PathsHaveNoRow, LogsHaveRows
  <1>6. LeftIsYoung'
    <2>. SUFFICES ASSUME NEW p \in Processes, prune[p].ok PROVE Young(prune[p])'
      BY <1>1 DEF LeftIsYoung
    <2>1. Lives(p) /\ prune[p].paths = {} /\ prune[p].wake > now /\ prune[p].wake \in Nat
      <3>1. Lives(p)
        BY DEF HistoryInv, PathsHaveNoRow, Lives
      <3>. QED BY <1>1, <3>1, Typed DEF HistoryInv, Loops
    <2>2. Young(prune[p])
      BY DEF HistoryInv, LeftIsYoung
    <2>. QED BY <1>1, <2>1, <2>2 DEF Young, Exists
  <1>. QED BY <1>2, <1>3, <1>4, <1>5, <1>6 DEF HistoryInv

-----------------------------------------------------------------------------
(* The steps of a build. *)

\* Two processes do not build for one job.
LEMMA JobsApart ==
  ASSUME HistoryInv, NEW p \in Processes, NEW q \in Processes, p # q, builds[q] # Quiet
  PROVE  builds[q].job # builds[p].job
  BY DEF HistoryInv, WorkIsApart

\* A build moves on with its job, or its process is done with it.
LEMMA WorkMoves ==
  ASSUME HistoryInv, NEW p \in Processes, NEW w \in Works,
         builds' = [builds EXCEPT ![p] = w], made' = made,
         w # Quiet => /\ builds[p] # Quiet /\ w.job = builds[p].job /\ w.at # "quiet"
                      /\ cut' = cut /\ proc' = proc,
         w = Quiet => /\ cut' = cut \/ (builds[p] # Quiet /\ cut' = cut \cup {builds[p].job})
                      /\ \A q \in Processes : q # p => proc'[q] = proc[q]
  PROVE  /\ builds' \in [Processes -> Works] /\ builds'[p] = w
         /\ \A q \in Processes : q # p => builds'[q] = builds[q]
         /\ WorkIsApart'
  <1>1. builds' \in [Processes -> Works] /\ builds'[p] = w /\ \A q \in Processes : q # p => builds'[q] = builds[q]
    BY DEF HistoryInv, HistoryTypeOK
  <1>2. ASSUME NEW q \in Processes, builds'[q] # Quiet
        PROVE  /\ builds'[q].job \in 1 .. made' /\ builds'[q].at # "quiet"
               /\ proc'[q] \in {"up", "draining"} /\ builds'[q].job \notin cut'
    <2>1. builds[q] # Quiet /\ builds'[q].job = builds[q].job /\ proc'[q] = proc[q] /\ builds'[q].at # "quiet"
      <3>1. CASE q = p
        BY <1>1, <1>2, <3>1
      <3>2. CASE q # p
        <4>1. builds'[q] = builds[q] /\ proc'[q] = proc[q]
          BY <1>1, <3>2
        <4>. QED BY <1>2, <4>1 DEF HistoryInv, WorkIsApart
      <3>. QED BY <3>1, <3>2
    <2>2. builds'[q].job \notin cut'
      <3>1. builds[q].job \notin cut
        BY <2>1 DEF HistoryInv, WorkIsApart
      <3>2. q # p => builds[q].job # builds[p].job
        BY <2>1, JobsApart
      <3>. QED BY <1>1, <1>2, <2>1, <3>1, <3>2
    <2>. QED BY <2>1, <2>2 DEF HistoryInv, WorkIsApart
  <1>3. ASSUME NEW q \in Processes, NEW r \in Processes, q # r, builds'[q].job = builds'[r].job
        PROVE  builds'[q] = Quiet
    <2>1. \A s \in Processes : builds'[s] # Quiet => builds[s] # Quiet /\ builds'[s].job = builds[s].job
      BY <1>1
    <2>2. \A s \in Processes : builds[s] # Quiet => builds[s].job # 0
      BY <1>1, Typed DEF HistoryInv, WorkIsApart
    <2>. QED BY <1>3, <2>1, <2>2, Blank, JobsApart
  <1>. QED BY <1>1, <1>2, <1>3 DEF WorkIsApart

\* What a step does to another job leaves a build where it is.
LEMMA OthersGoAlong ==
  ASSUME HistoryInv, NEW q \in Processes, builds[q] # Quiet, builds'[q] = builds[q], now' = now,
         jobs'[builds[q].job] = jobs[builds[q].job], truth'[builds[q].job] = truth[builds[q].job],
         builds[q].job \in Stored => builds[q].job \in Stored'
  PROVE  Along(builds[q])'
  BY DEF HistoryInv, RowGoesAlong, Along, Outcome

LEMMA JobIs ==
  ASSUME HistoryInv, NEW p \in Processes, builds[p] # Quiet
  PROVE  builds[p] \in Works /\ builds[p].job \in 1 .. made /\ builds[p].job \in Jobs /\ Along(builds[p])
         /\ builds[p].at # "quiet" /\ builds[p].job \notin cut /\ Lives(p)
  BY Typed DEF HistoryInv, WorkIsApart, RowGoesAlong, Lives

\* A build that breaks off.
LEMMA BreaksOffKeeps ==
  ASSUME HistoryInv, NEW p \in Processes, BreaksOff(p), UNCHANGED <<now, made, jobs, logs, starts>>,
         \A q \in Processes : q # p => proc'[q] = proc[q]
  PROVE  /\ builds' \in [Processes -> Works]
         /\ builds'[p] = Quiet /\ \A q \in Processes : q # p => builds'[q] = builds[q]
         /\ truth' \in [Jobs -> {"none", "going", "succeeded", "failed", "lost"}]
         /\ cut \subseteq cut' /\ cut' \subseteq 1 .. made
         /\ builds[p].at = "finish" => builds[p].job \in cut'
         /\ WorkIsApart' /\ RowGoesAlong' /\ RowsAreTrue'
  <1>1. /\ builds' = [builds EXCEPT ![p] = Quiet]
        /\ cut' = IF builds[p].at \in {"run", "log", "finish"} THEN cut \cup {builds[p].job} ELSE cut
        /\ truth' = IF builds[p].at = "run" THEN [truth EXCEPT ![builds[p].job] = "lost"] ELSE truth
    BY DEF BreaksOff
  <1>2. builds[p].at \in {"run", "log", "finish"} => builds[p] # Quiet
    BY Blank
  <1>3. /\ builds' \in [Processes -> Works] /\ builds'[p] = Quiet
        /\ \A q \in Processes : q # p => builds'[q] = builds[q]
        /\ WorkIsApart'
    BY <1>1, <1>2, Blank, WorkMoves
  <1>4. cut \subseteq cut' /\ cut' \subseteq 1 .. made
    BY <1>1, <1>2, JobIs DEF HistoryInv, MadeBefore
  <1>5. /\ truth' \in [Jobs -> {"none", "going", "succeeded", "failed", "lost"}]
        /\ \A j \in Jobs : truth'[j] = truth[j] \/ (builds[p].at = "run" /\ j = builds[p].job)
    BY <1>1 DEF HistoryInv, HistoryTypeOK
  <1>6. RowGoesAlong'
    <2>. SUFFICES ASSUME NEW q \in Processes, builds'[q] # Quiet PROVE Along(builds[q])'
      BY DEF RowGoesAlong
    <2>1. q # p /\ builds'[q] = builds[q] /\ builds[q] # Quiet
      BY <1>3
    <2>2. builds[q].job \in Jobs /\ builds[q].job # builds[p].job
      BY <2>1, JobIs, JobsApart
    <2>. QED BY <1>5, <2>1, <2>2, OthersGoAlong, StoredStays
  <1>7. RowsAreTrue'
    <2>. SUFFICES ASSUME NEW j \in Jobs
                  PROVE  /\ jobs[j].status \in {"succeeded", "failed"} => truth'[j] = jobs[j].status
                         /\ jobs[j].status = "running" => Going(j)' \/ j \in cut'
                         /\ jobs[j].status = "abandoned" =>
                              \/ j \in cut'
                              \/ \E q \in Processes : builds'[q].job = j /\ starts > 1
      BY DEF RowsAreTrue, Jobs
    <2>1. builds[p].job = j => Along(builds[p]) /\ builds[p].at \in {"run", "log", "finish", "audit"}
      BY Blank, JobIs DEF Works, Jobs
    <2>2. jobs[j].status \in {"succeeded", "failed"} => truth'[j] = truth[j]
      BY <1>5, <2>1 DEF Along
    <2>3. builds[p].job = j /\ jobs[j].status \in {"running", "abandoned"} => j \in cut'
      BY <1>1, <2>1 DEF Along, Outcome
    <2>4. \A q \in Processes : builds[q].job = j => builds'[q].job = j \/ q = p
      BY <1>3
    <2>. QED BY <1>4, <2>2, <2>3, <2>4 DEF HistoryInv, RowsAreTrue, Going
  <1>8. builds[p].at = "finish" => builds[p].job \in cut'
    BY <1>1
  <1>. QED BY <1>3, <1>4, <1>5, <1>6, <1>7, <1>8

LEMMA FailsInv == ASSUME HistoryInv, NEW p \in Processes, builds[p] # Quiet, Fails(p) PROVE HistoryInv'
  <1>1. BreaksOff(p) /\ UNCHANGED <<now, starts, proc, prune, made, jobs, audits, logs, unlinked, known>>
    BY DEF Fails, table
  <1>2. /\ builds' \in [Processes -> Works]
        /\ builds'[p] = Quiet /\ \A q \in Processes : q # p => builds'[q] = builds[q]
        /\ truth' \in [Jobs -> {"none", "going", "succeeded", "failed", "lost"}]
        /\ cut \subseteq cut' /\ cut' \subseteq 1 .. made
        /\ builds[p].at = "finish" => builds[p].job \in cut'
        /\ WorkIsApart' /\ RowGoesAlong' /\ RowsAreTrue'
    BY <1>1, BreaksOffKeeps
  <1>3. HistoryTypeOK'
    BY <1>1, <1>2 DEF HistoryInv, HistoryTypeOK
  <1>4. (MadeBefore /\ StartsAreCounted /\ PathsHaveNoRow /\ NoneLeftRunning)'
    BY <1>1, <1>2, StoredStays DEF HistoryInv, MadeBefore, StartsAreCounted, PathsHaveNoRow,
       NoneLeftRunning, Lives
  <1>5. LeftIsYoung'
    BY <1>1, YoungStays DEF HistoryInv, LeftIsYoung
  <1>6. LogsHaveRows'
    BY <1>1, <1>2, StoredStays DEF HistoryInv, LogsHaveRows
  <1>. QED BY <1>2, <1>3, <1>4, <1>5, <1>6 DEF HistoryInv

LEMMA EndedInv == ASSUME HistoryInv, NEW p \in Processes, Ended(p) PROVE HistoryInv'
  <1>1. /\ BreaksOff(p) /\ UNCHANGED <<now, starts, made, jobs, audits, logs, known>>
        /\ proc' = [proc EXCEPT ![p] = "down"] /\ prune' = [prune EXCEPT ![p] = Asleep]
        /\ unlinked' = unlinked \cup prune[p].paths
    BY DEF Ended, table
  <1>2. proc' \in [Processes -> {"down", "starting", "ready", "up", "draining"}] /\ proc'[p] = "down"
        /\ \A q \in Processes : q # p => proc'[q] = proc[q]
    BY <1>1 DEF HistoryInv, HistoryTypeOK
  <1>3. prune' \in [Processes -> Loops] /\ prune'[p] = Asleep
        /\ \A q \in Processes : q # p => prune'[q] = prune[q]
    BY <1>1, Blank DEF HistoryInv, HistoryTypeOK
  <1>4. /\ builds' \in [Processes -> Works]
        /\ builds'[p] = Quiet /\ \A q \in Processes : q # p => builds'[q] = builds[q]
        /\ truth' \in [Jobs -> {"none", "going", "succeeded", "failed", "lost"}]
        /\ cut \subseteq cut' /\ cut' \subseteq 1 .. made
        /\ builds[p].at = "finish" => builds[p].job \in cut'
        /\ WorkIsApart' /\ RowGoesAlong' /\ RowsAreTrue'
    BY <1>1, <1>2, BreaksOffKeeps
  <1>5. HistoryTypeOK'
    BY <1>1, <1>2, <1>3, <1>4 DEF HistoryInv, HistoryTypeOK
  <1>6. MadeBefore'
    BY <1>1, <1>4, StoredStays DEF HistoryInv, MadeBefore
  <1>7. (StartsAreCounted /\ NoneLeftRunning)'
    BY <1>1, <1>2 DEF HistoryInv, StartsAreCounted, NoneLeftRunning, Lives
  <1>8. PathsHaveNoRow'
    BY <1>1, <1>2, <1>3, Blank DEF HistoryInv, PathsHaveNoRow
  <1>9. LeftIsYoung'
    BY <1>1, <1>3, Blank, YoungStays DEF HistoryInv, LeftIsYoung
  <1>10. LogsHaveRows'
    <2>. SUFFICES ASSUME NEW j \in Jobs
                  PROVE  /\ jobs[j].log => j \in Stored
                         /\ j \in Stored => \/ jobs[j].log
                                            \/ \E q \in Processes : builds'[q].job = j /\ builds'[q].at = "finish"
                                            \/ \E q \in Processes : j \in prune'[q].paths
                                            \/ j \in cut' \cup unlinked'
      BY <1>1, StoredStays DEF LogsHaveRows, Jobs
    <2>. QED BY <1>1, <1>3, <1>4 DEF HistoryInv, LogsHaveRows
  <1>. QED BY <1>4, <1>5, <1>6, <1>7, <1>8, <1>9, <1>10 DEF HistoryInv

LEMMA CreateInv == ASSUME HistoryInv, NEW p \in Processes, Create(p) PROVE HistoryInv'
  <1>. DEFINE job == made + 1
              row == [status |-> "running", log |-> FALSE, since |-> now]
              work == [Quiet EXCEPT !.job = job, !.at = "run"]
  <1>1. /\ proc[p] \in {"up", "draining"} /\ builds[p] = Quiet /\ made < MaxJobs /\ made' = job
        /\ jobs' = [jobs EXCEPT ![job] = row] /\ truth' = [truth EXCEPT ![job] = "going"]
        /\ builds' = [builds EXCEPT ![p] = work]
        /\ UNCHANGED <<now, starts, proc, prune, audits, logs, cut, unlinked, known>>
    BY DEF Create
  <1>2. job \in Jobs /\ job \in Nat /\ made \in Nat /\ job \in 0 .. MaxJobs /\ job \notin 1 .. made
        /\ 1 .. made \subseteq 1 .. job
    BY <1>1, HistoryAssumption DEF HistoryInv, HistoryTypeOK, Jobs
  <1>3. row \in Rows /\ row.status = "running" /\ ~row.log /\ row.since = now
    BY DEF HistoryInv, HistoryTypeOK, Rows
  <1>4. work \in Works /\ work.job = job /\ work.at = "run" /\ work # Quiet
    BY <1>2 DEF Quiet, Works
  <1>. HIDE DEF row, work
  <1>5. jobs' \in [Jobs -> Rows] /\ jobs'[job] = row /\ \A j \in Jobs : j # job => jobs'[j] = jobs[j]
    BY <1>1, <1>2, <1>3 DEF HistoryInv, HistoryTypeOK
  <1>6. /\ truth' \in [Jobs -> {"none", "going", "succeeded", "failed", "lost"}] /\ truth'[job] = "going"
        /\ \A j \in Jobs : j # job => truth'[j] = truth[j]
    BY <1>1, <1>2 DEF HistoryInv, HistoryTypeOK
  <1>7. builds' \in [Processes -> Works] /\ builds'[p] = work /\ \A q \in Processes : q # p => builds'[q] = builds[q]
    BY <1>1, <1>4 DEF HistoryInv, HistoryTypeOK
  <1>8. HistoryTypeOK'
    <2>1. \A q \in Processes : known[q] \in 0 .. MaxJobs
      BY DEF HistoryInv, HistoryTypeOK
    <2>. QED BY <1>1, <1>2, <1>5, <1>6, <1>7 DEF HistoryInv, HistoryTypeOK
  <1>9. Stored' = Stored /\ Stored \cup cut \subseteq 1 .. made /\ job \notin Stored /\ job \notin cut
    BY <1>1, <1>2, StoredStays DEF HistoryInv, MadeBefore
  <1>. HIDE DEF job
  <1>10. MadeBefore'
    <2>1. \A q \in Processes : known[q] <= job
      BY <1>2 DEF HistoryInv, HistoryTypeOK, MadeBefore, job
    <2>2. \A j \in Jobs : jobs'[j].status = "none" => jobs'[j] = NoRow
      BY <1>3, <1>5 DEF HistoryInv, MadeBefore
    <2>. QED BY <1>1, <1>2, <1>9, <2>1, <2>2 DEF MadeBefore
  <1>11. \A q \in Processes : q # p /\ builds[q] # Quiet => builds[q].job \in Jobs /\ builds[q].job # job
    BY <1>2, JobIs
  <1>12. WorkIsApart'
    <2>1. \A q \in Processes : builds[q] # Quiet => builds[q].job \in 1 .. made
      BY JobIs
    <2>2. \A q \in Processes : builds[q] = Quiet => builds[q].job = 0
      BY Blank
    <2>3. job # 0
      BY <1>2 DEF job
    <2>4. ASSUME NEW q \in Processes, builds'[q] # Quiet
          PROVE  builds'[q].job \in 1 .. made' /\ builds'[q].at # "quiet"
                 /\ proc'[q] \in {"up", "draining"} /\ builds'[q].job \notin cut'
      BY <1>1, <1>2, <1>4, <1>7, <1>9, <2>4 DEF HistoryInv, WorkIsApart, Jobs
    <2>5. ASSUME NEW q \in Processes, NEW r \in Processes, q # r, builds'[q].job = builds'[r].job
          PROVE  builds'[q] = Quiet
      <3>1. q # p
        BY <1>4, <1>7, <1>11, <2>2, <2>3, <2>5
      <3>2. r # p
        BY <1>4, <1>7, <1>11, <2>2, <2>3, <2>5
      <3>. QED BY <1>7, <2>5, <3>1, <3>2, JobsApart
    <2>. QED BY <2>4, <2>5 DEF WorkIsApart
  <1>13. StartsAreCounted'
    BY <1>1 DEF HistoryInv, StartsAreCounted, Lives
  <1>14. RowGoesAlong'
    <2>. SUFFICES ASSUME NEW q \in Processes, builds'[q] # Quiet PROVE Along(builds[q])'
      BY DEF RowGoesAlong
    <2>1. CASE q = p
      BY <1>1, <1>3, <1>4, <1>5, <1>6, <1>7, <2>1 DEF Along
    <2>2. CASE q # p
      BY <1>1, <1>5, <1>6, <1>7, <1>9, <1>11, <2>2, OthersGoAlong
    <2>. QED BY <2>1, <2>2
  <1>15. PathsHaveNoRow'
    <2>1. \A q \in Processes : prune[q].paths \subseteq Jobs
      BY Typed DEF HistoryInv, Loops
    <2>2. \A q \in Processes, j \in Jobs : j \in prune[q].paths => j <= made' /\ jobs'[j] = NoRow
      BY <1>1, <1>2, <1>5 DEF HistoryInv, PathsHaveNoRow, Jobs, job
    <2>. QED BY <1>1, <2>1, <2>2 DEF HistoryInv, PathsHaveNoRow
  <1>16. LeftIsYoung'
    <2>. SUFFICES ASSUME NEW q \in Processes, prune[q].ok PROVE Young(prune[q])'
      BY <1>1 DEF LeftIsYoung
    <2>1. Young(prune[q]) /\ prune[q] \in Loops /\ now \in Nat /\ Retention \in Nat
      BY Typed, HistoryAssumption DEF HistoryInv, LeftIsYoung, HistoryTypeOK
    <2>2. prune[q].wake \in Nat
      BY <2>1 DEF Loops
    <2>. QED BY <1>1, <1>3, <1>5, <2>1, <2>2 DEF Young, Exists
  <1>17. RowsAreTrue'
    <2>. SUFFICES ASSUME NEW j \in Jobs
                  PROVE  /\ jobs'[j].status \in {"succeeded", "failed"} => truth'[j] = jobs'[j].status
                         /\ jobs'[j].status = "running" => Going(j)' \/ j \in cut'
                         /\ jobs'[j].status = "abandoned" =>
                              \/ j \in cut'
                              \/ \E q \in Processes : builds'[q].job = j /\ starts' > 1
      BY DEF RowsAreTrue, Jobs
    <2>1. CASE j = job
      BY <1>3, <1>4, <1>5, <1>7, <2>1 DEF Going
    <2>2. CASE j # job
      <3>1. \A q \in Processes : builds[q].job = j => builds'[q].job = j
        BY <1>1, <1>7, Blank DEF Jobs
      <3>. QED BY <1>1, <1>5, <1>6, <2>2, <3>1 DEF HistoryInv, RowsAreTrue, Going
    <2>. QED BY <2>1, <2>2
  <1>18. NoneLeftRunning'
    <2>. SUFFICES ASSUME NEW q \in Processes, proc'[q] \in {"ready", "up", "draining"}, NEW j \in 1 .. known[q]
                  PROVE  jobs'[j].status # "running"
      BY <1>1 DEF NoneLeftRunning
    <2>1. known[q] \in Nat /\ known[q] <= made
      BY DEF HistoryInv, HistoryTypeOK, MadeBefore
    <2>2. j \in Jobs /\ j # job
      BY <1>2, <2>1, Typed DEF HistoryInv
    <2>. QED BY <1>1, <1>5, <2>2 DEF HistoryInv, NoneLeftRunning
  <1>19. LogsHaveRows'
    <2>. SUFFICES ASSUME NEW j \in Jobs
                  PROVE  /\ jobs'[j].log => j \in Stored
                         /\ j \in Stored => \/ jobs'[j].log
                                            \/ \E q \in Processes : builds'[q].job = j /\ builds'[q].at = "finish"
                                            \/ \E q \in Processes : j \in prune'[q].paths
                                            \/ j \in cut' \cup unlinked'
      BY <1>9 DEF LogsHaveRows, Jobs
    <2>1. CASE j = job
      BY <1>3, <1>5, <1>9, <2>1
    <2>2. CASE j # job
      <3>1. \A q \in Processes : builds[q].at = "finish" => builds'[q] = builds[q]
        BY <1>1, <1>7, Blank
      <3>. QED BY <1>1, <1>5, <2>2, <3>1 DEF HistoryInv, LogsHaveRows
    <2>. QED BY <2>1, <2>2
  <1>. QED BY <1>8, <1>10, <1>12, <1>13, <1>14, <1>15, <1>16, <1>17, <1>18, <1>19 DEF HistoryInv

LEMMA CommandEndsInv ==
  ASSUME HistoryInv, NEW p \in Processes, NEW how \in {"ok", "bad", "nospawn"}, NEW text \in Written,
         CommandEnds(p, how, text)
  PROVE  HistoryInv'
  <1>. DEFINE work == [builds[p] EXCEPT !.at = "log", !.how = how, !.text = text]
              job == builds[p].job
  <1>1. /\ builds[p].at = "run" /\ builds' = [builds EXCEPT ![p] = work]
        /\ truth' = [truth EXCEPT ![job] = Outcome(how)]
        /\ UNCHANGED <<now, starts, proc, prune, made, jobs, audits, logs, cut, unlinked, known>>
    BY DEF CommandEnds, table, Outcome
  <1>2. builds[p] # Quiet /\ builds[p] \in Works /\ job \in Jobs /\ Along(builds[p])
    BY <1>1, Blank, JobIs
  <1>3. work \in Works /\ work.job = job /\ work.at = "log" /\ work.how = how /\ work # Quiet
    BY <1>2 DEF Quiet, Works
  <1>4. Outcome(how) \in {"succeeded", "failed"}
    BY DEF Outcome
  <1>. HIDE DEF work
  <1>5. /\ builds' \in [Processes -> Works] /\ builds'[p] = work
        /\ \A q \in Processes : q # p => builds'[q] = builds[q]
        /\ WorkIsApart'
    BY <1>1, <1>2, <1>3, WorkMoves
  <1>6. /\ truth' \in [Jobs -> {"none", "going", "succeeded", "failed", "lost"}] /\ truth'[job] = Outcome(how)
        /\ \A j \in Jobs : j # job => truth'[j] = truth[j]
    BY <1>1, <1>2, <1>4 DEF HistoryInv, HistoryTypeOK
  <1>7. HistoryTypeOK'
    BY <1>1, <1>5, <1>6 DEF HistoryInv, HistoryTypeOK
  <1>8. (MadeBefore /\ StartsAreCounted /\ PathsHaveNoRow /\ NoneLeftRunning)'
    BY <1>1, StoredStays DEF HistoryInv, MadeBefore, StartsAreCounted, PathsHaveNoRow,
       NoneLeftRunning, Lives
  <1>9. LeftIsYoung'
    BY <1>1, YoungStays DEF HistoryInv, LeftIsYoung
  <1>10. RowGoesAlong'
    <2>. SUFFICES ASSUME NEW q \in Processes, builds'[q] # Quiet PROVE Along(builds[q])'
      BY DEF RowGoesAlong
    <2>1. CASE q = p
      BY <1>1, <1>2, <1>3, <1>5, <1>6, <2>1 DEF Along, Outcome
    <2>2. CASE q # p
      <3>1. builds'[q] = builds[q] /\ builds[q] # Quiet
        BY <1>5, <2>2
      <3>2. builds[q].job \in Jobs /\ builds[q].job # job
        BY <2>2, <3>1, JobIs, JobsApart
      <3>. QED BY <1>1, <1>6, <3>1, <3>2, OthersGoAlong, StoredStays
    <2>. QED BY <2>1, <2>2
  <1>11. RowsAreTrue'
    <2>1. jobs[job].status \in {"running", "abandoned"}
      BY <1>1, <1>2 DEF Along
    <2>2. \A q \in Processes : builds'[q].job = builds[q].job
      BY <1>3, <1>5
    <2>. QED BY <1>1, <1>6, <2>1, <2>2 DEF HistoryInv, RowsAreTrue, Going, Jobs
  <1>12. LogsHaveRows'
    <2>1. \A q \in Processes : builds[q].at = "finish" => builds'[q] = builds[q]
      BY <1>1, <1>5
    <2>. QED BY <1>1, <2>1, StoredStays DEF HistoryInv, LogsHaveRows
  <1>. QED BY <1>5, <1>7, <1>8, <1>9, <1>10, <1>11, <1>12 DEF HistoryInv

LEMMA WriteLogInv == ASSUME HistoryInv, NEW p \in Processes, WriteLog(p) PROVE HistoryInv'
  <1>. DEFINE work == [builds[p] EXCEPT !.at = "finish"]
              job == builds[p].job
  <1>1. /\ builds[p].at = "log" /\ builds' = [builds EXCEPT ![p] = work]
        /\ UNCHANGED <<now, starts, proc, prune, made, jobs, audits, truth, cut, unlinked, known>>
    BY DEF WriteLog, table, past
  <1>2. builds[p] # Quiet /\ builds[p] \in Works /\ job \in Jobs /\ job \in 1 .. made /\ Along(builds[p])
    BY <1>1, Blank, JobIs
  <1>3. Stored' = Stored \cup {job}
    <2>1. \E f : f.job = job /\ logs' = logs \cup {f}
      <3>. DEFINE f == [job |-> job, text |-> builds[p].text, nth |-> 1 + Max({0} \cup {g.nth : g \in logs})]
      <3>1. f.job = job
        OBVIOUS
      <3>2. logs' = logs \cup {f}
        BY DEF WriteLog
      <3>. QED BY <3>1, <3>2
    <2>2. PICK f : f.job = job /\ logs' = logs \cup {f}
      BY <2>1
    <2>3. \A j : j \in Stored' <=> j \in Stored \/ j = job
      BY <2>2 DEF Stored
    <2>. QED BY <2>3
  <1>4. work \in Works /\ work.job = job /\ work.at = "finish" /\ work.how = builds[p].how /\ work # Quiet
    BY <1>2 DEF Quiet, Works
  <1>. HIDE DEF work
  <1>5. /\ builds' \in [Processes -> Works] /\ builds'[p] = work
        /\ \A q \in Processes : q # p => builds'[q] = builds[q]
        /\ WorkIsApart'
    BY <1>1, <1>2, <1>4, WorkMoves
  <1>6. HistoryTypeOK'
    BY <1>1, <1>5 DEF HistoryInv, HistoryTypeOK
  <1>7. (MadeBefore /\ StartsAreCounted /\ PathsHaveNoRow /\ NoneLeftRunning)'
    BY <1>1, <1>2, <1>3 DEF HistoryInv, MadeBefore, StartsAreCounted, PathsHaveNoRow,
       NoneLeftRunning, Lives
  <1>8. LeftIsYoung'
    BY <1>1, YoungStays DEF HistoryInv, LeftIsYoung
  <1>9. RowGoesAlong'
    <2>. SUFFICES ASSUME NEW q \in Processes, builds'[q] # Quiet PROVE Along(builds[q])'
      BY DEF RowGoesAlong
    <2>1. CASE q = p
      BY <1>1, <1>2, <1>3, <1>4, <1>5, <2>1 DEF Along, Outcome
    <2>2. CASE q # p
      BY <1>1, <1>3, <1>5, <2>2, OthersGoAlong
    <2>. QED BY <2>1, <2>2
  <1>10. RowsAreTrue'
    <2>1. \A q \in Processes : builds'[q].job = builds[q].job
      BY <1>4, <1>5
    <2>. QED BY <1>1, <2>1 DEF HistoryInv, RowsAreTrue, Going
  <1>11. LogsHaveRows'
    <2>1. \A q \in Processes : builds[q].at = "finish" => builds'[q] = builds[q]
      BY <1>1, <1>5
    <2>. QED BY <1>1, <1>3, <1>4, <1>5, <2>1 DEF HistoryInv, LogsHaveRows
  <1>. QED BY <1>5, <1>6, <1>7, <1>8, <1>9, <1>10, <1>11 DEF HistoryInv

LEMMA FinishJobInv == ASSUME HistoryInv, NEW p \in Processes, FinishJob(p) PROVE HistoryInv'
  <1>. DEFINE job == builds[p].job
              row == [jobs[job] EXCEPT !.status = Outcome(builds[p].how), !.log = TRUE]
              work == IF builds[p].how = "nospawn" THEN Quiet ELSE [builds[p] EXCEPT !.at = "audit"]
  <1>1. /\ builds[p].at = "finish" /\ builds' = [builds EXCEPT ![p] = work]
        /\ jobs' = [jobs EXCEPT ![job] = IF @ = NoRow THEN @ ELSE row]
        /\ UNCHANGED <<now, starts, proc, prune, made, audits, logs, truth, cut, unlinked, known>>
    BY DEF FinishJob, past, Outcome
  <1>2. builds[p] # Quiet /\ builds[p] \in Works /\ job \in Jobs /\ job \in 1 .. made /\ Along(builds[p])
    BY <1>1, Blank, JobIs
  <1>3. jobs[job] # NoRow /\ ~jobs[job].log /\ jobs[job] \in Rows
    BY <1>1, <1>2, Blank, Typed DEF Along, HistoryInv
  <1>4. Outcome(builds[p].how) \in {"succeeded", "failed"}
    BY DEF Outcome
  <1>5. row \in Rows /\ row.status = Outcome(builds[p].how) /\ row.log /\ row.since = jobs[job].since
    BY <1>3, <1>4 DEF Rows
  <1>6. work \in Works /\ (work # Quiet => work.job = job /\ work.at = "audit" /\ work.how = builds[p].how)
    BY <1>2, Blank DEF Works
  <1>. HIDE DEF row, work
  <1>7. jobs' \in [Jobs -> Rows] /\ jobs'[job] = row /\ \A j \in Jobs : j # job => jobs'[j] = jobs[j]
    BY <1>1, <1>2, <1>3, <1>5 DEF HistoryInv, HistoryTypeOK
  <1>8. /\ builds' \in [Processes -> Works] /\ builds'[p] = work
        /\ \A q \in Processes : q # p => builds'[q] = builds[q]
        /\ WorkIsApart'
    <2>1. work # Quiet => work.at # "quiet"
      BY <1>6
    <2>. QED BY <1>1, <1>2, <1>6, <2>1, WorkMoves
  <1>9. HistoryTypeOK'
    BY <1>1, <1>7, <1>8 DEF HistoryInv, HistoryTypeOK
  <1>10. MadeBefore'
    <2>1. \A j \in Jobs : jobs'[j].status = "none" => jobs'[j] = NoRow
      BY <1>4, <1>5, <1>7 DEF HistoryInv, MadeBefore
    <2>. QED BY <1>1, <2>1, StoredStays DEF HistoryInv, MadeBefore
  <1>11. (StartsAreCounted)'
    BY <1>1 DEF HistoryInv, StartsAreCounted, Lives
  <1>12. RowGoesAlong'
    <2>. SUFFICES ASSUME NEW q \in Processes, builds'[q] # Quiet PROVE Along(builds[q])'
      BY DEF RowGoesAlong
    <2>1. CASE q = p
      BY <1>1, <1>2, <1>5, <1>6, <1>7, <1>8, <2>1 DEF Along, Outcome
    <2>2. CASE q # p
      <3>1. builds'[q] = builds[q] /\ builds[q] # Quiet
        BY <1>8, <2>2
      <3>2. builds[q].job \in Jobs /\ builds[q].job # job
        BY <2>2, <3>1, JobIs, JobsApart
      <3>. QED BY <1>1, <1>7, <3>1, <3>2, OthersGoAlong, StoredStays
    <2>. QED BY <2>1, <2>2
  <1>13. PathsHaveNoRow'
    <2>1. \A q \in Processes : prune[q].paths \subseteq Jobs
      BY Typed DEF HistoryInv, Loops
    <2>2. \A q \in Processes, j \in Jobs : j \in prune[q].paths => jobs'[j] = NoRow
      BY <1>3, <1>7 DEF HistoryInv, PathsHaveNoRow
    <2>. QED BY <1>1, <2>1, <2>2 DEF HistoryInv, PathsHaveNoRow
  <1>14. LeftIsYoung'
    <2>. SUFFICES ASSUME NEW q \in Processes, prune[q].ok PROVE Young(prune[q])'
      BY <1>1 DEF LeftIsYoung
    <2>. QED BY <1>1, <1>3, <1>5, <1>7 DEF HistoryInv, LeftIsYoung, Young, Exists
  <1>15. RowsAreTrue'
    <2>. SUFFICES ASSUME NEW j \in Jobs
                  PROVE  /\ jobs'[j].status \in {"succeeded", "failed"} => truth[j] = jobs'[j].status
                         /\ jobs'[j].status = "running" => Going(j)' \/ j \in cut
                         /\ jobs'[j].status = "abandoned" =>
                              \/ j \in cut
                              \/ \E q \in Processes : builds'[q].job = j /\ starts > 1
      BY <1>1 DEF RowsAreTrue, Jobs
    <2>1. CASE j = job
      BY <1>1, <1>2, <1>4, <1>5, <1>7, <2>1 DEF Along
    <2>2. CASE j # job
      <3>1. \A q \in Processes : builds[q].job = j => builds'[q].job = j
        BY <1>8, <2>2
      <3>. QED BY <1>7, <2>2, <3>1 DEF HistoryInv, RowsAreTrue, Going
    <2>. QED BY <2>1, <2>2
  <1>16. NoneLeftRunning'
    <2>. SUFFICES ASSUME NEW q \in Processes, proc'[q] \in {"ready", "up", "draining"}, NEW j \in 1 .. known[q]
                  PROVE  jobs'[j].status # "running"
      BY <1>1 DEF NoneLeftRunning
    <2>1. j \in Jobs
      BY Typed DEF HistoryInv
    <2>. QED BY <1>1, <1>4, <1>5, <1>7, <2>1 DEF HistoryInv, NoneLeftRunning
  <1>17. LogsHaveRows'
    <2>. SUFFICES ASSUME NEW j \in Jobs
                  PROVE  /\ jobs'[j].log => j \in Stored
                         /\ j \in Stored => \/ jobs'[j].log
                                            \/ \E q \in Processes : builds'[q].job = j /\ builds'[q].at = "finish"
                                            \/ \E q \in Processes : j \in prune[q].paths
                                            \/ j \in cut \cup unlinked
      BY <1>1, StoredStays DEF LogsHaveRows, Jobs
    <2>1. CASE j = job
      BY <1>1, <1>2, <1>5, <1>7, <2>1 DEF Along
    <2>2. CASE j # job
      <3>1. \A q \in Processes : builds[q].job = j => builds'[q] = builds[q]
        BY <1>8, <2>2
      <3>. QED BY <1>7, <2>2, <3>1 DEF HistoryInv, LogsHaveRows
    <2>. QED BY <2>1, <2>2
  <1>. QED BY <1>8, <1>9, <1>10, <1>11, <1>12, <1>13, <1>14, <1>15, <1>16, <1>17 DEF HistoryInv

LEMMA RecordAuditInv == ASSUME HistoryInv, NEW p \in Processes, RecordAudit(p) PROVE HistoryInv'
  <1>. DEFINE job == builds[p].job
  <1>1. /\ builds[p].at = "audit" /\ builds' = [builds EXCEPT ![p] = Quiet] /\ audits' = [audits EXCEPT ![job] = now]
        /\ UNCHANGED <<now, starts, proc, prune, made, jobs, logs, truth, cut, unlinked, known>>
    BY DEF RecordAudit, past
  <1>2. builds[p] # Quiet /\ job \in Jobs /\ Along(builds[p])
    BY <1>1, Blank, JobIs
  <1>3. audits' \in [Jobs -> Int]
    <2>1. audits \in [Jobs -> Int] /\ now \in Int
      BY DEF HistoryInv, HistoryTypeOK
    <2>. QED BY <1>1, <1>2, <2>1
  <1>4. /\ builds' \in [Processes -> Works] /\ builds'[p] = Quiet
        /\ \A q \in Processes : q # p => builds'[q] = builds[q]
        /\ WorkIsApart'
    BY <1>1, Blank, WorkMoves
  <1>5. HistoryTypeOK'
    BY <1>1, <1>3, <1>4 DEF HistoryInv, HistoryTypeOK
  <1>6. (MadeBefore /\ StartsAreCounted /\ PathsHaveNoRow /\ NoneLeftRunning)'
    BY <1>1, StoredStays DEF HistoryInv, MadeBefore, StartsAreCounted, PathsHaveNoRow,
       NoneLeftRunning, Lives
  <1>7. LeftIsYoung'
    BY <1>1, YoungStays DEF HistoryInv, LeftIsYoung
  <1>8. RowGoesAlong'
    <2>. SUFFICES ASSUME NEW q \in Processes, builds'[q] # Quiet PROVE Along(builds[q])'
      BY DEF RowGoesAlong
    <2>. QED BY <1>1, <1>4, OthersGoAlong, StoredStays
  <1>9. RowsAreTrue'
    <2>1. jobs[job].status \in {"succeeded", "failed"}
      BY <1>1, <1>2 DEF Along, Outcome
    <2>2. \A q \in Processes : builds[q].job # job => builds'[q].job = builds[q].job
      BY <1>4
    <2>. QED BY <1>1, <2>1, <2>2 DEF HistoryInv, RowsAreTrue, Going
  <1>10. LogsHaveRows'
    <2>1. \A q \in Processes : builds[q].at = "finish" => builds'[q] = builds[q]
      BY <1>1, <1>4
    <2>. QED BY <1>1, <2>1, StoredStays DEF HistoryInv, LogsHaveRows
  <1>. QED BY <1>4, <1>5, <1>6, <1>7, <1>8, <1>9, <1>10 DEF HistoryInv

-----------------------------------------------------------------------------
(* The maintenance loop. *)

LEMMA PruneInv ==
  ASSUME HistoryInv, NEW p \in Processes, Prune(p)
  PROVE  HistoryInv' /\ \A j \in Jobs : jobs'[j] = jobs[j] \/ (now - jobs[j].since > Retention /\ jobs'[j] = NoRow)
  <1>1. /\ Lives(p) /\ prune[p].paths = {}
        /\ jobs' = [j \in Jobs |-> IF Old(jobs[j].since) THEN NoRow ELSE jobs[j]]
        /\ UNCHANGED <<now, starts, proc, builds, made, logs, truth, cut, unlinked, known>>
    BY DEF Prune, Due, past
  <1>2. now \in Nat /\ Retention \in Nat /\ \A j \in Jobs : jobs[j].since \in Nat
    BY Typed, HistoryAssumption DEF HistoryInv, HistoryTypeOK, Rows
  <1>3. \A j \in Jobs : \/ jobs'[j] = jobs[j] /\ now - jobs[j].since <= Retention
                        \/ jobs'[j] = NoRow /\ now - jobs[j].since > Retention
    BY <1>1, <1>2 DEF Old
  <1>4. jobs' \in [Jobs -> Rows]
    BY <1>1, Blank, Typed DEF HistoryInv
  <1>5. audits' \in [Jobs -> Int]
    <2>1. audits' = [j \in Jobs |-> IF Old(audits[j]) THEN Never ELSE audits[j]]
      BY DEF Prune
    <2>. QED BY <2>1 DEF HistoryInv, HistoryTypeOK, Never
  <1>6. OldLogs \subseteq Jobs /\ \A j \in OldLogs : jobs[j] # NoRow /\ jobs[j].log /\ jobs'[j] = NoRow
    BY <1>1 DEF OldLogs, Exists
  <1>7. \A j \in Jobs : jobs[j].log /\ jobs'[j] # jobs[j] => j \in OldLogs
    BY <1>1, Blank DEF OldLogs, Exists
  <1>. DEFINE loop == IF OldLogs = {} THEN [paths |-> {}, wake |-> now + 1, ok |-> TRUE]
                      ELSE [prune[p] EXCEPT !.paths = OldLogs, !.ok = TRUE]
  <1>8. loop \in Loops /\ loop.paths = OldLogs /\ loop.ok /\ (OldLogs = {} => loop.wake = now + 1)
    <2>1. prune[p] \in Loops
      BY Typed DEF HistoryInv
    <2>2. CASE OldLogs = {}
      BY <1>2, <2>2 DEF Loops
    <2>3. CASE OldLogs # {}
      BY <1>6, <2>1, <2>3 DEF Loops
    <2>. QED BY <2>2, <2>3
  <1>9. prune' = [prune EXCEPT ![p] = loop]
    BY DEF Prune, Sleeps, HistoryInv, HistoryTypeOK
  <1>. HIDE DEF loop
  <1>10. prune' \in [Processes -> Loops] /\ prune'[p] = loop /\ \A q \in Processes : q # p => prune'[q] = prune[q]
    BY <1>8, <1>9 DEF HistoryInv, HistoryTypeOK
  <1>11. HistoryTypeOK'
    BY <1>1, <1>4, <1>5, <1>10 DEF HistoryInv, HistoryTypeOK, Prune
  <1>12. MadeBefore'
    <2>1. \A j \in Jobs : jobs'[j].status = "none" => jobs'[j] = NoRow
      BY <1>3, Blank DEF HistoryInv, MadeBefore
    <2>. QED BY <1>1, <2>1, StoredStays DEF HistoryInv, MadeBefore
  <1>13. (WorkIsApart /\ StartsAreCounted)'
    BY <1>1 DEF HistoryInv, WorkIsApart, StartsAreCounted, Lives
  <1>14. \A q \in Processes : builds[q] # Quiet => jobs'[builds[q].job] = jobs[builds[q].job]
    BY <1>2, <1>3, JobIs DEF Along
  <1>15. RowGoesAlong'
    <2>. SUFFICES ASSUME NEW q \in Processes, builds'[q] # Quiet PROVE Along(builds[q])'
      BY DEF RowGoesAlong
    <2>. QED BY <1>1, <1>14, OthersGoAlong, StoredStays
  <1>16. PathsHaveNoRow'
    <2>. SUFFICES ASSUME NEW q \in Processes
                  PROVE  /\ proc'[q] = "down" => prune'[q].paths = {} /\ ~prune'[q].ok
                         /\ prune'[q].paths # {} => prune'[q].ok
                         /\ \A j \in prune'[q].paths : j <= made' /\ jobs'[j] = NoRow
      BY DEF PathsHaveNoRow
    <2>1. CASE q = p
      <3>1. \A j \in OldLogs : j \in Stored /\ j <= made
        BY <1>2, <1>6 DEF HistoryInv, HistoryTypeOK, MadeBefore, LogsHaveRows, Jobs
      <3>. QED BY <1>1, <1>6, <1>8, <1>10, <2>1, <3>1 DEF Lives
    <2>2. CASE q # p
      <3>1. prune[q].paths \subseteq Jobs
        BY Typed DEF HistoryInv, Loops
      <3>. QED BY <1>1, <1>3, <1>10, <2>2, <3>1 DEF HistoryInv, PathsHaveNoRow
    <2>. QED BY <2>1, <2>2
  <1>17. LeftIsYoung'
    <2>. SUFFICES ASSUME NEW q \in Processes, prune'[q].ok PROVE Young(prune[q])'
      BY DEF LeftIsYoung
    <2>1. \A j \in Jobs : Exists(j)' => jobs'[j] = jobs[j] /\ Exists(j) /\ now - jobs[j].since <= Retention
      BY <1>3 DEF Exists
    <2>2. CASE q = p
      BY <1>1, <1>2, <1>8, <1>10, <2>1, <2>2 DEF Young
    <2>3. CASE q # p
      <3>1. prune'[q] = prune[q] /\ Young(prune[q])
        BY <1>10, <2>3 DEF HistoryInv, LeftIsYoung
      <3>. QED BY <1>1, <2>1, <3>1 DEF Young
    <2>. QED BY <2>2, <2>3
  <1>18. RowsAreTrue'
    <2>. SUFFICES ASSUME NEW j \in Jobs
                  PROVE  /\ jobs'[j].status \in {"succeeded", "failed"} => truth[j] = jobs'[j].status
                         /\ jobs'[j].status = "running" => Going(j) \/ j \in cut
                         /\ jobs'[j].status = "abandoned" =>
                              \/ j \in cut
                              \/ \E q \in Processes : builds[q].job = j /\ starts > 1
      BY <1>1 DEF RowsAreTrue, Jobs, Going
    <2>. QED BY <1>3, Blank DEF HistoryInv, RowsAreTrue
  <1>19. NoneLeftRunning'
    <2>. SUFFICES ASSUME NEW q \in Processes, proc'[q] \in {"ready", "up", "draining"}, NEW j \in 1 .. known[q]
                  PROVE  jobs'[j].status # "running"
      BY <1>1 DEF NoneLeftRunning
    <2>1. j \in Jobs
      BY Typed DEF HistoryInv
    <2>. QED BY <1>1, <1>3, <2>1, Blank DEF HistoryInv, NoneLeftRunning
  <1>20. LogsHaveRows'
    <2>. SUFFICES ASSUME NEW j \in Jobs
                  PROVE  /\ jobs'[j].log => j \in Stored
                         /\ j \in Stored => \/ jobs'[j].log
                                            \/ \E q \in Processes : builds[q].job = j /\ builds[q].at = "finish"
                                            \/ \E q \in Processes : j \in prune'[q].paths
                                            \/ j \in cut \cup unlinked
      BY <1>1, StoredStays DEF LogsHaveRows, Jobs
    <2>1. jobs'[j].log => jobs[j].log
      BY <1>3, Blank
    <2>2. jobs[j].log => jobs'[j].log \/ j \in prune'[p].paths
      BY <1>7, <1>8, <1>10
    <2>3. \A q \in Processes : prune[q].paths \subseteq prune'[q].paths
      BY <1>1, <1>10
    <2>. QED BY <2>1, <2>2, <2>3 DEF HistoryInv, LogsHaveRows
  <1>. QED BY <1>3, <1>11, <1>12, <1>13, <1>15, <1>16, <1>17, <1>18, <1>19, <1>20 DEF HistoryInv

LEMMA UnlinkInv == ASSUME HistoryInv, NEW p \in Processes, Unlink(p) PROVE HistoryInv'
  <1>1. UNCHANGED <<now, starts, proc, builds, made, jobs, audits, truth, cut, unlinked, known>>
    BY DEF Unlink, table, past
  <1>2. PICK j \in prune[p].paths :
             /\ logs' = {f \in logs : f.job \notin {j}}
             /\ prune' = IF prune[p].paths = {j} THEN [prune EXCEPT ![p] = [paths |-> {}, wake |-> now + 1, ok |-> TRUE]]
                         ELSE [prune EXCEPT ![p].paths = @ \ {j}]
    BY DEF Unlink, RemoveLogs, Sleeps
  <1>3. Stored' = Stored \ {j}
    BY <1>2 DEF Stored
  <1>4. prune[p] \in Loops /\ prune[p].ok /\ jobs[j] = NoRow /\ j \in Jobs /\ now \in Nat /\ Lives(p)
        /\ Young(prune[p])
    BY <1>2, Typed DEF HistoryInv, HistoryTypeOK, PathsHaveNoRow, LeftIsYoung, Lives, Loops
  <1>. DEFINE loop == IF prune[p].paths = {j} THEN [paths |-> {}, wake |-> now + 1, ok |-> TRUE]
                      ELSE [prune[p] EXCEPT !.paths = @ \ {j}]
  <1>5. loop \in Loops /\ loop.ok /\ loop.paths = prune[p].paths \ {j} /\ (loop.paths = {} => loop.wake = now + 1)
    BY <1>2, <1>4 DEF Loops
  <1>6. prune' = [prune EXCEPT ![p] = loop]
    BY <1>2 DEF HistoryInv, HistoryTypeOK
  <1>. HIDE DEF loop
  <1>7. prune' \in [Processes -> Loops] /\ prune'[p] = loop /\ \A q \in Processes : q # p => prune'[q] = prune[q]
    BY <1>5, <1>6 DEF HistoryInv, HistoryTypeOK
  <1>8. HistoryTypeOK'
    BY <1>1, <1>7 DEF HistoryInv, HistoryTypeOK
  <1>9. (MadeBefore /\ WorkIsApart /\ StartsAreCounted /\ NoneLeftRunning)'
    BY <1>1, <1>3 DEF HistoryInv, MadeBefore, WorkIsApart, StartsAreCounted, NoneLeftRunning,
       Lives
  <1>10. RowGoesAlong'
    <2>. SUFFICES ASSUME NEW q \in Processes, builds'[q] # Quiet PROVE Along(builds[q])'
      BY DEF RowGoesAlong
    <2>1. builds[q] # Quiet /\ builds'[q] = builds[q] /\ Along(builds[q])
      BY <1>1, JobIs
    <2>2. builds[q].at = "finish" => builds[q].job # j
      BY <1>4, <2>1, Blank DEF Along
    <2>. QED BY <1>1, <1>3, <2>1, <2>2 DEF Along, Outcome
  <1>11. RowsAreTrue'
    BY <1>1, TruthStays DEF HistoryInv, HistoryTypeOK
  <1>12. PathsHaveNoRow'
    BY <1>1, <1>4, <1>5, <1>7 DEF HistoryInv, PathsHaveNoRow, Lives
  <1>13. LeftIsYoung'
    <2>. SUFFICES ASSUME NEW q \in Processes, prune'[q].ok PROVE Young(prune[q])'
      BY DEF LeftIsYoung
    <2>1. CASE q = p
      <3>1. \A k \in Jobs : Exists(k) => now - jobs[k].since <= Retention
        BY <1>2, <1>4 DEF Young
      <3>2. \A k \in Jobs : jobs[k].since \in Nat
        BY Typed DEF HistoryInv, Rows
      <3>. QED BY <1>1, <1>4, <1>5, <1>7, <2>1, <3>1, <3>2, HistoryAssumption DEF Young, Exists
    <2>2. CASE q # p
      BY <1>1, <1>7, <2>2, YoungStays DEF HistoryInv, LeftIsYoung, Young, Exists
    <2>. QED BY <2>1, <2>2
  <1>14. LogsHaveRows'
    <2>1. ~jobs[j].log
      BY <1>4, Blank
    <2>2. \A k \in Jobs : \A q \in Processes : k # j /\ k \in prune[q].paths => k \in prune'[q].paths
      BY <1>5, <1>7
    <2>. QED BY <1>1, <1>3, <2>1, <2>2 DEF HistoryInv, LogsHaveRows
  <1>. QED BY <1>8, <1>9, <1>10, <1>11, <1>12, <1>13, <1>14 DEF HistoryInv

-----------------------------------------------------------------------------
(* The theorem. *)

LEMMA HistoryInitInv == HistoryInit => HistoryInv
  <1>. SUFFICES ASSUME HistoryInit PROVE HistoryInv
    OBVIOUS
  <1>1. HistoryTypeOK
    BY Blank, HistoryAssumption DEF HistoryInit, HistoryTypeOK, Jobs, Never
  <1>2. Stored = {} /\ cut = {}
    BY DEF HistoryInit, Stored
  <1>3. (MadeBefore /\ WorkIsApart /\ StartsAreCounted /\ RowGoesAlong)
    BY <1>2, Blank DEF HistoryInit, MadeBefore, WorkIsApart, StartsAreCounted, RowGoesAlong,
       Lives
  <1>4. PathsHaveNoRow /\ LeftIsYoung
    BY Blank DEF HistoryInit, PathsHaveNoRow, LeftIsYoung
  <1>5. RowsAreTrue /\ NoneLeftRunning /\ LogsHaveRows
    BY <1>2, Blank DEF HistoryInit, RowsAreTrue, NoneLeftRunning, LogsHaveRows
  <1>. QED BY <1>1, <1>3, <1>4, <1>5 DEF HistoryInv

LEMMA HistoryStep == HistoryInv /\ [HistoryNext]_historyVars => HistoryInv'
  <1>. SUFFICES ASSUME HistoryInv, [HistoryNext]_historyVars PROVE HistoryInv'
    OBVIOUS
  <1>1. ASSUME NEW p \in Processes, Process(p) PROVE HistoryInv'
    BY <1>1, StartInv, AbandonInv, BindInv, ShutdownInv, EndedInv DEF Process
  <1>2. ASSUME NEW p \in Processes, BuildOnce(p) PROVE HistoryInv'
    <2>1. Fails(p) => builds[p] # Quiet
      BY DEF Fails
    <2>. QED BY <1>2, <2>1, CreateInv, CommandEndsInv, WriteLogInv, FinishJobInv, RecordAuditInv, FailsInv DEF BuildOnce
  <1>3. ASSUME NEW p \in Processes, Maintain(p) PROVE HistoryInv'
    BY <1>3, PruneFailsInv, PruneInv, UnlinkInv DEF Maintain
  <1>4. CASE UNCHANGED historyVars
    <2>1. UNCHANGED <<now, starts, proc, builds, prune, made, jobs, audits, logs, truth, cut, unlinked, known>>
      BY <1>4 DEF historyVars, table, past
    <2>2. HistoryTypeOK'
      BY <2>1 DEF HistoryInv, HistoryTypeOK
    <2>3. (MadeBefore /\ WorkIsApart /\ StartsAreCounted /\ PathsHaveNoRow /\ NoneLeftRunning /\ LogsHaveRows)'
      BY <2>1, StoredStays
         DEF HistoryInv, MadeBefore, WorkIsApart, StartsAreCounted, PathsHaveNoRow, NoneLeftRunning, LogsHaveRows, Lives
    <2>4. LeftIsYoung'
      BY <2>1, YoungStays DEF HistoryInv, LeftIsYoung
    <2>5. RowGoesAlong' /\ RowsAreTrue'
      BY <2>1, RowsStay, TruthStays DEF HistoryInv, HistoryTypeOK
    <2>. QED BY <2>2, <2>3, <2>4, <2>5 DEF HistoryInv
  <1>. QED BY <1>1, <1>2, <1>3, <1>4, TickInv DEF HistoryNext

\* Rows go by age only.
LEMMA RowsLeave ==
  ASSUME HistoryInv, [HistoryNext]_historyVars, NEW j \in Jobs, Exists(j), ~Exists(j)'
  PROVE  now - jobs[j].since > Retention
  <1>1. jobs'[j] # jobs[j]
    BY DEF Exists
  <1>2. jobs # jobs'
    BY <1>1
  <1>3. jobs[j] \in Rows /\ jobs[j].status # "none"
    BY Typed DEF HistoryInv, MadeBefore, Exists
  <1>4. ASSUME NEW p \in Processes, Abandon(p) PROVE FALSE
    <2>1. jobs'[j] = IF jobs[j].status = "running" THEN [jobs[j] EXCEPT !.status = "abandoned"] ELSE jobs[j]
      BY <1>4 DEF Abandon
    <2>2. jobs'[j].status = "abandoned"
      BY <1>1, <1>3, <2>1 DEF Rows
    <2>. QED BY <2>2, Blank DEF Exists
  <1>5. ASSUME NEW p \in Processes, Create(p) PROVE FALSE
    <2>1. jobs \in [Jobs -> Rows] /\ jobs' = [jobs EXCEPT ![made'] = [status |-> "running", log |-> FALSE, since |-> now]]
      BY <1>5 DEF Create, HistoryInv, HistoryTypeOK
    <2>2. jobs'[j].status = "running"
      BY <1>1, <2>1
    <2>. QED BY <2>2, Blank DEF Exists
  <1>6. ASSUME NEW p \in Processes, FinishJob(p) PROVE FALSE
    <2>1. jobs \in [Jobs -> Rows]
          /\ jobs' = [jobs EXCEPT ![builds[p].job] =
                        IF @ = NoRow THEN @ ELSE [@ EXCEPT !.status = Outcome(builds[p].how), !.log = TRUE]]
      BY <1>6 DEF FinishJob, HistoryInv, HistoryTypeOK, Outcome
    <2>2. jobs'[j] = [jobs[j] EXCEPT !.status = Outcome(builds[p].how), !.log = TRUE]
      BY <1>1, <2>1
    <2>3. jobs'[j].log
      BY <1>3, <2>2 DEF Rows
    <2>. QED BY <2>3, Blank DEF Exists
  <1>7. ASSUME NEW p \in Processes, Prune(p) PROVE now - jobs[j].since > Retention
    BY <1>1, <1>7, PruneInv
  <1>8. PICK p \in Processes : Abandon(p) \/ Create(p) \/ FinishJob(p) \/ Prune(p)
    <2>1. ~ UNCHANGED historyVars /\ ~Tick
      BY <1>2 DEF historyVars, table, Tick
    <2>2. PICK p \in Processes : Process(p) \/ BuildOnce(p) \/ Maintain(p)
      BY <2>1 DEF HistoryNext
    <2>3. Process(p) => Abandon(p)
      BY <1>2 DEF Process, Start, Bind, Shutdown, Ended, table
    <2>4. BuildOnce(p) => Create(p) \/ FinishJob(p)
      BY <1>2 DEF BuildOnce, CommandEnds, WriteLog, RecordAudit, Fails, table
    <2>5. Maintain(p) => Prune(p)
      BY <1>2 DEF Maintain, PruneFails, Unlink, table
    <2>. QED BY <2>2, <2>3, <2>4, <2>5
  <1>. QED BY <1>4, <1>5, <1>6, <1>7, <1>8

LEMMA RowsKept == HistoryInv /\ [HistoryNext]_historyVars => RowsAreKept
  <1>. SUFFICES ASSUME HistoryInv, [HistoryNext]_historyVars, NEW j \in Jobs
                PROVE  /\ Exists(j) => \A p \in Processes : Lives(p) /\ prune[p].ok => now - jobs[j].since <= Retention + 1
                       /\ Exists(j) /\ ~Exists(j)' => now - jobs[j].since > Retention
    BY DEF RowsAreKept
  <1>1. ASSUME Exists(j), NEW p \in Processes, prune[p].ok PROVE now - jobs[j].since <= Retention + 1
    <2>1. now \in Nat /\ jobs[j].since \in Nat /\ Retention \in Nat /\ prune[p].wake \in Nat
      BY Typed, HistoryAssumption DEF HistoryInv, HistoryTypeOK, Rows, Loops
    <2>. QED BY <1>1, <2>1 DEF HistoryInv, LeftIsYoung, Young
  <1>. QED BY <1>1, RowsLeave

LEMMA AnswersBacked == HistoryInv /\ [HistoryNext]_historyVars => AnswersAreBacked
  <1>. SUFFICES ASSUME HistoryInv, [HistoryNext]_historyVars, NEW p \in Processes,
                       builds[p].at = "audit", builds[p].how = "ok", audits' # audits, builds'[p] = Quiet
                PROVE  /\ jobs'[builds[p].job].status = "succeeded" /\ builds[p].job \in Stored'
                       /\ audits'[builds[p].job] = now
    BY DEF AnswersAreBacked
  <1>1. builds[p] # Quiet /\ builds[p].job \in Jobs /\ Along(builds[p])
    BY Blank, JobIs
  <1>2. RecordAudit(p)
    <2>1. ~ UNCHANGED historyVars /\ ~Tick
      BY DEF historyVars, table, Tick
    <2>2. PICK q \in Processes : Process(q) \/ BuildOnce(q) \/ Maintain(q)
      BY <2>1 DEF HistoryNext
    <2>3. ~Process(q)
      BY DEF Process, Start, Abandon, Bind, Shutdown, Ended, table
    <2>4. ~Maintain(q)
      BY <1>1 DEF Maintain, PruneFails, Prune, Unlink, table
    <2>5. BuildOnce(q) => RecordAudit(q)
      BY DEF BuildOnce, Create, CommandEnds, WriteLog, FinishJob, Fails, table
    <2>6. builds \in [Processes -> Works]
      BY DEF HistoryInv, HistoryTypeOK
    <2>7. RecordAudit(q) => q = p
      BY <1>1, <2>6 DEF RecordAudit
    <2>. QED BY <2>2, <2>3, <2>4, <2>5, <2>7
  <1>3. UNCHANGED <<jobs, logs>> /\ audits' = [audits EXCEPT ![builds[p].job] = now] /\ audits \in [Jobs -> Int]
    BY <1>2 DEF RecordAudit, HistoryInv, HistoryTypeOK
  <1>4. jobs[builds[p].job].status = "succeeded" /\ jobs[builds[p].job].log
    BY <1>1 DEF Along, Outcome
  <1>. QED BY <1>1, <1>3, <1>4, StoredStays DEF HistoryInv, LogsHaveRows, Jobs

\* The invariant that what is kept of builds rests on (HistoryInv).
THEOREM HistoryInvariant == HistorySpec => []HistoryInv
  <1>. QED BY HistoryInitInv, HistoryStep, PTL DEF HistorySpec

\* What union keeps of a build is true: its row, its log and its record agree with what came
\* of it, through processes that overlap, failures, crashes and the maintenance loop
\* (build_blog_once, abandon_running_jobs, prune_operational_history, maintenance_loop).
THEOREM HistoryTrue == HistorySpec => HistoryIsTrue
  <1>1. HistoryInv /\ HistoryInv' /\ [HistoryNext]_historyVars
        => RowsAreTrue' /\ NoneLeftRunning' /\ LogsHaveRows' /\ RowsAreKept /\ AnswersAreBacked
    BY RowsKept, AnswersBacked DEF HistoryInv
  <1>. QED BY <1>1, HistoryInvariant, PTL DEF HistorySpec, HistoryIsTrue

-----------------------------------------------------------------------------
(* TailIsShown of BuildHistory, for any texts: the lines are those of str::lines read      *)
(* character by character, and a text read from the middle on has the lines of the whole   *)
(* text but for the first.                                                                 *)

HIDE BlogAssumption

LEMMA LeastOf ==
  ASSUME NEW T, T \subseteq Nat, T # {}
  PROVE  \E x \in T : \A y \in T : x <= y
  <1>1. PICK x \in T : \A y \in T : ~ (<<y, x>> \in OpToRel(<, Nat))
    <2>. HIDE DEF OpToRel
    <2>. QED BY NatLessThanWellFounded, WFMin
  <1>2. \A y \in T : ~ (y < x)
    BY <1>1 DEF OpToRel
  <1>. QED BY <1>2

\* Induction over the numbers up to m, as a fact about a set.
LEMMA UpTo ==
  ASSUME NEW m \in Nat, NEW A, 0 \in A, \A k \in 0 .. m - 1 : k \in A => k + 1 \in A
  PROVE  0 .. m \subseteq A
  <1>. SUFFICES ASSUME (0 .. m) \ A # {} PROVE FALSE
    OBVIOUS
  <1>1. PICK x \in (0 .. m) \ A : \A y \in (0 .. m) \ A : x <= y
    <2>. DEFINE T == (0 .. m) \ A
    <2>1. T \subseteq Nat
      OBVIOUS
    <2>. HIDE DEF T
    <2>2. T # {} => \E x \in T : \A y \in T : x <= y
      BY <2>1, LeastOf
    <2>. QED BY <2>2 DEF T
  <1>2. x # 0 /\ x - 1 \in 0 .. m - 1 /\ x - 1 \in A
    BY <1>1
  <1>. QED BY <1>1, <1>2

\* One character more, and the lines after i characters.
Line == Seq(Characters)
Extend(lines, c) == IF c = "n" THEN Append(lines, <<>>) ELSE [lines EXCEPT ![Len(lines)] = Append(@, c)]
Reads(text, g, m) == g = [i \in 0 .. m |-> IF i = 0 THEN << <<>> >> ELSE Extend(g[i - 1], text[i])]
LinesUpTo(text) == CHOOSE g : Reads(text, g, Len(text))

LEMMA LinesAre ==
  ASSUME NEW text
  PROVE  LET all == LinesUpTo(text)[Len(text)]
         IN Lines(text) = IF Last(all) = <<>> THEN Front(all) ELSE all
  BY DEF Lines, LinesUpTo, Reads, Extend

LEMMA ReadsThrough ==
  ASSUME NEW text \in Line
  PROVE  Reads(text, LinesUpTo(text), Len(text))
  <1>. DEFINE A == {m \in Nat : \E g : Reads(text, g, m)}
  <1>1. 0 \in A
    <2>1. Reads(text, [i \in 0 .. 0 |-> << <<>> >>], 0)
      BY DEF Reads
    <2>. QED BY <2>1
  <1>2. ASSUME NEW k \in Nat, k \in A PROVE k + 1 \in A
    <2>1. PICK g : Reads(text, g, k)
      BY <1>2
    <2>. DEFINE h == [i \in 0 .. k + 1 |-> IF i <= k THEN g[i] ELSE Extend(g[k], text[k + 1])]
    <2>2. ASSUME NEW i \in 0 .. k + 1
          PROVE  h[i] = IF i = 0 THEN << <<>> >> ELSE Extend(h[i - 1], text[i])
      <3>1. CASE i = 0
        BY <2>1, <3>1 DEF Reads
      <3>2. CASE i # 0 /\ i <= k
        <4>1. i - 1 \in 0 .. k /\ i \in 0 .. k /\ h[i - 1] = g[i - 1] /\ h[i] = g[i]
          BY <3>2
        <4>2. g[i] = Extend(g[i - 1], text[i])
          BY <2>1, <3>2, <4>1 DEF Reads
        <4>. QED BY <3>2, <4>1, <4>2
      <3>3. CASE i = k + 1
        <4>1. i - 1 = k /\ h[i - 1] = g[k] /\ h[i] = Extend(g[k], text[k + 1])
          BY <3>3
        <4>. HIDE DEF h
        <4>. QED BY <3>3, <4>1
      <3>. QED BY <3>1, <3>2, <3>3
    <2>3. Reads(text, h, k + 1)
      <3>. DEFINE f == [i \in 0 .. k + 1 |-> IF i = 0 THEN << <<>> >> ELSE Extend(h[i - 1], text[i])]
      <3>1. DOMAIN h = 0 .. k + 1 /\ h = [i \in 0 .. k + 1 |-> h[i]]
        OBVIOUS
      <3>. HIDE DEF h
      <3>2. h = f
        BY <2>2, <3>1
      <3>. QED BY <3>2 DEF Reads
    <2>. QED BY <2>3
  <1>3. Len(text) \in Nat
    BY DEF Line
  <1>4. \A k \in 0 .. Len(text) - 1 : k \in A => k + 1 \in A
    BY <1>2, <1>3
  <1>. HIDE DEF A
  <1>5. 0 .. Len(text) \subseteq A
    BY <1>1, <1>3, <1>4, UpTo
  <1>6. Len(text) \in A
    BY <1>3, <1>5
  <1>. QED BY <1>6 DEF LinesUpTo, A

LEMMA ReadIs ==
  ASSUME NEW lines \in Seq(Line), lines # <<>>, NEW c \in Characters
  PROVE  LET read == Extend(lines, c)
         IN /\ read \in Seq(Line) /\ read # <<>> /\ Len(lines) \in Nat \ {0}
            /\ \A j \in 1 .. Len(lines) - 1 : read[j] = lines[j]
            /\ c = "n" => /\ Len(read) = Len(lines) + 1
                         /\ read[Len(lines)] = lines[Len(lines)]
                         /\ read[Len(lines) + 1] = <<>>
            /\ c # "n" => /\ Len(read) = Len(lines)
                         /\ read[Len(lines)] = Append(lines[Len(lines)], c)
  <1>1. Len(lines) \in Nat \ {0} /\ lines[Len(lines)] \in Line /\ <<>> \in Line
    BY DEF Line
  <1>2. Append(lines[Len(lines)], c) \in Line
    <2>1. \A S : \A l \in Seq(S), d \in S : Append(l, d) \in Seq(S)
      OBVIOUS
    <2>2. \A l \in Line : Append(l, c) \in Line
      BY <2>1 DEF Line
    <2>. QED BY <1>1, <2>2
  <1>. HIDE DEF Line
  <1>3. CASE c = "n"
    BY <1>1, <1>3 DEF Extend
  <1>4. CASE c # "n"
    BY <1>1, <1>2, <1>4 DEF Extend
  <1>. QED BY <1>3, <1>4

\* What is alike from the second line on stays so.
LEMMA ReadAlike ==
  ASSUME NEW some \in Seq(Line), some # <<>>, NEW all \in Seq(Line), all # <<>>, NEW c \in Characters,
         NEW before \in Nat, Len(all) = before + Len(some),
         \A j \in 2 .. Len(some) : all[before + j] = some[j]
  PROVE  /\ Len(Extend(all, c)) = before + Len(Extend(some, c))
         /\ \A j \in 2 .. Len(Extend(some, c)) : Extend(all, c)[before + j] = Extend(some, c)[j]
  <1>. DEFINE H == Extend(some, c)
              G == Extend(all, c)
              h == Len(some)
              g == Len(all)
  <1>1. /\ h \in Nat \ {0} /\ \A j \in 1 .. h - 1 : H[j] = some[j]
        /\ c = "n" => Len(H) = h + 1 /\ H[h] = some[h] /\ H[h + 1] = <<>>
        /\ c # "n" => Len(H) = h /\ H[h] = Append(some[h], c)
    BY ReadIs
  <1>2. /\ g \in Nat \ {0} /\ \A j \in 1 .. g - 1 : G[j] = all[j]
        /\ c = "n" => Len(G) = g + 1 /\ G[g] = all[g] /\ G[g + 1] = <<>>
        /\ c # "n" => Len(G) = g /\ G[g] = Append(all[g], c)
    BY ReadIs
  <1>3. g = before + h /\ \A j \in 2 .. h : all[before + j] = some[j]
    OBVIOUS
  <1>. HIDE DEF G, H, g, h
  <1>4. Len(G) = before + Len(H)
    BY <1>1, <1>2, <1>3
  <1>5. ASSUME NEW j \in 2 .. Len(H) PROVE G[before + j] = H[j]
    <2>1. CASE j < h
      <3>1. /\ j \in 2 .. h /\ j \in 1 .. h - 1 /\ before + j \in 1 .. g - 1
        BY <1>1, <1>2, <1>3, <2>1
      <3>. QED BY <1>1, <1>2, <1>3, <3>1
    <2>2. CASE j = h
      <3>1. j \in 2 .. h /\ before + j = g
        BY <1>1, <1>3, <2>2
      <3>2. all[g] = some[h]
        BY <1>3, <2>2, <3>1
      <3>. QED BY <1>1, <1>2, <2>2, <3>1, <3>2
    <2>3. CASE j > h
      <3>1. c = "n"
        BY <1>1, <2>3
      <3>2. j = h + 1
        BY <1>1, <2>3, <3>1
      <3>3. before + j = g + 1
        BY <1>1, <1>3, <3>2
      <3>. QED BY <1>1, <1>2, <3>1, <3>2, <3>3
    <2>. QED BY <1>1, <2>1, <2>2, <2>3
  <1>. QED BY <1>4, <1>5 DEF G, H

LEMMA AfterIs ==
  ASSUME NEW text \in Line
  PROVE  /\ LinesUpTo(text)[0] = << <<>> >> /\ Len(text) \in Nat
         /\ \A i \in 1 .. Len(text) : LinesUpTo(text)[i] = Extend(LinesUpTo(text)[i - 1], text[i])
         /\ \A i \in 0 .. Len(text) : LinesUpTo(text)[i] \in Seq(Line) /\ LinesUpTo(text)[i] # <<>>
  <1>. DEFINE g == LinesUpTo(text)
              A == {i \in 0 .. Len(text) : g[i] \in Seq(Line) /\ g[i] # <<>>}
  <1>0. Len(text) \in Nat
    BY DEF Line
  <1>1. Reads(text, g, Len(text))
    BY ReadsThrough
  <1>. HIDE DEF g
  <1>2. g[0] = << <<>> >> /\ \A i \in 1 .. Len(text) : g[i] = Extend(g[i - 1], text[i])
    BY <1>0, <1>1 DEF Reads
  <1>3. 0 \in A
    <2>1. <<>> \in Line
      BY DEF Line
    <2>. HIDE DEF Line
    <2>2. << <<>> >> \in Seq(Line) /\ << <<>> >> # <<>>
      BY <2>1
    <2>3. g[0] \in Seq(Line) /\ g[0] # <<>> /\ 0 \in 0 .. Len(text)
      BY <1>0, <1>2, <2>2
    <2>. HIDE DEF g
    <2>. QED BY <2>3
  <1>4. ASSUME NEW k \in 0 .. Len(text) - 1, k \in A PROVE k + 1 \in A
    <2>1. k + 1 \in 1 .. Len(text) /\ (k + 1) - 1 = k
      BY <1>0
    <2>2. g[k + 1] = Extend(g[k], text[k + 1])
      BY <1>2, <2>1
    <2>3. g[k] \in Seq(Line) /\ g[k] # <<>> /\ text[k + 1] \in Characters
      BY <1>4, <2>1 DEF Line
    <2>. HIDE DEF Line
    <2>4. Extend(g[k], text[k + 1]) \in Seq(Line) /\ Extend(g[k], text[k + 1]) # <<>>
      BY <2>3, ReadIs
    <2>. QED BY <1>0, <2>1, <2>2, <2>4
  <1>5. 0 .. Len(text) \subseteq A
    <2>. HIDE DEF A, Line
    <2>. QED BY <1>0, <1>3, <1>4, UpTo
  <1>. QED BY <1>0, <1>2, <1>5 DEF g

\* There is a line more than there are line ends.
LEMMA LinesAreCounted ==
  ASSUME NEW text \in Line
  PROVE  Len(LinesUpTo(text)[Len(text)]) = 1 + Breaks(text) /\ Breaks(text) \in Nat
  <1>. DEFINE g == LinesUpTo(text)
              E(i) == {e \in 1 .. i : text[e] = "n"}
              A == {i \in 0 .. Len(text) : IsFiniteSet(E(i)) /\ Len(g[i]) = 1 + Cardinality(E(i))}
  <1>1. Len(text) \in Nat /\ DOMAIN text = 1 .. Len(text)
    BY DEF Line
  <1>2. 0 \in A
    <2>1. E(0) = {}
      OBVIOUS
    <2>2. g[0] = << <<>> >>
      BY AfterIs
    <2>. HIDE DEF g, E
    <2>3. Len(g[0]) = 1
      BY <2>2
    <2>4. IsFiniteSet(E(0)) /\ Cardinality(E(0)) = 0
      BY <2>1, FS_EmptySet
    <2>5. Len(g[0]) = 1 + Cardinality(E(0)) /\ 0 \in 0 .. Len(text)
      BY <1>1, <2>3, <2>4
    <2>. QED BY <2>4, <2>5
  <1>3. ASSUME NEW k \in 0 .. Len(text) - 1, k \in A PROVE k + 1 \in A
    <2>1. k + 1 \in 1 .. Len(text) /\ (k + 1) - 1 = k /\ k + 1 \in Nat /\ k \in 0 .. Len(text)
      BY <1>1
    <2>2. /\ g[k + 1] = Extend(g[k], text[k + 1]) /\ g[k] \in Seq(Line) /\ g[k] # <<>>
          /\ text[k + 1] \in Characters
      BY <2>1, AfterIs DEF Line
    <2>3. IsFiniteSet(E(k)) /\ Len(g[k]) = 1 + Cardinality(E(k))
      BY <1>3
    <2>. HIDE DEF g
    <2>4. CASE text[k + 1] = "n"
      <3>1. E(k + 1) = E(k) \cup {k + 1} /\ k + 1 \notin E(k)
        BY <2>1, <2>4
      <3>. HIDE DEF E
      <3>2. IsFiniteSet(E(k + 1)) /\ Cardinality(E(k + 1)) = Cardinality(E(k)) + 1
        BY <2>3, <3>1, FS_AddElement
      <3>6. Len(Extend(g[k], text[k + 1])) = Len(g[k]) + 1
        BY <2>2, <2>4, ReadIs
      <3>3. Len(g[k + 1]) = Len(g[k]) + 1
        BY <2>2, <3>6
      <3>4. Cardinality(E(k)) \in Nat
        BY <2>3, FS_CardinalityType
      <3>5. k + 1 \in 0 .. Len(text)
        BY <1>1, <2>1
      <3>. QED BY <2>3, <3>2, <3>3, <3>4, <3>5
    <2>5. CASE text[k + 1] # "n"
      <3>1. E(k + 1) = E(k)
        BY <2>1, <2>5
      <3>. HIDE DEF E
      <3>2. Len(Extend(g[k], text[k + 1])) = Len(g[k])
        BY <2>2, <2>5, ReadIs
      <3>3. Len(g[k + 1]) = Len(g[k])
        BY <2>2, <3>2
      <3>5. k + 1 \in 0 .. Len(text)
        BY <1>1, <2>1
      <3>. QED BY <2>3, <3>1, <3>3, <3>5
    <2>. QED BY <2>4, <2>5
  <1>4. 0 .. Len(text) \subseteq A
    <2>. HIDE DEF A
    <2>. QED BY <1>1, <1>2, <1>3, UpTo
  <1>5. Len(text) \in A
    <2>. HIDE DEF A
    <2>. QED BY <1>1, <1>4
  <1>6. E(Len(text)) = {i \in DOMAIN text : text[i] = "n"}
    BY <1>1
  <1>7. Cardinality(E(Len(text))) = Breaks(text)
    BY <1>6 DEF Breaks
  <1>8. Cardinality(E(Len(text))) \in Nat
    BY <1>5, FS_CardinalityType
  <1>. HIDE DEF E
  <1>. QED BY <1>5, <1>7, <1>8

\* A text that is read from the middle on: all lines but the first are those of the whole text.
LEMMA LinesFromMiddle ==
  ASSUME NEW text \in Line, NEW o \in 0 .. Len(text), NEW rest \in Line,
         Len(rest) = Len(text) - o, \A i \in 1 .. Len(rest) : rest[i] = text[o + i]
  PROVE  LET all == LinesUpTo(text)[Len(text)]
             some == LinesUpTo(rest)[Len(rest)]
             before == Len(LinesUpTo(text)[o]) - 1
         IN /\ before \in Nat /\ Len(all) = before + Len(some)
            /\ \A j \in 2 .. Len(some) : all[before + j] = some[j]
  <1>. DEFINE g == LinesUpTo(text)
              h == LinesUpTo(rest)
              before == Len(g[o]) - 1
              A == {i \in 0 .. Len(rest) : /\ Len(g[o + i]) = before + Len(h[i])
                                          /\ \A j \in 2 .. Len(h[i]) : g[o + i][before + j] = h[i][j]}
  <1>1. Len(rest) = Len(text) - o /\ Len(rest) \in Nat /\ Len(text) \in Nat
    BY DEF Line
  <1>2. /\ \A i \in 1 .. Len(text) : g[i] = Extend(g[i - 1], text[i])
        /\ \A i \in 0 .. Len(text) : g[i] \in Seq(Line) /\ g[i] # <<>>
    BY AfterIs
  <1>3. /\ h[0] = << <<>> >>
        /\ \A i \in 1 .. Len(rest) : h[i] = Extend(h[i - 1], rest[i])
        /\ \A i \in 0 .. Len(rest) : h[i] \in Seq(Line) /\ h[i] # <<>>
    BY <1>1, AfterIs
  <1>. HIDE DEF g, h, Line
  <1>4. before \in Nat /\ Len(g[o]) = before + 1
    BY <1>2
  <1>. HIDE DEF before
  <1>5. 0 \in A
    <2>1. Len(h[0]) = 1 /\ o + 0 = o /\ 0 \in 0 .. Len(rest)
      BY <1>1, <1>3
    <2>2. 2 .. Len(h[0]) = {}
      BY <2>1
    <2>. QED BY <1>4, <2>1, <2>2
  <1>6. ASSUME NEW k \in 0 .. Len(rest) - 1, k \in A PROVE k + 1 \in A
    <2>1. /\ k + 1 \in 1 .. Len(rest) /\ (k + 1) - 1 = k /\ k \in 0 .. Len(rest)
          /\ o + (k + 1) \in 1 .. Len(text) /\ o + (k + 1) - 1 = o + k /\ o + k \in 0 .. Len(text)
          /\ k + 1 \in 0 .. Len(rest) /\ o + (k + 1) \in 0 .. Len(text)
      BY <1>1
    <2>2. /\ g[o + (k + 1)] = Extend(g[o + k], text[o + (k + 1)])
          /\ g[o + k] \in Seq(Line) /\ g[o + k] # <<>>
      <3>. DEFINE x == o + (k + 1)
                  y == o + k
      <3>1. x \in 1 .. Len(text) /\ x - 1 = y /\ y \in 0 .. Len(text)
        BY <2>1
      <3>. HIDE DEF x, y
      <3>2. g[x] = Extend(g[x - 1], text[x])
        BY <1>2, <3>1
      <3>3. g[y] \in Seq(Line) /\ g[y] # <<>>
        BY <1>2, <3>1
      <3>. QED BY <3>1, <3>2, <3>3 DEF x, y
    <2>3. /\ h[k + 1] = Extend(h[k], rest[k + 1])
          /\ h[k] \in Seq(Line) /\ h[k] # <<>>
      BY <1>3, <2>1
    <2>4. text[o + (k + 1)] = rest[k + 1] /\ rest[k + 1] \in Characters
      <3>1. \A i \in 1 .. Len(rest) : rest[i] \in Characters
        BY DEF Line
      <3>2. rest[k + 1] = text[o + (k + 1)]
        BY <2>1
      <3>. QED BY <2>1, <3>1, <3>2
    <2>5. Len(g[o + k]) = before + Len(h[k]) /\ \A j \in 2 .. Len(h[k]) : g[o + k][before + j] = h[k][j]
      BY <1>6
    <2>6. /\ Len(Extend(g[o + k], rest[k + 1])) = before + Len(Extend(h[k], rest[k + 1]))
          /\ \A j \in 2 .. Len(Extend(h[k], rest[k + 1])) :
                Extend(g[o + k], rest[k + 1])[before + j] = Extend(h[k], rest[k + 1])[j]
      <3>. DEFINE G == g[o + k]
                  H == h[k]
                  c == rest[k + 1]
      <3>1. G \in Seq(Line) /\ G # <<>> /\ H \in Seq(Line) /\ H # <<>> /\ c \in Characters
            /\ Len(G) = before + Len(H) /\ \A j \in 2 .. Len(H) : G[before + j] = H[j]
        BY <2>2, <2>3, <2>4, <2>5
      <3>. HIDE DEF G, H, c, before, Line
      <3>2. Len(Extend(G, c)) = before + Len(Extend(H, c))
        BY <1>4, <3>1, ReadAlike
      <3>3. \A j \in 2 .. Len(Extend(H, c)) : Extend(G, c)[before + j] = Extend(H, c)[j]
        BY <1>4, <3>1, ReadAlike
      <3>. QED BY <3>2, <3>3 DEF G, H, c
    <2>. QED BY <2>1, <2>2, <2>3, <2>4, <2>6
  <1>7. 0 .. Len(rest) \subseteq A
    <2>. HIDE DEF A
    <2>. QED BY <1>1, <1>5, <1>6, UpTo
  <1>8. Len(rest) \in A /\ o + Len(rest) = Len(text)
    <2>. HIDE DEF A
    <2>. QED BY <1>1, <1>7
  <1>. QED BY <1>1, <1>4, <1>8 DEF g, h, before

LEMMA LinesOf ==
  ASSUME NEW text \in Line
  PROVE  LET all == LinesUpTo(text)[Len(text)]
             lines == Lines(text)
         IN /\ lines \in Seq(Line) /\ Len(all) \in Nat \ {0}
            /\ Len(lines) = IF all[Len(all)] = <<>> THEN Len(all) - 1 ELSE Len(all)
            /\ \A j \in 1 .. Len(lines) : lines[j] = all[j]
  <1>. DEFINE all == LinesUpTo(text)[Len(text)]
  <1>1. all \in Seq(Line) /\ all # <<>> /\ Len(all) \in Nat \ {0}
    <2>1. Len(text) \in 0 .. Len(text)
      BY AfterIs
    <2>2. all \in Seq(Line) /\ all # <<>>
      BY <2>1, AfterIs
    <2>. HIDE DEF all
    <2>. QED BY <2>2
  <1>2. Lines(text) = IF all[Len(all)] = <<>> THEN SubSeq(all, 1, Len(all) - 1) ELSE all
    BY LinesAre DEF Last, Front
  <1>. HIDE DEF all, Line
  <1>3. /\ SubSeq(all, 1, Len(all) - 1) \in Seq(Line) /\ Len(SubSeq(all, 1, Len(all) - 1)) = Len(all) - 1
        /\ \A j \in 1 .. Len(all) - 1 : SubSeq(all, 1, Len(all) - 1)[j] = all[j]
    <2>. DEFINE m == Len(all) - 1
    <2>1. m \in Nat /\ m <= Len(all)
      BY <1>1
    <2>. HIDE DEF m
    <2>2. SubSeq(all, 1, m) \in Seq(Line) /\ Len(SubSeq(all, 1, m)) = m
      BY <1>1, <2>1
    <2>3. \A j \in 1 .. m : SubSeq(all, 1, m)[j] = all[j]
      BY <1>1, <2>1
    <2>. QED BY <2>2, <2>3 DEF m
  <1>4. /\ Lines(text) \in Seq(Line)
        /\ Len(Lines(text)) = IF all[Len(all)] = <<>> THEN Len(all) - 1 ELSE Len(all)
        /\ \A j \in 1 .. Len(Lines(text)) : Lines(text)[j] = all[j]
    BY <1>1, <1>2, <1>3
  <1>. QED BY <1>1, <1>4 DEF all

LEMMA LastLines ==
  ASSUME NEW lines \in Seq(Line), NEW n \in Nat
  PROVE  LET last == AtMost(lines, n)
         IN /\ last \in Seq(Line)
            /\ Len(last) = IF Len(lines) > n THEN n ELSE Len(lines)
            /\ \A j \in 1 .. Len(last) : last[j] = lines[Len(lines) - Len(last) + j]
  <1>. HIDE DEF Line
  <1>1. Len(lines) \in Nat
    OBVIOUS
  <1>2. CASE Len(lines) > n
    <2>. DEFINE last == SubSeq(lines, Len(lines) - n + 1, Len(lines))
    <2>1. AtMost(lines, n) = last
      BY <1>2 DEF AtMost, LastOf
    <2>2. Len(lines) - n + 1 \in 1 .. Len(lines) + 1
      BY <1>1, <1>2
    <2>3. last \in Seq(Line) /\ Len(last) = n
      BY <1>1, <1>2, <2>2
    <2>4. \A j \in 1 .. n : last[j] = lines[Len(lines) - n + j]
      BY <1>1, <1>2, <2>2
    <2>. HIDE DEF last
    <2>. QED BY <1>2, <2>1, <2>3, <2>4
  <1>3. CASE ~(Len(lines) > n)
    BY <1>1, <1>3 DEF AtMost
  <1>. QED BY <1>2, <1>3

\* tail_lines finds the last lines of a text from its end.
LEMMA TailIs ==
  ASSUME NEW text \in Line, NEW n \in Nat
  PROVE  TailLines(text, n) = AtMost(Lines(text), n)
  <1>. DEFINE K == {i \in 0 .. Len(text) : All(text, i) \/ Breaks(From(text, i)) > n}
              k == Min(K)
              rest == From(text, k)
              T == Lines(text)
              L == Lines(rest)
  <1>1. Len(text) \in Nat /\ Chunk \in Nat \ {0}
    BY HistoryAssumption DEF Line
  <1>2. T \in Seq(Line) /\ Len(T) \in Nat
    BY LinesOf
  <1>3. k \in K
    <2>1. Len(text) * Chunk >= Len(text)
      BY <1>1
    <2>2. Len(text) \in K
      BY <1>1, <2>1 DEF All
    <2>3. \E x \in K : \A y \in K : x <= y
      <3>1. K \subseteq Nat
        BY <1>1
      <3>. HIDE DEF K
      <3>. QED BY <2>2, <3>1, LeastOf
    <2>. HIDE DEF K
    <2>. QED BY <2>3 DEF Min
  <1>4. CASE n = 0
    <2>1. AtMost(T, n) \in Seq(Line) /\ Len(AtMost(T, n)) = 0
      BY <1>2, <1>4, LastLines
    <2>2. AtMost(T, n) = <<>>
      <3>. HIDE DEF T, Line
      <3>. QED BY <2>1
    <2>. QED BY <1>4, <2>2 DEF TailLines
  <1>5. CASE n # 0 /\ All(text, k)
    BY <1>5 DEF TailLines
  <1>6. CASE n # 0 /\ ~All(text, k)
    <2>1. TailLines(text, n) = AtMost(IF L = <<>> THEN L ELSE Tail(L), n)
      BY <1>6 DEF TailLines
    <2>2. k * Chunk \in Nat /\ k * Chunk < Len(text) /\ k \in Nat
      BY <1>1, <1>3, <1>6 DEF All
    <2>. DEFINE o == Len(text) - k * Chunk
    <2>3. /\ o \in 0 .. Len(text) /\ rest \in Line /\ Len(rest) = Len(text) - o
          /\ \A i \in 1 .. Len(rest) : rest[i] = text[o + i]
      <3>1. o \in 1 .. Len(text)
        BY <1>1, <2>2
      <3>2. rest = SubSeq(text, o + 1, Len(text))
        BY DEF From
      <3>. HIDE DEF o, rest
      <3>. QED BY <1>1, <3>1, <3>2 DEF Line
    <2>4. Breaks(rest) > n
      BY <1>3, <1>6
    <2>. DEFINE all == LinesUpTo(text)[Len(text)]
                some == LinesUpTo(rest)[Len(rest)]
                before == Len(LinesUpTo(text)[o]) - 1
    <2>. HIDE DEF o, rest, k, K
    <2>5. /\ before \in Nat /\ Len(all) = before + Len(some)
          /\ \A j \in 2 .. Len(some) : all[before + j] = some[j]
      BY <2>3, LinesFromMiddle
    <2>6. Len(some) = 1 + Breaks(rest) /\ Breaks(rest) \in Nat
      BY <2>3, LinesAreCounted
    <2>7. /\ Len(T) = IF all[Len(all)] = <<>> THEN Len(all) - 1 ELSE Len(all)
          /\ \A j \in 1 .. Len(T) : T[j] = all[j]
      BY LinesOf
    <2>8. /\ L \in Seq(Line) /\ Len(L) = IF some[Len(some)] = <<>> THEN Len(some) - 1 ELSE Len(some)
          /\ \A j \in 1 .. Len(L) : L[j] = some[j]
      BY <2>3, LinesOf
    <2>. HIDE DEF all, some, before, T, L, Line
    <2>9. all[Len(all)] = some[Len(some)] /\ Len(some) >= n + 2
      BY <2>4, <2>5, <2>6
    <2>10. /\ Len(L) \in Nat /\ Len(T) \in Nat /\ Len(some) \in Nat /\ Len(all) \in Nat
      BY <1>2, <2>5, <2>6, <2>8
    <2>11. Len(L) >= n + 1 /\ Len(L) <= Len(some) /\ Len(T) = before + Len(L)
      BY <2>5, <2>7, <2>8, <2>9, <2>10
    <2>12. \A j \in 2 .. Len(L) : T[before + j] = L[j]
      <3>. TAKE j \in 2 .. Len(L)
      <3>1. before + j \in 1 .. Len(T) /\ j \in 2 .. Len(some) /\ j \in 1 .. Len(L)
        BY <2>5, <2>10, <2>11
      <3>. QED BY <2>5, <2>7, <2>8, <3>1
    <2>13. L # <<>> /\ Tail(L) \in Seq(Line) /\ Len(Tail(L)) = Len(L) - 1
           /\ \A j \in 1 .. Len(L) - 1 : Tail(L)[j] = L[j + 1]
      <3>1. L # <<>>
        BY <2>10, <2>11
      <3>. QED BY <2>8, <3>1
    <2>. DEFINE M == Tail(L)
                ofRest == AtMost(M, n)
                ofText == AtMost(T, n)
    <2>. HIDE DEF M
    <2>14. /\ ofRest \in Seq(Line) /\ Len(ofRest) = n
           /\ \A j \in 1 .. n : ofRest[j] = M[Len(M) - n + j]
      <3>1. M \in Seq(Line) /\ Len(M) >= n /\ Len(M) \in Nat
        BY <2>10, <2>11, <2>13 DEF M
      <3>2. /\ ofRest \in Seq(Line) /\ Len(ofRest) = IF Len(M) > n THEN n ELSE Len(M)
            /\ \A j \in 1 .. Len(ofRest) : ofRest[j] = M[Len(M) - Len(ofRest) + j]
        BY <3>1, LastLines
      <3>3. Len(ofRest) = n
        BY <3>1, <3>2
      <3>. HIDE DEF ofRest
      <3>. QED BY <3>2, <3>3
    <2>15. /\ ofText \in Seq(Line) /\ Len(ofText) = n
           /\ \A j \in 1 .. n : ofText[j] = T[Len(T) - n + j]
      <3>1. T \in Seq(Line) /\ Len(T) > n
        BY <1>2, <2>5, <2>10, <2>11
      <3>2. /\ ofText \in Seq(Line) /\ Len(ofText) = IF Len(T) > n THEN n ELSE Len(T)
            /\ \A j \in 1 .. Len(ofText) : ofText[j] = T[Len(T) - Len(ofText) + j]
        BY <3>1, LastLines
      <3>3. Len(ofText) = n
        BY <3>1, <3>2
      <3>. HIDE DEF ofText
      <3>. QED BY <3>2, <3>3
    <2>16. \A j \in 1 .. n : ofRest[j] = ofText[j]
      <3>. TAKE j \in 1 .. n
      <3>. DEFINE x == Len(L) - n + j
      <3>1. x \in 2 .. Len(L) /\ x - 1 \in 1 .. Len(L) - 1 /\ (x - 1) + 1 = x
        BY <2>10, <2>11
      <3>2. Len(T) - n + j = before + x
        BY <2>5, <2>10, <2>11
      <3>3. Len(M) - n + j = x - 1
        BY <2>10, <2>13 DEF M
      <3>. HIDE DEF x, ofRest, ofText
      <3>4. M[x - 1] = L[x]
        BY <2>13, <3>1 DEF M
      <3>. QED BY <2>12, <2>14, <2>15, <3>1, <3>2, <3>3, <3>4
    <2>17. ofRest = ofText
      <3>. HIDE DEF ofRest, ofText
      <3>. QED BY <2>14, <2>15, <2>16
    <2>. QED BY <2>1, <2>13, <2>17 DEF T, M
  <1>. QED BY <1>4, <1>5, <1>6

LEMMA GreatestOf ==
  ASSUME NEW T, T \subseteq Nat, T # {}, NEW m \in Nat, \A x \in T : x <= m
  PROVE  \E x \in T : \A y \in T : y <= x
  <1>. DEFINE U == {m - x : x \in T}
  <1>1. U \subseteq Nat /\ U # {}
    <2>1. \A x \in T : m - x \in Nat
      OBVIOUS
    <2>. QED BY <2>1
  <1>2. PICK u \in U : \A v \in U : u <= v
    <2>. HIDE DEF U
    <2>. QED BY <1>1, LeastOf
  <1>3. PICK x \in T : u = m - x
    OBVIOUS
  <1>4. \A y \in T : m - x <= m - y
    BY <1>2, <1>3
  <1>5. \A y \in T : y <= x
    BY <1>4
  <1>. QED BY <1>5

\* Logs are texts, and there is a newest one.
LogsAreTexts ==
    /\ \A f \in logs : f.text \in Line /\ f.nth \in Nat
    /\ \E m \in Nat : \A f \in logs : f.nth <= m

LEMMA WrittenAreTexts == {<<>>} \cup Written \subseteq Line
  <1>. DEFINE note == <<"n", "truncated", "n">>
  <1>4. <<>> \in Line
    BY DEF Line
  <1>7. "message" \in Characters /\ "n" \in Characters /\ "truncated" \in Characters
    BY HistoryAssumption
  <1>5. Message \in Line
    BY <1>7 DEF Line, Message
  <1>6. note \in Line
    BY <1>7 DEF Line
  <1>0. <<>> \in Line /\ Message \in Line /\ note \in Line
    BY <1>4, <1>5, <1>6
  <1>1. \A s, t \in Line : s \o t \in Line
    BY DEF Line
  <1>2. ASSUME NEW out \in Outputs PROVE DrainCapped(out) \in Line
    <2>1. out \in Line /\ Len(out) \in Nat /\ MaxOutput \in Nat
      BY HistoryAssumption DEF Line
    <2>2. Kept(out) \in Line
      BY <2>1 DEF Kept, Line
    <2>. HIDE DEF Line
    <2>. QED BY <1>0, <1>1, <2>1, <2>2 DEF DrainCapped
  <1>. HIDE DEF Line
  <1>3. \A out, err \in Outputs : DrainCapped(out) \o DrainCapped(err) \in Line
    BY <1>1, <1>2
  <1>8. \A w \in Written : w \in Line
    <2>. SUFFICES ASSUME NEW w \in Written PROVE w \in Line
      OBVIOUS
    <2>1. CASE w = Message
      BY <1>0, <2>1
    <2>2. CASE w # Message
      <3>1. \E out, err \in Outputs : w = DrainCapped(out) \o DrainCapped(err)
        BY <2>2 DEF Written
      <3>. QED BY <1>3, <3>1
    <2>. QED BY <2>1, <2>2
  <1>. QED BY <1>0, <1>8

LEMMA TextsStep == HistoryInv /\ LogsAreTexts /\ [HistoryNext]_historyVars => LogsAreTexts'
  <1>. SUFFICES ASSUME HistoryInv, LogsAreTexts, [HistoryNext]_historyVars PROVE LogsAreTexts'
    OBVIOUS
  <1>1. logs' \subseteq logs => LogsAreTexts'
    BY DEF LogsAreTexts
  <1>2. ASSUME NEW p \in Processes, WriteLog(p) PROVE LogsAreTexts'
    <2>. DEFINE T == {0} \cup {g.nth : g \in logs}
                n == 1 + Max(T)
                f == [job |-> builds[p].job, text |-> builds[p].text, nth |-> n]
    <2>1. logs' = logs \cup {f}
      BY <1>2 DEF WriteLog
    <2>2. PICK m \in Nat : \A g \in logs : g.nth <= m /\ g.text \in Line /\ g.nth \in Nat
      BY DEF LogsAreTexts
    <2>3. Max(T) \in T /\ \A x \in T : x <= Max(T)
      <3>1. T \subseteq Nat /\ T # {} /\ \A x \in T : x <= m
        BY <2>2
      <3>. HIDE DEF T
      <3>2. PICK x \in T : \A y \in T : y <= x
        BY <3>1, GreatestOf
      <3>3. \A y \in T : x >= y
        BY <3>1, <3>2
      <3>4. Max(T) \in T /\ \A y \in T : Max(T) >= y
        BY <3>3 DEF Max
      <3>. QED BY <3>1, <3>4
    <2>4. n \in Nat /\ \A g \in logs : g.nth <= n
      BY <2>2, <2>3
    <2>5. f.text \in Line
      <3>1. builds[p].text \in {<<>>} \cup Written
        BY Typed DEF HistoryInv, Works
      <3>. QED BY <3>1, WrittenAreTexts
    <2>6. f.nth = n
      OBVIOUS
    <2>. HIDE DEF f, n, Line
    <2>7. \A g \in logs' : g.text \in Line /\ g.nth \in Nat /\ g.nth <= n
      BY <2>1, <2>2, <2>4, <2>5, <2>6
    <2>. QED BY <2>4, <2>7 DEF LogsAreTexts
  <1>3. logs' \subseteq logs \/ \E p \in Processes : WriteLog(p)
    <2>1. CASE UNCHANGED historyVars
      BY <2>1 DEF historyVars
    <2>2. CASE Tick
      BY <2>2 DEF Tick
    <2>3. ASSUME NEW p \in Processes, Process(p) PROVE logs' = logs
      BY <2>3 DEF Process, Start, Abandon, Bind, Shutdown, Ended
    <2>4. ASSUME NEW p \in Processes, BuildOnce(p) PROVE logs' = logs \/ WriteLog(p)
      BY <2>4 DEF BuildOnce, Create, CommandEnds, FinishJob, RecordAudit, Fails
    <2>5. ASSUME NEW p \in Processes, Maintain(p) PROVE logs' \subseteq logs
      BY <2>5 DEF Maintain, PruneFails, Prune, Unlink, RemoveLogs
    <2>. QED BY <2>1, <2>2, <2>3, <2>4, <2>5 DEF HistoryNext
  <1>. QED BY <1>1, <1>2, <1>3

LEMMA TailNow == LogsAreTexts => TailIsLast
  <1>. SUFFICES ASSUME LogsAreTexts, NEW n \in 0 .. 3, logs # {}
                PROVE  TailLines(Newest.text, n) = AtMost(Lines(Newest.text), n)
    BY DEF TailIsLast, NewestLog
  <1>1. \E f \in logs : \A g \in logs : g.nth <= f.nth
    <2>. DEFINE T == {g.nth : g \in logs}
    <2>1. PICK m \in Nat : \A g \in logs : g.nth <= m /\ g.nth \in Nat
      BY DEF LogsAreTexts
    <2>2. T \subseteq Nat /\ T # {} /\ \A x \in T : x <= m
      BY <2>1
    <2>3. PICK x \in T : \A y \in T : y <= x
      <3>. HIDE DEF T
      <3>. QED BY <2>2, GreatestOf
    <2>. QED BY <2>3
  <1>2. Newest \in logs
    BY <1>1 DEF Newest
  <1>3. Newest.text \in Line /\ n \in Nat
    BY <1>2 DEF LogsAreTexts
  <1>. QED BY <1>3, TailIs

\* What is shown of the newest log are its last lines, though it is read in chunks from its
\* end (tail_lines, recent_build_log), for any output of a build and any size of a chunk.
THEOREM TailShown == HistorySpec => TailIsShown
  <1>1. HistoryInit => LogsAreTexts
    BY DEF HistoryInit, LogsAreTexts
  <1>2. TailIsLast' => [logs' # logs => TailIsLast']_logs
    OBVIOUS
  <1>. QED BY <1>1, <1>2, TextsStep, TailNow, HistoryInvariant, PTL DEF HistorySpec, TailIsShown
=============================================================================
