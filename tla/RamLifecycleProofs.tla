------------------------- MODULE RamLifecycleProofs -------------------------
(***************************************************************************)
(* Invariants of RamLifecycle for every set of requests and processes, and *)
(* of RamLaunch for every text: what the formats and the parsers of rules  *)
(* give, and that the rules ram serves are those that were asked for.      *)
(***************************************************************************)
EXTENDS RamLifecycle, RamLaunch, FiniteSetTheorems, WellFoundedInduction, TLAPS

USE RamAssumption

LEMMA StartupActs == Startup \in Actors
  BY DEF Actors

\* Return and Fail keep the types of the request variables.
LEMMA ReturnType ==
    ASSUME TypeOK, NEW a \in Actors, Return(a)
    PROVE  /\ op' \in [Actors -> Ops]
           /\ pc' \in [Actors -> Pcs]
           /\ ver' \in [Actors -> 0 .. MaxRules]
           /\ seen' \in [Actors -> 0 .. MaxRules]
           /\ lock' \in Actors \cup {NoActor}
           /\ phase' \in {"booting", "serving"}
  BY DEF TypeOK, Return, Ops, Pcs

LEMMA FailType ==
    ASSUME TypeOK, NEW a \in Actors, Fail(a)
    PROVE  Return(a) /\ unapplied' \subseteq 0 .. MaxRules
<1>1. ver[a] \in 0 .. MaxRules /\ unapplied \subseteq 0 .. MaxRules
  BY DEF TypeOK
<1>2. unapplied' = unapplied \cup {ver[a]} \/ unapplied' = unapplied
  BY DEF Fail, Unapplied
<1> QED BY <1>1, <1>2 DEF Fail

\* A step between two awaits keeps the types when its label is one.
LEMMA GotoType ==
    ASSUME TypeOK, NEW a \in Actors, NEW l \in Pcs, Goto(a, l)
    PROVE  /\ op' \in [Actors -> Ops]
           /\ pc' \in [Actors -> Pcs]
           /\ ver' \in [Actors -> 0 .. MaxRules]
           /\ seen' \in [Actors -> 0 .. MaxRules]
           /\ phase' \in {"booting", "serving"}
  BY DEF TypeOK, Goto, Ops, Pcs

LEMMA TypeInit == Init => TypeOK
  BY DEF Init, TypeOK, Ops, Pcs

LEMMA TypeRequest ==
    ASSUME TypeOK, NEW a \in Actors, Request(a)
    PROVE  TypeOK'
  BY DEF TypeOK, Request, StartRequest, StopRequest, RestartRequest, UpdateRequest,
         StatusRequest, Arrive, Ops, Pcs, procVars, dbVars, history

LEMMA TypeStep ==
    ASSUME TypeOK, NEW a \in Actors, Step(a)
    PROVE  TypeOK'
<1> USE DEF procVars, dbVars, history
<1>1. CASE SaveAccounts(a)
  <2>1. CASE Return(a) /\ UNCHANGED <<rules, unapplied>>
    BY <1>1, <2>1, ReturnType DEF TypeOK, SaveAccounts
  <2>3. CASE /\ rules < MaxRules
             /\ rules' = rules + 1
             /\ Return(a)
             /\ unapplied' = unapplied \cup {rules'}
    BY <1>1, <2>3, ReturnType DEF TypeOK, SaveAccounts
  <2>2. CASE /\ rules < MaxRules
             /\ rules' = rules + 1
             /\ ver' = [ver EXCEPT ![a] = rules']
             /\ pc' = [pc EXCEPT ![a] = "saveAudit"]
             /\ UNCHANGED <<op, seen, phase, lock, unapplied>>
    BY <1>1, <2>2 DEF TypeOK, SaveAccounts, Pcs
  <2> QED BY <1>1, <2>1, <2>2, <2>3 DEF SaveAccounts
<1>2. CASE SaveAudit(a)
  BY <1>2, ReturnType, FailType, GotoType DEF TypeOK, SaveAudit, Pcs
<1>3. CASE Lock(a)
  BY <1>3, GotoType DEF TypeOK, Lock, Pcs
<1>4. CASE CheckSlot(a)
  BY <1>4, ReturnType, FailType, GotoType DEF TypeOK, CheckSlot, Pcs
<1>5. CASE ProbeStart(a)
  BY <1>5, ReturnType, FailType, GotoType DEF TypeOK, ProbeStart, Pcs
<1>6. CASE ReadRules(a)
  <2>1. CASE Fail(a)
    BY <1>6, <2>1, ReturnType, FailType DEF TypeOK, ReadRules
  <2>2. CASE /\ pc' = [pc EXCEPT ![a] = "spawn"]
             /\ seen' = [seen EXCEPT ![a] = rules]
             /\ UNCHANGED <<op, ver, phase, lock, unapplied>>
    BY <1>6, <2>2 DEF TypeOK, ReadRules, Pcs
  <2> QED BY <1>6, <2>1, <2>2 DEF ReadRules
<1>7. CASE Spawn(a)
  <2>1. CASE Fail(a) /\ UNCHANGED <<proc, rulesOf, handle>>
    BY <1>7, <2>1, ReturnType, FailType DEF TypeOK, Spawn
  <2>2. ASSUME NEW p \in Procs,
               proc' = [proc EXCEPT ![p] = "starting"],
               rulesOf' = [rulesOf EXCEPT ![p] = seen[a]],
               handle' = [handle EXCEPT ![a] = p],
               seen' = [seen EXCEPT ![a] = 0],
               pc' = [pc EXCEPT ![a] = "store"],
               UNCHANGED <<op, ver, phase, lock, unapplied>>
        PROVE  TypeOK'
    BY <1>7, <2>2 DEF TypeOK, Spawn, Pcs
  <2> QED BY <1>7, <2>1, <2>2 DEF Spawn
<1>8. CASE StoreChild(a)
  BY <1>8, GotoType DEF TypeOK, StoreChild, Pcs
<1>9. CASE DesireRunning(a)
  BY <1>9, ReturnType, FailType, GotoType DEF TypeOK, DesireRunning, Pcs
<1>10. CASE RecordStart(a)
  BY <1>10, ReturnType, FailType DEF TypeOK, RecordStart, DropExited
<1>11. CASE TakeChild(a)
  BY <1>11, GotoType DEF TypeOK, TakeChild, Pcs
<1>12. CASE Reap(a)
  BY <1>12, ReturnType, FailType, GotoType DEF TypeOK, Reap, WaitOrKillFails, DropHandle, Alive, Pcs
<1>13. CASE TermTimeout(a)
  BY <1>13, ReturnType, FailType, GotoType
     DEF TypeOK, TermTimeout, WaitOrKillFails, DropHandle, Alive, Pcs
<1>14. CASE Terminated(a)
  BY <1>14, GotoType DEF TypeOK, Terminated, AfterExit, Pcs
<1>15. CASE ProbeStop(a)
  BY <1>15, ReturnType, FailType, GotoType DEF TypeOK, ProbeStop, Pcs
<1>16. CASE DesireStopped(a)
  BY <1>16, ReturnType, GotoType DEF TypeOK, DesireStopped, StopDone, Pcs
<1>17. CASE RecordStop(a)
  BY <1>17, ReturnType, GotoType DEF TypeOK, RecordStop, StopDone, Pcs
<1>18. CASE RecordReload(a)
  BY <1>18, ReturnType, FailType, GotoType DEF TypeOK, RecordReload, Pcs
<1>19. CASE Snapshot(a)
  BY <1>19, ReturnType, GotoType DEF TypeOK, Snapshot, DropExited, Pcs
<1>20. CASE StatusProbe(a)
  BY <1>20, ReturnType DEF TypeOK, StatusProbe
<1> QED
  BY <1>1, <1>2, <1>3, <1>4, <1>5, <1>6, <1>7, <1>8, <1>9, <1>10, <1>11, <1>12,
     <1>13, <1>14, <1>15, <1>16, <1>17, <1>18, <1>19, <1>20 DEF Step

LEMMA TypeOther ==
    ASSUME TypeOK
    PROVE  /\ Boot => TypeOK'
           /\ Restart => TypeOK'
           /\ \A a \in Actors : Cancel(a) \/ WaitFails(a) => TypeOK'
           /\ \A p \in Procs : BindPort(p) \/ Exit(p) \/ ForeignStart(p) => TypeOK'
<1> USE DEF procVars, dbVars, history, reqVars
<1>1. Boot => TypeOK'
  BY ReturnType, StartupActs DEF TypeOK, Boot, Ops, Pcs
<1>2. Restart => TypeOK'
  <2> SUFFICES ASSUME Restart PROVE TypeOK'
    OBVIOUS
  <2>1. dropped' \subseteq 0 .. MaxRules
    <3> SUFFICES ASSUME NEW v \in dropped' PROVE v \in 0 .. MaxRules
      OBVIOUS
    <3>1. v \in dropped \/ \E a \in Actors : v = ver[a]
      BY DEF Restart
    <3>2. dropped \subseteq 0 .. MaxRules /\ \A a \in Actors : ver[a] \in 0 .. MaxRules
      BY DEF TypeOK
    <3> QED BY <3>1, <3>2
  <2>2. unmanaged' \subseteq Procs
    BY DEF Restart, TypeOK, Owned
  <2> QED BY <2>1, <2>2 DEF TypeOK, Restart, Ops, Pcs
<1>3. ASSUME NEW a \in Actors, Cancel(a) PROVE TypeOK'
  <2>1. Return(a) /\ rules' \in 0 .. MaxRules /\ dropped' \subseteq 0 .. MaxRules
    <3>1. /\ rules \in 0 .. MaxRules /\ dropped \subseteq 0 .. MaxRules /\ ver[a] \in 0 .. MaxRules
      BY DEF TypeOK
    <3>2. \/ rules' = rules /\ (dropped' = dropped \cup {ver[a]} \/ dropped' = dropped)
          \/ rules < MaxRules /\ rules' = rules + 1 /\ dropped' = dropped \cup {rules'}
      BY <1>3 DEF Cancel
    <3>3. Return(a)
      BY <1>3 DEF Cancel
    <3>4. MaxRules \in Nat
      BY DEF RamAssumption
    <3>5. rules' \in 0 .. MaxRules
      BY <3>1, <3>2, <3>4
    <3>6. dropped' = dropped \cup {ver[a]} \/ dropped' = dropped \/ dropped' = dropped \cup {rules'}
      BY <3>2
    <3>7. dropped' \subseteq 0 .. MaxRules
      BY <3>1, <3>5, <3>6, Zenon
    <3> QED BY <3>3, <3>5, <3>7
  <2>2. /\ unmanaged' \subseteq Procs /\ unrecorded' \subseteq Procs
        /\ handle' \in [Actors -> Procs \cup {NoProc}]
    BY <1>3 DEF Cancel, DropHandle, TypeOK
  <2>3. UNCHANGED <<slot, proc, rulesOf, killed, desired, crashes, unapplied>>
    BY <1>3 DEF Cancel
  <2>4. /\ op' \in [Actors -> Ops] /\ pc' \in [Actors -> Pcs] /\ ver' \in [Actors -> 0 .. MaxRules]
        /\ seen' \in [Actors -> 0 .. MaxRules] /\ lock' \in Actors \cup {NoActor}
        /\ phase' \in {"booting", "serving"}
    BY <2>1, ReturnType
  <2> QED BY <2>1, <2>2, <2>3, <2>4 DEF TypeOK
<1>5. ASSUME NEW a \in Actors, WaitFails(a) PROVE TypeOK'
  BY <1>5, GotoType DEF TypeOK, WaitFails, AfterExit, DropHandle, Pcs
<1>4. ASSUME NEW p \in Procs PROVE BindPort(p) \/ Exit(p) \/ ForeignStart(p) => TypeOK'
  <2>1. BindPort(p) => TypeOK'
    BY DEF TypeOK, BindPort
  <2>2. Exit(p) => TypeOK'
    BY DEF TypeOK, Exit
  <2>3. ForeignStart(p) => TypeOK'
    BY DEF TypeOK, ForeignStart
  <2> QED BY <2>1, <2>2, <2>3
<1> QED BY <1>1, <1>2, <1>3, <1>4, <1>5

\* Every variable keeps its type, whatever the interleaving.
THEOREM TypeCorrect == Spec => []TypeOK
<1>1. TypeOK /\ [Next]_vars => TypeOK'
  <2> SUFFICES ASSUME TypeOK, [Next]_vars PROVE TypeOK'
    OBVIOUS
  <2>1. CASE UNCHANGED vars
    BY <2>1 DEF vars, reqVars, procVars, dbVars, history, TypeOK
  <2>2. CASE Next
    BY <2>2, TypeStep, TypeRequest, TypeOther DEF Next
  <2> QED BY <2>1, <2>2
<1> QED BY TypeInit, <1>1, PTL DEF Spec

-----------------------------------------------------------------------------
LEMMA OwnerInit == Init => OwnerInv
<1> SUFFICES ASSUME Init PROVE OwnerInv
  OBVIOUS
<1>1. \A a \in Actors : lock # a
  BY DEF Init
<1>2. \A a \in Actors : pc[a] \in {"boot", "idle"} /\ handle[a] = NoProc
  BY DEF Init
<1> QED BY <1>1, <1>2, TypeInit DEF OwnerInv, LockHeld, HandleHeld, SlotEmpty, Critical,
   Emptied

LEMMA OwnerStep ==
    ASSUME OwnerInv, NEW a \in Actors, Step(a)
    PROVE  LockHeld' /\ HandleHeld' /\ SlotEmpty'
<1> USE DEF procVars, dbVars, history, OwnerInv, LockHeld, HandleHeld, SlotEmpty,
            Critical, Emptied
<1>0. TypeOK
  OBVIOUS
<1>1. CASE SaveAccounts(a)
  BY <1>1, <1>0 DEF SaveAccounts, Fail, Return, TypeOK
<1>2. CASE SaveAudit(a)
  BY <1>2, <1>0 DEF SaveAudit, Goto, Fail, Return, TypeOK
<1>3. CASE Lock(a)
  BY <1>3, <1>0 DEF Lock, Goto, TypeOK
<1>4. CASE CheckSlot(a)
  BY <1>4, <1>0 DEF CheckSlot, Goto, Fail, Return, TypeOK
<1>5. CASE ProbeStart(a)
  BY <1>5, <1>0 DEF ProbeStart, Goto, Fail, Return, TypeOK
<1>6. CASE ReadRules(a)
  BY <1>6, <1>0 DEF ReadRules, Fail, Return, TypeOK
<1>7. CASE Spawn(a)
  BY <1>7, <1>0 DEF Spawn, Fail, Return, TypeOK
<1>8. CASE StoreChild(a)
  BY <1>8, <1>0 DEF StoreChild, Goto, TypeOK
<1>9. CASE DesireRunning(a)
  BY <1>9, <1>0 DEF DesireRunning, Goto, Fail, Return, TypeOK
<1>10. CASE RecordStart(a)
  BY <1>10, <1>0 DEF RecordStart, DropExited, Fail, Return, TypeOK
<1>11. CASE TakeChild(a)
  BY <1>11, <1>0 DEF TakeChild, Goto, TypeOK
<1>12. CASE Reap(a)
  BY <1>12, <1>0 DEF Reap, WaitOrKillFails, DropHandle, Goto, Fail, Return, TypeOK
<1>13. CASE TermTimeout(a)
  BY <1>13, <1>0 DEF TermTimeout, WaitOrKillFails, DropHandle, Goto, Fail, Return, TypeOK
<1>14. CASE Terminated(a)
  BY <1>14, <1>0 DEF Terminated, AfterExit, Goto, TypeOK
<1>15. CASE ProbeStop(a)
  BY <1>15, <1>0 DEF ProbeStop, Goto, Fail, Return, TypeOK
<1>16. CASE DesireStopped(a)
  BY <1>16, <1>0 DEF DesireStopped, StopDone, Goto, Return, TypeOK
<1>17. CASE RecordStop(a)
  BY <1>17, <1>0 DEF RecordStop, StopDone, Goto, Return, TypeOK
<1>18. CASE RecordReload(a)
  BY <1>18, <1>0 DEF RecordReload, Goto, Fail, Return, TypeOK
<1>19. CASE Snapshot(a)
  BY <1>19, <1>0 DEF Snapshot, DropExited, Goto, Return, TypeOK
<1>20. CASE StatusProbe(a)
  BY <1>20, <1>0 DEF StatusProbe, Return, TypeOK
<1> QED
  BY <1>1, <1>2, <1>3, <1>4, <1>5, <1>6, <1>7, <1>8, <1>9, <1>10, <1>11, <1>12,
     <1>13, <1>14, <1>15, <1>16, <1>17, <1>18, <1>19, <1>20 DEF Step

LEMMA OwnerOther ==
    ASSUME OwnerInv
    PROVE  /\ \A a \in Actors : Request(a) => LockHeld' /\ HandleHeld' /\ SlotEmpty'
           /\ \A a \in Actors : Cancel(a) \/ WaitFails(a) => LockHeld' /\ HandleHeld' /\ SlotEmpty'
           /\ Boot \/ Restart => LockHeld' /\ HandleHeld' /\ SlotEmpty'
           /\ \A p \in Procs : BindPort(p) \/ Exit(p) \/ ForeignStart(p)
                                 => LockHeld' /\ HandleHeld' /\ SlotEmpty'
<1> USE DEF procVars, dbVars, history, reqVars, OwnerInv, LockHeld, HandleHeld, SlotEmpty,
            Critical, Emptied
<1>1. \A a \in Actors : Request(a) => LockHeld' /\ HandleHeld' /\ SlotEmpty'
  BY DEF Request, StartRequest, StopRequest, RestartRequest, UpdateRequest,
         StatusRequest, Arrive, TypeOK
<1>2. \A a \in Actors : Cancel(a) => LockHeld' /\ HandleHeld' /\ SlotEmpty'
  BY DEF Cancel, DropHandle, Return, TypeOK
<1>6. \A a \in Actors : WaitFails(a) => LockHeld' /\ HandleHeld' /\ SlotEmpty'
  BY DEF WaitFails, AfterExit, DropHandle, Goto, TypeOK
<1>3. Boot => LockHeld' /\ HandleHeld' /\ SlotEmpty'
  BY StartupActs DEF Boot, Return, TypeOK
<1>4. Restart => LockHeld' /\ HandleHeld' /\ SlotEmpty'
  BY DEF Restart
<1>5. \A p \in Procs : BindPort(p) \/ Exit(p) \/ ForeignStart(p)
                         => LockHeld' /\ HandleHeld' /\ SlotEmpty'
  BY DEF BindPort, Exit, ForeignStart
<1> QED BY <1>1, <1>2, <1>3, <1>4, <1>5, <1>6

LEMMA OwnerInductive == OwnerInv /\ [Next]_vars => OwnerInv'
<1> SUFFICES ASSUME OwnerInv, [Next]_vars PROVE OwnerInv'
  OBVIOUS
<1>1. CASE UNCHANGED vars
  BY <1>1 DEF vars, reqVars, procVars, dbVars, history, OwnerInv, TypeOK, LockHeld,
              HandleHeld, SlotEmpty
<1>2. CASE Next
  <2>1. TypeOK'
    BY <1>2, TypeStep, TypeRequest, TypeOther DEF Next, OwnerInv
  <2>2. LockHeld' /\ HandleHeld' /\ SlotEmpty'
    BY <1>2, OwnerStep, OwnerOther DEF Next
  <2> QED BY <2>1, <2>2 DEF OwnerInv
<1> QED BY <1>1, <1>2

\* What the ownership theorems rest on: who holds the mutex, a process handle and the slot at
\* each await of lifecycle.rs.
THEOREM OwnerCorrect == Spec => []OwnerInv
  BY OwnerInit, OwnerInductive, PTL DEF Spec

\* While an operation probes the port, neither the slot nor any frame owns a process.
LEMMA NothingOwnedAtProbe ==
    ASSUME OwnerInv, NEW a \in Actors, pc[a] \in {"probeStart", "probeStop"}
    PROVE  Owned = {}
<1>1. slot = NoProc /\ lock = a
  BY DEF OwnerInv, LockHeld, SlotEmpty, Emptied, Critical
<1>2. \A b \in Actors : handle[b] = NoProc
  BY <1>1 DEF OwnerInv, LockHeld, HandleHeld, Critical
<1> QED BY <1>1, <1>2 DEF Owned

\* The operation mutex makes union the owner of at most one ram process at any time: what
\* start spawns meets an empty slot and no other frame with a process.
THEOREM OwnershipCorrect == Spec => []SingleOwner
<1>1. OwnerInv => SingleOwner
  <2> SUFFICES ASSUME OwnerInv, NEW p \in Owned, NEW q \in Owned PROVE p = q
    BY DEF SingleOwner
  <2>1. \A a \in Actors : handle[a] # NoProc => slot = NoProc /\ lock = a
    BY DEF OwnerInv, LockHeld, HandleHeld, SlotEmpty, Emptied, Critical
  <2> QED BY <2>1 DEF Owned
<1> QED BY OwnerCorrect, <1>1, PTL

\* start and stop probe the port only while union owns no process, so a refusal always
\* names a process that is really unmanaged, never a predecessor of the same restart.
THEOREM RefusalCorrect == Spec => []RefusalIsTruthful
<1>1. OwnerInv => RefusalIsTruthful
  BY NothingOwnedAtProbe DEF RefusalIsTruthful
<1> QED BY OwnerCorrect, <1>1, PTL

\* A live process stays in the slot, in a frame, or on the list of lost ones.
LEMMA LeakStep ==
    ASSUME OwnerInv, NoLeakedProcess, [Next]_vars
    PROVE  NoLeakedProcess'
<1> USE DEF vars, procVars, dbVars, history, reqVars, NoLeakedProcess, Owned, Alive,
            TypeOK, LockHeld, HandleHeld, SlotEmpty, Emptied, Critical
<1>0. TypeOK /\ LockHeld /\ HandleHeld /\ SlotEmpty
  BY DEF OwnerInv
<1>1. ASSUME NEW a \in Actors, Step(a) PROVE NoLeakedProcess'
  <2>1. CASE SaveAccounts(a)
    BY <1>0, <2>1 DEF SaveAccounts, Fail, Return
  <2>2. CASE SaveAudit(a)
    BY <1>0, <2>2 DEF SaveAudit, Goto, Fail, Return
  <2>3. CASE Lock(a)
    BY <1>0, <2>3 DEF Lock, Goto
  <2>4. CASE CheckSlot(a)
    BY <1>0, <2>4 DEF CheckSlot, Goto, Fail, Return
  <2>5. CASE ProbeStart(a)
    BY <1>0, <2>5 DEF ProbeStart, Goto, Fail, Return
  <2>6. CASE ReadRules(a)
    BY <1>0, <2>6 DEF ReadRules, Fail, Return
  <2>7. CASE Spawn(a)
    BY <1>0, <2>7 DEF Spawn, Goto, Fail, Return
  <2>8. CASE StoreChild(a)
    BY <1>0, <2>8 DEF StoreChild, Goto
  <2>9. CASE DesireRunning(a)
    BY <1>0, <2>9 DEF DesireRunning, Goto, Fail, Return
  <2>10. CASE RecordStart(a)
    BY <1>0, <2>10 DEF RecordStart, DropExited, Fail, Return
  <2>11. CASE TakeChild(a)
    BY <1>0, <2>11 DEF TakeChild, Goto
  <2>12. CASE Reap(a)
    BY <1>0, <2>12 DEF Reap, WaitOrKillFails, DropHandle, Goto, Fail, Return
  <2>13. CASE TermTimeout(a)
    BY <1>0, <2>13 DEF TermTimeout, WaitOrKillFails, DropHandle, Goto, Fail, Return
  <2>14. CASE Terminated(a)
    BY <1>0, <2>14 DEF Terminated, AfterExit, Goto
  <2>15. CASE ProbeStop(a)
    BY <1>0, <2>15 DEF ProbeStop, Goto, Fail, Return
  <2>16. CASE DesireStopped(a)
    BY <1>0, <2>16 DEF DesireStopped, StopDone, Goto, Return
  <2>17. CASE RecordStop(a)
    BY <1>0, <2>17 DEF RecordStop, StopDone, Goto, Return
  <2>18. CASE RecordReload(a)
    BY <1>0, <2>18 DEF RecordReload, Goto, Fail, Return
  <2>19. CASE Snapshot(a)
    BY <1>0, <2>19 DEF Snapshot, DropExited, Goto, Return
  <2>20. CASE StatusProbe(a)
    BY <1>0, <2>20 DEF StatusProbe, Return
  <2> QED
    BY <1>1, <2>1, <2>2, <2>3, <2>4, <2>5, <2>6, <2>7, <2>8, <2>9, <2>10, <2>11, <2>12,
       <2>13, <2>14, <2>15, <2>16, <2>17, <2>18, <2>19, <2>20 DEF Step
<1>2. ASSUME NEW a \in Actors, Cancel(a) PROVE NoLeakedProcess'
  BY <1>0, <1>2 DEF Cancel, DropHandle, Return
<1>10. ASSUME NEW a \in Actors, WaitFails(a) PROVE NoLeakedProcess'
  BY <1>0, <1>10 DEF WaitFails, AfterExit, DropHandle, Goto
<1>3. ASSUME NEW a \in Actors, Request(a) PROVE NoLeakedProcess'
  BY <1>0, <1>3 DEF Request, StartRequest, StopRequest, RestartRequest, UpdateRequest,
     StatusRequest, Arrive
<1>4. CASE Boot
  BY <1>0, <1>4, StartupActs DEF Boot, Return
<1>5. CASE Restart
  BY <1>0, <1>5, StartupActs DEF Restart
<1>6. ASSUME NEW p \in Procs, BindPort(p) PROVE NoLeakedProcess'
  BY <1>0, <1>6 DEF BindPort
<1>7. ASSUME NEW p \in Procs, Exit(p) PROVE NoLeakedProcess'
  BY <1>0, <1>7 DEF Exit
<1>8. ASSUME NEW p \in Procs, ForeignStart(p) PROVE NoLeakedProcess'
  BY <1>0, <1>8 DEF ForeignStart
<1>9. CASE UNCHANGED vars
  BY <1>9
<1> QED BY <1>1, <1>2, <1>3, <1>4, <1>5, <1>6, <1>7, <1>8, <1>9, <1>10 DEF Next

\* The desired state follows the managed process.
LEMMA DesiredStep ==
    ASSUME OwnerInv, DesiredFollowsProcess, [Next]_vars
    PROVE  DesiredFollowsProcess'
<1> USE DEF vars, procVars, dbVars, history, reqVars, DesiredFollowsProcess, Owned, Alive,
            TypeOK, LockHeld, SlotEmpty, Emptied, Critical
<1>0. TypeOK /\ LockHeld /\ HandleHeld /\ SlotEmpty
  BY DEF OwnerInv
<1>1. ASSUME NEW a \in Actors, Step(a) PROVE DesiredFollowsProcess'
  <2>1. CASE SaveAccounts(a)
    BY <1>0, <2>1 DEF SaveAccounts, Fail, Return
  <2>2. CASE SaveAudit(a)
    BY <1>0, <2>2 DEF SaveAudit, Goto, Fail, Return
  <2>3. CASE Lock(a)
    BY <1>0, <2>3 DEF Lock, Goto
  <2>4. CASE CheckSlot(a)
    BY <1>0, <2>4 DEF CheckSlot, Goto, Fail, Return
  <2>5. CASE ProbeStart(a)
    BY <1>0, <2>5 DEF ProbeStart, Goto, Fail, Return
  <2>6. CASE ReadRules(a)
    BY <1>0, <2>6 DEF ReadRules, Fail, Return
  <2>7. CASE Spawn(a)
    BY <1>0, <2>7 DEF Spawn, Goto, Fail, Return
  <2>8. CASE StoreChild(a)
    BY <1>0, <2>8 DEF StoreChild, Goto
  <2>9. CASE DesireRunning(a)
    BY <1>0, <2>9 DEF DesireRunning, Goto, Fail, Return
  <2>10. CASE RecordStart(a)
    BY <1>0, <2>10 DEF RecordStart, DropExited, Fail, Return
  <2>11. CASE TakeChild(a)
    BY <1>0, <2>11 DEF TakeChild, Goto
  <2>12. CASE Reap(a)
    BY <1>0, <2>12 DEF Reap, WaitOrKillFails, DropHandle, Goto, Fail, Return
  <2>13. CASE TermTimeout(a)
    BY <1>0, <2>13 DEF TermTimeout, WaitOrKillFails, DropHandle, Goto, Fail, Return
  <2>14. CASE Terminated(a)
    BY <1>0, <2>14 DEF Terminated, AfterExit, Goto
  <2>15. CASE ProbeStop(a)
    BY <1>0, <2>15 DEF ProbeStop, Goto, Fail, Return
  <2>16. CASE DesireStopped(a)
    BY <1>0, <2>16 DEF DesireStopped, StopDone, Goto, Return
  <2>17. CASE RecordStop(a)
    BY <1>0, <2>17 DEF RecordStop, StopDone, Goto, Return
  <2>18. CASE RecordReload(a)
    BY <1>0, <2>18 DEF RecordReload, Goto, Fail, Return
  <2>19. CASE Snapshot(a)
    BY <1>0, <2>19 DEF Snapshot, DropExited, Goto, Return
  <2>20. CASE StatusProbe(a)
    BY <1>0, <2>20 DEF StatusProbe, Return
  <2> QED
    BY <1>1, <2>1, <2>2, <2>3, <2>4, <2>5, <2>6, <2>7, <2>8, <2>9, <2>10, <2>11, <2>12,
       <2>13, <2>14, <2>15, <2>16, <2>17, <2>18, <2>19, <2>20 DEF Step
<1>2. ASSUME NEW a \in Actors, Cancel(a) PROVE DesiredFollowsProcess'
  BY <1>0, <1>2 DEF Cancel, DropHandle, Return
<1>10. ASSUME NEW a \in Actors, WaitFails(a) PROVE DesiredFollowsProcess'
  BY <1>0, <1>10 DEF WaitFails, AfterExit, DropHandle, Goto
<1>3. ASSUME NEW a \in Actors, Request(a) PROVE DesiredFollowsProcess'
  BY <1>0, <1>3 DEF Request, StartRequest, StopRequest, RestartRequest, UpdateRequest,
     StatusRequest, Arrive
<1>4. CASE Boot
  BY <1>0, <1>4, StartupActs DEF Boot, Return
<1>5. CASE Restart
  BY <1>0, <1>5, StartupActs DEF Restart
<1>6. ASSUME NEW p \in Procs, BindPort(p) PROVE DesiredFollowsProcess'
  BY <1>0, <1>6 DEF BindPort
<1>7. ASSUME NEW p \in Procs, Exit(p) PROVE DesiredFollowsProcess'
  BY <1>0, <1>7 DEF Exit
<1>8. ASSUME NEW p \in Procs, ForeignStart(p) PROVE DesiredFollowsProcess'
  BY <1>0, <1>8 DEF ForeignStart
<1>9. CASE UNCHANGED vars
  BY <1>9
<1> QED BY <1>1, <1>2, <1>3, <1>4, <1>5, <1>6, <1>7, <1>8, <1>9, <1>10 DEF Next

\* Each update a process lacks stays under way, reported or dropped.
LEMMA FreshStep ==
    ASSUME OwnerInv, FreshInv, [Next]_vars
    PROVE  FreshInv'
<1> USE DEF vars, procVars, dbVars, history, reqVars, FreshInv, FreshRules, Covered,
            Accounted, Pending, Owned, Alive, TypeOK, LockHeld, HandleHeld, SlotEmpty, Emptied,
            Critical
<1>0. TypeOK /\ LockHeld /\ HandleHeld /\ SlotEmpty
  BY DEF OwnerInv
<1>1. ASSUME NEW a \in Actors, Step(a) PROVE FreshInv'
  <2>1. CASE SaveAccounts(a)
    <3>1. CASE Return(a) /\ UNCHANGED <<rules, unapplied>>
      BY <1>0, <2>1, <3>1 DEF SaveAccounts, Return
    <3>2. CASE /\ rules < MaxRules
               /\ rules' = rules + 1
               /\ Return(a)
               /\ unapplied' = unapplied \cup {rules'}
      BY <1>0, <2>1, <3>2 DEF SaveAccounts, Return
    <3>3. CASE /\ rules < MaxRules
               /\ rules' = rules + 1
               /\ ver' = [ver EXCEPT ![a] = rules']
               /\ pc' = [pc EXCEPT ![a] = "saveAudit"]
               /\ UNCHANGED <<op, seen, phase, lock, unapplied>>
      BY <1>0, <2>1, <3>3 DEF SaveAccounts
    <3> QED BY <2>1, <3>1, <3>2, <3>3 DEF SaveAccounts
  <2>2. CASE SaveAudit(a)
    BY <1>0, <2>2 DEF SaveAudit, Goto, Fail, Return, Unapplied
  <2>3. CASE Lock(a)
    BY <1>0, <2>3 DEF Lock, Goto
  <2>4. CASE CheckSlot(a)
    BY <1>0, <2>4 DEF CheckSlot, Goto, Fail, Return, Unapplied
  <2>5. CASE ProbeStart(a)
    BY <1>0, <2>5 DEF ProbeStart, Goto, Fail, Return, Unapplied
  <2>6. CASE ReadRules(a)
    BY <1>0, <2>6 DEF ReadRules, Fail, Return, Unapplied
  <2>7. CASE Spawn(a)
    BY <1>0, <2>7 DEF Spawn, Goto, Fail, Return, Unapplied
  <2>8. CASE StoreChild(a)
    BY <1>0, <2>8 DEF StoreChild, Goto
  <2>9. CASE DesireRunning(a)
    BY <1>0, <2>9 DEF DesireRunning, Goto, Fail, Return, Unapplied
  <2>10. CASE RecordStart(a)
    BY <1>0, <2>10 DEF RecordStart, DropExited, Fail, Return, Unapplied
  <2>11. CASE TakeChild(a)
    BY <1>0, <2>11 DEF TakeChild, Goto
  <2>12. CASE Reap(a)
    BY <1>0, <2>12 DEF Reap, WaitOrKillFails, DropHandle, Goto, Fail, Return, Unapplied
  <2>13. CASE TermTimeout(a)
    BY <1>0, <2>13 DEF TermTimeout, WaitOrKillFails, DropHandle, Goto, Fail, Return, Unapplied
  <2>14. CASE Terminated(a)
    BY <1>0, <2>14 DEF Terminated, AfterExit, Goto
  <2>15. CASE ProbeStop(a)
    BY <1>0, <2>15 DEF ProbeStop, Goto, Fail, Return, Unapplied
  <2>16. CASE DesireStopped(a)
    BY <1>0, <2>16 DEF DesireStopped, StopDone, Goto, Return
  <2>17. CASE RecordStop(a)
    BY <1>0, <2>17 DEF RecordStop, StopDone, Goto, Return
  <2>18. CASE RecordReload(a)
    BY <1>0, <2>18 DEF RecordReload, Goto, Fail, Return, Unapplied
  <2>19. CASE Snapshot(a)
    BY <1>0, <2>19 DEF Snapshot, DropExited, Goto, Return
  <2>20. CASE StatusProbe(a)
    BY <1>0, <2>20 DEF StatusProbe, Return
  <2> QED
    BY <1>1, <2>1, <2>2, <2>3, <2>4, <2>5, <2>6, <2>7, <2>8, <2>9, <2>10, <2>11, <2>12,
       <2>13, <2>14, <2>15, <2>16, <2>17, <2>18, <2>19, <2>20 DEF Step
<1>2. ASSUME NEW a \in Actors, Cancel(a) PROVE FreshInv'
  BY <1>0, <1>2 DEF Cancel, DropHandle, Return
<1>10. ASSUME NEW a \in Actors, WaitFails(a) PROVE FreshInv'
  BY <1>0, <1>10 DEF WaitFails, AfterExit, DropHandle, Goto
<1>3. ASSUME NEW a \in Actors, Request(a) PROVE FreshInv'
  BY <1>0, <1>3 DEF Request, StartRequest, StopRequest, RestartRequest, UpdateRequest,
     StatusRequest, Arrive
<1>4. CASE Boot
  BY <1>0, <1>4, StartupActs DEF Boot, Return
<1>5. CASE Restart
  BY <1>0, <1>5, StartupActs DEF Restart
<1>6. ASSUME NEW p \in Procs, BindPort(p) PROVE FreshInv'
  BY <1>0, <1>6 DEF BindPort
<1>7. ASSUME NEW p \in Procs, Exit(p) PROVE FreshInv'
  BY <1>0, <1>7 DEF Exit
<1>8. ASSUME NEW p \in Procs, ForeignStart(p) PROVE FreshInv'
  BY <1>0, <1>8 DEF ForeignStart
<1>9. CASE UNCHANGED vars
  BY <1>9
<1> QED BY <1>1, <1>2, <1>3, <1>4, <1>5, <1>6, <1>7, <1>8, <1>9, <1>10 DEF Next

LEMMA HistoryInit == Init => NoLeakedProcess /\ DesiredFollowsProcess /\ FreshInv
  BY DEF Init, NoLeakedProcess, DesiredFollowsProcess, FreshInv, FreshRules, Covered, Alive

\* A live process that union does not hold was left by a cancelled request, a restart or an
\* operator, or by a try_wait, wait or kill that failed; and the desired state in PostgreSQL
\* follows the process in the slot, unless its own start ended before it was written.
THEOREM ProcessCorrect == Spec => [](NoLeakedProcess /\ DesiredFollowsProcess)
<1> DEFINE J == OwnerInv /\ NoLeakedProcess /\ DesiredFollowsProcess
<1>1. Init => J
  BY OwnerInit, HistoryInit
<1>2. J /\ [Next]_vars => J'
  BY OwnerInductive, LeakStep, DesiredStep
<1>3. J => NoLeakedProcess /\ DesiredFollowsProcess
  OBVIOUS
<1> QED
  <2> HIDE DEF J
  <2> QED BY <1>1, <1>2, <1>3, PTL DEF Spec

\* Every update that a managed process lacks is on its way to the reload, or was answered as
\* not applied, or its handler was dropped or ended by a restart before it could answer.
THEOREM FreshCorrect == Spec => []FreshRules
<1> DEFINE J == OwnerInv /\ FreshInv
<1>1. Init => J
  BY OwnerInit, HistoryInit
<1>2. J /\ [Next]_vars => J'
  BY OwnerInductive, FreshStep
<1>3. J => FreshRules
  BY DEF FreshInv
<1> QED
  <2> HIDE DEF J
  <2> QED BY <1>1, <1>2, <1>3, PTL DEF Spec

-----------------------------------------------------------------------------
(* RamLaunch: the sets, sequences and numbers it needs *)

HIDE RamAssumption

LEMMA LeastOf ==
  ASSUME NEW T, T \subseteq Nat, T # {}
  PROVE  \E x \in T : \A y \in T : x <= y
  <1>1. PICK x \in T : \A y \in T : ~ (<<y, x>> \in OpToRel(<, Nat))
    <2>. HIDE DEF OpToRel
    <2>. QED BY NatLessThanWellFounded, WFMin
  <1>2. \A y \in T : ~ (y < x)
    BY <1>1 DEF OpToRel
  <1>. QED BY <1>2

\* Induction over the numbers from n up to m, as a fact about a set.
LEMMA FromTo ==
  ASSUME NEW n \in Nat, NEW m \in Nat, NEW A, n \in A, \A k \in n .. m - 1 : k \in A => k + 1 \in A
  PROVE  n .. m \subseteq A
  <1>. SUFFICES ASSUME (n .. m) \ A # {} PROVE FALSE
    OBVIOUS
  <1>1. PICK x \in (n .. m) \ A : \A y \in (n .. m) \ A : x <= y
    <2>. DEFINE T == (n .. m) \ A
    <2>1. T \subseteq Nat
      OBVIOUS
    <2>. HIDE DEF T
    <2>2. T # {} => \E x \in T : \A y \in T : x <= y
      BY <2>1, LeastOf
    <2>. QED BY <2>2 DEF T
  <1>2. x # n /\ x - 1 \in n .. m - 1 /\ x - 1 \in A
    BY <1>1
  <1>. QED BY <1>1, <1>2

-----------------------------------------------------------------------------
(* Joined texts and texts without some tokens, position by position *)

LEMMA OneToken ==
  ASSUME NEW T, NEW text \in Seq(T), Len(text) = 1
  PROVE  text = <<text[1]>>
  OBVIOUS

LEMMA SameText ==
  ASSUME NEW T, NEW a \in Seq(T), NEW b \in Seq(T), Len(a) = Len(b), \A i \in 1 .. Len(a) : a[i] = b[i]
  PROVE  a = b
  OBVIOUS

Glue(a, b) == a \o b
Joins(s, g, m) == g = [i \in 1 .. m |-> IF i = 1 THEN s[i] ELSE Glue(g[i - 1], s[i])]
JoinedUpTo(s) == CHOOSE g : Joins(s, g, Len(s))

LEMMA JoinedIs ==
  ASSUME NEW s
  PROVE  FlattenSeq(s) = IF Len(s) = 0 THEN s ELSE JoinedUpTo(s)[Len(s)]
  BY DEF FlattenSeq, JoinedUpTo, Joins, Glue

LEMMA Joined ==
  ASSUME NEW T, NEW s \in Seq(Seq(T)), s # <<>>
  PROVE  /\ FlattenSeq(s) = JoinedUpTo(s)[Len(s)] /\ Len(s) \in Nat \ {0}
         /\ JoinedUpTo(s)[1] = s[1]
         /\ \A i \in 2 .. Len(s) : JoinedUpTo(s)[i] = Glue(JoinedUpTo(s)[i - 1], s[i])
         /\ \A i \in 1 .. Len(s) : JoinedUpTo(s)[i] \in Seq(T)
  <1>. DEFINE A == {m \in Nat : \E g : Joins(s, g, m)}
              n == Len(s)
  <1>1. n \in Nat /\ n # 0 /\ \A i \in 1 .. n : s[i] \in Seq(T)
    OBVIOUS
  <1>. HIDE DEF n
  <1>2. 1 \in A
    <2>1. Joins(s, [i \in 1 .. 1 |-> s[1]], 1)
      <3>. DEFINE f == [i \in 1 .. 1 |-> s[1]]
      <3>1. f = [i \in 1 .. 1 |-> IF i = 1 THEN s[i] ELSE Glue(f[i - 1], s[i])]
        OBVIOUS
      <3>. QED BY <3>1 DEF Joins
    <2>. QED BY <2>1
  <1>3. ASSUME NEW k \in Nat \ {0}, k \in A PROVE k + 1 \in A
    <2>1. PICK g : Joins(s, g, k)
      BY <1>3
    <2>. DEFINE h == [i \in 1 .. k + 1 |-> IF i <= k THEN g[i] ELSE Glue(g[k], s[k + 1])]
    <2>2. ASSUME NEW i \in 1 .. k + 1
          PROVE  h[i] = IF i = 1 THEN s[i] ELSE Glue(h[i - 1], s[i])
      <3>1. CASE i = 1
        BY <2>1, <3>1 DEF Joins
      <3>2. CASE i # 1 /\ i <= k
        <4>1. i - 1 \in 1 .. k /\ i \in 1 .. k /\ h[i - 1] = g[i - 1] /\ h[i] = g[i]
          BY <3>2
        <4>2. g[i] = Glue(g[i - 1], s[i])
          BY <2>1, <3>2, <4>1 DEF Joins
        <4>. QED BY <3>2, <4>1, <4>2
      <3>3. CASE i = k + 1
        <4>1. i - 1 = k /\ h[i - 1] = g[k] /\ h[i] = Glue(g[k], s[k + 1])
          BY <3>3
        <4>. HIDE DEF h
        <4>. QED BY <3>3, <4>1
      <3>. QED BY <3>1, <3>2, <3>3
    <2>3. Joins(s, h, k + 1)
      <3>. DEFINE f == [i \in 1 .. k + 1 |-> IF i = 1 THEN s[i] ELSE Glue(h[i - 1], s[i])]
      <3>1. DOMAIN h = 1 .. k + 1 /\ h = [i \in 1 .. k + 1 |-> h[i]]
        OBVIOUS
      <3>. HIDE DEF h
      <3>2. h = f
        BY <2>2, <3>1
      <3>. QED BY <3>2 DEF Joins
    <2>. QED BY <2>3
  <1>4. \A k \in 1 .. n - 1 : k \in A => k + 1 \in A
    <2>. HIDE DEF A
    <2>. QED BY <1>1, <1>3
  <1>5. n \in A
    <2>. HIDE DEF A
    <2>1. 1 .. n \subseteq A
      BY <1>1, <1>2, <1>4, FromTo
    <2>. QED BY <1>1, <2>1
  <1>6. Joins(s, JoinedUpTo(s), n)
    BY <1>5 DEF JoinedUpTo, n
  <1>. DEFINE g == JoinedUpTo(s)
  <1>. HIDE DEF g
  <1>7. g[1] = s[1] /\ \A i \in 2 .. n : g[i] = Glue(g[i - 1], s[i])
    <2>1. g = [i \in 1 .. n |-> IF i = 1 THEN s[i] ELSE Glue(g[i - 1], s[i])]
      BY <1>6 DEF Joins, g
    <2>2. g[1] = s[1]
      BY <1>1, <2>1
    <2>3. ASSUME NEW i \in 2 .. n PROVE g[i] = Glue(g[i - 1], s[i])
      BY <1>1, <2>1
    <2>. QED BY <2>2, <2>3
  <1>8. \A i \in 1 .. n : g[i] \in Seq(T)
    <2>. DEFINE B == {i \in 1 .. n : g[i] \in Seq(T)}
    <2>1. 1 \in B
      BY <1>1, <1>7
    <2>2. ASSUME NEW k \in 1 .. n - 1, k \in B PROVE k + 1 \in B
      <3>1. k + 1 \in 2 .. n /\ k + 1 - 1 = k /\ k + 1 \in 1 .. n
        BY <1>1
      <3>2. g[k + 1] = Glue(g[k], s[k + 1])
        BY <1>7, <3>1
      <3>3. g[k] \in Seq(T) /\ s[k + 1] \in Seq(T)
        BY <1>1, <2>2, <3>1
      <3>4. Glue(g[k], s[k + 1]) \in Seq(T)
        BY <3>3 DEF Glue
      <3>. QED BY <3>1, <3>2, <3>4
    <2>. HIDE DEF B
    <2>3. 1 .. n \subseteq B
      BY <1>1, <2>1, <2>2, FromTo
    <2>. QED BY <2>3 DEF B
  <1>9. FlattenSeq(s) = g[n]
    BY <1>1, JoinedIs DEF g, n
  <1>. QED BY <1>1, <1>7, <1>8, <1>9 DEF g, n

Keep(kept, token, tokens) == IF token \in tokens THEN kept ELSE Append(kept, token)
Keeps(text, tokens, g, m) == g = [i \in 0 .. m |-> IF i = 0 THEN <<>> ELSE Keep(g[i - 1], text[i], tokens)]
KeptUpTo(text, tokens) == CHOOSE g : Keeps(text, tokens, g, Len(text))

LEMMA WithoutIs ==
  ASSUME NEW text, NEW tokens
  PROVE  Without(text, tokens) = KeptUpTo(text, tokens)[Len(text)]
  BY DEF Without, KeptUpTo, Keeps, Keep

LEMMA Kept ==
  ASSUME NEW T, NEW text \in Seq(T), NEW tokens
  PROVE  /\ Without(text, tokens) = KeptUpTo(text, tokens)[Len(text)] /\ Len(text) \in Nat
         /\ KeptUpTo(text, tokens)[0] = <<>>
         /\ \A i \in 1 .. Len(text) :
              KeptUpTo(text, tokens)[i] = Keep(KeptUpTo(text, tokens)[i - 1], text[i], tokens)
         /\ \A i \in 0 .. Len(text) : KeptUpTo(text, tokens)[i] \in Seq(T \ tokens)
  <1>. DEFINE A == {m \in Nat : \E g : Keeps(text, tokens, g, m)}
              n == Len(text)
  <1>1. n \in Nat /\ \A i \in 1 .. n : text[i] \in T
    OBVIOUS
  <1>. HIDE DEF n
  <1>2. 0 \in A
    <2>1. Keeps(text, tokens, [i \in 0 .. 0 |-> <<>>], 0)
      BY DEF Keeps
    <2>. QED BY <2>1
  <1>3. ASSUME NEW k \in Nat, k \in A PROVE k + 1 \in A
    <2>1. PICK g : Keeps(text, tokens, g, k)
      BY <1>3
    <2>. DEFINE h == [i \in 0 .. k + 1 |-> IF i <= k THEN g[i] ELSE Keep(g[k], text[k + 1], tokens)]
    <2>2. ASSUME NEW i \in 0 .. k + 1
          PROVE  h[i] = IF i = 0 THEN <<>> ELSE Keep(h[i - 1], text[i], tokens)
      <3>1. CASE i = 0
        BY <2>1, <3>1 DEF Keeps
      <3>2. CASE i # 0 /\ i <= k
        <4>1. i - 1 \in 0 .. k /\ i \in 0 .. k /\ h[i - 1] = g[i - 1] /\ h[i] = g[i]
          BY <3>2
        <4>2. g[i] = Keep(g[i - 1], text[i], tokens)
          BY <2>1, <3>2, <4>1 DEF Keeps
        <4>. QED BY <3>2, <4>1, <4>2
      <3>3. CASE i = k + 1
        <4>1. i - 1 = k /\ h[i - 1] = g[k] /\ h[i] = Keep(g[k], text[k + 1], tokens)
          BY <3>3
        <4>. HIDE DEF h
        <4>. QED BY <3>3, <4>1
      <3>. QED BY <3>1, <3>2, <3>3
    <2>3. Keeps(text, tokens, h, k + 1)
      <3>. DEFINE f == [i \in 0 .. k + 1 |-> IF i = 0 THEN <<>> ELSE Keep(h[i - 1], text[i], tokens)]
      <3>1. DOMAIN h = 0 .. k + 1 /\ h = [i \in 0 .. k + 1 |-> h[i]]
        OBVIOUS
      <3>. HIDE DEF h
      <3>2. h = f
        BY <2>2, <3>1
      <3>. QED BY <3>2 DEF Keeps
    <2>. QED BY <2>3
  <1>4. \A k \in 0 .. n - 1 : k \in A => k + 1 \in A
    <2>. HIDE DEF A
    <2>. QED BY <1>1, <1>3
  <1>5. n \in A
    <2>. HIDE DEF A
    <2>1. 0 .. n \subseteq A
      BY <1>1, <1>2, <1>4, FromTo
    <2>. QED BY <1>1, <2>1
  <1>6. Keeps(text, tokens, KeptUpTo(text, tokens), n)
    BY <1>5 DEF KeptUpTo, n
  <1>. DEFINE g == KeptUpTo(text, tokens)
  <1>. HIDE DEF g
  <1>7. g[0] = <<>> /\ \A i \in 1 .. n : g[i] = Keep(g[i - 1], text[i], tokens)
    <2>1. g = [i \in 0 .. n |-> IF i = 0 THEN <<>> ELSE Keep(g[i - 1], text[i], tokens)]
      BY <1>6 DEF Keeps, g
    <2>2. g[0] = <<>>
      BY <1>1, <2>1
    <2>3. ASSUME NEW i \in 1 .. n PROVE g[i] = Keep(g[i - 1], text[i], tokens)
      BY <1>1, <2>1
    <2>. QED BY <2>2, <2>3
  <1>8. \A i \in 0 .. n : g[i] \in Seq(T \ tokens)
    <2>. DEFINE B == {i \in 0 .. n : g[i] \in Seq(T \ tokens)}
    <2>1. 0 \in B
      <3>1. <<>> \in Seq(T \ tokens) /\ 0 \in 0 .. n
        BY <1>1
      <3>. QED BY <1>7, <3>1
    <2>2. ASSUME NEW k \in 0 .. n - 1, k \in B PROVE k + 1 \in B
      <3>1. k + 1 \in 1 .. n /\ k + 1 - 1 = k /\ k + 1 \in 0 .. n
        BY <1>1
      <3>2. g[k + 1] = Keep(g[k], text[k + 1], tokens)
        BY <1>7, <3>1
      <3>3. g[k] \in Seq(T \ tokens) /\ text[k + 1] \in T
        BY <1>1, <2>2, <3>1
      <3>4. Keep(g[k], text[k + 1], tokens) \in Seq(T \ tokens)
        BY <3>3 DEF Keep
      <3>. QED BY <3>1, <3>2, <3>4
    <2>. HIDE DEF B
    <2>3. 0 .. n \subseteq B
      BY <1>1, <2>1, <2>2, FromTo
    <2>. QED BY <2>3 DEF B
  <1>. QED BY <1>1, <1>7, <1>8, WithoutIs DEF g, n

LEMMA WithoutType ==
  ASSUME NEW T, NEW text \in Seq(T), NEW tokens
  PROVE  Without(text, tokens) \in Seq(T \ tokens)
  <1>1. /\ Without(text, tokens) = KeptUpTo(text, tokens)[Len(text)] /\ Len(text) \in Nat
        /\ \A i \in 0 .. Len(text) : KeptUpTo(text, tokens)[i] \in Seq(T \ tokens)
    BY Kept
  <1>2. Len(text) \in 0 .. Len(text)
    BY <1>1
  <1>. QED BY <1>1, <1>2

-----------------------------------------------------------------------------
(* A path as text *)

Words == Tokens \ Separators

\* A path is every second token of its text.
LEMMA SlashedIs ==
  ASSUME NEW path \in Seq(Words)
  PROVE  /\ Slashed(path) \in Seq(Words \cup {"/"}) /\ Slashed(path) # <<>> /\ Slashed(path)[1] = "/"
         /\ path # <<>> => /\ Len(Slashed(path)) = 2 * Len(path)
                           /\ \A k \in 1 .. Len(path) : /\ Slashed(path)[2 * k - 1] = "/"
                                                        /\ Slashed(path)[2 * k] = path[k]
  <1>1. CASE path = <<>>
    <2>1. Slashed(path) = <<"/">>
      BY <1>1 DEF Slashed
    <2>2. <<"/">> \in Seq(Words \cup {"/"})
      OBVIOUS
    <2>. DEFINE z == <<"/">>
    <2>3. z # <<>> /\ z[1] = "/"
      OBVIOUS
    <2>. HIDE DEF z
    <2>4. Slashed(path) = z /\ z \in Seq(Words \cup {"/"})
      BY <2>1, <2>2 DEF z
    <2>. QED BY <1>1, <2>3, <2>4
  <1>2. CASE path # <<>>
    <2>. DEFINE T == Words \cup {"/"}
                s == [i \in DOMAIN path |-> <<"/", path[i]>>]
                g == JoinedUpTo(s)
                n == Len(path)
    <2>1. n \in Nat \ {0} /\ DOMAIN path = 1 .. n /\ \A i \in 1 .. n : path[i] \in Words
      BY <1>2
    <2>2. s \in Seq(Seq(T)) /\ Len(s) = n /\ s # <<>> /\ \A i \in 1 .. n : s[i] = <<"/", path[i]>>
      <3>. HIDE DEF n
      <3>1. s \in [1 .. n -> Seq(T)]
        BY <2>1
      <3>2. \A i \in 1 .. n : s[i] = <<"/", path[i]>>
        BY <2>1
      <3>. HIDE DEF s, T
      <3>3. s \in Seq(Seq(T)) /\ Len(s) = n
        BY <2>1, <3>1
      <3>. QED BY <2>1, <3>2, <3>3
    <2>3. Slashed(path) = FlattenSeq(s)
      BY <1>2 DEF Slashed
    <2>. HIDE DEF s, n, T
    <2>4. /\ FlattenSeq(s) = g[n] /\ g[1] = s[1]
          /\ \A i \in 2 .. n : g[i] = Glue(g[i - 1], s[i])
          /\ \A i \in 1 .. n : g[i] \in Seq(T)
      BY <2>2, Joined
    <2>. HIDE DEF g
    <2>. DEFINE B == {i \in 1 .. n : /\ Len(g[i]) = 2 * i
                                     /\ \A k \in 1 .. i : g[i][2 * k - 1] = "/" /\ g[i][2 * k] = path[k]}
    <2>5. 1 \in B
      <3>1. g[1] = <<"/", path[1]>>
        BY <2>1, <2>2, <2>4
      <3>. DEFINE v == <<"/", path[1]>>
      <3>2. Len(v) = 2 /\ v[1] = "/" /\ v[2] = path[1]
        OBVIOUS
      <3>. HIDE DEF v
      <3>3. g[1] = v
        BY <3>1 DEF v
      <3>4. \A k \in 1 .. 1 : k = 1
        OBVIOUS
      <3>5. 2 * 1 - 1 = 1 /\ 2 * 1 = 2
        OBVIOUS
      <3>6. Len(g[1]) = 2 * 1 /\ \A k \in 1 .. 1 : g[1][2 * k - 1] = "/" /\ g[1][2 * k] = path[k]
        BY <3>2, <3>3, <3>4, <3>5
      <3>. QED BY <2>1, <3>6
    <2>6. ASSUME NEW j \in 1 .. n - 1, j \in B PROVE j + 1 \in B
      <3>1. j + 1 \in 2 .. n /\ j + 1 - 1 = j /\ j + 1 \in 1 .. n /\ j \in 1 .. n /\ j \in Nat
        BY <2>1
      <3>2. g[j + 1] = Glue(g[j], s[j + 1])
        BY <2>4, <3>1
      <3>3. g[j] \in Seq(T) /\ Len(g[j]) = 2 * j
            /\ \A k \in 1 .. j : g[j][2 * k - 1] = "/" /\ g[j][2 * k] = path[k]
        BY <2>4, <2>6, <3>1
      <3>. DEFINE u == g[j]
                  v == s[j + 1]
      <3>4. v = <<"/", path[j + 1]>> /\ v \in Seq(T)
        BY <2>2, <3>1
      <3>0. Len(v) = 2 /\ v[1] = "/" /\ v[2] = path[j + 1]
        BY <3>4
      <3>. HIDE DEF u, v
      <3>5. u \in Seq(T) /\ Len(u) = 2 * j
        BY <3>3 DEF u
      <3>6. /\ Len(u \o v) = 2 * j + 2 /\ (u \o v)[2 * j + 1] = "/" /\ (u \o v)[2 * j + 2] = path[j + 1]
            /\ \A i \in 1 .. 2 * j : (u \o v)[i] = u[i]
        <4>1. /\ Len(u \o v) = Len(u) + Len(v)
              /\ \A i \in 1 .. Len(u) : (u \o v)[i] = u[i]
              /\ \A i \in 1 .. Len(v) : (u \o v)[Len(u) + i] = v[i]
          <5>1. u \in Seq(T) /\ v \in Seq(T)
            BY <3>4, <3>5
          <5>. QED BY <5>1
        <4>. DEFINE w == u \o v
        <4>. HIDE DEF w
        <4>2. /\ Len(w) = 2 * j + 2 /\ \A i \in 1 .. 2 * j : w[i] = u[i]
              /\ \A i \in 1 .. 2 : w[2 * j + i] = v[i]
          BY <3>0, <3>5, <4>1 DEF w
        <4>3. w[2 * j + 1] = v[1] /\ w[2 * j + 2] = v[2]
          BY <4>2
        <4>. QED BY <3>0, <4>2, <4>3 DEF w
      <3>7. ASSUME NEW k \in 1 .. j + 1
            PROVE  (u \o v)[2 * k - 1] = "/" /\ (u \o v)[2 * k] = path[k]
        <4>1. CASE k = j + 1
          <5>1. 2 * k - 1 = 2 * j + 1 /\ 2 * k = 2 * j + 2
            BY <3>1, <4>1
          <5>. QED BY <3>6, <4>1, <5>1
        <4>2. CASE k \in 1 .. j
          <5>1. 2 * k - 1 \in 1 .. 2 * j /\ 2 * k \in 1 .. 2 * j
            BY <3>1, <4>2
          <5>2. u[2 * k - 1] = "/" /\ u[2 * k] = path[k]
            BY <3>3, <4>2 DEF u
          <5>. QED BY <3>6, <5>1, <5>2
        <4>3. k = j + 1 \/ k \in 1 .. j
          BY <3>1
        <4>. QED BY <4>1, <4>2, <4>3
      <3>8. g[j + 1] = u \o v
        BY <3>2 DEF Glue, u, v
      <3>9. Len(g[j + 1]) = 2 * (j + 1)
        BY <3>1, <3>6, <3>8
      <3>. QED BY <3>1, <3>7, <3>8, <3>9
    <2>. HIDE DEF B
    <2>7. 1 .. n \subseteq B
      BY <2>1, <2>5, <2>6, FromTo
    <2>8. n \in B
      BY <2>1, <2>7
    <2>. DEFINE z == g[n]
    <2>9. /\ Len(z) = 2 * n /\ z \in Seq(T)
          /\ \A k \in 1 .. n : z[2 * k - 1] = "/" /\ z[2 * k] = path[k]
      BY <2>1, <2>4, <2>8 DEF B
    <2>10. Slashed(path) = z
      BY <2>3, <2>4
    <2>. HIDE DEF z
    <2>11. z # <<>> /\ z[1] = "/"
      <3>1. z[2 * 1 - 1] = "/"
        BY <2>1, <2>9
      <3>. QED BY <2>1, <2>9, <3>1
    <2>. QED BY <2>9, <2>10, <2>11 DEF n, T
  <1>. QED BY <1>1, <1>2

\* What ram makes of the text of a path is the path.
LEMMA PathAgain ==
  ASSUME NEW path \in Seq(Words)
  PROVE  Segments(Slashed(path)) = path
  <1>. DEFINE T == Words \cup {"/"}
              S == Slashed(path)
              K == KeptUpTo(S, {"/"})
              n == Len(path)
  <1>1. S \in Seq(T) /\ n \in Nat /\ \A k \in 1 .. n : path[k] \in Words /\ path[k] \notin {"/"}
    <2>1. S \in Seq(T)
      BY SlashedIs
    <2>2. "/" \notin Words
      BY DEF Words, Separators
    <2>3. n \in Nat /\ \A k \in 1 .. n : path[k] \in Words
      OBVIOUS
    <2>. HIDE DEF n, S, T
    <2>. QED BY <2>1, <2>2, <2>3
  <1>2. /\ Segments(S) = K[Len(S)] /\ Len(S) \in Nat /\ K[0] = <<>>
        /\ \A i \in 1 .. Len(S) : K[i] = Keep(K[i - 1], S[i], {"/"})
    <2>. HIDE DEF T, S
    <2>. QED BY <1>1, Kept DEF Segments
  <1>3. CASE path = <<>>
    <2>1. S = <<"/">>
      BY <1>3 DEF Slashed
    <2>. HIDE DEF S, K
    <2>2. Len(S) = 1 /\ S[1] = "/"
      BY <2>1
    <2>3. K[1] = Keep(K[0], "/", {"/"})
      BY <1>2, <2>2
    <2>4. K[1] = <<>>
      BY <1>2, <2>3 DEF Keep
    <2>. QED BY <1>2, <1>3, <2>2, <2>4 DEF S
  <1>4. CASE path # <<>>
    <2>1. Len(S) = 2 * n /\ \A k \in 1 .. n : S[2 * k - 1] = "/" /\ S[2 * k] = path[k]
      BY <1>4, SlashedIs
    <2>. HIDE DEF T, S, K
    <2>. DEFINE B == {k \in 0 .. n : K[2 * k] = SubSeq(path, 1, k)}
    <2>2. 0 \in B
      <3>1. SubSeq(path, 1, 0) = <<>> /\ 2 * 0 = 0
        OBVIOUS
      <3>2. K[2 * 0] = SubSeq(path, 1, 0)
        BY <1>2, <3>1
      <3>. QED BY <1>1, <3>2
    <2>3. ASSUME NEW j \in 0 .. n - 1, j \in B PROVE j + 1 \in B
      <3>1. /\ j \in Nat /\ j + 1 \in 1 .. n /\ j + 1 \in 0 .. n
            /\ 2 * j + 1 \in 1 .. Len(S) /\ 2 * j + 2 \in 1 .. Len(S)
            /\ 2 * (j + 1) - 1 = 2 * j + 1 /\ 2 * (j + 1) = 2 * j + 2
            /\ 2 * j + 1 - 1 = 2 * j /\ 2 * j + 2 - 1 = 2 * j + 1
        BY <1>1, <2>1
      <3>2. S[2 * j + 1] = "/" /\ S[2 * j + 2] = path[j + 1]
        BY <2>1, <3>1
      <3>3. K[2 * j + 1] = K[2 * j]
        <4>1. K[2 * j + 1] = Keep(K[2 * j], "/", {"/"})
          BY <1>2, <3>1, <3>2
        <4>. QED BY <4>1 DEF Keep
      <3>4. K[2 * j + 2] = Append(K[2 * j + 1], path[j + 1])
        <4>1. K[2 * j + 2] = Keep(K[2 * j + 1], path[j + 1], {"/"})
          BY <1>2, <3>1, <3>2
        <4>2. path[j + 1] \notin {"/"}
          BY <1>1, <3>1
        <4>. QED BY <4>1, <4>2 DEF Keep
      <3>5. K[2 * j] = SubSeq(path, 1, j)
        BY <2>3
      <3>6. Append(SubSeq(path, 1, j), path[j + 1]) = SubSeq(path, 1, j + 1)
        BY <3>1
      <3>7. K[2 * (j + 1)] = SubSeq(path, 1, j + 1)
        BY <3>1, <3>3, <3>4, <3>5, <3>6
      <3>. QED BY <3>1, <3>7
    <2>. HIDE DEF B
    <2>4. 0 .. n \subseteq B
      BY <1>1, <2>2, <2>3, FromTo
    <2>5. K[2 * n] = SubSeq(path, 1, n)
      BY <1>1, <2>4 DEF B
    <2>6. SubSeq(path, 1, n) = path
      OBVIOUS
    <2>. QED BY <1>2, <2>1, <2>5, <2>6 DEF S
  <1>. QED BY <1>3, <1>4

LaunchPaths == [path : Seq(Words), perm : {"rw", "ro"}]

LEMMA PathTextIs ==
  ASSUME NEW p \in LaunchPaths
  PROVE  /\ PathText(p) \in Seq(Words \cup {"/", ":"}) /\ PathText(p) # <<>> /\ PathText(p)[1] = "/"
         /\ ItemIsRead(PathText(p)) /\ ReadItem(PathText(p)) = p
  <1>. DEFINE S == Slashed(p.path)
              T == Words \cup {"/", ":"}
  <1>1. /\ S \in Seq(Words \cup {"/"}) /\ S # <<>> /\ S[1] = "/" /\ Segments(S) = p.path
        /\ p.perm \in {"rw", "ro"} /\ p = [path |-> p.path, perm |-> p.perm]
    BY SlashedIs, PathAgain DEF LaunchPaths
  <1>2. "rw" \in Words /\ ":" \notin Words
    BY LaunchAssumption DEF Words, Separators
  <1>. HIDE DEF S
  <1>3. Len(S) \in Nat \ {0} /\ S \in Seq(T) /\ \A i \in 1 .. Len(S) : S[i] # ":"
    BY <1>1, <1>2
  <1>4. CASE p.perm = "ro"
    <2>1. PathText(p) = S
      <3>1. PathText(p) = S \o <<>>
        BY <1>4 DEF PathText, S
      <3>. QED BY <1>3, <3>1
    <2>2. Where(S, ":") = {}
      BY <1>3 DEF Where
    <2>3. ReadItem(S) = [path |-> Segments(S), perm |-> "ro"]
      BY <2>2 DEF ReadItem
    <2>. QED BY <1>1, <1>3, <1>4, <2>1, <2>2, <2>3 DEF ItemIsRead
  <1>5. CASE p.perm = "rw"
    <2>. DEFINE t == S \o <<":", "rw">>
                n == Len(S)
    <2>1. PathText(p) = t
      BY <1>5 DEF PathText, S
    <2>2. <<":", "rw">> \in Seq(T)
      BY <1>2
    <2>3. /\ t \in Seq(T) /\ n \in Nat \ {0} /\ Len(t) = n + 2 /\ DOMAIN t = 1 .. n + 2
          /\ \A i \in 1 .. n : t[i] = S[i]
          /\ t[n + 1] = ":" /\ t[n + 2] = "rw"
      BY <1>3, <2>2
    <2>. HIDE DEF t, n
    <2>4. Where(t, ":") = {n + 1}
      BY <1>3, <2>3 DEF Where, n
    <2>5. FirstAt(t, ":") = n + 1
      BY <2>3, <2>4 DEF FirstAt, Min
    <2>6. After(t, n + 1) = <<"rw">>
      <3>1. After(t, n + 1) = SubSeq(t, n + 2, n + 2)
        BY <2>3 DEF After
      <3>2. /\ SubSeq(t, n + 2, n + 2) \in Seq(T) /\ Len(SubSeq(t, n + 2, n + 2)) = 1
            /\ SubSeq(t, n + 2, n + 2)[1] = "rw"
        BY <2>3
      <3>. DEFINE z == SubSeq(t, n + 2, n + 2)
      <3>. HIDE DEF z
      <3>3. z = <<"rw">>
        BY <3>2, OneToken DEF z
      <3>. QED BY <3>1, <3>3 DEF z
    <2>7. Before(t, n + 1) = S
      <3>1. /\ SubSeq(t, 1, n) \in Seq(T) /\ Len(SubSeq(t, 1, n)) = n
            /\ \A i \in 1 .. n : SubSeq(t, 1, n)[i] = S[i]
        BY <2>3
      <3>2. SubSeq(t, 1, n) = S
        BY <1>3, <3>1 DEF n
      <3>. QED BY <2>3, <3>2 DEF Before
    <2>8. ReadItem(t) = [path |-> Segments(S), perm |-> "rw"]
      BY <2>3, <2>4, <2>5, <2>7 DEF ReadItem
    <2>9. ItemIsRead(t)
      BY <2>5, <2>6 DEF ItemIsRead
    <2>10. t # <<>> /\ t[1] = "/"
      BY <1>1, <2>3
    <2>. QED BY <1>1, <1>5, <2>1, <2>3, <2>8, <2>9, <2>10
  <1>. QED BY <1>1, <1>4, <1>5

-----------------------------------------------------------------------------
(* The items of a joined text *)

LEMMA ItemsAre ==
  ASSUME NEW text, NEW x
  PROVE  x \in Items(text) <=> \E i, j \in DOMAIN text : IsItem(text, i, j) /\ x = SubSeq(text, i, j)
  <1>. DEFINE W == {v \in (DOMAIN text) \X (DOMAIN text) : IsItem(text, v[1], v[2])}
  <1>1. ASSUME NEW i \in DOMAIN text, NEW j \in DOMAIN text, IsItem(text, i, j), x = SubSeq(text, i, j)
        PROVE  x \in Items(text)
    <2>1. <<i, j>> \in W /\ <<i, j>>[1] = i /\ <<i, j>>[2] = j
      BY <1>1
    <2>. QED BY <1>1, <2>1 DEF Items
  <1>2. ASSUME x \in Items(text)
        PROVE  \E i, j \in DOMAIN text : IsItem(text, i, j) /\ x = SubSeq(text, i, j)
    <2>1. PICK w \in W : x = SubSeq(text, w[1], w[2])
      BY <1>2 DEF Items
    <2>2. w[1] \in DOMAIN text /\ w[2] \in DOMAIN text /\ IsItem(text, w[1], w[2])
      BY <2>1
    <2>. QED BY <2>1, <2>2
  <1>. QED BY <1>1, <1>2

LEMMA ItemsOfOne ==
  ASSUME NEW T, NEW t \in Seq(T), t # <<>>, \A i \in 1 .. Len(t) : t[i] # "comma"
  PROVE  Items(t) = {t}
  <1>. DEFINE n == Len(t)
  <1>1. n \in Nat \ {0} /\ DOMAIN t = 1 .. n /\ SubSeq(t, 1, n) = t
    OBVIOUS
  <1>. HIDE DEF n
  <1>2. IsItem(t, 1, n)
    BY <1>1 DEF IsItem, n
  <1>3. ASSUME NEW i \in 1 .. n, NEW j \in 1 .. n, IsItem(t, i, j) PROVE i = 1 /\ j = n
    <2>1. i = 1
      <3>1. i # 1 => i - 1 \in 1 .. Len(t)
        BY <1>1, <1>3 DEF n
      <3>. QED BY <1>3, <3>1 DEF IsItem
    <2>2. j = n
      <3>1. j # n => j + 1 \in 1 .. n
        BY <1>1
      <3>2. j = n \/ t[j + 1] = "comma"
        BY <1>3 DEF IsItem, n
      <3>3. \A k \in 1 .. n : t[k] # "comma"
        BY DEF n
      <3>. QED BY <3>1, <3>2, <3>3
    <2>. QED BY <2>1, <2>2
  <1>4. 1 \in 1 .. n /\ n \in 1 .. n
    BY <1>1
  <1>5. ASSUME NEW x PROVE x \in Items(t) <=> x = t
    <2>1. x \in Items(t) <=> \E i, j \in 1 .. n : IsItem(t, i, j) /\ x = SubSeq(t, i, j)
      <3>1. x \in Items(t) <=> \E i, j \in DOMAIN t : IsItem(t, i, j) /\ x = SubSeq(t, i, j)
        BY ItemsAre
      <3>. QED BY <1>1, <3>1
    <2>. QED BY <1>1, <1>2, <1>3, <1>4, <2>1
  <1>. QED BY <1>5

LEMMA ItemsOfMore ==
  ASSUME NEW T, "comma" \in T, NEW s \in Seq(T), NEW t \in Seq(T), t # <<>>,
         \A i \in 1 .. Len(t) : t[i] # "comma"
  PROVE  Items(s \o (<<"comma">> \o t)) = Items(s) \cup {t}
  <1>. DEFINE c == <<"comma">> \o t
              u == s \o c
              n == Len(s)
              m == Len(t)
  <1>1. n \in Nat /\ m \in Nat \ {0} /\ DOMAIN s = 1 .. n /\ DOMAIN t = 1 .. m
    OBVIOUS
  <1>2. /\ c \in Seq(T) /\ Len(c) = m + 1 /\ c[1] = "comma"
        /\ \A i \in 1 .. m : c[i + 1] = t[i]
    OBVIOUS
  <1>. HIDE DEF c
  <1>3. /\ u \in Seq(T) /\ Len(u) = n + (m + 1)
        /\ \A i \in 1 .. n : u[i] = s[i]
        /\ \A i \in 1 .. m + 1 : u[n + i] = c[i]
    <2>1. /\ u \in Seq(T) /\ Len(u) = Len(s) + Len(c)
          /\ \A i \in 1 .. Len(s) : u[i] = s[i]
          /\ \A i \in 1 .. Len(c) : u[Len(s) + i] = c[i]
      <3>1. c \in Seq(T)
        BY <1>2
      <3>. HIDE DEF n, m
      <3>. QED BY <3>1
    <2>. HIDE DEF u, m
    <2>. QED BY <1>2, <2>1
  <1>. HIDE DEF u, n, m
  <1>4. DOMAIN u = 1 .. n + m + 1 /\ Len(u) = n + m + 1
    BY <1>1, <1>3
  <1>5. u[n + 1] = "comma" /\ \A i \in 1 .. m : u[n + 1 + i] = t[i] /\ t[i] # "comma"
    <2>1. u[n + 1] = "comma"
      BY <1>1, <1>2, <1>3
    <2>2. ASSUME NEW i \in 1 .. m PROVE u[n + 1 + i] = t[i] /\ t[i] # "comma"
      <3>1. i + 1 \in 1 .. m + 1 /\ n + 1 + i = n + (i + 1)
        BY <1>1
      <3>2. u[n + (i + 1)] = c[i + 1]
        BY <1>3, <3>1
      <3>3. c[i + 1] = t[i] /\ t[i] # "comma"
        BY <1>2 DEF m
      <3>. QED BY <3>1, <3>2, <3>3
    <2>. QED BY <2>1, <2>2
  <1>6. \A i \in n + 2 .. n + m + 1 : u[i] # "comma"
    <2>1. ASSUME NEW i \in n + 2 .. n + m + 1 PROVE u[i] # "comma"
      <3>1. i - (n + 1) \in 1 .. m /\ n + 1 + (i - (n + 1)) = i
        BY <1>1
      <3>. QED BY <1>5, <3>1
    <2>. QED BY <2>1
  <1>7. ASSUME NEW i \in 1 .. n, NEW j \in 1 .. n
        PROVE  /\ IsItem(u, i, j) <=> IsItem(s, i, j)
               /\ i <= j => SubSeq(u, i, j) = SubSeq(s, i, j)
    <2>1. \A k \in i .. j : u[k] = s[k]
      BY <1>1, <1>3
    <2>2. i # 1 => u[i - 1] = s[i - 1]
      BY <1>1, <1>3
    <2>3. IF j = n THEN u[j + 1] = "comma" ELSE u[j + 1] = s[j + 1]
      BY <1>1, <1>3, <1>5
    <2>4. j # Len(u)
      BY <1>1, <1>4
    <2>5. IsItem(u, i, j) <=> IsItem(s, i, j)
      BY <2>1, <2>2, <2>3, <2>4 DEF IsItem, n
    <2>6. ASSUME i <= j PROVE SubSeq(u, i, j) = SubSeq(s, i, j)
      <3>1. /\ SubSeq(u, i, j) \in Seq(T) /\ Len(SubSeq(u, i, j)) = j - i + 1
            /\ \A k \in 1 .. j - i + 1 : SubSeq(u, i, j)[k] = u[i + k - 1]
        BY <1>1, <1>3, <1>4, <2>6
      <3>2. /\ SubSeq(s, i, j) \in Seq(T) /\ Len(SubSeq(s, i, j)) = j - i + 1
            /\ \A k \in 1 .. j - i + 1 : SubSeq(s, i, j)[k] = s[i + k - 1]
        BY <1>1, <2>6 DEF n
      <3>3. \A k \in 1 .. j - i + 1 : u[i + k - 1] = s[i + k - 1]
        BY <1>1, <2>1
      <3>. DEFINE a == SubSeq(u, i, j)
                  b == SubSeq(s, i, j)
      <3>4. /\ a \in Seq(T) /\ b \in Seq(T) /\ Len(a) = j - i + 1 /\ Len(b) = j - i + 1
            /\ \A k \in 1 .. j - i + 1 : a[k] = b[k]
        BY <3>1, <3>2, <3>3
      <3>. HIDE DEF a, b
      <3>5. a = b
        BY <3>4, SameText
      <3>. QED BY <3>5 DEF a, b
    <2>. QED BY <2>5, <2>6
  <1>8. IsItem(u, n + 2, n + m + 1) /\ SubSeq(u, n + 2, n + m + 1) = t
    <2>1. IsItem(u, n + 2, n + m + 1)
      BY <1>1, <1>4, <1>5, <1>6 DEF IsItem
    <2>2. /\ SubSeq(u, n + 2, n + m + 1) \in Seq(T) /\ Len(SubSeq(u, n + 2, n + m + 1)) = m
          /\ \A k \in 1 .. m : SubSeq(u, n + 2, n + m + 1)[k] = u[n + 1 + k]
      BY <1>1, <1>3, <1>4
    <2>3. SubSeq(u, n + 2, n + m + 1) = t
      <3>. DEFINE a == SubSeq(u, n + 2, n + m + 1)
      <3>1. a \in Seq(T) /\ Len(a) = Len(t) /\ \A k \in 1 .. Len(t) : a[k] = t[k]
        BY <1>5, <2>2 DEF m
      <3>. HIDE DEF a
      <3>2. a = t
        BY <3>1, SameText
      <3>. QED BY <3>2 DEF a
    <2>. QED BY <2>1, <2>3
  <1>9. ASSUME NEW i \in DOMAIN u, NEW j \in DOMAIN u, IsItem(u, i, j)
        PROVE  (i \in 1 .. n /\ j \in 1 .. n) \/ (i = n + 2 /\ j = n + m + 1)
    <2>1. i <= j /\ ~ (i <= n + 1 /\ n + 1 <= j)
      BY <1>1, <1>4, <1>5, <1>9 DEF IsItem
    <2>2. CASE j <= n
      <3>1. i \in 1 .. n /\ j \in 1 .. n
        BY <1>1, <1>4, <2>1, <2>2
      <3>. QED BY <3>1
    <2>3. CASE i >= n + 2
      <3>1. i # n + 2 => i # 1 /\ i - 1 \in n + 2 .. n + m + 1
        BY <1>1, <1>4, <2>3
      <3>2. j # n + m + 1 => j + 1 \in n + 2 .. n + m + 1
        BY <1>1, <1>4, <2>1, <2>3
      <3>. QED BY <1>4, <1>6, <1>9, <3>1, <3>2 DEF IsItem
    <2>. QED BY <1>1, <1>4, <2>1, <2>2, <2>3
  <1>10. ASSUME NEW x PROVE x \in Items(u) <=> x \in Items(s) \cup {t}
    <2>1. ASSUME x \in Items(u) PROVE x \in Items(s) \cup {t}
      <3>1. PICK i \in DOMAIN u, j \in DOMAIN u : IsItem(u, i, j) /\ x = SubSeq(u, i, j)
        BY <2>1, ItemsAre
      <3>2. CASE i \in 1 .. n /\ j \in 1 .. n
        <4>1. i <= j
          BY <3>1 DEF IsItem
        <4>2. IsItem(s, i, j) /\ x = SubSeq(s, i, j)
          BY <1>7, <3>1, <3>2, <4>1
        <4>. QED BY <1>1, <3>2, <4>2, ItemsAre
      <3>3. CASE i = n + 2 /\ j = n + m + 1
        BY <1>8, <3>1, <3>3
      <3>. QED BY <1>9, <3>1, <3>2, <3>3
    <2>2. ASSUME x \in Items(s) PROVE x \in Items(u)
      <3>1. PICK i \in DOMAIN s, j \in DOMAIN s : IsItem(s, i, j) /\ x = SubSeq(s, i, j)
        BY <2>2, ItemsAre
      <3>2. i \in 1 .. n /\ j \in 1 .. n /\ i <= j /\ i \in DOMAIN u /\ j \in DOMAIN u
        BY <1>1, <1>4, <3>1 DEF IsItem
      <3>3. IsItem(u, i, j) /\ x = SubSeq(u, i, j)
        BY <1>7, <3>1, <3>2
      <3>. QED BY <3>2, <3>3, ItemsAre
    <2>3. ASSUME x = t PROVE x \in Items(u)
      <3>1. n + 2 \in DOMAIN u /\ n + m + 1 \in DOMAIN u
        BY <1>1, <1>4
      <3>. QED BY <1>8, <2>3, <3>1, ItemsAre
    <2>. QED BY <2>1, <2>2, <2>3
  <1>. QED BY <1>10 DEF u, c

LaunchTokens == Words \cup {"/", ":", "comma"}

LEMMA PiecesAre ==
  ASSUME NEW ps \in Seq(LaunchPaths)
  PROVE  LET s == [i \in DOMAIN ps |-> Piece(ps, i)]
         IN /\ s \in Seq(Seq(LaunchTokens)) /\ Len(s) = Len(ps) /\ PathsText(ps) = FlattenSeq(s)
            /\ \A i \in 1 .. Len(ps) :
                 /\ PathText(ps[i]) \in Seq(LaunchTokens) /\ PathText(ps[i]) # <<>> /\ PathText(ps[i])[1] = "/"
                 /\ \A k \in 1 .. Len(PathText(ps[i])) : PathText(ps[i])[k] # "comma"
                 /\ s[i] = IF i = 1 THEN PathText(ps[i]) ELSE <<"comma">> \o PathText(ps[i])
  <1>. DEFINE n == Len(ps)
              s == [i \in DOMAIN ps |-> Piece(ps, i)]
  <1>1. n \in Nat /\ DOMAIN ps = 1 .. n /\ \A i \in 1 .. n : ps[i] \in LaunchPaths
    OBVIOUS
  <1>. HIDE DEF n
  <1>2. ASSUME NEW i \in 1 .. n
        PROVE  /\ PathText(ps[i]) \in Seq(LaunchTokens) /\ PathText(ps[i]) # <<>> /\ PathText(ps[i])[1] = "/"
               /\ \A k \in 1 .. Len(PathText(ps[i])) : PathText(ps[i])[k] # "comma"
               /\ s[i] = IF i = 1 THEN PathText(ps[i]) ELSE <<"comma">> \o PathText(ps[i])
               /\ s[i] \in Seq(LaunchTokens)
    <2>. DEFINE t == PathText(ps[i])
    <2>1. t \in Seq(Words \cup {"/", ":"}) /\ t # <<>> /\ t[1] = "/"
      BY <1>1, PathTextIs
    <2>2. s[i] = (IF i = 1 THEN <<>> ELSE <<"comma">>) \o t
      BY <1>1 DEF Piece
    <2>. HIDE DEF t, s
    <2>3. "comma" \notin Words \cup {"/", ":"}
      BY DEF Words, Separators
    <2>4. t \in Seq(LaunchTokens) /\ \A k \in 1 .. Len(t) : t[k] # "comma"
      BY <2>1, <2>3 DEF LaunchTokens
    <2>5. s[i] = IF i = 1 THEN t ELSE <<"comma">> \o t
      <3>1. <<>> \o t = t
        BY <2>4
      <3>. QED BY <2>2, <3>1
    <2>6. <<"comma">> \o t \in Seq(LaunchTokens)
      <3>1. <<"comma">> \in Seq(LaunchTokens)
        BY DEF LaunchTokens
      <3>. QED BY <2>4, <3>1
    <2>. QED BY <2>1, <2>4, <2>5, <2>6 DEF t
  <1>3. s \in Seq(Seq(LaunchTokens)) /\ Len(s) = n
    <2>1. DOMAIN s = 1 .. n /\ s = [i \in 1 .. n |-> s[i]]
      BY <1>1
    <2>. HIDE DEF s
    <2>2. s \in [1 .. n -> Seq(LaunchTokens)]
      BY <1>2, <2>1
    <2>. QED BY <1>1, <2>2
  <1>4. PathsText(ps) = FlattenSeq(s)
    BY DEF PathsText
  <1>. QED BY <1>2, <1>3, <1>4 DEF n

LEMMA PathsTextIs ==
  ASSUME NEW ps \in Seq(LaunchPaths)
  PROVE  /\ PathsText(ps) \in Seq(LaunchTokens)
         /\ ps # <<>> => /\ PathsText(ps) # <<>> /\ PathsText(ps)[1] = "/"
                         /\ Items(PathsText(ps)) = {PathText(ps[k]) : k \in 1 .. Len(ps)}
  <1>. DEFINE T == LaunchTokens
              n == Len(ps)
              s == [i \in DOMAIN ps |-> Piece(ps, i)]
              g == JoinedUpTo(s)
  <1>1. /\ s \in Seq(Seq(T)) /\ Len(s) = n /\ PathsText(ps) = FlattenSeq(s) /\ n \in Nat
        /\ \A i \in 1 .. n :
             /\ PathText(ps[i]) \in Seq(T) /\ PathText(ps[i]) # <<>> /\ PathText(ps[i])[1] = "/"
             /\ \A k \in 1 .. Len(PathText(ps[i])) : PathText(ps[i])[k] # "comma"
             /\ s[i] = IF i = 1 THEN PathText(ps[i]) ELSE <<"comma">> \o PathText(ps[i])
    <2>1. n \in Nat
      OBVIOUS
    <2>. QED BY <2>1, PiecesAre
  <1>. HIDE DEF s, T
  <1>2. CASE ps = <<>>
    <2>1. n = 0
      BY <1>2
    <2>2. s = <<>>
      BY <1>1, <2>1
    <2>3. FlattenSeq(s) = s
      BY <1>1, <2>1, JoinedIs
    <2>4. <<>> \in Seq(T)
      OBVIOUS
    <2>. QED BY <1>1, <1>2, <2>2, <2>3, <2>4 DEF T
  <1>3. CASE ps # <<>>
    <2>1. n \in Nat \ {0} /\ s # <<>>
      <3>1. n # 0
        BY <1>3
      <3>. HIDE DEF n
      <3>. QED BY <1>1, <3>1
    <2>2. /\ FlattenSeq(s) = g[n] /\ g[1] = s[1]
          /\ \A i \in 2 .. n : g[i] = Glue(g[i - 1], s[i])
          /\ \A i \in 1 .. n : g[i] \in Seq(T)
      BY <1>1, <2>1, Joined
    <2>. HIDE DEF g, n
    <2>. DEFINE B == {i \in 1 .. n : /\ g[i] # <<>> /\ g[i][1] = "/"
                                     /\ Items(g[i]) = {PathText(ps[k]) : k \in 1 .. i}}
    <2>3. 1 \in B
      <3>. DEFINE t == PathText(ps[1])
      <3>1. 1 \in 1 .. n
        BY <2>1
      <3>2. /\ t \in Seq(T) /\ t # <<>> /\ t[1] = "/" /\ g[1] = t
            /\ \A k \in 1 .. Len(t) : t[k] # "comma"
        BY <1>1, <2>2, <3>1
      <3>3. {PathText(ps[k]) : k \in 1 .. 1} = {t}
        OBVIOUS
      <3>. HIDE DEF t
      <3>4. Items(t) = {t}
        BY <3>2, ItemsOfOne
      <3>. QED BY <3>1, <3>2, <3>3, <3>4
    <2>4. ASSUME NEW j \in 1 .. n - 1, j \in B PROVE j + 1 \in B
      <3>. DEFINE t == PathText(ps[j + 1])
                  u == g[j]
      <3>1. j + 1 \in 2 .. n /\ j + 1 - 1 = j /\ j + 1 \in 1 .. n /\ j \in 1 .. n /\ j \in Nat /\ j + 1 # 1
        BY <2>1
      <3>2. /\ t \in Seq(T) /\ t # <<>> /\ s[j + 1] = <<"comma">> \o t
            /\ \A k \in 1 .. Len(t) : t[k] # "comma"
        BY <1>1, <3>1
      <3>3. u \in Seq(T) /\ u # <<>> /\ u[1] = "/" /\ Items(u) = {PathText(ps[k]) : k \in 1 .. j}
        BY <2>2, <2>4, <3>1
      <3>4. g[j + 1] = u \o (<<"comma">> \o t)
        <4>1. g[j + 1] = Glue(g[j], s[j + 1])
          BY <2>2, <3>1
        <4>. QED BY <3>2, <4>1 DEF Glue
      <3>5. {PathText(ps[k]) : k \in 1 .. j + 1} = {PathText(ps[k]) : k \in 1 .. j} \cup {t}
        <4>1. 1 .. j + 1 = (1 .. j) \cup {j + 1}
          BY <3>1
        <4>. QED BY <4>1
      <3>6. "comma" \in T
        BY DEF T, LaunchTokens
      <3>. HIDE DEF t, u
      <3>7. Items(u \o (<<"comma">> \o t)) = Items(u) \cup {t}
        <4>1. u \in Seq(T) /\ t \in Seq(T) /\ t # <<>> /\ "comma" \in T
              /\ \A i \in 1 .. Len(t) : t[i] # "comma"
          BY <3>2, <3>3, <3>6
        <4>. HIDE DEF B
        <4>. QED BY <4>1, ItemsOfMore
      <3>8. u \o (<<"comma">> \o t) # <<>> /\ (u \o (<<"comma">> \o t))[1] = "/"
        <4>. DEFINE c == <<"comma">> \o t
        <4>1. c \in Seq(T)
          BY <3>2, <3>6
        <4>. HIDE DEF c
        <4>2. u \o c # <<>> /\ (u \o c)[1] = "/"
          <5>1. Len(u) \in Nat \ {0} /\ Len(u \o c) = Len(u) + Len(c) /\ Len(c) \in Nat /\ u \o c \in Seq(T)
            BY <3>3, <4>1
          <5>2. (u \o c)[1] = u[1]
            BY <3>3, <4>1, <5>1
          <5>. QED BY <3>3, <5>1, <5>2
        <4>. QED BY <4>2 DEF c
      <3>9. Items(g[j + 1]) = {PathText(ps[k]) : k \in 1 .. j + 1}
        BY <3>3, <3>4, <3>5, <3>7
      <3>. QED BY <3>1, <3>4, <3>8, <3>9
    <2>. HIDE DEF B
    <2>5. 1 .. n \subseteq B
      BY <2>1, <2>3, <2>4, FromTo
    <2>6. n \in B /\ n \in 1 .. n
      BY <2>1, <2>5
    <2>7. g[n] # <<>> /\ g[n][1] = "/" /\ Items(g[n]) = {PathText(ps[k]) : k \in 1 .. n} /\ g[n] \in Seq(T)
      BY <2>2, <2>6 DEF B
    <2>8. PathsText(ps) = g[n]
      BY <1>1, <2>2
    <2>. QED BY <2>7, <2>8 DEF n, T
  <1>. QED BY <1>2, <1>3

\* A finite set as a sequence.
LEMMA SetAsSeq ==
  ASSUME NEW S, IsFiniteSet(S)
  PROVE  /\ SetToSeq(S) \in Seq(S) /\ S = {SetToSeq(S)[k] : k \in 1 .. Len(SetToSeq(S))}
         /\ Len(SetToSeq(S)) = Cardinality(S) /\ Cardinality(S) \in Nat
  <1>. DEFINE n == Cardinality(S)
              f == SetToSeq(S)
  <1>1. n \in Nat /\ \E h : h \in Bijection(1 .. n, S)
    BY FS_CardinalityType DEF ExistsBijection
  <1>. HIDE DEF n
  <1>2. \E h \in [1 .. n -> S] : IsInjective(h)
    BY <1>1 DEF Bijection, Injection
  <1>3. f \in [1 .. n -> S] /\ IsInjective(f)
    BY <1>2 DEF SetToSeq, n
  <1>. HIDE DEF f
  <1>4. f \in Injection(1 .. n, S)
    BY <1>3 DEF Injection
  <1>5. Cardinality(1 .. n) = n
    BY <1>1, FS_Interval
  <1>6. f \in Surjection(1 .. n, S)
    BY <1>4, <1>5, FS_Injection DEF n
  <1>7. f \in Seq(S) /\ Len(f) = n
    BY <1>1, <1>3
  <1>8. S = {f[k] : k \in 1 .. n}
    BY <1>3, <1>6 DEF Surjection
  <1>. QED BY <1>1, <1>7, <1>8 DEF f, n

-----------------------------------------------------------------------------
(* A rule as text *)

LaunchRules ==
  {r \in [user : UserNames, password : Text, paths : SUBSET LaunchPaths, admin : BOOLEAN] :
       IsFiniteSet(r.paths)}

RulePaths(r) == PathsText(SetToSeq(r.paths))

LEMMA LaunchTokensAre == LaunchTokens \subseteq Tokens /\ "@" \in Tokens /\ "@" \notin LaunchTokens
  BY LaunchAssumption DEF LaunchTokens, Words, Separators

LEMMA RulePathsAre ==
  ASSUME NEW r \in LaunchRules
  PROVE  /\ RulePaths(r) \in Seq(LaunchTokens)
         /\ r.paths # {} => /\ RulePaths(r) # <<>> /\ RulePaths(r)[1] = "/"
                            /\ Items(RulePaths(r)) = {PathText(p) : p \in r.paths}
  <1>. DEFINE S == r.paths
              ps == SetToSeq(S)
  <1>1. IsFiniteSet(S) /\ S \subseteq LaunchPaths
    BY DEF LaunchRules
  <1>. HIDE DEF S
  <1>2. ps \in Seq(S) /\ S = {ps[k] : k \in 1 .. Len(ps)} /\ Len(ps) \in Nat
    BY <1>1, SetAsSeq
  <1>. HIDE DEF ps
  <1>3. ps \in Seq(LaunchPaths)
    BY <1>1, <1>2
  <1>4. S # {} => ps # <<>>
    BY <1>2
  <1>5. {PathText(ps[k]) : k \in 1 .. Len(ps)} = {PathText(p) : p \in S}
    BY <1>2
  <1>6. RulePaths(r) = PathsText(ps)
    BY DEF RulePaths, ps, S
  <1>. QED BY <1>3, <1>4, <1>5, <1>6, PathsTextIs DEF S

LEMMA GlueIs ==
  ASSUME NEW T, NEW a \in Seq(T), NEW b \in Seq(T)
  PROVE  /\ a \o b \in Seq(T) /\ Len(a \o b) = Len(a) + Len(b)
         /\ \A i \in 1 .. Len(a) : (a \o b)[i] = a[i]
         /\ \A i \in 1 .. Len(b) : (a \o b)[Len(a) + i] = b[i]
  <1>1. Len(a) \in Nat /\ Len(b) \in Nat
    OBVIOUS
  <1>2. a \o b \in Seq(T) /\ Len(a \o b) = Len(a) + Len(b)
    OBVIOUS
  <1>3. ASSUME NEW i \in 1 .. Len(a) PROVE (a \o b)[i] = a[i]
    BY <1>1, <1>3
  <1>4. ASSUME NEW i \in 1 .. Len(b) PROVE (a \o b)[Len(a) + i] = b[i]
    BY <1>1, <1>4
  <1>. QED BY <1>2, <1>3, <1>4

LEMMA PartOf ==
  ASSUME NEW T, NEW z \in Seq(T), NEW a \in 1 .. Len(z) + 1, NEW b \in 0 .. Len(z), a <= b + 1
  PROVE  LET y == SubSeq(z, a, b)
         IN y \in Seq(T) /\ Len(y) = b - a + 1 /\ \A i \in 1 .. b - a + 1 : y[i] = z[a + i - 1]
  <1>. DEFINE y == SubSeq(z, a, b)
  <1>1. Len(z) \in Nat /\ a \in Nat /\ b \in Nat
    OBVIOUS
  <1>2. y \in Seq(T) /\ Len(y) = b - a + 1
    BY <1>1
  <1>3. ASSUME NEW i \in 1 .. b - a + 1 PROVE y[i] = z[a + i - 1]
    BY <1>1, <1>3
  <1>. QED BY <1>2, <1>3

\* Before and after a sign of a text.
LEMMA AtSign ==
  ASSUME NEW T, NEW a \in Seq(T), NEW b \in Seq(T), NEW c \in T
  PROVE  LET z == a \o <<c>> \o b
             n == Len(a)
         IN /\ z \in Seq(T) /\ n \in Nat /\ Len(b) \in Nat /\ Len(z) = n + 1 + Len(b)
            /\ \A i \in 1 .. n : z[i] = a[i]
            /\ z[n + 1] = c
            /\ \A i \in 1 .. Len(b) : z[n + 1 + i] = b[i]
            /\ Before(z, n + 1) = a /\ After(z, n + 1) = b
  <1>. DEFINE v == a \o <<c>>
              z == v \o b
              n == Len(a)
              m == Len(b)
  <1>1. /\ v \in Seq(T) /\ Len(v) = n + 1 /\ n \in Nat /\ m \in Nat
        /\ v[n + 1] = c /\ \A i \in 1 .. n : v[i] = a[i]
    OBVIOUS
  <1>. HIDE DEF v, n
  <1>2. /\ z \in Seq(T) /\ Len(z) = Len(v) + m /\ \A i \in 1 .. Len(v) : z[i] = v[i]
        /\ \A i \in 1 .. m : z[Len(v) + i] = b[i]
    <2>1. v \in Seq(T) /\ b \in Seq(T) /\ z = v \o b
      BY <1>1
    <2>2. /\ v \o b \in Seq(T) /\ Len(v \o b) = Len(v) + m
          /\ \A i \in 1 .. Len(v) : (v \o b)[i] = v[i]
          /\ \A i \in 1 .. m : (v \o b)[Len(v) + i] = b[i]
      BY <2>1, GlueIs
    <2>. HIDE DEF z, m
    <2>. QED BY <2>1, <2>2
  <1>. HIDE DEF z, m
  <1>3. /\ Len(z) = n + 1 + m /\ z[n + 1] = c /\ \A i \in 1 .. n : z[i] = a[i]
        /\ \A i \in 1 .. m : z[n + 1 + i] = b[i]
    BY <1>1, <1>2
  <1>4. Before(z, n + 1) = a
    <2>. DEFINE y == SubSeq(z, 1, n)
    <2>1. y \in Seq(T) /\ Len(y) = n /\ \A i \in 1 .. n : y[i] = z[i]
      BY <1>1, <1>2, <1>3
    <2>. HIDE DEF y
    <2>2. y = a
      BY <1>3, <2>1, SameText DEF n
    <2>3. Before(z, n + 1) = y
      <3>1. n \in Nat /\ z \in Seq(T)
        BY <1>1, <1>2
      <3>. QED BY <3>1 DEF Before, y
    <2>. QED BY <2>2, <2>3
  <1>5. After(z, n + 1) = b
    <2>. DEFINE y == SubSeq(z, n + 2, n + 1 + m)
    <2>1. y \in Seq(T) /\ Len(y) = m /\ \A i \in 1 .. m : y[i] = z[n + 1 + i]
      <3>1. n \in Nat /\ m \in Nat /\ z \in Seq(T) /\ Len(z) = n + 1 + m
        BY <1>1, <1>2, <1>3
      <3>2. n + 2 \in 1 .. Len(z) + 1 /\ n + 1 + m \in 0 .. Len(z) /\ n + 2 <= n + 1 + m + 1
        BY <3>1
      <3>3. /\ y \in Seq(T) /\ Len(y) = n + 1 + m - (n + 2) + 1
            /\ \A i \in 1 .. n + 1 + m - (n + 2) + 1 : y[i] = z[n + 2 + i - 1]
        BY <3>1, <3>2, PartOf
      <3>4. n + 1 + m - (n + 2) + 1 = m /\ \A i \in 1 .. m : n + 2 + i - 1 = n + 1 + i
        BY <3>1
      <3>. HIDE DEF y
      <3>. QED BY <3>3, <3>4
    <2>. HIDE DEF y
    <2>2. y = b
      BY <1>3, <2>1, SameText DEF m
    <2>3. After(z, n + 1) = y
      <3>1. n + 1 + 1 = n + 2
        BY <1>1
      <3>. QED BY <1>3, <3>1 DEF After, y
    <2>. QED BY <2>2, <2>3
  <1>. QED BY <1>1, <1>2, <1>3, <1>4, <1>5 DEF z, n, m, v

\* The account of a rule: nothing, or a name, ":" and a password.
LEMMA AccountTextIs ==
  ASSUME NEW r \in LaunchRules
  PROVE  LET A == AccountText(r)
         IN /\ A \in Text
            /\ r.user = Anyone => A = <<>>
            /\ r.user # Anyone =>
                 /\ Len(A) = 2 + Len(r.password) /\ A # <<>> /\ A[1] = r.user /\ A[2] = ":"
                 /\ \A i \in 1 .. Len(r.password) : A[2 + i] = r.password[i]
                 /\ Where(A, ":") # {} /\ FirstAt(A, ":") = 2
                 /\ Before(A, 2) = <<r.user>> /\ After(A, 2) = r.password
  <1>1. CASE r.user = Anyone
    <2>1. AccountText(r) = <<>>
      BY <1>1 DEF AccountText
    <2>2. <<>> \in Text
      BY DEF Text
    <2>. QED BY <1>1, <2>1, <2>2
  <1>2. CASE r.user # Anyone
    <2>. DEFINE a == <<r.user>>
                b == r.password
                A == AccountText(r)
    <2>1. r.user \in Tokens /\ r.user # ":" /\ b \in Text
      BY <1>2 DEF LaunchRules, UserNames, Separators
    <2>2. a \in Text /\ Len(a) = 1 /\ a[1] = r.user
      BY <2>1 DEF Text
    <2>3. ":" \in Tokens
      BY LaunchAssumption DEF Separators
    <2>4. A = a \o <<":">> \o b
      <3>1. <<r.user, ":">> = a \o <<":">>
        OBVIOUS
      <3>2. A = <<r.user, ":">> \o b
        BY <1>2 DEF AccountText
      <3>. QED BY <3>1, <3>2
    <2>. HIDE DEF a, b, A
    <2>5. /\ A \in Text /\ Len(b) \in Nat /\ Len(A) = 1 + 1 + Len(b)
          /\ A[1] = a[1] /\ A[1 + 1] = ":" /\ \A i \in 1 .. Len(b) : A[1 + 1 + i] = b[i]
          /\ Before(A, 1 + 1) = a /\ After(A, 1 + 1) = b
      <3>1. \A i \in 1 .. 1 : i = 1
        OBVIOUS
      <3>2. /\ A \in Seq(Tokens) /\ Len(b) \in Nat /\ Len(A) = Len(a) + 1 + Len(b)
            /\ \A i \in 1 .. Len(a) : A[i] = a[i]
            /\ A[Len(a) + 1] = ":" /\ \A i \in 1 .. Len(b) : A[Len(a) + 1 + i] = b[i]
            /\ Before(A, Len(a) + 1) = a /\ After(A, Len(a) + 1) = b
        <4>1. a \in Seq(Tokens) /\ b \in Seq(Tokens) /\ ":" \in Tokens /\ A = a \o <<":">> \o b
          BY <2>1, <2>2, <2>3, <2>4 DEF Text
        <4>. QED BY <4>1, AtSign
      <3>. QED BY <2>2, <3>1, <3>2 DEF Text
    <2>6. 1 + 1 = 2
      OBVIOUS
    <2>7. /\ Len(A) = 2 + Len(b) /\ Len(b) \in Nat /\ A[1] = r.user /\ A[2] = ":"
          /\ \A i \in 1 .. Len(b) : A[2 + i] = b[i]
          /\ Before(A, 2) = a /\ After(A, 2) = b
      BY <2>2, <2>5, <2>6
    <2>8. DOMAIN A = 1 .. 2 + Len(b) /\ A # <<>>
      BY <2>5, <2>7 DEF Text
    <2>9. 2 \in Where(A, ":") /\ \A i \in Where(A, ":") : i >= 2
      <3>1. 2 \in DOMAIN A /\ \A i \in DOMAIN A : i = 1 \/ i >= 2
        BY <2>7, <2>8
      <3>. QED BY <2>1, <2>7, <3>1 DEF Where
    <2>10. FirstAt(A, ":") = 2
      <3>1. Where(A, ":") \subseteq Nat
        BY <2>8 DEF Where
      <3>. QED BY <2>9, <3>1 DEF FirstAt, Min
    <2>. QED BY <1>2, <2>5, <2>7, <2>8, <2>9, <2>10 DEF A, a, b
  <1>. QED BY <1>1, <1>2

\* Where the account ends: for union at the last "@", for ram at the first "@/".
LEMMA FormatIs ==
  ASSUME NEW r \in LaunchRules
  PROVE  LET text == Format(r)
             n == Len(AccountText(r))
         IN /\ text \in Text /\ n \in Nat /\ Len(text) = n + 1 + Len(RulePaths(r))
            /\ \A i \in 1 .. n : text[i] = AccountText(r)[i]
            /\ text[n + 1] = "@"
            /\ \A i \in 1 .. Len(RulePaths(r)) : text[n + 1 + i] = RulePaths(r)[i]
            /\ Before(text, n + 1) = AccountText(r) /\ After(text, n + 1) = RulePaths(r)
            /\ Where(text, "@") # {} /\ LastAt(text, "@") = n + 1
  <1>. DEFINE A == AccountText(r)
              P == RulePaths(r)
              text == Format(r)
              n == Len(A)
              m == Len(P)
  <1>1. A \in Seq(Tokens) /\ P \in Seq(Tokens) /\ "@" \in Tokens
        /\ \A i \in 1 .. m : P[i] # "@"
    <2>1. P \in Seq(LaunchTokens) /\ A \in Text
      BY RulePathsAre, AccountTextIs
    <2>. HIDE DEF P, A
    <2>. QED BY <2>1, LaunchTokensAre DEF Text
  <1>2. text = A \o <<"@">> \o P
    BY DEF Format, RulePaths
  <1>. HIDE DEF A, P, text
  <1>3. /\ text \in Seq(Tokens) /\ n \in Nat /\ m \in Nat /\ Len(text) = n + 1 + m
        /\ \A i \in 1 .. n : text[i] = A[i]
        /\ text[n + 1] = "@" /\ \A i \in 1 .. m : text[n + 1 + i] = P[i]
        /\ Before(text, n + 1) = A /\ After(text, n + 1) = P
    BY <1>1, <1>2, AtSign
  <1>. HIDE DEF n, m
  <1>4. DOMAIN text = 1 .. n + 1 + m
    BY <1>3
  <1>5. n + 1 \in Where(text, "@") /\ \A i \in Where(text, "@") : i <= n + 1
    <2>1. n + 1 \in Where(text, "@")
      BY <1>3, <1>4 DEF Where
    <2>2. ASSUME NEW i \in Where(text, "@"), i > n + 1 PROVE FALSE
      <3>1. i \in 1 .. n + 1 + m /\ text[i] = "@"
        BY <1>4, <2>2 DEF Where
      <3>2. i - (n + 1) \in 1 .. m /\ n + 1 + (i - (n + 1)) = i
        BY <1>3, <2>2, <3>1
      <3>3. text[i] = P[i - (n + 1)]
        BY <1>3, <3>2
      <3>. QED BY <1>1, <3>1, <3>2, <3>3
    <2>3. \A i \in Where(text, "@") : i \in Nat
      BY <1>3, <1>4 DEF Where
    <2>. QED BY <1>3, <2>1, <2>2, <2>3
  <1>6. LastAt(text, "@") = n + 1
    <2>1. Where(text, "@") \subseteq Nat
      BY <1>3, <1>4 DEF Where
    <2>. QED BY <1>3, <1>5, <2>1 DEF LastAt, Max
  <1>. QED BY <1>3, <1>5, <1>6 DEF text, A, P, n, m, Text

LEMMA SplitIs ==
  ASSUME NEW r \in LaunchRules, IsReadAlike(r), r.paths # {}
  PROVE  /\ Splits(Format(r)) # {}
         /\ SplitAccount(Format(r)) = AccountText(r) /\ SplitPaths(Format(r)) = RulePaths(r)
  <1>. DEFINE A == AccountText(r)
              P == RulePaths(r)
              b == r.password
              text == Format(r)
              n == Len(A)
              m == Len(P)
  <1>1. /\ text \in Text /\ n \in Nat /\ Len(text) = n + 1 + m
        /\ \A i \in 1 .. n : text[i] = A[i]
        /\ text[n + 1] = "@"
        /\ \A i \in 1 .. m : text[n + 1 + i] = P[i]
        /\ Before(text, n + 1) = A /\ After(text, n + 1) = P
    BY FormatIs
  <1>2. P \in Seq(LaunchTokens) /\ P # <<>> /\ P[1] = "/"
    BY RulePathsAre
  <1>3. r.user = Anyone => A = <<>>
    BY AccountTextIs
  <1>4. r.user # Anyone =>
          /\ n = 2 + Len(b) /\ A[1] = r.user /\ A[2] = ":" /\ \A i \in 1 .. Len(b) : A[2 + i] = b[i]
    BY AccountTextIs
  <1>5. /\ b \in Seq(Tokens) /\ Len(b) \in Nat /\ r.user \notin Separators
        /\ \A i \in 1 .. Len(b) : b[i] = "@" /\ i < Len(b) => b[i + 1] # "/"
    <2>1. b \in Seq(Tokens) /\ r.user \in UserNames
      BY DEF LaunchRules, Text
    <2>2. r.user \notin Separators
      BY <2>1, LaunchAssumption DEF UserNames
    <2>3. \A i \in 1 .. Len(b) : b[i] = "@" /\ i < Len(b) => b[i + 1] # "/"
      <3>1. DOMAIN b = 1 .. Len(b)
        BY <2>1
      <3>. QED BY <3>1 DEF IsReadAlike, Where
    <2>. QED BY <2>1, <2>2, <2>3
  <1>6. m \in Nat \ {0}
    BY <1>2
  <1>7. A = <<>> => n = 0
    OBVIOUS
  <1>. HIDE DEF text, A, P, b, n, m
  <1>8. DOMAIN text = 1 .. n + 1 + m
    BY <1>1 DEF Text
  <1>9. n + 1 \in Splits(text)
    <2>1. n + 1 < Len(text) /\ text[n + 1 + 1] = "/" /\ n + 1 \in DOMAIN text
      BY <1>1, <1>2, <1>6, <1>8
    <2>. QED BY <1>1, <2>1 DEF Splits, Where
  <1>10. ASSUME NEW i \in Splits(text) PROVE i >= n + 1 /\ i \in Nat
    <2>1. i \in 1 .. n + 1 + m /\ text[i] = "@" /\ text[i + 1] = "/"
      BY <1>8, <1>10 DEF Splits, Where
    <2>2. ASSUME i <= n PROVE FALSE
      <3>1. r.user # Anyone /\ i \in 1 .. n
        BY <1>1, <1>3, <1>7, <2>1, <2>2
      <3>2. n = 2 + Len(b) /\ A[1] = r.user /\ A[2] = ":" /\ \A k \in 1 .. Len(b) : A[2 + k] = b[k]
        BY <1>4, <3>1
      <3>3. A[i] = "@"
        BY <1>1, <2>1, <3>1
      <3>4. i # 1 /\ i # 2
        BY <1>5, <3>2, <3>3 DEF Separators
      <3>5. i - 2 \in 1 .. Len(b) /\ 2 + (i - 2) = i
        BY <1>5, <3>1, <3>2, <3>4
      <3>6. b[i - 2] = "@"
        BY <3>2, <3>3, <3>5
      <3>7. CASE i = n
        BY <1>1, <2>1, <3>7
      <3>8. CASE i # n
        <4>1. i - 2 < Len(b) /\ i - 2 + 1 \in 1 .. Len(b) /\ 2 + (i - 2 + 1) = i + 1 /\ i + 1 \in 1 .. n
          BY <1>5, <3>1, <3>2, <3>5, <3>8
        <4>2. text[i + 1] = b[i - 2 + 1]
          BY <1>1, <3>2, <4>1
        <4>. QED BY <1>5, <2>1, <3>5, <3>6, <4>1, <4>2
      <3>. QED BY <3>7, <3>8
    <2>. QED BY <1>1, <2>1, <2>2
  <1>11. Min(Splits(text)) = n + 1
    BY <1>1, <1>9, <1>10 DEF Min
  <1>. QED BY <1>1, <1>9, <1>11 DEF SplitAccount, SplitPaths, text, A, P

\* What ram's AccessControl::new reads of the text that union's format_auth_rule makes of a
\* rule is the rule: user, password, paths and permissions, whatever the password holds but
\* "@/", and for any number of paths.
THEOREM RoundTrip ==
  ASSUME NEW r \in LaunchRules, IsReadAlike(r), r.paths # {}, r.user # Anyone, r.password # <<>>
  PROVE  /\ IsRead(Format(r)) /\ Counts(Format(r))
         /\ ReadRule(Format(r)) = [user |-> r.user, password |-> r.password, paths |-> r.paths]
  <1>. DEFINE A == AccountText(r)
              P == RulePaths(r)
              b == r.password
              text == Format(r)
  <1>1. Splits(text) # {} /\ SplitAccount(text) = A /\ SplitPaths(text) = P
    BY SplitIs
  <1>2. /\ A # <<>> /\ A[1] = r.user /\ Len(A) = 2 + Len(b) /\ Where(A, ":") # {} /\ FirstAt(A, ":") = 2
        /\ After(A, 2) = b
    BY AccountTextIs
  <1>3. Items(P) = {PathText(p) : p \in r.paths}
    BY RulePathsAre
  <1>4. \A p \in r.paths : ItemIsRead(PathText(p)) /\ ReadItem(PathText(p)) = p
    BY PathTextIs DEF LaunchRules
  <1>5. Len(b) \in Nat \ {0}
    <2>1. b \in Seq(Tokens) /\ b # <<>>
      BY DEF LaunchRules, Text
    <2>. HIDE DEF b
    <2>. QED BY <2>1
  <1>. HIDE DEF text, A, P, b
  <1>6. IsRead(text)
    <2>1. 2 \notin {1, Len(A)}
      BY <1>2, <1>5
    <2>. QED BY <1>1, <1>2, <1>3, <1>4, <2>1 DEF IsRead
  <1>7. Counts(text)
    BY <1>1, <1>2 DEF Counts
  <1>8. {ReadItem(item) : item \in Items(P)} = r.paths
    BY <1>3, <1>4
  <1>9. ReadRule(text) = [user |-> r.user, password |-> b, paths |-> r.paths]
    BY <1>1, <1>2, <1>8 DEF ReadRule
  <1>. QED BY <1>6, <1>7, <1>9 DEF text, b

\* What redact_auth_rule leaves of a text says nothing of the password.
LEMMA MaskedIs ==
  ASSUME NEW r \in LaunchRules
  PROVE  Redact(Format(r)) = Format([r EXCEPT !.password = <<"***">>])
  <1>. DEFINE A == AccountText(r)
              P == RulePaths(r)
              q == [r EXCEPT !.password = <<"***">>]
              text == Format(r)
              n == Len(A)
  <1>1. Before(text, n + 1) = A /\ After(text, n + 1) = P /\ LastAt(text, "@") = n + 1
    BY FormatIs
  <1>2. q.user = r.user /\ q.password = <<"***">> /\ q.paths = r.paths
    BY DEF LaunchRules
  <1>3. text = A \o <<"@">> \o P /\ Format(q) = AccountText(q) \o <<"@">> \o P
    BY <1>2 DEF Format, RulePaths
  <1>4. CASE r.user = Anyone
    <2>1. A = <<>> /\ AccountText(q) = <<>>
      BY <1>2, <1>4 DEF AccountText
    <2>. HIDE DEF A, P, q, text, n
    <2>2. Redact(text) = text
      BY <1>1, <2>1 DEF Redact
    <2>. QED BY <1>3, <2>1, <2>2 DEF text, q
  <1>5. CASE r.user # Anyone
    <2>1. A # <<>> /\ Where(A, ":") # {} /\ FirstAt(A, ":") = 2 /\ Before(A, 2) = <<r.user>>
      BY <1>5, AccountTextIs
    <2>2. AccountText(q) = <<r.user, ":">> \o <<"***">>
      BY <1>2, <1>5 DEF AccountText
    <2>3. P \in Seq(LaunchTokens)
      BY RulePathsAre
    <2>. HIDE DEF A, P, q, text, n
    <2>4. Redact(text) = <<r.user>> \o <<":", "***", "@">> \o P
      BY <1>1, <2>1 DEF Redact
    <2>5. <<r.user>> \o <<":", "***", "@">> = <<r.user, ":">> \o <<"***">> \o <<"@">>
      OBVIOUS
    <2>. QED BY <1>3, <2>2, <2>4, <2>5 DEF q, text
  <1>. QED BY <1>4, <1>5

-----------------------------------------------------------------------------
(* What is stored is a set of rules *)

LEMMA SomeToken ==
  ASSUME NEW T, NEW U, T \subseteq U, NEW text \in Seq(T)
  PROVE  text \in Seq(U)
  OBVIOUS

\* A path without the signs of the format is words once it is normalized.
LEMMA NormalPathIs ==
  ASSUME NEW path \in Text, PathIsUsable(path)
  PROVE  NormalPath(path) \in Seq(Words)
  <1>. DEFINE T == Tokens \ {"@", ":", "comma"}
              U == T \ {"/", "."}
  <1>1. \A i \in 1 .. Len(path) : path[i] \in T
    <2>1. path \in Seq(Tokens)
      BY DEF Text
    <2>2. Where(path, "@") = {} /\ Where(path, ":") = {} /\ Where(path, "comma") = {}
      BY DEF PathIsUsable
    <2>3. DOMAIN path = 1 .. Len(path)
      BY <2>1
    <2>. QED BY <2>1, <2>2, <2>3 DEF Where
  <1>2. path \in Seq(T)
    <2>. HIDE DEF T
    <2>. QED BY <1>1 DEF Text
  <1>. HIDE DEF T
  <1>3. NormalPath(path) \in Seq(U)
    BY <1>2, WithoutType DEF NormalPath
  <1>4. U \subseteq Words
    BY DEF T, Words, Separators
  <1>. HIDE DEF U
  <1>. QED BY <1>3, <1>4, SomeToken

\* What update_auth_for stores of a rule that it accepted.
LEMMA NormalizedIs ==
  ASSUME NEW request \in RuleRequests, RulesAreUsable(request.rules), NEW r \in request.rules
  PROVE  /\ Normalized(r) \in LaunchRules /\ Normalized(r).paths # {}
         /\ r.user # Anyone => Normalized(r).password # <<>>
  <1>. DEFINE S == r.paths
              D == {[path |-> NormalPath(p.path), perm |-> p.perm] : p \in S}
              f == [p \in S |-> [path |-> NormalPath(p.path), perm |-> p.perm]]
  <1>1. /\ r.user \in UserNames /\ r.password \in Text /\ IsFiniteSet(S)
        /\ S \subseteq [path : Text, perm : {"rw", "ro"}]
    BY LaunchAssumption
  <1>2. S # {} /\ \A p \in S : PathIsUsable(p.path)
    BY DEF RulesAreUsable
  <1>3. r.user # Anyone => r.password # <<>>
    BY DEF RulesAreUsable
  <1>4. Normalized(r) = [user |-> r.user, password |-> r.password, admin |-> FALSE, paths |-> D]
    BY DEF Normalized
  <1>. HIDE DEF S
  <1>5. D \subseteq LaunchPaths
    BY <1>1, <1>2, NormalPathIs DEF LaunchPaths
  <1>6. f \in Surjection(S, D)
    BY DEF Surjection
  <1>. HIDE DEF f
  <1>7. IsFiniteSet(D)
    <2>. HIDE DEF D
    <2>. QED BY <1>1, <1>6, FS_Surjection
  <1>8. D # {}
    BY <1>2
  <1>. HIDE DEF D
  <1>. QED BY <1>1, <1>3, <1>4, <1>5, <1>7, <1>8 DEF LaunchRules

LEMMA SubTexts ==
  ASSUME NEW text \in Text
  PROVE  /\ Len(text) \in Nat /\ DOMAIN text = 1 .. Len(text)
         /\ \A i \in 1 .. Len(text) + 1, j \in 0 .. Len(text) : SubSeq(text, i, j) \in Text
  BY DEF Text

LEMMA PlacesOf ==
  ASSUME NEW text \in Text, NEW token, Where(text, token) # {}
  PROVE  /\ LastAt(text, token) \in 1 .. Len(text)
         /\ Before(text, LastAt(text, token)) \in Text /\ After(text, LastAt(text, token)) \in Text
  <1>. DEFINE W == Where(text, token)
              n == Len(text)
              k == LastAt(text, token)
  <1>1. W \subseteq 1 .. n /\ n \in Nat
    BY SubTexts DEF Where
  <1>2. \E x \in W : \A y \in W : x >= y
    <2>. DEFINE V == {n - x : x \in W}
    <2>. HIDE DEF W, n
    <2>1. V \subseteq Nat /\ V # {}
      BY <1>1 DEF W
    <2>. HIDE DEF V
    <2>2. PICK v \in V : \A y \in V : v <= y
      BY <2>1, LeastOf
    <2>3. PICK x \in W : v = n - x
      BY DEF V
    <2>4. ASSUME NEW y \in W PROVE x >= y
      <3>1. n - y \in V
        BY DEF V
      <3>2. n - x <= n - y
        BY <2>2, <2>3, <3>1
      <3>. QED BY <1>1, <3>2
    <2>. QED BY <2>4
  <1>3. k \in W
    BY <1>2 DEF LastAt, Max
  <1>4. k \in 1 .. n
    BY <1>1, <1>3
  <1>. HIDE DEF k
  <1>5. k - 1 \in 0 .. n /\ k + 1 \in 1 .. n + 1 /\ 1 \in 1 .. n + 1 /\ n \in 0 .. n
    BY <1>1, <1>4
  <1>6. SubSeq(text, 1, k - 1) \in Text /\ SubSeq(text, k + 1, n) \in Text
    BY <1>5, SubTexts
  <1>. QED BY <1>4, <1>6 DEF Before, After, k

LEMMA ItemsFinite ==
  ASSUME NEW text \in Text
  PROVE  IsFiniteSet(Items(text)) /\ Items(text) \subseteq Text
  <1>. DEFINE D == 1 .. Len(text)
              W == {v \in D \X D : IsItem(text, v[1], v[2])}
              f == [w \in W |-> SubSeq(text, w[1], w[2])]
  <1>1. Len(text) \in Nat /\ DOMAIN text = D
    BY SubTexts
  <1>2. Items(text) = {SubSeq(text, w[1], w[2]) : w \in W}
    BY <1>1 DEF Items
  <1>3. IsFiniteSet(D)
    BY <1>1, FS_Interval
  <1>4. IsFiniteSet(W)
    <2>. DEFINE X == D \X D
    <2>1. IsFiniteSet(X)
      <3>. HIDE DEF D
      <3>. QED BY <1>3, FS_Product
    <2>2. W \in SUBSET X
      OBVIOUS
    <2>. HIDE DEF W, X
    <2>. QED BY <2>1, <2>2, FS_Subset
  <1>5. f \in Surjection(W, Items(text))
    <2>. HIDE DEF W
    <2>. QED BY <1>2 DEF Surjection
  <1>6. Items(text) \subseteq Text
    <2>1. ASSUME NEW w \in W PROVE SubSeq(text, w[1], w[2]) \in Text
      <3>1. w[1] \in D /\ w[2] \in D
        OBVIOUS
      <3>2. w[1] \in 1 .. Len(text) + 1 /\ w[2] \in 0 .. Len(text)
        BY <1>1, <3>1
      <3>. QED BY <3>2, SubTexts
    <2>. HIDE DEF W
    <2>. QED BY <1>2, <2>1
  <1>. HIDE DEF W, f
  <1>. QED BY <1>4, <1>5, <1>6, FS_Surjection

\* An account that was parsed: a name, and what follows the first ":" for a password.
LEMMA PairIs ==
  ASSUME NEW account \in Text, IsPair(account)
  PROVE  /\ account[1] \in UserNames \ {Anyone} /\ FirstAt(account, ":") = 2
         /\ After(account, 2) \in Text
  <1>. DEFINE n == Len(account)
              W == Where(account, ":")
  <1>1. n \in Nat /\ DOMAIN account = 1 .. n /\ n > 2
    BY SubTexts DEF IsPair
  <1>2. account[1] \notin Separators /\ account[2] = ":" /\ account[1] # ":"
    BY DEF IsPair, Separators
  <1>3. account[1] \in Tokens
    <2>1. account \in Seq(Tokens) /\ 1 \in 1 .. n
      BY <1>1 DEF Text
    <2>. HIDE DEF n
    <2>. QED BY <1>1, <2>1
  <1>4. account[1] \in UserNames \ {Anyone}
    BY <1>2, <1>3, LaunchAssumption DEF UserNames
  <1>5. SubSeq(account, 3, n) \in Text
    <2>1. 3 \in 1 .. n + 1 /\ n \in 0 .. n
      BY <1>1
    <2>. QED BY <2>1, SubTexts
  <1>. HIDE DEF n
  <1>6. After(account, 2) \in Text
    <2>1. 2 + 1 = 3
      OBVIOUS
    <2>. QED BY <1>5, <2>1 DEF After, n
  <1>7. 2 \in W /\ W \subseteq Nat /\ \A i \in W : 2 <= i
    <2>1. 2 \in 1 .. n /\ \A i \in 1 .. n : i # 1 => 2 <= i
      BY <1>1
    <2>. QED BY <1>1, <1>2, <2>1 DEF Where
  <1>. HIDE DEF W
  <1>8. FirstAt(account, ":") = 2
    <2>1. \A x \in W : (\A i \in W : x <= i) => x = 2
      BY <1>7
    <2>2. Min(W) = 2
      BY <1>7, <2>1 DEF Min
    <2>. QED BY <2>2 DEF FirstAt, W
  <1>. QED BY <1>4, <1>6, <1>8

LEMMA ItemPathIs ==
  ASSUME NEW item \in Text, PathIsUsable(ItemPath(item))
  PROVE  ParsePath(item) \in LaunchPaths
  <1>. DEFINE k == LastAt(item, ":")
              n == Len(item)
  <1>1. n \in Nat
    BY SubTexts
  <1>2. IsMarked(item) => Where(item, ":") # {}
    BY DEF IsMarked
  <1>3. IsMarked(item) => k \in 1 .. n /\ Before(item, k) \in Text
    BY <1>2, PlacesOf
  <1>4. ItemPath(item) \in Text
    BY <1>3 DEF ItemPath
  <1>5. NormalPath(ItemPath(item)) \in Seq(Words)
    BY <1>4, NormalPathIs
  <1>6. IsMarked(item) => item[n] \in {"ro", "rw"}
    <2>. SUFFICES ASSUME IsMarked(item) PROVE item[n] \in {"ro", "rw"}
      OBVIOUS
    <2>. DEFINE y == SubSeq(item, k + 1, n)
    <2>1. y \in {<<"ro">>, <<"rw">>}
      BY DEF IsMarked, After
    <2>2. k \in 1 .. n /\ item \in Seq(Tokens)
      BY <1>3 DEF Text
    <2>. HIDE DEF k
    <2>3. Len(y) = n - k /\ \A i \in 1 .. n - k : y[i] = item[k + i]
      BY <1>1, <2>2
    <2>. HIDE DEF y, n
    <2>4. Len(y) = 1 /\ y[1] \in {"ro", "rw"}
      BY <2>1
    <2>5. n - k = 1 /\ 1 \in 1 .. n - k /\ k + 1 = n
      <3>1. k \in 1 .. n
        BY <2>2
      <3>2. n - k = 1
        BY <2>3, <2>4
      <3>. QED BY <1>1, <3>1, <3>2
    <2>. QED BY <2>3, <2>4, <2>5
  <1>. QED BY <1>5, <1>6 DEF ParsePath, LaunchPaths, n

\* What the settings hold parses to rules that can be stored.
LEMMA ParsedIs ==
  ASSUME NEW text \in Text, Parses(text)
  PROVE  Parse(text) \in LaunchRules /\ ~Parse(text).admin
  <1>. DEFINE account == Before(text, LastAt(text, "@"))
              rest == After(text, LastAt(text, "@"))
              I == Items(rest)
              D == {ParsePath(item) : item \in I}
              f == [item \in I |-> ParsePath(item)]
              user == IF account = <<>> THEN Anyone ELSE account[1]
              password == IF account = <<>> THEN <<>> ELSE After(account, FirstAt(account, ":"))
  <1>1. account \in Text /\ rest \in Text
    BY PlacesOf DEF Parses
  <1>2. account = <<>> \/ IsPair(account)
    BY DEF Parses
  <1>3. \A item \in I : PathIsUsable(ItemPath(item))
    BY DEF Parses
  <1>4. Parse(text) = [user |-> user, password |-> password, paths |-> D, admin |-> FALSE]
    BY DEF Parse
  <1>. HIDE DEF account, rest
  <1>5. user \in UserNames /\ password \in Text
    <2>1. <<>> \in Text /\ Anyone \in UserNames
      BY DEF Text, UserNames
    <2>. QED BY <1>1, <1>2, <2>1, PairIs
  <1>. HIDE DEF user, password
  <1>6. IsFiniteSet(I) /\ I \subseteq Text
    BY <1>1, ItemsFinite
  <1>. HIDE DEF I
  <1>7. D \subseteq LaunchPaths
    BY <1>3, <1>6, ItemPathIs
  <1>8. f \in Surjection(I, D)
    BY DEF Surjection
  <1>. HIDE DEF f, D
  <1>9. IsFiniteSet(D)
    BY <1>6, <1>8, FS_Surjection
  <1>. QED BY <1>4, <1>5, <1>7, <1>9 DEF LaunchRules

LEMMA ManagerIs ==
  ASSUME NEW user \in UserNames, NEW password \in Text
  PROVE  Manager(user, password) \in LaunchRules /\ Manager(user, password).admin
  BY FS_EmptySet DEF Manager, LaunchRules

\* ensure_seeded: with a rule that has a name there is an administrator.
LEMMA SeededAre ==
  ASSUME LaunchInit
  PROVE  /\ records \subseteq LaunchRules
         /\ (\A r \in records : ~r.admin) => Named(records) = {}
  <1>1. settings.auth \subseteq Text /\ settings.management \in Text
    BY LaunchAssumption DEF LaunchInit
  <1>2. FromSettings \subseteq LaunchRules /\ \A r \in FromSettings : ~r.admin
    <2>1. \A text \in settings.auth : Parses(text)
      BY DEF LaunchInit
    <2>. QED BY <1>1, <2>1, ParsedIs DEF FromSettings
  <1>3. records = Seeded
    BY DEF LaunchInit
  <1>4. CASE IsPair(settings.management)
    <2>. DEFINE m == Manager(settings.management[1], After(settings.management, 2))
    <2>1. m \in LaunchRules /\ m.admin
      BY <1>1, <1>4, PairIs, ManagerIs
    <2>2. records = FromSettings \cup {m}
      BY <1>3, <1>4 DEF Seeded
    <2>. HIDE DEF m
    <2>. QED BY <1>2, <2>1, <2>2
  <1>5. CASE ~IsPair(settings.management) /\ Named(FromSettings) # {}
    <2>. DEFINE r == CHOOSE r \in Named(FromSettings) : TRUE
                m == Manager(r.user, r.password)
    <2>1. r \in Named(FromSettings)
      BY <1>5
    <2>2. records = FromSettings \cup {m}
      BY <1>3, <1>5 DEF Seeded
    <2>. HIDE DEF r
    <2>3. r \in LaunchRules
      BY <1>2, <2>1 DEF Named
    <2>4. m \in LaunchRules /\ m.admin
      <3>1. r.user \in UserNames /\ r.password \in Text
        BY <2>3 DEF LaunchRules
      <3>. QED BY <3>1, ManagerIs
    <2>. HIDE DEF m
    <2>. QED BY <1>2, <2>2, <2>4
  <1>6. CASE ~IsPair(settings.management) /\ Named(FromSettings) = {}
    <2>1. records = FromSettings
      BY <1>3, <1>6 DEF Seeded
    <2>. QED BY <1>2, <1>6, <2>1
  <1>. QED BY <1>4, <1>5, <1>6

-----------------------------------------------------------------------------
(* What every state of RamLaunch satisfies *)

AsRead(r) == [user |-> r.user, password |-> r.password, paths |-> r.paths]

\* What ram makes of the texts and the settings of a file, and of what else it is told.
ServedOf(texts, more, set) ==
  IF IsHeard(texts, more) /\ HasPair(set)
    THEN [state |-> "up", open |-> Heard(texts, more) = {}, flags |-> Allowed(set),
          rules |-> {ReadRule(text) : text \in {t \in Heard(texts, more) : Counts(t)}}]
  ELSE RamRefuses

\* Without an administrator, the rules with a name are those that were asked for.
StoredInv ==
  /\ records \subseteq LaunchRules
  /\ (\A r \in records : ~r.admin) =>
       /\ Named(Meant) = {AsRead(r) : r \in Named(records)}
       /\ \A r \in Named(records) :
            r.paths # {} /\ r.password # <<>> /\ (production => ~IsWeak(r.password))

\* The file, the console and ram have the texts of the rules that are stored.
PassedInv ==
  /\ written # Unwritten =>
       /\ written = [state |-> "written", auth |-> Texts, flags |-> flags]
       /\ production => Texts # {}
  /\ shown \subseteq {Redact(Format(r)) : r \in records}
  /\ served # NoRam => served = ServedOf(Texts, told, flags) /\ (production => Texts # {})

LaunchInv == StoredInv /\ PassedInv

LEMMA LaunchInitially == LaunchInit => LaunchInv
  <1>. SUFFICES ASSUME LaunchInit PROVE LaunchInv
    OBVIOUS
  <1>1. asked = {} /\ written = Unwritten /\ shown = {} /\ served = NoRam
    BY DEF LaunchInit
  <1>2. Named(Meant) = {}
    BY <1>1 DEF Meant, Named
  <1>3. StoredInv
    BY <1>2, SeededAre DEF StoredInv
  <1>4. PassedInv
    BY <1>1 DEF PassedInv
  <1>. QED BY <1>3, <1>4 DEF LaunchInv

LEMMA SaveKeeps ==
  ASSUME NEW request \in RuleRequests, SaveRules(request)
  PROVE  LaunchInv'
  <1>. DEFINE R == request.rules
              stored == {Normalized(r) : r \in R}
              all == stored \cup request.admin
  <1>1. /\ RulesAreUsable(R) /\ (production => \A r \in Named(all) : ~IsWeak(r.password))
        /\ records' = all /\ asked' = R
        /\ written' = Unwritten /\ shown' = {} /\ served' = NoRam /\ production' = production
    BY DEF SaveRules
  <1>2. \A r \in request.admin : r \in LaunchRules /\ r.admin
    <2>1. \A r \in request.admin :
            r.user \in UserNames \ {Anyone} /\ r.password \in Text /\ r = Manager(r.user, r.password)
      BY LaunchAssumption
    <2>2. ASSUME NEW r \in request.admin PROVE r \in LaunchRules /\ r.admin
      <3>1. r.user \in UserNames /\ r.password \in Text /\ r = Manager(r.user, r.password)
        BY <2>1
      <3>2. Manager(r.user, r.password) \in LaunchRules /\ Manager(r.user, r.password).admin
        BY <3>1, ManagerIs
      <3>. QED BY <3>1, <3>2
    <2>. QED BY <2>2
  <1>3. \A r \in R : /\ Normalized(r) \in LaunchRules /\ Normalized(r).paths # {}
                     /\ r.user # Anyone => Normalized(r).password # <<>>
    BY <1>1, NormalizedIs
  <1>4. \A r \in R : /\ Normalized(r).user = r.user /\ Normalized(r).password = r.password
                     /\ ~Normalized(r).admin
                     /\ Normalized(r).paths = {[path |-> NormalPath(p.path), perm |-> p.perm] : p \in r.paths}
    BY DEF Normalized
  <1>5. records' \subseteq LaunchRules
    BY <1>1, <1>2, <1>3
  <1>6. Meant' = {AsRead(Normalized(r)) : r \in R}
    <2>1. \A r \in R : AsRead(Normalized(r)) =
            [user |-> r.user, password |-> r.password,
             paths |-> {[path |-> Without(p.path, {"/", "."}), perm |-> p.perm] : p \in r.paths}]
      BY <1>4 DEF AsRead, NormalPath
    <2>. HIDE DEF R
    <2>. QED BY <1>1, <2>1 DEF Meant
  <1>7. ASSUME \A r \in records' : ~r.admin
        PROVE  /\ Named(Meant)' = {AsRead(r) : r \in Named(records)'}
               /\ \A r \in Named(records)' :
                    r.paths # {} /\ r.password # <<>> /\ (production' => ~IsWeak(r.password))
    <2>1. request.admin = {}
      BY <1>1, <1>2, <1>7
    <2>2. records' = stored /\ Named(records)' = {r \in stored : r.user # Anyone}
      BY <1>1, <2>1 DEF Named
    <2>3. Named(Meant)' = {m \in {AsRead(r) : r \in stored} : m.user # Anyone}
      BY <1>6 DEF Named
    <2>4. \A r \in stored : AsRead(r).user = r.user
      BY DEF AsRead
    <2>5. \A r \in stored : r.paths # {} /\ (r.user # Anyone => r.password # <<>>)
      BY <1>3, <1>4
    <2>6. production' => \A r \in Named(records)' : ~IsWeak(r.password)
      BY <1>1, <2>1, <2>2 DEF Named
    <2>. HIDE DEF stored
    <2>7. Named(Meant)' = {AsRead(r) : r \in Named(records)'}
      BY <2>2, <2>3, <2>4
    <2>. QED BY <2>2, <2>5, <2>6, <2>7
  <1>8. StoredInv'
    BY <1>5, <1>7 DEF StoredInv
  <1>9. PassedInv'
    BY <1>1 DEF PassedInv
  <1>. QED BY <1>8, <1>9 DEF LaunchInv

\* What depends on what is stored alone.
LEMMA StoredStays ==
  ASSUME StoredInv, UNCHANGED <<production, records, asked>>
  PROVE  StoredInv' /\ Texts' = Texts
  <1>1. records' = records /\ asked' = asked /\ production' = production
    OBVIOUS
  <1>2. Meant' = Meant /\ Named(records)' = Named(records) /\ Named(Meant)' = Named(Meant)
    BY <1>1 DEF Meant, Named
  <1>3. Texts' = Texts
    BY <1>1 DEF Texts, Rules
  <1>. QED BY <1>1, <1>2, <1>3 DEF StoredInv

LEMMA WriteKeeps ==
  ASSUME LaunchInv, WriteFile
  PROVE  LaunchInv'
  <1>1. /\ production => Texts # {}
        /\ written' = [state |-> "written", auth |-> Texts, flags |-> flags]
        /\ shown' = {Redact(text) : text \in Texts}
        /\ production' = production /\ records' = records /\ asked' = asked
        /\ flags' = flags /\ told' = told /\ served' = served
    BY DEF WriteFile
  <1>2. StoredInv' /\ Texts' = Texts
    BY <1>1, StoredStays DEF LaunchInv
  <1>3. shown' \subseteq {Redact(Format(r)) : r \in records'}
    <2>1. \A text \in Texts : \E r \in records : text = Format(r)
      BY DEF Texts, Rules
    <2>. QED BY <1>1, <2>1
  <1>4. PassedInv'
    BY <1>1, <1>2, <1>3 DEF LaunchInv, PassedInv
  <1>. QED BY <1>2, <1>4 DEF LaunchInv

LEMMA LaunchKeeps ==
  ASSUME LaunchInv, Launch
  PROVE  LaunchInv'
  <1>1. /\ written # Unwritten /\ served' = ServedOf(written.auth, told, written.flags)
        /\ written' = Unwritten /\ shown' = shown
        /\ production' = production /\ records' = records /\ asked' = asked /\ flags' = flags
        /\ told' = told
    BY DEF Launch, ServedOf
  <1>2. StoredInv' /\ Texts' = Texts
    BY <1>1, StoredStays DEF LaunchInv
  <1>3. written.auth = Texts /\ written.flags = flags /\ (production => Texts # {})
    BY <1>1 DEF LaunchInv, PassedInv
  <1>4. served' = ServedOf(Texts, told, flags)
    BY <1>1, <1>3
  <1>5. PassedInv'
    BY <1>1, <1>2, <1>3, <1>4 DEF LaunchInv, PassedInv
  <1>. QED BY <1>2, <1>5 DEF LaunchInv

LEMMA LaunchStays ==
  ASSUME LaunchInv, UNCHANGED launchVars
  PROVE  LaunchInv'
  <1>1. /\ production' = production /\ records' = records /\ asked' = asked /\ flags' = flags
        /\ told' = told /\ served' = served /\ shown' = shown /\ written' = written
    BY DEF launchVars
  <1>2. StoredInv' /\ Texts' = Texts
    BY <1>1, StoredStays DEF LaunchInv
  <1>. QED BY <1>1, <1>2 DEF LaunchInv, PassedInv

LEMMA LaunchHolds == LaunchSpec => []LaunchInv
  <1>1. ASSUME LaunchInv, LaunchNext PROVE LaunchInv'
    BY <1>1, SaveKeeps, WriteKeeps, LaunchKeeps DEF LaunchNext
  <1>2. LaunchInv /\ [LaunchNext]_launchVars => LaunchInv'
    BY <1>1, LaunchStays
  <1>. QED BY <1>2, LaunchInitially, PTL DEF LaunchSpec

LEMMA RulesAreWhole ==
  ASSUME LaunchInv
  PROVE  RulesArriveWhole
  <1>1. records \subseteq LaunchRules
    BY DEF LaunchInv, StoredInv
  <1>2. shown \subseteq {Format([r EXCEPT !.password = <<"***">>]) : r \in records}
    <2>1. shown \subseteq {Redact(Format(r)) : r \in records}
      BY DEF LaunchInv, PassedInv
    <2>2. \A r \in records : Redact(Format(r)) = Format([r EXCEPT !.password = <<"***">>])
      BY <1>1, MaskedIs
    <2>. QED BY <2>1, <2>2
  <1>3. ASSUME served # NoRam, told = <<>>, \A r \in records : ~r.admin /\ IsReadAlike(r)
        PROVE  /\ served = RamRefuses <=>
                    ~HasPair(flags) \/ \E r \in Named(records) : HasEscape(Format(r))
               /\ served # RamRefuses =>
                    /\ served.rules = Named(Meant)
                    /\ served.open => Named(Meant) = {} /\ ~production
                    /\ production => \A r \in Named(served.rules) : ~IsWeak(r.password)
    <2>. DEFINE N == Named(records)
                hasEscape == \E r \in N : HasEscape(Format(r))
                up == [state |-> "up", open |-> Texts = {}, flags |-> Allowed(flags),
                       rules |-> {ReadRule(text) : text \in {t \in Texts : Counts(t)}}]
    <2>1. /\ Named(Meant) = {AsRead(r) : r \in N}
          /\ \A r \in N : r.paths # {} /\ r.password # <<>> /\ (production => ~IsWeak(r.password))
      BY <1>3 DEF LaunchInv, StoredInv
    <2>2. N \subseteq records /\ \A r \in N : r.user # Anyone
      BY DEF Named
    <2>3. Texts = {Format(r) : r \in N}
      <3>1. {r.user : r \in {a \in records : a.admin}} = {}
        BY <1>3
      <3>2. Rules = N
        BY <1>3, <3>1 DEF Rules, Named
      <3>. QED BY <3>2 DEF Texts
    <2>4. \A r \in N : /\ IsRead(Format(r)) /\ Counts(Format(r))
                       /\ ReadRule(Format(r)) = AsRead(r)
      <3>. SUFFICES ASSUME NEW r \in N
                    PROVE  IsRead(Format(r)) /\ Counts(Format(r)) /\ ReadRule(Format(r)) = AsRead(r)
        OBVIOUS
      <3>1. /\ r \in LaunchRules /\ IsReadAlike(r) /\ r.paths # {} /\ r.user # Anyone
            /\ r.password # <<>>
        BY <1>1, <1>3, <2>1, <2>2
      <3>. QED BY <3>1, RoundTrip DEF AsRead
    <2>5. served = ServedOf(Texts, told, flags) /\ (production => Texts # {})
      BY <1>3 DEF LaunchInv, PassedInv
    <2>. HIDE DEF N
    <2>6. \A text \in Texts : IsRead(text) /\ Counts(text)
      BY <2>3, <2>4
    <2>7. {ReadRule(text) : text \in {t \in Texts : Counts(t)}} = Named(Meant)
      BY <2>1, <2>3, <2>4
    <2>8. served = IF ~hasEscape /\ HasPair(flags) THEN up ELSE RamRefuses
      <3>1. Heard(Texts, told) = Texts
        BY <1>3 DEF Heard
      <3>2. IsHeard(Texts, told) <=> ~hasEscape
        <4>1. DOMAIN told = {}
          BY <1>3
        <4>2. hasEscape <=> \E text \in Texts : HasEscape(text)
          BY <2>3
        <4>. QED BY <2>6, <4>1, <4>2 DEF IsHeard
      <3>. HIDE DEF hasEscape
      <3>. QED BY <2>5, <3>1, <3>2 DEF ServedOf
    <2>9. up.state = "up" /\ up.open = (Texts = {}) /\ up.rules = Named(Meant)
      BY <2>7
    <2>12. hasEscape <=> \E r \in Named(records) : HasEscape(Format(r))
      BY DEF N, hasEscape
    <2>. HIDE DEF hasEscape
    <2>. HIDE DEF up
    <2>10. served = RamRefuses <=> ~HasPair(flags) \/ hasEscape
      <3>1. up # RamRefuses
        BY <2>9 DEF RamRefuses
      <3>. QED BY <2>8, <3>1
    <2>11. CASE served # RamRefuses
      <3>1. served = up
        BY <2>8, <2>11
      <3>2. served.rules = Named(Meant)
        BY <2>9, <3>1
      <3>3. Texts = {} => N = {}
        BY <2>3
      <3>4. served.open => Named(Meant) = {} /\ ~production
        BY <2>1, <2>5, <2>9, <3>1, <3>3
      <3>5. production => \A r \in Named(served.rules) : ~IsWeak(r.password)
        <4>1. \A m \in Named(Meant) : \E r \in N : m.password = r.password
          BY <2>1 DEF AsRead
        <4>2. Named(Named(Meant)) \subseteq Named(Meant)
          BY DEF Named
        <4>. QED BY <2>1, <3>2, <4>1, <4>2
      <3>. QED BY <2>10, <2>12, <3>2, <3>4, <3>5
    <2>. QED BY <2>10, <2>11, <2>12
  <1>. QED BY <1>2, <1>3 DEF RulesArriveWhole

\* The rules ram serves are the rules that were asked for, for any rules, passwords and
\* paths, any settings, and any order of requests, files and starts, unless the file has a
\* text with a quote or a backslash, with which ram refuses to start; and what the console
\* shows of an account is the same for every password (update_auth_for, auth_rules_for,
\* ram_start_command_spec, redact_auth_rule; AccessControl::new, Args::parse of ram).
THEOREM LaunchedRulesAreWhole == LaunchSpec => []RulesArriveWhole
  BY LaunchHolds, RulesAreWhole, PTL
=============================================================================
