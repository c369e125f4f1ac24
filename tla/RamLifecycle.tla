---------------------------- MODULE RamLifecycle ----------------------------
(***************************************************************************)
(* The orchestration of the local ram child process by union:             *)
(* start / stop / restart / reload after an account update / status, the   *)
(* restoration of the desired state at startup, and the processes          *)
(* themselves (service_manager/lifecycle.rs, ram_auth/service.rs,          *)
(* startup.rs).                                                            *)
(*                                                                         *)
(* A step of an actor is the code between two awaits.  A handler future is *)
(* dropped when its client disconnects, so a request may be cancelled at   *)
(* every await.  Account sets are abstracted to the version number of the  *)
(* last committed replacement.                                             *)
(***************************************************************************)
EXTENDS Naturals, FiniteSets

CONSTANTS
    Requests,   \* concurrent HTTP requests
    Startup,    \* the task that restores the desired state at boot
    Procs,      \* ids of ram processes that can exist at the same time
    NoProc,     \* "no process handle"
    NoActor,    \* the operation mutex is free
    MaxRules,   \* bound: account updates committed
    MaxCrash    \* bound: restarts of union

Actors == Requests \cup {Startup}

ASSUME RamAssumption ==
    /\ Startup \notin Requests
    /\ NoActor \notin Actors
    /\ NoProc \notin Procs
    /\ MaxRules \in Nat
    /\ MaxCrash \in Nat

VARIABLES
    phase,      \* "booting" until startup has restored the desired state
    op,         \* op[a]: the operation actor a executes
    pc,         \* pc[a]: the await at which a stands
    ver,        \* ver[a]: version its account update committed
    seen,       \* seen[a]: version its start read from PostgreSQL
    lock,       \* ProcessSlot.operation: the actor that holds the mutex
    slot,       \* ProcessSlot.child: the process union manages
    handle,     \* handle[a]: process handle owned by a's stack frame
    proc,       \* proc[p]: "gone" | "starting" | "listening"
    rulesOf,    \* rulesOf[p]: account version p was started with
    killed,     \* processes with a SIGKILL under way
    rules,      \* version of the accounts in PostgreSQL
    desired,    \* services.desired_state
    crashes,    \* restarts so far
    unapplied,  \* history: versions whose update was answered as not applied
    dropped,    \* history: versions of an update that ended without an answer
    unrecorded, \* history: the process in the slot, if its start ended before the desired state
    unmanaged   \* history: live processes union never owned, or let go by a cancelled
                \* request, a restart, or a wait or kill that failed

reqVars  == <<op, pc, ver, seen>>
procVars == <<proc, rulesOf, killed>>
dbVars   == <<rules, desired>>
history  == <<unapplied, dropped, unrecorded, unmanaged>>
vars == <<phase, reqVars, lock, slot, handle, procVars, dbVars, crashes, history>>

Ops == {"none", "start", "stop", "restart", "update", "status"}
Pcs == {"idle", "boot", "save", "saveAudit", "lock",
        "begin", "probeStart", "spec", "spawn", "store", "desireUp", "record",
        "take", "reap", "term", "kill", "probeStop", "desireDown",
        "desireDownIdle", "stopRecord", "reloadRecord",
        "snapshot", "statusProbe"}
\* Between these awaits the actor holds the operation mutex.
Critical == {"begin", "probeStart", "spec", "spawn", "store", "desireUp", "record",
             "take", "reap", "term", "kill", "probeStop", "desireDown",
             "desireDownIdle", "stopRecord", "reloadRecord"}

Alive(p) == p \in Procs /\ proc[p] # "gone"
Listening == {p \in Procs : proc[p] = "listening"}
Owned == {p \in Procs : p = slot \/ \E a \in Actors : handle[a] = p}
\* ram_health: only a listener answers; a slow one may miss the timeouts.
ProbeResults == IF Listening = {} THEN {FALSE} ELSE BOOLEAN

\* An update that committed its accounts and has not yet reported the outcome.
Pending(a) == op[a] = "update" /\ pc[a] \notin {"idle", "save"}

-----------------------------------------------------------------------------
Init ==
    /\ phase = "booting"
    /\ op = [a \in Actors |-> "none"]
    /\ pc = [a \in Actors |-> IF a = Startup THEN "boot" ELSE "idle"]
    /\ ver = [a \in Actors |-> 0]
    /\ seen = [a \in Actors |-> 0]
    /\ lock = NoActor
    /\ slot = NoProc
    /\ handle = [a \in Actors |-> NoProc]
    /\ proc = [p \in Procs |-> "gone"]
    /\ rulesOf = [p \in Procs |-> 0]
    /\ killed = {}
    /\ rules = 0
    /\ desired \in {"running", "stopped"}
    /\ crashes = 0
    /\ unapplied = {}
    /\ dropped = {}
    /\ unrecorded = {}
    /\ unmanaged = {}

Goto(a, label) == pc' = [pc EXCEPT ![a] = label] /\ UNCHANGED <<op, ver, seen, phase>>

\* The handler returns (or the startup task ends): the guard is dropped.
Return(a) ==
    /\ op' = [op EXCEPT ![a] = "none"]
    /\ pc' = [pc EXCEPT ![a] = "idle"]
    /\ ver' = [ver EXCEPT ![a] = 0]
    /\ seen' = [seen EXCEPT ![a] = 0]
    /\ lock' = IF lock = a THEN NoActor ELSE lock
    /\ phase' = IF a = Startup THEN "serving" ELSE phase

\* The update's answer says that the running service was not reloaded.
Unapplied(a) ==
    unapplied' = IF Pending(a) THEN unapplied \cup {ver[a]} ELSE unapplied

\* An early return with an error.
Fail(a) == Return(a) /\ Unapplied(a)

\* kill_on_drop is off: a live process whose handle is dropped runs on.
DropHandle(a) ==
    /\ handle' = [handle EXCEPT ![a] = NoProc]
    /\ unmanaged' = unmanaged \cup {p \in Procs : p = handle[a] /\ Alive(p)}

\* `?` on try_wait or start_kill, with the process already taken out of the slot.
WaitOrKillFails(a) == handle[a] # NoProc /\ DropHandle(a) /\ Fail(a)

-----------------------------------------------------------------------------
(* Arrival of a request. *)

Arrive(a, kind, label) ==
    /\ phase = "serving"
    /\ a \in Requests
    /\ pc[a] = "idle"
    /\ op' = [op EXCEPT ![a] = kind]
    /\ pc' = [pc EXCEPT ![a] = label]
    /\ UNCHANGED <<phase, ver, seen, lock, slot, handle, procVars, dbVars, crashes, history>>

StartRequest(a)   == Arrive(a, "start", "lock")
StopRequest(a)    == Arrive(a, "stop", "lock")
RestartRequest(a) == Arrive(a, "restart", "lock")
StatusRequest(a)  == Arrive(a, "status", "snapshot")
UpdateRequest(a)  == rules < MaxRules /\ Arrive(a, "update", "save")

\* update_auth_for: replace_service_accounts commits outside the operation mutex; a
\* COMMIT whose answer is lost fails, and has happened all the same.
SaveAccounts(a) ==
    /\ pc[a] = "save"
    /\ \/ /\ rules < MaxRules
          /\ rules' = rules + 1
          /\ ver' = [ver EXCEPT ![a] = rules']
          /\ pc' = [pc EXCEPT ![a] = "saveAudit"]
          /\ UNCHANGED <<op, seen, phase, lock, unapplied>>
       \/ Return(a) /\ UNCHANGED <<rules, unapplied>>
       \/ /\ rules < MaxRules
          /\ rules' = rules + 1
          /\ Return(a)
          /\ unapplied' = unapplied \cup {rules'}
    /\ UNCHANGED <<slot, handle, procVars, desired, crashes, dropped, unrecorded, unmanaged>>

\* Variant: the answer is sent without a reload.
SaveAudit_NoReload(a) ==
    /\ pc[a] = "saveAudit"
    /\ Return(a)
    /\ UNCHANGED <<slot, handle, procVars, dbVars, crashes, history>>

\* insert_audit: its error returns before the reload.
SaveAudit(a) ==
    /\ pc[a] = "saveAudit"
    /\ \/ Goto(a, "lock") /\ UNCHANGED <<lock, unapplied>>
       \/ Fail(a)
    /\ UNCHANGED <<slot, handle, procVars, dbVars, crashes, dropped, unrecorded, unmanaged>>

\* Variant: no operation mutex.
Lock_Free(a) ==
    /\ pc[a] = "lock"
    /\ lock' = a
    /\ Goto(a, IF op[a] = "start" THEN "begin" ELSE "take")
    /\ UNCHANGED <<slot, handle, procVars, dbVars, crashes, history>>

Lock(a) ==
    /\ pc[a] = "lock"
    /\ lock = NoActor
    /\ lock' = a
    /\ Goto(a, IF op[a] = "start" THEN "begin" ELSE "take")
    /\ UNCHANGED <<slot, handle, procVars, dbVars, crashes, history>>

-----------------------------------------------------------------------------
(* start_ram_locked *)

\* Variant: a start replaces the handle of a live process.
CheckSlot_Blind(a) ==
    /\ pc[a] = "begin"
    /\ Goto(a, "probeStart")
    /\ UNCHANGED <<lock, slot, handle, procVars, dbVars, crashes, history>>

\* A live process is refused; so is one whose try_wait fails, and it keeps its slot.
CheckSlot(a) ==
    /\ pc[a] = "begin"
    /\ \/ slot # NoProc /\ Fail(a) /\ UNCHANGED slot
       \/ ~Alive(slot) /\ slot' = NoProc /\ Goto(a, "probeStart") /\ UNCHANGED <<lock, unapplied>>
    /\ UNCHANGED <<handle, procVars, dbVars, crashes, dropped, unrecorded, unmanaged>>

\* A reachable port means an unmanaged ram: refuse.
ProbeStart(a) ==
    /\ pc[a] = "probeStart"
    /\ \E reachable \in ProbeResults :
          IF reachable THEN Fail(a)
          ELSE Goto(a, "spec") /\ UNCHANGED <<lock, unapplied>>
    /\ UNCHANGED <<slot, handle, procVars, dbVars, crashes, dropped, unrecorded, unmanaged>>

\* ram_start_command_spec: the accounts of the next process are read here.
ReadRules(a) ==
    /\ pc[a] = "spec"
    /\ \/ /\ pc' = [pc EXCEPT ![a] = "spawn"]
          /\ seen' = [seen EXCEPT ![a] = rules]
          /\ UNCHANGED <<op, ver, phase, lock, unapplied>>
       \/ Fail(a)
    /\ UNCHANGED <<slot, handle, procVars, dbVars, crashes, dropped, unrecorded, unmanaged>>

\* Validate, write the private config, spawn; the handle is a local variable
\* until the child mutex is taken.
Spawn(a) ==
    /\ pc[a] = "spawn"
    /\ \/ \E p \in Procs \ Owned :
             /\ proc[p] = "gone"
             /\ proc' = [proc EXCEPT ![p] = "starting"]
             /\ rulesOf' = [rulesOf EXCEPT ![p] = seen[a]]
             /\ handle' = [handle EXCEPT ![a] = p]
             /\ seen' = [seen EXCEPT ![a] = 0]
             /\ pc' = [pc EXCEPT ![a] = "store"]
             /\ UNCHANGED <<op, ver, phase, lock, unapplied>>
       \/ Fail(a) /\ UNCHANGED <<proc, rulesOf, handle>>
    /\ UNCHANGED <<slot, killed, dbVars, crashes, dropped, unrecorded, unmanaged>>

StoreChild(a) ==
    /\ pc[a] = "store"
    /\ slot' = handle[a]
    /\ handle' = [handle EXCEPT ![a] = NoProc]
    /\ Goto(a, "desireUp")
    /\ UNCHANGED <<lock, procVars, dbVars, crashes, history>>

\* A failing UPDATE returns Err while the process keeps running.
DesireRunning(a) ==
    /\ pc[a] = "desireUp"
    /\ \/ /\ desired' = "running"
          /\ Goto(a, "record")
          /\ UNCHANGED <<lock, unapplied, unrecorded>>
       \/ /\ Fail(a)
          /\ unrecorded' = unrecorded \cup ({slot} \cap Procs)
          /\ UNCHANGED desired
    /\ UNCHANGED <<slot, handle, procVars, rules, crashes, dropped, unmanaged>>

\* The handle of a process that has exited is dropped on sight.
DropExited == slot' = IF Alive(slot) THEN slot ELSE NoProc

\* service_event, insert_audit, then ram_status for the answer.
RecordStart(a) ==
    /\ pc[a] = "record"
    /\ \/ DropExited /\ Return(a) /\ UNCHANGED unapplied
       \/ Fail(a) /\ UNCHANGED slot
    /\ UNCHANGED <<handle, procVars, dbVars, crashes, dropped, unrecorded, unmanaged>>

-----------------------------------------------------------------------------
(* stop_ram_locked and the first half of reload_managed_ram *)

TakeChild(a) ==
    /\ pc[a] = "take"
    /\ handle' = [handle EXCEPT ![a] = slot]
    /\ slot' = NoProc
    /\ unrecorded' = {}
    /\ Goto(a, "reap")
    /\ UNCHANGED <<lock, procVars, dbVars, crashes, unapplied, dropped, unmanaged>>

\* try_wait, then SIGTERM (SIGKILL at once when the kill command fails).
Reap(a) ==
    /\ pc[a] = "reap"
    /\ \/ /\ Alive(handle[a])
          /\ killed' \in {killed, killed \cup {handle[a]}}
          /\ Goto(a, "term")
          /\ UNCHANGED <<lock, handle, unapplied, unmanaged>>
       \/ /\ ~Alive(handle[a])
          /\ handle' = [handle EXCEPT ![a] = NoProc]
          /\ Goto(a, "probeStop")
          /\ UNCHANGED <<lock, killed, unapplied, unmanaged>>
       \/ WaitOrKillFails(a) /\ UNCHANGED killed
    /\ UNCHANGED <<slot, proc, rulesOf, dbVars, crashes, dropped, unrecorded>>

\* Variant: after the timeout the wait goes on without SIGKILL.
TermTimeout_NoKill(a) ==
    /\ pc[a] = "term"
    /\ Alive(handle[a])
    /\ Goto(a, "kill")
    /\ UNCHANGED <<lock, slot, handle, procVars, dbVars, crashes, history>>

\* Five seconds have passed: SIGKILL and wait without a limit.
TermTimeout(a) ==
    /\ pc[a] = "term"
    /\ Alive(handle[a])
    /\ \/ /\ killed' = killed \cup {handle[a]}
          /\ Goto(a, "kill")
          /\ UNCHANGED <<lock, handle, unapplied, unmanaged>>
       \/ WaitOrKillFails(a) /\ UNCHANGED killed
    /\ UNCHANGED <<slot, proc, rulesOf, dbVars, crashes, dropped, unrecorded>>

\* Variant: the timeout ends the wait.
Terminated_GiveUp(a) ==
    /\ pc[a] \in {"term", "kill"}
    /\ handle' = [handle EXCEPT ![a] = NoProc]
    /\ Goto(a, IF op[a] = "update" THEN "reloadRecord" ELSE "desireDown")
    /\ UNCHANGED <<lock, slot, procVars, dbVars, crashes, history>>

AfterExit(a) == Goto(a, IF op[a] = "update" THEN "reloadRecord" ELSE "desireDown")

\* child.wait() returns: the process is gone.
Terminated(a) ==
    /\ pc[a] \in {"term", "kill"}
    /\ ~Alive(handle[a])
    /\ handle' = [handle EXCEPT ![a] = NoProc]
    /\ AfterExit(a)
    /\ UNCHANGED <<lock, slot, procVars, dbVars, crashes, history>>

\* child.wait() fails: its error is not looked at, the operation goes on.
WaitFails(a) ==
    /\ pc[a] \in {"term", "kill"}
    /\ DropHandle(a)
    /\ AfterExit(a)
    /\ UNCHANGED <<lock, slot, procVars, dbVars, crashes, unapplied, dropped, unrecorded>>

\* Nothing was stopped: a reachable port is an unmanaged ram, refuse.
\* Otherwise a reload answers Ok(false) and a stop goes on.
ProbeStop(a) ==
    /\ pc[a] = "probeStop"
    /\ \E reachable \in ProbeResults :
          \/ reachable /\ Fail(a)
          \/ /\ ~reachable
             /\ IF op[a] = "update" THEN Return(a)
                ELSE Goto(a, "desireDownIdle") /\ UNCHANGED lock
             /\ UNCHANGED unapplied
    /\ UNCHANGED <<slot, handle, procVars, dbVars, crashes, dropped, unrecorded, unmanaged>>

\* restart_ram goes on to start_ram_locked under the same guard.
StopDone(a) ==
    IF op[a] = "restart" THEN Goto(a, "begin") /\ UNCHANGED lock ELSE Return(a)

DesireStopped(a) ==
    /\ pc[a] \in {"desireDown", "desireDownIdle"}
    /\ \/ /\ desired' = "stopped"
          /\ IF pc[a] = "desireDown" THEN Goto(a, "stopRecord") /\ UNCHANGED lock
             ELSE StopDone(a)
       \/ Return(a) /\ UNCHANGED desired
    /\ UNCHANGED <<slot, handle, procVars, rules, crashes, history>>

\* The event and the audit row of a process that was really stopped.
RecordStop(a) ==
    /\ pc[a] = "stopRecord"
    /\ StopDone(a) \/ Return(a)
    /\ UNCHANGED <<slot, handle, procVars, dbVars, crashes, history>>

\* reload_managed_ram after the old process is gone; an error leaves no process.
RecordReload(a) ==
    /\ pc[a] = "reloadRecord"
    /\ \/ Goto(a, "begin") /\ UNCHANGED <<lock, unapplied>>
       \/ Fail(a)
    /\ UNCHANGED <<slot, handle, procVars, dbVars, crashes, dropped, unrecorded, unmanaged>>

-----------------------------------------------------------------------------
(* ram_status: takes only the child mutex, never the operation mutex. *)

\* With a live handle the answer is "running" whatever the probe says; when try_wait
\* fails the answer is an error and the slot stays as it is.
Snapshot(a) ==
    /\ pc[a] = "snapshot"
    /\ \/ /\ DropExited
          /\ IF Alive(slot) THEN Return(a) ELSE Goto(a, "statusProbe") /\ UNCHANGED lock
       \/ slot # NoProc /\ Return(a) /\ UNCHANGED slot
    /\ UNCHANGED <<handle, procVars, dbVars, crashes, history>>

\* No handle at the snapshot: "external" if the port answers now, else "stopped".
StatusProbe(a) ==
    /\ pc[a] = "statusProbe"
    /\ Return(a)
    /\ UNCHANGED <<slot, handle, procVars, dbVars, crashes, history>>

-----------------------------------------------------------------------------
(* Startup, cancellation, restart of union *)

Boot ==
    /\ pc[Startup] = "boot"
    /\ IF desired = "running"
       THEN /\ op' = [op EXCEPT ![Startup] = "start"]
            /\ pc' = [pc EXCEPT ![Startup] = "lock"]
            /\ UNCHANGED <<phase, ver, seen, lock>>
       ELSE Return(Startup)
    /\ UNCHANGED <<slot, handle, procVars, dbVars, crashes, history>>

\* The client disconnects: the future is dropped at its await, nobody is answered, a
\* process whose handle it owned runs on unmanaged, and a COMMIT under way may happen.
Cancel(a) ==
    /\ a \in Requests
    /\ pc[a] # "idle"
    /\ Return(a)
    /\ \/ /\ dropped' = IF Pending(a) THEN dropped \cup {ver[a]} ELSE dropped
          /\ UNCHANGED rules
       \/ /\ pc[a] = "save"
          /\ rules < MaxRules
          /\ rules' = rules + 1
          /\ dropped' = dropped \cup {rules'}
    /\ DropHandle(a)
    /\ unrecorded' = IF pc[a] = "desireUp" THEN unrecorded \cup ({slot} \cap Procs)
                     ELSE unrecorded
    /\ UNCHANGED <<slot, procVars, desired, crashes, unapplied>>

\* union stops or crashes: memory is lost, the children live on.  (A COMMIT under way
\* that happens after all is a Cancel followed by a Restart.)
Restart ==
    /\ crashes < MaxCrash
    /\ crashes' = crashes + 1
    /\ phase' = "booting"
    /\ op' = [a \in Actors |-> "none"]
    /\ pc' = [a \in Actors |-> IF a = Startup THEN "boot" ELSE "idle"]
    /\ ver' = [a \in Actors |-> 0]
    /\ seen' = [a \in Actors |-> 0]
    /\ lock' = NoActor
    /\ slot' = NoProc
    /\ handle' = [a \in Actors |-> NoProc]
    /\ dropped' = dropped \cup {ver[a] : a \in {b \in Actors : Pending(b)}}
    /\ unmanaged' = unmanaged \cup {p \in Owned : Alive(p)}
    /\ unrecorded' = {}
    /\ UNCHANGED <<procVars, dbVars, unapplied>>

-----------------------------------------------------------------------------
(* The processes *)

\* The process binds the port; a second one fails to bind and exits.
BindPort(p) ==
    /\ proc[p] = "starting"
    /\ Listening = {}
    /\ proc' = [proc EXCEPT ![p] = "listening"]
    /\ UNCHANGED <<phase, reqVars, lock, slot, handle, rulesOf, killed, dbVars,
                   crashes, history>>

\* Exit by itself, by a signal, or because the port is taken.
Exit(p) ==
    /\ proc[p] # "gone"
    /\ proc' = [proc EXCEPT ![p] = "gone"]
    /\ rulesOf' = [rulesOf EXCEPT ![p] = 0]
    /\ killed' = killed \ {p}
    /\ unrecorded' = unrecorded \ {p}
    /\ unmanaged' = unmanaged \ {p}
    /\ UNCHANGED <<phase, reqVars, lock, slot, handle, dbVars, crashes, unapplied, dropped>>

\* An operator starts a ram outside union.
ForeignStart(p) ==
    /\ p \in Procs \ Owned
    /\ proc[p] = "gone"
    /\ proc' = [proc EXCEPT ![p] = "starting"]
    /\ rulesOf' = [rulesOf EXCEPT ![p] = 0]
    /\ unmanaged' = unmanaged \cup {p}
    /\ UNCHANGED <<phase, reqVars, lock, slot, handle, killed, dbVars, crashes,
                   unapplied, dropped, unrecorded>>

-----------------------------------------------------------------------------
Step(a) ==
    \/ SaveAccounts(a) \/ SaveAudit(a) \/ Lock(a)
    \/ CheckSlot(a) \/ ProbeStart(a) \/ ReadRules(a) \/ Spawn(a) \/ StoreChild(a)
    \/ DesireRunning(a) \/ RecordStart(a)
    \/ TakeChild(a) \/ Reap(a) \/ TermTimeout(a) \/ Terminated(a) \/ ProbeStop(a)
    \/ DesireStopped(a) \/ RecordStop(a) \/ RecordReload(a)
    \/ Snapshot(a) \/ StatusProbe(a)

Request(a) ==
    \/ StartRequest(a) \/ StopRequest(a) \/ RestartRequest(a)
    \/ UpdateRequest(a) \/ StatusRequest(a)

Next ==
    \/ \E a \in Actors : Step(a) \/ Request(a) \/ Cancel(a) \/ WaitFails(a)
    \/ Boot \/ Restart
    \/ \E p \in Procs : BindPort(p) \/ Exit(p) \/ ForeignStart(p)

Spec == Init /\ [][Next]_vars

\* The tokio scheduler polls every ready future and its mutex is FIFO; SIGKILL
\* takes effect.  Nothing obliges a process to heed SIGTERM.
Fairness ==
    /\ \A a \in Actors : WF_vars(Step(a)) /\ SF_vars(Lock(a))
    /\ WF_vars(Boot)
    /\ \A p \in Procs : WF_vars(p \in killed /\ Exit(p))

FairSpec == Spec /\ Fairness

-----------------------------------------------------------------------------
(* Properties *)

\* Every variable has its type.
TypeOK ==
    /\ phase \in {"booting", "serving"}
    /\ op \in [Actors -> Ops]
    /\ pc \in [Actors -> Pcs]
    /\ ver \in [Actors -> 0 .. MaxRules]
    /\ seen \in [Actors -> 0 .. MaxRules]
    /\ lock \in Actors \cup {NoActor}
    /\ slot \in Procs \cup {NoProc}
    /\ handle \in [Actors -> Procs \cup {NoProc}]
    /\ proc \in [Procs -> {"gone", "starting", "listening"}]
    /\ rulesOf \in [Procs -> 0 .. MaxRules]
    /\ killed \subseteq Procs
    /\ rules \in 0 .. MaxRules
    /\ desired \in {"running", "stopped"}
    /\ crashes \in 0 .. MaxCrash
    /\ unapplied \subseteq 0 .. MaxRules
    /\ dropped \subseteq 0 .. MaxRules
    /\ unrecorded \subseteq Procs
    /\ unmanaged \subseteq Procs

\* The operation mutex serialises whole operations: union never holds two ram
\* processes, whether in the slot or in the frame of a start or a stop.
SingleOwner == \A p, q \in Owned : p = q

\* Strengthening: the mutex is held exactly in the critical part; a frame owns a
\* handle only between spawn and store or between take and exit; while an operation
\* works without a process the slot stays empty.
Emptied == Critical \ {"begin", "desireUp", "record", "take"}
LockHeld == \A a \in Actors : pc[a] \in Critical <=> lock = a
HandleHeld == \A a \in Actors : handle[a] # NoProc => pc[a] \in {"store", "reap", "term", "kill"}
SlotEmpty == \A a \in Actors : pc[a] \in Emptied => slot = NoProc
OwnerInv == TypeOK /\ LockHeld /\ HandleHeld /\ SlotEmpty

\* Update number u is under way, was answered as saved but not applied, or ended without
\* an answer: its handler was dropped, or union restarted.
Accounted(u) ==
    \/ \E a \in Actors : Pending(a) /\ ver[a] = u
    \/ u \in unapplied
    \/ u \in dropped

\* Every update newer than the accounts of version v is accounted for.
Covered(v) == \A u \in v + 1 .. rules : Accounted(u)

\* union/doc/operations.md: "保存后，运行中的 ram 会重载" (after saving, a running ram is
\* reloaded): an update that was answered as applied, or as not needing a reload, is in
\* every managed process; what a process lacks is an update still on its way to the reload,
\* one answered as not applied, or one whose own handler was dropped or ended by a restart
\* after the COMMIT, of which nobody was told (service.rs commits before it reloads).
FreshRules == Alive(slot) => Covered(rulesOf[slot])

\* Strengthening: the labels that only one operation reaches; the same promise for a
\* process being started; a reload starts its process with its own update or a later one.
FreshInv ==
    /\ \A a \in Actors :
          /\ pc[a] = "save" => op[a] = "update"
          /\ pc[a] \in {"snapshot", "statusProbe"} => op[a] = "status"
          /\ pc[a] = "boot" => op[a] = "none"
    /\ \A a \in Actors : ver[a] <= rules
    /\ \A a \in Actors : pc[a] = "spawn" =>
          Covered(seen[a]) /\ (Pending(a) => ver[a] <= seen[a])
    /\ \A a \in Actors : pc[a] = "store" /\ Alive(handle[a]) =>
          Covered(rulesOf[handle[a]]) /\ (Pending(a) => ver[a] <= rulesOf[handle[a]])
    /\ \A a \in Actors : pc[a] \in {"desireUp", "record"} /\ Alive(slot) /\ Pending(a) =>
          ver[a] <= rulesOf[slot]
    /\ FreshRules

\* services.desired_state follows the managed process: a live one is desired to
\* run, except inside start between the spawn and the UPDATE, or when exactly
\* that start ended in between.
DesiredFollowsProcess ==
    Alive(slot) /\ desired = "stopped" =>
        \/ slot \in unrecorded
        \/ lock # NoActor /\ pc[lock] = "desireUp"

\* A live process nobody owns was left by a cancelled request, a restart of union or an
\* operator, or by a try_wait, wait or kill that failed: no other path of start, stop,
\* restart, reload or status lets go of one.
NoLeakedProcess == \A p \in Procs : Alive(p) => p \in Owned \cup unmanaged

\* "an unmanaged ram process is reachable; refusing to terminate it": when an
\* operation probes the port, no process of union is behind it, so a restart or a
\* reload is never refused because of its own predecessor.
RefusalIsTruthful ==
    \A a \in Actors : pc[a] \in {"probeStart", "probeStop"} => Listening \cap Owned = {}

\* The operation mutex is always released: neither a ram that ignores SIGTERM nor
\* a failing database wedges the later operations.
LockReleased == \A a \in Actors : lock = a ~> lock # a

\* A managed process that lacks an update is eventually replaced or gone, or that very
\* update was answered as not applied or ended without an answer.
StaleRulesResolve ==
    \A u \in 1 .. MaxRules :
        Alive(slot) /\ rulesOf[slot] < u /\ u <= rules ~>
            ~Alive(slot) \/ rulesOf[slot] >= u \/ u \in unapplied \cup dropped
=============================================================================
