--------------------------- MODULE AgentDelivery ---------------------------
(***************************************************************************)
(* The way of a telemetry report of one host: unionc-agent samples it,     *)
(* sends it or keeps it in its spool (agent/src/main.rs, spool.rs,         *)
(* transport.rs), the server stores it once and keeps the newest one of    *)
(* the host at hand (routes/monitoring.rs, database/monitoring.rs).        *)
(*                                                                         *)
(* Two processes may share the state directory: the service, which runs    *)
(* run_loop, and `unionc-agent once`.  A step is one file operation, or    *)
(* one message, or one transaction.  Reports are numbered as they are      *)
(* collected; collected_at is the wall clock, which may be set back.       *)
(* Every report takes the same room of the spool.                          *)
(***************************************************************************)
EXTENDS Naturals, FiniteSets

CONSTANTS
    MaxReports,  \* bound: reports collected
    Times,       \* bound: values of the wall clock
    Rejected,    \* reports that AgentReport::validate refuses
    MaxPending,  \* spool_max_bytes, in reports
    Batch        \* reports one round replays

ASSUME DeliveryAssumption ==
    /\ MaxReports \in Nat /\ MaxPending \in Nat \ {0} /\ Batch \in Nat \ {0}
    /\ Times \subseteq Nat
    /\ Rejected \subseteq 1 .. MaxReports

VARIABLES
    pc, hand, call, pending, batch, due, failed,  \* the processes of the agent
    doomed,     \* doomed[a]: what a has found too many and has not removed yet
    spool,      \* the spool directory
    at,         \* at[r]: collected_at of report r
    next,       \* number of the next report
    late,       \* requests the agent has given up: each may be served, again and
                \*   again after its retries, or be lost
    rows,       \* agent_metric_reports
    latest,     \* monitored_hosts.latest_report_id, 0 when NULL
    ever,       \* history: reports the server has stored
    lost        \* history: reports the agent has dropped

agent == <<pc, hand, call, pending, batch, due, failed, doomed>>
server == <<rows, latest, ever>>
vars == <<agent, spool, at, next, late, server, lost>>

Reports == 1 .. MaxReports
Run == "run"
Procs == {Run, "once"}
Pcs == {"sleep", "send", "enqueue", "limit", "evict", "flush", "replay", "ack"}
Collected == {r \in Reports : r < next}
Hands == {hand[a] : a \in Procs} \ {0}

\* The report that process a is sending.
Wanted(a) == IF pc[a] = "replay" THEN pending ELSE hand[a]

\* File names start with collected_at; a tie is decided by a random UUID.
Oldest(S) == {r \in S : \A q \in S : at[r] <= at[q]}

Fits == {S \in SUBSET Reports : Cardinality(S) <= MaxPending}

-----------------------------------------------------------------------------
Init ==
    /\ pc = [a \in Procs |-> "sleep"]
    /\ hand = [a \in Procs |-> 0]
    /\ call = [a \in Procs |-> "none"]
    /\ pending = 0 /\ batch = 0 /\ due = TRUE /\ failed = FALSE
    /\ doomed = [a \in Procs |-> {}]
    /\ spool = {} /\ late = {}
    /\ at = [r \in Reports |-> 0]
    /\ next = 1
    /\ rows = {} /\ latest = 0 /\ ever = {} /\ lost = {}

Goto(a, label) == pc' = [pc EXCEPT ![a] = label]
Sent(a) == call' = [call EXCEPT ![a] = "sent"]
NoCall(a) == call' = [call EXCEPT ![a] = "none"]
Drop(a) == hand' = [hand EXCEPT ![a] = 0]

\* A round of run_loop, or a run of `once`: collect, then send at once or spool.
Collect(a, t) ==
    /\ pc[a] = "sleep"
    /\ next <= MaxReports
    /\ next' = next + 1
    /\ at' = [at EXCEPT ![next] = t]
    /\ hand' = [hand EXCEPT ![a] = next]
    /\ \/ (a = Run => spool = {} /\ due) /\ Goto(a, "send") /\ Sent(a)
       \/ a = Run /\ ~(spool = {} /\ due) /\ Goto(a, "enqueue") /\ UNCHANGED call
    /\ UNCHANGED <<pending, batch, due, failed, doomed, spool, late, server, lost>>

\* A round after the bound: its report is not followed and takes no room.
Round ==
    /\ pc[Run] = "sleep"
    /\ next > MaxReports
    /\ due
    /\ Goto(Run, "flush")
    /\ batch' = 0
    /\ UNCHANGED <<hand, call, pending, due, failed, doomed, spool, at, next, late, server, lost>>

\* send_unionc of a fresh report has returned Ok.
Direct(a) ==
    /\ pc[a] = "send" /\ call[a] = "ok"
    /\ Goto(a, "sleep") /\ NoCall(a) /\ Drop(a)
    /\ due' = IF a = Run THEN TRUE ELSE due
    /\ UNCHANGED <<pending, batch, failed, doomed, spool, at, next, late, server, lost>>

\* A round that failed: wait for the backoff.
RoundFails ==
    /\ Goto(Run, "sleep")
    /\ pending' = 0 /\ batch' = 0 /\ due' = FALSE /\ failed' = FALSE

\* send_unionc returns Err: an error status, a timeout, a lost request or a lost
\* answer.  A request that nobody waits for any more may still be served.
SendFails(a) ==
    /\ call[a] # "none"
    /\ NoCall(a)
    /\ late' = IF call[a] = "sent" THEN late \cup {Wanted(a)} ELSE late
    /\ \/ /\ pc[a] = "send"
          /\ Goto(a, "enqueue")
          /\ failed' = IF a = Run THEN TRUE ELSE failed
          /\ UNCHANGED <<pending, batch, due>>
       \/ pc[a] = "replay" /\ RoundFails
    /\ UNCHANGED <<hand, doomed, spool, at, next, server, lost>>

\* Spool::enqueue up to the rename that makes the report durable.
Enqueue(a) ==
    /\ pc[a] = "enqueue"
    /\ spool' = spool \cup {hand[a]}
    /\ Goto(a, "limit") /\ Drop(a)
    /\ UNCHANGED <<call, pending, batch, due, failed, doomed, at, next, late, server, lost>>

\* Mutant: off by one.
Measure_Early(a) ==
    /\ pc[a] = "limit"
    /\ \E S \in SUBSET spool :
        /\ Cardinality(spool \ S) < MaxPending
        /\ \A r \in S : Cardinality(spool \ S) + 1 >= MaxPending
        /\ \A r \in S, q \in spool \ S : at[r] <= at[q]
        /\ doomed' = [doomed EXCEPT ![a] = S]
    /\ Goto(a, "evict")
    /\ UNCHANGED <<hand, call, pending, batch, due, failed, spool, at, next, late, server, lost>>

\* Spool::enforce_limit lists the files and adds up their sizes: what is too many
\* now are the oldest ones, as few as will do.
Measure(a) ==
    /\ pc[a] = "limit"
    /\ \E S \in SUBSET spool :
        /\ spool \ S \in Fits
        /\ \A r \in S : (spool \ S) \cup {r} \notin Fits
        /\ \A r \in S, q \in spool \ S : at[r] <= at[q]
        /\ doomed' = [doomed EXCEPT ![a] = S]
    /\ Goto(a, "evict")
    /\ UNCHANGED <<hand, call, pending, batch, due, failed, spool, at, next, late, server, lost>>

\* It removes them one by one, by that total: the spool may have shrunk since.
Evict(a) ==
    /\ pc[a] = "evict"
    /\ \E r \in Oldest(doomed[a]) :
        /\ r \in spool
        /\ spool' = spool \ {r} /\ lost' = lost \cup {r}
        /\ doomed' = [doomed EXCEPT ![a] = @ \ {r}]
    /\ UNCHANGED <<pc, hand, call, pending, batch, due, failed, at, next, late, server>>

\* ... until the rest would fit.  After a failed direct send the round is over;
\* otherwise it goes on to the backlog if the backoff has passed.
WithinLimit(a) ==
    /\ pc[a] = "evict"
    /\ doomed[a] = {}
    /\ \/ /\ a = Run /\ failed
          /\ RoundFails
       \/ /\ ~(a = Run /\ failed)
          /\ Goto(a, IF a = Run /\ due THEN "flush" ELSE "sleep")
          /\ batch' = IF a = Run THEN 0 ELSE batch
          /\ UNCHANGED <<pending, due, failed>>
    /\ UNCHANGED <<hand, call, doomed, spool, at, next, late, server, lost>>

\* flush_spool: the oldest report is sent.
Replay ==
    /\ pc[Run] = "flush" /\ batch < Batch
    /\ \E r \in Oldest(spool) : pending' = r
    /\ Goto(Run, "replay") /\ Sent(Run)
    /\ UNCHANGED <<hand, batch, due, failed, doomed, spool, at, next, late, server, lost>>

\* flush_spool returns Ok: the backlog is empty or the batch is used up.
Flushed ==
    /\ pc[Run] = "flush"
    /\ spool = {} \/ batch = Batch
    /\ Goto(Run, "sleep")
    /\ due' = TRUE
    /\ batch' = 0
    /\ UNCHANGED <<hand, call, pending, failed, doomed, spool, at, next, late, server, lost>>

Replayed ==
    /\ pc[Run] = "replay" /\ call[Run] = "ok"
    /\ Goto(Run, "ack") /\ NoCall(Run)
    /\ UNCHANGED <<hand, pending, batch, due, failed, doomed, spool, at, next, late, server, lost>>

\* Mutant: the file that is now the oldest is removed.
Acknowledge_Oldest ==
    /\ pc[Run] = "ack"
    /\ \/ /\ \E r \in Oldest(spool) : spool' = spool \ {r}
          /\ Goto(Run, "flush")
          /\ pending' = 0 /\ batch' = batch + 1
          /\ UNCHANGED <<due, failed>>
       \/ spool = {} /\ RoundFails /\ UNCHANGED spool
    /\ UNCHANGED <<hand, call, doomed, at, next, late, server, lost>>

\* Mutant: the file is left.
Acknowledge_Leaves ==
    /\ pc[Run] = "ack"
    /\ Goto(Run, "flush")
    /\ pending' = 0 /\ batch' = batch + 1
    /\ UNCHANGED <<hand, call, due, failed, doomed, spool, at, next, late, server, lost>>

\* Spool::acknowledge removes the file; it fails if `once` has evicted it.
Acknowledge ==
    /\ pc[Run] = "ack"
    /\ \/ /\ pending \in spool
          /\ spool' = spool \ {pending}
          /\ Goto(Run, "flush")
          /\ pending' = 0 /\ batch' = batch + 1
          /\ UNCHANGED <<due, failed>>
       \/ pending \notin spool /\ RoundFails /\ UNCHANGED spool
    /\ UNCHANGED <<hand, call, doomed, at, next, late, server, lost>>

\* The wall clock passes retry_at.
BackoffEnds ==
    /\ ~due
    /\ due' = TRUE
    /\ UNCHANGED <<pc, hand, call, pending, batch, failed, doomed, spool, at, next, late, server, lost>>

\* A process ends; its memory is gone.
End(a) ==
    /\ Goto(a, "sleep") /\ NoCall(a) /\ Drop(a)
    /\ late' = IF call[a] = "sent" THEN late \cup {Wanted(a)} ELSE late
    /\ lost' = lost \cup ({hand[a]} \ {0})
    /\ doomed' = [doomed EXCEPT ![a] = {}]
    /\ IF a = Run
       THEN pending' = 0 /\ batch' = 0 /\ due' = TRUE /\ failed' = FALSE
       ELSE UNCHANGED <<pending, batch, due, failed>>
    /\ UNCHANGED <<spool, at, next, server>>

\* The file to remove is gone: enforce_limit fails, and the process with it.
EvictFails(a) ==
    /\ pc[a] = "evict"
    /\ \E r \in Oldest(doomed[a]) : r \notin spool
    /\ End(a)

\* The process is killed, or returns another I/O error of the spool.
Crash(a) == pc[a] # "sleep" /\ End(a)

-----------------------------------------------------------------------------
\* Mutant: the newest report of the host is whichever came last.
Store_Last(r) ==
    /\ rows' = rows \cup {r}
    /\ ever' = ever \cup {r}
    /\ latest' = IF r \notin rows THEN r ELSE latest

\* store_monitoring_report: one transaction; a report that is there already
\* changes nothing of what is modelled.
Store(r) ==
    /\ rows' = rows \cup {r}
    /\ ever' = ever \cup {r}
    /\ latest' = IF r \notin rows /\ (latest = 0 \/ at[latest] <= at[r])
                 THEN r ELSE latest

\* report_metrics for a request the agent waits for ...
Serve(a) ==
    /\ call[a] = "sent"
    /\ Wanted(a) \notin Rejected
    /\ Store(Wanted(a))
    /\ call' = [call EXCEPT ![a] = "ok"]
    /\ UNCHANGED <<pc, hand, pending, batch, due, failed, doomed, spool, at, next, late, lost>>

\* ... and for one it has given up; nothing obliges it to be.
ServeLate(r) ==
    /\ r \in late \ Rejected
    /\ Store(r)
    /\ UNCHANGED <<agent, spool, at, next, late, lost>>

\* prune_monitoring_history.
Prune(r) ==
    /\ r \in rows
    /\ rows' = rows \ {r}
    /\ UNCHANGED <<agent, spool, at, next, late, latest, ever, lost>>

-----------------------------------------------------------------------------
Process(a) ==
    \/ \E t \in Times : Collect(a, t)
    \/ Direct(a) \/ SendFails(a) \/ Enqueue(a) \/ Measure(a) \/ Evict(a)
    \/ WithinLimit(a) \/ EvictFails(a) \/ Crash(a) \/ Serve(a)

RunLoop == Round \/ Replay \/ Flushed \/ Replayed \/ Acknowledge \/ BackoffEnds

Server == \E r \in Reports : ServeLate(r) \/ Prune(r)

Next == (\E a \in Procs : Process(a)) \/ RunLoop \/ Server

Spec == Init /\ [][Next]_vars

\* The service is restarted when it ends, takes its steps and gets to the steps of
\* a replay again and again; so do the network and the server, so that a report
\* sent often enough is stored and its answer arrives.
RunStep ==
    \/ \E t \in Times : Collect(Run, t)
    \/ Round \/ Direct(Run) \/ SendFails(Run) \/ Flushed
    \/ Enqueue(Run) \/ Measure(Run) \/ Evict(Run) \/ WithinLimit(Run) \/ EvictFails(Run)

Fairness ==
    /\ WF_vars(RunStep) /\ WF_vars(BackoffEnds)
    /\ SF_vars(Replay) /\ SF_vars(Serve(Run)) /\ SF_vars(Replayed) /\ SF_vars(Acknowledge)

FairSpec == Spec /\ Fairness

-----------------------------------------------------------------------------
TypeOK ==
    /\ pc \in [Procs -> Pcs]
    /\ pc["once"] \in {"sleep", "send", "enqueue", "limit", "evict"}
    /\ hand \in [Procs -> Reports \cup {0}]
    /\ call \in [Procs -> {"none", "sent", "ok"}]
    /\ pending \in Reports \cup {0}
    /\ batch \in 0 .. Batch
    /\ due \in BOOLEAN /\ failed \in BOOLEAN
    /\ doomed \in [Procs -> SUBSET Reports]
    /\ spool \subseteq Reports /\ late \subseteq Reports
    /\ at \in [Reports -> Nat]
    /\ next \in 1 .. MaxReports + 1
    /\ rows \subseteq Reports /\ ever \subseteq Reports /\ lost \subseteq Reports
    /\ latest \in Reports \cup {0}

\* HAZARD: a report leaves the spool after its answer came, and answers get lost,
\* processes end between any two steps and share one directory.  Every report
\* collected is with the agent or was stored by the server, unless the agent
\* dropped it over the limit or in a process that ended.
NothingVanishes ==
    \A r \in Collected : r \in spool \cup Hands \cup ever \cup lost

\* HAZARD: backlogs, repeated and late requests and a clock that is set back bring
\* reports out of order.  latest_report is the newest report ever stored.
LatestIsNewest ==
    \A r \in ever : latest \in ever /\ at[r] <= at[latest]

\* HAZARD: `once` and the service count the spool and remove files of it at the
\* same time.  The path implements the store-and-forward specification: a report is
\* dropped only after a count that found the spool over its limit, and no count
\* drops more than it found too many.
SF == INSTANCE StoreAndForward
    WITH fresh <- Hands, kept <- spool, delivered <- ever,
         over <- UNION {doomed[a] : a \in Procs}
Implements == SF!Spec

\* HAZARD (liveness): under the fairness above every report in the spool is in the
\* end stored or dropped over the limit, through any ends of processes.  A report
\* that the server refuses for its contents stays at the head and holds up the
\* rest; while one is in the spool nothing is promised but what the limit drops.
EventuallySettled ==
    \A r \in Reports : r \in spool ~> (r \in ever \cup lost \/ spool \cap Rejected # {})
=============================================================================
