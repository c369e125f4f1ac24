------------------------- MODULE AgentDeliveryProofs -------------------------
(***************************************************************************)
(* No report vanishes, latest_report is the newest, and the path           *)
(* implements StoreAndForward, for any number of reports, any clock, any   *)
(* limit of the spool and any batch.                                       *)
(*                                                                         *)
(* The invariant ties each control point to the report it is about: where  *)
(* that report is, and that it was stored once its answer has come.        *)
(***************************************************************************)
EXTENDS AgentDelivery, FiniteSetTheorems, TLAPS

USE DeliveryAssumption

\* Numbers are given out in order; everything that is anywhere was collected.
OnlyCollected ==
    /\ spool \cup late \cup ever \cup rows \cup lost \subseteq Collected
    /\ \A a \in Procs : hand[a] # 0 => hand[a] \in Collected
    /\ rows \subseteq ever
    /\ latest # 0 => latest \in ever

\* A process holds a report of its own exactly while it sends or spools it.
HandsApart ==
    /\ \A a \in Procs : /\ hand[a] # 0 <=> pc[a] \in {"send", "enqueue"}
                        /\ hand[a] \notin spool
    /\ hand[Run] # 0 => hand[Run] # hand["once"]

\* An answer is awaited only by a send or a replay; it says what the server did.
AnswersAreTrue ==
    /\ \A a \in Procs : call[a] # "none" => pc[a] \in {"send", "replay"}
    /\ \A a \in Procs : call[a] = "ok" => Wanted(a) \in ever
    /\ pc[Run] = "ack" => pending \in ever
    /\ pc[Run] \in {"replay", "ack"} => pending \in spool \cup lost /\ batch < Batch

\* Only enforce_limit remembers what it counted.
CountsAreHeld == \A a \in Procs : doomed[a] # {} => pc[a] = "evict"

IInv ==
    /\ TypeOK /\ OnlyCollected /\ HandsApart /\ AnswersAreTrue /\ CountsAreHeld
    /\ NothingVanishes /\ LatestIsNewest

LEMMA InitInv == Init => IInv
  <1> SUFFICES ASSUME Init PROVE IInv
    OBVIOUS
  <1>. USE DEF Init, Collected, Reports, Procs, Run, Pcs, Wanted
  <1>1. TypeOK
    <2>1. pc \in [Procs -> Pcs] /\ pc["once"] = "sleep"
      OBVIOUS
    <2>2. hand \in [Procs -> Reports \cup {0}] /\ call \in [Procs -> {"none", "sent", "ok"}]
      OBVIOUS
    <2>3. due \in BOOLEAN /\ failed \in BOOLEAN /\ doomed \in [Procs -> SUBSET Reports]
      OBVIOUS
    <2>4. batch \in 0 .. Batch /\ next \in 1 .. MaxReports + 1 /\ at \in [Reports -> Nat]
      OBVIOUS
    <2>. QED BY <2>1, <2>2, <2>3, <2>4 DEF TypeOK
  <1>2. OnlyCollected /\ HandsApart /\ AnswersAreTrue /\ CountsAreHeld
    BY DEF OnlyCollected, HandsApart, AnswersAreTrue, CountsAreHeld
  <1>3. NothingVanishes /\ LatestIsNewest
    BY DEF NothingVanishes, LatestIsNewest
  <1>. QED BY <1>1, <1>2, <1>3 DEF IInv

\* A transaction of the server adds to what is stored and keeps the newest report
\* at hand.
LEMMA StoreKeeps ==
  ASSUME IInv, NEW r \in Collected, Store(r), UNCHANGED <<at, next>>
  PROVE  /\ ever' = ever \cup {r} /\ rows' = rows \cup {r}
         /\ latest' \in Reports \cup {0}
         /\ (latest # 0 => latest \in ever)'
         /\ LatestIsNewest'
  <1>1. r \in Reports /\ at[r] \in Nat /\ r # 0
    BY DEF IInv, TypeOK, Collected, Reports
  <1>2. /\ ever' = ever \cup {r} /\ rows' = rows \cup {r}
        /\ latest' = IF r \notin rows /\ (latest = 0 \/ at[latest] <= at[r]) THEN r ELSE latest
    BY DEF Store
  <1>3. CASE r \notin rows /\ (latest = 0 \/ at[latest] <= at[r])
    <2>1. latest' = r
      BY <1>2, <1>3
    <2>2. \A q \in ever : at[q] \in Nat /\ at[q] <= at[r]
      <3> SUFFICES ASSUME NEW q \in ever PROVE at[q] \in Nat /\ at[q] <= at[r]
        OBVIOUS
      <3>1. latest \in ever /\ at[q] <= at[latest] /\ q \in Reports /\ latest \in Reports
        BY DEF IInv, LatestIsNewest, TypeOK
      <3>. QED BY <3>1, <1>1, <1>3 DEF IInv, TypeOK, Reports
    <2>. QED BY <1>1, <1>2, <2>1, <2>2 DEF LatestIsNewest
  <1>4. CASE ~(r \notin rows /\ (latest = 0 \/ at[latest] <= at[r]))
    <2>1. latest' = latest /\ latest \in ever
      BY <1>2, <1>4 DEF IInv, LatestIsNewest, OnlyCollected
    <2>2. latest \in Reports /\ at[latest] \in Nat
      BY <2>1 DEF IInv, TypeOK, Reports
    <2>3. at[r] <= at[latest]
      BY <1>1, <1>4, <2>1, <2>2 DEF IInv, LatestIsNewest, OnlyCollected, Reports
    <2>. QED BY <1>2, <2>1, <2>2, <2>3 DEF IInv, LatestIsNewest
  <1>. QED BY <1>3, <1>4

\* Who holds a report, without the set.
LEMMA HandsIn ==
  /\ \A r : r \in Hands <=> r # 0 /\ (r = hand["run"] \/ r = hand["once"])
  /\ \A r : r \in Hands' <=> r # 0 /\ (r = hand["run"]' \/ r = hand["once"]')
  BY DEF Hands, Procs, Run

\* Counts are made, used up and forgotten by enforce_limit alone.
LEMMA CountsKeep ==
  ASSUME IInv, [Next]_vars
  PROVE  doomed' \in [Procs -> SUBSET Reports] /\ CountsAreHeld'
  <1>. USE DEF IInv, TypeOK, CountsAreHeld, Procs, Run, Pcs, Goto
  <1>1. ASSUME UNCHANGED doomed, \A a \in Procs : pc[a] = "evict" => pc'[a] = "evict"
        PROVE  doomed' \in [Procs -> SUBSET Reports] /\ CountsAreHeld'
    BY <1>1
  <1>2. ASSUME NEW a \in Procs, NEW t \in Times, Collect(a, t) PROVE UNCHANGED doomed /\ \A b \in Procs : pc[b] = "evict" => pc'[b] = "evict"
    BY <1>2 DEF Collect
  <1>3. ASSUME NEW a \in Procs, Direct(a) \/ SendFails(a) \/ Enqueue(a)
        PROVE  UNCHANGED doomed /\ \A b \in Procs : pc[b] = "evict" => pc'[b] = "evict"
    <2>1. pc[a] # "evict"
      BY <1>3 DEF Direct, SendFails, Enqueue
    <2>. QED BY <1>3, <2>1 DEF Direct, SendFails, Enqueue, RoundFails
  <1>4. ASSUME NEW a \in Procs, Measure(a)
        PROVE  doomed' \in [Procs -> SUBSET Reports] /\ CountsAreHeld'
    <2>1. PICK S \in SUBSET spool : doomed' = [doomed EXCEPT ![a] = S]
      BY <1>4 DEF Measure
    <2>. QED BY <1>4, <2>1 DEF Measure
  <1>5. ASSUME NEW a \in Procs, Evict(a)
        PROVE  doomed' \in [Procs -> SUBSET Reports] /\ CountsAreHeld'
    <2>1. PICK r : doomed' = [doomed EXCEPT ![a] = @ \ {r}]
      BY <1>5 DEF Evict
    <2>. QED BY <1>5, <2>1 DEF Evict
  <1>6. ASSUME NEW a \in Procs, End(a)
        PROVE  doomed' \in [Procs -> SUBSET Reports] /\ CountsAreHeld'
    BY <1>6 DEF End
  <1>7. ASSUME NEW a \in Procs, WithinLimit(a)
        PROVE  doomed' \in [Procs -> SUBSET Reports] /\ CountsAreHeld'
    <2>1. UNCHANGED doomed /\ doomed[a] = {} /\ \A b \in Procs : b # a => pc'[b] = pc[b]
      BY <1>7 DEF WithinLimit, RoundFails
    <2>. QED BY <2>1
  <1>8. CASE Round \/ Replay \/ Flushed \/ Replayed \/ Acknowledge
    <2>1. UNCHANGED doomed /\ pc[Run] # "evict" /\ \A b \in Procs : b # Run => pc'[b] = pc[b]
      BY <1>8 DEF Round, Replay, Flushed, Replayed, Acknowledge, RoundFails
    <2>. QED BY <2>1
  <1>9. ASSUME NEW a \in Procs, Serve(a) PROVE UNCHANGED <<doomed, pc>>
    BY <1>9 DEF Serve
  <1>10. CASE BackoffEnds \/ Server \/ UNCHANGED vars
    BY <1>10 DEF BackoffEnds, Server, ServeLate, Prune, vars, agent
  <1>. QED
    BY <1>1, <1>2, <1>3, <1>4, <1>5, <1>6, <1>7, <1>8, <1>9, <1>10
    DEF Next, Process, RunLoop, EvictFails, Crash

LEMMA NextInv == IInv /\ [Next]_vars => IInv'
  <1> SUFFICES ASSUME IInv, [Next]_vars PROVE IInv'
    OBVIOUS
  <1>. USE HandsIn DEF IInv, TypeOK, OnlyCollected, HandsApart, AnswersAreTrue, CountsAreHeld,
               NothingVanishes, LatestIsNewest, Reports, Procs, Run, Pcs, Wanted, Collected,
               Goto, NoCall, Sent, Drop, agent, server
  <1>. DEFINE Bools == due' \in BOOLEAN /\ failed' \in BOOLEAN
  <1>. doomed' \in [Procs -> SUBSET Reports] /\ CountsAreHeld'
    BY CountsKeep
  <1>0. \A a \in Procs : call[a] # "none" => Wanted(a) \in Collected
    OBVIOUS
  <1>1. ASSUME NEW a \in Procs, NEW t \in Times, Collect(a, t) PROVE IInv'
    <2>1. TypeOK'
      <3>1. /\ next \in Reports /\ next' = next + 1 /\ at' = [at EXCEPT ![next] = t] /\ t \in Nat
            /\ hand' = [hand EXCEPT ![a] = next]
            /\ UNCHANGED <<pending, batch, due, failed, spool, late, rows, latest, ever, lost>>
        BY <1>1 DEF Collect
      <3>a. pc' = [pc EXCEPT ![a] = "send"] \/ (a = Run /\ pc' = [pc EXCEPT ![a] = "enqueue"])
        BY <1>1, Zenon DEF Collect
      <3>2. call' = [call EXCEPT ![a] = "sent"] \/ call' = call
        BY <1>1, Zenon DEF Collect
      <3>3. /\ pc' \in [Procs -> Pcs] /\ pc'["once"] \in {"sleep", "send", "enqueue", "limit", "evict"}
            /\ call' \in [Procs -> {"none", "sent", "ok"}]
        BY <3>a, <3>2
      <3>4. /\ hand' \in [Procs -> Reports \cup {0}] /\ at' \in [Reports -> Nat]
            /\ next' \in 1 .. MaxReports + 1
        BY <3>1
      <3>. QED BY <3>1, <3>3, <3>4
    <2>2. OnlyCollected' /\ LatestIsNewest'
      BY <1>1 DEF Collect
    <2>3. HandsApart'
      BY <1>1 DEF Collect
    <2>4. AnswersAreTrue'
      BY <1>1 DEF Collect
    <2>5. NothingVanishes'
      BY <1>1 DEF Collect
    <2>. QED BY <2>1, <2>2, <2>3, <2>4, <2>5
  <1>2. CASE Round
    <2>1. TypeOK'
      BY <1>2 DEF Round
    <2>2. OnlyCollected' /\ LatestIsNewest'
      BY <1>2 DEF Round
    <2>3. HandsApart'
      BY <1>2 DEF Round
    <2>4. AnswersAreTrue'
      BY <1>2 DEF Round
    <2>5. NothingVanishes'
      BY <1>2 DEF Round
    <2>. QED BY <2>1, <2>2, <2>3, <2>4, <2>5
  <1>3. ASSUME NEW a \in Procs, Direct(a) PROVE IInv'
    <2>1. TypeOK'
      BY <1>3 DEF Direct
    <2>2. OnlyCollected' /\ LatestIsNewest'
      BY <1>3 DEF Direct
    <2>3. HandsApart'
      BY <1>3 DEF Direct
    <2>4. AnswersAreTrue'
      BY <1>3 DEF Direct
    <2>5. NothingVanishes'
      BY <1>3 DEF Direct
    <2>. QED BY <2>1, <2>2, <2>3, <2>4, <2>5
  <1>4. ASSUME NEW a \in Procs, SendFails(a) PROVE IInv'
    <2>a. late' = late \/ (Wanted(a) \in Collected /\ late' = late \cup {Wanted(a)})
      BY <1>0, <1>4, Zenon DEF SendFails
    <2>b. (pending' = pending /\ batch' = batch) \/ (pending' = 0 /\ batch' = 0)
      BY <1>4, Zenon DEF SendFails, RoundFails
    <2>c. hand[a] = 0 \/ hand[a] \in Collected
      OBVIOUS
    <2>d. late' \subseteq Collected
      BY <2>a
    <2>0. Bools
      BY <1>4 DEF SendFails, RoundFails
    <2>1. TypeOK'
      <3>1. pc' \in [Procs -> Pcs] /\ pc'["once"] \in {"sleep", "send", "enqueue", "limit", "evict"}
        <4>1. pc' = [pc EXCEPT ![a] = "enqueue"] \/ pc' = [pc EXCEPT ![Run] = "sleep"]
          BY <1>4, Zenon DEF SendFails, RoundFails
        <4>. QED BY <4>1
      <3>2. hand' \in [Procs -> Reports \cup {0}] /\ call' \in [Procs -> {"none", "sent", "ok"}]
        BY <1>4 DEF SendFails, RoundFails
      <3>3. pending' \in Reports \cup {0} /\ batch' \in 0 .. Batch
        BY <2>b
      <3>4. spool' \subseteq Reports /\ late' \subseteq Reports /\ lost' \subseteq Reports
        BY <2>c, <2>d, <1>4 DEF SendFails, RoundFails
      <3>. QED BY <2>0, <3>1, <3>2, <3>3, <3>4, <1>4 DEF SendFails, RoundFails
    <2>2. OnlyCollected' /\ LatestIsNewest'
      <3>1. spool' \cup late' \cup lost' \subseteq Collected
        BY <2>c, <2>d, <1>4 DEF SendFails, RoundFails
      <3>2. \A b \in Procs : hand'[b] # 0 => hand'[b] \in Collected
        BY <1>4 DEF SendFails, RoundFails
      <3>3. UNCHANGED <<at, next, rows, ever, latest>>
        BY <1>4 DEF SendFails, RoundFails
      <3>. QED BY <3>1, <3>2, <3>3
    <2>3. HandsApart'
      BY <1>4 DEF SendFails, RoundFails
    <2>4. AnswersAreTrue'
      <3>1. call' = [call EXCEPT ![a] = "none"] /\ UNCHANGED <<hand, spool, lost, ever>>
        BY <1>4 DEF SendFails
      <3>2. \/ pc[a] = "send" /\ pc' = [pc EXCEPT ![a] = "enqueue"] /\ UNCHANGED <<pending, batch>>
            \/ a = Run /\ pc' = [pc EXCEPT ![Run] = "sleep"]
        BY <1>4 DEF SendFails, RoundFails
      <3>3. \A b \in Procs : b # a => pc'[b] = pc[b] /\ call'[b] = call[b]
        BY <3>1, <3>2
      <3>4. \A b \in Procs : call'[b] # "none" => b # a /\ pc'[b] \in {"send", "replay"}
        BY <3>1, <3>3
      <3>5. pc'[Run] \in {"replay", "ack"} => pc'[Run] = pc[Run] /\ UNCHANGED <<pending, batch>>
        BY <3>2
      <3>6. \A b \in Procs : call'[b] = "ok" => Wanted(b)' = Wanted(b) /\ call[b] = "ok"
        BY <3>1, <3>3, <3>4, <3>5
      <3>. QED BY <3>1, <3>4, <3>5, <3>6
    <2>5. NothingVanishes'
      BY <1>4 DEF SendFails, RoundFails
    <2>. QED BY <2>1, <2>2, <2>3, <2>4, <2>5
  <1>5. ASSUME NEW a \in Procs, Enqueue(a) PROVE IInv'
    <2>c. hand[a] \in Collected
      BY <1>5 DEF Enqueue
    <2>1. TypeOK'
      <3>1. /\ pc' = [pc EXCEPT ![a] = "limit"] /\ hand' = [hand EXCEPT ![a] = 0]
            /\ spool' = spool \cup {hand[a]}
            /\ UNCHANGED <<call, pending, batch, due, failed, at, next, late, rows, latest, ever, lost>>
        BY <1>5 DEF Enqueue
      <3>2. pc' \in [Procs -> Pcs] /\ pc'["once"] \in {"sleep", "send", "enqueue", "limit", "evict"}
        BY <3>1
      <3>3. hand' \in [Procs -> Reports \cup {0}] /\ spool' \subseteq Reports
        BY <2>c, <3>1
      <3>. QED BY <3>1, <3>2, <3>3
    <2>2. OnlyCollected' /\ LatestIsNewest'
      <3>1. spool' \cup late' \cup lost' \subseteq Collected
        BY <2>c, <1>5 DEF Enqueue
      <3>2. \A b \in Procs : hand'[b] # 0 => hand'[b] \in Collected
        BY <1>5 DEF Enqueue
      <3>3. UNCHANGED <<at, next, rows, ever, latest>>
        BY <1>5 DEF Enqueue
      <3>. QED BY <3>1, <3>2, <3>3
    <2>3. HandsApart'
      BY <1>5 DEF Enqueue
    <2>4. AnswersAreTrue'
      BY <1>5 DEF Enqueue
    <2>5. NothingVanishes'
      BY <1>5 DEF Enqueue
    <2>. QED BY <2>1, <2>2, <2>3, <2>4, <2>5
  <1>6. ASSUME NEW a \in Procs, Evict(a) PROVE IInv'
    <2>r. PICK r \in doomed[a] : r \in spool /\ spool' = spool \ {r} /\ lost' = lost \cup {r}
      BY <1>6 DEF Evict, Oldest
    <2>u. UNCHANGED <<pc, hand, call, pending, batch, due, failed, at, next, late, rows, latest, ever>>
      BY <1>6 DEF Evict
    <2>1. TypeOK'
      BY <2>r, <2>u
    <2>2. OnlyCollected' /\ LatestIsNewest'
      BY <2>r, <2>u
    <2>3. HandsApart'
      BY <2>r, <2>u
    <2>4. AnswersAreTrue'
      BY <2>r, <2>u
    <2>5. NothingVanishes'
      BY <2>r, <2>u
    <2>. QED BY <2>1, <2>2, <2>3, <2>4, <2>5
  <1>18. ASSUME NEW a \in Procs, Measure(a) PROVE IInv'
    <2>u. /\ UNCHANGED <<hand, call, pending, batch, due, failed, spool, at, next, late, rows, latest>>
          /\ UNCHANGED <<ever, lost>> /\ pc[a] = "limit" /\ pc' = [pc EXCEPT ![a] = "evict"]
      BY <1>18 DEF Measure
    <2>1. TypeOK'
      BY <2>u
    <2>2. OnlyCollected' /\ LatestIsNewest'
      BY <2>u
    <2>3. HandsApart'
      BY <2>u
    <2>4. AnswersAreTrue'
      BY <2>u
    <2>5. NothingVanishes'
      BY <2>u
    <2>. QED BY <2>1, <2>2, <2>3, <2>4, <2>5
  <1>7. ASSUME NEW a \in Procs, WithinLimit(a) PROVE IInv'
    <2>0. Bools
      BY <1>7 DEF WithinLimit, RoundFails
    <2>1. TypeOK'
      <3>1. pc' \in [Procs -> Pcs] /\ pc'["once"] \in {"sleep", "send", "enqueue", "limit", "evict"}
        BY <1>7 DEF WithinLimit, RoundFails
      <3>2. hand' \in [Procs -> Reports \cup {0}] /\ call' \in [Procs -> {"none", "sent", "ok"}]
        BY <1>7 DEF WithinLimit, RoundFails
      <3>3. pending' \in Reports \cup {0} /\ batch' \in 0 .. Batch
        BY <1>7 DEF WithinLimit, RoundFails
      <3>4. spool' \subseteq Reports /\ late' \subseteq Reports /\ lost' \subseteq Reports
        BY <1>0, <1>7 DEF WithinLimit, RoundFails
      <3>. QED BY <2>0, <3>1, <3>2, <3>3, <3>4, <1>7 DEF WithinLimit, RoundFails
    <2>2. OnlyCollected' /\ LatestIsNewest'
      BY <1>7 DEF WithinLimit, RoundFails
    <2>3. HandsApart'
      BY <1>7 DEF WithinLimit, RoundFails
    <2>4. AnswersAreTrue'
      BY <1>7 DEF WithinLimit, RoundFails
    <2>5. NothingVanishes'
      BY <1>7 DEF WithinLimit, RoundFails
    <2>. QED BY <2>1, <2>2, <2>3, <2>4, <2>5
  <1>8. CASE Replay
    <2>1. TypeOK'
      BY <1>8 DEF Replay, Oldest
    <2>2. OnlyCollected' /\ LatestIsNewest'
      BY <1>8 DEF Replay, Oldest
    <2>3. HandsApart'
      BY <1>8 DEF Replay, Oldest
    <2>4. AnswersAreTrue'
      BY <1>8 DEF Replay, Oldest
    <2>5. NothingVanishes'
      BY <1>8 DEF Replay, Oldest
    <2>. QED BY <2>1, <2>2, <2>3, <2>4, <2>5
  <1>9. CASE Flushed
    <2>1. TypeOK'
      BY <1>9 DEF Flushed
    <2>2. OnlyCollected' /\ LatestIsNewest'
      BY <1>9 DEF Flushed
    <2>3. HandsApart'
      BY <1>9 DEF Flushed
    <2>4. AnswersAreTrue'
      BY <1>9 DEF Flushed
    <2>5. NothingVanishes'
      BY <1>9 DEF Flushed
    <2>. QED BY <2>1, <2>2, <2>3, <2>4, <2>5
  <1>10. CASE Replayed
    <2>1. TypeOK'
      BY <1>10 DEF Replayed
    <2>2. OnlyCollected' /\ LatestIsNewest'
      BY <1>10 DEF Replayed
    <2>3. HandsApart'
      BY <1>10 DEF Replayed
    <2>4. AnswersAreTrue'
      BY <1>10 DEF Replayed
    <2>5. NothingVanishes'
      BY <1>10 DEF Replayed
    <2>. QED BY <2>1, <2>2, <2>3, <2>4, <2>5
  <1>11. CASE Acknowledge
    <2>0. Bools
      BY <1>11 DEF Acknowledge, RoundFails
    <2>1. TypeOK'
      <3>1. pc' \in [Procs -> Pcs] /\ pc'["once"] \in {"sleep", "send", "enqueue", "limit", "evict"}
        BY <1>11 DEF Acknowledge, RoundFails
      <3>2. hand' \in [Procs -> Reports \cup {0}] /\ call' \in [Procs -> {"none", "sent", "ok"}]
        BY <1>11 DEF Acknowledge, RoundFails
      <3>3. pending' \in Reports \cup {0} /\ batch' \in 0 .. Batch
        BY <1>11 DEF Acknowledge, RoundFails
      <3>4. spool' \subseteq Reports /\ late' \subseteq Reports /\ lost' \subseteq Reports
        BY <1>0, <1>11 DEF Acknowledge, RoundFails
      <3>. QED BY <2>0, <3>1, <3>2, <3>3, <3>4, <1>11 DEF Acknowledge, RoundFails
    <2>2. OnlyCollected' /\ LatestIsNewest'
      BY <1>11 DEF Acknowledge, RoundFails
    <2>3. HandsApart'
      BY <1>11 DEF Acknowledge, RoundFails
    <2>4. AnswersAreTrue'
      BY <1>11 DEF Acknowledge, RoundFails
    <2>5. NothingVanishes'
      BY <1>11 DEF Acknowledge, RoundFails
    <2>. QED BY <2>1, <2>2, <2>3, <2>4, <2>5
  <1>12. CASE BackoffEnds
    <2>1. TypeOK'
      BY <1>12 DEF BackoffEnds
    <2>2. OnlyCollected' /\ LatestIsNewest'
      BY <1>12 DEF BackoffEnds
    <2>3. HandsApart'
      BY <1>12 DEF BackoffEnds
    <2>4. AnswersAreTrue'
      BY <1>12 DEF BackoffEnds
    <2>5. NothingVanishes'
      BY <1>12 DEF BackoffEnds
    <2>. QED BY <2>1, <2>2, <2>3, <2>4, <2>5
  <1>13. ASSUME NEW a \in Procs, End(a) PROVE IInv'
    <2>a. late' = late \/ (Wanted(a) \in Collected /\ late' = late \cup {Wanted(a)})
      BY <1>0, <1>13, Zenon DEF End
    <2>b. (pending' = pending /\ batch' = batch) \/ (pending' = 0 /\ batch' = 0)
      BY <1>13, Zenon DEF End
    <2>c. hand[a] = 0 \/ hand[a] \in Collected
      OBVIOUS
    <2>d. late' \subseteq Collected
      BY <2>a
    <2>0. Bools
      BY <1>13 DEF End
    <2>1. TypeOK'
      <3>1. pc' \in [Procs -> Pcs] /\ pc'["once"] \in {"sleep", "send", "enqueue", "limit", "evict"}
        BY <1>13 DEF End
      <3>2. hand' \in [Procs -> Reports \cup {0}] /\ call' \in [Procs -> {"none", "sent", "ok"}]
        BY <1>13 DEF End
      <3>3. pending' \in Reports \cup {0} /\ batch' \in 0 .. Batch
        BY <2>b
      <3>4. spool' \subseteq Reports /\ late' \subseteq Reports /\ lost' \subseteq Reports
        BY <2>c, <2>d, <1>13 DEF End
      <3>. QED BY <2>0, <3>1, <3>2, <3>3, <3>4, <1>13 DEF End
    <2>2. OnlyCollected' /\ LatestIsNewest'
      <3>1. spool' \cup late' \cup lost' \subseteq Collected
        BY <2>c, <2>d, <1>13 DEF End
      <3>2. \A b \in Procs : hand'[b] # 0 => hand'[b] \in Collected
        BY <1>13 DEF End
      <3>3. UNCHANGED <<at, next, rows, ever, latest>>
        BY <1>13 DEF End
      <3>. QED BY <3>1, <3>2, <3>3
    <2>3. HandsApart'
      BY <1>13 DEF End
    <2>4. AnswersAreTrue'
      BY <1>13 DEF End
    <2>5. NothingVanishes'
      BY <1>13 DEF End
    <2>. QED BY <2>1, <2>2, <2>3, <2>4, <2>5
  <1>14. ASSUME NEW a \in Procs, Serve(a) PROVE IInv'
    <2>1. Wanted(a) \in Collected
      BY <1>14 DEF Serve
    <2>2. /\ ever' = ever \cup {Wanted(a)} /\ rows' = rows \cup {Wanted(a)}
          /\ latest' \in Reports \cup {0}
          /\ (latest # 0 => latest \in ever)'
          /\ LatestIsNewest'
      BY <1>14, <2>1, StoreKeeps DEF Serve
    <2>3. call' = [call EXCEPT ![a] = "ok"] /\ call[a] = "sent"
          /\ UNCHANGED <<pc, hand, pending, batch, due, failed, spool, at, next, late, lost>>
      BY <1>14 DEF Serve
    <2>4. TypeOK'
      <3>1. call' \in [Procs -> {"none", "sent", "ok"}] /\ pc' = pc /\ hand' = hand
        BY <2>3
      <3>2. ever' \subseteq Reports /\ rows' \subseteq Reports /\ latest' \in Reports \cup {0}
        BY <2>1, <2>2
      <3>. QED BY <2>3, <3>1, <3>2
    <2>7. OnlyCollected' /\ HandsApart'
      <3>a. UNCHANGED <<hand, spool, late, lost, next>>
        BY <2>3
      <3>b. ever' \subseteq Collected /\ rows' \subseteq ever'
        BY <2>1, <2>2
      <3>1. OnlyCollected'
        BY <2>2, <3>a, <3>b
      <3>. QED BY <2>3, <3>1
    <2>5. AnswersAreTrue'
      BY <2>1, <2>2, <2>3
    <2>6. NothingVanishes'
      BY <2>1, <2>2, <2>3
    <2>. QED BY <2>2, <2>4, <2>5, <2>6, <2>7
  <1>15. ASSUME NEW r \in Reports, ServeLate(r) PROVE IInv'
    <2>1. r \in Collected
      BY <1>15 DEF ServeLate
    <2>2. /\ ever' = ever \cup {r} /\ rows' = rows \cup {r}
          /\ latest' \in Reports \cup {0}
          /\ (latest # 0 => latest \in ever)'
          /\ LatestIsNewest'
      BY <1>15, <2>1, StoreKeeps DEF ServeLate
    <2>3. UNCHANGED <<agent, spool, at, next, late, lost>>
      BY <1>15 DEF ServeLate
    <2>4. OnlyCollected' /\ HandsApart' /\ NothingVanishes'
      BY <2>1, <2>2, <2>3
    <2>5. TypeOK'
      BY <2>1, <2>2, <2>3
    <2>6. AnswersAreTrue'
      BY <2>2, <2>3
    <2>. QED BY <2>2, <2>4, <2>5, <2>6
  <1>16. ASSUME NEW r \in Reports, Prune(r) PROVE IInv'
    <2>1. rows' = rows \ {r} /\ UNCHANGED <<agent, spool, at, next, late, latest, ever, lost>>
      BY <1>16 DEF Prune
    <2>2. TypeOK'
      BY <2>1
    <2>3. OnlyCollected' /\ HandsApart'
      BY <2>1
    <2>4. AnswersAreTrue' /\ NothingVanishes' /\ LatestIsNewest'
      BY <2>1
    <2>. QED BY <2>2, <2>3, <2>4
  <1>17. CASE UNCHANGED vars
    BY <1>17 DEF vars
  <1>. QED
    BY <1>1, <1>2, <1>3, <1>4, <1>5, <1>6, <1>7, <1>8, <1>9, <1>10, <1>11, <1>12, <1>13,
       <1>14, <1>15, <1>16, <1>17, <1>18
    DEF Next, Process, RunLoop, Server, EvictFails, Crash

\* Every variable keeps its type, whatever the bounds (agent/src/main.rs,
\* database/monitoring.rs).
THEOREM TypeCorrect == Spec => []TypeOK
  <1>1. IInv => TypeOK
    BY DEF IInv
  <1>. QED BY InitInv, NextInv, <1>1, PTL DEF Spec

\* Every report collected is with the agent or was stored, unless the agent
\* dropped it over the limit or in a process that ended (spool.rs, main.rs).
THEOREM NothingVanishesCorrect == Spec => []NothingVanishes
  <1>1. IInv => NothingVanishes
    BY DEF IInv
  <1>. QED BY InitInv, NextInv, <1>1, PTL DEF Spec

\* latest_report is the newest report ever stored, in whatever order reports
\* arrive (store_monitoring_report).
THEOREM LatestCorrect == Spec => []LatestIsNewest
  <1>1. IInv => LatestIsNewest
    BY DEF IInv
  <1>. QED BY InitInv, NextInv, <1>1, PTL DEF Spec

-----------------------------------------------------------------------------
\* Whatever process a does with its hand, the other one keeps its own.
LEMMA HandsStep ==
  ASSUME IInv, NEW a \in Procs
  PROVE  /\ UNCHANGED hand => Hands' = Hands
         /\ hand[a] # 0 /\ Drop(a) => hand[a] \in Hands /\ Hands' = Hands \ {hand[a]}
         /\ hand[a] = 0 /\ Drop(a) => Hands' = Hands
         /\ hand[a] = 0 /\ hand' = [hand EXCEPT ![a] = next] => Hands' = Hands \cup {next}
  <1>. USE HandsIn DEF IInv, TypeOK, HandsApart, OnlyCollected, Collected, Reports, Procs, Run, Drop
  <1>1. UNCHANGED hand => Hands' = Hands
    OBVIOUS
  <1>2. hand[a] # 0 /\ Drop(a) => hand[a] \in Hands /\ Hands' = Hands \ {hand[a]}
    OBVIOUS
  <1>3. hand[a] = 0 /\ Drop(a) => Hands' = Hands
    <2>1. hand[a] = 0 /\ Drop(a) => hand' = hand
      OBVIOUS
    <2>. QED BY <1>1, <2>1
  <1>4. hand[a] = 0 /\ hand' = [hand EXCEPT ![a] = next] => Hands' = Hands \cup {next}
    OBVIOUS
  <1>. QED BY <1>1, <1>2, <1>3, <1>4

\* What the processes have found too many, seen from outside.
Over == UNION {doomed[a] : a \in Procs}

LEMMA OverStep ==
  ASSUME IInv, doomed' \in [Procs -> SUBSET Reports]
  PROVE  /\ UNCHANGED doomed => UNCHANGED Over
         /\ \A r : r \in Over <=> r \in doomed["run"] \/ r \in doomed["once"]
         /\ \A r : r \in Over' <=> r \in doomed["run"]' \/ r \in doomed["once"]'
  BY DEF Over, Procs, Run, IInv, TypeOK

\* Nothing promised changes when these do not.
LEMMA Quiet ==
  ASSUME UNCHANGED <<Hands, spool, Over, ever, lost>>
  PROVE  UNCHANGED SF!vars
  BY DEF SF!vars, Over

\* A transaction of the server delivers, or changes nothing that is promised.
LEMMA StoreImplements ==
  ASSUME IInv, NEW r \in Reports, r < next, ever' = ever \cup {r},
         UNCHANGED <<hand, spool, doomed, lost>>
  PROVE  [SF!Next]_SF!vars
  <1>1. Hands' = Hands /\ Over' = Over
    BY HandsStep, OverStep DEF Procs, IInv, TypeOK
  <1>2. r \in Hands \cup spool \cup lost \/ r \in ever
    BY DEF IInv, NothingVanishes, Collected
  <1>3. CASE r \in ever
    <2>1. UNCHANGED <<Hands, spool, Over, ever, lost>>
      BY <1>1, <1>3
    <2>. QED BY <2>1, Quiet
  <1>4. CASE r \in Hands \cup spool \cup lost
    <2>1. SF!Deliver(r)
      BY <1>1, <1>4 DEF SF!Deliver, Over
    <2>. QED BY <2>1 DEF SF!Next
  <1>. QED BY <1>2, <1>3, <1>4

\* What fits still fits when there is less of it.
LEMMA SmallerFits ==
  ASSUME NEW S \in Fits, NEW T \in SUBSET S
  PROVE  T \in Fits
  <1>1. IsFiniteSet(1 .. MaxReports) /\ S \subseteq 1 .. MaxReports
    BY FS_Interval DEF Fits, Reports
  <1>2. IsFiniteSet(S)
    BY <1>1, FS_Subset
  <1>3. IsFiniteSet(T) /\ Cardinality(T) <= Cardinality(S)
    BY <1>2, FS_Subset
  <1>4. Cardinality(S) \in Nat /\ Cardinality(T) \in Nat
    BY <1>2, <1>3, FS_CardinalityType
  <1>. QED BY <1>1, <1>3, <1>4 DEF Fits, Reports

LEMMA NextImplements == IInv /\ [Next]_vars => [SF!Next]_SF!vars
  <1> SUFFICES ASSUME IInv, [Next]_vars PROVE [SF!Next]_SF!vars
    OBVIOUS
  <1>. USE DEF Procs, Run
  <1>d. doomed' \in [Procs -> SUBSET Reports]
    BY CountsKeep
  <1>a. \A a \in Procs : hand[a] # 0 <=> pc[a] \in {"send", "enqueue"}
    BY DEF IInv, HandsApart
  <1>b. \A a \in Procs : hand[a] \notin spool /\ (hand[a] # 0 => hand[a] \in Reports)
    BY DEF IInv, HandsApart, TypeOK
  <1>e. UNCHANGED doomed => UNCHANGED Over
    BY <1>d, OverStep
  <1>c. ASSUME UNCHANGED <<hand, spool, doomed, ever, lost>> PROVE [SF!Next]_SF!vars
    <2>1. UNCHANGED <<Hands, spool, Over, ever, lost>>
      BY <1>c, <1>e, HandsStep
    <2>. QED BY <2>1, Quiet
  <1>1. ASSUME NEW a \in Procs, NEW t \in Times, Collect(a, t) PROVE [SF!Next]_SF!vars
    <2>1. next \in Reports /\ hand[a] = 0
      BY <1>1, <1>a DEF Collect, IInv, TypeOK, Reports
    <2>2. Hands' = Hands \cup {next} /\ UNCHANGED <<spool, Over, ever, lost>>
      BY <1>1, <1>e, <2>1, HandsStep DEF Collect, server
    <2>3. next \notin Hands \cup spool \cup ever \cup lost
      BY HandsIn DEF IInv, TypeOK, OnlyCollected, Collected, Reports
    <2>4. SF!Collect(next)
      BY <2>2, <2>3 DEF SF!Collect, SF!Seen, Over
    <2>. QED BY <2>1, <2>4 DEF SF!Next
  <1>2. CASE Round \/ Replay \/ Flushed \/ Replayed \/ BackoffEnds
    BY <1>2, <1>c DEF Round, Replay, Flushed, Replayed, BackoffEnds, server
  <1>3. ASSUME NEW a \in Procs, Direct(a) PROVE [SF!Next]_SF!vars
    <2>1. hand[a] \in Reports /\ hand[a] # 0 /\ hand[a] \notin spool /\ hand[a] \in ever
      BY <1>3, <1>a, <1>b DEF Direct, IInv, AnswersAreTrue, Wanted
    <2>2. hand[a] \in Hands /\ Hands' = Hands \ {hand[a]} /\ UNCHANGED <<spool, Over, ever, lost>>
      BY <1>3, <1>e, <2>1, HandsStep DEF Direct, server
    <2>3. SF!Release(hand[a])
      BY <2>1, <2>2 DEF SF!Release, Over
    <2>. QED BY <2>1, <2>3 DEF SF!Next
  <1>4. ASSUME NEW a \in Procs, SendFails(a) \/ WithinLimit(a) PROVE [SF!Next]_SF!vars
    BY <1>4, <1>c DEF SendFails, WithinLimit, server
  <1>5. ASSUME NEW a \in Procs, Enqueue(a) PROVE [SF!Next]_SF!vars
    <2>1. hand[a] \in Reports /\ hand[a] # 0
      BY <1>5, <1>a, <1>b DEF Enqueue
    <2>2. hand[a] \in Hands /\ Hands' = Hands \ {hand[a]} /\ spool' = spool \cup {hand[a]}
          /\ UNCHANGED <<Over, ever, lost>>
      BY <1>5, <1>e, <2>1, HandsStep DEF Enqueue, server
    <2>3. SF!Keep(hand[a])
      BY <2>2 DEF SF!Keep, Over
    <2>. QED BY <2>1, <2>3 DEF SF!Next
  <1>6. ASSUME NEW a \in Procs, Evict(a) PROVE [SF!Next]_SF!vars
    <2>1. PICK r \in doomed[a] : /\ r \in spool /\ spool' = spool \ {r} /\ lost' = lost \cup {r}
                                 /\ doomed' = [doomed EXCEPT ![a] = @ \ {r}]
      BY <1>6 DEF Evict, Oldest
    <2>2. r \in Reports /\ r \in Over
      BY <1>d, <2>1, OverStep DEF IInv, TypeOK
    <2>3. Hands' = Hands /\ UNCHANGED ever
      BY <1>6, HandsStep DEF Evict, server
    <2>4. Over' = Over \/ Over' = Over \ {r}
      <3>1. \A q : q \in Over' => q \in Over
        BY <1>d, <2>1, OverStep DEF IInv, TypeOK
      <3>2. \A q : q \in Over /\ q # r => q \in Over'
        BY <1>d, <2>1, OverStep DEF IInv, TypeOK
      <3>. QED BY <2>2, <3>1, <3>2
    <2>5. SF!Overflow(r)
      BY <2>1, <2>2, <2>3, <2>4 DEF SF!Overflow, Over
    <2>. QED BY <2>2, <2>5 DEF SF!Next
  <1>13. ASSUME NEW a \in Procs, Measure(a) PROVE [SF!Next]_SF!vars
    <2>1. PICK S \in SUBSET spool : /\ spool \ S \in Fits
                                    /\ \A r \in S : (spool \ S) \cup {r} \notin Fits
                                    /\ doomed' = [doomed EXCEPT ![a] = S]
      BY <1>13 DEF Measure
    <2>2. doomed[a] = {} /\ S \subseteq Reports
      BY <1>13 DEF Measure, IInv, CountsAreHeld, TypeOK
    <2>3. UNCHANGED <<Hands, spool, ever, lost>>
      BY <1>13, HandsStep DEF Measure, server
    <2>4. Over' = Over \cup S
      <3>1. \A q : q \in Over' <=> q \in Over \/ q \in S
        BY <1>d, <2>1, <2>2, OverStep DEF IInv, TypeOK
      <3>. QED BY <3>1
    <2>5. CASE S = {}
      <3>1. UNCHANGED <<Hands, spool, Over, ever, lost>>
        BY <2>3, <2>4, <2>5
      <3>. QED BY <3>1, Quiet
    <2>6. CASE S # {}
      <3>1. PICK r \in S : TRUE
        BY <2>6
      <3>2. spool \notin Fits
        <4>1. (spool \ S) \cup {r} \notin Fits /\ (spool \ S) \cup {r} \subseteq spool
          BY <2>1, <3>1
        <4>2. spool \subseteq Reports
          BY DEF IInv, TypeOK
        <4>. QED BY <4>1, <4>2, SmallerFits
      <3>3. SF!Find(S)
        BY <2>1, <2>3, <2>4, <3>2 DEF SF!Find, Over
      <3>. QED BY <2>2, <3>3 DEF SF!Next
    <2>. QED BY <2>5, <2>6
  <1>7. CASE Acknowledge
    <2>1. CASE pending \notin spool
      BY <1>7, <1>c, <2>1 DEF Acknowledge, server
    <2>2. CASE pending \in spool
      <3>1. pending \in ever /\ pending \in Reports /\ pending \notin Hands
        BY <1>7, <1>b, <2>2, HandsIn DEF Acknowledge, IInv, AnswersAreTrue, TypeOK
      <3>2. Hands' = Hands /\ UNCHANGED <<Over, ever, lost>> /\ spool' = spool \ {pending}
        BY <1>7, <1>e, <2>2, HandsStep DEF Acknowledge, server
      <3>3. SF!Release(pending)
        BY <2>2, <3>1, <3>2 DEF SF!Release, Over
      <3>. QED BY <3>1, <3>3 DEF SF!Next
    <2>. QED BY <2>1, <2>2
  <1>8. ASSUME NEW a \in Procs, End(a) PROVE [SF!Next]_SF!vars
    <2>1. Drop(a) /\ lost' = lost \cup ({hand[a]} \ {0}) /\ UNCHANGED <<spool, ever>>
          /\ doomed' = [doomed EXCEPT ![a] = {}]
      BY <1>8 DEF End, server
    <2>2. CASE hand[a] = 0
      <3>1. UNCHANGED <<Hands, spool, ever, lost>>
        BY <2>1, <2>2, HandsStep
      <3>2. Over' \subseteq Over
        BY <1>d, <2>1, OverStep DEF IInv, TypeOK
      <3>3. SF!Forget
        BY <3>1, <3>2 DEF SF!Forget, Over
      <3>. QED BY <3>3 DEF SF!Next
    <2>3. CASE hand[a] # 0
      <3>1. hand[a] \in Hands /\ Hands' = Hands \ {hand[a]} /\ lost' = lost \cup {hand[a]}
        BY <2>1, <2>3, HandsStep
      <3>2. doomed[a] = {}
        BY <1>a, <2>3 DEF IInv, CountsAreHeld
      <3>3. doomed' = doomed
        BY <2>1, <3>2 DEF IInv, TypeOK
      <3>4. SF!End(hand[a])
        BY <1>e, <2>1, <3>1, <3>3 DEF SF!End, Over
      <3>. QED BY <1>b, <2>3, <3>4 DEF SF!Next
    <2>. QED BY <2>2, <2>3
  <1>9. ASSUME NEW a \in Procs, Serve(a) PROVE [SF!Next]_SF!vars
    <2>1. Wanted(a) \in Reports /\ Wanted(a) < next
      BY <1>9, <1>a DEF Serve, Wanted, IInv, TypeOK, HandsApart, AnswersAreTrue, OnlyCollected,
                        Collected
    <2>. QED BY <1>9, <2>1, StoreImplements DEF Serve, Store
  <1>10. ASSUME NEW r \in Reports, ServeLate(r) PROVE [SF!Next]_SF!vars
    <2>1. r < next
      BY <1>10 DEF ServeLate, IInv, OnlyCollected, Collected
    <2>. QED BY <1>10, <2>1, StoreImplements DEF ServeLate, Store, agent
  <1>11. ASSUME NEW r \in Reports, Prune(r) PROVE [SF!Next]_SF!vars
    BY <1>11, <1>c DEF Prune, agent, server
  <1>12. CASE UNCHANGED vars
    BY <1>12, <1>c DEF vars, agent, server
  <1>. QED
    BY <1>1, <1>2, <1>3, <1>4, <1>5, <1>6, <1>7, <1>8, <1>9, <1>10, <1>11, <1>12,
       <1>13
    DEF Next, Process, RunLoop, Server, EvictFails, Crash

\* The spool, its two processes, the messages and the transactions of the server
\* implement the store-and-forward specification (safety).
THEOREM Refinement == Spec => Implements
  <1>1. Init => SF!Init
    BY HandsIn DEF Init, SF!Init, Procs, Run
  <1>. QED BY <1>1, InitInv, NextInv, NextImplements, PTL DEF Spec, Implements, SF!Spec
=============================================================================
