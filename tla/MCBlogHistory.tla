---------------------------- MODULE MCBlogHistory ----------------------------
(* What becomes of a change of the blog (BlogBuild, with its fairness), and     *)
(* what is kept of its builds (BuildHistory), for TLC.  A behaviour belongs to  *)
(* one part; the variables of the others stay as they start.  The part "tail"   *)
(* is one build by hand that may write anything of up to four characters.       *)
EXTENDS BlogBuild, BuildHistory

CONSTANT MaxWork   \* bound: starts and builds together
VARIABLE part

Texts == UNION {[1..n -> {"x", "n"}] : n \in 0..4}
\* The process that starts first.
Caller == CHOOSE p \in Processes : TRUE
TailNext ==
    \/ Start(Caller) \/ Abandon(Caller) \/ Bind(Caller)
    \/ made = 0 /\ Create(Caller)
    \/ \E out, err \in Texts :
           CommandEnds(Caller, "ok", DrainCapped(out) \o DrainCapped(err))
    \/ WriteLog(Caller) \/ FinishJob(Caller) \/ RecordAudit(Caller)

MCInit == part \in {"site", "history", "tail"} /\ Init /\ HistoryInit
MCNext ==
    \/ part = "site" /\ Next /\ UNCHANGED <<historyVars, part>>
    \/ /\ part = "history" /\ HistoryNext
       /\ starts = 0 => proc'[Caller] # "down"
       /\ starts' + made' <= MaxWork
       /\ UNCHANGED <<vars, part>>
    \/ part = "tail" /\ TailNext /\ UNCHANGED <<vars, part>>

\* In the other parts nothing that Fairness speaks of is ever enabled.
MCSpec == MCInit /\ [][MCNext]_<<vars, historyVars, part>> /\ Fairness
=============================================================================
