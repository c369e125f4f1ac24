------------------------------ MODULE MCAuthGate ------------------------------
(* Who comes through to the handlers of union, for TLC: the limits of logins   *)
(* (AuthSessions), and the gate of a request with its session, its ticket and  *)
(* the answer of the database in time (RequestGate).  A behaviour belongs to   *)
(* one of the two, `part`; the variables of the other stay as they start.      *)
EXTENDS AuthSessions, RequestGate

VARIABLE part

MCInit ==
    /\ part \in {"limits", "gate"}
    /\ Init /\ GateInit
    /\ production     \* where login asks for more
    /\ part = "limits" => reachable

Limits(A) == part = "limits" /\ A /\ UNCHANGED <<gateVars, part>>

MCNext == \/ Limits(Next)
          \/ part = "gate" /\ GateNext /\ UNCHANGED <<vars, part>>

MCVars == <<vars, gateVars, part>>

\* The fairness of AuthSessions, where it is the part that goes on.
MCSpec ==
    /\ MCInit /\ [][MCNext]_MCVars
    /\ WF_MCVars(Limits(Tick))
    /\ WF_MCVars(Limits(OrphanEnds))
    /\ \A r \in Requests :
          /\ WF_MCVars(Limits(ReadHash(r)))
          /\ WF_MCVars(Limits(LoginTask(r) \/ CheckTask(r) \/ HashTask(r)))
=============================================================================
