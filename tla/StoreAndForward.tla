-------------------------- MODULE StoreAndForward --------------------------
(***************************************************************************)
(* What the telemetry path of unionc promises: a report that an agent has  *)
(* collected stays with the agent until the server has stored it.  It is   *)
(* lost only if the store of the agent was found over its limit, as one of *)
(* as few reports as would bring it within, or if an agent process ends    *)
(* before the report reached that store.                                   *)
(***************************************************************************)
CONSTANTS
    Reports,
    Fits        \* the sets of reports that fit in the store of the agent

VARIABLES
    fresh,      \* collected, in the memory of a process of the agent
    kept,       \* in the store of the agent
    over,       \* found to be too many, and to be dropped
    delivered,  \* stored by the server
    lost        \* given up by the agent

vars == <<fresh, kept, over, delivered, lost>>
Seen == fresh \cup kept \cup delivered \cup lost

Init == fresh = {} /\ kept = {} /\ over = {} /\ delivered = {} /\ lost = {}

Collect(r) ==
    /\ r \notin Seen
    /\ fresh' = fresh \cup {r}
    /\ UNCHANGED <<kept, over, delivered, lost>>

Keep(r) ==
    /\ r \in fresh
    /\ fresh' = fresh \ {r}
    /\ kept' = kept \cup {r}
    /\ UNCHANGED <<over, delivered, lost>>

\* A request of which the agent has given up may still be served, so that a
\* report can be both lost and delivered.
Deliver(r) ==
    /\ r \in fresh \cup kept \cup lost
    /\ delivered' = delivered \cup {r}
    /\ UNCHANGED <<fresh, kept, over, lost>>

Release(r) ==
    /\ r \in (fresh \cup kept) \cap delivered
    /\ fresh' = fresh \ {r}
    /\ kept' = kept \ {r}
    /\ UNCHANGED <<over, delivered, lost>>

\* The store is counted and found over its limit by S.
Find(S) ==
    /\ kept \notin Fits
    /\ S \subseteq kept /\ kept \ S \in Fits
    /\ \A r \in S : (kept \ S) \cup {r} \notin Fits
    /\ over' = over \cup S
    /\ UNCHANGED <<fresh, kept, delivered, lost>>

\* What was found too many is dropped, though the store may have shrunk since.
Overflow(r) ==
    /\ r \in kept \cap over
    /\ kept' = kept \ {r}
    /\ lost' = lost \cup {r}
    /\ over' \in {over, over \ {r}}
    /\ UNCHANGED <<fresh, delivered>>

End(r) ==
    /\ r \in fresh
    /\ fresh' = fresh \ {r}
    /\ lost' = lost \cup {r}
    /\ UNCHANGED <<kept, over, delivered>>

\* A count is forgotten.
Forget == over' \subseteq over /\ UNCHANGED <<fresh, kept, delivered, lost>>

Next ==
    \/ \E r \in Reports :
        Collect(r) \/ Keep(r) \/ Deliver(r) \/ Release(r) \/ Overflow(r) \/ End(r)
    \/ \E S \in SUBSET Reports : Find(S)
    \/ Forget

Spec == Init /\ [][Next]_vars
=============================================================================
