---------------------------- MODULE MCRegistries ----------------------------
(* The registries of hosts and how they come up, for TLC: the Sunshine and     *)
(* Proxmox hosts of union (HostRegistry) and the start of union (UnionBoot),   *)
(* the machines that enrol with unionc (AgentEnrollment: the service and       *)
(* `once` on one machine, and a second machine with the same host id), and     *)
(* what a machine reports to unionc in time (HostTelemetry).  A behaviour      *)
(* belongs to one of them, `part`; the variables of the others stay as they    *)
(* start.                                                                      *)
EXTENDS HostRegistry, AgentEnrollment, UnionBoot, HostTelemetry

CONSTANTS m1, m2, service, once, other
VARIABLE part

MCMachineOf == [p \in {service, once, other} |-> IF p = other THEN m2 ELSE m1]

\* A card that says it has more memory in use than it has is refused.
Reading(celsius, used) ==
    [memory |-> [used |-> 1, total |-> 2], disks |-> {}, sensors |-> celsius,
     gpus |-> {[vendor |-> "amd", utilization |-> 50, used |-> used, total |-> 2]}]

MCReadings == {Reading({40}, 1), Reading({}, 3)}

\* Bound: no more than one of a second start, which is early, a wall clock that is
\* wrong or has been, and a reading that is not consistent.
OneTrouble ==
    LET odd == \E r \in spool \cup {hand} : r # NoReport /\ ~Consistent(r)
        wrong == ahead # 0 \/ back
    IN /\ launches = 2 => now <= 5 /\ ~odd /\ ~wrong
       /\ wrong => ~odd

\* Two processes of union: a release beside the one before it, or two that were built
\* from different texts of the same migrations.
Sums(one, two) == [first |-> [v \in 1 .. 2 |-> one[v]], second |-> [v \in 1 .. 2 |-> two[v]]]
MCBuilds == {Sums(<<11, 0>>, <<11, 12>>), Sums(<<11, 12>>, <<21, 12>>)}
Deployment(production, faults, key, password, url) ==
    [production |-> production, faults |-> faults, key |-> key, password |-> password, url |-> url]
MCDeployments ==
    {Deployment(FALSE, {"public url"}, 0, "none", "none"), Deployment(FALSE, {}, 0, "long", "new"),
     Deployment(TRUE, {}, 3, "long", "none"), Deployment(TRUE, {}, 3, "long", "new"),
     Deployment(TRUE, {}, 3, "none", "new"),
     Deployment(TRUE, {}, 0, "long", "new"), Deployment(TRUE, {"public url"}, 3, "long", "new")}

MCInit ==
    /\ part \in {"hosts", "enrollment", "telemetry", "boot"}
    /\ HostInit /\ Init /\ TelemetryInit /\ BootInit
    /\ part # "hosts" => mem = Empty
    /\ part # "boot" => deployment = Deployment(FALSE, {"public url"}, 0, "none", "none")
    /\ deployment.url = "none" => server["second"].build = [v \in 1 .. 2 |-> 10 + v]
    /\ ahead = 0

MCNext ==
    /\ UNCHANGED part
    /\ \/ part = "hosts" /\ HostNext /\ UNCHANGED <<vars, telemetryVars, bootVars>>
       \/ part = "enrollment" /\ Next /\ UNCHANGED <<hostVars, telemetryVars, bootVars>>
       \/ part = "telemetry" /\ TelemetryNext /\ OneTrouble' /\ UNCHANGED <<hostVars, vars, bootVars>>
       \/ part = "boot" /\ BootNext /\ UNCHANGED <<hostVars, vars, telemetryVars>>

MCSpec == MCInit /\ [][MCNext]_<<hostVars, vars, telemetryVars, bootVars, part>>
=============================================================================
