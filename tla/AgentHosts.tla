----------------------------- MODULE AgentHosts -----------------------------
(***************************************************************************)
(* The machines that report under one host id, and the processes of the    *)
(* agent that run on them.                                                 *)
(***************************************************************************)
EXTENDS Naturals

CONSTANTS
    Machines,         \* machines, and their state directories, with one host id
    Processes,        \* processes of the agent
    MachineOf,        \* MachineOf[p]: the machine p runs on
    MaxFresh          \* bound: secrets and tokens ever made

ASSUME EnrollmentAssumption ==
    /\ MachineOf \in [Processes -> Machines]
    /\ MaxFresh \in Nat
=============================================================================
