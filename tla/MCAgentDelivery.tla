-------------------------- MODULE MCAgentDelivery --------------------------
(* Instances of AgentDelivery for TLC. *)
EXTENDS AgentDelivery
MCTimes == {1, 2}
SecondReport == {2}
=============================================================================
