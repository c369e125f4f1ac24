--------------------------- MODULE MCRamLifecycle ---------------------------
(* RamLifecycle on a small instance; requests and process ids are interchangeable. *)
EXTENDS RamLifecycle, TLC

Symmetry == Permutations(Requests) \cup Permutations(Procs)
=============================================================================
