--------------------------- MODULE MCAuthSessions ---------------------------
(* AuthSessions on small instances; requests and tokens are interchangeable. *)
EXTENDS AuthSessions, TLC

Symmetry == Permutations(Requests) \cup Permutations(Tokens)
=============================================================================
