---------------------------- MODULE MCBlogBuild ----------------------------
(* BlogBuild on a small instance; editors, hands and slots are                 *)
(* interchangeable.                                                            *)
EXTENDS BlogBuild, TLC

Symmetry == Permutations(Editors) \cup Permutations(Hands) \cup Permutations(Slots)
=============================================================================
