---------------------------- MODULE MCSpaceState ----------------------------
(* Small instances of SpaceState.                                          *)
EXTENDS SpaceState, TLC

CONSTANTS ann, bob, cal, dan, i1

Symmetric == Permutations(People \ {Creator}) \cup Permutations(Ids)
=============================================================================
