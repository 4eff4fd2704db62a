------------------------------ MODULE MCCalls ------------------------------
(* Small instances of Calls.                                               *)
EXTENDS Calls, TLC

CONSTANTS ana, bia, cid

Two == {ana, bia}
Three == {ana, bia, cid}
Anyone == Permutations(People)
=============================================================================
