-------------------------- MODULE MCCallGoroutines --------------------------
(* Small instances of CallGoroutines.                                      *)
EXTENDS CallGoroutines

Everything == Asked \cup Come \cup {"expire", "spread"}
=============================================================================
