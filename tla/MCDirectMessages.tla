-------------------------- MODULE MCDirectMessages --------------------------
(* Small instances of DirectMessages.                                      *)
EXTENDS DirectMessages
=============================================================================
