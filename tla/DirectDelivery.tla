--------------------------- MODULE DirectDelivery ---------------------------
(***************************************************************************)
(* What a conversation promises (ADR 0011), whatever happens in between: a *)
(* message is shown as delivered only once its recipient has stored it, is *)
(* stored once, and never stops being delivered.                           *)
(***************************************************************************)
EXTENDS Naturals

CONSTANT People

VARIABLES
  written,    \* how many entries each has written: entry n is the n-th
  stored,     \* stored[p]: the entries of p the other has stored
  delivered   \* delivered[p]: the entries of p shown as delivered

Init ==
  /\ written = [p \in People |-> 0]
  /\ stored = [p \in People |-> {}]
  /\ delivered = [p \in People |-> {}]

Write(p) ==
  /\ written' = [written EXCEPT ![p] = @ + 1]
  /\ UNCHANGED <<stored, delivered>>

Store(p) ==
  /\ \E n \in 1..written[p] : stored' = [stored EXCEPT ![p] = @ \cup {n}]
  /\ UNCHANGED <<written, delivered>>

Deliver(p) ==
  /\ \E known \in SUBSET stored[p] : delivered' = [delivered EXCEPT ![p] = @ \cup known]
  /\ UNCHANGED <<written, stored>>

Next == \E p \in People : Write(p) \/ Store(p) \/ Deliver(p)

Spec == Init /\ [][Next]_<<written, stored, delivered>>
=============================================================================
