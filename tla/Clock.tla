-------------------------------- MODULE Clock --------------------------------
(***************************************************************************)
(* The hybrid logical clock, internal/hlc/hlc.go: it follows the clock of  *)
(* the machine while that goes on, and counts when it does not.  The       *)
(* counter is as large as it has to be; the code's holds 2^32 moments      *)
(* within one millisecond.                                                 *)
(***************************************************************************)
EXTENDS Naturals

Moments == [wall : Nat, counter : Nat]
Never == [wall |-> 0, counter |-> 0]

Before(t, u) == t.wall < u.wall \/ (t.wall = u.wall /\ t.counter < u.counter)

(* The moment of something happening now, of a clock that was at last.     *)
FollowsTheWall(last, physical) ==   \* a mistake: whatever the clock was at
  [wall |-> physical, counter |-> IF physical = last.wall THEN last.counter + 1 ELSE 0]

Now(last, physical) ==
  IF physical > last.wall THEN [wall |-> physical, counter |-> 0]
                          ELSE [last EXCEPT !.counter = @ + 1]

(* The clock is moved past a moment of another's.                          *)
Observe(last, remote) == IF Before(last, remote) THEN remote ELSE last
=============================================================================
