------------------------- MODULE MCSpaceReplication -------------------------
(* Small instances of SpaceReplication.                                    *)
EXTENDS SpaceReplication

CONSTANTS ann, bob, cal

(* Ann founded the space; bob administers it with her, cal is a member.    *)
Alone == Genesis
Two == [Genesis EXCEPT !.rank[bob] = Administrator]
Three == [Two EXCEPT !.rank[cal] = Member]

Circle == {{ann, bob}, {bob, cal}, {ann, cal}}
Line == {{ann, bob}, {bob, cal}}
Pair == {People}
Star == {{ann, bob}, {ann, cal}}

Situation(founded, insiders, changes, pairs, stamps, breakings) ==
  [founded |-> founded, insiders |-> insiders, changes |-> changes, links |-> pairs,
   stamps |-> stamps, breaks |-> breakings]

OnSomebody(kind, author, member) == [kind |-> kind, author |-> author, member |-> member]
OnNobody(kind, author) == [kind |-> kind, author |-> author]

(* Changes that bear on one another's authority.                           *)
Removing == {OnSomebody("remove-member", ann, bob), OnSomebody("remove-member", bob, cal)}
Quarrel == Removing \cup {OnNobody("introduce", cal)}
Naming == {OnNobody("rename-space", ann), OnNobody("introduce", cal)}
Joining == {OnSomebody("add-member", ann, cal), OnSomebody("remove-member", bob, cal)}
Adding == {OnSomebody("add-member", ann, cal)}
Readmitting == {OnSomebody("remove-member", ann, bob), OnSomebody("add-member", ann, bob)}
Expelling == {OnNobody("rename-space", ann), OnSomebody("remove-member", ann, bob)}
Ending == {OnNobody("delete-space", ann)}
Overruling == {OnSomebody("unmake-admin", ann, bob), OnSomebody("remove-member", bob, cal)}

(* Administrators quarrel, one of them or both at a time; somebody invited  *)
(* joins while a connection ends.                                          *)
MCSituations ==
  {Situation(Three, People, Quarrel, Circle, 1, 0), Situation(Three, People, Removing, Circle, 2, 0),
   Situation(Three, People, Quarrel, Line, 2, 0),
   Situation(Two, {ann, bob}, Joining, Star, 3, 0), Situation(Two, {ann, bob}, Joining, Star, 2, 1)}

(* The whole quarrel in a circle, and in a line while a connection ends.   *)
Whole == {Situation(Three, People, Quarrel, Circle, 2, 0)}
Broken == {Situation(Three, People, Quarrel, Line, 2, 1)}

(* The next are of what the README tells does not hold.                    *)
Deleted == {Situation(Two, People, Ending, Pair, 1, 0)}
Expelled == {Situation(Two, People, Expelling, Pair, 2, 0)}
StaleJoined == {Situation(Two, People, Expelling, Pair, 2, 1)}
InvitedAway == {Situation(Alone, {ann}, Adding, Pair, 2, 1)}
InvitedThere == {Situation(Alone, {ann}, Adding, Pair, 2, 0)}
Overruled == {Situation(Three, People, Overruling, Line, 2, 0)}
Readmitted == {Situation(Two, People, Readmitting, Pair, 2, 0)}
=============================================================================
