------------------------------- MODULE MCRing -------------------------------
(* Small instances of Ring: members 1 to 4 of a space, contacts 5 and 6,   *)
(* whose clocks disagree on the date, and a stranger, 9.                   *)
EXTENDS Ring

Attic == [family |-> "v6", net |-> 1, host |-> 1]
Cellar == [family |-> "v6", net |-> 1, host |-> 2]
Abroad == [family |-> "v4", net |-> 2, host |-> 1]
Homes == {Attic, Cellar, Abroad}

Order == [p \in Members |-> p]
Drawn == [p \in Members |-> [q \in Members |-> (q - p) % 7]]

Quiet == [starts |-> 0, stops |-> 0, cuts |-> 0, wants |-> 0, midnights |-> 0, knocks |-> 0,
          deeds |-> 0, time |-> 0, breaks |-> 0, restarts |-> 0]
Situation(people, at, picked, may) ==
  [people |-> people, started |-> people, at |-> at, picked |-> picked, left |-> may,
   machine |-> [p \in Identities |-> IF p % 2 = 0 THEN Abroad ELSE Attic],
   skew |-> [p \in Identities |-> IF p = 5 THEN 1 ELSE 0],
   strangers |-> {9}, theirs |-> {Attic, Cellar}]

Nowhere == [p \in {} |-> NoConn]
Three == 1 :> "a" @@ 2 :> "b" @@ 3 :> "c"
Four == Three @@ 4 :> "d"
Contacts == 5 :> "a" @@ 6 :> "b"

(* Two members come online, and one of them goes and comes back; the same  *)
(* of three; of four, who pick none but their neighbours, one goes and two *)
(* are cut off from one another.  The service stops and starts again.      *)
Meeting == {
  Situation({1, 2, 3}, Three, 2, [Quiet EXCEPT !.restarts = 1]),
  Situation({1, 2}, Nowhere, 2, [Quiet EXCEPT !.restarts = 1, !.starts = 1]),
  Situation({1, 2}, Nowhere, 2, [Quiet EXCEPT !.starts = 1, !.stops = 1]),
  Situation({1, 2, 3}, Three, 2, [Quiet EXCEPT !.starts = 1, !.stops = 1]),
  Situation({1, 2, 3, 4}, Four, 0, [Quiet EXCEPT !.stops = 1, !.breaks = 1])}

(* The contacts come to want one another, and no longer, as the day turns, *)
(* and the network or whoever runs Convia ends their connections.          *)
Wanting == {
  Situation({5, 6}, Contacts, 2, [Quiet EXCEPT !.wants = 1, !.midnights = 1, !.restarts = 1]),
  Situation({5, 6}, Contacts, 2, [Quiet EXCEPT !.wants = 2, !.midnights = 1]),
  Situation({5, 6}, Contacts, 2, [Quiet EXCEPT !.wants = 2, !.cuts = 1]),
  Situation({5, 6}, Contacts, 2, [Quiet EXCEPT !.wants = 1, !.midnights = 1, !.cuts = 1]),
  Situation({5, 6}, Contacts, 2, [Quiet EXCEPT !.wants = 2, !.starts = 1, !.stops = 1]),
  Situation({5, 6}, Contacts, 2, [Quiet EXCEPT !.wants = 1, !.midnights = 1, !.starts = 1, !.stops = 1])}

(* Strangers come, time and again or with what they may not do, also to    *)
(* where somebody who runs Convia is.                                      *)
Knocking == {
  Situation({}, Nowhere, 2, [Quiet EXCEPT !.knocks = 2, !.deeds = 1, !.time = 1, !.restarts = 1]),
  Situation({}, Nowhere, 2, [Quiet EXCEPT !.knocks = 3, !.time = 4]),
  Situation({}, Nowhere, 2, [Quiet EXCEPT !.knocks = 2, !.deeds = 1, !.time = 2]),
  Situation({5}, Nowhere, 2, [Quiet EXCEPT !.knocks = 1, !.deeds = 1, !.time = 3])}

Occurring == Meeting \cup Wanting \cup Knocking

(* Where what is said is not so: two members, whose connection breaks; a    *)
(* space too large for a message; and somebody who shows a conversation,   *)
(* looks away and shows it again.                                          *)
Breaking == {Situation({1, 2}, Nowhere, 2, [Quiet EXCEPT !.breaks = 1])}
Crowded == {Situation({1}, Nowhere, 2, Quiet)}
Glancing == {Situation({5, 6}, Contacts, 2, [Quiet EXCEPT !.wants = 3])}
=============================================================================
