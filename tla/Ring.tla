-------------------------------- MODULE Ring --------------------------------
(***************************************************************************)
(* Which members of a space connect to which (ADR 0040): ring, rings,      *)
(* Reachable, Ready and Lost of internal/spaces/ring.go and service.go,    *)
(* over the people of Reachability, who tell one another that they are     *)
(* there through the service.                                              *)
(*                                                                         *)
(* Hashes order the members; the epoch, and so the order, does not change  *)
(* here.  A connection is made when either member wants it and both are    *)
(* online, and let go of when neither does: PeerConnections is of how.     *)
(***************************************************************************)
EXTENDS Reachability

CONSTANTS
  Place,     \* Place[p]: where p stands on the ring of the epoch
  Draw       \* Draw[p][q]: where q stands as p picks others

ASSUME RingAssumption ==
  /\ IsFiniteSet(Members)
  /\ \A p, q \in Members :
       /\ Place[p] \in Int /\ Draw[p][q] \in Int
       /\ p # q => Place[p] # Place[q] /\ \A r \in Members : Draw[r][p] # Draw[r][q]

VARIABLES
  sighted,    \* sighted[p]: the members told to be online, and not lost since
  ready,      \* ready[p]: the members p takes to be connected to it
  ringed,     \* ringed[p]: the members p wants a connection to for the ring
  connected,  \* the pairs connected
  events      \* events[p][q]: what is to be done of p's connection to q

space == <<sighted, ready, ringed, connected, events>>
vars == <<reachability, space>>

-----------------------------------------------------------------------------
(* ring: the members before and after p, of those it takes to be online,   *)
(* and a few of the others.                                                *)
Least(ps, place) == CHOOSE q \in ps : \A r \in ps : place[q] <= place[r]
First(n, ps, place) == {q \in ps : Cardinality({r \in ps : place[r] < place[q]}) < n}

After(p, ps) ==
  LET later == {q \in ps : Place[q] > Place[p]}
  IN  Least(IF later # {} THEN later ELSE ps, Place)
Before(p, ps) ==
  LET Mirrored == [q \in Members |-> -Place[q]]
      earlier == {q \in ps : Place[q] < Place[p]}
  IN  Least(IF earlier # {} THEN earlier ELSE ps, Mirrored)

Neighbours(p, ps) == IF ps = {} THEN {} ELSE {After(p, ps), Before(p, ps)}
Chosen(p, ps) ==
  LET near == Neighbours(p, ps)
  IN  near \cup First(situation.picked, ps \ near, Draw[p])

There == Members \cap online
Pairs == {{p, q} : p, q \in Members} \ {{p} : p \in Members}
Wanted(pair) == \E p \in pair : \E q \in pair \ {p} : q \in ringed[p]

InitRing ==
  /\ sighted = [p \in Members |-> IF p \in There THEN There \ {p} ELSE {}]
  /\ ringed = [p \in Members |-> Chosen(p, sighted[p])]
  /\ connected = {pair \in Pairs : Wanted(pair)}
  /\ ready = [p \in Members |-> {q \in Members : {p, q} \in connected}]
  /\ events = [p \in Members |-> [q \in Members |-> <<>>]]

(* Whom p takes to be online, and rings, after that changed: what is       *)
(* wanted of the Manager changes with it.                                  *)
OnlyReady(p) == ready'[p]                          \* a mistake: forgets who is announced
Fellows(p) == (sighted'[p] \cup ready'[p]) \ {p}
Rings(p) == ringed' = [ringed EXCEPT ![p] = Chosen(p, Fellows(p))]

(* Reachable, of the spaces.                                               *)
Sights(p) ==
  /\ Hears(p)
  /\ sighted' = [sighted EXCEPT ![p] = @ \cup Sighted(p, "space", Head(queue[link[p]]))]
  /\ ready' = ready /\ Rings(p)
  /\ UNCHANGED <<connected, events>>

-----------------------------------------------------------------------------
(* What the Manager tells both ends of a connection, each in order.        *)
Both(pair, what) ==
  [p \in Members |-> [q \in Members |-> IF pair = {p, q} THEN Append(events[p][q], what) ELSE events[p][q]]]

Connects(pair) ==
  /\ pair \notin connected /\ pair \subseteq online /\ Wanted(pair)
  /\ connected' = connected \cup {pair} /\ events' = Both(pair, "ready")
  /\ UNCHANGED <<reachability, sighted, ready, ringed>>

(* A connection unwanted is kept for ten minutes: what is on its way then   *)
(* has come.                                                               *)
Settled(pair) ==
  /\ \A c \in Conns : heard[c] = <<>> /\ queue[c] = <<>>
  /\ \A p, q \in pair : due[p] = {} /\ events[p][q] = <<>>

LetsGo(pair) ==
  /\ pair \in connected /\ ~Wanted(pair) /\ Settled(pair)
  /\ connected' = connected \ {pair} /\ events' = Both(pair, "lost")
  /\ UNCHANGED <<reachability, sighted, ready, ringed>>

Breaks(pair) ==
  /\ pair \in connected /\ Spend("breaks")
  /\ connected' = connected \ {pair} /\ events' = Both(pair, "lost")
  /\ UNCHANGED <<service, situation, day, clients, sighted, ready, ringed>>

(* Ready and Lost: whoever is lost is no longer taken to be online.        *)
Notices(p, q) ==
  /\ events[p][q] # <<>> /\ events' = [events EXCEPT ![p][q] = Tail(@)]
  /\ \/ /\ Head(events[p][q]) = "ready"
        /\ ready' = [ready EXCEPT ![p] = @ \cup {q}] /\ sighted' = sighted
     \/ /\ Head(events[p][q]) = "lost"
        /\ ready' = [ready EXCEPT ![p] = @ \ {q}] /\ sighted' = [sighted EXCEPT ![p] = @ \ {q}]
  /\ Rings(p)
  /\ UNCHANGED <<reachability, connected>>

(* Whoever stops forgets all this, and is lost to whom it was connected.   *)
Abandons(p) ==
  LET its == {pair \in connected : p \in pair}
  IN  /\ connected' = connected \ its
      /\ events' = [q \in Members |-> [r \in Members |->
           IF q = p THEN <<>> ELSE IF r = p /\ {p, q} \in its THEN Append(events[q][r], "lost") ELSE events[q][r]]]
      /\ sighted' = [sighted EXCEPT ![p] = {}] /\ ready' = [ready EXCEPT ![p] = {}]
      /\ ringed' = [ringed EXCEPT ![p] = {}]

Ceases(p) ==
  /\ Stops(p)
  /\ IF p \in Members THEN Abandons(p) ELSE UNCHANGED space

-----------------------------------------------------------------------------
Listens(p) == (p \in Members /\ Sights(p)) \/ (p \notin Members /\ Hears(p) /\ UNCHANGED space)
Lives(p) == (Living(p) /\ UNCHANGED space) \/ Listens(p) \/ \E q \in Members : p \in Members /\ Notices(p, q)

Init == InitReachability /\ InitRing
Next ==
  \/ \E p \in Identities : Lives(p) \/ Ceases(p) \/ (Troubling(p) /\ UNCHANGED space)
  \/ Otherwise /\ UNCHANGED space
  \/ \E pair \in Pairs : Connects(pair) \/ LetsGo(pair) \/ Breaks(pair)

Spec == Init /\ [][Next]_vars

(* Convia and the service go on by themselves; whoever is at a machine     *)
(* need not do anything, and time need not pass here.                      *)
Fairness ==
  /\ \A p \in Identities : WF_vars(Lives(p))
  /\ WF_vars(Serving /\ UNCHANGED space)
  /\ \A pair \in Pairs : WF_vars(Connects(pair)) /\ WF_vars(LetsGo(pair))
FairSpec == Spec /\ Fairness

-----------------------------------------------------------------------------
TypeOKRing ==
  /\ TypeOK /\ connected \subseteq Pairs
  /\ \A p \in Members : sighted[p] \cup ready[p] \cup ringed[p] \subseteq Members \ {p}

(* ADR 0040: members connect to few of one another, "as long as content    *)
(* still reaches every member".  Once nobody comes or goes, no members     *)
(* online are cut off from the others.                                     *)
HoldTogether ==
  \A some \in SUBSET There \ {{}, There} : \E pair \in connected : pair \cap some # {} /\ pair \cap (There \ some) # {}
MembersHoldTogether == <>[]HoldTogether
=============================================================================
