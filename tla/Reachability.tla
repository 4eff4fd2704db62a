---------------------------- MODULE Reachability ----------------------------
(***************************************************************************)
(* How people who share a secret find one another while both are online    *)
(* (ADR 0012, ADR 0014), over the service of Admission: reach and          *)
(* Reachable of internal/contacts/service.go and internal/spaces/ring.go,  *)
(* the two joined by internal/app/reach.go, Reachability and Online of     *)
(* internal/peers/peers.go, and Link of internal/peers/link.go.            *)
(*                                                                         *)
(* An identifier is of whom it finds, on a day, under a secret; who shares *)
(* a secret does not change here.  Dates are of each person's own clock,   *)
(* and turn at midnight, which reach notices a little later.  The Manager  *)
(* does what it is handed in order, here at once.  The interface wants the *)
(* contact whose conversation it shows, in calls that may overlap.         *)
(***************************************************************************)
EXTENDS Admission

CONSTANTS
  Friends,        \* the pairs of people who are contacts
  Members,        \* the members of a space
  Situations      \* what may happen: see situation

(* Those online already are within the limits.                             *)
ASSUME ReachabilityAssumption ==
  /\ Members \subseteq Identities /\ \A f \in Friends : Cardinality(f) = 2 /\ f \subseteq Identities
  /\ \A s \in Situations :
       /\ s.machine \in [Identities -> Machines] /\ s.theirs \subseteq Machines
       /\ s.started \cup s.people \cup s.strangers \subseteq Identities /\ DOMAIN s.at \subseteq s.started
       /\ s.at \in [DOMAIN s.at -> Conns] /\ IsInjective(s.at)
       /\ \A m \in Machines :
            Cardinality({p \in DOMAIN s.at : AddressOf(s.machine[p]) = AddressOf(m)}) <= PerAddress

VARIABLES
  situation,   \* who runs Convia, who has started it and who is online
               \* already, on which machines, with clocks how far ahead, and how
               \* often things may happen, which left counts down
  running,     \* whose Convia runs
  link,        \* link[p]: the connection to the service p has, or makes
  online,      \* those the service welcomed, until they know it ended
  day,         \* how many midnights passed
  viewing,     \* viewing[p]: the contact whose conversation p shows, if any
  calls,       \* calls[p]: what is left to do of calls of p's interface
  wants,       \* wants[p]: the contacts p has a reason to be connected to
  due,         \* due[p]: the parts of Convia that are to reach anew
  reached,     \* reached[p][part]: the date it last did on, and whom it then wanted
  known,       \* history: known[p], whom of those it watches p was told is there
  left

interface == <<viewing, calls>>
clients == <<running, link, online, interface, wants, due, reached, known>>
reachability == <<service, situation, day, left, clients>>

Parts == {"contacts", "space"}
FriendsOf(p) == {q \in Identities : {p, q} \in Friends}
PartsOf(p) ==   \* those with anything to announce
  {part \in Parts : IF part = "contacts" THEN FriendsOf(p) # {} ELSE p \in Members}
Date(p) == day + situation.skew[p]

Id(part, secret, whose, date) == [part |-> part, secret |-> secret, whose |-> whose, date |-> date]

Spend(what) == left[what] > 0 /\ left' = [left EXCEPT ![what] = @ - 1]

Never == [date |-> 0, whom |-> {}, done |-> FALSE]
Asleep == [part \in Parts |-> Never]

-----------------------------------------------------------------------------
(* What a part announces and watches, as of when it last reached.          *)
OnlyThatDay(date) == {date}    \* a mistake: as if clocks agreed
Around(date) == (date - 1)..(date + 1)   \* for clocks that disagree on the date

Announces(r, p, part) ==
  IF ~r.done THEN {}
  ELSE IF part = "contacts" THEN {Id(part, {p, q}, p, r.date) : q \in FriendsOf(p)}
  ELSE {Id(part, Members, p, r.date) : m \in Members \cap {p}}

Watches(r, p, part) ==
  IF ~r.done THEN {}
  ELSE IF part = "contacts" THEN {Id(part, {p, q}, q, d) : q \in r.whom, d \in Around(r.date)}
  ELSE {Id(part, Members, q, d) : q \in {m \in Members : p \in Members} \ {p}, d \in Around(r.date)}

(* set, of the two parts, is what the Manager announces and watches.       *)
Announced(rs, p) == UNION {Announces(rs[part], p, part) : part \in Parts}
Watched(rs, p) == UNION {Watches(rs[part], p, part) : part \in Parts}

(* Some are online already, and have told one another all this.            *)
InitReachability ==
  /\ situation \in Situations /\ left = situation.left
  /\ day = 0 /\ running = situation.started /\ online = DOMAIN situation.at
  /\ wants = [p \in Identities |-> {}] /\ known = wants /\ viewing = wants /\ calls = wants
  /\ link = [p \in Identities |-> IF p \in online THEN situation.at[p] ELSE NoConn]
  /\ due = [p \in Identities |-> IF p \in running \ online THEN PartsOf(p) ELSE {}]
  /\ reached = [p \in Identities |-> [part \in Parts |->
       IF p \in online /\ part \in PartsOf(p) THEN [Never EXCEPT !.date = Date(p), !.done = TRUE] ELSE Never]]
  /\ InitAdmission(situation.at, situation.machine, [p \in Identities |-> Announced(reached[p], p)],
                   [p \in Identities |-> Watched(reached[p], p)])

Sends(p, ms) ==   \* with something in them, to a service that has the connection still
  heard' = IF conn[link[p]] = Unused THEN heard
           ELSE [heard EXCEPT ![link[p]] = @ \o SelectSeq(ms, LAMBDA m : m.ids # {})]

(* reach, and Reachability of the Manager: what changed is withdrawn and   *)
(* announced, and no longer or newly watched.                              *)
Reach(p, part) ==
  LET r == [date |-> Date(p), whom |-> wants[p], done |-> TRUE]
      rs == [reached[p] EXCEPT ![part] = r]
      told == Announced(reached[p], p)  tells == Announced(rs, p)
      saw == Watched(reached[p], p)     sees == Watched(rs, p)
  IN  /\ p \in running /\ part \in PartsOf(p) /\ (part \in due[p] \/ reached[p][part].date # r.date)
      /\ reached' = [reached EXCEPT ![p] = rs] /\ due' = [due EXCEPT ![p] = @ \ {part}]
      /\ IF p \in online
         THEN Sends(p, <<Saying("withdraw", told \ tells), Saying("announce", tells \ told),
                         Saying("unsubscribe", saw \ sees), Saying("subscribe", sees \ saw)>>)
         ELSE UNCHANGED heard
      /\ known' = [known EXCEPT ![p] = @ \cap rs["contacts"].whom]
      /\ UNCHANGED <<now, counted, blocks, conn, found, announced, subscribed, queue, violations,
                     situation, day, left, running, link, online, interface, wants>>

(* Reachable of the contacts: an identifier it does not watch is nobody's. *)
Sighted(p, part, i) == {i.whose : j \in {i} \cap Watches(reached[p][part], p, part)}

Hears(p) ==
  /\ p \in online /\ Writes(link[p])
  /\ known' = [known EXCEPT ![p] = @ \cup Sighted(p, "contacts", Head(queue[link[p]]))]
  /\ UNCHANGED <<now, counted, blocks, conn, found, announced, subscribed, heard, violations,
                 situation, day, left, running, link, online, interface, wants, due, reached>>

-----------------------------------------------------------------------------
(* view: another conversation is on screen, or none.  That is said under   *)
(* the mutex; what it means for who is wanted is done after.               *)
Views(p, shown) ==
  /\ p \in running /\ shown # viewing[p] /\ Spend("wants")
  /\ viewing' = [viewing EXCEPT ![p] = shown]
  /\ calls' = [calls EXCEPT ![p] = @ \cup {[n |-> left["wants"], release |-> viewing[p], want |-> shown]}]
  /\ UNCHANGED <<service, situation, day, running, link, online, wants, due, reached, known>>

(* Release, of the contact no longer shown, and then Want, of the one that *)
(* is: contacts to be reached anew.                                        *)
Reasons(p, c) ==
  LET first == IF c.release # {} THEN [c EXCEPT !.want = {}] ELSE c
      rest == {[c EXCEPT !.release = {}] : q \in IF c.release # {} THEN c.want ELSE {}}
  IN  /\ c \in calls[p] /\ calls' = [calls EXCEPT ![p] = (@ \ {c}) \cup rest]
      /\ wants' = [wants EXCEPT ![p] = (@ \ first.release) \cup first.want]
      /\ due' = [due EXCEPT ![p] = @ \cup {"contacts"}]
      /\ UNCHANGED <<service, situation, day, left, running, link, online, viewing, reached, known>>

Midnight ==
  /\ Spend("midnights") /\ day' = day + 1
  /\ UNCHANGED <<service, situation, clients>>

(* Run, of both parts.                                                     *)
Starts(p) ==
  /\ p \in situation.people \ running /\ Spend("starts") /\ running' = running \cup {p}
  /\ due' = [due EXCEPT ![p] = PartsOf(p)]
  /\ UNCHANGED <<service, situation, day, link, online, interface, wants, reached, known>>

(* Whoever is not there is no longer known to be.                          *)
Gone(p) == known' = [q \in Identities |-> IF q = p THEN {} ELSE known[q] \ {p}]

Stops(p) ==
  /\ p \in running /\ Spend("stops") /\ running' = running \ {p} /\ online' = online \ {p}
  /\ conn' = IF link[p] = NoConn THEN conn ELSE Ends(conn, link[p], "gone")
  /\ link' = [link EXCEPT ![p] = NoConn] /\ wants' = [wants EXCEPT ![p] = {}]
  /\ viewing' = [viewing EXCEPT ![p] = {}] /\ calls' = [calls EXCEPT ![p] = {}]
  /\ due' = [due EXCEPT ![p] = {}] /\ reached' = [reached EXCEPT ![p] = Asleep] /\ Gone(p)
  /\ UNCHANGED <<now, counted, blocks, found, announced, subscribed, heard, queue, violations,
                 situation, day>>

-----------------------------------------------------------------------------
(* Link: dials, while it has no connection.  Refused, it dials again.      *)
Free(c) == conn[c] = Unused /\ \A p \in Identities : link[p] # c
NextFree == CHOOSE c \in Conns : Free(c)

Dials(p) ==
  /\ p \in running /\ link[p] = NoConn /\ \E c \in Conns : Free(c)
  /\ Admit(NextFree, situation.machine[p]) /\ link' = [link EXCEPT ![p] = NextFree]
  /\ UNCHANGED <<situation, day, left, running, online, interface, wants, due, reached, known>>

(* The handshake: the challenge signed is that of the connection it made.  *)
Handshakes(p) == link[p] # NoConn /\ Authenticates(link[p], p)

(* Online, once the service's welcome comes.                               *)
Online(p) ==
  /\ Handshakes(p) /\ online' = online \cup {p}
  /\ Sends(p, <<Saying("announce", Announced(reached[p], p)), Saying("subscribe", Watched(reached[p], p))>>)
  /\ UNCHANGED <<situation, day, left, running, link, interface, wants, due, reached, known>>

Offline(p) ==
  /\ link[p] # NoConn /\ (conn[link[p]] = Unused \/ conn[link[p]].end # "open")
  /\ link' = [link EXCEPT ![p] = NoConn] /\ online' = online \ {p} /\ Gone(p)
  /\ UNCHANGED <<service, situation, day, left, running, interface, wants, due, reached>>

(* The network ends a connection.                                          *)
Cut(p) ==
  /\ link[p] # NoConn /\ Counted(link[p]) /\ conn[link[p]].end = "open" /\ Spend("cuts")
  /\ Hangs(link[p])
  /\ UNCHANGED <<now, counted, blocks, found, announced, subscribed, heard, queue, violations,
                 situation, day, clients>>

-----------------------------------------------------------------------------
(* Somebody else at a machine: who may send anything, and be anybody but   *)
(* those who run Convia.                                                   *)
Foreign(c) == conn[c].stage # "unused" /\ \A p \in Identities : link[p] # c
Floods == [i \in 1..(Burst + 1) |-> Saying("announce", {})]
TooMany == Saying("announce", 1..(Announcements + 1))

Knocks(m) ==
  /\ \E c \in Conns : Free(c) /\ Spend("knocks") /\ Admit(NextFree, m)
  /\ UNCHANGED <<situation, day, clients>>

Meddles(c) ==
  /\ Foreign(c)
  /\ \/ Forges(c) /\ UNCHANGED left
     \/ (\E why \in {"timeout", "version"} : TurnedAway(c, why)) /\ UNCHANGED left
     \/ \E p \in situation.strangers : Authenticates(c, p) /\ UNCHANGED <<heard, left>>
     \/ /\ Open(c, "reading") /\ heard[c] = <<>> /\ Spend("deeds")
        /\ \E ms \in {<<Nonsense>>, <<TooMany>>, Floods} : heard' = [heard EXCEPT ![c] = ms]
        /\ UNCHANGED <<now, counted, blocks, conn, found, announced, subscribed, queue, violations>>
     \/ /\ conn[c].end = "open" /\ Hangs(c) /\ UNCHANGED left
        /\ UNCHANGED <<now, counted, blocks, found, announced, subscribed, heard, queue, violations>>
  /\ UNCHANGED <<situation, day, clients>>

Serving == (\E c \in Conns : Serves(c)) /\ UNCHANGED <<situation, day, left, clients>>
Closing == Spend("restarts") /\ Close /\ UNCHANGED <<situation, day, clients>>
Waiting == Spend("time") /\ Passes /\ UNCHANGED <<situation, day, clients>>
Reporting == Report /\ UNCHANGED <<situation, day, left, clients>>

Living(p) ==
  (\E part \in Parts : Reach(p, part)) \/ (\E c \in calls[p] : Reasons(p, c)) \/ Dials(p) \/ Online(p) \/ Offline(p)
Shown(p) == {{}} \cup {{q} : q \in FriendsOf(p)}
Troubling(p) == Starts(p) \/ Cut(p) \/ \E shown \in Shown(p) : Views(p, shown)
Strangers == (\E m \in situation.theirs : Knocks(m)) \/ \E c \in Conns : Meddles(c)
Otherwise == Serving \/ Closing \/ Waiting \/ Reporting \/ Midnight \/ Strangers

-----------------------------------------------------------------------------
TypeOK ==
  /\ running \subseteq Identities /\ online \subseteq running /\ link \in [Identities -> Conns \cup {NoConn}]
  /\ \A c \in Conns : conn[c].stage \in Stages
  /\ \A e \in announced \cup subscribed : conn[e[2]].stage = "reading"

(* ADR 0011: "a peer learns that a contact is back through the rendezvous  *)
(* service".  Of two contacts online, whoever wants the other is told that *)
(* they are there, in whatever order they came, were wanted and reached    *)
(* anew, with clocks that disagree on the date.                            *)
WhoIsWantedIsFound ==
  \A p \in Identities : \A q \in FriendsOf(p) :
    <>[]({p, q} \subseteq online /\ q \in wants[p]) => <>[](q \in known[p])

(* ADR 0021: "the application stays within these limits by design, so a    *)
(* person using it is never blocked".                                      *)
NobodyWhoRunsItIsBlocked ==
  \A p \in Identities : link[p] # NoConn => conn[link[p]].end # "blocked"

(* The next is what the code says, and does not always do.  network.go: "a *)
(* conversation on screen is a reason to be connected".                    *)
WhoIsViewedIsWanted ==
  \A p \in Identities : \A q \in FriendsOf(p) : <>[](q \in viewing[p]) => <>[](q \in wants[p])
=============================================================================
