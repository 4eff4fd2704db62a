-------------------------- MODULE PeerConnections --------------------------
(***************************************************************************)
(* The connections between peers: internal/peers/peers.go and link.go,     *)
(* over the rendezvous service of Rendezvous, and the WebView that carries *)
(* them, frontend/src/transport/connections.ts.                            *)
(*                                                                         *)
(* The Manager does one thing at a time.  What another goroutine, the      *)
(* service or the WebView asks of it is done when its turn comes; what the *)
(* service says comes in order, as does what comes on a connection.        *)
(*                                                                         *)
(* Reasons to want a peer are one, ICE candidates and renegotiations are   *)
(* left out, everybody accepts everybody, and a wait is over at any time.  *)
(* Hello and challenge, which are sent together and only both answered,    *)
(* are one message.                                                        *)
(***************************************************************************)
EXTENDS Rendezvous

CONSTANTS
  MaxSessions, \* bound: names each peer has for connections it offers, used again
               \* once nothing refers to them
  Costs,       \* what each of these counts for: a peer wanted, released or
               \* disconnected; the service's connection broken, or its queue full; a
               \* connection between peers cut, or a page reloaded; an attempt that goes
               \* on and takes too long
  MaxCost      \* bound: what they come to

ASSUME ConnectionsAssumption ==
  /\ MaxSessions \in Nat
  /\ Costs \in [{"change", "break", "cut", "late"} -> Nat] /\ MaxCost \in Nat

VARIABLES
  peer,      \* peer[p][q]: what p's Manager holds of q
  watched,   \* watched[p]: those served identifier p subscribes to
  channel,   \* channel[p][q]: what p sent q on the connection q holds
  work,      \* work[p]: whom p's Manager is to be told is reachable
  told,      \* told[p]: those p's observers take to be connected, which nothing reads
  spent      \* what was counted so far

manager == <<peer, channel, told>>
vars == <<rendezvous, manager, watched, work, spent>>

-----------------------------------------------------------------------------
(* conn.  An offerer's goes from new to offered, settled once it has both  *)
(* descriptions, opened, proved once it proved itself, and ready once the  *)
(* other did.                                                              *)
NoSession == <<None, None>>
Sessions == Peers \X (1..MaxSessions)

NoConn == [session |-> NoSession, offerer |-> FALSE, stage |-> "none", theyWant |-> FALSE]
Opening(s, offerer) == [session |-> s, offerer |-> offerer, stage |-> "new", theyWant |-> FALSE]

Unknown == [wanted |-> FALSE, retry |-> FALSE, parked |-> FALSE, conn |-> NoConn]

Conn(p, q) == peer[p][q].conn
Wanted(p, q) == peer[p][q].wanted
Settled(p, q) == Conn(p, q).stage \in {"settled", "opened", "proved", "ready"}
Ready(p, q) == Conn(p, q).stage = "ready"
Others(p) == Peers \ {p}

Connected(r) == r.conn # NoConn
Same(p, q) == Conn(p, q) # NoConn /\ Conn(p, q).session = Conn(q, p).session

Mentions(m, s) == m.kind = "signal" /\ m.session = s
InFlight(s) ==
  \E e \in Ends : \/ \E i \in DOMAIN sent[e] : Mentions(sent[e][i], s)
                  \/ \E i \in DOMAIN queue[e] : Mentions(queue[e][i], s)
                  \/ Relaying(e) /\ relaying[e].signal.session = s
Spare(p) ==
  {s \in {p} \X (1..MaxSessions) : ~InFlight(s) /\ \A q, r \in Peers : Conn(q, r).session # s}

Init ==
  /\ InitRendezvous
  /\ peer = [p \in Peers |-> [q \in Peers |-> Unknown]]
  /\ channel = [p \in Peers |-> [q \in Peers |-> <<>>]]
  /\ work = [p \in Peers |-> <<>>] /\ told = [p \in Peers |-> {}] /\ watched = told
  /\ spent = 0

Spends(k) == spent' = spent + Costs[k] /\ spent' <= MaxCost

-----------------------------------------------------------------------------
(* What the steps of the Manager are made of.                              *)

Sets(p, q, r) == peer' = [peer EXCEPT ![p][q] = r]

NewSession(p) == CHOOSE s \in Spare(p) : \A t \in Spare(p) : s[2] <= t[2]
NameLeft(p) == link[p] = NoEnd \/ Spare(p) # {}   \* for the bound

(* connect: waiting to, while it is offline.                               *)
ConnectingOnline(p, r) ==   \* a mistake: given up, while it is offline
  IF link[p] = NoEnd THEN r
  ELSE [r EXCEPT !.retry = FALSE, !.conn = Opening(NewSession(p), TRUE)]

Connecting(p, r) ==
  IF link[p] = NoEnd THEN [r EXCEPT !.retry = TRUE]
  ELSE [r EXCEPT !.retry = FALSE, !.conn = Opening(NewSession(p), TRUE)]

(* The same, of several.                                                   *)
ConnectsTo(p, due) ==
  LET names == {f \in [due -> Spare(p)] : IsInjective(f)}
      name == CHOOSE f \in names : TRUE
  IN  /\ names # {}
      /\ peer' = [peer EXCEPT ![p] = [q \in Peers |->
                    IF q \in due THEN [@[q] EXCEPT !.retry = FALSE, !.conn = Opening(name[q], TRUE)]
                    ELSE @[q]]]

(* send: lost when the other's end is gone.                                *)
Sends(p, q, m) ==
  channel' = IF Same(p, q) THEN [channel EXCEPT ![p][q] = Append(@, m)] ELSE channel

(* drop: what was to come on the connection does not, and observers are    *)
(* told if they were told it was there.                                    *)
Dropped(r) == [r EXCEPT !.conn = NoConn]
Drops(p, q) ==
  /\ channel' = [channel EXCEPT ![q][p] = <<>>]
  /\ told' = IF Ready(p, q) THEN [told EXCEPT ![p] = @ \ {q}] ELSE told

(* again: when to try anew.                                                *)
Again(r) == IF r.wanted /\ ~r.parked THEN [r EXCEPT !.retry = TRUE] ELSE r

(* fail, Closed: the connection to q ends, and is to be made again.        *)
Fails(p, q) == Sets(p, q, Again(Dropped(peer[p][q]))) /\ Drops(p, q)

(* Interest: what p wants is told to whoever is ready to hear it.          *)
TellsNobody(p, q, interest) == UNCHANGED channel   \* a mistake

Tells(p, q, interest) ==
  \/ Ready(p, q) /\ Sends(p, q, interest)
  \/ ~Ready(p, q) /\ UNCHANGED channel

-----------------------------------------------------------------------------
(* What is asked of the Manager.                                           *)

Want(p, q) ==
  /\ ~Wanted(p, q) /\ Spends("change")
  /\ LET r == [peer[p][q] EXCEPT !.wanted = TRUE]
         connects == ~Connected(r) /\ ~r.parked /\ ~r.retry
     IN  /\ connects => NameLeft(p)
         /\ Sets(p, q, IF connects THEN Connecting(p, r) ELSE r)
  /\ Tells(p, q, "wanted")
  /\ UNCHANGED <<rendezvous, watched, work, told>>

Release(p, q) ==
  /\ Wanted(p, q) /\ Spends("change")
  /\ Sets(p, q, [peer[p][q] EXCEPT !.wanted = FALSE, !.retry = FALSE])
  /\ Tells(p, q, "unwanted")
  /\ UNCHANGED <<rendezvous, watched, work, told>>

(* Disconnect, of a connection there is: otherwise it is as Release.       *)
Disconnect(p, q) ==
  /\ Connected(peer[p][q]) /\ Spends("change")
  /\ Sets(p, q, [Dropped(peer[p][q]) EXCEPT !.wanted = FALSE, !.retry = FALSE])
  /\ Drops(p, q) /\ UNCHANGED <<rendezvous, watched, work>>

(* Reachability, as the contacts ask for it: those wanted are watched.     *)
Reachability(p) ==
  LET wanted == {q \in Peers : Wanted(p, q)}
      unless(ids, m) == IF ids = {} THEN <<>> ELSE <<m>>
  IN  /\ wanted # watched[p] /\ watched' = [watched EXCEPT ![p] = wanted]
      /\ Says(p, unless(watched[p] \ wanted, Unsubscribe(watched[p] \ wanted))
                   \o unless(wanted \ watched[p], Subscribe(wanted \ watched[p])))
      /\ UNCHANGED <<link, service, manager, work, spent>>

(* Online, once the service welcomed p, and Offline.                       *)
Online(p) ==
  /\ Dials(p, <<Announce({p})>> \o (IF watched[p] = {} THEN <<>> ELSE <<Subscribe(watched[p])>>))
  /\ ConnectsTo(p, {q \in Peers : Wanted(p, q) /\ ~Connected(peer[p][q]) /\ ~peer[p][q].parked})
  /\ UNCHANGED <<watched, work, channel, told, spent>>

Offline(p) == Hangs(p) /\ UNCHANGED <<sent, service, manager, watched, work>>
LinkEnds(p)   == Ended(p) /\ Offline(p) /\ UNCHANGED spent
LinkBreaks(p) == Spends("break") /\ Offline(p)

(* Work that came back from an observer: q is announced.                   *)
HandleReachable(p) ==
  /\ work[p] # <<>> /\ work' = [work EXCEPT ![p] = Tail(@)]
  /\ LET q == Head(work[p])
         r == [peer[p][q] EXCEPT !.parked = FALSE]
         connects == r.wanted /\ ~Connected(r)
     IN  /\ connects => NameLeft(p)
         /\ Sets(p, q, IF connects THEN Connecting(p, r) ELSE r)
  /\ UNCHANGED <<rendezvous, watched, channel, told, spent>>

-----------------------------------------------------------------------------
(* What the service says.                                                  *)

(* offered: p's own attempt wins if its key is lower.                      *)
KeepsOwnAnyway(p, q) ==   \* a mistake: whoever is lower
  LET c == Conn(p, q) IN c # NoConn /\ c.stage # "ready" /\ c.offerer

KeepsOwn(p, q) ==
  LET c == Conn(p, q) IN c # NoConn /\ c.stage # "ready" /\ c.offerer /\ p < q

Offered(p, q, s) ==
  \/ KeepsOwn(p, q) /\ UNCHANGED manager
  \/ /\ ~KeepsOwn(p, q) /\ Drops(p, q)
     /\ Sets(p, q, [peer[p][q] EXCEPT !.conn = Opening(s, FALSE)])

Answered(p, q, s) ==
  LET c == Conn(p, q)
      answers == c.session = s /\ c.offerer /\ c.stage = "offered"
  IN  /\ Sets(p, q, IF answers THEN [peer[p][q] EXCEPT !.conn.stage = "settled"] ELSE peer[p][q])
      /\ UNCHANGED <<channel, told>>

HandleUnreachable(p, q) ==
  \/ Ready(p, q) /\ UNCHANGED manager
  \/ /\ ~Ready(p, q) /\ Drops(p, q)
     /\ Sets(p, q, [Dropped(peer[p][q]) EXCEPT !.parked = TRUE, !.retry = FALSE])

FromService(p) ==
  /\ link[p] # NoEnd /\ queue[link[p]] # <<>>
  /\ queue' = [queue EXCEPT ![link[p]] = Tail(@)]
  /\ LET m == Head(queue[link[p]]) IN
     \/ /\ m.kind = "reachable" /\ work' = [work EXCEPT ![p] = Append(@, m.peer)]
        /\ UNCHANGED manager
     \/ m.kind = "unreachable" /\ HandleUnreachable(p, m.peer) /\ UNCHANGED work
     \/ m.kind = "signal" /\ m.what = "offer" /\ Offered(p, m.peer, m.session) /\ UNCHANGED work
     \/ m.kind = "signal" /\ m.what = "answer" /\ Answered(p, m.peer, m.session) /\ UNCHANGED work
  /\ UNCHANGED <<link, sent, served, found, announced, subscribed, relaying, slow, done, watched, spent>>

-----------------------------------------------------------------------------
(* What the WebView says.                                                  *)

LocalDescription(p, q) ==
  LET c == Conn(p, q) IN
  /\ c.stage = "new"
  /\ Sets(p, q, [peer[p][q] EXCEPT !.conn.stage = IF c.offerer THEN "offered" ELSE "settled"])
  /\ Says(p, <<Signal(q, c.session, IF c.offerer THEN "offer" ELSE "answer")>>)
  /\ UNCHANGED <<link, service, channel, told, watched, work, spent>>

Moves(p, q, stage) == Sets(p, q, [peer[p][q] EXCEPT !.conn.stage = stage])

Opened(p, q) ==
  /\ Conn(p, q).stage = "settled" /\ Same(p, q) /\ Settled(q, p)
  /\ Moves(p, q, "opened") /\ Sends(p, q, "hello")
  /\ UNCHANGED <<rendezvous, told, watched, work, spent>>

(* What comes on the connection.                                           *)
Hello(p, q) ==
  Conn(p, q).stage = "opened" /\ Moves(p, q, "proved") /\ UNCHANGED told

Proof(p, q) ==
  /\ Conn(p, q).stage = "proved" /\ Moves(p, q, "ready")
  /\ told' = [told EXCEPT ![p] = @ \cup {q}]

Interest(p, q, wanted) ==
  /\ Ready(p, q) /\ Sets(p, q, [peer[p][q] EXCEPT !.conn.theyWant = wanted]) /\ UNCHANGED told

Takes(p, q, answer) ==
  channel' = [channel EXCEPT ![q][p] = Tail(@),
                             ![p][q] = IF Same(p, q) THEN @ \o answer ELSE @]

Received(p, q) ==
  /\ channel[q][p] # <<>> /\ Conn(p, q).stage \in {"opened", "proved", "ready"}
  /\ LET m == Head(channel[q][p]) IN
     \/ m = "hello" /\ Hello(p, q) /\ Takes(p, q, <<"proof">>)
     \/ m = "proof" /\ Proof(p, q) /\ Takes(p, q, <<IF Wanted(p, q) THEN "wanted" ELSE "unwanted">>)
     \/ m \in {"wanted", "unwanted"} /\ Interest(p, q, m = "wanted") /\ Takes(p, q, <<>>)
  /\ UNCHANGED <<rendezvous, watched, work, spent>>

(* Closed: the other's end is gone, or the network is.                     *)
Closed(p, q) ==
  /\ Settled(p, q) /\ Fails(p, q)
  /\ \/ ~Same(p, q) /\ UNCHANGED spent
     \/ Same(p, q) /\ Spends("cut")
  /\ UNCHANGED <<rendezvous, watched, work>>

(* Reset: the page reloads.                                                *)
Reset(p) ==
  LET ended == {q \in Peers : Connected(peer[p][q])}
  IN  /\ ended # {} /\ Spends("cut")
      /\ peer' = [peer EXCEPT ![p] = [q \in Peers |-> IF q \in ended THEN Again(Dropped(@[q])) ELSE @[q]]]
      /\ channel' = [q \in Peers |-> [channel[q] EXCEPT ![p] = <<>>]]
      /\ told' = [told EXCEPT ![p] = {}]
      /\ UNCHANGED <<rendezvous, watched, work>>

-----------------------------------------------------------------------------
(* tick, a case each.                                                      *)

(* Nothing will bring the attempt further: what was said before it took    *)
(* too long has come.                                                      *)
Between(e, m, p, q) == "peer" \in DOMAIN m /\ {Whose(e), m.peer} = {p, q}
Pending(p, q) ==
  \E e \in Ends : \/ \E i \in DOMAIN sent[e] : Between(e, sent[e][i], p, q)
                  \/ \E i \in DOMAIN queue[e] : Between(e, queue[e][i], p, q)
                  \/ Between(e, relaying[e].signal, p, q)

Stuck(p, q) ==
  /\ "new" \notin {Conn(p, q).stage, Conn(q, p).stage} /\ ~Pending(p, q)
  /\ ~(Same(p, q) /\ Settled(p, q) /\ Settled(q, p))

Late(p, q) ==
  \/ Stuck(p, q) /\ UNCHANGED spent
  \/ ~Stuck(p, q) /\ Spends("late")

OverdueWanted(p, q) ==   \* a mistake: unless it is no longer wanted
  Connected(peer[p][q]) /\ ~Ready(p, q) /\ Wanted(p, q) /\ Late(p, q)

Overdue(p, q) == Connected(peer[p][q]) /\ ~Ready(p, q) /\ Late(p, q)

TakesTooLong(p, q) ==
  Overdue(p, q) /\ Fails(p, q) /\ UNCHANGED <<rendezvous, watched, work>>

Idle(p, q) ==
  /\ Ready(p, q) /\ ~Wanted(p, q) /\ ~Conn(p, q).theyWant
  /\ Sets(p, q, Dropped(peer[p][q])) /\ Drops(p, q)
  /\ UNCHANGED <<rendezvous, watched, work, spent>>

Retry(p, q) ==
  LET r == peer[p][q] IN
  /\ ~Connected(r) /\ r.retry /\ r.wanted /\ ~r.parked /\ NameLeft(p)
  /\ Sets(p, q, Connecting(p, r)) /\ UNCHANGED <<rendezvous, channel, told, watched, work, spent>>

ForgetPeer(p, q) ==
  /\ ~Connected(peer[p][q]) /\ ~Wanted(p, q) /\ peer[p][q] # Unknown
  /\ Sets(p, q, Unknown) /\ UNCHANGED <<rendezvous, channel, told, watched, work, spent>>

Tick(p, q) == TakesTooLong(p, q) \/ Idle(p, q) \/ Retry(p, q) \/ ForgetPeer(p, q)

(* NetworkChanged, and the first tick after a sleep.                       *)
NetworkChanged(p) ==
  LET due == {q \in Peers : peer[p][q].retry /\ ~Connected(peer[p][q]) /\ Wanted(p, q)}
  IN  /\ due # {} /\ link[p] # NoEnd /\ ConnectsTo(p, due)
      /\ UNCHANGED <<rendezvous, channel, told, watched, work, spent>>

-----------------------------------------------------------------------------
Asks(p, q) == Want(p, q) \/ Release(p, q) \/ Disconnect(p, q)
WebView(p, q) == LocalDescription(p, q) \/ Opened(p, q) \/ Received(p, q) \/ Closed(p, q)
Service(e) == Serves(e) /\ UNCHANGED <<manager, watched, work, spent>>
Overflows(e) == Overflow(e) /\ Spends("break") /\ UNCHANGED <<manager, watched, work>>

Next ==
  \/ \E p \in Peers :
       \/ Online(p) \/ LinkEnds(p) \/ LinkBreaks(p) \/ Reachability(p)
       \/ FromService(p) \/ HandleReachable(p) \/ Reset(p) \/ NetworkChanged(p)
       \/ \E q \in Others(p) : Asks(p, q) \/ WebView(p, q) \/ Tick(p, q)
  \/ \E e \in Ends : Service(e) \/ Overflows(e)

Spec == Init /\ [][Next]_vars

(* Goroutines go on, the WebView answers, and Link dials again.  Strongly  *)
(* so for an attempt that takes too long: its time does not begin anew as  *)
(* something of another is on its way.                                     *)
Fairness ==
  /\ \A p \in Peers :
       /\ WF_vars(Online(p) \/ LinkEnds(p)) /\ WF_vars(Reachability(p))
       /\ WF_vars(FromService(p)) /\ WF_vars(HandleReachable(p))
       /\ \A q \in Others(p) : WF_vars(WebView(p, q)) /\ WF_vars(Tick(p, q)) /\ SF_vars(TakesTooLong(p, q))
  /\ \A e \in Ends : WF_vars(Service(e))
FairSpec == Spec /\ Fairness

-----------------------------------------------------------------------------
Conns == [session : Sessions \cup {NoSession}, offerer : BOOLEAN, theyWant : BOOLEAN,
          stage : {"none", "new", "offered", "settled", "opened", "proved", "ready"}]

TypeOK ==
  /\ link \in [Peers -> Ends \cup {NoEnd}] /\ found \in [Peers -> Ends \cup {NoEnd}]
  /\ peer \in [Peers -> [Peers -> [wanted : BOOLEAN, retry : BOOLEAN, parked : BOOLEAN, conn : Conns]]]
  /\ \A p, q \in Peers : Conn(p, q) = NoConn \/ Conn(p, q).session # NoSession

(* ADR 0024: whoever is wanted is connected to, to be tried again, or      *)
(* waited for until the service announces them, whatever failed before: no *)
(* handler gives up a peer somebody still has a reason to reach.           *)
NobodyIsForgotten ==
  \A p, q \in Peers : Wanted(p, q) =>
    Connected(peer[p][q]) \/ peer[p][q].retry \/ peer[p][q].parked

(* Of two who are connected, each knows whether the other wants it, or is  *)
(* about to be told, whatever crossed the handshake: a connection is let   *)
(* go of by what is known of both.                                         *)
InterestIsKnown ==
  \A p \in Peers : \A q \in Others(p) :
    LET c == channel[p][q]
        said == {i \in DOMAIN c : c[i] \in {"wanted", "unwanted"}}
    IN  Ready(p, q) /\ Ready(q, p) /\ Same(p, q) =>
          Wanted(p, q) = IF said = {} THEN Conn(q, p).theyWant ELSE c[Max(said)] = "wanted"

(* Observers were told of every connection that became ready, and of every *)
(* one that ended, whichever way: messages, calls and spaces keep what     *)
(* they take to be connected by it.                                        *)
ObserversKnow == \A p \in Peers : told[p] = {q \in Peers : Ready(p, q)}

(* Both are known, of each connection: whether the other wants it, and, to *)
(* the observers, whether it is there.                                     *)
ConnectionsAreKnown == InterestIsKnown /\ ObserversKnow

(* Whoever is online is found by the service, although an earlier          *)
(* connection of theirs may be forgotten only after the new one is         *)
(* registered.                                                             *)
WhoIsOnlineIsFound ==
  \A p \in Peers : link[p] # NoEnd /\ ~Ended(p) => found[p] = link[p]

(* ADR 0024: "one who comes back is reached within a notification's delay".*)
(* Whoever waits for somebody who is there is about to be told so.         *)
WaitsForWhoIsAway ==
  \A p, q \in Peers :
    LET e == link[p]  f == found[q]
    IN  /\ peer[p][q].parked /\ Wanted(p, q)
        /\ e # NoEnd /\ ~Ended(p) /\ e \notin slow /\ q \in subscribed[e]
        /\ f # NoEnd /\ link[q] = f /\ ~Ended(q) /\ q \in announced[f]
        => \/ \E i \in DOMAIN work[p] : work[p][i] = q
           \/ \E i \in DOMAIN queue[e] : queue[e][i] = Reachable(q)

(* ADR 0024: two who want one another are connected in the end, whoever    *)
(* offered first, and whatever was lost, parked or taken down before.      *)
BothWantMeet ==
  \A p, q \in Peers : p < q =>
    (<>[](Wanted(p, q) /\ Wanted(q, p)) => <>[](Ready(p, q) /\ Ready(q, p)))

(* ADR 0024: nobody holds a connection that neither uses.                  *)
LetsGo ==
  \A p, q \in Peers : p < q =>
    (<>[](~Wanted(p, q) /\ ~Wanted(q, p)) => <>[](Conn(p, q) = NoConn /\ Conn(q, p) = NoConn))
=============================================================================
