------------------------------- MODULE Calls -------------------------------
(***************************************************************************)
(* Calls between contacts: internal/calls/calls.go, with the seat in a     *)
(* voice channel that internal/app/bridge_voice.go takes only outside a    *)
(* call.  Each person is in one call at most; its steps travel over the    *)
(* connection of the two, in order, and what is on its way when it ends is *)
(* lost.                                                                   *)
(*                                                                         *)
(* A handler is one action, under the mutex of calls.go.  How goroutines   *)
(* come to wait for one another under it is CallGoroutines' matter; that   *)
(* they may, and that nothing then moves on this device any more, is here  *)
(* (stuck).  Each side proves the connection, and notices its end, in a    *)
(* moment of its own.  Cameras and clocks are left out: a call may expire  *)
(* whenever it rings.                                                      *)
(***************************************************************************)
EXTENDS Naturals, Sequences

CONSTANTS
  People,      \* contacts of one another
  Streams,     \* screens they may share
  Joiners,     \* bound: those who may join a voice channel
  MaxCalls,    \* bound: calls made
  MaxBreaks,   \* bound: connections that end
  MaxShares    \* bound: screens shared, or no longer

ASSUME CallsAssumption ==
  /\ Joiners \subseteq People
  /\ MaxCalls \in Nat /\ MaxBreaks \in Nat /\ MaxShares \in Nat

Ids == 1..MaxCalls
NoStream == "none"
NoCall == [id |-> 0]

VARIABLES
  made,      \* calls made, for their identifiers
  current,   \* the call each is in, or NoCall
  log,       \* how each call ended, for each
  ready,     \* ready[p]: those p takes to be connected
  shared,    \* what each shares in its call
  stuck,     \* those whose Manager and mutex wait for one another, for good
  seat,      \* "out" of a voice channel, "looking" before joining one, or "in" one
  up,        \* the connections there are
  wire,      \* wire[p][q]: what is on its way from p to q
  breaks,    \* connections that ended, for the bound
  shares     \* screens shared or no longer, for the bound

calls == <<made, current, log>>
link == <<ready, up, breaks>>
vars == <<calls, link, wire, shared, stuck, seat, shares>>

-----------------------------------------------------------------------------
Live(p) == current[p] # NoCall
In(p, states) == Live(p) /\ current[p].state \in states
Busy(p) == Live(p) \/ seat[p] = "in"
Free(p) == p \notin stuck
Stuck(p) == stuck' = stuck \cup {p}

Begins(p, id, q, incoming) ==
  current' = [current EXCEPT ![p] =
    [id |-> id, peer |-> q, incoming |-> incoming, state |-> "ringing", screen |-> NoStream]]

Ended(call, outcome) == [id |-> call.id, incoming |-> call.incoming, outcome |-> outcome]

Ends(p, outcome) ==
  /\ current' = [current EXCEPT ![p] = NoCall]
  /\ log' = [log EXCEPT ![p] = Append(@, Ended(current[p], outcome))]
  /\ shared' = [shared EXCEPT ![p] = NoStream]

Activates(p) == current' = [current EXCEPT ![p].state = "active"]

Step(step, id) == [step |-> step, id |-> id, stream |-> NoStream]

(* Send: over the proven connection, which may have ended unnoticed.       *)
Carried(p, q, m) ==
  IF q \in ready[p] /\ {p, q} \in up THEN [wire EXCEPT ![p][q] = Append(@, m)] ELSE wire

Steps(p, step) == wire' = Carried(p, current[p].peer, Step(step, current[p].id))

Init ==
  /\ made = 0
  /\ current = [p \in People |-> NoCall] /\ log = [p \in People |-> <<>>]
  /\ ready = [p \in People |-> {}] /\ up = {}
  /\ shared = [p \in People |-> NoStream] /\ stuck = {} /\ seat = [p \in People |-> "out"]
  /\ wire = [p \in People |-> [q \in People |-> <<>>]]
  /\ breaks = 0 /\ shares = 0

-----------------------------------------------------------------------------
(* What a person does.                                                     *)

(* Something the Manager of p is to tell the calls, for which it waits for *)
(* their mutex.                                                            *)
Coming(p) ==
  \E q \in People :
    \/ {p, q} \in up /\ q \notin ready[p]
    \/ q \in ready[p] /\ ({p, q} \notin up \/ wire[q][p] # <<>>)

Call(p, q) ==
  /\ Free(p) /\ p # q /\ made < MaxCalls /\ ~Busy(p)
  /\ made' = made + 1
  /\ Begins(p, made', q, FALSE)
  /\ \/ wire' = Carried(p, q, Step("ring", made')) /\ UNCHANGED stuck
     \/ q \in ready[p] /\ Coming(p) /\ Stuck(p) /\ UNCHANGED wire
  /\ UNCHANGED <<log, link, shared, seat, shares>>

Accept(p) ==
  /\ Free(p) /\ In(p, {"ringing"}) /\ current[p].incoming
  /\ Steps(p, "accept") /\ Activates(p)
  /\ UNCHANGED <<made, log, link, shared, stuck, seat, shares>>

(* Decline, which hanging up a call ringing here is, too.                  *)
Decline(p) ==
  /\ Free(p) /\ In(p, {"ringing"}) /\ current[p].incoming
  /\ Steps(p, "decline") /\ Ends(p, "declined")
  /\ UNCHANGED <<made, link, stuck, seat, shares>>

Hang(p) ==
  /\ Free(p) /\ Live(p) /\ ~(current[p].incoming /\ In(p, {"ringing"}))
  /\ Steps(p, "end") /\ Ends(p, "ended")
  /\ UNCHANGED <<made, link, stuck, seat, shares>>

Share(p, stream) ==
  /\ Free(p) /\ In(p, {"active"}) /\ stream # shared[p] /\ shares < MaxShares
  /\ wire' = Carried(p, current[p].peer, [step |-> "screen", id |-> current[p].id, stream |-> stream])
  /\ shared' = [shared EXCEPT ![p] = stream] /\ shares' = shares + 1
  /\ UNCHANGED <<calls, link, stuck, seat>>

(* Whatever sends a step, or asks for the seat, holds the mutex and waits  *)
(* for the Manager, which may wait for that mutex by then.                 *)
Stick(p) ==
  /\ Free(p) /\ Coming(p) /\ Stuck(p)
  /\ UNCHANGED <<calls, link, wire, shared, seat, shares>>

(* A voice channel is joined by whoever is in no call when they ask to.    *)
JoinVoice(p) ==
  /\ Free(p) /\ p \in Joiners /\ seat[p] = "out" /\ ~Live(p)
  /\ seat' = [seat EXCEPT ![p] = "looking"]
  /\ UNCHANGED <<calls, link, wire, shared, stuck, shares>>

Sit(p) ==
  /\ seat[p] = "looking" /\ seat' = [seat EXCEPT ![p] = "in"]
  /\ UNCHANGED <<calls, link, wire, shared, stuck, shares>>

LeaveVoice(p) ==
  /\ seat[p] = "in" /\ seat' = [seat EXCEPT ![p] = "out"]
  /\ UNCHANGED <<calls, link, wire, shared, stuck, shares>>

(* It rang for too long.                                                   *)
Expire(p) ==
  /\ Free(p) /\ In(p, {"ringing"})
  /\ IF current[p].incoming
     THEN Ends(p, "missed") /\ UNCHANGED wire
     ELSE Ends(p, "unanswered") /\ Steps(p, "end")
  /\ UNCHANGED <<made, link, stuck, seat, shares>>

-----------------------------------------------------------------------------
(* What the connection to q reports to p, on the Manager's goroutine: what *)
(* is sent from here waits for that goroutine itself.                      *)

HandleReady(p, q) ==
  /\ {p, q} \in up /\ q \notin ready[p]
  /\ ready' = [ready EXCEPT ![p] = @ \cup {q}]
  /\ IF In(p, {"ringing"}) /\ ~current[p].incoming /\ current[p].peer = q
     THEN Stuck(p) ELSE UNCHANGED stuck
  /\ UNCHANGED <<calls, up, breaks, wire, shared, seat, shares>>

HandleLostReady(p, q) ==   \* a mistake: the call goes on
  /\ q \in ready[p] /\ {p, q} \notin up
  /\ ready' = [ready EXCEPT ![p] = @ \ {q}]
  /\ UNCHANGED <<calls, up, breaks, wire, shared, stuck, seat, shares>>

HandleLost(p, q) ==
  /\ q \in ready[p] /\ {p, q} \notin up
  /\ ready' = [ready EXCEPT ![p] = @ \ {q}]
  /\ IF In(p, {"active"}) /\ current[p].peer = q
     THEN Ends(p, "lost")
     ELSE UNCHANGED <<current, log, shared>>
  /\ UNCHANGED <<made, up, breaks, wire, stuck, seat, shares>>

(* p takes m, the next of what q sent it.                                  *)
OursByPeer(p, q, m) == Live(p) /\ current[p].peer = q   \* a mistake: whichever call it is

Ours(p, q, m) == Live(p) /\ current[p].id = m.id /\ current[p].peer = q

Takes(p, q, m) == q \in ready[p] /\ wire[q][p] # <<>> /\ m = Head(wire[q][p])
Taken(p, q) == wire' = [wire EXCEPT ![q][p] = Tail(@)]

(* Somebody busy would answer so.                                          *)
HandleRing(p, q, m) ==
  /\ m.step = "ring" /\ Taken(p, q)
  /\ \/ Ours(p, q, m) /\ UNCHANGED <<current, stuck>>
     \/ ~Ours(p, q, m) /\ Busy(p) /\ Stuck(p) /\ UNCHANGED current
     \/ ~Busy(p) /\ Begins(p, m.id, q, TRUE) /\ UNCHANGED stuck
  /\ UNCHANGED <<log, shared>>

HandleAccept(p, q, m) ==
  /\ m.step = "accept" /\ Taken(p, q)
  /\ IF Ours(p, q, m) /\ ~current[p].incoming /\ In(p, {"ringing"})
     THEN Activates(p) ELSE UNCHANGED current
  /\ UNCHANGED <<log, shared, stuck>>

(* Only the person called declines, or is busy; either ends.               *)
HandleEnd(p, q, m) ==
  /\ m.step \in {"decline", "busy", "end"} /\ Taken(p, q)
  /\ IF Ours(p, q, m) /\ (m.step = "end" \/ ~current[p].incoming)
     THEN Ends(p, IF current[p].incoming /\ In(p, {"ringing"}) THEN "missed"
                  ELSE CASE m.step = "decline" -> "declined" [] m.step = "busy" -> "busy" [] OTHER -> "ended")
     ELSE UNCHANGED <<current, log, shared>>
  /\ UNCHANGED stuck

ShownByPeer(p, q, m) ==   \* a mistake: whichever call with q it is, begun or not
  /\ m.step = "screen" /\ Taken(p, q)
  /\ current' = IF Live(p) /\ current[p].peer = q
                THEN [current EXCEPT ![p].screen = m.stream] ELSE current
  /\ UNCHANGED <<log, shared, stuck>>

Shown(p, q, m) ==
  /\ m.step = "screen" /\ Taken(p, q)
  /\ current' = IF Ours(p, q, m) /\ In(p, {"active"})
                THEN [current EXCEPT ![p].screen = m.stream] ELSE current
  /\ UNCHANGED <<log, shared, stuck>>

Message(p, q) ==
  /\ wire[q][p] # <<>>
  /\ LET m == Head(wire[q][p])
     IN  /\ Takes(p, q, m)
         /\ HandleRing(p, q, m) \/ HandleAccept(p, q, m) \/ HandleEnd(p, q, m) \/ Shown(p, q, m)
  /\ UNCHANGED <<made, link, seat, shares>>

-----------------------------------------------------------------------------
(* The connections, which end at any moment and are made anew once both    *)
(* noticed.                                                                *)

Pairs == {{p, q} : p, q \in People} \ {{p} : p \in People}

Connect(pair) ==
  /\ pair \in Pairs \ up /\ \A p \in pair : Free(p) /\ ready[p] \cap pair = {}
  /\ up' = up \cup {pair}
  /\ UNCHANGED <<calls, ready, breaks, wire, shared, stuck, seat, shares>>

Disconnect(pair) ==
  /\ pair \in up /\ breaks < MaxBreaks
  /\ up' = up \ {pair} /\ breaks' = breaks + 1
  /\ wire' = [p \in People |-> [q \in People |-> IF {p, q} = pair THEN <<>> ELSE wire[p][q]]]
  /\ UNCHANGED <<calls, ready, shared, stuck, seat, shares>>

Person(p) ==
  \/ \E q \in People : Call(p, q)
  \/ Accept(p) \/ Decline(p) \/ Hang(p)
  \/ \E stream \in Streams \cup {NoStream} : Share(p, stream)
  \/ JoinVoice(p) \/ LeaveVoice(p)

Reports(p, q) == Free(p) /\ (HandleReady(p, q) \/ HandleLost(p, q) \/ Message(p, q))

Next ==
  \/ \E p \in People : Person(p) \/ Sit(p) \/ Stick(p) \/ Expire(p) \/ \E q \in People : Reports(p, q)
  \/ \E pair \in Pairs : Connect(pair) \/ Disconnect(pair)

Spec == Init /\ [][Next]_vars

(* Nobody need answer, hang up or call.  Where nothing is stuck, what      *)
(* rings stops in time, what the connections report is handled, and whom a *)
(* call wants is reached.                                                  *)
Wanted(pair) == \E p \in pair : Live(p) /\ current[p].peer \in pair

FairSpec ==
  /\ Spec
  /\ \A p \in People : WF_vars(Expire(p)) /\ \A q \in People \ {p} : WF_vars(Reports(p, q))
  /\ \A pair \in Pairs : WF_vars(Connect(pair) /\ Wanted(pair))

-----------------------------------------------------------------------------
Outcomes == {"ended", "unanswered", "declined", "busy", "missed", "lost"}
Shares == Streams \cup {NoStream}

InCalls == [id : Ids, peer : People, incoming : BOOLEAN, state : {"ringing", "active"}, screen : Shares]
Entries == [id : Ids, incoming : BOOLEAN, outcome : Outcomes]
Messages == [step : {"ring", "accept", "decline", "busy", "end", "screen"}, id : Ids, stream : Shares]

TypeOK ==
  /\ made \in 0..MaxCalls
  /\ current \in [People -> {NoCall} \cup InCalls] /\ log \in [People -> Seq(Entries)]
  /\ ready \in [People -> SUBSET People] /\ up \subseteq Pairs
  /\ shared \in [People -> Shares] /\ stuck \subseteq People /\ seat \in [People -> {"out", "looking", "in"}]
  /\ wire \in [People -> [People -> Seq(Messages)]]
  /\ breaks \in 0..MaxBreaks /\ shares \in 0..MaxShares

Logged(p, id, incoming, outcomes) ==
  \E i \in DOMAIN log[p] :
    log[p][i].id = id /\ log[p][i].incoming = incoming /\ log[p][i].outcome \in outcomes
Calling(p) == Live(p) /\ ~current[p].incoming
InCall(p, id) == Live(p) /\ current[p].id = id

(* What a caller sees of the person called is true: a call taken for       *)
(* answered was, and one taken for declined was, whatever crossed, was     *)
(* lost, or belonged to an earlier call.                                   *)
CallersAreToldTheTruth ==
  \A p \in People :
    /\ Calling(p) /\ In(p, {"active"}) =>
         LET q == current[p].peer
         IN  \/ InCall(q, current[p].id) /\ In(q, {"active"})
             \/ Logged(q, current[p].id, TRUE, {"ended", "lost"})
    /\ \A id \in Ids : Logged(p, id, FALSE, {"declined"}) => \E q \in People : Logged(q, id, TRUE, {"declined"})

(* Both in a call, with nothing on its way, see each the screen the other  *)
(* shares.                                                                 *)
BothSeeWhatIsShared ==
  \A p, q \in People :
    /\ In(p, {"active"}) /\ InCall(q, current[p].id) /\ In(q, {"active"}) /\ p # q
    /\ {p, q} \in up /\ q \in ready[p] /\ p \in ready[q] /\ wire[p][q] = <<>> /\ wire[q][p] = <<>>
    => current[q].screen = shared[p]

(* A caller is not left in a call that ended for the person called, nor    *)
(* does anybody's ring for ever, but on a device whose calls are stuck:    *)
(* nobody else's suffer from that.  One call is over before the next.      *)
CallersAreNotLeft ==
  \A p \in People :
    /\ Calling(p) /\ In(p, {"active"}) /\ ~InCall(current[p].peer, current[p].id) ~> ~Live(p) \/ ~Free(p)
    /\ []<>(~In(p, {"ringing"}) \/ ~Free(p))

(* calls.go, Lost: "a call in progress with it ends", so nobody stays in a *)
(* call the other is no longer in, on a device not stuck.                  *)
NobodyIsLeft ==
  \A p \in People, id \in Ids :
    InCall(p, id) /\ In(p, {"active"}) /\ ~InCall(current[p].peer, id) ~> ~InCall(p, id) \/ ~Free(p)

(* calls.go, Ready: "a call to it rings now", and whoever called goes on.  *)
CallersAreNotStuck == [][\A p, q \in People : Reports(p, q) /\ Calling(p) => stuck' = stuck]_vars

(* ADR 0047: people in a voice channel are "in no call with one person     *)
(* meanwhile".                                                             *)
NoCallMeanwhile == \A p \in People : ~(seat[p] = "in" /\ Live(p))
=============================================================================
