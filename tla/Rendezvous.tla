----------------------------- MODULE Rendezvous -----------------------------
(***************************************************************************)
(* The rendezvous service: internal/rendezvous/service/service.go, and the *)
(* end a peer has of a connection to it, internal/rendezvous/rendezvous.go *)
(* and Link of internal/peers/link.go.                                     *)
(*                                                                         *)
(* A goroutine reads each connection, and carries out one message at a     *)
(* time under the service's mutex, but for a signal: whom it is for is     *)
(* looked up under the mutex, and it is handed on after.                   *)
(*                                                                         *)
(* A peer has one identifier here, by its own name, for what contacts and  *)
(* spaces each derive every day.  Proving who a peer is, limits and blocks *)
(* are left out.  A connection's queue stands for the Manager's work of    *)
(* that connection too, which comes from it in order.                      *)
(***************************************************************************)
EXTENDS Naturals, SequencesExt

CONSTANTS
  Peers,     \* their keys, numbers here, as keys are compared
  MaxEnds    \* bound: connections of a peer to the service, served names are used
             \* again once they are forgotten

ASSUME RendezvousAssumption ==
  /\ IsFiniteSet(Peers) /\ Peers \subseteq Nat \ {0} /\ MaxEnds \in Nat

None == 0
Ends == Peers \X (1..MaxEnds)
NoEnd == <<None, None>>
Whose(e) == e[1]

VARIABLES
  link,        \* link[p]: the connection p uses, or NoEnd while it is offline
  served,      \* the connections served goroutine reads them
  found,       \* found[p]: the connection the service finds p at, or NoEnd
  announced,   \* announced[e]: the identifiers announced on e
  subscribed,  \* subscribed[e]: the identifiers subscribed to on e
  sent,        \* sent[e]: what the peer sent that the service has not read
  queue,       \* queue[e]: what is queued for the peer
  relaying,    \* relaying[e]: the signal read from e, and for which connection
  slow, done   \* connections to be ended, and those the service ended

service == <<served, found, announced, subscribed, queue, relaying, slow, done>>
rendezvous == <<link, sent, service>>

-----------------------------------------------------------------------------
(* What a peer and the service say.                                        *)
Signal(q, s, what) == [kind |-> "signal", peer |-> q, session |-> s, what |-> what]
Announce(ids)    == [kind |-> "announce", ids |-> ids]
Subscribe(ids)   == [kind |-> "subscribe", ids |-> ids]
Unsubscribe(ids) == [kind |-> "unsubscribe", ids |-> ids]
Unreachable(q)   == [kind |-> "unreachable", peer |-> q]
Reachable(q)     == [kind |-> "reachable", peer |-> q]

NotRelaying == [to |-> NoEnd, signal |-> Signal(None, None, "nothing")]
Relaying(e) == relaying[e] # NotRelaying

InitRendezvous ==
  /\ link = [p \in Peers |-> NoEnd] /\ found = link /\ served = {}
  /\ announced = [e \in Ends |-> {}] /\ subscribed = announced
  /\ sent = [e \in Ends |-> <<>>] /\ queue = sent
  /\ relaying = [e \in Ends |-> NotRelaying]
  /\ slow = {} /\ done = {}

(* A name of p's that nothing refers to any more.                          *)
Unused(p) ==
  {n \in 1..MaxEnds : /\ <<p, n>> \notin served /\ link[p] # <<p, n>>
                      /\ \A f \in Ends : relaying[f].to # <<p, n>>}

-----------------------------------------------------------------------------
(* The peer's end.  Dial registers it as it is welcomed, replacing its     *)
(* earlier connection, if the service still has that; says is what the     *)
(* Manager says first.                                                     *)
Dials(p, says) ==
  /\ link[p] = NoEnd /\ Unused(p) # {}   \* for the bound
  /\ LET e == <<p, Min(Unused(p))>> IN
     /\ link' = [link EXCEPT ![p] = e] /\ served' = served \cup {e}
     /\ found' = [found EXCEPT ![p] = e]
     /\ done' = done \cup ({found[p]} \ {NoEnd})
     /\ sent' = [sent EXCEPT ![e] = says]
  /\ UNCHANGED <<announced, subscribed, queue, relaying, slow>>

Served(p) == link[p] \in served

(* What p says while it is online, which is lost once it is forgotten.     *)
Says(p, ms) == sent' = IF Served(p) THEN [sent EXCEPT ![link[p]] = @ \o ms] ELSE sent

(* Next fails: the service ended the connection, or the network did.       *)
Ended(p) == link[p] # NoEnd /\ (~Served(p) \/ link[p] \in done)
Hangs(p) == link[p] # NoEnd /\ link' = [link EXCEPT ![p] = NoEnd]

-----------------------------------------------------------------------------
Open(e) == e \in served \ done

Queues(ms) ==   \* ms[e]: what is queued for e
  queue' = [e \in Ends |-> IF Open(e) THEN queue[e] \o ms[e] ELSE queue[e]]

(* send, when the queue is full, which it may be found to be at any time:  *)
(* the last message is lost, and the connection is to be ended.            *)
Overflow(e) ==
  /\ Open(e) /\ e \notin slow /\ queue[e] # <<>>
  /\ queue' = [queue EXCEPT ![e] = Front(@)] /\ slow' = slow \cup {e}
  /\ UNCHANGED <<link, sent, served, found, announced, subscribed, relaying, done>>

Only(e, m) == [f \in Ends |-> IF f = e THEN <<m>> ELSE <<>>]
Notices(ids) == LET seq == SetToSeq(ids) IN [i \in DOMAIN seq |-> Reachable(seq[i])]

(* What the service does of what it reads from e.  Identifiers announced,  *)
(* or subscribed to, before are not told of again.                         *)
Announcing(e, ids) ==
  LET added == ids \ announced[e]
      told(f) == IF f = e THEN {} ELSE added \cap subscribed[f]
  IN  /\ announced' = [announced EXCEPT ![e] = @ \cup ids]
      /\ Queues([f \in Ends |-> Notices(told(f))])
      /\ UNCHANGED <<subscribed, relaying>>

Subscribing(e, ids) ==
  LET added == ids \ subscribed[e]
      there == {i \in added : \E f \in Ends \ {e} : i \in announced[f]}
  IN  /\ subscribed' = [subscribed EXCEPT ![e] = @ \cup ids]
      /\ Queues([f \in Ends |-> IF f = e THEN Notices(there) ELSE <<>>])
      /\ UNCHANGED <<announced, relaying>>

Unsubscribing(e, ids) ==
  /\ subscribed' = [subscribed EXCEPT ![e] = @ \ ids]
  /\ UNCHANGED <<announced, relaying, queue>>

LooksUp(e, signal) ==
  /\ relaying' = [relaying EXCEPT ![e] = [to |-> found[signal.peer], signal |-> signal]]
  /\ UNCHANGED <<announced, subscribed, queue>>

Read(e) ==
  /\ Open(e) /\ ~Relaying(e) /\ sent[e] # <<>>
  /\ sent' = [sent EXCEPT ![e] = Tail(@)]
  /\ LET m == Head(sent[e]) IN
     \/ m.kind = "announce" /\ Announcing(e, m.ids)
     \/ m.kind = "subscribe" /\ Subscribing(e, m.ids)
     \/ m.kind = "unsubscribe" /\ Unsubscribing(e, m.ids)
     \/ m.kind = "signal" /\ LooksUp(e, m)
  /\ UNCHANGED <<link, served, found, slow, done>>

(* The other half of relay, after the mutex: the connection looked up may  *)
(* be gone by now, and whoever was not found may be there.                 *)
Relay(e) ==
  /\ Relaying(e) /\ relaying' = [relaying EXCEPT ![e] = NotRelaying]
  /\ LET to == relaying[e].to  signal == relaying[e].signal
     IN  Queues(IF to \in {NoEnd, e} THEN Only(e, Unreachable(signal.peer))
                ELSE Only(to, Signal(Whose(e), signal.session, signal.what)))
  /\ UNCHANGED <<link, sent, served, found, announced, subscribed, slow, done>>

EndSlow(e) ==
  /\ e \in slow \ done /\ done' = done \cup {e}
  /\ UNCHANGED <<link, sent, served, found, announced, subscribed, queue, relaying, slow>>

(* forget: the goroutine that read e returns, as either side ended it; the *)
(* peer may be found at another connection by then.                        *)
ForgetFoundAnyway(e) == [found EXCEPT ![Whose(e)] = NoEnd]   \* a mistake: wherever

ForgetFound(e) == [p \in Peers |-> IF found[p] = e THEN NoEnd ELSE found[p]]

Forget(e) ==
  /\ e \in served /\ ~Relaying(e) /\ (e \in done \/ link[Whose(e)] # e)
  /\ found' = ForgetFound(e) /\ served' = served \ {e}
  /\ announced' = [announced EXCEPT ![e] = {}] /\ subscribed' = [subscribed EXCEPT ![e] = {}]
  /\ sent' = [sent EXCEPT ![e] = <<>>] /\ queue' = [queue EXCEPT ![e] = <<>>]
  /\ slow' = slow \ {e} /\ done' = done \ {e} /\ UNCHANGED <<link, relaying>>

Serves(e) == Read(e) \/ Relay(e) \/ EndSlow(e) \/ Forget(e)
=============================================================================
