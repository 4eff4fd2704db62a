--------------------------- MODULE DirectMessages ---------------------------
(***************************************************************************)
(* The conversation of two contacts: internal/messages, store.go's outbox  *)
(* and service.go's delivery.  Each writes entries, numbered from 1 and    *)
(* kept in an outbox until the other is known to hold them; each tells the *)
(* other, whenever they connect, how far it holds theirs.                  *)
(*                                                                         *)
(* A service does its work on one goroutine, from a queue; the interface   *)
(* writes on another, straight into the store.  The connection carries     *)
(* messages in order and loses what is on its way when it ends; it is kept *)
(* while somebody wants it, which an entry waiting is a reason for.  What  *)
(* an entry says, and files, whose pieces travel apart, are left out.      *)
(***************************************************************************)
EXTENDS Naturals, Sequences, FiniteSets

CONSTANTS
  ann, bob,     \* the two contacts
  Writers,      \* bound: those of them who write
  MaxWritten,   \* bound: entries each writes
  MaxTroubles   \* bound: connections that end, and times entries unacknowledged
                \* are sent again

ASSUME DirectAssumption ==
  /\ ann # bob /\ Writers \subseteq {ann, bob}
  /\ MaxWritten \in Nat /\ MaxTroubles \in Nat

People == {ann, bob}
Other(p) == IF p = ann THEN bob ELSE ann
Entries == 1..MaxWritten

VARIABLES
  written,   \* how many entries each wrote
  outbox,    \* the entries of each in its outbox
  sent,      \* those of them recorded as sent
  held,      \* held[p]: the entries of the other p stored
  calling,   \* the entries stored whose sending the interface has not asked for yet
  want,      \* whether the outbox is a reason for each to be connected
  letting,   \* whether each, having found nothing waiting, is about to let go
  work,      \* the queue of each service
  wire,      \* wire[p]: what is on its way to p
  up,        \* whether they are connected
  troubles   \* connections that ended and times entries were sent again, for the bound

store == <<written, outbox, sent, held>>
vars == <<store, calling, want, letting, work, wire, up, troubles>>

-----------------------------------------------------------------------------
(* Messages, and the work they and others cause.                           *)

Direct(n) == [type |-> "direct", n |-> n]
Ack(n) == [type |-> "ack", n |-> n]
Holding(n) == [type |-> "holding", n |-> n]
Transmit(n) == [type |-> "transmit", n |-> n]
Ready == [type |-> "ready", n |-> 0]
Wake == [type |-> "wake", n |-> 0]

Messages == [type : {"direct", "ack"}, n : Entries] \cup [type : {"holding"}, n : 0..MaxWritten]
Tasks == Messages \cup [type : {"transmit"}, n : Entries] \cup {Ready, Wake}

Delivered(p) == (1..written[p]) \ outbox[p]

(* Holding: q holds every entry of p up to n, and not the next.            *)
HoldsUpTo(p, n) == 1..n \subseteq held[p] /\ n + 1 \notin held[p]

(* The entries of p after n, in order.                                     *)
AfterTheNext(p, n) == [i \in 1..(written[p] - n - 1) |-> Direct(n + 1 + i)]  \* a mistake: one too far
After(p, n) == [i \in 1..(written[p] - n) |-> Direct(n + i)]

Send(p, messages) ==
  wire' = IF up THEN [wire EXCEPT ![Other(p)] = @ \o messages] ELSE wire

(* What the outbox holds, and of it what is due: entries never sent, and   *)
(* those sent long enough ago.                                             *)
Waiting == {p \in People : outbox[p] # {}}
HasWaiting(entries) == entries # {}
Unacknowledged(p) == {late \in SUBSET outbox[p] : outbox[p] \ sent[p] \subseteq late}

(* Transmitted: what goes out over a connection is recorded as sent, if it *)
(* still waits.                                                            *)
Sends(p, entries, waiting) ==
  sent' = [sent EXCEPT ![p] = (IF up THEN @ \cup entries ELSE @) \cap waiting]

Troubles == troubles < MaxTroubles /\ troubles' = troubles + 1

-----------------------------------------------------------------------------
Init ==
  /\ written = [p \in People |-> 0]
  /\ outbox = [p \in People |-> {}] /\ sent = [p \in People |-> {}]
  /\ held = [p \in People |-> {}] /\ calling = [p \in People |-> {}]
  /\ want = [p \in People |-> FALSE] /\ letting = [p \in People |-> FALSE]
  /\ work = [p \in People |-> <<Wake>>] /\ wire = [p \in People |-> <<>>]
  /\ up = FALSE /\ troubles = 0

(* The interface stores an entry, in the outbox.                           *)
Write(p) ==
  /\ p \in Writers /\ written[p] < MaxWritten
  /\ written' = [written EXCEPT ![p] = @ + 1]
  /\ outbox' = [outbox EXCEPT ![p] = @ \cup {written'[p]}]
  /\ calling' = [calling EXCEPT ![p] = @ \cup {written'[p]}]
  /\ UNCHANGED <<sent, held, want, letting, work, wire, up, troubles>>

(* And then wants the connection, and asks for the entry to be sent.       *)
Submit(p) ==
  /\ \E n \in calling[p] :
       /\ calling' = [calling EXCEPT ![p] = @ \ {n}]
       /\ work' = [work EXCEPT ![p] = Append(@, Transmit(n))]
  /\ want' = [want EXCEPT ![p] = TRUE]
  /\ UNCHANGED <<store, letting, wire, up, troubles>>

(* The service takes the next of its work, unless it is about to let go.   *)
Next1(p, type) == ~letting[p] /\ work[p] # <<>> /\ Head(work[p]).type = type
Done(p) == work' = [work EXCEPT ![p] = Tail(@)]

(* Run: entries waiting since before are wanted to be delivered.           *)
HandleWake(p) ==
  /\ Next1(p, "wake") /\ Done(p)
  /\ want' = [want EXCEPT ![p] = @ \/ p \in Waiting]
  /\ UNCHANGED <<store, calling, letting, wire, up, troubles>>

HandleTransmit(p) ==
  /\ Next1(p, "transmit") /\ Done(p)
  /\ Send(p, <<Direct(Head(work[p]).n)>>)
  /\ Sends(p, {Head(work[p]).n}, outbox[p])
  /\ UNCHANGED <<written, outbox, held, calling, want, letting, up, troubles>>

HandleReady(p) ==
  /\ Next1(p, "ready") /\ Done(p)
  /\ \E n \in 0..MaxWritten : HoldsUpTo(p, n) /\ Send(p, <<Holding(n)>>)
  /\ UNCHANGED <<store, calling, want, letting, up, troubles>>

(* An entry is stored before it is acknowledged, and once, however often   *)
(* it comes; one already held is acknowledged again.                       *)
HandleDirect(p) ==
  /\ Next1(p, "direct") /\ Done(p)
  /\ held' = [held EXCEPT ![p] = @ \cup {Head(work[p]).n}]
  /\ Send(p, <<Ack(Head(work[p]).n)>>)
  /\ UNCHANGED <<written, outbox, sent, calling, want, letting, up, troubles>>

(* settled: the outbox is looked at, and then the connection let go.       *)
DeliversEverything(p, entries) ==   \* a mistake: whichever entries were sent
  /\ outbox' = [outbox EXCEPT ![p] = @ \ sent[p]]
  /\ letting' = [letting EXCEPT ![p] = ~HasWaiting(outbox'[p])]

DeliversAlone(p, entries) ==   \* a mistake: the connection is not let go
  outbox' = [outbox EXCEPT ![p] = @ \ entries] /\ UNCHANGED letting

Delivers(p, entries) ==
  /\ outbox' = [outbox EXCEPT ![p] = @ \ entries]
  /\ letting' = [letting EXCEPT ![p] = ~HasWaiting(outbox'[p])]

HandleAck(p) ==
  /\ Next1(p, "ack") /\ Done(p)
  /\ Delivers(p, {Head(work[p]).n})
  /\ sent' = [sent EXCEPT ![p] = @ \cap outbox'[p]]
  /\ UNCHANGED <<written, held, calling, want, wire, up, troubles>>

(* What the other holds is delivered, and what it is missing is sent.      *)
HandleHolding(p) ==
  /\ Next1(p, "holding") /\ Done(p)
  /\ LET n == Head(work[p]).n
     IN  /\ Delivers(p, 1..n)
         /\ Send(p, After(p, n))
         /\ Sends(p, (n + 1)..written[p], outbox'[p])
  /\ UNCHANGED <<written, held, calling, want, up, troubles>>

LetGo(p) ==
  /\ letting[p]
  /\ letting' = [letting EXCEPT ![p] = FALSE]
  /\ want' = [want EXCEPT ![p] = FALSE]
  /\ UNCHANGED <<store, calling, work, wire, up, troubles>>

(* again: whatever is due is sent, in order.                               *)
Again(p) ==
  /\ ~letting[p] /\ p \in Waiting /\ Troubles
  /\ \E late \in Unacknowledged(p) :
       /\ \E messages \in [1..Cardinality(late) -> {Direct(n) : n \in late}] :
            /\ \A i, j \in DOMAIN messages : i < j => messages[i].n < messages[j].n
            /\ Send(p, messages)
       /\ Sends(p, late, outbox[p])
  /\ UNCHANGED <<written, outbox, held, calling, want, letting, work, up>>

Work(p) ==
  HandleWake(p) \/ HandleTransmit(p) \/ HandleReady(p) \/ HandleDirect(p)
    \/ HandleAck(p) \/ HandleHolding(p) \/ LetGo(p)

Arrive(p) ==
  /\ wire[p] # <<>>
  /\ wire' = [wire EXCEPT ![p] = Tail(@)]
  /\ work' = [work EXCEPT ![p] = Append(@, Head(wire[p]))]
  /\ UNCHANGED <<store, calling, want, letting, up, troubles>>

-----------------------------------------------------------------------------
Connect ==
  /\ ~up /\ up' = TRUE
  /\ work' = [p \in People |-> Append(work[p], Ready)]
  /\ UNCHANGED <<store, calling, want, letting, wire, troubles>>

Ends == up' = FALSE /\ wire' = [p \in People |-> <<>>] /\ Troubles

Disconnect ==
  /\ up /\ Ends
  /\ UNCHANGED <<store, calling, want, letting, work>>

(* The application stops at any moment, and starts again with its store.   *)
Restart(p) ==
  /\ Ends
  /\ calling' = [calling EXCEPT ![p] = {}]
  /\ want' = [want EXCEPT ![p] = FALSE]
  /\ letting' = [letting EXCEPT ![p] = FALSE]
  /\ work' = [work EXCEPT ![p] = <<Wake>>]
  /\ UNCHANGED store

Next ==
  \/ \E p \in People : Write(p) \/ Submit(p) \/ Work(p) \/ Again(p) \/ Arrive(p) \/ Restart(p)
  \/ Connect \/ Disconnect

Spec == Init /\ [][Next]_vars

(* Services get through their work and the interface through a call, and   *)
(* messages arrive, unless the connection ends or the application stops.   *)
Progress ==
  \A p \in People : WF_vars(Submit(p)) /\ WF_vars(Work(p)) /\ WF_vars(Arrive(p))

(* They meet: whenever they are apart they connect again, as while their   *)
(* conversation is on screen, whether or not anything waits.               *)
MeetingSpec == Spec /\ Progress /\ WF_vars(Connect)

(* They connect only when an entry waiting is somebody's reason to.        *)
WantedSpec == Spec /\ Progress /\ WF_vars(Connect /\ \E p \in People : want[p])

-----------------------------------------------------------------------------
TypeOK ==
  /\ written \in [People -> 0..MaxWritten]
  /\ outbox \in [People -> SUBSET Entries] /\ sent \in [People -> SUBSET Entries]
  /\ held \in [People -> SUBSET Entries] /\ calling \in [People -> SUBSET Entries]
  /\ want \in [People -> BOOLEAN] /\ letting \in [People -> BOOLEAN]
  /\ work \in [People -> Seq(Tasks)] /\ wire \in [People -> Seq(Messages)]
  /\ up \in BOOLEAN /\ troubles \in Nat

(* A message is shown as delivered only once the other side stored it,     *)
(* whatever was lost, sent twice or answered late (store.go's              *)
(* Acknowledged and HeldUpTo; ADR 0011).                                   *)
DeliveredIsHeld == \A p \in People : Delivered(p) \subseteq held[Other(p)]

(* What a conversation promises, of which this is one way to keep it.      *)
Promised == INSTANCE DirectDelivery WITH
  stored <- [p \in People |-> held[Other(p)]], delivered <- [p \in People |-> Delivered(p)]

KeepsItsPromise == Promised!Spec

(* Every message written reaches the other side and is shown so.           *)
EveryEntryIsDelivered ==
  \A p \in People : \A n \in Entries : written[p] >= n ~> n \in Delivered(p)

(* Once everything is delivered, the connection is let go of for good.     *)
LetsGo == <>[](\A p \in People : ~want[p])
=============================================================================
