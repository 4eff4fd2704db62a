-------------------------- MODULE SpaceReplication --------------------------
(***************************************************************************)
(* How the members of one space replicate its operations: each keeps the   *)
(* operations it knows, replays them in the one order every member         *)
(* computes, and exchanges them over connections that come and go.         *)
(* internal/spaces: order and Replay (state.go), Operate and Receive       *)
(* (store.go), Lacking (sync.go), invitations (invitation.go), and the     *)
(* service's Ready, Lost, synced, operation, applied, invited,             *)
(* AcceptInvitation and DeclineInvitation (service.go).                    *)
(*                                                                         *)
(* Each member's service does its work on one goroutine, in the order it   *)
(* came; what one peer causes comes in order, and what two peers cause is  *)
(* interleaved.  A connection carries messages in order and loses those    *)
(* not yet handled when it ends.  Content, secrets, presences and files    *)
(* travel on the same connections and touch none of this state.            *)
(***************************************************************************)
EXTENDS SpaceRules, SequencesExt

CONSTANT Situations
  (* Those that may be begun in, each with the state of the space after the *)
  (* operations everybody holds, who keeps the space, the changes members   *)
  (* may think of, the pairs who ever connect, and the bounds: how many     *)
  (* stamps there are, and so operations, and how many connections end.     *)

ASSUME ReplicationAssumption ==
  \A i \in Situations :
    /\ i.founded \in States
    /\ i.insiders \subseteq People
    /\ i.changes \subseteq Operations
    /\ \A l \in i.links : l \subseteq People /\ Cardinality(l) = 2
    /\ i.stamps \in Nat /\ i.breaks \in Nat

VARIABLES
  situation,   \* the one begun in
  inside,      \* who keeps the space: its genesis is in their store
  known,       \* the operations each keeps
  space,       \* the state each last replayed of them
  invitation,  \* the invitation each has not answered, as <<inviter, operations>>, if any
  ready,       \* ready[p]: those p's service takes to be connected
  joined,      \* joined[p]: those that said to p what they hold of the space
  pending,     \* pending[p][q]: what p will send q once it connects
  up,          \* the pairs connected
  inbox,       \* inbox[p][q]: what of q's waits in p's queue or on its way there
  breaks       \* how many connections ended, for the bound

vars == <<situation, inside, known, space, invitation, ready, joined, pending, up, inbox, breaks>>
durable == <<situation, inside, known, space, invitation>>

Founded == situation.founded
Links == situation.links

-----------------------------------------------------------------------------
(* An operation is a change with its stamp and its parents.  The stamp     *)
(* stands for its clock and its identifier together, which order any two   *)
(* operations; no parents stand for the genesis.                           *)

Stamps == 1..situation.stamps
StampsOf(ops) == {o.stamp : o \in ops}

(* order: of the operations whose parents all come before, the one of the  *)
(* lowest stamp is next.  Those that never come are the ones waiting.      *)
Ready(ops, done) == {o \in ops \ done : o.parents \subseteq StampsOf(done)}
Earliest(ops) == CHOOSE o \in ops : \A other \in ops : o.stamp <= other.stamp

Ordered(ops) ==
  LET onwards[done \in Seq(ops)] ==
        LET next == Ready(ops, ToSet(done))
        IN  IF next = {} THEN done ELSE onwards[Append(done, Earliest(next))]
  IN  onwards[<<>>]

History(ops) == ToSet(Ordered(ops))

(* The state a sequence of operations leaves.                              *)
Effect(change) == [s \in States |-> Apply(s, change)]

Applying(history) ==
  LET left[n \in 0..Len(history)] ==
        IF n = 0 THEN Founded ELSE Effect(history[n].change)[left[n - 1]]
  IN  left[Len(history)]

Replay(ops) == Applying(Ordered(ops))

(* The state p's store leaves, with a few more operations kept in it.      *)
State(p, more) == Replay(known[p] \cup more)

(* Outcome: refused by the state the operations before it left.            *)
Refused(history, i) == ~Allowed(Applying(SubSeq(history, 1, i - 1)), history[i].change)

(* Heads: the operations of the history no other of it names.              *)
Heads(ops) == StampsOf(History(ops)) \ UNION {o.parents : o \in History(ops)}

Belongs(p, q) == p \in inside /\ Rank(space[p], q) # None

(* Both belong, as p holds the space: mine and member of service.go.       *)
Shares(p, q) == Belongs(p, p) /\ Belongs(p, q)

(* The stamps nobody's operation has: what is held, waits or travels.      *)
Travelling ==
  UNION {UNION {UNION {m.ops : m \in ToSet(inbox[p][q]) \cup ToSet(pending[q][p])} : q \in People} : p \in People}
Invited == UNION {UNION {i[2] : i \in invitation[p]} : p \in People}
Made == (UNION {known[p] : p \in People}) \cup Travelling \cup Invited

(* NewOperation: after every operation its author knows applied, with a    *)
(* clock later than all of theirs.  A clock ahead leaves stamps unused.    *)
Makes(ops, change) ==
  {[change |-> change, stamp |-> t, parents |-> Heads(ops)] :
     t \in {x \in Stamps \ StampsOf(Made) : \A o \in History(ops) : o.stamp < x}}

(* Operate refuses what the state would: it replays with the operation and *)
(* looks at the last outcome, whichever operation that is of.              *)
LastRefused(ops) == Refused(Ordered(ops), Len(Ordered(ops)))
Operated(ops, change) == {o \in Makes(ops, change) : ~LastRefused(ops \cup {o})}

-----------------------------------------------------------------------------
(* Messages.                                                               *)

Plain(type) == [type |-> type, ops |-> {}]
Came == Plain("ready")
Went == Plain("lost")
Sync(ops) == [type |-> "space-sync", ops |-> ops]
Op(o) == [type |-> "space-operation", ops |-> {o}]
Invite(ops) == [type |-> "space-invitation", ops |-> ops]

Connected(p, q) == {p, q} \in up

(* Sent(p, out): the inboxes once p sent each q the messages out[q], which *)
(* are lost where there is no connection.                                  *)
Sent(box, p, out) ==
  [q \in People |-> [box[q] EXCEPT ![p] = IF Connected(p, q) THEN @ \o out[q] ELSE @]]

Nothing == [q \in People |-> <<>>]

(* What is taken from the queue to be handled.                             *)
Taken(p, q) == [inbox EXCEPT ![p][q] = Tail(@)]

(* applied: the operation is passed on to those that opened the space with *)
(* p, but the one it came from; one no longer a member hears only of their *)
(* own removal, and is forgotten.                                          *)
Removes(o, q) == o.change.kind = "remove-member" /\ o.change.member = q

ToldWhatCame(p, from, o, view) ==   \* a mistake: what is made here is not passed on
  [q \in People |-> IF from # {} /\ q \in joined[p] \ from THEN <<Op(o)>> ELSE <<>>]

ToldAll(p, from, o, view) ==   \* a mistake: to everybody connected
  [q \in People |-> IF q \in ready[p] \ from THEN <<Op(o)>> ELSE <<>>]

Told(p, from, o, view) ==
  [q \in People |->
     IF q \in joined[p] \ from /\ (Rank(view, q) # None \/ Removes(o, q)) THEN <<Op(o)>> ELSE <<>>]

StillJoined(p, from, view) == {q \in joined[p] : q \in from \/ Rank(view, q) # None}

PassedOn(p, from, o, view, box, more) ==
  LET told == Told(p, from, o, view)
  IN  /\ joined' = [joined EXCEPT ![p] = StillJoined(p, from, view)]
      /\ inbox' = Sent(box, p, [q \in People |-> told[q] \o more[q]])

(* keep and refresh: the operations p keeps now, and the state they leave. *)
Kept(p, ops, view) ==
  /\ known' = [known EXCEPT ![p] = ops]
  /\ space' = [space EXCEPT ![p] = view]

(* deliver: sent at once to those of some the service takes to be          *)
(* connected, and as soon as they connect to the others.                   *)
Delivered(p, some, m) == [q \in People |-> IF q \in some \cap ready[p] THEN <<m>> ELSE <<>>]
Deferred(p, some, m) ==
  pending' = [pending EXCEPT ![p] = [q \in People |-> IF q \in some \ ready[p] THEN Append(@[q], m) ELSE @[q]]]

(* invitationFrom: an invitation counts if it adds this person and its     *)
(* sender administers the space it shows.                                  *)
InvitationFrom(q, p, ops) == Rank(Replay(ops), p) # None /\ Rank(Replay(ops), q) >= Administrator

(* The later invitation to a space replaces the earlier; what is kept is   *)
(* checked again when it is read.                                          *)
KeepInvitation(p, q, ops) == invitation' = [invitation EXCEPT ![p] = {<<q, ops>>}]
Invitations(p) == {i \in invitation[p] : InvitationFrom(i[1], p, i[2])}

(* join: the space is kept, and the invitation to it is not.               *)
Joins(p) ==
  /\ inside' = inside \cup {p}
  /\ invitation' = [invitation EXCEPT ![p] = {}]

-----------------------------------------------------------------------------
Init ==
  /\ situation \in Situations
  /\ inside = situation.insiders
  /\ known = [p \in People |-> {}]
  /\ space = [p \in People |-> Founded]
  /\ invitation = [p \in People |-> {}]
  /\ ready = [p \in People |-> {}]
  /\ joined = [p \in People |-> {}]
  /\ pending = [p \in People |-> Nothing]
  /\ up = {}
  /\ inbox = [p \in People |-> Nothing]
  /\ breaks = 0

(* A member makes a change, and passes it on; whoever is added is sent the *)
(* invitation, at once or as soon as they connect.                         *)
Operate(p, change) ==
  /\ p \in inside /\ change.author = p
  /\ \E o \in Operated(known[p], change) : \E ops \in {known[p] \cup {o}} : \E view \in {State(p, {o})} :
       LET added == {q \in People : change.kind = "add-member" /\ change.member = q}
           invite == Invite(History(ops))
       IN  /\ Kept(p, ops, view)
           /\ PassedOn(p, {}, o, view, inbox, Delivered(p, added, invite))
           /\ Deferred(p, added, invite)
  /\ UNCHANGED <<situation, inside, invitation, ready, up, breaks>>

Foremost(p, q, type) == inbox[p][q] # <<>> /\ Head(inbox[p][q]).type = type

(* q connected: what waited for it is sent, and what p holds is said.      *)
HandleReady(p, q) ==
  /\ Foremost(p, q, "ready")
  /\ ready' = [ready EXCEPT ![p] = @ \cup {q}]
  /\ joined' = [joined EXCEPT ![p] = @ \ {q}]
  /\ pending' = [pending EXCEPT ![p][q] = <<>>]
  /\ LET sync == IF Shares(p, q) THEN <<Sync(known[p])>> ELSE <<>>
     IN  inbox' = Sent(Taken(p, q), p, [Nothing EXCEPT ![q] = pending[p][q] \o sync])
  /\ UNCHANGED <<durable, up, breaks>>

(* The connection with q ended; what q said of the space is not forgotten. *)
HandleLost(p, q) ==
  /\ Foremost(p, q, "lost")
  /\ ready' = [ready EXCEPT ![p] = @ \ {q}]
  /\ inbox' = Taken(p, q)
  /\ UNCHANGED <<durable, joined, pending, up, breaks>>

(* The operations of a history somebody lacks, in order.                   *)
Lacks(history, held) ==
  LET lacks[n \in 0..Len(history)] ==
        IF n = 0 THEN <<>>
        ELSE IF history[n] \in held THEN lacks[n - 1] ELSE Append(lacks[n - 1], history[n])
  IN  lacks[Len(history)]

(* The operations applied that q, a member, lacks; and the one that last   *)
(* removed q, if q is no member.                                           *)
Lacking(p, q, held) == IF Belongs(p, q) THEN Lacks(Ordered(known[p]), held) ELSE <<>>

Removals(p, q) ==
  LET h == Ordered(known[p])
  IN  {i \in DOMAIN h : Removes(h[i], q) /\ ~Refused(h, i)}

Removal(p, q) ==
  IF Belongs(p, q) \/ Removals(p, q) = {} THEN <<>> ELSE <<Ordered(known[p])[Max(Removals(p, q))]>>

(* q said what it holds: it is sent what it lacks, and joins those that    *)
(* hear of every operation from now on.                                    *)
HandleSync(p, q) ==
  /\ Foremost(p, q, "space-sync")
  /\ joined' = [joined EXCEPT ![p] = @ \cup {q}]
  /\ LET lacking == Lacking(p, q, Head(inbox[p][q]).ops) \o Removal(p, q)
         out == IF p \in inside THEN [i \in DOMAIN lacking |-> Op(lacking[i])] ELSE <<>>
     IN  inbox' = Sent(Taken(p, q), p, [Nothing EXCEPT ![q] = out])
  /\ UNCHANGED <<durable, ready, pending, up, breaks>>

NewsAnyway(p, o) == p \in inside   \* a mistake: held already or not

News(p, o) == p \in inside /\ o \notin known[p]

(* An operation passed on: kept if it was new, and passed on further.      *)
HandleOperation(p, q) ==
  /\ Foremost(p, q, "space-operation")
  /\ \E o \in Head(inbox[p][q]).ops :
       IF News(p, o)
       THEN \E view \in {State(p, {o})} :
              /\ Kept(p, known[p] \cup {o}, view)
              /\ PassedOn(p, {q}, o, view, Taken(p, q), Nothing)
       ELSE inbox' = Taken(p, q) /\ UNCHANGED <<known, space, joined>>
  /\ UNCHANGED <<situation, inside, invitation, ready, pending, up, breaks>>

(* An invitation to a space already kept is ignored.                       *)
HandleInvitation(p, q) ==
  /\ Foremost(p, q, "space-invitation")
  /\ LET ops == Head(inbox[p][q]).ops
     IN  IF InvitationFrom(q, p, ops) /\ p \notin inside
         THEN KeepInvitation(p, q, ops)
         ELSE UNCHANGED invitation
  /\ inbox' = Taken(p, q)
  /\ UNCHANGED <<situation, inside, known, space, ready, joined, pending, up, breaks>>

(* This person introduces themselves to the space they keep.               *)
Introduced(p, ops) == Operated(ops, [kind |-> "introduce", author |-> p])

(* The space is kept, this person introduces themselves, and opens it with *)
(* every member connected.                                                 *)
AcceptInvitation(p) ==
  \E i \in Invitations(p) :
    \E o \in Introduced(p, i[2]) : \E ops \in {i[2] \cup {o}} : \E view \in {Replay(ops)} :
      LET opens == {q \in ready[p] : Rank(view, p) # None /\ Rank(view, q) # None}
      IN  /\ Joins(p)
          /\ Kept(p, ops, view)
          /\ PassedOn(p, {}, o, view, inbox,
                      [q \in People |-> IF q \in opens THEN <<Sync(ops)>> ELSE <<>>])
          /\ UNCHANGED <<situation, ready, pending, up, breaks>>

(* The space is left without being kept, and the inviter is told.          *)
DeclineInvitation(p) ==
  \E i \in Invitations(p) :
    \E o \in Makes(i[2], [kind |-> "leave", author |-> p]) :
      /\ invitation' = [invitation EXCEPT ![p] = {}]
      /\ inbox' = Sent(inbox, p, Delivered(p, {i[1]}, Op(o)))
      /\ Deferred(p, {i[1]}, Op(o))
      /\ UNCHANGED <<situation, inside, known, space, ready, joined, up, breaks>>

(* Two people connect, which comes after what was queued of their last     *)
(* connection.                                                             *)
Connect(p, q) ==
  /\ {p, q} \in Links \ up
  /\ up' = up \cup {{p, q}}
  /\ inbox' = [inbox EXCEPT ![p][q] = Append(@, Came), ![q][p] = Append(@, Came)]
  /\ UNCHANGED <<durable, ready, joined, pending, breaks>>

(* A connection ends: what was on its way is lost, from some point on, but *)
(* not what was queued of earlier connections.                             *)
Began(box) == SelectLastInSeq(box, LAMBDA m : m = Came)
Cut(box) == {Append(SubSeq(box, 1, n), Went) : n \in Began(box)..Len(box)}

Disconnect(p, q) ==
  /\ Connected(p, q) /\ breaks < situation.breaks
  /\ up' = up \ {{p, q}}
  /\ \E mine \in Cut(inbox[p][q]), theirs \in Cut(inbox[q][p]) :
       inbox' = [inbox EXCEPT ![p][q] = mine, ![q][p] = theirs]
  /\ breaks' = breaks + 1
  /\ UNCHANGED <<durable, ready, joined, pending>>

(* A device, its connections over, stops and starts again with what its    *)
(* store holds: what it queued and what waited to be sent is gone.         *)
Restart(p) ==
  /\ \A l \in up : p \notin l
  /\ ready' = [ready EXCEPT ![p] = {}]
  /\ joined' = [joined EXCEPT ![p] = {}]
  /\ pending' = [pending EXCEPT ![p] = Nothing]
  /\ inbox' = [inbox EXCEPT ![p] = Nothing]
  /\ UNCHANGED <<durable, up, breaks>>

Handle(p, q) ==
  HandleReady(p, q) \/ HandleLost(p, q) \/ HandleSync(p, q)
    \/ HandleOperation(p, q) \/ HandleInvitation(p, q)

Next ==
  \/ \E p \in People : \/ \E change \in situation.changes : Operate(p, change)
                       \/ AcceptInvitation(p) \/ DeclineInvitation(p) \/ Restart(p)
  \/ \E p, q \in People : Handle(p, q) \/ Connect(p, q) \/ Disconnect(p, q)

Spec == Init /\ [][Next]_vars

(* Every service gets through its queue, and any two people who are ever    *)
(* connected connect again: contacts whenever one needs the other, members  *)
(* by the ring, which connects everybody in a space as small as these.      *)
Fairness ==
  /\ \A p, q \in People : WF_vars(Handle(p, q))
  /\ \A p, q \in People : WF_vars(Connect(p, q))

FairSpec == Spec /\ Fairness

-----------------------------------------------------------------------------
Ops == [change : situation.changes \cup [kind : {"introduce", "leave"}, author : People],
        stamp : Stamps, parents : SUBSET Stamps]
Messages == [type : {"ready", "lost"}, ops : {{}}]
              \cup [type : {"space-operation"}, ops : {{o} : o \in Ops}]
              \cup [type : {"space-sync", "space-invitation"}, ops : SUBSET Ops]
AreMessages(seq) == \A i \in DOMAIN seq : seq[i] \in Messages

TypeOK ==
  /\ situation \in Situations
  /\ inside \subseteq People
  /\ known \in [People -> SUBSET Ops]
  /\ \A p \in People : \A i \in invitation[p] : i[1] \in People /\ i[2] \subseteq Ops
  /\ ready \in [People -> SUBSET People] /\ joined \in [People -> SUBSET People]
  /\ \A p, q \in People : AreMessages(pending[p][q]) /\ AreMessages(inbox[p][q])
  /\ up \subseteq Links /\ breaks \in 0..situation.breaks

(* Nobody is sent an operation of a space they have not joined, though     *)
(* what a peer said they hold outlives the connection and being removed,   *)
(* and invitations wait in pending.                                        *)
NothingOfASpaceNotJoined ==
  \A p, q \in People : p \notin inside =>
    \A m \in ToSet(inbox[p][q]) : m.type # "space-operation"

(* Two members who hold one another to be members and ever connect, once   *)
(* nothing more is made and no connection ends, hold the same operations,  *)
(* none of them waiting for another, and so the same state: whatever was   *)
(* lost with a connection, in whichever order the rest came, and whoever   *)
(* was away or removed meanwhile.  Of one who joined while connected, it   *)
(* goes as far as they opened the space with one another.                  *)
Opened(p, q) == q \in joined[p] /\ p \in joined[q]

Agreement ==
  <>[](\A p, q \in People :
         /\ {p, q} \in Links /\ Shares(p, q) /\ Shares(q, p)
         /\ {p, q} \subseteq situation.insiders \/ Opened(p, q)
         => known[p] = known[q] /\ History(known[p]) = known[p])

(* What was already held is passed on to nobody, so nothing circles: the   *)
(* queues empty, even where three members are all connected.               *)
NothingCircles == <>[](\A p, q \in People : inbox[p][q] = <<>>)

-----------------------------------------------------------------------------
(* What the documents say, and the code does not always do.                *)

(* docs/protocol/spaces.md: those invited "are sent nothing else until they *)
(* accept".                                                                *)
NothingButTheInvitation ==
  \A p, q \in People : p \notin inside =>
    \A m \in ToSet(inbox[p][q]) : m.type \in {"ready", "lost", "space-invitation"}

(* service.go: a peer is sent a space's content "only once it said, on its  *)
(* current connection, what it holds of that space".                       *)
OnlyOnceItSaid ==
  [][\A p, q \in People :
       Len(inbox'[q][p]) > Len(inbox[q][p]) /\ Last(inbox'[q][p]).type = "space-operation"
       => Came \notin ToSet(inbox[p][q])]_vars

(* docs/protocol/spaces.md: two connected members of a space "each tell the *)
(* other what they hold", and accepting an invitation opens the space "with *)
(* every member connected".                                                *)
OpenedBothWays ==
  \A p, q \in People :
    {p, q} \in up /\ Shares(p, q) /\ Shares(q, p) ~> q \in joined[p] \/ {p, q} \notin up

(* service.go: "a person added is told, as soon as they can be reached":    *)
(* they are asked in, or know themselves a member.                         *)
AddedIsTold ==
  \A p, q \in People :
    Belongs(p, q) ~> invitation[q] # {} \/ Belongs(q, q) \/ ~Belongs(p, q)

(* docs/protocol/spaces.md: a member removed "is sent the operation that    *)
(* removed them — at once if connected, or when they next open the space   *)
(* with a member", and so knows they were.                                 *)
RemovedKnowIt ==
  \A p, q \in People :
    p \in inside /\ Removals(p, q) # {} /\ ~Belongs(p, q) ~> ~Belongs(q, q) \/ Belongs(p, q)

(* docs/protocol/spaces.md: "a member passes on at once each operation to   *)
(* every member that opened the space on its connection": one that deletes  *)
(* the space like any other.                                               *)
DeletionIsPassedOn ==
  \A p, q \in People :
    space[p].deleted /\ Belongs(q, q) /\ {p, q} \in up ~> space[q].deleted

(* ADR 0013: "every honest member must reach the same state from the same   *)
(* set of valid operations": those connected to a member, and held by it to *)
(* be members, come to hold the state it holds.                            *)
OneStateForAll ==
  <>[](\A p, q \in People : {p, q} \in up /\ q \in inside /\ Belongs(p, q) => space[q] = space[p])
=============================================================================
