---------------------------- MODULE Conversation ----------------------------
(***************************************************************************)
(* What the conversation of two contacts says: the entries each keeps, the *)
(* moments that order them, what is wiped of them and what the messages    *)
(* they leave look like.  internal/messages: store.go and entries.go,      *)
(* written through service.go's add and receive.                           *)
(*                                                                         *)
(* DirectMessages models how entries get across; here one not held by the  *)
(* other may arrive at any moment, in any order, and one held may be known *)
(* to be at any later moment.  The interface of each makes its calls on    *)
(* goroutines of their own, several at a time: each takes a moment, then   *)
(* stores, which with a file to write may be long after; the service       *)
(* stores what arrives, then moves the clock past it.  Storing is one      *)
(* transaction and wiping follows it, so the application may stop in       *)
(* between.  A text is known by the entry that brought it.                 *)
(***************************************************************************)
EXTENDS Clock, FiniteSets

CONSTANTS
  ann, bob,    \* the two contacts; of identifiers, ann's come first
  Occasions    \* what may happen, of which one is tried: who writes which kinds of
               \* entries, how many together, how far the clocks of the machines go,
               \* and back, how often an application stops, and whether anybody reads
               \* the conversation or deletes from it here alone

None == <<>>
Kinds == {"text", "reply", "reaction", "edit", "deletion", "file"}
People == {ann, bob}
Other(p) == IF p = ann THEN bob ELSE ann

ASSUME ConversationAssumption ==
  /\ ann # bob
  /\ \A o \in Occasions :
       /\ o.writers \subseteq People /\ o.kinds \subseteq Kinds
       /\ o.entries \in Nat /\ o.wall \in Nat /\ o.restarts \in Nat /\ o.reads \in BOOLEAN /\ o.forgets \in BOOLEAN

VARIABLES
  occasion,     \* what may happen
  held,         \* held[p]: the entries p stores, its own and the other's
  wiped,        \* those of them whose text p wiped
  hidden,       \* those p deleted on its machine alone
  outbox,       \* p's own that it does not know the other to hold
  last,         \* where the clock of each is
  call,         \* the calls of the interface of each that have their moment and are not stored
  observing,    \* the entry each service stored and its clock did not see yet
  due,          \* which of the interface and the service of each have texts to wipe
  read,         \* up to which moment each has read the conversation
  news,         \* for the properties: messages of the other stored since each read it
  restarts      \* times an application stopped, for the bound

store == <<held, wiped, hidden, outbox>>
vars == <<occasion, store, last, call, observing, due, read, news, restarts>>

-----------------------------------------------------------------------------
(* An entry has its author, the author's number for it, and its moment;    *)
(* all but a plain text and a file are about a message.  For the           *)
(* properties it has the number it would have had when its call began.     *)
Id(e) == <<e.author, e.n>>
Own(p) == {e \in held[p] : e.author = p}
Shown(e) == e.kind \in {"text", "reply", "file"}   \* entries.go: Kind.shown

Earlier(d, e) ==
  \/ Before(d.at, e.at)
  \/ d.at = e.at /\ IF d.author = e.author THEN d.n < e.n ELSE d.author = ann

LatestMoment(entries) ==
  IF entries = {} THEN Never
  ELSE CHOOSE t \in {e.at : e \in entries} : \A e \in entries : ~Before(t, e.at)

Latest(entries) == CHOOSE e \in entries : \A d \in entries \ {e} : Earlier(d, e)

(* add: the number after those of its author's.                            *)
NextNumber(entries) ==
  CHOOSE n \in {1} \cup {e.n + 1 : e \in entries} : \A e \in entries : e.n < n

(* The entries of a kind about a message that count: its author's.         *)
About(entries, m, kind) ==
  {e \in entries : e.kind = kind /\ e.target = Id(m) /\ e.author = m.author}

(* fold: what a message shows, of the entries held and those of them wiped.*)
Edits(entries, erased, m) == About(entries, m, "edit") \ erased

Deleted(entries, erased, m) ==
  \/ About(entries, m, "deletion") # {}
  \/ m \in erased /\ Edits(entries, erased, m) = {}

Text(entries, erased, m) ==
  IF Deleted(entries, erased, m) THEN None
  ELSE Id(IF Edits(entries, erased, m) = {} THEN m ELSE Latest(Edits(entries, erased, m)))

Reactors(entries, erased, m) ==
  {p \in People :
     LET reactions == {e \in entries : e.kind = "reaction" /\ e.target = Id(m) /\ e.author = p}
     IN  ~Deleted(entries, erased, m) /\ reactions # {} /\ Latest(reactions).on}

Fold(entries, erased, unseen) ==
  LET shown == {m \in entries : Shown(m)} \ unseen
      answered(m) == {t \in shown : Id(t) = m.target}
  IN  {[message |-> m, text |-> Text(entries, erased, m), on |-> Reactors(entries, erased, m),
        answers |-> {Text(entries, erased, t) : t \in answered(m)}] : m \in shown}

(* compact: the texts nobody shows any more, of which what waits is kept.  *)
Gone(entries) ==
  {e \in entries :
     \E m \in entries :
       LET edits == About(entries, m, "edit")
       IN  /\ Shown(m) /\ e \in {m} \cup edits
           /\ About(entries, m, "deletion") # {} \/ (edits # {} /\ e # Latest(edits))}

WipesWhatWaits(p) == wiped' = [wiped EXCEPT ![p] = @ \cup Gone(held[p])]   \* a mistake

Wipes(p) == wiped' = [wiped EXCEPT ![p] = @ \cup (Gone(held[p]) \ outbox[p])]

(* targets: what an entry of one's own may be about.                       *)
MayBeAbout(p, kind, id) ==
  \E t \in held[p] :
    /\ Id(t) = id /\ Shown(t) /\ t \notin hidden[p]
    /\ About(held[p], t, "deletion") = {}
    /\ kind = "edit" => t.kind # "file"
    /\ kind \in {"edit", "deletion"} => t.author = p

-----------------------------------------------------------------------------
Init ==
  /\ occasion \in Occasions
  /\ held = [p \in People |-> {}] /\ wiped = [p \in People |-> {}]
  /\ hidden = [p \in People |-> {}] /\ outbox = [p \in People |-> {}]
  /\ last = [p \in People |-> Never] /\ call = [p \in People |-> {}]
  /\ observing = [p \in People |-> {}] /\ due = [p \in People |-> {}]
  /\ read = [p \in People |-> Never] /\ news = [p \in People |-> {}]
  /\ restarts = 0

(* The interface writes an entry: first its moment,                        *)
Call(p) ==
  /\ p \in occasion.writers
  /\ Cardinality(Own(ann) \cup Own(bob) \cup call[ann] \cup call[bob]) < occasion.entries
  /\ \E physical \in 0..occasion.wall : last' = [last EXCEPT ![p] = Now(last[p], physical)]
  /\ \E kind \in occasion.kinds, on \in BOOLEAN :
       \E about \in IF kind \in {"text", "file"} THEN {None} ELSE {Id(e) : e \in held[p]} :
         /\ about # None => MayBeAbout(p, kind, about)
         /\ on => kind = "reaction"
         /\ call' = [call EXCEPT ![p] = @ \cup {[kind |-> kind, target |-> about, on |-> on, at |-> last'[p],
                                                 began |-> NextNumber(Own(p))]}]
  /\ UNCHANGED <<occasion, store, observing, due, read, news, restarts>>

(* then the entry, numbered after those of its author, into the outbox, if *)
(* what it is about is still there.                                        *)
Add(p) ==
  /\ \E c \in call[p] :
       /\ IF c.target = None \/ MayBeAbout(p, c.kind, c.target)
          THEN LET e == [author |-> p, n |-> NextNumber(Own(p)), kind |-> c.kind,
                         target |-> c.target, on |-> c.on, at |-> c.at, began |-> c.began]
               IN  /\ held' = [held EXCEPT ![p] = @ \cup {e}]
                   /\ outbox' = [outbox EXCEPT ![p] = @ \cup {e}]
                   /\ due' = [due EXCEPT ![p] = @ \cup {"interface"}]
          ELSE UNCHANGED <<held, outbox, due>>
       /\ call' = [call EXCEPT ![p] = @ \ {c}]
  /\ UNCHANGED <<occasion, wiped, hidden, last, observing, read, news, restarts>>

(* An entry goes as its author keeps it, without its text if that is wiped; *)
(* one that is of no kind, or not as its kind is, is refused.              *)
ToWire(p, e) == {e} \cap wiped[p]
FromWire(e) == e.kind \in Kinds /\ (e.kind \in {"text", "file"} <=> e.target = None)
Check(e) == e.on => e.kind = "reaction"

(* An entry of the other's arrives, and is stored.                         *)
ServiceFree(p) == observing[p] = {} /\ "service" \notin due[p]

Receive(p) ==
  /\ ServiceFree(p)
  /\ \E e \in Own(Other(p)) \ held[p] :
       /\ FromWire(e) /\ Check(e)
       /\ held' = [held EXCEPT ![p] = @ \cup {e}]
       /\ wiped' = [wiped EXCEPT ![p] = @ \cup ToWire(Other(p), e)]
       /\ observing' = [observing EXCEPT ![p] = {e}]
       /\ due' = [due EXCEPT ![p] = IF e.kind \in {"edit", "deletion"} THEN {"service"} \cup @ ELSE @]
       /\ news' = [news EXCEPT ![p] = @ \cup {m \in {e} : Shown(m) /\ occasion.reads}]
  /\ UNCHANGED <<occasion, hidden, outbox, last, call, read, restarts>>

ObserveIt(p) ==
  /\ "service" \notin due[p]
  /\ \E e \in observing[p] : last' = [last EXCEPT ![p] = Observe(@, e.at)]
  /\ observing' = [observing EXCEPT ![p] = {}]
  /\ UNCHANGED <<occasion, store, call, due, read, news, restarts>>

(* Acknowledged and HeldUpTo: entries the other stored leave the outbox.   *)
Delivered(p) ==
  /\ ServiceFree(p)
  /\ \E e \in outbox[p] \cap held[Other(p)] : outbox' = [outbox EXCEPT ![p] = @ \ {e}]
  /\ due' = [due EXCEPT ![p] = @ \cup {"service"}]
  /\ UNCHANGED <<occasion, held, wiped, hidden, last, call, observing, read, news, restarts>>

Compact(p) ==
  /\ Wipes(p)
  /\ \E goroutine \in due[p] : due' = [due EXCEPT ![p] = @ \ {goroutine}]
  /\ UNCHANGED <<occasion, held, hidden, outbox, last, call, observing, read, news, restarts>>

(* A message is deleted on this machine alone, once delivered.             *)
Forget(p) ==
  /\ \E m \in held[p] \ outbox[p] :
       /\ Shown(m) /\ m \notin hidden[p] /\ occasion.forgets
       /\ hidden' = [hidden EXCEPT ![p] = @ \cup {m}]
       /\ wiped' = [wiped EXCEPT ![p] = @ \cup {m}]
  /\ UNCHANGED <<occasion, held, outbox, last, call, observing, due, read, news, restarts>>

(* The conversation is read up to its latest message.                      *)
MarkRead(p) ==
  /\ occasion.reads /\ \E m \in held[p] : Shown(m)
  /\ read' = [read EXCEPT ![p] = LatestMoment({m \in held[p] : Shown(m)})]
  /\ news' = [news EXCEPT ![p] = {}]
  /\ UNCHANGED <<occasion, store, last, call, observing, due, restarts>>

(* The application stops at any moment, and starts again with its store:   *)
(* its clock starts from the latest moment there.                          *)
Restart(p) ==
  /\ restarts < occasion.restarts /\ restarts' = restarts + 1
  /\ last' = [last EXCEPT ![p] = LatestMoment(held[p])]
  /\ call' = [call EXCEPT ![p] = {}] /\ observing' = [observing EXCEPT ![p] = {}]
  /\ due' = [due EXCEPT ![p] = {}]
  /\ UNCHANGED <<occasion, store, read, news>>

Next ==
  \E p \in People :
    Call(p) \/ Add(p) \/ Receive(p) \/ ObserveIt(p) \/ Delivered(p) \/ Compact(p)
      \/ Forget(p) \/ MarkRead(p) \/ Restart(p)

Spec == Init /\ [][Next]_vars

-----------------------------------------------------------------------------
Entries ==
  [author : People, n : Nat, kind : Kinds, target : {None} \cup (People \X Nat), on : BOOLEAN, at : Moments,
   began : Nat]

TypeOK ==
  /\ occasion \in Occasions
  /\ held \in [People -> SUBSET Entries] /\ wiped \in [People -> SUBSET Entries]
  /\ hidden \in [People -> SUBSET Entries] /\ outbox \in [People -> SUBSET Entries]
  /\ last \in [People -> Moments] /\ read \in [People -> Moments]
  /\ due \in [People -> SUBSET {"interface", "service"}] /\ news \in [People -> SUBSET Entries]

(* Wiping takes nothing from what a conversation shows: with what it wiped *)
(* a peer shows what it would if it had kept every text, so that two who   *)
(* hold the same entries show the same (ADR 0034; store.go's compact).     *)
WipingHidesNothing ==
  \A p \in People : Fold(held[p], wiped[p], hidden[p]) = Fold(held[p], {}, hidden[p])

(* An entry comes after all that its author had stored when they began to  *)
(* write it, so an edit after what it edits and after the edits there      *)
(* were, whatever else is written meanwhile, whatever the machine's clock  *)
(* does and whenever it starts again (hlc.go; NewService starts from       *)
(* store.Last).  Of two calls at once either may be stored first.          *)
OwnEntriesInOrder ==
  \A p \in People : \A d, e \in Own(p) : d.n < e.began => Before(d.at, e.at)

(* An answer comes after what it answers (docs/protocol/peers.md).         *)
RepliesComeAfter ==
  \A p \in People : \A d, e \in held[p] : e.target = Id(d) => Before(d.at, e.at)

(* store.go's unread: messages of the other later than what was read.      *)
UnreadFromThen(p) ==   \* a mistake: and the last one read
  {m \in held[p] : occasion.reads /\ Shown(m) /\ m.author # p /\ ~Before(m.at, read[p])}

Unread(p) ==
  {m \in held[p] : occasion.reads /\ Shown(m) /\ m.author # p /\ Before(read[p], m.at)}

(* What came since the conversation was read is what counts as unread      *)
(* (ADR 0032).                                                             *)
NewsIsUnread == \A p \in People : news[p] \subseteq Unread(p)

(* Nothing read before counts as unread again, however late and in what    *)
(* order entries come (store.go's MarkRead).                               *)
UnreadIsNews == \A p \in People : Unread(p) \subseteq news[p]
=============================================================================
