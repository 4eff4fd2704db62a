--------------------------- MODULE ContactsProofs ---------------------------
(***************************************************************************)
(* A contact needs consent, proved for any number of requests, parts and   *)
(* connections, whatever the interface does between what a service reads   *)
(* and what it writes.                                                     *)
(*                                                                         *)
(* That whoever has a contact agreed is not inductive: a handler makes one *)
(* from what it read of the book earlier, when the request it read of may  *)
(* have been dismissed since.  It rests on nobody having asked, nor having *)
(* read that they asked or had a contact, who had not agreed by then; and  *)
(* on what was read being of the work it is used for.                      *)
(*                                                                         *)
(* That both share the secret of a request made and accepted once rests on *)
(* its messages coming in order: once the asker confirms, and so whoever   *)
(* accepted forgets what they accepted, the request comes no more; and on  *)
(* nobody being a contact of it before it is accepted by hand.             *)
(***************************************************************************)
EXTENDS Contacts, SequenceTheorems, TLAPS

-----------------------------------------------------------------------------
(* Types: every part said or kept, but that of a request not yet accepted, *)
(* was drawn.                                                              *)
Tellings == [type : {"request", "accepted"}, part : Parts] \cup [type : {"confirmed"}, part : {0}]
Jobs == Tellings \cup [type : {"answer"}, part : Parts] \cup [type : {"ready"}, part : {0}]
Readings ==
  [of : {None, "asked", "contact", "stranger"}, part : {0}] \cup [of : {"acceptance"}, part : Parts]

BookTyped ==
  /\ contact \in [People -> Secrets \cup {NoSecret}] /\ asked \in [People -> 0..MaxParts]
  /\ received \in [People -> Requests \cup {NoRequest}]
  /\ \A p \in People : received[p].state = "accepted" => received[p].ours \in Parts
  /\ parts \in 0..MaxParts /\ asks \in [People -> 0..MaxAsks] /\ accepts \in Nat

FlagsTyped ==
  /\ blocked \in [People -> BOOLEAN] /\ agreed \in [People -> BOOLEAN]
  /\ kept \in [People -> BOOLEAN] /\ forgot \in BOOLEAN /\ up \in BOOLEAN

LinkTyped == wire \in [People -> Seq(Tellings)] /\ breaks \in 0..MaxBreaks

(* What a service read is of the work it does.                             *)
Matching(p) ==
  read[p] # Nothing =>
    /\ work[p] # <<>> /\ Head(work[p]).type \in {"request", "accepted"}
    /\ read[p].of = "acceptance" <=> Head(work[p]).type = "accepted"

ServiceTyped ==
  /\ work \in [People -> Seq(Jobs)] /\ read \in [People -> Readings] /\ strangers \subseteq People
  /\ \A p \in People : Matching(p)

Typed == BookTyped /\ ServiceTyped /\ LinkTyped

LEMMA OtherPerson == \A p \in People : Other(p) \in People
BY DEF People, Other

LEMMA TypedIsTypeOK == Typed /\ FlagsTyped => TypeOK
<1> SUFFICES ASSUME Typed, FlagsTyped PROVE TypeOK
  OBVIOUS
<1>1. /\ Tellings \subseteq Messages
      /\ Jobs \subseteq Messages \cup [type : {"ready", "answer"}, part : 0..MaxParts]
      /\ Readings \subseteq [of : {None, "asked", "contact", "stranger", "acceptance"}, part : 0..MaxParts]
  BY ContactsAssumption DEF Tellings, Jobs, Readings, Messages, Parts
<1>2. \A S, T : S \subseteq T => Seq(S) \subseteq Seq(T)
  BY SeqDef
<1>3. /\ Seq(Tellings) \subseteq Seq(Messages)
      /\ Seq(Jobs) \subseteq Seq(Messages \cup [type : {"ready", "answer"}, part : 0..MaxParts])
  BY <1>1, <1>2
<1>4. /\ \A p \in People : work[p] \in Seq(Jobs) /\ read[p] \in Readings /\ wire[p] \in Seq(Tellings)
  BY DEF Typed, ServiceTyped, LinkTyped
<1> QED BY <1>1, <1>3, <1>4 DEF Typed, BookTyped, FlagsTyped, ServiceTyped, LinkTyped, TypeOK

LEMMA InitTyped == Init => Typed /\ FlagsTyped
<1> SUFFICES ASSUME Init PROVE Typed /\ FlagsTyped
  OBVIOUS
<1>1. BookTyped
  BY ContactsAssumption DEF Init, BookTyped, NoRequest, None
<1>2. ServiceTyped
  <2>1. <<>> \in Seq(Jobs) /\ Nothing \in Readings
    BY DEF Readings, Nothing
  <2> QED BY <2>1 DEF Init, ServiceTyped, Matching
<1>3. LinkTyped
  <2>1. <<>> \in Seq(Tellings)
    OBVIOUS
  <2> QED BY <2>1, ContactsAssumption DEF Init, LinkTyped
<1>4. FlagsTyped
  BY DEF Init, FlagsTyped
<1> QED BY <1>1, <1>2, <1>3, <1>4 DEF Typed

-----------------------------------------------------------------------------
(* What the helpers of the model leave.                                    *)
LEMMA SendTyped ==
  ASSUME LinkTyped, NEW p \in People, NEW m \in Tellings, Send(p, m),
         breaks' = breaks
  PROVE  LinkTyped'
BY OtherPerson DEF LinkTyped, Send

LEMMA CutTyped ==
  ASSUME LinkTyped, Cut PROVE LinkTyped'
<1>1. <<>> \in Seq(Tellings)
  OBVIOUS
<1>2. wire' \in [People -> Seq(Tellings)]
  BY <1>1 DEF Cut
<1>3. breaks' \in 0..MaxBreaks
  BY ContactsAssumption DEF LinkTyped, Cut
<1> QED BY <1>2, <1>3 DEF LinkTyped

LEMMA QueueTyped ==
  ASSUME ServiceTyped, NEW p \in People, NEW m \in Jobs, Queue(p, m),
         read' = read, strangers' = strangers
  PROVE  ServiceTyped'
<1>1. work' \in [People -> Seq(Jobs)]
  BY DEF ServiceTyped, Queue
<1>2. \A q \in People : work[q] # <<>> => work'[q] # <<>> /\ Head(work'[q]) = Head(work[q])
  BY DEF ServiceTyped, Queue
<1> QED BY <1>1, <1>2 DEF ServiceTyped, Matching

LEMMA DoneTyped ==
  ASSUME ServiceTyped, NEW p \in People, work[p] # <<>>, Done(p), strangers' \subseteq People
  PROVE  ServiceTyped'
<1>1. work' \in [People -> Seq(Jobs)]
  BY DEF ServiceTyped, Done
<1>2. read' \in [People -> Readings] /\ read'[p] = Nothing
  BY DEF ServiceTyped, Done, Readings, Nothing, None
<1>3. \A q \in People \ {p} : work'[q] = work[q] /\ read'[q] = read[q]
  BY DEF ServiceTyped, Done
<1> QED BY <1>1, <1>2, <1>3 DEF ServiceTyped, Matching

LEMMA ReadsTyped ==
  ASSUME ServiceTyped, NEW p \in People, work' = work, work[p] # <<>>,
         NEW of, NEW part, Reads(p, of, part), [of |-> of, part |-> part] \in Readings,
         Head(work[p]).type \in {"request", "accepted"},
         of = "acceptance" <=> Head(work[p]).type = "accepted", strangers' \subseteq People
  PROVE  ServiceTyped'
<1>1. read' \in [People -> Readings] /\ read'[p].of = of
  BY DEF ServiceTyped, Reads
<1>2. \A q \in People \ {p} : read'[q] = read[q]
  BY DEF ServiceTyped, Reads
<1> QED BY <1>1, <1>2 DEF ServiceTyped, Matching

LEMMA JobTyped ==
  ASSUME ServiceTyped, NEW p \in People, work[p] # <<>>
  PROVE  /\ Head(work[p]) \in Jobs
         /\ Head(work[p]).type \in {"request", "accepted", "answer"} => Part(p) \in Parts
<1>1. Head(work[p]) \in Jobs
  BY DEF ServiceTyped
<1> QED BY <1>1 DEF Jobs, Tellings, Part

LEMMA MakesContactTyped ==
  ASSUME BookTyped, NEW p \in People, NEW theirs \in Parts, MakesContact(p, theirs)
  PROVE  /\ contact' \in [People -> Secrets \cup {NoSecret}]
         /\ received' \in [People -> Requests \cup {NoRequest}]
         /\ \A q \in People : received'[q].state = "accepted" => received'[q].ours \in Parts
         /\ parts' \in Parts /\ parts' \in 0..MaxParts
<1>1. parts' \in Parts /\ parts' \in 0..MaxParts
  BY ContactsAssumption DEF BookTyped, MakesContact, Parts
<1>2. Secret(Other(p), theirs, parts') \in Secrets
  BY <1>1, OtherPerson DEF Secret, Secrets
<1>3. [state |-> "accepted", theirs |-> theirs, ours |-> parts'] \in Requests
  BY <1>1 DEF Requests
<1> QED BY <1>1, <1>2, <1>3 DEF BookTyped, MakesContact

-----------------------------------------------------------------------------
(* Each action keeps the types: first those that leave two of the book,    *)
(* the service and the link as they were.                                  *)
LEMMA Kept ==
  /\ BookTyped /\ UNCHANGED book => BookTyped'
  /\ ServiceTyped /\ UNCHANGED service => ServiceTyped'
  /\ LinkTyped /\ UNCHANGED link => LinkTyped'
BY DEF BookTyped, ServiceTyped, LinkTyped, Matching, book, service, link

LEMMA AskTyped == ASSUME Typed, NEW p \in People, Ask(p) PROVE Typed'
<1>1. BookTyped'
  BY ContactsAssumption DEF Typed, BookTyped, Ask, Agrees, Parts
<1> QED BY <1>1, Kept DEF Typed, Ask

LEMMA AcceptTyped == ASSUME Typed, NEW p \in People, AcceptRequest(p) PROVE Typed'
<1>1. received[p].theirs \in Parts
  BY DEF Typed, BookTyped, AcceptRequest, Requests, NoRequest, None
<1>2. /\ contact' \in [People -> Secrets \cup {NoSecret}]
      /\ received' \in [People -> Requests \cup {NoRequest}]
      /\ \A q \in People : received'[q].state = "accepted" => received'[q].ours \in Parts
      /\ parts' \in Parts /\ parts' \in 0..MaxParts
  BY <1>1, MakesContactTyped DEF Typed, AcceptRequest
<1>3. BookTyped'
  BY <1>2 DEF Typed, BookTyped, AcceptRequest, Agrees
<1>4. Message("answer", parts') \in Jobs
  BY <1>2 DEF Message, Jobs
<1>5. ServiceTyped'
  BY <1>4, QueueTyped DEF Typed, AcceptRequest
<1> QED BY <1>3, <1>5, Kept DEF Typed, AcceptRequest

LEMMA TakingBackTyped ==
  ASSUME Typed, NEW p \in People,
         \/ DeclineRequest(p) \/ Dismiss(p) \/ Remove(p) \/ Block(p) \/ Unblock(p)
         \/ ExpireSent(p) \/ ExpireReceived(p)
  PROVE  Typed'
<1>1. CASE DeclineRequest(p)
  <2>1. received[p] \in Requests
    BY <1>1 DEF Typed, BookTyped, DeclineRequest, Declines, NoRequest, None
  <2>2. BookTyped'
    BY <1>1, <2>1 DEF Typed, BookTyped, DeclineRequest, Declines, Requests
  <2> QED BY <1>1, <2>2, CutTyped, Kept DEF Typed, DeclineRequest
<1>2. CASE Dismiss(p) \/ ExpireSent(p) \/ Unblock(p)
  <2>1. BookTyped'
    BY <1>2, ContactsAssumption DEF Typed, BookTyped, Dismiss, ExpireSent, Unblock, Gone
  <2> QED BY <1>2, <2>1, Kept DEF Typed, Dismiss, ExpireSent, Unblock
<1>3. CASE Remove(p) \/ Block(p)
  <2>1. BookTyped'
    BY <1>3, ContactsAssumption
    DEF Typed, BookTyped, Remove, Block, Forgets, Gone, NoRequest, None
  <2> QED BY <1>3, <2>1, CutTyped, Kept DEF Typed, Remove, Block, Forgets
<1>4. CASE ExpireReceived(p)
  <2>1. BookTyped'
    BY <1>4 DEF Typed, BookTyped, ExpireReceived, NoRequest, None
  <2> QED BY <1>4, <2>1, Kept DEF Typed, ExpireReceived
<1> QED BY <1>1, <1>2, <1>3, <1>4

LEMMA ConnectionTyped ==
  ASSUME Typed, NEW p \in People,
         TurnOut(p) \/ Arrive(p) \/ Connect(p) \/ Disconnect \/ Restart(p)
  PROVE  Typed'
<1>1. CASE TurnOut(p)
  <2>1. ServiceTyped'
    BY <1>1 DEF Typed, ServiceTyped, Matching, TurnOut
  <2> QED BY <1>1, <2>1, CutTyped, Kept DEF Typed, TurnOut
<1>2. CASE Arrive(p)
  <2>1. Head(wire[p]) \in Tellings /\ wire' \in [People -> Seq(Tellings)]
    BY <1>2 DEF Typed, LinkTyped, Arrive
  <2>2. LinkTyped'
    BY <1>2, <2>1 DEF Typed, LinkTyped, Arrive
  <2>3. Head(wire[p]) \in Jobs
    BY <2>1 DEF Jobs
  <2>4. ServiceTyped'
    BY <1>2, <2>3, QueueTyped DEF Typed, Arrive
  <2> QED BY <1>2, <2>2, <2>4, Kept DEF Typed, Arrive
<1>3. CASE Connect(p)
  <2>1. Ready \in Jobs
    BY DEF Ready, Message, Jobs
  <2>2. work' \in [People -> Seq(Jobs)]
    BY <1>3, <2>1 DEF Typed, ServiceTyped, Connect
  <2>3. \A q \in People : work[q] # <<>> => work'[q] # <<>> /\ Head(work'[q]) = Head(work[q])
    <3>1. \A w \in Seq(Jobs) : w # <<>> => Append(w, Ready) # <<>> /\ Head(Append(w, Ready)) = Head(w)
      BY <2>1
    <3>2. \A q \in People : work[q] \in Seq(Jobs) /\ work'[q] = Append(work[q], Ready)
      BY <1>3 DEF Typed, ServiceTyped, Connect
    <3> QED BY <3>1, <3>2
  <2>4. ServiceTyped'
    BY <1>3, <2>2, <2>3 DEF Typed, ServiceTyped, Matching, Connect
  <2>5. LinkTyped'
    BY <1>3 DEF Typed, LinkTyped, Connect
  <2> QED BY <1>3, <2>4, <2>5, Kept DEF Typed, Connect
<1>4. CASE Disconnect
  BY <1>4, CutTyped, Kept DEF Typed, Disconnect
<1>5. CASE Restart(p)
  <2>1. <<>> \in Seq(Jobs) /\ Nothing \in Readings
    BY DEF Readings, Nothing
  <2>2. /\ work' \in [People -> Seq(Jobs)] /\ read' \in [People -> Readings]
        /\ strangers' \subseteq People
    BY <1>5, <2>1 DEF Typed, ServiceTyped, Restart
  <2>3. read'[p] = Nothing /\ \A q \in People \ {p} : work'[q] = work[q] /\ read'[q] = read[q]
    BY <1>5 DEF Typed, ServiceTyped, Restart
  <2>4. ServiceTyped'
    BY <2>2, <2>3 DEF Typed, ServiceTyped, Matching
  <2> QED BY <1>5, <2>4, CutTyped, Kept DEF Typed, Restart
<1> QED BY <1>1, <1>2, <1>3, <1>4, <1>5

(* And the service's own.                                                  *)
LEMMA HandleTyped ==
  ASSUME Typed, NEW p \in People,
         HandleReady(p) \/ HandleAnswer(p) \/ HandleConfirmed(p)
  PROVE  Typed'
<1>1. work[p] # <<>> /\ Done(p) /\ strangers' \subseteq People
  BY DEF HandleReady, HandleAnswer, HandleConfirmed, Next1, Doing, Typed, ServiceTyped
<1>2. ServiceTyped'
  BY <1>1, DoneTyped DEF Typed
<1>3. CASE HandleReady(p)
  <2>1. asked[p] # 0 => Message("request", asked[p]) \in Tellings
    BY ContactsAssumption DEF Typed, BookTyped, Message, Tellings, Parts
  <2>2. LinkTyped'
    BY <1>3, <2>1, SendTyped DEF HandleReady, Typed, LinkTyped
  <2> QED BY <1>2, <1>3, <2>2, Kept DEF HandleReady, Typed
<1>4. CASE HandleAnswer(p)
  <2>1. Message("accepted", Part(p)) \in Tellings
    BY <1>4, JobTyped DEF HandleAnswer, Next1, Doing, Typed, Message, Tellings
  <2>2. LinkTyped'
    BY <1>4, <2>1, SendTyped DEF HandleAnswer, Typed
  <2> QED BY <1>2, <1>4, <2>2, Kept DEF HandleAnswer, Typed
<1>5. CASE HandleConfirmed(p)
  <2>1. BookTyped'
    BY <1>5 DEF HandleConfirmed, Confirmed, Typed, BookTyped, NoRequest, None
  <2> QED BY <1>2, <1>5, <2>1, Kept DEF HandleConfirmed, Typed
<1> QED BY <1>3, <1>4, <1>5

LEMMA LookTyped ==
  ASSUME Typed, NEW p \in People, LookAtRequest(p) \/ LookAtAccepted(p)
  PROVE  Typed'
<1>1. work[p] # <<>> /\ strangers' \subseteq People /\ UNCHANGED book
  BY DEF LookAtRequest, LookAtAccepted, Next1, Doing, Typed, ServiceTyped
<1>2. CASE LookAtAccepted(p)
  <2>1. Head(work[p]).type = "accepted" /\ UNCHANGED link
    BY <1>2 DEF LookAtAccepted, Next1, Doing
  <2>2. CASE asked[p] # 0
    <3>1. [of |-> "acceptance", part |-> asked[p]] \in Readings
      BY <2>2, ContactsAssumption DEF Typed, BookTyped, Readings, Parts
    <3>2. ServiceTyped'
      BY <1>1, <1>2, <2>1, <2>2, <3>1, ReadsTyped DEF LookAtAccepted, Typed
    <3> QED BY <1>1, <2>1, <3>2, Kept DEF Typed
  <2>3. CASE asked[p] = 0
    BY <1>1, <1>2, <2>1, <2>3, DoneTyped, Kept DEF LookAtAccepted, Typed
  <2> QED BY <2>2, <2>3
<1>3. CASE LookAtRequest(p)
  <2>1. Head(work[p]).type = "request" /\ UNCHANGED <<up, breaks>>
    BY <1>3 DEF LookAtRequest, Next1, Doing
  <2>2. CASE Done(p) /\ (UNCHANGED wire \/ SaysAgain(p))
    <3>1. ServiceTyped'
      BY <1>1, <2>2, DoneTyped DEF Typed
    <3>2. received[p].state = "accepted" => Message("accepted", received[p].ours) \in Tellings
      BY DEF Typed, BookTyped, Message, Tellings
    <3>3. LinkTyped'
      BY <2>1, <2>2, <3>2, SendTyped DEF SaysAgain, Typed, LinkTyped
    <3> QED BY <1>1, <3>1, <3>3, Kept DEF Typed
  <2>3. ASSUME NEW of \in {"asked", "contact", "stranger"}, Reads(p, of, 0),
               UNCHANGED <<work, wire>>
        PROVE  Typed'
    <3>1. [of |-> of, part |-> 0] \in Readings
      BY DEF Readings
    <3>2. ServiceTyped'
      BY <1>1, <2>1, <2>3, <3>1, ReadsTyped DEF Typed
    <3> QED BY <1>1, <2>1, <2>3, <3>2, Kept DEF Typed, link
  <2> QED BY <1>3, <2>2, <2>3 DEF LookAtRequest
<1> QED BY <1>2, <1>3

LEMMA HandleRequestTyped == ASSUME Typed, NEW p \in People, HandleRequest(p) PROVE Typed'
<1>1. work[p] # <<>> /\ Part(p) \in Parts /\ Done(p) /\ Answers(p)
      /\ UNCHANGED <<strangers, up, breaks, blocked, asks, accepts, agreed, forgot, kept>>
  BY JobTyped DEF HandleRequest, Doing, Typed
<1>2. ServiceTyped'
  BY <1>1, DoneTyped DEF Typed, ServiceTyped
<1>3. CASE read[p].of = "stranger"
  <2>1. PICK r : /\ r = [state |-> "waiting", theirs |-> Part(p), ours |-> 0]
                 /\ received' = [received EXCEPT ![p] = r]
                 /\ UNCHANGED <<contact, asked, parts>>
    BY <1>1, <1>3 DEF Answers
  <2>2. r \in Requests /\ r.state # "accepted"
    BY <1>1, <2>1, ContactsAssumption DEF Requests
  <2>3. BookTyped'
    BY <1>1, <2>1, <2>2 DEF Typed, BookTyped
  <2> QED BY <1>1, <1>2, <1>3, <2>3, Kept DEF Answers, Typed, link
<1>4. CASE read[p].of # "stranger"
  <2>1. /\ MakesContact(p, Part(p)) /\ Send(p, Message("accepted", parts'))
        /\ asked' \in {asked, [asked EXCEPT ![p] = 0]}
    BY <1>1, <1>4 DEF Answers
  <2>2. /\ contact' \in [People -> Secrets \cup {NoSecret}]
        /\ received' \in [People -> Requests \cup {NoRequest}]
        /\ \A q \in People : received'[q].state = "accepted" => received'[q].ours \in Parts
        /\ parts' \in Parts /\ parts' \in 0..MaxParts
    BY <1>1, <2>1, MakesContactTyped DEF Typed
  <2>3. BookTyped'
    <3>1. asked' \in [People -> 0..MaxParts]
      BY <2>1, ContactsAssumption DEF Typed, BookTyped
    <3>2. asks' \in [People -> 0..MaxAsks] /\ accepts' \in Nat
      BY <1>1 DEF Typed, BookTyped
    <3> QED BY <2>2, <3>1, <3>2 DEF BookTyped
  <2>4. Message("accepted", parts') \in Tellings
    BY <2>2 DEF Message, Tellings
  <2>5. LinkTyped'
    BY <1>1, <2>1, <2>4, SendTyped DEF Typed
  <2> QED BY <1>2, <2>3, <2>5 DEF Typed
<1> QED BY <1>3, <1>4

LEMMA HandleAcceptedTyped == ASSUME Typed, NEW p \in People, HandleAccepted(p) PROVE Typed'
<1>1. work[p] # <<>> /\ Part(p) \in Parts /\ Done(p)
  BY JobTyped DEF HandleAccepted, Doing, Typed
<1>2. ServiceTyped'
  BY <1>1, DoneTyped DEF HandleAccepted, Typed, ServiceTyped
<1>3. read[p].of = "acceptance" /\ read[p] \in Readings
  BY DEF HandleAccepted, Doing, Typed, ServiceTyped, Matching
<1>4. Secret(p, read[p].part, Part(p)) \in Secrets
  BY <1>1, <1>3 DEF Readings, Secret, Secrets, None
<1>5. BookTyped'
  BY <1>4, ContactsAssumption DEF HandleAccepted, Typed, BookTyped
<1>6. Message("confirmed", 0) \in Tellings
  BY DEF Message, Tellings
<1>7. LinkTyped'
  BY <1>6, SendTyped DEF HandleAccepted, Typed
<1> QED BY <1>2, <1>5, <1>7 DEF Typed

LEMMA NextTyped == Typed /\ [Next]_vars => Typed'
<1>1. ASSUME Typed, NEW p \in People, Work(p) PROVE Typed'
  BY <1>1, HandleTyped, LookTyped, HandleRequestTyped, HandleAcceptedTyped DEF Work
<1>2. ASSUME Typed, NEW p \in People, Person(p) PROVE Typed'
  BY <1>2, AskTyped, AcceptTyped, TakingBackTyped DEF Person
<1>3. ASSUME Typed, UNCHANGED vars PROVE Typed'
  BY <1>3, Kept DEF Typed, vars
<1>4. People # {}
  BY DEF People
<1> QED BY <1>1, <1>2, <1>3, <1>4, TakingBackTyped, ConnectionTyped DEF Next

(* Whatever is true or false.                                              *)
LEMMA NextFlags == FlagsTyped /\ [Next]_vars => FlagsTyped'
<1> SUFFICES ASSUME FlagsTyped, [Next]_vars PROVE FlagsTyped'
  OBVIOUS
<1>1. ASSUME NEW p \in People, Person(p) PROVE FlagsTyped'
  <2>1. CASE Ask(p) \/ AcceptRequest(p)
    BY <2>1 DEF FlagsTyped, Ask, AcceptRequest, Agrees, link
  <2>2. CASE DeclineRequest(p) \/ Dismiss(p)
    BY <2>2 DEF FlagsTyped, DeclineRequest, Dismiss, Gone, Cut, link
  <2>3. CASE Remove(p) \/ Block(p) \/ Unblock(p)
    BY <2>3 DEF FlagsTyped, Remove, Block, Unblock, Forgets, Gone, Cut, link
  <2> QED BY <1>1, <2>1, <2>2, <2>3 DEF Person
<1>2. ASSUME NEW p \in People, Work(p) PROVE FlagsTyped'
  <2>1. UNCHANGED <<blocked, agreed, kept, forgot, up>>
    <3>1. CASE HandleReady(p) \/ HandleAnswer(p) \/ LookAtRequest(p)
      BY <3>1 DEF HandleReady, HandleAnswer, LookAtRequest, book
    <3>2. CASE HandleRequest(p) \/ LookAtAccepted(p)
      BY <3>2 DEF HandleRequest, LookAtAccepted, book, link
    <3>3. CASE HandleAccepted(p) \/ HandleConfirmed(p)
      BY <3>3 DEF HandleAccepted, HandleConfirmed, link
    <3> QED BY <1>2, <3>1, <3>2, <3>3 DEF Work
  <2> QED BY <2>1 DEF FlagsTyped
<1>3. ASSUME NEW p \in People, ExpireSent(p) \/ ExpireReceived(p) PROVE FlagsTyped'
  BY <1>3 DEF FlagsTyped, ExpireSent, ExpireReceived, link
<1>4. ASSUME NEW p \in People, TurnOut(p) \/ Arrive(p) \/ Connect(p) \/ Restart(p) \/ Disconnect
      PROVE  FlagsTyped'
  BY <1>4 DEF FlagsTyped, TurnOut, Arrive, Connect, Restart, Disconnect, Cut, book, link
<1>5. CASE UNCHANGED vars
  BY <1>5 DEF FlagsTyped, vars, book, link
<1>6. People # {}
  BY DEF People
<1> QED BY <1>1, <1>2, <1>3, <1>4, <1>5, <1>6 DEF Next

(* Types: a contact's secret is of parts that were drawn, and a request    *)
(* accepted has the part it was answered with (book.go's records).         *)
THEOREM ContactsTyped == Spec => []TypeOK
<1>1. Spec => [](Typed /\ FlagsTyped)
  BY InitTyped, NextTyped, NextFlags, PTL DEF Spec
<1> QED BY <1>1, TypedIsTypeOK, PTL

-----------------------------------------------------------------------------
(* What a service reads before it makes somebody a contact.                *)
ReadsOfAgreeing == {"asked", "contact", "acceptance"}

Consenting(p) ==
  contact[p] # NoSecret \/ asked[p] # 0 \/ read[p].of \in ReadsOfAgreeing => agreed[p]

Consent == \A p \in People : Consenting(p)

LEMMA NothingRead == Nothing.of \notin ReadsOfAgreeing
BY DEF Nothing, None, ReadsOfAgreeing

(* A step after which nobody has a contact, a request sent or something    *)
(* read that they did not have takes nothing from the invariant.           *)
LEMMA LosingKeepsConsent ==
  ASSUME Consent, agreed' = agreed,
         \A p \in People : /\ contact'[p] \in {contact[p], NoSecret}
                           /\ asked'[p] \in {asked[p], 0}
                           /\ read'[p] \in {read[p], Nothing}
  PROVE  Consent'
BY NothingRead DEF Consent, Consenting

(* What a person, or time, takes back.                                     *)
LEMMA TakingBackConsents ==
  ASSUME Typed, Consent, NEW p \in People,
         \/ DeclineRequest(p) \/ Dismiss(p) \/ Remove(p) \/ Block(p) \/ Unblock(p)
         \/ ExpireSent(p) \/ ExpireReceived(p)
  PROVE  Consent'
<1>1. /\ agreed' = agreed /\ read' = read
      /\ contact' \in {contact, [contact EXCEPT ![p] = NoSecret]}
      /\ asked' \in {asked, [asked EXCEPT ![p] = 0]}
  BY DEF DeclineRequest, Dismiss, Remove, Block, Forgets, Unblock, ExpireSent, ExpireReceived,
         service
<1>2. \A q \in People : contact'[q] \in {contact[q], NoSecret} /\ asked'[q] \in {asked[q], 0}
  BY <1>1 DEF Typed, BookTyped
<1> QED BY <1>1, <1>2, LosingKeepsConsent

(* What leaves the contacts and the requests sent alone.                   *)
LEMMA BookKeptConsents ==
  ASSUME Typed, Consent, NEW p \in People,
         \/ HandleReady(p) \/ HandleAnswer(p) \/ HandleConfirmed(p) \/ TurnOut(p)
         \/ Arrive(p) \/ Connect(p) \/ Restart(p) \/ Disconnect
  PROVE  Consent'
<1>1. /\ contact' = contact /\ asked' = asked /\ agreed' = agreed
      /\ read' \in {read, [read EXCEPT ![p] = Nothing]}
  <2>1. CASE HandleReady(p) \/ HandleAnswer(p) \/ HandleConfirmed(p)
    BY <2>1 DEF HandleReady, HandleAnswer, HandleConfirmed, Done, book
  <2>2. CASE TurnOut(p) \/ Arrive(p) \/ Connect(p) \/ Restart(p) \/ Disconnect
    BY <2>2 DEF TurnOut, Arrive, Connect, Restart, Disconnect, book, service
  <2> QED BY <2>1, <2>2
<1>2. \A q \in People : read'[q] \in {read[q], Nothing}
  BY <1>1 DEF Typed, ServiceTyped
<1> QED BY <1>1, <1>2, LosingKeepsConsent

(* Asking and accepting are agreeing.                                      *)
LEMMA AgreeingConsents ==
  ASSUME Typed, FlagsTyped, Consent, NEW p \in People, Ask(p) \/ AcceptRequest(p)
  PROVE  Consent'
<1>1. agreed' = [agreed EXCEPT ![p] = TRUE] /\ read' = read
  BY DEF Ask, AcceptRequest, Agrees, service
<1>2. \A q \in People \ {p} : contact'[q] = contact[q] /\ asked'[q] = asked[q]
  BY DEF Ask, AcceptRequest, MakesContact, Typed, BookTyped
<1>3. agreed'[p] /\ \A q \in People \ {p} : agreed'[q] = agreed[q]
  BY <1>1 DEF FlagsTyped
<1> QED BY <1>1, <1>2, <1>3 DEF Consent, Consenting

(* What is read of the book is of somebody who agreed, or is a stranger.   *)
LEMMA LookingConsents ==
  ASSUME Typed, Consent, NEW p \in People, LookAtRequest(p) \/ LookAtAccepted(p)
  PROVE  Consent'
<1>1. contact' = contact /\ asked' = asked /\ agreed' = agreed
  BY DEF LookAtRequest, LookAtAccepted, book
<1>2. \E x : /\ read' = [read EXCEPT ![p] = x]
             /\ x.of \in ReadsOfAgreeing => contact[p] # NoSecret \/ asked[p] # 0
  <2>1. CASE LookAtRequest(p)
    BY <2>1, NothingRead DEF LookAtRequest, Done, Reads, ReadsOfAgreeing
  <2>2. CASE LookAtAccepted(p)
    BY <2>2, NothingRead DEF LookAtAccepted, Done, Reads, ReadsOfAgreeing
  <2> QED BY <2>1, <2>2
<1>3. PICK x : /\ read' = [read EXCEPT ![p] = x]
               /\ x.of \in ReadsOfAgreeing => contact[p] # NoSecret \/ asked[p] # 0
  BY <1>2
<1>4. read'[p] = x /\ \A q \in People \ {p} : read'[q] = read[q]
  BY <1>3 DEF Typed, ServiceTyped
<1> QED BY <1>1, <1>3, <1>4 DEF Consent, Consenting

(* A handler makes a contact only of what it read of somebody who agreed.  *)
LEMMA HandlingConsents ==
  ASSUME Typed, Consent, NEW p \in People, HandleRequest(p) \/ HandleAccepted(p)
  PROVE  Consent'
<1>1. /\ agreed' = agreed /\ read' = [read EXCEPT ![p] = Nothing] /\ read[p] # Nothing
      /\ asked' \in {asked, [asked EXCEPT ![p] = 0]}
      /\ \A q \in People \ {p} : contact'[q] = contact[q]
  BY DEF HandleRequest, HandleAccepted, Answers, MakesContact, Done, Typed, BookTyped
<1>2. /\ \A q \in People : read'[q] \in {read[q], Nothing} /\ asked'[q] \in {asked[q], 0}
      /\ read'[p] = Nothing
  BY <1>1 DEF Typed, BookTyped, ServiceTyped
<1>3. CASE read[p].of = "stranger"
  <2>1. contact' = contact
    <3>1. ~HandleAccepted(p)
      BY <1>3 DEF HandleAccepted, Doing, Typed, ServiceTyped, Matching
    <3> QED BY <1>3, <3>1 DEF HandleRequest, Answers
  <2> QED BY <1>1, <1>2, <2>1, LosingKeepsConsent
<1>4. CASE read[p].of \in ReadsOfAgreeing
  BY <1>1, <1>2, <1>4, NothingRead DEF Consent, Consenting
<1>5. read[p] \in Readings /\ read[p].of # None
  <2>1. read[p] \in Readings
    BY DEF Typed, ServiceTyped
  <2>2. read[p].of = None => read[p].part = 0 /\ read[p] = [of |-> read[p].of, part |-> read[p].part]
    BY <2>1 DEF Readings, None
  <2> QED BY <1>1, <2>1, <2>2 DEF Nothing
<1> QED BY <1>3, <1>4, <1>5 DEF Readings, ReadsOfAgreeing

LEMMA NextConsents == Typed /\ FlagsTyped /\ Consent /\ [Next]_vars => Consent'
<1>1. ASSUME Typed, FlagsTyped, Consent, NEW p \in People, Work(p) PROVE Consent'
  BY <1>1, BookKeptConsents, LookingConsents, HandlingConsents DEF Work
<1>2. ASSUME Typed, FlagsTyped, Consent, NEW p \in People, Person(p) PROVE Consent'
  BY <1>2, AgreeingConsents, TakingBackConsents DEF Person
<1>3. ASSUME Consent, UNCHANGED vars PROVE Consent'
  BY <1>3 DEF Consent, Consenting, vars, book, service
<1>4. People # {}
  BY DEF People
<1> QED BY <1>1, <1>2, <1>3, <1>4, TakingBackConsents, BookKeptConsents DEF Next

(* ADR 0026: nobody has a contact they neither asked nor accepted to be    *)
(* asked by, however requests cross, come again, are answered by           *)
(* themselves, or are taken back while a service answers them.             *)
THEOREM ContactsConsented == Spec => []NoContactWithoutConsent
<1>1. Init => Consent
  BY NothingRead DEF Init, Consent, Consenting
<1>2. Spec => [](Typed /\ FlagsTyped /\ Consent)
  BY <1>1, InitTyped, NextTyped, NextFlags, NextConsents, PTL DEF Spec
<1>3. Consent => NoContactWithoutConsent
  BY DEF Consent, Consenting, NoContactWithoutConsent
<1> QED BY <1>2, <1>3, PTL

-----------------------------------------------------------------------------
(* Of one request: it is the first part drawn, and its answer the second.  *)
Asking == Message("request", 1)
Accepting == Message("accepted", 2)
Confirming == Message("confirmed", 0)
ToAsker == {Ready, Accepting}
ToInviter == {Ready, Message("answer", 2), Asking, Confirming}

Among(w, S) == \A i \in DOMAIN w : w[i] \in S
Has(w, type) == \E i \in DOMAIN w : w[i].type = type
Final(w) == \A i, j \in DOMAIN w : w[i].type = "confirmed" /\ w[j].type = "request" => j < i

(* What waits in a queue, v, and is on its way there, w: once the asker    *)
(* confirms, no request comes after.                                       *)
Asks(v, w) == Has(v, "request") \/ Has(w, "request")
Confirms(v, w) == Has(v, "confirmed") \/ Has(w, "confirmed")
Ordered(v, w) == Final(v) /\ Final(w) /\ (Has(v, "confirmed") => ~Has(w, "request"))

-----------------------------------------------------------------------------
LEMMA Types ==
  /\ Ready.type = "ready" /\ Asking.type = "request" /\ Accepting.type = "accepted"
  /\ Confirming.type = "confirmed" /\ Message("answer", 2).type = "answer"
  /\ Ready.part = 0 /\ Asking.part = 1 /\ Accepting.part = 2 /\ Message("answer", 2).part = 2
BY DEF Ready, Asking, Accepting, Confirming, Message

LEMMA Nowhere ==
  /\ \A type : ~Has(<<>>, type)
  /\ \A S : Among(<<>>, S)
  /\ Final(<<>>)
BY DEF Has, Among, Final

LEMMA Longer ==
  ASSUME NEW w \in Seq(Jobs), NEW m \in Jobs
  PROVE  /\ DOMAIN Append(w, m) = 1..Len(w) + 1 /\ DOMAIN w = 1..Len(w) /\ Len(w) \in Nat
         /\ \A i \in 1..Len(w) : Append(w, m)[i] = w[i]
         /\ Append(w, m)[Len(w) + 1] = m
OBVIOUS

LEMMA LongerHas ==
  ASSUME NEW w \in Seq(Jobs), NEW m \in Jobs, NEW type
  PROVE  Has(Append(w, m), type) <=> Has(w, type) \/ m.type = type
<1> DEFINE t == Append(w, m)  n == Len(w)
<1>1. /\ DOMAIN t = 1..n + 1 /\ DOMAIN w = 1..n /\ n \in Nat
      /\ \A i \in 1..n : t[i] = w[i]
      /\ t[n + 1] = m
  BY Longer
<1> HIDE DEF t, n
<1>2. Has(t, type) <=> Has(w, type) \/ m.type = type
  BY <1>1 DEF Has
<1> QED BY <1>2 DEF t

LEMMA LongerAmong ==
  ASSUME NEW w \in Seq(Jobs), NEW m \in Jobs, NEW S, Among(w, S), m \in S
  PROVE  Among(Append(w, m), S)
<1> DEFINE t == Append(w, m)  n == Len(w)
<1>1. /\ DOMAIN t = 1..n + 1 /\ DOMAIN w = 1..n /\ n \in Nat
      /\ \A i \in 1..n : t[i] = w[i]
      /\ t[n + 1] = m
  BY Longer
<1> HIDE DEF t, n
<1>2. Among(t, S)
  BY <1>1 DEF Among
<1> QED BY <1>2 DEF t

LEMMA LongerFinal ==
  ASSUME NEW w \in Seq(Jobs), NEW m \in Jobs, Final(w), m.type = "request" => ~Has(w, "confirmed")
  PROVE  Final(Append(w, m))
<1> DEFINE t == Append(w, m)  n == Len(w)
<1>1. /\ DOMAIN t = 1..n + 1 /\ DOMAIN w = 1..n /\ n \in Nat
      /\ \A i \in 1..n : t[i] = w[i]
      /\ t[n + 1] = m
  BY Longer
<1> HIDE DEF t, n
<1>2. Final(t)
  BY <1>1 DEF Final, Has
<1> QED BY <1>2 DEF t

LEMMA Shorter ==
  ASSUME NEW w \in Seq(Jobs), w # <<>>
  PROVE  /\ DOMAIN Tail(w) = 1..Len(w) - 1 /\ DOMAIN w = 1..Len(w) /\ Len(w) \in Nat \ {0}
         /\ \A i \in 1..Len(w) - 1 : Tail(w)[i] = w[i + 1]
         /\ Head(w) = w[1] /\ Head(w) \in Jobs /\ Tail(w) \in Seq(Jobs)
OBVIOUS

LEMMA ShorterHas ==
  ASSUME NEW w \in Seq(Jobs), w # <<>>
  PROVE  /\ \A type : Has(w, type) <=> Has(Tail(w), type) \/ Head(w).type = type
         /\ \A S : Among(w, S) => Among(Tail(w), S) /\ Head(w) \in S
         /\ Final(w) => Final(Tail(w)) /\ (Head(w).type = "confirmed" => ~Has(Tail(w), "request"))
<1> DEFINE t == Tail(w)  n == Len(w)  h == Head(w)
<1>1. /\ DOMAIN t = 1..n - 1 /\ DOMAIN w = 1..n /\ n \in Nat \ {0}
      /\ \A i \in 1..n - 1 : t[i] = w[i + 1]
      /\ h = w[1]
  BY Shorter
<1> HIDE DEF t, n, h
<1>2. \A i \in DOMAIN w : i = 1 \/ (i - 1 \in DOMAIN t /\ t[i - 1] = w[i])
  BY <1>1
<1>3. \A i \in DOMAIN t : i + 1 \in DOMAIN w /\ t[i] = w[i + 1]
  BY <1>1
<1>4. 1 \in DOMAIN w
  BY <1>1
<1>5. \A type : Has(w, type) <=> Has(t, type) \/ h.type = type
  BY <1>1, <1>2, <1>3, <1>4 DEF Has
<1>6. \A S : Among(w, S) => Among(t, S) /\ h \in S
  BY <1>1, <1>3, <1>4 DEF Among
<1>7. ASSUME Final(w) PROVE Final(t) /\ (h.type = "confirmed" => ~Has(t, "request"))
  <2>1. ASSUME NEW i \in DOMAIN t, NEW j \in DOMAIN t, t[i].type = "confirmed", t[j].type = "request"
        PROVE  j < i
    <3>1. j + 1 < i + 1
      BY <1>3, <1>7, <2>1 DEF Final
    <3> QED BY <1>1, <3>1
  <2>2. ASSUME h.type = "confirmed", NEW j \in DOMAIN t, t[j].type = "request" PROVE FALSE
    <3>1. j + 1 < 1
      BY <1>1, <1>3, <1>4, <1>7, <2>2 DEF Final
    <3> QED BY <1>1, <3>1
  <2>3. Final(t)
    BY <2>1 DEF Final
  <2> QED BY <2>2, <2>3 DEF Has
<1> QED BY <1>5, <1>6, <1>7 DEF t, h

(* What happens to a queue and what is on its way to it.                   *)
LEMMA OrderedSent ==
  ASSUME NEW v \in Seq(Jobs), NEW w \in Seq(Jobs), NEW m \in Jobs, Ordered(v, w),
         m.type = "request" => ~Confirms(v, w)
  PROVE  /\ Ordered(v, Append(w, m))
         /\ Confirms(v, Append(w, m)) => Confirms(v, w) \/ m.type = "confirmed"
         /\ Asks(v, Append(w, m)) => Asks(v, w) \/ m.type = "request"
BY LongerHas, LongerFinal DEF Ordered, Confirms, Asks

LEMMA OrderedQueued ==
  ASSUME NEW v \in Seq(Jobs), NEW w \in Seq(Jobs), NEW m \in Jobs, Ordered(v, w),
         m.type \notin {"request", "confirmed"}
  PROVE  /\ Ordered(Append(v, m), w)
         /\ Confirms(Append(v, m), w) => Confirms(v, w)
         /\ Asks(Append(v, m), w) => Asks(v, w)
BY LongerHas, LongerFinal DEF Ordered, Confirms, Asks

LEMMA OrderedArriving ==
  ASSUME NEW v \in Seq(Jobs), NEW w \in Seq(Jobs), w # <<>>, Ordered(v, w)
  PROVE  /\ Ordered(Append(v, Head(w)), Tail(w))
         /\ Confirms(Append(v, Head(w)), Tail(w)) => Confirms(v, w)
         /\ Asks(Append(v, Head(w)), Tail(w)) => Asks(v, w)
<1> DEFINE h == Head(w)  t == Tail(w)
<1>1. /\ h \in Jobs
      /\ \A type : Has(w, type) <=> Has(t, type) \/ h.type = type
      /\ Final(t) /\ (h.type = "confirmed" => ~Has(t, "request"))
  BY Shorter, ShorterHas DEF Ordered
<1> HIDE DEF h, t
<1>2. \A type : Has(Append(v, h), type) <=> Has(v, type) \/ h.type = type
  BY <1>1, LongerHas
<1>3. Final(Append(v, h))
  BY <1>1, LongerFinal DEF Ordered
<1>4. /\ Ordered(Append(v, h), t)
      /\ Confirms(Append(v, h), t) => Confirms(v, w)
      /\ Asks(Append(v, h), t) => Asks(v, w)
  BY <1>1, <1>2, <1>3 DEF Ordered, Confirms, Asks
<1> QED BY <1>4 DEF h, t

LEMMA OrderedDone ==
  ASSUME NEW v \in Seq(Jobs), NEW w \in Seq(Jobs), v # <<>>, Ordered(v, w)
  PROVE  /\ Ordered(Tail(v), w)
         /\ Confirms(Tail(v), w) => Confirms(v, w)
         /\ Asks(Tail(v), w) => Asks(v, w)
         /\ Head(v).type = "confirmed" => ~Asks(Tail(v), w) /\ Confirms(v, w)
         /\ Head(v).type = "request" => Asks(v, w)
BY ShorterHas DEF Ordered, Confirms, Asks

LEMMA OrderedLost ==
  ASSUME NEW v, NEW w, Ordered(v, w)
  PROVE  /\ Ordered(v, <<>>)
         /\ Confirms(v, <<>>) => Confirms(v, w)
         /\ Asks(v, <<>>) => Asks(v, w)
BY Nowhere DEF Ordered, Confirms, Asks

-----------------------------------------------------------------------------
Shared(a) == Secret(a, 1, 2)
Request(state, ours) == [state |-> state, theirs |-> 1, ours |-> ours]

(* a asked b once, and b never asked: what each recorded of it,            *)
Granted(a, b) ==
  /\ asked[a] \in {0, 1} /\ asked[b] = 0 /\ received[a] = NoRequest
  /\ contact[a] \in {NoSecret, Shared(a)} /\ contact[b] \in {NoSecret, Shared(a)}
  /\ received[b] \in {NoRequest, Request("waiting", 0), Request("declined", 0), Request("accepted", 2)}
  /\ contact[b] = NoSecret => parts = 1 /\ received[b].state # "accepted"
  /\ received[b].state \in {"waiting", "declined"} => contact[b] = NoSecret

(* what their services have read of it,                                    *)
Looked(a, b) ==
  /\ read[a] \in {Nothing, [of |-> "acceptance", part |-> 1]}
  /\ read[b] \in {Nothing, [of |-> "stranger", part |-> 0]}
  /\ read[b] # Nothing => received[b] = NoRequest /\ contact[b] = NoSecret

(* and what is said of it, which ends with the asker confirming.           *)
Told(a, b) ==
  /\ Among(work[a], ToAsker) /\ Among(wire[a], ToAsker)
  /\ Among(work[b], ToInviter) /\ Among(wire[b], ToInviter)
  /\ Ordered(work[b], wire[b])
  /\ Confirms(work[b], wire[b]) => asked[a] = 0
  /\ contact[b] # NoSecret /\ received[b] = NoRequest => asked[a] = 0 /\ ~Asks(work[b], wire[b])

One(a, b) == Granted(a, b) /\ Looked(a, b) /\ Told(a, b)

(* and that it was accepted by hand.                                       *)
ByHand(b) == contact[b] # NoSecret => accepts # 0

NoneYet ==
  /\ parts = 0
  /\ \A p \in People : asked[p] = 0 /\ received[p] = NoRequest /\ contact[p] = NoSecret
  /\ \A p \in People : work[p] = <<>> /\ read[p] = Nothing /\ wire[p] = <<>>

OneInv ==
  ~forgot /\ accepts < 2 =>
    /\ asks[ann] = 0 /\ asks[bob] = 0 => NoneYet
    /\ \A a \in People : asks[a] = 1 /\ asks[Other(a)] = 0 => One(a, Other(a)) /\ ByHand(Other(a))

-----------------------------------------------------------------------------
Apart(a, b) == a # b /\ b = Other(a) /\ a = Other(b) /\ People = {a, b}

LEMMA AllApart == \A a \in People : Other(a) \in People /\ Apart(a, Other(a))
BY ContactsAssumption DEF People, Other, Apart

LEMMA Differ ==
  /\ \A a : Shared(a) # NoSecret
  /\ \A state, ours : Request(state, ours).state = state /\ Request(state, ours).theirs = 1
                      /\ Request(state, ours).ours = ours
  /\ NoRequest.state = "none"
  /\ \A of, part : [of |-> of, part |-> part].of = of /\ [of |-> of, part |-> part].part = part
  /\ Nothing.of = "none" /\ Nothing.part = 0
<1>1. ASSUME NEW a PROVE Shared(a) # NoSecret
  <2>1. "asking" \in DOMAIN Shared(a) /\ "asking" \notin DOMAIN NoSecret
    BY DEF Shared, Secret, NoSecret
  <2> QED BY <2>1
<1> QED BY <1>1 DEF Request, NoRequest, None, Nothing

LEMMA RequestsDiffer == \A state, ours : state # "none" => Request(state, ours) # NoRequest
BY Differ

(* Every queue and what is on its way to it are of jobs.                   *)
LEMMA Queues ==
  ASSUME Typed, NEW p \in People
  PROVE  /\ work[p] \in Seq(Jobs) /\ wire[p] \in Seq(Jobs) /\ wire[p] \in Seq(Tellings)
         /\ wire[p] # <<>> => Head(wire[p]) \in Tellings /\ Head(wire[p]) \in Jobs
         /\ work[p] # <<>> => Head(work[p]) \in Jobs
<1>1. work[p] \in Seq(Jobs) /\ wire[p] \in Seq(Tellings)
  BY DEF Typed, ServiceTyped, LinkTyped
<1>2. Tellings \subseteq Jobs
  BY DEF Jobs
<1>3. Seq(Tellings) \subseteq Seq(Jobs)
  BY <1>2, SeqDef
<1> QED BY <1>1, <1>2, <1>3

LEMMA Said ==
  Ready \in Jobs /\ Confirming \in Jobs
BY DEF Ready, Confirming, Message, Jobs, Tellings

(* What is said of the request has parts that were drawn, so is a job.     *)
LEMMA Sends ==
  ASSUME Typed, NEW p \in People, NEW m, Send(p, m)
  PROVE  /\ wire'[p] = wire[p] \/ p = Other(p)
         /\ wire'[Other(p)] = wire[Other(p)] \/ wire'[Other(p)] = Append(wire[Other(p)], m)
BY OtherPerson DEF Typed, LinkTyped, Send

(* Nothing new is said: of a's part.                                       *)
Fewer(v, w, x, y) ==
  Ordered(x, y) /\ (Confirms(x, y) => Confirms(v, w)) /\ (Asks(x, y) => Asks(v, w))

LEMMA SameIsFewer == \A v, w : Ordered(v, w) => Fewer(v, w, v, w) /\ Fewer(v, w, v, <<>>)
BY OrderedLost DEF Fewer

LEMMA ToldStill ==
  ASSUME NEW a \in People, NEW b \in People, Told(a, b),
         Among(work'[a], ToAsker), Among(wire'[a], ToAsker),
         Among(work'[b], ToInviter), Among(wire'[b], ToInviter),
         Fewer(work[b], wire[b], work'[b], wire'[b]),
         asked'[a] \in {asked[a], 0},
         contact'[b] # NoSecret /\ received'[b] = NoRequest => contact[b] # NoSecret /\ received[b] = NoRequest
  PROVE  Told(a, b)'
BY DEF Told, Fewer

-----------------------------------------------------------------------------
(* What is taken back.                                                     *)
LEMMA TakingBackOne ==
  ASSUME Typed, NEW a \in People, NEW b \in People, Apart(a, b), One(a, b), ~forgot', NEW p \in People,
         \/ DeclineRequest(p) \/ Dismiss(p) \/ Remove(p) \/ Block(p) \/ Unblock(p)
         \/ ExpireSent(p) \/ ExpireReceived(p)
  PROVE  One(a, b)'
<1>1. /\ UNCHANGED <<work, read, contact, parts>>
      /\ UNCHANGED wire \/ wire' = [q \in People |-> <<>>]
  BY DEF DeclineRequest, Dismiss, Remove, Block, Forgets, Unblock, ExpireSent, ExpireReceived, Cut, service, link
<1>2. \/ DeclineRequest(p) \/ Dismiss(p) \/ Unblock(p) \/ ExpireSent(p) \/ ExpireReceived(p)
  BY DEF Remove, Block, Forgets
<1>3. \A q \in People : asked'[q] \in {asked[q], 0}
  BY <1>2 DEF DeclineRequest, Dismiss, Unblock, ExpireSent, ExpireReceived, Typed, BookTyped
<1>4. /\ \A q \in People \ {p} : received'[q] = received[q]
      /\ \/ received'[p] = received[p]
         \/ received[p].state = "waiting" /\ received'[p] = [received[p] EXCEPT !.state = "declined"]
         \/ /\ received[p] # NoRequest /\ asked[Other(p)] # received[p].theirs
            /\ received'[p] = NoRequest /\ work[p] = <<>> /\ wire[p] = <<>> /\ wire' = wire
  <2>1. received \in [People -> Requests \cup {NoRequest}]
    BY DEF Typed, BookTyped
  <2>2. CASE DeclineRequest(p)
    BY <2>1, <2>2 DEF DeclineRequest, Declines
  <2>3. CASE Dismiss(p) \/ Unblock(p) \/ ExpireSent(p)
    BY <2>3 DEF Dismiss, Unblock, ExpireSent
  <2>4. CASE ExpireReceived(p)
    BY <2>1, <2>4 DEF ExpireReceived, link
  <2> QED BY <1>2, <2>2, <2>3, <2>4
<1>5. received'[a] = NoRequest
  BY <1>4, Differ DEF One, Granted, Apart
<1>6. \/ received'[b] = received[b]
      \/ received[b] = Request("waiting", 0) /\ received'[b] = Request("declined", 0)
      \/ /\ received[b] # NoRequest /\ asked[a] = 0
         /\ received'[b] = NoRequest /\ work[b] = <<>> /\ wire[b] = <<>> /\ wire' = wire
  <2>1. received[b].state = "waiting" => received[b] = Request("waiting", 0)
    BY Differ DEF One, Granted
  <2>2. [Request("waiting", 0) EXCEPT !.state = "declined"] = Request("declined", 0)
    BY DEF Request
  <2>3. received[b] # NoRequest => received[b].theirs = 1
    BY Differ DEF One, Granted
  <2>4. asked[a] \in {0, 1}
    BY DEF One, Granted
  <2> QED BY <1>4, <2>1, <2>2, <2>3, <2>4 DEF Apart
<1>7. Granted(a, b)'
  BY <1>1, <1>3, <1>5, <1>6, Differ DEF One, Granted
<1>8. Looked(a, b)'
  BY <1>1, <1>6, RequestsDiffer DEF One, Looked
<1>9. Told(a, b)'
  <2>1. /\ Among(work'[a], ToAsker) /\ Among(wire'[a], ToAsker)
        /\ Among(work'[b], ToInviter) /\ Among(wire'[b], ToInviter)
    BY <1>1, Nowhere DEF One, Told
  <2>2. Fewer(work[b], wire[b], work'[b], wire'[b])
    BY <1>1, SameIsFewer DEF One, Told
  <2>3. asked'[a] \in {asked[a], 0}
    BY <1>3
  <2>4. CASE received'[b] = NoRequest => received[b] = NoRequest
    BY <1>1, <2>1, <2>2, <2>3, <2>4, ToldStill DEF One
  <2>5. CASE asked[a] = 0 /\ work[b] = <<>> /\ wire[b] = <<>> /\ wire' = wire
    <3>1. ~Asks(work'[b], wire'[b])
      BY <1>1, <2>5, Nowhere DEF Asks
    <3>2. asked'[a] = 0
      BY <1>3, <2>5
    <3>3. Ordered(work'[b], wire'[b])
      BY <2>2 DEF Fewer
    <3> QED BY <2>1, <3>1, <3>2, <3>3 DEF Told
  <2> QED BY <1>6, <2>4, <2>5, RequestsDiffer
<1> QED BY <1>7, <1>8, <1>9 DEF One

-----------------------------------------------------------------------------
LEMMA ParametersApart ==
  ASSUME NEW a \in People, NEW b \in People, Apart(a, b), NEW p \in People
  PROVE  p = a \/ p = b
BY DEF Apart

(* The request is accepted, by the person asked.                           *)
LEMMA AcceptingOne ==
  ASSUME Typed, NEW a \in People, NEW b \in People, Apart(a, b), One(a, b), ByHand(b), accepts' < 2,
         NEW p \in People, AcceptRequest(p)
  PROVE  One(a, b)'
<1>1. p = b
  BY Differ DEF One, Granted, Apart, AcceptRequest
<1>2. received[b] # NoRequest /\ received[b].theirs = 1 /\ contact[b] = NoSecret /\ parts = 1
  <2>1. accepts' = accepts + 1 /\ accepts \in Nat
    BY DEF AcceptRequest, Typed, BookTyped
  <2>2. contact[b] = NoSecret
    BY <2>1 DEF ByHand
  <2> QED BY <1>1, <2>2, Differ DEF One, Granted, AcceptRequest
<1>3. parts' = 2 /\ contact' = [contact EXCEPT ![b] = Shared(a)]
      /\ received' = [received EXCEPT ![b] = Request("accepted", 2)]
  <2>1. MakesContact(b, 1) /\ Other(b) = a
    BY <1>1, <1>2 DEF AcceptRequest, Apart
  <2>2. parts' = 2
    BY <1>2, <2>1 DEF MakesContact
  <2> QED BY <2>1, <2>2 DEF MakesContact, Shared, Request
<1>4. /\ contact'[b] = Shared(a) /\ contact'[a] = contact[a]
      /\ received'[b] = Request("accepted", 2) /\ received'[a] = received[a]
  BY <1>3 DEF Typed, BookTyped, Apart
<1>5. UNCHANGED <<asked, read, wire>> /\ work' = [work EXCEPT ![b] = Append(@, Message("answer", 2))]
  BY <1>1, <1>3 DEF AcceptRequest, Queue, link
<1>6. work'[a] = work[a] /\ work'[b] = Append(work[b], Message("answer", 2))
  BY <1>5 DEF Typed, ServiceTyped, Apart
<1>7. Granted(a, b)'
  BY <1>3, <1>4, <1>5, Differ DEF One, Granted
<1>8. Looked(a, b)'
  BY <1>2, <1>4, <1>5, RequestsDiffer DEF One, Looked
<1>9. Message("answer", 2) \in Jobs
  <2>1. AcceptRequest(p) => parts' \in Parts
    BY ContactsAssumption DEF AcceptRequest, MakesContact, Typed, BookTyped, Parts
  <2> QED BY <1>3, <2>1 DEF Message, Jobs
<1>10. Told(a, b)'
  <2>1. Fewer(work[b], wire[b], work'[b], wire'[b])
    <3>1. work[b] \in Seq(Jobs) /\ wire[b] \in Seq(Jobs) /\ Ordered(work[b], wire[b])
      BY Queues DEF One, Told
    <3>2. Fewer(work[b], wire[b], Append(work[b], Message("answer", 2)), wire[b])
      BY <1>9, <3>1, Types, OrderedQueued DEF Fewer
    <3> QED BY <1>5, <1>6, <3>2
  <2>2. Among(work'[b], ToInviter)
    BY <1>6, <1>9, Queues, LongerAmong DEF One, Told, ToInviter
  <2>3. received'[b] # NoRequest
    BY <1>4, RequestsDiffer
  <2> QED BY <1>5, <1>6, <2>1, <2>2, <2>3, ToldStill DEF One, Told
<1> QED BY <1>7, <1>8, <1>10 DEF One

-----------------------------------------------------------------------------
(* The head of each queue is of what is said.                              *)
LEMMA AtHead ==
  ASSUME Typed, NEW a \in People, NEW b \in People, One(a, b)
  PROVE  /\ work[a] # <<>> => Head(work[a]) \in ToAsker /\ Among(Tail(work[a]), ToAsker)
         /\ work[b] # <<>> => /\ Head(work[b]) \in ToInviter /\ Among(Tail(work[b]), ToInviter)
                              /\ Fewer(work[b], wire[b], Tail(work[b]), wire[b])
<1>1. Among(work[a], ToAsker) /\ Among(work[b], ToInviter) /\ Ordered(work[b], wire[b])
  BY DEF One, Told
<1>2. work[a] \in Seq(Jobs) /\ work[b] \in Seq(Jobs) /\ wire[b] \in Seq(Jobs)
  BY Queues
<1>3. work[a] # <<>> => Head(work[a]) \in ToAsker /\ Among(Tail(work[a]), ToAsker)
  BY <1>1, <1>2, ShorterHas
<1>4. work[b] # <<>> => Head(work[b]) \in ToInviter /\ Among(Tail(work[b]), ToInviter)
  BY <1>1, <1>2, ShorterHas
<1>5. work[b] # <<>> => Fewer(work[b], wire[b], Tail(work[b]), wire[b])
  BY <1>1, <1>2, OrderedDone DEF Fewer
<1> QED BY <1>3, <1>4, <1>5

LEMMA DoneWith ==
  ASSUME Typed, NEW a \in People, NEW b \in People, Apart(a, b), NEW p \in People, Done(p)
  PROVE  /\ p = a => work'[a] = Tail(work[a]) /\ work'[b] = work[b] /\ read'[a] = Nothing /\ read'[b] = read[b]
         /\ p = b => work'[b] = Tail(work[b]) /\ work'[a] = work[a] /\ read'[b] = Nothing /\ read'[a] = read[a]
BY DEF Typed, ServiceTyped, Done, Apart

LEMMA SentTo ==
  ASSUME Typed, NEW a \in People, NEW b \in People, Apart(a, b), NEW p \in People, NEW m, Send(p, m)
  PROVE  /\ p = a => wire'[a] = wire[a] /\ (wire'[b] = wire[b] \/ wire'[b] = Append(wire[b], m))
         /\ p = b => wire'[b] = wire[b] /\ (wire'[a] = wire[a] \/ wire'[a] = Append(wire[a], m))
BY DEF Typed, LinkTyped, Send, Apart

(* A piece of work is done that leaves the book as it was, and perhaps     *)
(* something said.                                                         *)
LEMMA DoneOne ==
  ASSUME Typed, NEW a \in People, NEW b \in People, Apart(a, b), One(a, b), NEW p \in People,
         work[p] # <<>>, Done(p), UNCHANGED <<contact, asked, received, parts>>,
         \/ UNCHANGED wire
         \/ p = b /\ Accepting \in Jobs /\ Send(p, Accepting)
         \/ p = a /\ asked[a] = 1 /\ Asking \in Jobs /\ Send(p, Asking)
  PROVE  One(a, b)'
<1>1. Granted(a, b)'
  BY DEF One, Granted
<1>2. Looked(a, b)'
  BY DoneWith, ParametersApart DEF One, Looked
<1>3. Told(a, b) /\ asked'[a] = asked[a] /\ contact'[b] = contact[b] /\ received'[b] = received[b]
  BY DEF One
<1>4. /\ Among(work'[a], ToAsker) /\ Among(work'[b], ToInviter)
      /\ Fewer(work[b], wire[b], work'[b], wire[b])
  <2>1. Among(work[a], ToAsker) /\ Among(work[b], ToInviter) /\ Fewer(work[b], wire[b], work[b], wire[b])
    BY <1>3, SameIsFewer DEF Told
  <2>2. CASE p = a
    BY <2>1, <2>2, AtHead, DoneWith
  <2>3. CASE p = b
    BY <2>1, <2>3, AtHead, DoneWith
  <2> QED BY <2>2, <2>3, ParametersApart
<1>5. work'[b] \in Seq(Jobs) /\ wire[b] \in Seq(Jobs) /\ wire[a] \in Seq(Jobs)
  <2>1. work[b] \in Seq(Jobs) /\ wire[b] \in Seq(Jobs) /\ wire[a] \in Seq(Jobs)
    BY Queues
  <2>2. p = b => Tail(work[b]) \in Seq(Jobs)
    BY <2>1
  <2> QED BY <2>1, <2>2, DoneWith, ParametersApart
<1>6. ASSUME UNCHANGED wire PROVE Told(a, b)'
  <2>1. Among(wire'[a], ToAsker) /\ Among(wire'[b], ToInviter) /\ wire'[b] = wire[b]
    BY <1>3, <1>6 DEF Told
  <2> QED BY <1>3, <1>4, <2>1, ToldStill
<1>7. ASSUME p = b /\ Accepting \in Jobs /\ Send(p, Accepting) PROVE Told(a, b)'
  <2>1. wire'[b] = wire[b] /\ (wire'[a] = wire[a] \/ wire'[a] = Append(wire[a], Accepting))
    BY <1>7, SentTo
  <2>2. Among(wire[a], ToAsker) /\ Among(wire[b], ToInviter) /\ Accepting \in ToAsker
    BY <1>3 DEF Told, ToAsker
  <2>3. Among(Append(wire[a], Accepting), ToAsker)
    BY <1>5, <1>7, <2>2, LongerAmong
  <2>4. Among(wire'[a], ToAsker) /\ Among(wire'[b], ToInviter)
    BY <2>1, <2>2, <2>3
  <2> QED BY <1>3, <1>4, <2>1, <2>4, ToldStill
<1>8. ASSUME p = a /\ asked[a] = 1 /\ Asking \in Jobs /\ Send(p, Asking) PROVE Told(a, b)'
  <2>1. /\ ~Confirms(work[b], wire[b]) /\ ~(contact[b] # NoSecret /\ received[b] = NoRequest)
    BY <1>8 DEF One, Told
  <2>2. wire'[a] = wire[a] /\ (wire'[b] = wire[b] \/ wire'[b] = Append(wire[b], Asking))
    BY <1>8, SentTo
  <2>3. Among(wire'[b], ToInviter)
    <3>1. Among(wire[b], ToInviter) /\ Asking \in ToInviter
      BY <1>3 DEF Told, ToInviter
    <3>2. Among(Append(wire[b], Asking), ToInviter)
      BY <1>5, <1>8, <3>1, LongerAmong
    <3> QED BY <2>2, <3>1, <3>2
  <2>4. /\ Ordered(work'[b], Append(wire[b], Asking))
        /\ Confirms(work'[b], Append(wire[b], Asking)) => Confirms(work'[b], wire[b])
    BY <1>4, <1>5, <1>8, <2>1, Types, OrderedSent DEF Fewer
  <2>5. Ordered(work'[b], wire'[b]) /\ ~Confirms(work'[b], wire'[b])
    BY <1>4, <2>1, <2>2, <2>4 DEF Fewer
  <2>6. ~(contact'[b] # NoSecret /\ received'[b] = NoRequest)
    BY <1>3, <2>1
  <2>7. Among(wire'[a], ToAsker)
    BY <1>3, <2>2 DEF Told
  <2> QED BY <1>4, <2>3, <2>5, <2>6, <2>7 DEF Told
<1> QED BY <1>1, <1>2, <1>6, <1>7, <1>8 DEF One

LEMMA HandlingReadyOne ==
  ASSUME Typed, NEW a \in People, NEW b \in People, Apart(a, b), One(a, b), NEW p \in People, HandleReady(p)
  PROVE  One(a, b)'
<1>1. work[p] # <<>> /\ Done(p) /\ UNCHANGED <<contact, asked, received, parts>>
  BY DEF HandleReady, Next1, Doing, book
<1>2. CASE asked[p] # 0
  <2>1. p = a /\ asked[a] = 1
    BY <1>2, ParametersApart DEF One, Granted
  <2>2. Send(p, Asking)
    BY <1>2, <2>1 DEF HandleReady, Asking
  <2>3. Asking \in Jobs
    BY <2>1 DEF Typed, BookTyped, Asking, Message, Jobs, Tellings, Parts
  <2> QED BY <1>1, <2>1, <2>2, <2>3, DoneOne
<1>3. CASE asked[p] = 0
  BY <1>1, <1>3, DoneOne DEF HandleReady
<1> QED BY <1>2, <1>3

LEMMA HandlingAnswerOne ==
  ASSUME Typed, NEW a \in People, NEW b \in People, Apart(a, b), One(a, b), NEW p \in People, HandleAnswer(p)
  PROVE  One(a, b)'
<1>1. /\ work[p] # <<>> /\ Head(work[p]).type = "answer" /\ Head(work[p]) \in Jobs /\ Part(p) \in Parts
      /\ Done(p) /\ Send(p, Message("accepted", Part(p)))
      /\ UNCHANGED <<contact, asked, received, parts>>
  BY JobTyped DEF HandleAnswer, Next1, Doing, book, Typed
<1>2. p = b /\ Part(p) = 2
  <2>1. p = a => Head(work[p]) \in ToAsker
    BY <1>1, AtHead
  <2>2. p = b /\ Head(work[p]) \in ToInviter
    BY <1>1, <2>1, AtHead, ParametersApart, Types DEF ToAsker
  <2> QED BY <1>1, <2>2, Types DEF ToInviter, Part
<1>3. Message("accepted", Part(p)) = Accepting /\ Accepting \in Jobs
  BY <1>1, <1>2 DEF Accepting, Message, Jobs, Tellings
<1> QED BY <1>1, <1>2, <1>3, DoneOne

(* The person asked is told: there is nothing left to answer.              *)
LEMMA HandlingConfirmedOne ==
  ASSUME Typed, NEW a \in People, NEW b \in People, Apart(a, b), One(a, b), NEW p \in People, HandleConfirmed(p)
  PROVE  One(a, b)'
<1>1. /\ work[p] # <<>> /\ Head(work[p]).type = "confirmed"
      /\ Done(p) /\ Confirmed(p) /\ UNCHANGED <<contact, asked, parts, wire>>
  BY DEF HandleConfirmed, Next1, Doing, link
<1>2. p = b
  BY <1>1, AtHead, ParametersApart, Types DEF ToAsker
<1>3. CASE received[b].state # "accepted"
  BY <1>1, <1>2, <1>3, DoneOne DEF Confirmed
<1>4. CASE received[b].state = "accepted"
  <2>1. received'[b] = NoRequest /\ received'[a] = received[a] /\ contact[b] # NoSecret
    BY <1>1, <1>2, <1>4 DEF Confirmed, Typed, BookTyped, Apart, One, Granted
  <2>2. Granted(a, b)'
    BY <1>1, <2>1, Differ DEF One, Granted
  <2>3. Looked(a, b)'
    BY <1>1, <1>2, <2>1, DoneWith DEF One, Looked
  <2>4. Ordered(work[b], wire[b]) /\ work[b] \in Seq(Jobs) /\ wire[b] \in Seq(Jobs)
    BY Queues DEF One, Told
  <2>5. /\ ~Asks(Tail(work[b]), wire[b]) /\ Confirms(work[b], wire[b])
        /\ Ordered(Tail(work[b]), wire[b])
    BY <1>1, <1>2, <2>4, OrderedDone
  <2>6. work'[b] = Tail(work[b]) /\ work'[a] = work[a] /\ Among(Tail(work[b]), ToInviter)
    BY <1>1, <1>2, DoneWith, AtHead
  <2>7. asked[a] = 0
    BY <2>5 DEF One, Told
  <2>8. Told(a, b)'
    BY <1>1, <2>5, <2>6, <2>7 DEF One, Told
  <2> QED BY <2>2, <2>3, <2>8 DEF One
<1> QED BY <1>3, <1>4

-----------------------------------------------------------------------------
LEMMA ReadsBy ==
  ASSUME Typed, NEW a \in People, NEW b \in People, Apart(a, b), NEW p \in People, NEW of, NEW part,
         Reads(p, of, part)
  PROVE  /\ p = a => read'[a] = [of |-> of, part |-> part] /\ read'[b] = read[b]
         /\ p = b => read'[b] = [of |-> of, part |-> part] /\ read'[a] = read[a]
BY DEF Typed, ServiceTyped, Reads, Apart

(* The request is read about by the person asked, while it is new to them. *)
LEMMA LookingAtRequestOne ==
  ASSUME Typed, NEW a \in People, NEW b \in People, Apart(a, b), One(a, b), NEW p \in People, LookAtRequest(p)
  PROVE  One(a, b)'
<1>1. /\ work[p] # <<>> /\ Head(work[p]).type = "request"
      /\ UNCHANGED <<contact, asked, received, parts>>
  BY DEF LookAtRequest, Next1, Doing, book
<1>2. p = b /\ Head(work[b]) = Asking
  <2>1. p = a => Head(work[p]) \in ToAsker
    BY <1>1, AtHead
  <2>2. p = b /\ Head(work[p]) \in ToInviter
    BY <1>1, <2>1, AtHead, ParametersApart, Types DEF ToAsker
  <2> QED BY <1>1, <2>2, Types DEF ToInviter
<1>3. ASSUME Done(p), UNCHANGED wire PROVE One(a, b)'
  BY <1>1, <1>3, DoneOne
<1>4. ASSUME Done(p), SaysAgain(p) PROVE One(a, b)'
  <2>1. CASE received[b].state # "accepted"
    BY <1>1, <1>2, <1>4, <2>1, DoneOne DEF SaysAgain
  <2>2. CASE received[b].state = "accepted"
    <3>1. received[b].ours = 2 /\ 2 \in Parts
      BY <2>2, Differ DEF One, Granted, Typed, BookTyped
    <3>2. Send(p, Accepting) /\ Accepting \in Jobs
      BY <1>2, <1>4, <2>2, <3>1 DEF SaysAgain, Accepting, Message, Jobs, Tellings
    <3> QED BY <1>1, <1>2, <1>4, <3>2, DoneOne
  <2> QED BY <2>1, <2>2
<1>5. ASSUME ~KnownAlready(p), UNCHANGED <<work, wire>>,
             Reads(p, IF asked[p] # 0 THEN "asked" ELSE IF contact[p] # NoSecret THEN "contact" ELSE "stranger", 0)
      PROVE  One(a, b)'
  <2>1. Part(b) = 1 /\ Asks(work[b], wire[b])
    <3>1. work[b] \in Seq(Jobs) /\ wire[b] \in Seq(Jobs) /\ Ordered(work[b], wire[b]) /\ work[b] # <<>>
      BY <1>1, <1>2, Queues DEF One, Told
    <3>2. Asks(work[b], wire[b])
      BY <1>1, <1>2, <3>1, OrderedDone
    <3> QED BY <1>2, <3>2, Types DEF Part
  <2>2. received[b] = NoRequest
    BY <1>2, <1>5, <2>1, Differ DEF One, Granted, KnownAlready
  <2>3. contact[b] = NoSecret /\ asked[b] = 0
    BY <2>1, <2>2 DEF One, Granted, Told
  <2>4. read'[b] = [of |-> "stranger", part |-> 0] /\ read'[a] = read[a]
    BY <1>2, <1>5, <2>3, ReadsBy
  <2>5. Granted(a, b)'
    BY <1>1 DEF One, Granted
  <2>6. Looked(a, b)'
    BY <1>1, <2>2, <2>3, <2>4 DEF One, Looked
  <2>7. Told(a, b)'
    BY <1>1, <1>5 DEF One, Told
  <2> QED BY <2>5, <2>6, <2>7 DEF One
<1> QED BY <1>3, <1>4, <1>5 DEF LookAtRequest

(* And waits for their answer.                                             *)
LEMMA HandlingRequestOne ==
  ASSUME Typed, NEW a \in People, NEW b \in People, Apart(a, b), One(a, b), NEW p \in People, HandleRequest(p)
  PROVE  One(a, b)'
<1>1. /\ work[p] # <<>> /\ Head(work[p]).type = "request" /\ read[p] # Nothing
      /\ Answers(p) /\ Done(p)
  BY DEF HandleRequest, Doing
<1>2. p = b /\ Head(work[b]) = Asking
  <2>1. p = a => Head(work[p]) \in ToAsker
    BY <1>1, AtHead
  <2>2. p = b /\ Head(work[p]) \in ToInviter
    BY <1>1, <2>1, AtHead, ParametersApart, Types DEF ToAsker
  <2> QED BY <1>1, <2>2, Types DEF ToInviter
<1>3. Part(p) = 1
  BY <1>2, Types DEF Part
<1>4. read[b].of = "stranger" /\ received[b] = NoRequest /\ contact[b] = NoSecret
  BY <1>1, <1>2, Differ DEF One, Looked
<1>5. /\ received' = [received EXCEPT ![b] = Request("waiting", 0)]
      /\ UNCHANGED <<contact, asked, parts, wire>>
  BY <1>1, <1>2, <1>3, <1>4 DEF Answers, Request
<1>6. received'[b] = Request("waiting", 0) /\ received'[a] = received[a]
  BY <1>5 DEF Typed, BookTyped, Apart
<1>7. /\ work'[b] = Tail(work[b]) /\ work'[a] = work[a] /\ read'[b] = Nothing /\ read'[a] = read[a]
      /\ Among(Tail(work[b]), ToInviter) /\ Fewer(work[b], wire[b], Tail(work[b]), wire[b])
  BY <1>1, <1>2, DoneWith, AtHead
<1>8. Granted(a, b)'
  BY <1>4, <1>5, <1>6, Differ DEF One, Granted
<1>9. Looked(a, b)'
  BY <1>7 DEF One, Looked
<1>10. Told(a, b)'
  <2>1. Told(a, b) /\ asked'[a] = asked[a]
    BY <1>5 DEF One
  <2>2. Among(work'[a], ToAsker) /\ Among(wire'[a], ToAsker) /\ Among(work'[b], ToInviter) /\ Among(wire'[b], ToInviter)
    BY <1>5, <1>7, <2>1 DEF Told
  <2>3. Fewer(work[b], wire[b], work'[b], wire'[b])
    BY <1>5, <1>7
  <2>4. received'[b] # NoRequest
    BY <1>6, RequestsDiffer
  <2> QED BY <2>1, <2>2, <2>3, <2>4, ToldStill
<1> QED BY <1>8, <1>9, <1>10 DEF One

(* The asker reads what it asked, and confirms.                            *)
LEMMA LookingAtAcceptedOne ==
  ASSUME Typed, NEW a \in People, NEW b \in People, Apart(a, b), One(a, b), NEW p \in People, LookAtAccepted(p)
  PROVE  One(a, b)'
<1>1. /\ work[p] # <<>> /\ UNCHANGED <<contact, asked, received, parts, wire>>
  BY DEF LookAtAccepted, Next1, Doing, book, link
<1>2. CASE asked[p] = 0
  BY <1>1, <1>2, DoneOne DEF LookAtAccepted
<1>3. CASE asked[p] # 0
  <2>1. p = a /\ asked[a] = 1
    BY <1>3, ParametersApart DEF One, Granted
  <2>2. work' = work /\ read'[a] = [of |-> "acceptance", part |-> 1] /\ read'[b] = read[b]
    BY <1>3, <2>1, ReadsBy DEF LookAtAccepted
  <2>3. Granted(a, b)'
    BY <1>1 DEF One, Granted
  <2>4. Looked(a, b)'
    BY <1>1, <2>2 DEF One, Looked
  <2>5. Told(a, b)'
    BY <1>1, <2>2 DEF One, Told
  <2> QED BY <2>3, <2>4, <2>5 DEF One
<1> QED BY <1>2, <1>3

LEMMA HandlingAcceptedOne ==
  ASSUME Typed, NEW a \in People, NEW b \in People, Apart(a, b), One(a, b), NEW p \in People, HandleAccepted(p)
  PROVE  One(a, b)'
<1>1. /\ work[p] # <<>> /\ Head(work[p]).type = "accepted" /\ read[p] # Nothing
      /\ Done(p) /\ Send(p, Confirming) /\ UNCHANGED <<received, parts>>
  BY DEF HandleAccepted, Doing, Confirming
<1>2. p = a /\ Part(a) = 2
  <2>1. p = b => Head(work[p]) \in ToInviter
    BY <1>1, AtHead
  <2>2. p = a
    BY <1>1, <2>1, ParametersApart, Types DEF ToInviter
  <2>3. Head(work[a]) \in ToAsker
    BY <1>1, <2>2, AtHead
  <2> QED BY <1>1, <2>2, <2>3, Types DEF ToAsker, Part
<1>3. read[a].part = 1
  BY <1>1, <1>2, Differ DEF One, Looked
<1>4. contact' = [contact EXCEPT ![a] = Shared(a)] /\ asked' = [asked EXCEPT ![a] = 0]
  BY <1>2, <1>3 DEF HandleAccepted, Shared
<1>5. contact'[a] = Shared(a) /\ contact'[b] = contact[b] /\ asked'[a] = 0 /\ asked'[b] = asked[b]
  BY <1>4 DEF Typed, BookTyped, Apart
<1>6. /\ work'[a] = Tail(work[a]) /\ work'[b] = work[b] /\ read'[a] = Nothing /\ read'[b] = read[b]
      /\ Among(Tail(work[a]), ToAsker)
      /\ wire'[a] = wire[a] /\ (wire'[b] = wire[b] \/ wire'[b] = Append(wire[b], Confirming))
  BY <1>1, <1>2, DoneWith, AtHead, SentTo
<1>7. Granted(a, b)'
  BY <1>1, <1>5 DEF One, Granted
<1>8. Looked(a, b)'
  BY <1>1, <1>5, <1>6 DEF One, Looked
<1>9. Told(a, b)'
  <2>1. Told(a, b)
    BY DEF One
  <2>2. work[b] \in Seq(Jobs) /\ wire[b] \in Seq(Jobs) /\ Confirming \in Jobs /\ Ordered(work[b], wire[b])
    BY <2>1, Queues, Said DEF Told
  <2>3. Ordered(work'[b], wire'[b]) /\ (Asks(work'[b], wire'[b]) => Asks(work[b], wire[b]))
    <3>1. /\ Ordered(work[b], Append(wire[b], Confirming))
          /\ Asks(work[b], Append(wire[b], Confirming)) => Asks(work[b], wire[b])
      BY <2>2, Types, OrderedSent
    <3> QED BY <1>6, <2>2, <3>1
  <2>4. Among(wire'[b], ToInviter)
    BY <1>6, <2>1, <2>2, LongerAmong DEF Told, ToInviter
  <2> QED BY <1>1, <1>5, <1>6, <2>1, <2>3, <2>4 DEF Told
<1> QED BY <1>7, <1>8, <1>9 DEF One

-----------------------------------------------------------------------------
(* Of the connection.                                                      *)
LEMMA ConnectionOne ==
  ASSUME Typed, NEW a \in People, NEW b \in People, Apart(a, b), One(a, b), NEW p \in People,
         TurnOut(p) \/ Arrive(p) \/ Connect(p) \/ Disconnect \/ Restart(p)
  PROVE  One(a, b)'
<1>1. UNCHANGED <<contact, asked, received, parts>> /\ Told(a, b)
  BY DEF TurnOut, Arrive, Connect, Disconnect, Restart, book, One
<1>2. Granted(a, b)'
  BY <1>1 DEF One, Granted
<1>3. /\ read'[a] \in {read[a], Nothing} /\ read'[b] \in {read[b], Nothing}
  BY DEF TurnOut, Arrive, Connect, Disconnect, Restart, Typed, ServiceTyped, service
<1>4. Looked(a, b)'
  BY <1>1, <1>3 DEF One, Looked
<1>5. /\ work[b] \in Seq(Jobs) /\ wire[b] \in Seq(Jobs) /\ Ordered(work[b], wire[b])
      /\ work[a] \in Seq(Jobs) /\ wire[a] \in Seq(Jobs) /\ Ready \in Jobs
  BY <1>1, Queues, Said DEF Told
<1>6. ASSUME Among(work'[a], ToAsker), Among(wire'[a], ToAsker), Among(work'[b], ToInviter), Among(wire'[b], ToInviter),
             Fewer(work[b], wire[b], work'[b], wire'[b])
      PROVE  Told(a, b)'
  BY <1>1, <1>6, ToldStill
<1>7. ASSUME UNCHANGED work, UNCHANGED wire \/ wire' = [q \in People |-> <<>>] PROVE Told(a, b)'
  <2>1. Among(work'[a], ToAsker) /\ Among(wire'[a], ToAsker) /\ Among(work'[b], ToInviter) /\ Among(wire'[b], ToInviter)
    BY <1>1, <1>7, Nowhere DEF Told
  <2>2. Fewer(work[b], wire[b], work'[b], wire'[b])
    BY <1>5, <1>7, SameIsFewer
  <2> QED BY <1>6, <2>1, <2>2
<1>8. ASSUME TurnOut(p) \/ Disconnect PROVE Told(a, b)'
  BY <1>7, <1>8 DEF TurnOut, Disconnect, Cut, service, link
<1>9. ASSUME Restart(p) PROVE Told(a, b)'
  <2>1. /\ wire' = [q \in People |-> <<>>]
        /\ \A q \in People : work'[q] = work[q] \/ work'[q] = <<>>
    BY <1>9 DEF Restart, Cut, Typed, ServiceTyped
  <2>2. Among(work'[a], ToAsker) /\ Among(wire'[a], ToAsker) /\ Among(work'[b], ToInviter) /\ Among(wire'[b], ToInviter)
    BY <1>1, <2>1, Nowhere DEF Told
  <2>3. Fewer(work[b], wire[b], work[b], <<>>) /\ Fewer(work[b], wire[b], <<>>, <<>>)
    BY <1>5, SameIsFewer, Nowhere DEF Fewer, Ordered, Confirms, Asks
  <2>4. Fewer(work[b], wire[b], work'[b], wire'[b])
    BY <2>1, <2>3
  <2> QED BY <1>6, <2>2, <2>4
<1>10. ASSUME Connect(p) PROVE Told(a, b)'
  <2>1. UNCHANGED wire /\ \A q \in People : work'[q] = Append(work[q], Ready)
    BY <1>10 DEF Connect
  <2>2. Among(work'[a], ToAsker) /\ Among(wire'[a], ToAsker) /\ Among(work'[b], ToInviter) /\ Among(wire'[b], ToInviter)
    <3>1. Ready \in ToAsker /\ Ready \in ToInviter
      BY DEF ToAsker, ToInviter
    <3>2. Among(work[a], ToAsker) /\ Among(wire[a], ToAsker) /\ Among(work[b], ToInviter) /\ Among(wire[b], ToInviter)
      BY <1>1 DEF Told
    <3>3. Among(Append(work[a], Ready), ToAsker)
      BY <1>5, <3>1, <3>2, LongerAmong
    <3>4. Among(Append(work[b], Ready), ToInviter)
      BY <1>5, <3>1, <3>2, LongerAmong
    <3> QED BY <2>1, <3>2, <3>3, <3>4
  <2>3. Fewer(work[b], wire[b], Append(work[b], Ready), wire[b])
    BY <1>5, Types, OrderedQueued DEF Fewer
  <2>4. Fewer(work[b], wire[b], work'[b], wire'[b])
    BY <2>1, <2>3
  <2> QED BY <1>6, <2>2, <2>4
<1>11. ASSUME Arrive(p) PROVE Told(a, b)'
  <2>1. /\ wire[p] # <<>> /\ wire'[p] = Tail(wire[p]) /\ work'[p] = Append(work[p], Head(wire[p]))
        /\ \A q \in People \ {p} : wire'[q] = wire[q] /\ work'[q] = work[q]
    BY <1>11 DEF Arrive, Queue, Typed, ServiceTyped, LinkTyped
  <2>2. \A S : Among(wire[p], S) => Among(Tail(wire[p]), S) /\ Head(wire[p]) \in S
    BY <2>1, Queues, ShorterHas
  <2>3. Head(wire[p]) \in Jobs
    BY <2>1, Queues
  <2>4. Among(work'[a], ToAsker) /\ Among(wire'[a], ToAsker)
    BY <1>1, <1>5, <2>1, <2>2, <2>3, LongerAmong DEF Told
  <2>5. Among(work'[b], ToInviter) /\ Among(wire'[b], ToInviter)
    BY <1>1, <1>5, <2>1, <2>2, <2>3, LongerAmong DEF Told
  <2>6. Fewer(work[b], wire[b], work'[b], wire'[b])
    <3>1. CASE p = a
      BY <1>5, <2>1, <3>1, SameIsFewer DEF Apart
    <3>2. CASE p = b
      <4>1. Fewer(work[b], wire[b], Append(work[b], Head(wire[b])), Tail(wire[b]))
        BY <1>5, <2>1, <3>2, OrderedArriving DEF Fewer
      <4> QED BY <2>1, <3>2, <4>1
    <3> QED BY <3>1, <3>2, ParametersApart
  <2> QED BY <1>6, <2>4, <2>5, <2>6
<1>12. Told(a, b)'
  BY <1>8, <1>9, <1>10, <1>11
<1> QED BY <1>2, <1>4, <1>12 DEF One

-----------------------------------------------------------------------------
(* Before anybody asks there is nothing, and nothing happens.              *)
LEMMA NothingYet ==
  ASSUME Typed, FlagsTyped, asks[ann] = 0, asks[bob] = 0, NoneYet, ~forgot', [Next]_vars
  PROVE  \/ NoneYet'
         \/ \E a \in People : Ask(a)
<1> SUFFICES ASSUME ~\E a \in People : Ask(a) PROVE NoneYet'
  OBVIOUS
<1>1. /\ \A p \in People : received[p].state = "none" /\ asked[p] = 0 /\ contact[p] = NoSecret /\ work[p] = <<>> /\ wire[p] = <<>>
      /\ parts = 0 /\ \A p \in People : received[p] = NoRequest
  BY Differ DEF NoneYet
<1>2. ASSUME NEW p \in People, Person(p) PROVE NoneYet'
  <2>1. ~AcceptRequest(p) /\ ~DeclineRequest(p) /\ ~Dismiss(p)
    BY <1>1 DEF AcceptRequest, DeclineRequest, Declines, Dismiss
  <2>2. ~Remove(p) /\ ~Block(p)
    BY DEF Remove, Block, Forgets
  <2>3. Unblock(p)
    BY <1>2, <2>1, <2>2 DEF Person
  <2> QED BY <2>3 DEF Unblock, NoneYet, service, link
<1>3. ASSUME NEW p \in People, Work(p) PROVE FALSE
  BY <1>1, <1>3 DEF Work, HandleReady, HandleAnswer, LookAtRequest, HandleRequest, LookAtAccepted, HandleAccepted,
                    HandleConfirmed, Next1, Doing
<1>4. ASSUME NEW p \in People, ExpireSent(p) \/ ExpireReceived(p) \/ Arrive(p) \/ Connect(p) PROVE FALSE
  BY <1>1, <1>4, OtherPerson DEF ExpireSent, ExpireReceived, Arrive, Connect
<1>5. ASSUME NEW p \in People, TurnOut(p) \/ Disconnect PROVE NoneYet'
  <2>1. UNCHANGED <<book, work, read>> /\ (UNCHANGED wire \/ wire' = [q \in People |-> <<>>])
    BY <1>5 DEF TurnOut, Disconnect, Cut, service, link
  <2> QED BY <2>1 DEF NoneYet, book
<1>6. ASSUME NEW p \in People, Restart(p) PROVE NoneYet'
  <2>1. UNCHANGED book /\ wire' = [q \in People |-> <<>>]
    BY <1>6 DEF Restart, Cut
  <2>2. \A q \in People : work'[q] = <<>> /\ read'[q] = Nothing
    BY <1>6 DEF Restart, NoneYet, Typed, ServiceTyped
  <2> QED BY <2>1, <2>2 DEF NoneYet, book
<1>7. ASSUME UNCHANGED vars PROVE NoneYet'
  BY <1>7 DEF NoneYet, vars, book, service, link
<1>8. People # {}
  BY DEF People
<1> QED BY <1>2, <1>3, <1>4, <1>5, <1>6, <1>7, <1>8 DEF Next

(* The first request.                                                      *)
LEMMA AskingOne ==
  ASSUME Typed, NEW a \in People, NEW b \in People, Apart(a, b), NoneYet, Ask(a)
  PROVE  One(a, b)'
<1>1. /\ asked'[a] = 1 /\ asked'[b] = 0 /\ parts' = 1
      /\ UNCHANGED <<contact, received, work, read, wire>>
  BY DEF Ask, NoneYet, Typed, BookTyped, Apart, service, link
<1>2. /\ received[a] = NoRequest /\ received[b] = NoRequest /\ contact[a] = NoSecret /\ contact[b] = NoSecret
      /\ work[a] = <<>> /\ work[b] = <<>> /\ wire[a] = <<>> /\ wire[b] = <<>>
      /\ read[a] = Nothing /\ read[b] = Nothing
  BY DEF NoneYet
<1>3. Granted(a, b)'
  BY <1>1, <1>2, Differ DEF Granted
<1>4. Looked(a, b)'
  BY <1>1, <1>2 DEF Looked
<1>5. Told(a, b)'
  BY <1>1, <1>2, Nowhere DEF Told, Ordered, Confirms, Asks
<1> QED BY <1>3, <1>4, <1>5 DEF One

-----------------------------------------------------------------------------
(* Only asking counts.                                                     *)
LEMMA AsksCounted ==
  ASSUME Typed, [Next]_vars
  PROVE  asks' = asks \/ \E p \in People : Ask(p) /\ asks' = [asks EXCEPT ![p] = @ + 1]
<1>1. ASSUME NEW p \in People, Person(p), ~Ask(p) PROVE asks' = asks
  BY <1>1 DEF Person, AcceptRequest, DeclineRequest, Dismiss, Remove, Block, Unblock, Forgets
<1>2. ASSUME NEW p \in People, Work(p) PROVE asks' = asks
  BY <1>2 DEF Work, HandleReady, HandleAnswer, LookAtRequest, HandleRequest, LookAtAccepted, HandleAccepted,
              HandleConfirmed, book
<1>3. ASSUME NEW p \in People,
             ExpireSent(p) \/ ExpireReceived(p) \/ TurnOut(p) \/ Arrive(p) \/ Connect(p) \/ Restart(p) \/ Disconnect
      PROVE  asks' = asks
  BY <1>3 DEF ExpireSent, ExpireReceived, TurnOut, Arrive, Connect, Restart, Disconnect, book
<1>4. ASSUME NEW p \in People, Ask(p) PROVE asks' = [asks EXCEPT ![p] = @ + 1]
  BY <1>4 DEF Ask
<1>5. People # {}
  BY DEF People
<1> QED BY <1>1, <1>2, <1>3, <1>4, <1>5 DEF Next, vars, book

(* Nor does anybody accept but by hand, of a request made once.            *)
LEMMA AcceptsCounted ==
  ASSUME Typed, [Next]_vars
  PROVE  accepts' = accepts \/ \E p \in People : AcceptRequest(p) /\ accepts' = accepts + 1
<1>1. ASSUME NEW p \in People, Person(p), ~AcceptRequest(p) PROVE accepts' = accepts
  BY <1>1 DEF Person, Ask, DeclineRequest, Dismiss, Remove, Block, Unblock, Forgets
<1>2. ASSUME NEW p \in People, Work(p) PROVE accepts' = accepts
  BY <1>2 DEF Work, HandleReady, HandleAnswer, LookAtRequest, HandleRequest, LookAtAccepted, HandleAccepted,
              HandleConfirmed, book
<1>3. ASSUME NEW p \in People,
             ExpireSent(p) \/ ExpireReceived(p) \/ TurnOut(p) \/ Arrive(p) \/ Connect(p) \/ Restart(p) \/ Disconnect
      PROVE  accepts' = accepts
  BY <1>3 DEF ExpireSent, ExpireReceived, TurnOut, Arrive, Connect, Restart, Disconnect, book
<1>4. ASSUME NEW p \in People, AcceptRequest(p) PROVE accepts' = accepts + 1
  BY <1>4 DEF AcceptRequest
<1>5. People # {}
  BY DEF People
<1> QED BY <1>1, <1>2, <1>3, <1>4, <1>5 DEF Next, vars, book

LEMMA StepByHand ==
  ASSUME Typed, NEW a \in People, NEW b \in People, Apart(a, b), One(a, b), ByHand(b), ~forgot', [Next]_vars
  PROVE  ByHand(b)'
<1>1. accepts \in Nat
  BY DEF Typed, BookTyped
<1>2. ASSUME NEW p \in People, AcceptRequest(p) PROVE ByHand(b)'
  BY <1>1, <1>2 DEF AcceptRequest, ByHand
<1>3. ASSUME accepts' = accepts, contact'[b] = contact[b] PROVE ByHand(b)'
  BY <1>3 DEF ByHand
<1>4. ASSUME NEW p \in People, Person(p), ~AcceptRequest(p) PROVE contact'[b] = contact[b]
  BY <1>4 DEF Person, Ask, DeclineRequest, Dismiss, Remove, Block, Unblock, Forgets
<1>5. ASSUME NEW p \in People, HandleRequest(p) PROVE contact'[b] = contact[b]
  <2>1. work[p] # <<>> /\ Head(work[p]).type = "request" /\ read[p] # Nothing /\ Answers(p)
    BY <1>5 DEF HandleRequest, Doing
  <2>2. p = a => Head(work[p]) \in ToAsker
    BY <2>1, AtHead
  <2>3. p = b
    BY <2>1, <2>2, ParametersApart, Types DEF ToAsker
  <2>4. read[b].of = "stranger"
    BY <2>1, <2>3, Differ DEF One, Looked
  <2> QED BY <2>1, <2>3, <2>4 DEF Answers
<1>6. ASSUME NEW p \in People, HandleAccepted(p) PROVE contact'[b] = contact[b]
  <2>1. work[p] # <<>> /\ Head(work[p]).type = "accepted"
    BY <1>6 DEF HandleAccepted, Doing
  <2>2. p = b => Head(work[p]) \in ToInviter
    BY <2>1, AtHead
  <2>3. p # b
    BY <2>1, <2>2, Types DEF ToInviter
  <2> QED BY <1>6, <2>3 DEF HandleAccepted, Typed, BookTyped
<1>7. ASSUME NEW p \in People, Work(p) PROVE contact'[b] = contact[b]
  <2>1. CASE HandleReady(p) \/ HandleAnswer(p) \/ LookAtRequest(p) \/ LookAtAccepted(p) \/ HandleConfirmed(p)
    BY <2>1 DEF HandleReady, HandleAnswer, LookAtRequest, LookAtAccepted, HandleConfirmed, book
  <2> QED BY <1>5, <1>6, <1>7, <2>1 DEF Work
<1>8. ASSUME NEW p \in People,
             ExpireSent(p) \/ ExpireReceived(p) \/ TurnOut(p) \/ Arrive(p) \/ Connect(p) \/ Restart(p) \/ Disconnect
      PROVE  contact'[b] = contact[b]
  BY <1>8 DEF ExpireSent, ExpireReceived, TurnOut, Arrive, Connect, Restart, Disconnect, book
<1>9. (\E p \in People : AcceptRequest(p)) \/ contact'[b] = contact[b]
  <2>1. People # {}
    BY DEF People
  <2> QED BY <1>4, <1>7, <1>8, <2>1 DEF Next, vars, book
<1> QED BY <1>2, <1>3, <1>9, AcceptsCounted

LEMMA StepOne ==
  ASSUME Typed, NEW a \in People, NEW b \in People, Apart(a, b), One(a, b), ByHand(b), accepts' < 2,
         ~forgot', [Next]_vars, ~\E p \in People : Ask(p)
  PROVE  One(a, b)'
<1>1. ASSUME NEW p \in People, Person(p) PROVE One(a, b)'
  BY <1>1, TakingBackOne, AcceptingOne DEF Person
<1>2. ASSUME NEW p \in People, Work(p) PROVE One(a, b)'
  BY <1>2, HandlingReadyOne, HandlingAnswerOne, HandlingConfirmedOne, LookingAtRequestOne, HandlingRequestOne,
     LookingAtAcceptedOne, HandlingAcceptedOne DEF Work
<1>3. ASSUME UNCHANGED vars PROVE One(a, b)'
  BY <1>3 DEF One, Granted, Looked, Told, vars, book, service, link
<1>4. People # {}
  BY DEF People
<1> QED BY <1>1, <1>2, <1>3, <1>4, TakingBackOne, ConnectionOne DEF Next

LEMMA ForgottenStays == FlagsTyped /\ forgot /\ [Next]_vars => forgot'
<1> SUFFICES ASSUME FlagsTyped, forgot, [Next]_vars PROVE forgot'
  OBVIOUS
<1>1. ASSUME NEW p \in People, Person(p) PROVE forgot'
  BY <1>1 DEF Person, Ask, AcceptRequest, DeclineRequest, Dismiss, Remove, Block, Unblock, Forgets
<1>2. ASSUME NEW p \in People, Work(p) PROVE forgot'
  BY <1>2 DEF Work, HandleReady, HandleAnswer, LookAtRequest, HandleRequest, LookAtAccepted, HandleAccepted,
              HandleConfirmed, book
<1>3. ASSUME NEW p \in People,
             ExpireSent(p) \/ ExpireReceived(p) \/ TurnOut(p) \/ Arrive(p) \/ Connect(p) \/ Restart(p) \/ Disconnect
      PROVE  forgot'
  BY <1>3 DEF ExpireSent, ExpireReceived, TurnOut, Arrive, Connect, Restart, Disconnect, book
<1>4. People # {}
  BY DEF People
<1> QED BY <1>1, <1>2, <1>3, <1>4 DEF Next, vars, book

LEMMA NextOne == Typed /\ FlagsTyped /\ OneInv /\ [Next]_vars => OneInv'
<1> SUFFICES ASSUME Typed, FlagsTyped, OneInv, [Next]_vars, ~forgot', accepts' < 2 PROVE OneInv'
  BY DEF OneInv
<1>1. ~forgot /\ accepts < 2
  <2>1. accepts \in Nat /\ (accepts' = accepts \/ accepts' = accepts + 1)
    BY AcceptsCounted DEF Typed, BookTyped
  <2> QED BY <2>1, ForgottenStays
<1>2. asks \in [People -> Nat] /\ ann \in People /\ bob \in People /\ Other(ann) = bob /\ Other(bob) = ann
  BY ContactsAssumption DEF Typed, BookTyped, People, Other
<1>3. CASE asks' = asks
  <2>1. ~\E p \in People : Ask(p)
    BY <1>2, <1>3 DEF Ask
  <2>2. asks[ann] = 0 /\ asks[bob] = 0 => NoneYet'
    BY <1>1, <2>1, NothingYet DEF OneInv
  <2>3. ASSUME NEW a \in People, asks[a] = 1, asks[Other(a)] = 0
        PROVE  One(a, Other(a))' /\ ByHand(Other(a))'
    <3>1. One(a, Other(a)) /\ ByHand(Other(a)) /\ Apart(a, Other(a)) /\ Other(a) \in People
      BY <1>1, <2>3, AllApart DEF OneInv
    <3>2. PICK b \in People : b = Other(a)
      BY <3>1
    <3>3. One(a, b)' /\ ByHand(b)'
      BY <2>1, <3>1, <3>2, StepOne, StepByHand
    <3> QED BY <3>2, <3>3
  <2> QED BY <1>3, <2>2, <2>3 DEF OneInv
<1>4. ASSUME NEW p \in People, Ask(p), asks' = [asks EXCEPT ![p] = @ + 1] PROVE OneInv'
  <2>1. asks'[p] = asks[p] + 1 /\ \A q \in People \ {p} : asks'[q] = asks[q]
    BY <1>2, <1>4
  <2>2. PICK o \in People : o = Other(p) /\ Apart(p, o)
    BY AllApart
  <2>3. ~(asks'[ann] = 0 /\ asks'[bob] = 0)
    BY <1>2, <2>1 DEF People
  <2>4. ASSUME NEW a \in People, asks'[a] = 1, asks'[Other(a)] = 0
        PROVE  One(a, Other(a))' /\ ByHand(Other(a))'
    <3>1. a = p
      BY <1>2, <2>1, <2>2, <2>4 DEF Apart
    <3>2. asks[p] = 0 /\ asks[o] = 0
      BY <1>2, <2>1, <2>2, <2>4, <3>1 DEF Apart
    <3>3. NoneYet
      BY <1>1, <1>2, <2>2, <3>2 DEF OneInv, Apart
    <3>4. One(p, o)'
      BY <1>4, <2>2, <3>3, AskingOne
    <3>5. ByHand(o)'
      BY <1>4, <2>2, <3>3 DEF Ask, NoneYet, ByHand
    <3> QED BY <2>2, <3>1, <3>4, <3>5
  <2> QED BY <2>3, <2>4 DEF OneInv
<1> QED BY <1>3, <1>4, AsksCounted

(* A request made once, accepted by hand at most once, and nobody removed: *)
(* contacts share its secret, whatever comes again, is lost or is taken    *)
(* back between what a service reads and writes (book.go's Accept,         *)
(* Requested, Accepted and Confirmed).                                     *)
THEOREM OneRequestShares == Spec => []OneRequestOneSecret
<1>1. Init => OneInv
  <2> SUFFICES ASSUME Init PROVE OneInv
    OBVIOUS
  <2>1. NoneYet
    BY DEF Init, NoneYet
  <2>2. asks = [p \in People |-> 0]
    BY DEF Init
  <2> QED BY <2>1, <2>2 DEF OneInv
<1>2. Spec => [](Typed /\ FlagsTyped /\ OneInv)
  BY <1>1, InitTyped, NextTyped, NextFlags, NextOne, PTL DEF Spec
<1>3. Typed /\ OneInv => OneRequestOneSecret
  <2> SUFFICES ASSUME Typed, OneInv, asks[ann] + asks[bob] = 1, accepts < 2, ~forgot, contact[ann] # NoSecret, contact[bob] # NoSecret
               PROVE  contact[ann] = contact[bob]
    BY DEF OneRequestOneSecret, ContactsShareASecret
  <2>1. /\ asks[ann] \in Nat /\ asks[bob] \in Nat /\ ann \in People /\ bob \in People
        /\ Other(ann) = bob /\ Other(bob) = ann
    BY ContactsAssumption DEF Typed, BookTyped, People, Other
  <2>2. (asks[ann] = 1 /\ asks[bob] = 0) \/ (asks[bob] = 1 /\ asks[ann] = 0)
    <3>1. \A x, y \in Nat : x + y = 1 => (x = 1 /\ y = 0) \/ (y = 1 /\ x = 0)
      OBVIOUS
    <3>2. asks[ann] + asks[bob] = 1
      OBVIOUS
    <3> QED BY <2>1, <3>1, <3>2
  <2>3. One(ann, bob) \/ One(bob, ann)
    BY <2>1, <2>2 DEF OneInv
  <2> QED BY <2>3 DEF One, Granted
<1> QED BY <1>2, <1>3, PTL
=============================================================================
