------------------------ MODULE DirectMessagesProofs ------------------------
(***************************************************************************)
(* What DirectMessages promises, proved for any number of entries, breaks  *)
(* and entries sent again.                                                 *)
(*                                                                         *)
(* That what is shown as delivered is held is not inductive: it rests on   *)
(* every message under way, and all work waiting, being true - an          *)
(* acknowledgement names an entry held, and what is said to be held is.    *)
(***************************************************************************)
EXTENDS DirectMessages, TLAPS, SequenceTheorems, FiniteSetTheorems

(* The true things p can be told.                                          *)
Told(p) ==
  [type : {"direct"}, n : 1..written[Other(p)]]
    \cup [type : {"ack"}, n : held[Other(p)]]
    \cup {m \in [type : {"holding"}, n : 0..MaxWritten] : 1..m.n \subseteq held[Other(p)]}

Doing(p) == Told(p) \cup [type : {"transmit"}, n : 1..written[p]] \cup {Ready, Wake}

Numbered ==
  \A p \in People : outbox[p] \subseteq 1..written[p] /\ calling[p] \subseteq 1..written[p]

UnderWay == \A p \in People : wire[p] \in Seq(Told(p)) /\ work[p] \in Seq(Doing(p))

IInv == TypeOK /\ Numbered /\ UnderWay /\ DeliveredIsHeld

-----------------------------------------------------------------------------
LEMMA OtherPerson ==
  \A p \in People : Other(p) \in People /\ Other(p) # p /\ Other(Other(p)) = p
BY DirectAssumption DEF People, Other

(* What was true of messages stays true as more is written and stored.     *)
LEMMA Monotonic ==
  ASSUME TypeOK,
         \A q \in People : written[q] \in Nat /\ written'[q] \in Nat /\ written[q] <= written'[q],
         \A q \in People : held[q] \subseteq held'[q],
         NEW p \in People
  PROVE  Told(p) \subseteq Told(p)' /\ Doing(p) \subseteq Doing(p)'
<1>1. \A q \in People : 1..written[q] \subseteq 1..written'[q]
  OBVIOUS
<1>2. Told(p) \subseteq Told(p)'
  <2>1. Other(p) \in People
    BY OtherPerson
  <2>2. /\ 1..written[Other(p)] \subseteq 1..written'[Other(p)]
        /\ held[Other(p)] \subseteq held'[Other(p)]
    BY <1>1, <2>1
  <2> QED
    BY <2>2 DEF Told
<1>3. 1..written[p] \subseteq 1..written'[p]
  BY <1>1
<1> QED
  BY <1>2, <1>3 DEF Doing

(* Sending what is true leaves only what is true under way.                *)
LEMMA Sending ==
  ASSUME wire \in [People -> Seq(Messages)], \A q \in People : wire[q] \in Seq(Told(q)),
         NEW p \in People, NEW messages, Send(p, messages),
         messages \in Seq(Told(Other(p))), messages \in Seq(Messages)
  PROVE  /\ wire' \in [People -> Seq(Messages)]
         /\ \A q \in People : wire'[q] \in Seq(Told(q))
<1>1. Other(p) \in People
  BY OtherPerson
<1>2. /\ wire[Other(p)] \o messages \in Seq(Messages)
      /\ wire[Other(p)] \o messages \in Seq(Told(Other(p)))
  BY <1>1, ConcatProperties
<1> QED
  BY <1>1, <1>2 DEF Send

(* Done takes the first of p's work.                                       *)
LEMMA Working ==
  ASSUME work \in [People -> Seq(Tasks)], \A q \in People : work[q] \in Seq(Doing(q)),
         NEW p \in People, NEW type, Next1(p, type), Done(p)
  PROVE  /\ Head(work[p]) \in Doing(p) /\ Head(work[p]) \in Tasks /\ Head(work[p]).type = type
         /\ work' \in [People -> Seq(Tasks)]
         /\ \A q \in People : work'[q] \in Seq(Doing(q))
<1>1. work[p] # << >> /\ Head(work[p]).type = type
  BY DEF Next1
<1>2. /\ Head(work[p]) \in Doing(p) /\ Tail(work[p]) \in Seq(Doing(p))
  BY <1>1, HeadTailProperties
<1>3. Head(work[p]) \in Tasks /\ Tail(work[p]) \in Seq(Tasks)
  BY <1>1, HeadTailProperties
<1> QED
  BY <1>1, <1>2, <1>3 DEF Done

(* Adding true work leaves only true work.                                 *)
LEMMA Adding ==
  ASSUME work \in [People -> Seq(Tasks)], \A q \in People : work[q] \in Seq(Doing(q)),
         NEW p \in People, NEW task \in Tasks, task \in Doing(p)
  PROVE  Append(work[p], task) \in Seq(Tasks) /\ Append(work[p], task) \in Seq(Doing(p))
BY AppendProperties

(* What each kind of work, if true, says.                                  *)
LEMMA Meaning ==
  ASSUME TypeOK, NEW p \in People, NEW m \in Doing(p)
  PROVE  /\ m.type = "direct" => m.n \in 1..written[Other(p)]
         /\ m.type = "ack" => m.n \in held[Other(p)]
         /\ m.type = "holding" => m.n \in 0..MaxWritten /\ 1..m.n \subseteq held[Other(p)]
         /\ m.type = "transmit" => m.n \in 1..written[p]
BY DEF Doing, Told, Ready, Wake

LEMMA WrittenIsNatural == TypeOK => \A p \in People : written[p] \in Nat /\ written[p] <= MaxWritten
BY DirectAssumption DEF TypeOK

LEMMA TheWake == Wake \in Tasks /\ Ready \in Tasks /\ \A p : Wake \in Doing(p) /\ Ready \in Doing(p)
BY DEF Tasks, Doing

-----------------------------------------------------------------------------
LEMMA InitIInv == Init => IInv
<1> SUFFICES ASSUME Init PROVE IInv
  OBVIOUS
<1>1. /\ <<Wake>> \in Seq(Tasks) /\ \A p : <<Wake>> \in Seq(Doing(p))
      /\ \A S : << >> \in Seq(S)
  <2>1. ASSUME NEW S, Wake \in S PROVE <<Wake>> \in Seq(S)
    BY <2>1
  <2> QED
    BY <2>1, TheWake, EmptySeq
<1>2. TypeOK
  <2>1. /\ written \in [People -> 0..MaxWritten] /\ {} \in SUBSET Entries
        /\ troubles \in Nat
    BY DirectAssumption DEF Init
  <2> QED
    BY <1>1, <2>1 DEF Init, TypeOK
<1>3. Numbered
  BY DEF Init, Numbered
<1>4. \A p \in People : wire[p] = << >> /\ work[p] = <<Wake>>
  BY DEF Init
<1>5. UnderWay
  BY <1>1, <1>4 DEF UnderWay
<1>6. DeliveredIsHeld
  BY DEF Init, DeliveredIsHeld, Delivered
<1> QED
  BY <1>2, <1>3, <1>5, <1>6 DEF IInv

-----------------------------------------------------------------------------
(* Every step of the service, the interface and the connection keeps the   *)
(* invariant.                                                              *)

LEMMA WriteKeeps == ASSUME IInv, NEW p \in People, Write(p) PROVE IInv'
<1> USE DEF IInv
<1>1. /\ written'[p] = written[p] + 1 /\ written'[p] \in 1..MaxWritten
      /\ \A q \in People : q # p => written'[q] = written[q]
      /\ \A q \in People : written[q] \in Nat /\ written'[q] \in Nat /\ written[q] <= written'[q]
      /\ written' \in [People -> 0..MaxWritten]
  <2>1. /\ written \in [People -> 0..MaxWritten] /\ written[p] < MaxWritten /\ MaxWritten \in Nat
        /\ written' = [written EXCEPT ![p] = written[p] + 1]
    BY DirectAssumption DEF Write, TypeOK
  <2>2. written[p] + 1 \in 1..MaxWritten
    BY <2>1
  <2> QED
    BY <2>1, <2>2
<1>2. /\ outbox' \in [People -> SUBSET Entries] /\ calling' \in [People -> SUBSET Entries]
      /\ \A q \in People : /\ outbox'[q] = IF q = p THEN outbox[q] \cup {written'[q]} ELSE outbox[q]
                           /\ calling'[q] = IF q = p THEN calling[q] \cup {written'[q]} ELSE calling[q]
  <2>1. /\ outbox \in [People -> SUBSET Entries] /\ calling \in [People -> SUBSET Entries]
        /\ outbox' = [outbox EXCEPT ![p] = @ \cup {written'[p]}]
        /\ calling' = [calling EXCEPT ![p] = @ \cup {written'[p]}]
    BY <1>1 DEF Write, TypeOK
  <2>2. written'[p] \in Entries
    BY <1>1 DEF Entries
  <2> QED
    BY <2>1, <2>2
<1>3. TypeOK'
  BY <1>1, <1>2 DEF Write, TypeOK
<1>4. Numbered'
  BY <1>1, <1>2 DEF Numbered
<1>5. UnderWay'
  <2>1. \A q \in People : Told(q) \subseteq Told(q)' /\ Doing(q) \subseteq Doing(q)'
    BY <1>1, Monotonic DEF Write
  <2> QED
    BY <2>1, SeqMonotonic DEF Write, UnderWay
<1>6. \A q \in People : Delivered(q)' = Delivered(q)
  BY <1>1, <1>2 DEF Delivered, Numbered
<1>7. DeliveredIsHeld'
  BY <1>6 DEF DeliveredIsHeld, Write
<1> QED
  BY <1>3, <1>4, <1>5, <1>7

(* Steps that write and store nothing leave true what is.                  *)
LEMMA Unmoved ==
  ASSUME UNCHANGED <<written, held>>
  PROVE  \A q : Told(q)' = Told(q) /\ Doing(q)' = Doing(q)
BY DEF Told, Doing

LEMMA SubmitKeeps == ASSUME IInv, NEW p \in People, Submit(p) PROVE IInv'
<1> USE DEF IInv
<1>1. PICK n \in calling[p] :
        /\ calling' = [calling EXCEPT ![p] = @ \ {n}]
        /\ work' = [work EXCEPT ![p] = Append(@, Transmit(n))]
  BY DEF Submit
<1>2. Transmit(n) \in Tasks /\ Transmit(n) \in Doing(p)
  <2>1. n \in Entries /\ n \in 1..written[p]
    BY DEF TypeOK, Numbered
  <2> QED
    BY <2>1 DEF Transmit, Tasks, Doing
<1>3. Append(work[p], Transmit(n)) \in Seq(Tasks) /\ Append(work[p], Transmit(n)) \in Seq(Doing(p))
  BY <1>2, Adding DEF TypeOK, UnderWay
<1>4. TypeOK'
  BY <1>1, <1>3 DEF Submit, TypeOK, store
<1>5. Numbered'
  BY <1>1 DEF Submit, Numbered, TypeOK, store
<1>6. UnderWay'
  BY <1>1, <1>3, Unmoved DEF Submit, UnderWay, TypeOK, store
<1>7. DeliveredIsHeld'
  BY DEF Submit, DeliveredIsHeld, Delivered, store
<1> QED
  BY <1>4, <1>5, <1>6, <1>7

LEMMA HandleWakeKeeps == ASSUME IInv, NEW p \in People, HandleWake(p) PROVE IInv'
<1> USE DEF IInv
<1>1. work' \in [People -> Seq(Tasks)] /\ \A q \in People : work'[q] \in Seq(Doing(q))
  BY Working DEF HandleWake, TypeOK, UnderWay
<1>2. TypeOK'
  BY <1>1 DEF HandleWake, TypeOK, store
<1>3. UnderWay'
  BY <1>1, Unmoved DEF HandleWake, UnderWay, store
<1> QED
  BY <1>2, <1>3 DEF HandleWake, Numbered, DeliveredIsHeld, Delivered, store

(* Recording what went out as sent keeps it a set of entries.              *)
LEMMA Recording ==
  ASSUME TypeOK, NEW p \in People, NEW entries, NEW waiting \in SUBSET Entries,
         Sends(p, entries, waiting)
  PROVE  sent' \in [People -> SUBSET Entries]
BY DEF Sends, TypeOK

LEMMA HandleTransmitKeeps == ASSUME IInv, NEW p \in People, HandleTransmit(p) PROVE IInv'
<1> USE DEF IInv
<1> DEFINE n == Head(work[p]).n
<1>1. /\ Head(work[p]) \in Doing(p) /\ Head(work[p]).type = "transmit"
      /\ work' \in [People -> Seq(Tasks)] /\ \A q \in People : work'[q] \in Seq(Doing(q))
  BY Working DEF HandleTransmit, TypeOK, UnderWay
<1>2. n \in 1..written[p]
  BY <1>1, Meaning
<1>3. Direct(n) \in Told(Other(p)) /\ Direct(n) \in Messages
  BY <1>2, OtherPerson, WrittenIsNatural, DirectAssumption DEF Direct, Told, Messages, Entries
<1>4. wire' \in [People -> Seq(Messages)] /\ \A q \in People : wire'[q] \in Seq(Told(q))
  <2>1. ASSUME NEW S, Direct(n) \in S PROVE <<Direct(n)>> \in Seq(S)
    BY <2>1
  <2> QED
    BY <1>3, <2>1, Sending DEF HandleTransmit, TypeOK, UnderWay
<1>5. sent' \in [People -> SUBSET Entries]
  <2>1. outbox[p] \in SUBSET Entries
    BY DEF TypeOK
  <2> QED
    BY <2>1, Recording DEF HandleTransmit
<1>6. TypeOK'
  BY <1>1, <1>4, <1>5 DEF HandleTransmit, TypeOK
<1>7. UnderWay'
  BY <1>1, <1>4, Unmoved DEF HandleTransmit, UnderWay
<1> QED
  BY <1>6, <1>7 DEF HandleTransmit, Numbered, DeliveredIsHeld, Delivered

LEMMA HandleReadyKeeps == ASSUME IInv, NEW p \in People, HandleReady(p) PROVE IInv'
<1> USE DEF IInv
<1>1. /\ work' \in [People -> Seq(Tasks)] /\ \A q \in People : work'[q] \in Seq(Doing(q))
  BY Working DEF HandleReady, TypeOK, UnderWay
<1>2. PICK n \in 0..MaxWritten : HoldsUpTo(p, n) /\ Send(p, <<Holding(n)>>)
  BY DEF HandleReady
<1>3. Holding(n) \in Told(Other(p)) /\ Holding(n) \in Messages
  BY <1>2, OtherPerson DEF Holding, Told, Messages, HoldsUpTo
<1>4. wire' \in [People -> Seq(Messages)] /\ \A q \in People : wire'[q] \in Seq(Told(q))
  <2>1. ASSUME NEW S, Holding(n) \in S PROVE <<Holding(n)>> \in Seq(S)
    BY <2>1
  <2> QED
    BY <1>2, <1>3, <2>1, Sending DEF TypeOK, UnderWay
<1>5. TypeOK'
  BY <1>1, <1>4 DEF HandleReady, TypeOK, store
<1>6. UnderWay'
  BY <1>1, <1>4, Unmoved DEF HandleReady, UnderWay, store
<1> QED
  BY <1>5, <1>6 DEF HandleReady, Numbered, DeliveredIsHeld, Delivered, store

LEMMA HandleDirectKeeps == ASSUME IInv, NEW p \in People, HandleDirect(p) PROVE IInv'
<1> USE DEF IInv
<1> DEFINE n == Head(work[p]).n
<1>1. /\ Head(work[p]) \in Doing(p) /\ Head(work[p]).type = "direct"
      /\ work' \in [People -> Seq(Tasks)] /\ \A q \in People : work'[q] \in Seq(Doing(q))
  BY Working DEF HandleDirect, TypeOK, UnderWay
<1>2. n \in 1..written[Other(p)] /\ n \in Entries
  BY <1>1, Meaning, OtherPerson, WrittenIsNatural, DirectAssumption DEF Entries
<1>3. /\ held' \in [People -> SUBSET Entries] /\ n \in held'[p]
      /\ \A q \in People : held[q] \subseteq held'[q]
  BY <1>2 DEF HandleDirect, TypeOK
<1>4. \A q \in People : Told(q) \subseteq Told(q)' /\ Doing(q) \subseteq Doing(q)'
  BY <1>3, Monotonic, WrittenIsNatural DEF HandleDirect
<1>5. wire' \in [People -> Seq(Messages)] /\ \A q \in People : wire'[q] \in Seq(Told(q)')
  <2>1. Ack(n) \in Messages /\ Ack(n) \in Told(Other(p))'
    BY <1>2, <1>3, OtherPerson DEF Ack, Messages, Told
  <2>2. \A q \in People : wire[q] \in Seq(Told(q)') /\ wire[q] \in Seq(Messages)
    BY <1>4, SeqMonotonic DEF UnderWay, TypeOK
  <2>3. ASSUME NEW S, Ack(n) \in S PROVE <<Ack(n)>> \in Seq(S)
    BY <2>3
  <2>4. /\ wire[Other(p)] \o <<Ack(n)>> \in Seq(Told(Other(p))')
        /\ wire[Other(p)] \o <<Ack(n)>> \in Seq(Messages)
    BY <2>1, <2>2, <2>3, OtherPerson, ConcatProperties
  <2> QED
    BY <2>2, <2>4, OtherPerson DEF HandleDirect, Send, TypeOK
<1>6. TypeOK'
  BY <1>1, <1>3, <1>5 DEF HandleDirect, TypeOK
<1>7. UnderWay'
  BY <1>1, <1>4, <1>5, SeqMonotonic DEF UnderWay
<1>8. DeliveredIsHeld'
  BY <1>3, OtherPerson DEF HandleDirect, DeliveredIsHeld, Delivered
<1> QED
  BY <1>6, <1>7, <1>8 DEF HandleDirect, Numbered

(* What the other holds may be delivered.                                  *)
LEMMA Delivering ==
  ASSUME IInv, NEW p \in People, NEW entries, Delivers(p, entries),
         entries \subseteq held[Other(p)], UNCHANGED <<written, held, calling>>
  PROVE  /\ outbox' \in [People -> SUBSET Entries] /\ letting' \in [People -> BOOLEAN]
         /\ Numbered' /\ DeliveredIsHeld'
<1> USE DEF IInv
<1>1. /\ outbox' \in [People -> SUBSET Entries] /\ letting' \in [People -> BOOLEAN]
      /\ \A q \in People : outbox'[q] = IF q = p THEN outbox[q] \ entries ELSE outbox[q]
  BY DEF Delivers, HasWaiting, TypeOK
<1>2. Numbered'
  BY <1>1 DEF Numbered
<1>3. DeliveredIsHeld'
  BY <1>1 DEF DeliveredIsHeld, Delivered
<1> QED
  BY <1>1, <1>2, <1>3

LEMMA HandleAckKeeps == ASSUME IInv, NEW p \in People, HandleAck(p) PROVE IInv'
<1> USE DEF IInv
<1> DEFINE n == Head(work[p]).n
<1>1. /\ Head(work[p]) \in Doing(p) /\ Head(work[p]).type = "ack"
      /\ work' \in [People -> Seq(Tasks)] /\ \A q \in People : work'[q] \in Seq(Doing(q))
  BY Working DEF HandleAck, TypeOK, UnderWay
<1>2. {n} \subseteq held[Other(p)]
  BY <1>1, Meaning
<1>3. /\ outbox' \in [People -> SUBSET Entries] /\ letting' \in [People -> BOOLEAN]
      /\ Numbered' /\ DeliveredIsHeld'
  BY <1>2, Delivering DEF HandleAck
<1>4. sent' \in [People -> SUBSET Entries]
  BY DEF HandleAck, TypeOK
<1>5. TypeOK'
  BY <1>1, <1>3, <1>4 DEF HandleAck, TypeOK
<1>6. UnderWay'
  BY <1>1, Unmoved DEF HandleAck, UnderWay
<1> QED
  BY <1>3, <1>5, <1>6

(* What comes after an entry is what was written after it.                 *)
LEMMA AfterIsTrue ==
  ASSUME TypeOK, NEW p \in People, NEW n \in Nat
  PROVE  After(p, n) \in Seq(Told(Other(p))) /\ After(p, n) \in Seq(Messages)
<1>1. written[p] \in Nat /\ written[p] <= MaxWritten /\ MaxWritten \in Nat
  BY WrittenIsNatural, DirectAssumption
<1>2. ASSUME NEW i \in 1..(written[p] - n)
      PROVE  Direct(n + i) \in Told(Other(p)) /\ Direct(n + i) \in Messages
  <2>1. n + i \in 1..written[p] /\ n + i \in Entries
    BY <1>1, <1>2 DEF Entries
  <2> QED
    BY <2>1, OtherPerson DEF Direct, Told, Messages
<1>3. ASSUME NEW S, \A i \in 1..(written[p] - n) : Direct(n + i) \in S
      PROVE  After(p, n) \in Seq(S)
  <2>1. CASE n <= written[p]
    <3>1. written[p] - n \in Nat
      BY <1>1, <2>1
    <3> QED
      BY <1>3, <3>1, IsASeq DEF After
  <2>2. CASE n > written[p]
    <3>1. 1..(written[p] - n) = {} /\ 1..0 = {}
      BY <1>1, <2>2
    <3>2. After(p, n) = [i \in 1..0 |-> Direct(n + i)]
      BY <3>1 DEF After
    <3>3. \A i \in 1..0 : Direct(n + i) \in S
      BY <3>1
    <3> QED
      BY <3>2, <3>3, IsASeq
  <2> QED
    BY <1>1, <2>1, <2>2
<1> QED
  BY <1>2, <1>3

LEMMA HandleHoldingKeeps == ASSUME IInv, NEW p \in People, HandleHolding(p) PROVE IInv'
<1> USE DEF IInv
<1> DEFINE n == Head(work[p]).n
<1>1. /\ Head(work[p]) \in Doing(p) /\ Head(work[p]).type = "holding"
      /\ work' \in [People -> Seq(Tasks)] /\ \A q \in People : work'[q] \in Seq(Doing(q))
  BY Working DEF HandleHolding, TypeOK, UnderWay
<1>2. n \in Nat /\ 1..n \subseteq held[Other(p)]
  BY <1>1, Meaning, DirectAssumption
<1>3. /\ outbox' \in [People -> SUBSET Entries] /\ letting' \in [People -> BOOLEAN]
      /\ Numbered' /\ DeliveredIsHeld'
  BY <1>2, Delivering DEF HandleHolding
<1>4. wire' \in [People -> Seq(Messages)] /\ \A q \in People : wire'[q] \in Seq(Told(q))
  BY <1>2, AfterIsTrue, Sending DEF HandleHolding, TypeOK, UnderWay
<1>5. sent' \in [People -> SUBSET Entries]
  <2>1. outbox'[p] \in SUBSET Entries
    BY <1>3
  <2> QED
    BY <2>1, Recording DEF HandleHolding
<1>6. TypeOK'
  BY <1>1, <1>3, <1>4, <1>5 DEF HandleHolding, TypeOK
<1>7. UnderWay'
  BY <1>1, <1>4, Unmoved DEF HandleHolding, UnderWay
<1> QED
  BY <1>3, <1>6, <1>7

LEMMA LetGoKeeps == ASSUME IInv, NEW p \in People, LetGo(p) PROVE IInv'
<1> USE DEF IInv
<1>1. TypeOK'
  BY DEF LetGo, TypeOK, store
<1>2. UnderWay'
  BY Unmoved DEF LetGo, UnderWay, store
<1> QED
  BY <1>1, <1>2 DEF LetGo, Numbered, DeliveredIsHeld, Delivered, store

LEMMA AgainKeeps == ASSUME IInv, NEW p \in People, Again(p) PROVE IInv'
<1> USE DEF IInv
<1>1. PICK late \in SUBSET outbox[p] :
        /\ \E messages \in [1..Cardinality(late) -> {Direct(n) : n \in late}] : Send(p, messages)
        /\ Sends(p, late, outbox[p])
  BY DEF Again, Unacknowledged
<1>2. PICK messages \in [1..Cardinality(late) -> {Direct(n) : n \in late}] : Send(p, messages)
  BY <1>1
<1>3. late \subseteq 1..written[p] /\ late \subseteq Entries /\ written[p] \in Nat
  BY WrittenIsNatural DEF Numbered, TypeOK
<1>4. Cardinality(late) \in Nat
  <2>1. IsFiniteSet(1..written[p])
    BY <1>3, FS_Interval
  <2> QED
    BY <1>3, <2>1, FS_Subset, FS_CardinalityType
<1>5. {Direct(n) : n \in late} \subseteq Told(Other(p)) /\ {Direct(n) : n \in late} \subseteq Messages
  BY <1>3, OtherPerson DEF Direct, Told, Messages
<1>6. messages \in Seq(Told(Other(p))) /\ messages \in Seq(Messages)
  <2>1. messages \in Seq({Direct(n) : n \in late})
    BY <1>4
  <2> QED
    BY <1>5, <2>1, SeqMonotonic
<1>7. wire' \in [People -> Seq(Messages)] /\ \A q \in People : wire'[q] \in Seq(Told(q))
  BY <1>2, <1>6, Sending DEF TypeOK, UnderWay
<1>8. sent' \in [People -> SUBSET Entries]
  <2>1. outbox[p] \in SUBSET Entries
    BY DEF TypeOK
  <2> QED
    BY <1>1, <2>1, Recording
<1>9. TypeOK'
  BY <1>7, <1>8 DEF Again, Troubles, TypeOK
<1>10. UnderWay'
  BY <1>7, Unmoved DEF Again, UnderWay
<1> QED
  BY <1>9, <1>10 DEF Again, Numbered, DeliveredIsHeld, Delivered

LEMMA ArriveKeeps == ASSUME IInv, NEW p \in People, Arrive(p) PROVE IInv'
<1> USE DEF IInv
<1>1. /\ Head(wire[p]) \in Told(p) /\ Tail(wire[p]) \in Seq(Told(p))
      /\ Head(wire[p]) \in Messages /\ Tail(wire[p]) \in Seq(Messages)
  BY HeadTailProperties DEF Arrive, TypeOK, UnderWay
<1>2. /\ Append(work[p], Head(wire[p])) \in Seq(Tasks)
      /\ Append(work[p], Head(wire[p])) \in Seq(Doing(p))
  BY <1>1, Adding DEF Tasks, Doing, TypeOK, UnderWay
<1>3. TypeOK'
  BY <1>1, <1>2 DEF Arrive, TypeOK, store
<1>4. UnderWay'
  BY <1>1, <1>2, Unmoved DEF Arrive, UnderWay, TypeOK, store
<1> QED
  BY <1>3, <1>4 DEF Arrive, Numbered, DeliveredIsHeld, Delivered, store

LEMMA ConnectKeeps == ASSUME IInv, Connect PROVE IInv'
<1> USE DEF IInv
<1>1. \A p \in People : work'[p] \in Seq(Tasks) /\ work'[p] \in Seq(Doing(p))
  BY TheWake, Adding DEF Connect, TypeOK, UnderWay
<1>2. TypeOK'
  BY <1>1 DEF Connect, TypeOK, store
<1>3. UnderWay'
  BY <1>1, Unmoved DEF Connect, UnderWay, store
<1> QED
  BY <1>2, <1>3 DEF Connect, Numbered, DeliveredIsHeld, Delivered, store

LEMMA EndsKeeps ==
  ASSUME IInv, Ends, UNCHANGED store,
         calling' \in [People -> SUBSET Entries], \A p \in People : calling'[p] \subseteq calling[p],
         want' \in [People -> BOOLEAN], letting' \in [People -> BOOLEAN],
         work' \in [People -> Seq(Tasks)], \A p \in People : work'[p] \in Seq(Doing(p))
  PROVE  IInv'
<1> USE DEF IInv
<1>1. \A S : << >> \in Seq(S)
  BY EmptySeq
<1>2. wire' \in [People -> Seq(Messages)] /\ \A p \in People : wire'[p] \in Seq(Told(p))
  BY <1>1 DEF Ends
<1>3. TypeOK'
  <2>1. up' = FALSE /\ troubles' = troubles + 1 /\ troubles \in Nat
    BY DEF Ends, Troubles, TypeOK
  <2>2. up' \in BOOLEAN
    BY <2>1, Zenon
  <2>3. troubles' \in Nat
    BY <2>1
  <2>4. UNCHANGED <<written, outbox, sent, held>>
    BY DEF store
  <2> QED
    BY <1>2, <2>2, <2>3, <2>4 DEF TypeOK
<1>4. UnderWay'
  BY <1>2, Unmoved DEF UnderWay, store
<1>5. Numbered' /\ DeliveredIsHeld'
  BY DEF Numbered, DeliveredIsHeld, Delivered, store
<1> QED
  BY <1>3, <1>4, <1>5

LEMMA RestartKeeps == ASSUME IInv, NEW p \in People, Restart(p) PROVE IInv'
<1> USE DEF IInv
<1>1. work' \in [People -> Seq(Tasks)] /\ \A q \in People : work'[q] \in Seq(Doing(q))
  <2>1. ASSUME NEW S, Wake \in S PROVE <<Wake>> \in Seq(S)
    BY <2>1
  <2>2. <<Wake>> \in Seq(Tasks) /\ <<Wake>> \in Seq(Doing(p))
    BY <2>1, TheWake
  <2> QED
    BY <2>2 DEF Restart, TypeOK, UnderWay
<1>2. /\ calling' \in [People -> SUBSET Entries] /\ \A q \in People : calling'[q] \subseteq calling[q]
      /\ want' \in [People -> BOOLEAN] /\ letting' \in [People -> BOOLEAN]
  BY DEF Restart, TypeOK
<1> QED
  BY <1>1, <1>2, EndsKeeps DEF Restart

LEMMA NextIInv == IInv /\ [Next]_vars => IInv'
<1> SUFFICES ASSUME IInv, [Next]_vars PROVE IInv'
  OBVIOUS
<1>1. ASSUME NEW p \in People, Work(p) PROVE IInv'
  BY <1>1, HandleWakeKeeps, HandleTransmitKeeps, HandleReadyKeeps, HandleDirectKeeps,
     HandleAckKeeps, HandleHoldingKeeps, LetGoKeeps DEF Work
<1>2. ASSUME NEW p \in People,
             Write(p) \/ Submit(p) \/ Again(p) \/ Arrive(p) \/ Restart(p)
      PROVE  IInv'
  BY <1>2, WriteKeeps, SubmitKeeps, AgainKeeps, ArriveKeeps, RestartKeeps
<1>3. CASE Connect
  BY <1>3, ConnectKeeps
<1>4. CASE Disconnect
  <2>1. /\ UNCHANGED store /\ Ends
        /\ calling' = calling /\ want' = want /\ letting' = letting /\ work' = work
    BY <1>4 DEF Disconnect
  <2> QED
    BY <2>1, EndsKeeps DEF IInv, TypeOK, UnderWay
<1>5. CASE UNCHANGED vars
  <2>1. TypeOK'
    BY <1>5 DEF vars, store, IInv, TypeOK
  <2>2. UnderWay'
    BY <1>5, Unmoved DEF vars, store, IInv, UnderWay
  <2> QED
    BY <1>5, <2>1, <2>2 DEF vars, store, IInv, Numbered, DeliveredIsHeld, Delivered
<1> QED
  BY <1>1, <1>2, <1>3, <1>4, <1>5 DEF Next

-----------------------------------------------------------------------------
(* Everything keeps its type, whatever is lost or sent again.              *)
THEOREM TypeCorrect == Spec => []TypeOK
<1>1. IInv => TypeOK
  BY DEF IInv
<1> QED
  BY <1>1, InitIInv, NextIInv, PTL DEF Spec

(* What the sender is shown as delivered, its recipient has stored: store  *)
(* .go's Acknowledged and HeldUpTo are only ever told of entries held.     *)
THEOREM DeliveredIsAlwaysHeld == Spec => []DeliveredIsHeld
<1>1. IInv => DeliveredIsHeld
  BY DEF IInv
<1> QED
  BY <1>1, InitIInv, NextIInv, PTL DEF Spec

-----------------------------------------------------------------------------
(* A step is one the promise allows, or none that it speaks of.            *)

LEMMA InitPromised == Init => Promised!Init
<1> SUFFICES ASSUME Init PROVE Promised!Init
  OBVIOUS
<1>1. \A p \in People : held[Other(p)] = {} /\ Delivered(p) = {}
  BY OtherPerson DEF Init, Delivered
<1> QED
  BY <1>1 DEF Promised!Init, Init

(* Nothing the promise speaks of changes with the outbox unchanged.        *)
LEMMA NothingPromised ==
  ASSUME UNCHANGED <<written, outbox, held>>
  PROVE  UNCHANGED <<written, [p \in People |-> held[Other(p)]], [p \in People |-> Delivered(p)]>>
BY DEF Delivered

LEMMA WritePromised == ASSUME IInv, NEW p \in People, Write(p) PROVE Promised!Write(p)
<1> USE DEF IInv
<1>1. /\ written'[p] = written[p] + 1
      /\ \A q \in People : q # p => written'[q] = written[q]
      /\ \A q \in People : written[q] \in Nat
  BY WrittenIsNatural DEF Write, TypeOK
<1>2. \A q \in People : outbox'[q] = IF q = p THEN outbox[q] \cup {written'[q]} ELSE outbox[q]
  BY DEF Write, TypeOK
<1>3. \A q \in People : Delivered(q)' = Delivered(q)
  <2>1. (1..(written[p] + 1)) \ (outbox[p] \cup {written[p] + 1}) = (1..written[p]) \ outbox[p]
    BY <1>1
  <2> QED
    BY <1>1, <1>2, <2>1 DEF Delivered
<1> QED
  BY <1>3 DEF Promised!Write, Write

LEMMA StorePromised ==
  ASSUME IInv, NEW p \in People, HandleDirect(p) PROVE Promised!Store(Other(p))
<1> USE DEF IInv
<1> DEFINE n == Head(work[p]).n
<1>1. Head(work[p]) \in Doing(p) /\ Head(work[p]).type = "direct"
  BY Working DEF HandleDirect, TypeOK, UnderWay
<1>2. n \in 1..written[Other(p)]
  BY <1>1, Meaning
<1>3. \A q \in People : held'[Other(q)] =
        IF q = Other(p) THEN held[Other(q)] \cup {n} ELSE held[Other(q)]
  BY OtherPerson DEF HandleDirect, TypeOK
<1>4. [q \in People |-> held'[Other(q)]] =
        [[q \in People |-> held[Other(q)]] EXCEPT ![Other(p)] = @ \cup {n}]
  BY <1>3, OtherPerson
<1>5. \A q \in People : Delivered(q)' = Delivered(q)
  BY DEF HandleDirect, Delivered
<1> QED
  BY <1>2, <1>4, <1>5 DEF Promised!Store, HandleDirect

LEMMA DeliverPromised ==
  ASSUME IInv, NEW p \in People, NEW entries, Delivers(p, entries),
         entries \subseteq held[Other(p)], UNCHANGED <<written, held>>
  PROVE  Promised!Deliver(p)
<1> USE DEF IInv
<1> DEFINE known == entries \cap 1..written[p]
<1>1. \A q \in People : outbox'[q] = IF q = p THEN outbox[q] \ entries ELSE outbox[q]
  BY DEF Delivers, HasWaiting, TypeOK
<1>2. \A q \in People : Delivered(q)' = IF q = p THEN Delivered(q) \cup known ELSE Delivered(q)
  BY <1>1 DEF Delivered
<1>3. [q \in People |-> Delivered(q)'] =
        [[q \in People |-> Delivered(q)] EXCEPT ![p] = @ \cup known]
  BY <1>2
<1>4. known \in SUBSET [q \in People |-> held[Other(q)]][p]
  OBVIOUS
<1> QED
  BY <1>3, <1>4 DEF Promised!Deliver

LEMMA NextPromised ==
  IInv /\ [Next]_vars =>
    [Promised!Next]_<<written, [p \in People |-> held[Other(p)]], [p \in People |-> Delivered(p)]>>
<1> DEFINE promised == <<written, [p \in People |-> held[Other(p)]], [p \in People |-> Delivered(p)]>>
<1> SUFFICES ASSUME IInv, [Next]_vars PROVE Promised!Next \/ UNCHANGED promised
  OBVIOUS
<1>1. ASSUME NEW p \in People, Write(p) PROVE Promised!Next
  BY <1>1, WritePromised DEF Promised!Next
<1>2. ASSUME NEW p \in People, HandleDirect(p) PROVE Promised!Next
  BY <1>2, StorePromised, OtherPerson DEF Promised!Next
<1>3. ASSUME NEW p \in People, HandleAck(p) PROVE Promised!Next
  <2>1. Head(work[p]) \in Doing(p) /\ Head(work[p]).type = "ack"
    BY <1>3, Working DEF HandleAck, IInv, TypeOK, UnderWay
  <2>2. {Head(work[p]).n} \subseteq held[Other(p)]
    BY <2>1, Meaning DEF IInv
  <2> QED
    BY <1>3, <2>2, DeliverPromised DEF HandleAck, Promised!Next
<1>4. ASSUME NEW p \in People, HandleHolding(p) PROVE Promised!Next
  <2>1. Head(work[p]) \in Doing(p) /\ Head(work[p]).type = "holding"
    BY <1>4, Working DEF HandleHolding, IInv, TypeOK, UnderWay
  <2>2. 1..Head(work[p]).n \subseteq held[Other(p)]
    BY <2>1, Meaning DEF IInv
  <2> QED
    BY <1>4, <2>2, DeliverPromised DEF HandleHolding, Promised!Next
<1>5. ASSUME NEW p \in People,
             \/ Submit(p) \/ HandleWake(p) \/ HandleTransmit(p) \/ HandleReady(p) \/ LetGo(p)
             \/ Again(p) \/ Arrive(p) \/ Restart(p)
      PROVE  UNCHANGED promised
  BY <1>5, NothingPromised
  DEF Submit, HandleWake, HandleTransmit, HandleReady, LetGo, Again, Arrive, Restart, store
<1>6. ASSUME Connect \/ Disconnect \/ UNCHANGED vars PROVE UNCHANGED promised
  BY <1>6, NothingPromised DEF Connect, Disconnect, vars, store
<1> QED
  BY <1>1, <1>2, <1>3, <1>4, <1>5, <1>6 DEF Next, Work

(* A conversation keeps its promise: entries are shown as delivered only   *)
(* once stored by the other, and for good (ADR 0011; service.go and the    *)
(* outbox of store.go).                                                    *)
THEOREM ConversationKeepsItsPromise == Spec => KeepsItsPromise
BY InitPromised, NextPromised, InitIInv, NextIInv, PTL
DEF Spec, KeepsItsPromise, Promised!Spec
=============================================================================
