------------------------- MODULE ConversationProofs -------------------------
(***************************************************************************)
(* What Conversation promises, proved for any number of entries, whatever  *)
(* the clocks of the machines do and however often an application stops.   *)
(*                                                                         *)
(* That one's own entries are in order is not inductive.  It rests on the  *)
(* clock never being behind one's own entries, which a clock that starts   *)
(* again owes to there being a latest moment in the store, and on an entry *)
(* not stored yet having a moment after every one there was when its call  *)
(* began.  Calls at once may be stored in another order than that of their *)
(* moments, so what counts as the latest edit is so by moments.            *)
(*                                                                         *)
(* Files that cross beside it (DirectFiles) change nothing of this: a      *)
(* conversation with files is a conversation still.                        *)
(***************************************************************************)
EXTENDS DirectFiles, TLAPS

(* What is written of an entry, and of a call.                             *)
Sound(entries) == \A e \in entries : e.n \in Nat /\ e.at \in Moments

HasLatest(entries) ==
  entries # {} => \E t \in {e.at : e \in entries} : \A e \in entries : ~Before(t, e.at)

HasNext(entries) == \E n \in {1} \cup {e.n + 1 : e \in entries} : \A e \in entries : e.n < n

(* An entry is stored after its call began, and has a moment after those   *)
(* of all stored by then.                                                  *)
InOrder(entries) ==
  \A e \in entries : /\ e.began \in Nat /\ e.began <= e.n
                      /\ \A d \in entries : d.n < e.began => Before(d.at, e.at)

Begun(c, entries) ==
  /\ c.began \in {1} \cup {e.n + 1 : e \in entries}
  /\ \A e \in entries : e.n < c.began => Before(e.at, c.at)

Timely(p) ==
  /\ Sound(held[p]) /\ HasLatest(held[p]) /\ HasNext(Own(p)) /\ InOrder(Own(p))
  /\ last[p] \in Moments /\ \A e \in Own(p) : ~Before(last[p], e.at)
  /\ \A c \in call[p] : c.at \in Moments /\ ~Before(last[p], c.at) /\ Begun(c, Own(p))
  /\ Sound(observing[p])

Shape ==
  /\ held = [p \in People |-> held[p]] /\ last = [p \in People |-> last[p]]
  /\ call = [p \in People |-> call[p]] /\ observing = [p \in People |-> observing[p]]

IInv == Shape /\ \A p \in People : Timely(p)

-----------------------------------------------------------------------------
(* The clock (hlc.go): a moment of Now is after every one the clock was    *)
(* at, and observing another's never takes it back.                        *)
THEOREM ClockGoesOn ==
  ASSUME NEW t \in Moments, NEW u \in Moments, NEW physical \in Nat
  PROVE  /\ Now(t, physical) \in Moments /\ Before(t, Now(t, physical))
         /\ Observe(t, u) \in Moments
         /\ ~Before(Observe(t, u), t) /\ ~Before(Observe(t, u), u)
BY DEF Moments, Now, Observe, Before

(* Moments are ordered.                                                    *)
LEMMA BeforeOrders ==
  ASSUME NEW t \in Moments, NEW u \in Moments, NEW v \in Moments
  PROVE  /\ ~Before(t, t)
         /\ Before(t, u) /\ Before(u, v) => Before(t, v)
         /\ Before(t, u) => ~Before(u, t)
         /\ ~Before(u, t) /\ Before(u, v) => Before(t, v)
         /\ Before(t, u) /\ ~Before(v, u) => Before(t, v)
         /\ ~Before(u, t) /\ ~Before(v, u) => ~Before(v, t)
BY DEF Moments, Before

LEMMA OtherPerson == \A p \in People : Other(p) \in People /\ Other(p) # p
BY ConversationAssumption DEF People, Other

(* One entry more has a latest moment still.                               *)
LEMMA OneMoreHasLatest ==
  ASSUME NEW entries, Sound(entries), HasLatest(entries), NEW e, e.n \in Nat, e.at \in Moments
  PROVE  Sound(entries \cup {e}) /\ HasLatest(entries \cup {e})
<1>1. Sound(entries \cup {e})
  BY DEF Sound
<1>2. CASE entries = {}
  <2>1. ~Before(e.at, e.at)
    BY BeforeOrders
  <2> QED
    BY <1>1, <1>2, <2>1 DEF HasLatest
<1>3. CASE entries # {}
  <2>1. PICK t \in {d.at : d \in entries} : \A d \in entries : ~Before(t, d.at)
    BY <1>3 DEF HasLatest
  <2>2. t \in Moments /\ t \in {d.at : d \in entries \cup {e}}
    BY DEF Sound
  <2>3. CASE ~Before(t, e.at)
    <3>1. \A d \in entries \cup {e} : ~Before(t, d.at)
      BY <2>1, <2>3
    <3> QED
      BY <1>1, <2>2, <3>1 DEF HasLatest
  <2>4. CASE Before(t, e.at)
    <3>1. ASSUME NEW d \in entries \cup {e}
          PROVE  ~Before(e.at, d.at)
      <4>1. CASE d = e
        BY <4>1, BeforeOrders
      <4>2. CASE d \in entries
        <5>1. d.at \in Moments /\ ~Before(t, d.at)
          BY <2>1, <4>2 DEF Sound
        <5> QED
          BY <2>2, <2>4, <5>1, BeforeOrders
      <4> QED
        BY <4>1, <4>2
    <3>2. e.at \in {d.at : d \in entries \cup {e}}
      OBVIOUS
    <3> QED
      BY <1>1, <3>1, <3>2 DEF HasLatest
  <2> QED
    BY <2>3, <2>4
<1> QED
  BY <1>2, <1>3

(* A clock that starts again is not behind any entry stored.               *)
LEMMA StartsLate ==
  ASSUME NEW entries, Sound(entries), HasLatest(entries)
  PROVE  LatestMoment(entries) \in Moments /\ \A e \in entries : ~Before(LatestMoment(entries), e.at)
<1>1. CASE entries = {}
  BY <1>1 DEF LatestMoment, Never, Moments
<1>2. CASE entries # {}
  <2>1. \E t \in {e.at : e \in entries} : \A e \in entries : ~Before(t, e.at)
    BY <1>2 DEF HasLatest
  <2>2. /\ LatestMoment(entries) \in {e.at : e \in entries}
        /\ \A e \in entries : ~Before(LatestMoment(entries), e.at)
    BY <1>2, <2>1 DEF LatestMoment
  <2> QED
    BY <2>2 DEF Sound
<1> QED
  BY <1>1, <1>2

-----------------------------------------------------------------------------
(* What a step that is not about p's own entries, call or clock leaves.    *)
LEMMA Untouched ==
  ASSUME NEW p \in People, Timely(p),
         held'[p] = held[p], last'[p] = last[p], call'[p] = call[p], observing'[p] = observing[p]
  PROVE  Timely(p)'
BY DEF Timely, Sound, HasLatest, HasNext, InOrder, Begun, Own

(* The next number is after all there are.                                 *)
LEMMA NextIsNext ==
  ASSUME NEW entries, Sound(entries), HasNext(entries)
  PROVE  /\ NextNumber(entries) \in {1} \cup {d.n + 1 : d \in entries} /\ NextNumber(entries) \in Nat
         /\ \A d \in entries : d.n \in Nat /\ d.n < NextNumber(entries)
<1>1. PICK n \in {1} \cup {d.n + 1 : d \in entries} : \A d \in entries : d.n < n
  BY DEF HasNext
<1>2. /\ NextNumber(entries) \in {1} \cup {d.n + 1 : d \in entries}
      /\ \A d \in entries : d.n < NextNumber(entries)
  BY <1>1 DEF NextNumber
<1> QED BY <1>2 DEF Sound

LEMMA CallKeeps == ASSUME IInv, NEW p \in People, Call(p) PROVE IInv'
<1>1. Shape'
  BY DEF IInv, Shape, Call, store
<1>2. PICK physical \in 0..occasion.wall : last' = [last EXCEPT ![p] = Now(last[p], physical)]
  BY DEF Call
<1>3. held' = held /\ observing' = observing
  BY DEF Call, store
<1>4. ASSUME NEW q \in People, q # p
      PROVE  Timely(q)'
  BY <1>2, <1>3, <1>4, Untouched DEF IInv, Shape, Call
<1>5. Timely(p)'
  <2>1. Timely(p)
    BY DEF IInv
  <2>2. last[p] \in Moments /\ last'[p] = Now(last[p], physical)
    BY <1>2, <2>1 DEF IInv, Shape, Timely
  <2>3. last'[p] \in Moments /\ Before(last[p], last'[p]) /\ ~Before(last'[p], last'[p])
    <3>1. physical \in Nat
      OBVIOUS
    <3> QED
      BY <2>2, <3>1, ClockGoesOn, BeforeOrders
  <2>4. PICK c : call'[p] = call[p] \cup {c} /\ c.at = last'[p] /\ c.began = NextNumber(Own(p))
    <3>1. PICK kind, on, about :
            call' = [call EXCEPT ![p] = @ \cup {[kind |-> kind, target |-> about, on |-> on, at |-> last'[p],
                                                  began |-> NextNumber(Own(p))]}]
      BY DEF Call
    <3> DEFINE c == [kind |-> kind, target |-> about, on |-> on, at |-> last'[p], began |-> NextNumber(Own(p))]
    <3>2. call'[p] = call[p] \cup {c}
      BY <3>1 DEF IInv, Shape
    <3>3. c.at = last'[p] /\ c.began = NextNumber(Own(p))
      OBVIOUS
    <3> QED BY <3>2, <3>3
  <2>5. ASSUME NEW e \in Own(p)
        PROVE  Before(e.at, last'[p]) /\ ~Before(last'[p], e.at)
    <3>1. e.at \in Moments /\ ~Before(last[p], e.at)
      BY <2>1 DEF Timely, Sound, Own
    <3> QED
      BY <2>2, <2>3, <3>1, BeforeOrders
  <2>6. Own(p)' = Own(p)
    BY <1>3 DEF Own
  <2>7. Sound(Own(p)) /\ HasNext(Own(p))
    BY <2>1 DEF Timely, Sound, Own
  <2>8. c.began \in {1} \cup {e.n + 1 : e \in Own(p)}
    BY <2>4, <2>7, NextIsNext
  <2>9. ASSUME NEW d \in call'[p]
        PROVE  d.at \in Moments /\ ~Before(last'[p], d.at) /\ Begun(d, Own(p))
    <3>1. CASE d = c
      BY <2>3, <2>4, <2>5, <2>8, <3>1 DEF Begun
    <3>2. CASE d \in call[p]
      <4>1. d.at \in Moments /\ ~Before(last[p], d.at) /\ Begun(d, Own(p))
        BY <2>1, <3>2 DEF Timely
      <4> QED BY <2>2, <2>3, <4>1, BeforeOrders
    <3> QED BY <2>4, <3>1, <3>2
  <2>10. \A d \in call'[p] : (d.at \in Moments /\ ~Before(last[p], d.at) /\ Begun(d, Own(p)))'
    BY <2>6, <2>9 DEF Begun
  <2> QED
    BY <1>3, <2>1, <2>3, <2>5, <2>6, <2>10 DEF Timely, Sound, HasLatest, HasNext, InOrder
<1> QED
  BY <1>1, <1>4, <1>5 DEF IInv

(* One entry more, of the number and moment that are next.                 *)
LEMMA OneMoreOfOnesOwn ==
  ASSUME NEW entries, Sound(entries), HasNext(entries), InOrder(entries),
         NEW e, e.n = NextNumber(entries), e.at \in Moments, Begun(e, entries)
  PROVE  e.n \in Nat /\ HasNext(entries \cup {e}) /\ InOrder(entries \cup {e})
<1>1. e.n \in {1} \cup {d.n + 1 : d \in entries}
  BY NextIsNext
<1>2. e.began \in {1} \cup {d.n + 1 : d \in entries} /\ \A d \in entries : d.n < e.began => Before(d.at, e.at)
  BY DEF Begun
<1>3. e.n \in Nat /\ \A d \in entries : d.n \in Nat /\ d.n < e.n
  BY NextIsNext
<1>4. e.began \in Nat /\ e.began <= e.n
  BY <1>1, <1>2, <1>3
<1>5. HasNext(entries \cup {e})
  <2>1. e.n + 1 \in {1} \cup {d.n + 1 : d \in entries \cup {e}}
    OBVIOUS
  <2>2. \A d \in entries \cup {e} : d.n < e.n + 1
    BY <1>3
  <2> QED
    BY <2>1, <2>2 DEF HasNext
<1>6. InOrder(entries \cup {e})
  <2>1. ASSUME NEW c \in entries \cup {e} PROVE c.began \in Nat /\ c.began <= c.n
    BY <1>4 DEF InOrder
  <2>2. ASSUME NEW c \in entries \cup {e}, NEW d \in entries \cup {e}, d.n < c.began
        PROVE  Before(d.at, c.at)
    <3>1. CASE d = e
      <4>1. c.n \in Nat /\ c.n <= e.n
        BY <1>3
      <4> QED BY <1>3, <2>1, <2>2, <3>1, <4>1
    <3>2. CASE d \in entries /\ c = e
      BY <1>2, <2>2, <3>2
    <3>3. CASE d \in entries /\ c \in entries
      BY <2>2, <3>3 DEF InOrder
    <3> QED BY <3>1, <3>2, <3>3
  <2> QED BY <2>1, <2>2 DEF InOrder
<1> QED
  BY <1>3, <1>5, <1>6

LEMMA AddKeeps == ASSUME IInv, NEW p \in People, Add(p) PROVE IInv'
<1>1. last' = last /\ observing' = observing
  BY DEF Add
<1>2. PICK c \in call[p] :
        /\ call' = [call EXCEPT ![p] = @ \ {c}]
        /\ \/ held' = held
           \/ held' = [held EXCEPT ![p] = @ \cup
                 {[author |-> p, n |-> NextNumber(Own(p)), kind |-> c.kind,
                   target |-> c.target, on |-> c.on, at |-> c.at, began |-> c.began]}]
  BY DEF Add
<1>3. /\ call'[p] = call[p] \ {c} /\ \A q \in People : q # p => call'[q] = call[q]
      /\ call' = [q \in People |-> call'[q]]
  BY <1>2 DEF IInv, Shape
<1>4. Shape' /\ \A q \in People : q # p => held'[q] = held[q]
  BY <1>1, <1>2, <1>3 DEF IInv, Shape
<1>5. ASSUME NEW q \in People, q # p
      PROVE  Timely(q)'
  BY <1>1, <1>3, <1>4, <1>5, Untouched DEF IInv
<1>6. Timely(p)
  BY DEF IInv
<1>7. Timely(p)'
  <2>1. CASE held' = held
    BY <1>1, <1>3, <1>6, <2>1 DEF Timely, Own, Sound, HasLatest, HasNext, InOrder, Begun
  <2>2. CASE held' # held
    <3> DEFINE e == [author |-> p, n |-> NextNumber(Own(p)), kind |-> c.kind,
                     target |-> c.target, on |-> c.on, at |-> c.at, began |-> c.began]
    <3>1. held'[p] = held[p] \cup {e}
      BY <1>2, <2>2 DEF IInv, Shape
    <3>2. Own(p)' = Own(p) \cup {e}
      BY <3>1 DEF Own
    <3>3. e.at \in Moments /\ ~Before(last[p], e.at) /\ Begun(e, Own(p))
      BY <1>6 DEF Timely, Begun
    <3>4. Sound(Own(p)) /\ HasNext(Own(p)) /\ InOrder(Own(p)) /\ e.n = NextNumber(Own(p))
      BY <1>6 DEF Timely, Sound, Own
    <3> HIDE DEF e
    <3>5. e.n \in Nat /\ HasNext(Own(p) \cup {e}) /\ InOrder(Own(p) \cup {e})
      BY <3>3, <3>4, OneMoreOfOnesOwn
    <3>6. Sound(held[p] \cup {e}) /\ HasLatest(held[p] \cup {e})
      BY <1>6, <3>3, <3>5, OneMoreHasLatest DEF Timely
    <3>7. Sound(held[p])' /\ HasLatest(held[p])'
      BY <3>1, <3>6 DEF Sound, HasLatest
    <3>8. HasNext(Own(p))' /\ InOrder(Own(p))'
      BY <3>2, <3>5 DEF HasNext, InOrder
    <3>9. \A d \in Own(p)' : ~Before(last'[p], d.at)
      BY <1>1, <1>6, <3>2, <3>3 DEF Timely
    <3>10. ASSUME NEW d \in call[p] PROVE Begun(d, Own(p) \cup {e})
      <4>1. d.began \in {1} \cup {f.n + 1 : f \in Own(p)} /\ \A f \in Own(p) : f.n < d.began => Before(f.at, d.at)
        BY <1>6 DEF Timely, Begun
      <4>2. e.n \in {1} \cup {f.n + 1 : f \in Own(p)} /\ \A f \in Own(p) : f.n \in Nat /\ f.n < e.n
        BY <3>4, NextIsNext
      <4>3. ~(e.n < d.began)
        BY <4>1, <4>2, <3>5
      <4> QED BY <4>1, <4>3 DEF Begun
    <3>11. \A d \in call'[p] : (d.at \in Moments /\ ~Before(last[p], d.at) /\ Begun(d, Own(p)))'
      BY <1>1, <1>3, <1>6, <3>2, <3>10 DEF Timely, Begun
    <3> QED
      BY <1>1, <1>6, <3>7, <3>8, <3>9, <3>11 DEF Timely, Sound
  <2> QED
    BY <2>1, <2>2
<1> QED
  BY <1>4, <1>5, <1>7 DEF IInv

LEMMA ReceiveKeeps == ASSUME IInv, NEW p \in People, Receive(p) PROVE IInv'
<1>1. PICK e \in Own(Other(p)) \ held[p] :
        held' = [held EXCEPT ![p] = @ \cup {e}] /\ observing' = [observing EXCEPT ![p] = {e}]
  BY DEF Receive
<1>2. last' = last /\ call' = call
  BY DEF Receive
<1>3. Shape' /\ held'[p] = held[p] \cup {e} /\ observing'[p] = {e}
  BY <1>1, <1>2 DEF IInv, Shape, Receive
<1>4. \A q \in People : q # p => held'[q] = held[q] /\ observing'[q] = observing[q]
  BY <1>1 DEF IInv, Shape
<1>5. ASSUME NEW q \in People, q # p
      PROVE  Timely(q)'
  BY <1>2, <1>4, <1>5, Untouched DEF IInv
<1>6. Timely(p) /\ Timely(Other(p)) /\ Other(p) # p
  BY OtherPerson DEF IInv
<1>7. e.author # p /\ e.n \in Nat /\ e.at \in Moments
  BY <1>6 DEF Own, Timely, Sound
<1>8. Own(p)' = Own(p)
  BY <1>3, <1>7 DEF Own
<1>9. Sound(held[p] \cup {e}) /\ HasLatest(held[p] \cup {e})
  BY <1>6, <1>7, OneMoreHasLatest DEF Timely
<1>10. Sound(held[p])' /\ HasLatest(held[p])' /\ Sound(observing[p])'
  BY <1>3, <1>7, <1>9 DEF Sound, HasLatest
<1>11. HasNext(Own(p))' /\ InOrder(Own(p))'
  BY <1>6, <1>8 DEF Timely, HasNext, InOrder
<1>12. Timely(p)'
  BY <1>2, <1>6, <1>8, <1>10, <1>11 DEF Timely, Begun
<1> QED
  BY <1>3, <1>5, <1>12 DEF IInv

LEMMA ObserveKeeps == ASSUME IInv, NEW p \in People, ObserveIt(p) PROVE IInv'
<1>1. PICK e \in observing[p] : last' = [last EXCEPT ![p] = Observe(@, e.at)]
  BY DEF ObserveIt
<1>2. /\ held' = held /\ call' = call /\ observing' = [observing EXCEPT ![p] = {}]
  BY DEF ObserveIt, store
<1>3. Shape' /\ last'[p] = Observe(last[p], e.at) /\ observing'[p] = {}
  BY <1>1, <1>2 DEF IInv, Shape, ObserveIt, store
<1>4. \A q \in People : q # p => last'[q] = last[q] /\ observing'[q] = observing[q]
  BY <1>1, <1>2 DEF IInv, Shape
<1>5. ASSUME NEW q \in People, q # p
      PROVE  Timely(q)'
  BY <1>2, <1>4, <1>5, Untouched DEF IInv
<1>6. Timely(p)
  BY DEF IInv
<1>7. last[p] \in Moments /\ e.at \in Moments
  BY <1>6 DEF Timely, Sound
<1>8. last'[p] \in Moments /\ ~Before(last'[p], last[p])
  <2>1. 0 \in Nat
    OBVIOUS
  <2> QED
    BY <1>3, <1>7, <2>1, ClockGoesOn
<1>9. ASSUME NEW t \in Moments, ~Before(last[p], t)
      PROVE  ~Before(last'[p], t)
  BY <1>7, <1>8, <1>9, BeforeOrders
<1>10. Own(p)' = Own(p) /\ held'[p] = held[p] /\ call'[p] = call[p]
  BY <1>2 DEF Own
<1>11. \A d \in Own(p) : d.at \in Moments
  BY <1>6 DEF Own, Timely, Sound
<1>12. Timely(p)'
  BY <1>3, <1>6, <1>8, <1>9, <1>10, <1>11 DEF Timely, Sound, HasLatest, HasNext, InOrder, Begun
<1> QED
  BY <1>3, <1>5, <1>12 DEF IInv

LEMMA RestartKeeps == ASSUME IInv, NEW p \in People, Restart(p) PROVE IInv'
<1>1. /\ held' = held /\ last' = [last EXCEPT ![p] = LatestMoment(held[p])]
      /\ call' = [call EXCEPT ![p] = {}] /\ observing' = [observing EXCEPT ![p] = {}]
  BY DEF Restart, store
<1>2. /\ Shape' /\ last'[p] = LatestMoment(held[p]) /\ call'[p] = {} /\ observing'[p] = {}
      /\ \A q \in People :
           q # p => last'[q] = last[q] /\ call'[q] = call[q] /\ observing'[q] = observing[q]
  BY <1>1 DEF IInv, Shape, Restart, store
<1>3. ASSUME NEW q \in People, q # p
      PROVE  Timely(q)'
  BY <1>1, <1>2, <1>3, Untouched DEF IInv
<1>4. Timely(p)
  BY DEF IInv
<1>5. last'[p] \in Moments /\ \A e \in held[p] : ~Before(last'[p], e.at)
  BY <1>2, <1>4, StartsLate DEF Timely
<1>6. Timely(p)'
  BY <1>1, <1>2, <1>4, <1>5 DEF Timely, Sound, HasLatest, HasNext, InOrder, Own
<1> QED
  BY <1>2, <1>3, <1>6 DEF IInv

(* The other steps are not about moments.                                  *)
LEMMA OthersKeep ==
  ASSUME IInv,
         \/ \E p \in People : Delivered(p) \/ Compact(p) \/ Forget(p) \/ MarkRead(p)
         \/ UNCHANGED vars
  PROVE  IInv'
<1>1. held' = held /\ last' = last /\ call' = call /\ observing' = observing
  BY DEF Delivered, Compact, Forget, MarkRead, vars, store
<1>2. Shape'
  BY <1>1 DEF IInv, Shape, Delivered, Compact, Forget, MarkRead, vars, store
<1>3. ASSUME NEW q \in People
      PROVE  Timely(q)'
  BY <1>1, Untouched DEF IInv
<1> QED
  BY <1>2, <1>3 DEF IInv

LEMMA InitTimely == Init => IInv
<1> SUFFICES ASSUME Init PROVE IInv
  OBVIOUS
<1>1. Shape
  BY DEF Init, Shape
<1>2. ASSUME NEW p \in People
      PROVE  Timely(p)
  <2>1. held[p] = {} /\ call[p] = {} /\ observing[p] = {} /\ last[p] \in Moments
    BY DEF Init, Never, Moments
  <2>2. Own(p) = {}
    BY <2>1 DEF Own
  <2> QED
    BY <2>1, <2>2 DEF Timely, Sound, HasLatest, HasNext, InOrder
<1> QED
  BY <1>1, <1>2 DEF IInv

(* An entry's moment is after those of all that its author had stored when *)
(* its call began: an edit is after what it edits and after the edits      *)
(* there were, however many calls there are at once (hlc.go; service.go's  *)
(* add; store.go's add and Last).                                          *)
THEOREM EntriesInOrder == Spec => []OwnEntriesInOrder
<1>1. IInv /\ [Next]_vars => IInv'
  BY CallKeeps, AddKeeps, ReceiveKeeps, ObserveKeeps, RestartKeeps, OthersKeep DEF Next
<1>2. IInv => OwnEntriesInOrder
  BY DEF IInv, Timely, InOrder, OwnEntriesInOrder
<1> QED
  BY InitTimely, <1>1, <1>2, PTL DEF Spec

-----------------------------------------------------------------------------
(* That wiping takes nothing from what is shown rests on what is wiped and *)
(* not deleted here alone being gone for whoever reads what p holds, and   *)
(* on an entry wiped by its author being one the other holds already.      *)

Ones(entries) == \A d, e \in entries : d.author = e.author

HasLast(entries) ==
  \A S \in SUBSET entries : S # {} /\ Ones(S) => \E l \in S : \A d \in S \ {l} : Earlier(d, l)

Kept(p) ==
  /\ \A e \in held[p] : e.author \in People /\ e \in held[e.author]
  /\ \A d, e \in Own(p) : d.n = e.n => d = e
  /\ HasLast(held[p])
  /\ \A m \in hidden[p] : Shown(m)
  /\ \A e \in Own(p) \ outbox[p] : e \in held[Other(p)]
  /\ \A e \in wiped[p] : e.author = p => e \in Own(p) \ outbox[p]
  /\ wiped[p] \ hidden[p] \subseteq Gone(held[p])

ShapeOfTexts ==
  /\ wiped = [p \in People |-> wiped[p]] /\ hidden = [p \in People |-> hidden[p]]
  /\ outbox = [p \in People |-> outbox[p]]

KInv == IInv /\ ShapeOfTexts /\ \A p \in People : Kept(p)

(* Entries that their authors' numbers tell apart, with a last of any.     *)
Alike(entries) ==
  /\ Sound(entries) /\ HasLast(entries)
  /\ \A d, e \in entries : d.author = e.author /\ d.n = e.n => d = e

LEMMA HeldAreAlike == ASSUME KInv, NEW p \in People PROVE Alike(held[p])
<1>1. \A e \in held[p] : e.author \in People /\ e \in Own(e.author)
  BY DEF KInv, Kept, Own
<1>2. Sound(held[p]) /\ HasLast(held[p])
  BY DEF KInv, IInv, Kept, Timely
<1>3. \A q \in People : \A d, e \in Own(q) : d.n = e.n => d = e
  BY DEF KInv, Kept
<1> QED
  BY <1>1, <1>2, <1>3 DEF Alike

(* One author's entries are ordered by their moments, and by their numbers *)
(* where those are the same.                                               *)
LEMMA EarlierOrders ==
  ASSUME NEW d, NEW e, NEW f, Sound({d, e, f}), d.author = e.author, e.author = f.author
  PROVE  /\ Earlier(d, e) => ~Earlier(e, d)
         /\ Earlier(d, e) /\ Earlier(e, f) => Earlier(d, f)
         /\ d.n # e.n => Earlier(d, e) \/ Earlier(e, d)
<1>1. /\ d.at \in Moments /\ e.at \in Moments /\ f.at \in Moments
      /\ d.n \in Nat /\ e.n \in Nat /\ f.n \in Nat
  BY DEF Sound
<1>2. \A t, u \in Moments : t = u \/ Before(t, u) \/ Before(u, t)
  BY DEF Moments, Before
<1>3. /\ Before(d.at, e.at) => ~Before(e.at, d.at) /\ d.at # e.at
      /\ Before(d.at, e.at) /\ Before(e.at, f.at) => Before(d.at, f.at)
  BY <1>1, BeforeOrders
<1>4. /\ Earlier(d, e) <=> Before(d.at, e.at) \/ (d.at = e.at /\ d.n < e.n)
      /\ Earlier(e, d) <=> Before(e.at, d.at) \/ (d.at = e.at /\ e.n < d.n)
      /\ Earlier(e, f) <=> Before(e.at, f.at) \/ (e.at = f.at /\ e.n < f.n)
      /\ Earlier(d, f) <=> Before(d.at, f.at) \/ (d.at = f.at /\ d.n < f.n)
  BY DEF Earlier
<1>5. Earlier(d, e) => ~Earlier(e, d)
  <2>1. d.at = e.at => ~Before(d.at, e.at) /\ ~Before(e.at, d.at)
    BY <1>1, BeforeOrders
  <2>2. ~(d.n < e.n /\ e.n < d.n)
    BY <1>1
  <2> QED BY <1>3, <1>4, <2>1, <2>2
<1>6. Earlier(d, e) /\ Earlier(e, f) => Earlier(d, f)
  <2>1. d.n < e.n /\ e.n < f.n => d.n < f.n
    BY <1>1
  <2> QED BY <1>3, <1>4, <2>1
<1>7. d.n # e.n => Earlier(d, e) \/ Earlier(e, d)
  <2>1. d.n # e.n => d.n < e.n \/ e.n < d.n
    BY <1>1
  <2> QED BY <1>1, <1>2, <1>4, <2>1
<1> QED BY <1>5, <1>6, <1>7

LEMMA OneMoreHasLast ==
  ASSUME NEW entries, Sound(entries), HasLast(entries), NEW e, e.n \in Nat, e.at \in Moments,
         \A d \in entries : d.author = e.author => d.n # e.n
  PROVE  HasLast(entries \cup {e})
<1> SUFFICES ASSUME NEW S \in SUBSET (entries \cup {e}), S # {}, Ones(S)
             PROVE  \E l \in S : \A d \in S \ {l} : Earlier(d, l)
  BY DEF HasLast
<1>1. CASE S \ {e} = {}
  <2>1. e \in S /\ S \ {e} = {}
    BY <1>1
  <2> QED
    BY <2>1
<1>2. CASE S \ {e} # {}
  <2>1. S \ {e} \in SUBSET entries /\ Ones(S \ {e})
    BY DEF Ones
  <2>2. PICK l \in S \ {e} : \A d \in (S \ {e}) \ {l} : Earlier(d, l)
    BY <1>2, <2>1 DEF HasLast
  <2>3. CASE e \in S /\ Earlier(l, e)
    <3>1. ASSUME NEW d \in S \ {e} PROVE Earlier(d, e)
      <4>1. CASE d = l
        BY <2>3, <4>1
      <4>2. CASE d # l
        <5>1. Earlier(d, l)
          BY <2>2, <4>2
        <5>2. Sound({d, l, e}) /\ d.author = l.author /\ l.author = e.author
          BY <2>1, <2>3 DEF Sound, Ones
        <5> QED BY <2>3, <5>1, <5>2, EarlierOrders
      <4> QED BY <4>1, <4>2
    <3> QED
      BY <2>3, <3>1
  <2>4. CASE ~(e \in S /\ Earlier(l, e))
    <3>1. e \in S => Earlier(e, l)
      <4> SUFFICES ASSUME e \in S PROVE Earlier(e, l)
        OBVIOUS
      <4>1. Sound({l, e, e}) /\ l.author = e.author /\ l.n # e.n
        BY <2>1 DEF Sound, Ones
      <4>2. Earlier(l, e) \/ Earlier(e, l)
        BY <4>1, EarlierOrders
      <4> QED BY <2>4, <4>2
    <3> QED
      BY <2>2, <3>1
  <2> QED
    BY <2>3, <2>4
<1> QED
  BY <1>1, <1>2

(* The latest of an author's entries is one, and later than the others.    *)
LEMMA LatestIsTheLast ==
  ASSUME NEW entries, Alike(entries), NEW S \in SUBSET entries, S # {}, Ones(S)
  PROVE  Latest(S) \in S /\ \A d \in S \ {Latest(S)} : Earlier(d, Latest(S))
<1>1. \E e \in S : \A d \in S \ {e} : Earlier(d, e)
  BY DEF Alike, HasLast
<1> QED
  BY <1>1 DEF Latest

(* What is gone stays gone as entries come.                                *)
LEMMA GoneStaysGone ==
  ASSUME NEW more, Alike(more), NEW entries \in SUBSET more, Alike(entries)
  PROVE  Gone(entries) \subseteq Gone(more)
<1> SUFFICES ASSUME NEW x \in Gone(entries) PROVE x \in Gone(more)
  OBVIOUS
<1>1. PICK m \in entries :
        /\ Shown(m) /\ x \in {m} \cup About(entries, m, "edit")
        /\ \/ About(entries, m, "deletion") # {}
           \/ About(entries, m, "edit") # {} /\ x # Latest(About(entries, m, "edit"))
  BY DEF Gone
<1> DEFINE A == About(entries, m, "edit")
           B == About(more, m, "edit")
<1>2. /\ About(entries, m, "deletion") \subseteq About(more, m, "deletion")
      /\ A \subseteq B /\ A \subseteq entries /\ B \subseteq more
      /\ Ones(A) /\ Ones(B)
  BY DEF About, Ones
<1>3. m \in more /\ x \in more /\ x \in {m} \cup B
  BY <1>1, <1>2
<1>4. CASE About(entries, m, "deletion") # {}
  <2>1. About(more, m, "deletion") # {}
    BY <1>2, <1>4
  <2> QED
    BY <1>1, <1>3, <2>1 DEF Gone
<1>5. CASE A # {} /\ x # Latest(A)
  <2>1. B # {}
    BY <1>2, <1>5
  <2>2. x # Latest(B)
    <3>1. /\ Latest(A) \in A /\ \A d \in A \ {Latest(A)} : Earlier(d, Latest(A))
          /\ Latest(B) \in B /\ \A d \in B \ {Latest(B)} : Earlier(d, Latest(B))
      BY <1>2, <1>5, <2>1, LatestIsTheLast
    <3>2. CASE x = m
      BY <1>1, <3>1, <3>2 DEF About, Shown
    <3>3. CASE x \in A
      <4>1. Earlier(x, Latest(A)) /\ Latest(A) \in B /\ x \in B
        BY <1>2, <1>5, <3>1, <3>3
      <4>2. Sound({x, Latest(A), x}) /\ x.author = Latest(A).author
        BY <1>2, <4>1 DEF Alike, Sound, Ones
      <4>3. ~Earlier(Latest(A), x)
        BY <4>1, <4>2, EarlierOrders
      <4> QED
        BY <1>5, <3>1, <4>1, <4>3
    <3> QED
      BY <1>1, <3>2, <3>3
  <2> QED
    BY <1>1, <1>3, <2>1, <2>2 DEF Gone
<1> QED
  BY <1>1, <1>4, <1>5

(* A message not deleted here alone shows the same with what is gone wiped.*)
LEMMA SameText ==
  ASSUME NEW entries, Alike(entries), NEW erased, NEW unseen, erased \ unseen \subseteq Gone(entries),
         \A h \in unseen : Shown(h), NEW m \in entries \ unseen, Shown(m)
  PROVE  /\ Deleted(entries, erased, m) <=> Deleted(entries, {}, m)
         /\ Text(entries, erased, m) = Text(entries, {}, m)
<1> DEFINE A == About(entries, m, "edit")
           D == About(entries, m, "deletion")
<1>1. Edits(entries, erased, m) = A \ erased /\ Edits(entries, {}, m) = A
  BY DEF Edits
<1>2. A \in SUBSET entries /\ Ones(A)
  BY DEF About, Ones
<1>3. CASE D # {}
  BY <1>3 DEF Deleted, Text
<1>4. CASE D = {}
  <2>1. ~Deleted(entries, {}, m)
    BY <1>4 DEF Deleted
  <2>2. ASSUME NEW e \in A, e \in erased
        PROVE  A # {} /\ e # Latest(A)
    <3>1. e.kind = "edit" /\ e.target = Id(m) /\ e.author = m.author /\ ~Shown(e)
      BY <2>2 DEF About, Shown
    <3>2. e \in Gone(entries)
      BY <2>2, <3>1
    <3>3. PICK t \in entries :
            /\ Shown(t) /\ e \in {t} \cup About(entries, t, "edit")
            /\ \/ About(entries, t, "deletion") # {}
               \/ About(entries, t, "edit") # {} /\ e # Latest(About(entries, t, "edit"))
      BY <3>2 DEF Gone
    <3>4. e.target = Id(t)
      BY <3>1, <3>3 DEF About
    <3>5. t.author = m.author /\ t.n = m.n
      BY <3>1, <3>4 DEF Id
    <3>6. t = m
      BY <3>5 DEF Alike
    <3> QED
      BY <1>4, <3>3, <3>6
  <2>3. CASE A = {}
    <3>1. m \notin erased
      <4> SUFFICES ASSUME m \in erased PROVE FALSE
        OBVIOUS
      <4>1. m \in Gone(entries)
        OBVIOUS
      <4>2. PICK t \in entries :
              /\ Shown(t) /\ m \in {t} \cup About(entries, t, "edit")
              /\ About(entries, t, "deletion") # {} \/ About(entries, t, "edit") # {}
        BY <4>1 DEF Gone
      <4>3. t = m
        BY <4>2 DEF About, Shown
      <4> QED
        BY <1>4, <2>3, <4>2, <4>3
    <3>2. ~Deleted(entries, erased, m)
      BY <1>4, <3>1 DEF Deleted
    <3> QED
      BY <1>1, <2>1, <2>3, <3>2 DEF Text
  <2>4. CASE A # {}
    <3>1. Latest(A) \in A /\ \A d \in A \ {Latest(A)} : Earlier(d, Latest(A))
      BY <1>2, <2>4, LatestIsTheLast
    <3>2. Latest(A) \in A \ erased
      BY <2>2, <3>1
    <3>3. /\ Latest(A \ erased) \in A \ erased
          /\ \A d \in (A \ erased) \ {Latest(A \ erased)} : Earlier(d, Latest(A \ erased))
      <4>1. A \ erased \in SUBSET entries /\ A \ erased # {} /\ Ones(A \ erased)
        BY <1>2, <3>2 DEF Ones
      <4> QED
        BY <4>1, LatestIsTheLast
    <3>4. Latest(A \ erased) = Latest(A)
      <4> DEFINE last1 == Latest(A)
                 last2 == Latest(A \ erased)
      <4>1. last1 \in A \ erased /\ last2 \in A
        BY <3>2, <3>3
      <4>2. last1 # last2 => Earlier(last2, last1) /\ Earlier(last1, last2)
        BY <3>1, <3>3, <4>1
      <4>3. Sound({last1, last2, last1}) /\ last1.author = last2.author
        BY <1>2, <4>1 DEF Alike, Sound, Ones
      <4> HIDE DEF last1, last2
      <4>4. last1 = last2
        BY <4>2, <4>3, EarlierOrders
      <4> QED
        BY <4>4 DEF last1, last2
    <3>5. ~Deleted(entries, erased, m)
      BY <1>1, <1>4, <3>2 DEF Deleted
    <3> QED
      BY <1>1, <2>1, <2>4, <3>2, <3>4, <3>5 DEF Text
  <2> QED
    BY <2>3, <2>4
<1> QED
  BY <1>3, <1>4

LEMMA SameFold ==
  ASSUME NEW entries, Alike(entries), NEW erased, NEW unseen, erased \ unseen \subseteq Gone(entries),
         \A h \in unseen : Shown(h)
  PROVE  Fold(entries, erased, unseen) = Fold(entries, {}, unseen)
<1> DEFINE S == {m \in entries : Shown(m)} \ unseen
<1>1. \A m \in S :
        /\ Deleted(entries, erased, m) <=> Deleted(entries, {}, m)
        /\ Text(entries, erased, m) = Text(entries, {}, m)
  BY SameText
<1>2. \A m \in S : Reactors(entries, erased, m) = Reactors(entries, {}, m)
  BY <1>1 DEF Reactors
<1>3. \A m \in S : {Text(entries, erased, t) : t \in {t \in S : Id(t) = m.target}}
                   = {Text(entries, {}, t) : t \in {t \in S : Id(t) = m.target}}
  BY <1>1
<1> QED
  BY <1>1, <1>2, <1>3 DEF Fold

-----------------------------------------------------------------------------
(* A step that leaves what is stored of texts.                             *)
LEMMA StoreUntouched == ASSUME KInv, IInv', UNCHANGED store PROVE KInv'
BY DEF KInv, ShapeOfTexts, Kept, store, Own, HasLast

LEMMA AddKeepsTexts == ASSUME KInv, IInv', NEW p \in People, Add(p) PROVE KInv'
<1>1. wiped' = wiped /\ hidden' = hidden
  BY DEF Add
<1>2. CASE held' = held /\ outbox' = outbox
  BY <1>1, <1>2, StoreUntouched DEF store
<1>3. CASE ~(held' = held /\ outbox' = outbox)
  <2>1. PICK c \in call[p] :
          LET e == [author |-> p, n |-> NextNumber(Own(p)), kind |-> c.kind,
                    target |-> c.target, on |-> c.on, at |-> c.at, began |-> c.began]
          IN  /\ held' = [held EXCEPT ![p] = @ \cup {e}]
              /\ outbox' = [outbox EXCEPT ![p] = @ \cup {e}]
    BY <1>3 DEF Add
  <2> DEFINE e == [author |-> p, n |-> NextNumber(Own(p)), kind |-> c.kind,
                   target |-> c.target, on |-> c.on, at |-> c.at, began |-> c.began]
  <2>2. /\ held'[p] = held[p] \cup {e} /\ outbox'[p] = outbox[p] \cup {e}
        /\ \A q \in People : q # p => held'[q] = held[q] /\ outbox'[q] = outbox[q]
        /\ ShapeOfTexts'
    BY <1>1, <2>1 DEF KInv, IInv, Shape, ShapeOfTexts
  <2>3. /\ \A q \in People : held[q] \subseteq held'[q] /\ wiped'[q] = wiped[q] /\ hidden'[q] = hidden[q]
        /\ e.author = p /\ e.n = NextNumber(Own(p)) /\ e.at \in Moments
    BY <1>1, <2>2 DEF KInv, IInv, Timely
  <2> HIDE DEF e
  <2>4. e.n \in Nat /\ \A d \in Own(p) : d.n \in Nat /\ d.n < e.n
    <3>1. Sound(Own(p)) /\ HasNext(Own(p))
      BY DEF KInv, IInv, Timely, Sound, Own
    <3> QED
      BY <2>3, <3>1, NextIsNext
  <2>5. \A q \in People : Own(q)' = IF q = p THEN Own(p) \cup {e} ELSE Own(q)
    BY <2>2, <2>3 DEF Own
  <2>6. \A q \in People : \A x, y \in Own(q)' : x.n = y.n => x = y
    <3> SUFFICES ASSUME NEW q \in People, NEW x \in Own(q)', NEW y \in Own(q)', x.n = y.n
                 PROVE  x = y
      OBVIOUS
    <3>1. CASE x \in Own(q) /\ y \in Own(q)
      BY <3>1 DEF KInv, Kept
    <3>2. CASE ~(x \in Own(q) /\ y \in Own(q))
      BY <2>4, <2>5, <3>2
    <3> QED
      BY <3>1, <3>2
  <2>7. \A q \in People : HasLast(held'[q])
    <3>1. Sound(held[p]) /\ HasLast(held[p])
      BY DEF KInv, IInv, Timely, Kept
    <3>2. \A d \in held[p] : d.author = e.author => d.n # e.n
      BY <2>3, <2>4 DEF Own
    <3>3. HasLast(held[p] \cup {e})
      BY <2>3, <2>4, <3>1, <3>2, OneMoreHasLast
    <3> QED
      BY <2>2, <3>3 DEF KInv, Kept, HasLast
  <2>8. \A q \in People : \A d \in held'[q] : d.author \in People /\ d \in held'[d.author]
    BY <2>2, <2>3 DEF KInv, Kept
  <2>9. \A q \in People : \A d \in Own(q)' \ outbox'[q] : d \in held'[Other(q)]
    BY <2>2, <2>3, <2>5, OtherPerson DEF KInv, Kept
  <2>10. \A q \in People : \A d \in wiped'[q] : d.author = q => d \in Own(q)' \ outbox'[q]
    <3> SUFFICES ASSUME NEW q \in People, NEW d \in wiped[q], d.author = q
                 PROVE  d \in Own(q)' \ outbox'[q]
      BY <2>3
    <3>1. d \in Own(q) \ outbox[q]
      BY DEF KInv, Kept
    <3>2. q = p => d # e
      BY <2>4, <3>1
    <3> QED
      BY <2>2, <2>5, <3>1, <3>2
  <2>11. \A q \in People : Gone(held[q]) \subseteq Gone(held'[q])
    <3> SUFFICES ASSUME NEW q \in People PROVE Gone(held[q]) \subseteq Gone(held'[q])
      OBVIOUS
    <3>1. Alike(held[q])
      BY HeldAreAlike
    <3>2. Alike(held'[q])
      <4>1. Sound(held'[q])
        BY DEF IInv, Timely
      <4>2. \A d \in held'[q] : d.author \in People /\ d \in Own(d.author)'
        BY <2>8 DEF Own
      <4> QED
        BY <2>6, <2>7, <4>1, <4>2 DEF Alike
    <3> QED
      BY <2>3, <3>1, <3>2, GoneStaysGone
  <2>12. \A q \in People : Kept(q)'
    BY <2>3, <2>6, <2>7, <2>8, <2>9, <2>10, <2>11 DEF KInv, Kept
  <2> QED
    BY <2>2, <2>12 DEF KInv
<1> QED
  BY <1>2, <1>3

LEMMA ReceiveKeepsTexts == ASSUME KInv, IInv', NEW p \in People, Receive(p) PROVE KInv'
<1>1. PICK e \in Own(Other(p)) \ held[p] :
        /\ held' = [held EXCEPT ![p] = @ \cup {e}]
        /\ wiped' = [wiped EXCEPT ![p] = @ \cup ({e} \cap wiped[Other(p)])]
  BY DEF Receive, ToWire
<1>2. Other(p) \in People /\ Other(p) # p /\ Other(Other(p)) = p
  BY ConversationAssumption DEF People, Other
<1>3. e \notin wiped[Other(p)]
  <2> SUFFICES ASSUME e \in wiped[Other(p)] PROVE FALSE
    OBVIOUS
  <2>1. e.author = Other(p)
    BY DEF Own
  <2>2. e \in Own(Other(p)) \ outbox[Other(p)]
    BY <1>2, <2>1 DEF KInv, Kept
  <2> QED
    BY <1>1, <1>2, <2>2 DEF KInv, Kept
<1>4. /\ hidden' = hidden /\ outbox' = outbox /\ held'[p] = held[p] \cup {e}
      /\ \A q \in People : wiped'[q] = wiped[q] /\ (q # p => held'[q] = held[q])
      /\ ShapeOfTexts'
  <2>1. {e} \cap wiped[Other(p)] = {}
    BY <1>3
  <2>2. wiped' = [wiped EXCEPT ![p] = @ \cup {}]
    BY <1>1, <2>1
  <2>3. \A q \in People : wiped'[q] = wiped[q]
    BY <2>2 DEF KInv, ShapeOfTexts
  <2>4. hidden' = hidden /\ outbox' = outbox
    BY DEF Receive
  <2>5. held'[p] = held[p] \cup {e} /\ \A q \in People : q # p => held'[q] = held[q]
    BY <1>1 DEF KInv, IInv, Shape
  <2>6. ShapeOfTexts'
    BY <2>2, <2>4 DEF KInv, ShapeOfTexts
  <2> QED
    BY <2>3, <2>4, <2>5, <2>6
<1>5. \A q \in People : held[q] \subseteq held'[q]
  BY <1>4
<1>6. e.author = Other(p) /\ e \in held[Other(p)] /\ e.n \in Nat /\ e.at \in Moments
  BY <1>2 DEF Own, KInv, IInv, Timely, Sound
<1>7. \A q \in People : Own(q)' = Own(q)
  BY <1>2, <1>4, <1>6 DEF Own
<1>8. \A q \in People : HasLast(held'[q])
  <2>1. Sound(held[p]) /\ HasLast(held[p])
    BY DEF KInv, IInv, Timely, Kept
  <2>2. \A d \in held[p] : d.author = e.author => d.n # e.n
    <3> SUFFICES ASSUME NEW d \in held[p], d.author = e.author, d.n = e.n PROVE FALSE
      OBVIOUS
    <3>1. d \in Own(Other(p)) /\ e \in Own(Other(p))
      BY <1>2, <1>6 DEF KInv, Kept, Own
    <3>2. d = e
      BY <1>2, <3>1 DEF KInv, Kept
    <3> QED BY <3>2
  <2>3. HasLast(held[p] \cup {e})
    BY <1>6, <2>1, <2>2, OneMoreHasLast
  <2> QED
    BY <1>4, <2>3 DEF KInv, Kept, HasLast
<1>9. \A q \in People : \A d \in held'[q] : d.author \in People /\ d \in held'[d.author]
  <2> SUFFICES ASSUME NEW q \in People, NEW d \in held'[q]
               PROVE  d.author \in People /\ d \in held'[d.author]
    OBVIOUS
  <2>1. CASE d \in held[q]
    BY <1>5, <2>1 DEF KInv, Kept
  <2>2. CASE d = e
    BY <1>2, <1>5, <1>6, <2>2
  <2> QED
    BY <1>4, <2>1, <2>2
<1>10. \A q \in People : Gone(held[q]) \subseteq Gone(held'[q])
  <2> SUFFICES ASSUME NEW q \in People PROVE Gone(held[q]) \subseteq Gone(held'[q])
    OBVIOUS
  <2>1. Alike(held[q])
    BY HeldAreAlike
  <2>2. Alike(held'[q])
    <3>1. Sound(held'[q])
      BY DEF IInv, Timely
    <3>2. \A d \in held'[q] : d.author \in People /\ d \in Own(d.author)
      BY <1>7, <1>9 DEF Own
    <3>3. \A a \in People : \A x, y \in Own(a) : x.n = y.n => x = y
      BY DEF KInv, Kept
    <3> QED
      BY <1>8, <3>1, <3>2, <3>3 DEF Alike
  <2> QED
    BY <1>5, <2>1, <2>2, GoneStaysGone
<1>11. \A q \in People : Kept(q)'
  <2> SUFFICES ASSUME NEW q \in People PROVE Kept(q)'
    OBVIOUS
  <2>1. Kept(q)
    BY DEF KInv
  <2>2. \A d, f \in Own(q)' : d.n = f.n => d = f
    BY <1>7, <2>1 DEF Kept
  <2>3. \A m \in hidden'[q] : Shown(m)
    BY <1>4, <2>1 DEF Kept
  <2>4. \A d \in Own(q)' \ outbox'[q] : d \in held'[Other(q)]
    BY <1>4, <1>5, <1>7, <2>1, OtherPerson DEF Kept
  <2>5. \A d \in wiped'[q] : d.author = q => d \in Own(q)' \ outbox'[q]
    BY <1>4, <1>7, <2>1 DEF Kept
  <2>6. wiped'[q] \ hidden'[q] \subseteq Gone(held'[q])
    BY <1>4, <1>10, <2>1 DEF Kept
  <2> QED
    BY <1>8, <1>9, <2>2, <2>3, <2>4, <2>5, <2>6 DEF Kept
<1> QED
  BY <1>4, <1>11 DEF KInv

LEMMA DeliveredKeepsTexts == ASSUME KInv, IInv', NEW p \in People, Delivered(p) PROVE KInv'
<1>1. PICK e \in outbox[p] \cap held[Other(p)] : outbox' = [outbox EXCEPT ![p] = @ \ {e}]
  BY DEF Delivered
<1>2. /\ held' = held /\ wiped' = wiped /\ hidden' = hidden /\ outbox'[p] = outbox[p] \ {e}
      /\ \A q \in People : q # p => outbox'[q] = outbox[q]
      /\ ShapeOfTexts' /\ e \in held[Other(p)]
  BY <1>1 DEF KInv, ShapeOfTexts, Delivered
<1>3. \A q \in People : Own(q)' = Own(q) /\ outbox'[q] \subseteq outbox[q]
  BY <1>2 DEF Own
<1>4. \A q \in People : \A d \in Own(q) \ outbox'[q] : d \in held[Other(q)]
  BY <1>2 DEF KInv, Kept
<1>5. \A q \in People : Kept(q)'
  BY <1>2, <1>3, <1>4 DEF KInv, Kept, HasLast
<1> QED
  BY <1>2, <1>5 DEF KInv

LEMMA CompactKeepsTexts == ASSUME KInv, IInv', NEW p \in People, Compact(p) PROVE KInv'
<1>1. wiped' = [wiped EXCEPT ![p] = @ \cup (Gone(held[p]) \ outbox[p])]
  BY DEF Compact, Wipes
<1>2. /\ held' = held /\ outbox' = outbox /\ hidden' = hidden
      /\ wiped'[p] = wiped[p] \cup (Gone(held[p]) \ outbox[p])
      /\ \A q \in People : q # p => wiped'[q] = wiped[q]
      /\ ShapeOfTexts'
  BY <1>1 DEF KInv, ShapeOfTexts, Compact
<1>3. \A q \in People : Own(q)' = Own(q) /\ Gone(held'[q]) = Gone(held[q])
  BY <1>2 DEF Own
<1>4. \A q \in People : \A d \in wiped'[q] : d.author = q => d \in Own(q) \ outbox[q]
  BY <1>2 DEF KInv, Kept, Gone, Own
<1>5. \A q \in People : Kept(q)'
  BY <1>2, <1>3, <1>4 DEF KInv, Kept, HasLast
<1> QED
  BY <1>2, <1>5 DEF KInv

LEMMA ForgetKeepsTexts == ASSUME KInv, IInv', NEW p \in People, Forget(p) PROVE KInv'
<1>1. PICK m \in held[p] \ outbox[p] :
        /\ Shown(m) /\ hidden' = [hidden EXCEPT ![p] = @ \cup {m}]
        /\ wiped' = [wiped EXCEPT ![p] = @ \cup {m}]
  BY DEF Forget
<1>2. /\ held' = held /\ outbox' = outbox /\ hidden'[p] = hidden[p] \cup {m}
      /\ wiped'[p] = wiped[p] \cup {m}
      /\ \A q \in People : q # p => wiped'[q] = wiped[q] /\ hidden'[q] = hidden[q]
      /\ ShapeOfTexts'
  BY <1>1 DEF KInv, ShapeOfTexts, Forget
<1>3. \A q \in People : Own(q)' = Own(q) /\ Gone(held'[q]) = Gone(held[q])
  BY <1>2 DEF Own
<1>4. \A q \in People : \A d \in wiped'[q] : d.author = q => d \in Own(q) \ outbox[q]
  BY <1>1, <1>2 DEF KInv, Kept, Own
<1>5. \A q \in People : \A h \in hidden'[q] : Shown(h)
  BY <1>1, <1>2 DEF KInv, Kept
<1>6. \A q \in People : wiped'[q] \ hidden'[q] \subseteq Gone(held[q])
  BY <1>2 DEF KInv, Kept
<1>7. \A q \in People : Kept(q)'
  BY <1>2, <1>3, <1>4, <1>5, <1>6 DEF KInv, Kept, HasLast
<1> QED
  BY <1>2, <1>7 DEF KInv

(* Wiping takes nothing from what a conversation shows (store.go's         *)
(* compact, entries.go's fold).                                            *)
THEOREM NothingShownIsWiped == Spec => []WipingHidesNothing
<1>1. Init => KInv
  <2> SUFFICES ASSUME Init PROVE KInv
    OBVIOUS
  <2>1. IInv
    BY InitTimely
  <2>2. \A p \in People : held[p] = {} /\ wiped[p] = {} /\ hidden[p] = {} /\ outbox[p] = {} /\ Own(p) = {}
    BY DEF Init, Own
  <2>3. ShapeOfTexts
    BY DEF Init, ShapeOfTexts
  <2>4. \A p \in People : Kept(p)
    BY <2>2 DEF Kept, HasLast
  <2> QED
    BY <2>1, <2>3, <2>4 DEF KInv
<1>2. KInv /\ [Next]_vars => KInv'
  <2> SUFFICES ASSUME KInv, [Next]_vars PROVE KInv'
    OBVIOUS
  <2>1. IInv'
    BY CallKeeps, AddKeeps, ReceiveKeeps, ObserveKeeps, RestartKeeps, OthersKeep DEF Next, KInv
  <2>2. ASSUME NEW p \in People, Call(p) \/ ObserveIt(p) \/ MarkRead(p) \/ Restart(p)
        PROVE  KInv'
    <3>1. UNCHANGED store
      BY <2>2 DEF Call, ObserveIt, MarkRead, Restart
    <3> QED
      BY <2>1, <3>1, StoreUntouched
  <2>3. CASE UNCHANGED vars
    BY <2>1, <2>3, StoreUntouched DEF vars
  <2> QED
    BY <2>1, <2>2, <2>3, AddKeepsTexts, ReceiveKeepsTexts, DeliveredKeepsTexts, CompactKeepsTexts,
       ForgetKeepsTexts DEF Next
<1>3. KInv => WipingHidesNothing
  <2> SUFFICES ASSUME KInv, NEW p \in People
               PROVE  Fold(held[p], wiped[p], hidden[p]) = Fold(held[p], {}, hidden[p])
    BY DEF WipingHidesNothing
  <2>1. Alike(held[p])
    BY HeldAreAlike
  <2>2. wiped[p] \ hidden[p] \subseteq Gone(held[p]) /\ \A h \in hidden[p] : Shown(h)
    BY DEF KInv, Kept
  <2> QED
    BY <2>1, <2>2, SameFold
<1> QED
  BY <1>1, <1>2, <1>3, PTL DEF Spec

-----------------------------------------------------------------------------
(* That nothing read before is unread again rests on there being a latest  *)
(* message, which reading comes up to.                                     *)
Messages(p) == {m \in held[p] : Shown(m)}

ReadShape == read = [p \in People |-> read[p]] /\ news = [p \in People |-> news[p]]

RInv ==
  /\ IInv /\ ReadShape
  /\ \A p \in People : HasLatest(Messages(p)) /\ Unread(p) \subseteq news[p]

(* What a step leaves that stores no entry and reads none.                 *)
LEMMA NothingToRead ==
  ASSUME RInv, IInv', UNCHANGED <<occasion, held, read, news>>
  PROVE  RInv'
BY DEF RInv, ReadShape, Messages, Unread, HasLatest

(* One entry more, which counts as unread only if it is news.              *)
LEMMA OneMoreToRead ==
  ASSUME RInv, IInv', NEW p \in People, NEW e, UNCHANGED <<occasion, read>>,
         held' = [held EXCEPT ![p] = @ \cup {e}],
         news' = [news EXCEPT ![p] = news'[p]], news[p] \subseteq news'[p],
         Shown(e) /\ occasion.reads /\ e.author # p => e \in news'[p]
  PROVE  RInv'
<1>1. held'[p] = held[p] \cup {e} /\ \A q \in People : q # p => held'[q] = held[q] /\ news'[q] = news[q]
  BY DEF RInv, IInv, Shape, ReadShape
<1>2. ReadShape'
  BY DEF RInv, ReadShape
<1>3. Sound(Messages(p)) /\ HasLatest(Messages(p)) /\ e.n \in Nat /\ e.at \in Moments
  BY <1>1 DEF RInv, IInv, Timely, Sound, Messages
<1>4. HasLatest(Messages(p)')
  <2>1. CASE Shown(e)
    <3>1. Messages(p)' = Messages(p) \cup {e}
      BY <1>1, <2>1 DEF Messages
    <3>2. HasLatest(Messages(p) \cup {e})
      BY <1>3, OneMoreHasLatest
    <3> QED BY <3>1, <3>2
  <2>2. CASE ~Shown(e)
    <3>1. Messages(p)' = Messages(p)
      BY <1>1, <2>2 DEF Messages
    <3> QED BY <1>3, <3>1
  <2> QED BY <2>1, <2>2
<1>5. (Unread(p) \subseteq news[p])'
  BY <1>1 DEF RInv, Unread
<1>6. ASSUME NEW q \in People, q # p PROVE (HasLatest(Messages(q)) /\ Unread(q) \subseteq news[q])'
  BY <1>1, <1>6 DEF RInv, Messages, Unread, HasLatest
<1>7. HasLatest(Messages(p))'
  BY <1>4 DEF HasLatest
<1> QED BY <1>2, <1>5, <1>6, <1>7 DEF RInv

(* An entry late, of a moment before what was read, is not unread again,   *)
(* and reading leaves nothing unread (store.go's MarkRead and unread).     *)
THEOREM NothingReadIsUnread == Spec => []UnreadIsNews
<1>1. Init => RInv
  <2> SUFFICES ASSUME Init PROVE RInv
    OBVIOUS
  <2>1. \A p \in People : held[p] = {} /\ Messages(p) = {} /\ Unread(p) = {}
    BY DEF Init, Messages, Unread
  <2>2. ReadShape
    BY DEF Init, ReadShape
  <2> QED BY <2>1, <2>2, InitTimely DEF RInv, HasLatest
<1>2. RInv /\ [Next]_vars => RInv'
  <2> SUFFICES ASSUME RInv, [Next]_vars PROVE RInv'
    OBVIOUS
  <2>1. IInv'
    BY CallKeeps, AddKeeps, ReceiveKeeps, ObserveKeeps, RestartKeeps, OthersKeep DEF Next, RInv
  <2>2. ASSUME NEW p \in People, Call(p) \/ ObserveIt(p) \/ Delivered(p) \/ Compact(p) \/ Forget(p) \/ Restart(p)
        PROVE  RInv'
    BY <2>1, <2>2, NothingToRead DEF Call, ObserveIt, Delivered, Compact, Forget, Restart, store
  <2>3. ASSUME UNCHANGED vars PROVE RInv'
    BY <2>1, <2>3, NothingToRead DEF vars, store
  <2>4. ASSUME NEW p \in People, Add(p) PROVE RInv'
    <3>1. UNCHANGED <<occasion, read, news>>
      BY <2>4 DEF Add
    <3>2. PICK c \in call[p] :
            \/ held' = held
            \/ held' = [held EXCEPT ![p] = @ \cup
                  {[author |-> p, n |-> NextNumber(Own(p)), kind |-> c.kind,
                    target |-> c.target, on |-> c.on, at |-> c.at, began |-> c.began]}]
      BY <2>4 DEF Add
    <3>3. CASE held' = held
      BY <2>1, <3>1, <3>3, NothingToRead
    <3>4. CASE held' # held
      <4> DEFINE e == [author |-> p, n |-> NextNumber(Own(p)), kind |-> c.kind,
                       target |-> c.target, on |-> c.on, at |-> c.at, began |-> c.began]
      <4>1. held' = [held EXCEPT ![p] = @ \cup {e}] /\ e.author = p
        BY <3>2, <3>4
      <4>2. news' = [news EXCEPT ![p] = news'[p]]
        BY <3>1 DEF RInv, ReadShape
      <4> HIDE DEF e
      <4> QED BY <2>1, <3>1, <4>1, <4>2, OneMoreToRead
    <3> QED BY <3>3, <3>4
  <2>5. ASSUME NEW p \in People, Receive(p) PROVE RInv'
    <3>1. PICK e \in Own(Other(p)) :
            /\ held' = [held EXCEPT ![p] = @ \cup {e}]
            /\ news' = [news EXCEPT ![p] = @ \cup {m \in {e} : Shown(m) /\ occasion.reads}]
      BY <2>5 DEF Receive
    <3>2. UNCHANGED <<occasion, read>>
      BY <2>5 DEF Receive
    <3>3. /\ news' = [news EXCEPT ![p] = news'[p]] /\ news[p] \subseteq news'[p]
          /\ Shown(e) /\ occasion.reads => e \in news'[p]
      BY <3>1 DEF RInv, ReadShape
    <3> QED BY <2>1, <3>1, <3>2, <3>3, OneMoreToRead
  <2>6. ASSUME NEW p \in People, MarkRead(p) PROVE RInv'
    <3>1. /\ read' = [read EXCEPT ![p] = LatestMoment(Messages(p))] /\ news' = [news EXCEPT ![p] = {}]
          /\ UNCHANGED <<occasion, held>>
      BY <2>6 DEF MarkRead, Messages, store
    <3>2. ReadShape' /\ \A q \in People : Messages(q)' = Messages(q)
      BY <3>1 DEF RInv, ReadShape, Messages
    <3>3. \A q \in People \ {p} : Unread(q)' = Unread(q) /\ news'[q] = news[q]
      BY <3>1 DEF RInv, ReadShape, Unread
    <3>4. \A m \in Messages(p) : ~Before(LatestMoment(Messages(p)), m.at)
      <4>1. Sound(Messages(p)) /\ HasLatest(Messages(p))
        BY DEF RInv, IInv, Timely, Sound, Messages
      <4> QED BY <4>1, StartsLate
    <3>5. Unread(p)' = {}
      BY <3>1, <3>4 DEF RInv, ReadShape, Unread, Messages
    <3>6. \A q \in People : (HasLatest(Messages(q)) /\ Unread(q) \subseteq news[q])'
      BY <3>2, <3>3, <3>5 DEF RInv, HasLatest
    <3> QED BY <2>1, <3>2, <3>6 DEF RInv
  <2> QED BY <2>2, <2>3, <2>4, <2>5, <2>6 DEF Next
<1>3. RInv => UnreadIsNews
  BY DEF RInv, UnreadIsNews
<1> QED BY <1>1, <1>2, <1>3, PTL DEF Spec

-----------------------------------------------------------------------------
FilesSafety == FilesInit /\ [][FilesNext]_fileVars

(* Every step of the files is a step of the conversation, or none of it    *)
(* (service.go's add and receive, beside pull, serve and File).            *)
THEOREM FilesConverse == FilesSafety => Spec
<1>1. FilesInit => Init
  BY DEF FilesInit
<1>2. [FilesNext]_fileVars => [Next]_vars
  <2> SUFFICES ASSUME [FilesNext]_fileVars PROVE [Next]_vars
    OBVIOUS
  <2>1. ASSUME NEW p \in People, Converse(p)
        PROVE  Next
    BY <2>1 DEF Converse, Next
  <2>2. ASSUME NEW p \in People, ReceiveEntry(p) \/ ObserveEntry(p) \/ Stop(p)
        PROVE  Next
    BY <2>2 DEF ReceiveEntry, ObserveEntry, Stop, Next
  <2>3. ASSUME NEW p \in People, FileWork(p) \/ ArriveRequest(p) \/ ArrivePiece(p)
        PROVE  UNCHANGED vars
    BY <2>3 DEF FileWork, HandleReady, Serve, File, ArriveRequest, ArrivePiece
  <2>4. CASE Connect \/ Disconnect \/ UNCHANGED fileVars
    BY <2>4 DEF Connect, Disconnect, fileVars
  <2> QED
    BY <2>1, <2>2, <2>3, <2>4 DEF FilesNext
<1> QED
  BY <1>1, <1>2, PTL DEF FilesSafety, Spec

(* So with files, too, nothing shown is wiped, one's own entries are in    *)
(* order and nothing read is unread again (store.go's compact and unread,  *)
(* hlc.go).                                                                *)
THEOREM FilesKeepTheConversation ==
  FilesSafety => [](WipingHidesNothing /\ OwnEntriesInOrder /\ UnreadIsNews)
BY FilesConverse, NothingShownIsWiped, EntriesInOrder, NothingReadIsUnread, PTL
=============================================================================
