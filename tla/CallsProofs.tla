---------------------------- MODULE CallsProofs ----------------------------
(***************************************************************************)
(* What Calls promises of what both sides of a call see of each other,     *)
(* proved for any people, however many calls are made at once and whenever *)
(* connections end.                                                        *)
(*                                                                         *)
(* Identifiers tell calls apart, a connection keeps what it carries in     *)
(* order and loses it with itself, and whoever was in a call in progress   *)
(* when theirs ended is not when the next begins.  None of this rests on a *)
(* call ringing only once: the person called may be in it again after they *)
(* ended it, and what says so to the caller is on its way by then.         *)
(***************************************************************************)
EXTENDS Calls, CallGoroutines, SequenceTheorems, TLAPS

(* What is on its way of a call.                                           *)
Is(m, step, id) == m.step = step /\ m.id = id
Has(s, step, id) == \E i \in DOMAIN s : Is(s[i], step, id)
Refusals == {"decline", "busy", "end"}
Clean(s, id) == \A i \in DOMAIN s : s[i].id = id => s[i].step \notin Refusals

(* Whoever sees screen now sees stream once they took s.                   *)
Showing(s, id, screen, stream) ==
  \/ ~Has(s, "screen", id) /\ screen = stream
  \/ \E i \in DOMAIN s : /\ Is(s[i], "screen", id) /\ s[i].stream = stream
                         /\ \A j \in DOMAIN s : Is(s[j], "screen", id) => j <= i

Shows(m, id, stream) == Is(m, "screen", id) /\ m.stream = stream

(* A call is accepted once, and nothing of it is shown before.             *)
AcceptedFirst(s, id) ==
  \A i, j \in DOMAIN s :
    Is(s[i], "accept", id) /\ (Is(s[j], "accept", id) \/ Is(s[j], "screen", id)) => i <= j

(* A caller's call c and what the person called is in, d; what is on its   *)
(* way to the person called, v, and from them, w; what each shares; and    *)
(* whether there is a connection, and either takes there to be one.        *)
InIt(c, d) == d.id = c.id /\ d.state = "active"
Agree(c, d, v, w, mine, theirs, on, here, there) ==
  /\ ~Has(v, "end", c.id)
  /\ Clean(w, c.id) /\ ~InIt(c, d) => ~Has(w, "accept", c.id) /\ ~Has(w, "screen", c.id)
  /\ c.state = "ringing" =>
       /\ mine = NoStream /\ c.screen = NoStream /\ ~Has(v, "screen", c.id)
       /\ d.id = c.id => d.screen = NoStream
       /\ Clean(w, c.id) /\ Has(w, "accept", c.id) =>
            AcceptedFirst(w, c.id) /\ Showing(w, c.id, NoStream, theirs)
  /\ c.state = "active" =>
       /\ here
       /\ on /\ Clean(w, c.id) =>
            /\ InIt(c, d) /\ there /\ ~Has(w, "accept", c.id)
            /\ Showing(w, c.id, c.screen, theirs) /\ Showing(v, c.id, d.screen, mine)

Together ==
  \A p, q \in People :
    Calling(p) /\ current[p].peer = q =>
      Agree(current[p], current[q], wire[p][q], wire[q][p], shared[p], shared[q],
            {p, q} \in up, q \in ready[p], p \in ready[q])

(* Nothing is on its way over a connection that is not there.              *)
OverConnections ==
  \A p, q \in People : {p, q} \notin up \/ q \notin ready[p] => wire[p][q] = <<>>

(* An identifier is of one caller and the person they called.              *)
On(s) == {s[i] : i \in DOMAIN s}
Roles(p, a, b) ==
  IF current[p].incoming THEN p = b /\ current[p].peer = a ELSE p = a /\ current[p].peer = b

OneCall ==
  /\ \A p \in People : Live(p) => current[p].id <= made /\ current[p].peer # p
  /\ \A a, b \in People : \A m \in On(wire[a][b]) :
       /\ m.id <= made
       /\ m.step = "ring" =>
            /\ \A p \in People : InCall(p, m.id) => Roles(p, a, b)
            /\ \A x, y \in People : \A n \in On(wire[x][y]) :
                 n.step = "ring" /\ n.id = m.id => x = a /\ y = b
  /\ \A p, q \in People : p # q /\ Live(p) /\ InCall(q, current[p].id) =>
       current[p].peer = q /\ current[q].peer = p /\ current[p].incoming = ~current[q].incoming

SharedInACall == \A p \in People : ~In(p, {"active"}) => shared[p] = NoStream

(* Whoever took a call, or declined it, says so.                           *)
Took(q, id) ==
  \/ InCall(q, id) /\ In(q, {"active"}) /\ current[q].incoming
  \/ Logged(q, id, TRUE, {"ended", "lost"})
Declined(q, id) == Logged(q, id, TRUE, {"declined"})
Truthful ==
  /\ \A p, q \in People : \A m \in On(wire[q][p]) :
       (m.step = "accept" => Took(q, m.id)) /\ (m.step = "decline" => Declined(q, m.id))
  /\ \A p \in People : Calling(p) /\ In(p, {"active"}) => Took(current[p].peer, current[p].id)
  /\ \A p \in People : \A e \in On(log[p]) :
       ~e.incoming /\ e.outcome = "declined" => \E r \in People : Declined(r, e.id)

IInv == TypeOK /\ Together /\ OverConnections /\ OneCall /\ SharedInACall /\ Truthful

-----------------------------------------------------------------------------
(* A message more on its way.                                              *)
LEMMA OneMore ==
  ASSUME NEW s \in Seq(Messages), NEW m \in Messages
  PROVE  LET t == Append(s, m)
         IN  /\ t \in Seq(Messages) /\ t # <<>> /\ s \o <<m>> = t
             /\ DOMAIN t = 1..Len(s) + 1 /\ DOMAIN s = 1..Len(s) /\ Len(s) \in Nat
             /\ \A i \in 1..Len(s) : t[i] = s[i]
             /\ t[Len(s) + 1] = m
<1>1. s \o <<m>> = Append(s, m)
  BY AppendIsConcat
<1> QED BY <1>1

LEMMA MoreHas ==
  ASSUME NEW s \in Seq(Messages), NEW m \in Messages, NEW step, NEW id
  PROVE  Has(Append(s, m), step, id) <=> Has(s, step, id) \/ Is(m, step, id)
<1> DEFINE t == Append(s, m)  n == Len(s)
<1>1. /\ DOMAIN t = 1..n + 1 /\ DOMAIN s = 1..n /\ n \in Nat
      /\ \A i \in 1..n : t[i] = s[i]
      /\ t[n + 1] = m
  BY OneMore
<1> HIDE DEF t, n
<1>2. Has(t, step, id) <=> Has(s, step, id) \/ Is(m, step, id)
  BY <1>1 DEF Has
<1> QED BY <1>2 DEF t

LEMMA MoreClean ==
  ASSUME NEW s \in Seq(Messages), NEW m \in Messages, NEW id
  PROVE  Clean(Append(s, m), id) <=> Clean(s, id) /\ (m.id = id => m.step \notin Refusals)
<1> DEFINE t == Append(s, m)  n == Len(s)
<1>1. /\ DOMAIN t = 1..n + 1 /\ DOMAIN s = 1..n /\ n \in Nat
      /\ \A i \in 1..n : t[i] = s[i]
      /\ t[n + 1] = m
  BY OneMore
<1> HIDE DEF t, n
<1>2. Clean(t, id) <=> Clean(s, id) /\ (m.id = id => m.step \notin Refusals)
  BY <1>1 DEF Clean
<1> QED BY <1>2 DEF t

LEMMA MoreShowing ==
  ASSUME NEW s \in Seq(Messages), NEW m \in Messages, NEW id, NEW screen, NEW stream
  PROVE  Showing(Append(s, m), id, screen, stream) <=>
           IF Is(m, "screen", id) THEN m.stream = stream ELSE Showing(s, id, screen, stream)
<1> DEFINE t == Append(s, m)  n == Len(s)
<1>1. /\ DOMAIN t = 1..n + 1 /\ DOMAIN s = 1..n /\ n \in Nat
      /\ \A i \in 1..n : t[i] = s[i]
      /\ t[n + 1] = m
  BY OneMore
<1>2. Has(t, "screen", id) <=> Has(s, "screen", id) \/ Is(m, "screen", id)
  BY MoreHas
<1> HIDE DEF t, n
<1>3. CASE Is(m, "screen", id)
  <2>1. ASSUME NEW i \in DOMAIN t, \A j \in DOMAIN t : Is(t[j], "screen", id) => j <= i
        PROVE  i = n + 1
    BY <1>1, <1>3, <2>1
  <2>2. \A j \in DOMAIN t : j <= n + 1
    BY <1>1
  <2>3. Showing(t, id, screen, stream) => m.stream = stream
    BY <1>1, <1>2, <1>3, <2>1 DEF Showing
  <2>4. m.stream = stream => Showing(t, id, screen, stream)
    BY <1>1, <1>3, <2>2 DEF Showing
  <2> QED BY <1>3, <2>3, <2>4 DEF t
<1>4. CASE ~Is(m, "screen", id)
  <2>1. \A i \in DOMAIN t : Is(t[i], "screen", id) => i \in DOMAIN s /\ t[i] = s[i]
    BY <1>1, <1>4
  <2>2. \A i \in DOMAIN s : i \in DOMAIN t /\ t[i] = s[i]
    BY <1>1
  <2>3. Showing(t, id, screen, stream) <=> Showing(s, id, screen, stream)
    BY <1>2, <1>4, <2>1, <2>2 DEF Showing
  <2> QED BY <1>4, <2>3 DEF t
<1> QED BY <1>3, <1>4

LEMMA MoreAccepted ==
  ASSUME NEW s \in Seq(Messages), NEW m \in Messages, NEW id
  PROVE  /\ AcceptedFirst(s, id) /\ ~Is(m, "accept", id) => AcceptedFirst(Append(s, m), id)
         /\ ~Has(s, "accept", id) /\ ~Has(s, "screen", id) => AcceptedFirst(Append(s, m), id)
<1> DEFINE t == Append(s, m)  n == Len(s)
<1>1. /\ DOMAIN t = 1..n + 1 /\ DOMAIN s = 1..n /\ n \in Nat
      /\ \A i \in 1..n : t[i] = s[i]
      /\ t[n + 1] = m
  BY OneMore
<1> HIDE DEF t, n
<1>2. ASSUME AcceptedFirst(s, id), ~Is(m, "accept", id) PROVE AcceptedFirst(t, id)
  <2> SUFFICES ASSUME NEW i \in DOMAIN t, NEW j \in DOMAIN t, Is(t[i], "accept", id),
                      Is(t[j], "accept", id) \/ Is(t[j], "screen", id)
               PROVE  i <= j
    BY DEF AcceptedFirst
  <2>1. i \in 1..n
    BY <1>1, <1>2
  <2>2. CASE j \in 1..n
    BY <1>1, <1>2, <2>1, <2>2 DEF AcceptedFirst
  <2>3. CASE j = n + 1
    BY <1>1, <2>1, <2>3
  <2> QED BY <1>1, <2>2, <2>3
<1>3. ASSUME ~Has(s, "accept", id), ~Has(s, "screen", id) PROVE AcceptedFirst(t, id)
  <2>1. \A j \in DOMAIN t : Is(t[j], "accept", id) \/ Is(t[j], "screen", id) => j = n + 1
    BY <1>1, <1>3 DEF Has
  <2> QED BY <1>1, <2>1 DEF AcceptedFirst
<1> QED BY <1>2, <1>3 DEF t

-----------------------------------------------------------------------------
(* The next message is taken.                                              *)
LEMMA OneLess ==
  ASSUME NEW s \in Seq(Messages), s # <<>>
  PROVE  /\ Tail(s) \in Seq(Messages) /\ Head(s) = s[1] /\ Head(s) \in Messages
         /\ Len(s) \in Nat \ {0}
         /\ DOMAIN s = 1..Len(s) /\ DOMAIN Tail(s) = 1..Len(s) - 1
         /\ \A i \in 1..Len(s) - 1 : Tail(s)[i] = s[i + 1]
OBVIOUS

(* Each index of a sequence is the first, or one more than one of the rest.*)
LEMMA Indices ==
  ASSUME NEW s \in Seq(Messages), s # <<>>
  PROVE  /\ 1 \in DOMAIN s
         /\ \A i \in DOMAIN s : i \in Nat /\ 1 <= i /\ (i = 1 \/ (i - 1 \in DOMAIN Tail(s) /\ Tail(s)[i - 1] = s[i]))
         /\ \A i \in DOMAIN Tail(s) : i \in Nat /\ i + 1 \in DOMAIN s /\ i + 1 # 1 /\ s[i + 1] = Tail(s)[i]
<1> DEFINE t == Tail(s)  n == Len(s)
<1>1. /\ n \in Nat \ {0} /\ DOMAIN s = 1..n /\ DOMAIN t = 1..n - 1
      /\ \A i \in 1..n - 1 : t[i] = s[i + 1]
  BY OneLess
<1> HIDE DEF t, n
<1>2. \A i \in 2..n : i - 1 \in 1..n - 1 /\ (i - 1) + 1 = i
  BY <1>1
<1>3. \A i \in 1..n : i = 1 \/ i \in 2..n
  BY <1>1
<1>4. \A i \in 1..n : i = 1 \/ (i - 1 \in DOMAIN t /\ t[i - 1] = s[i])
  BY <1>1, <1>2, <1>3
<1>5. \A i \in 1..n - 1 : i + 1 \in 1..n /\ i + 1 # 1
  BY <1>1
<1> QED BY <1>1, <1>4, <1>5 DEF t

LEMMA LessHas ==
  ASSUME NEW s \in Seq(Messages), s # <<>>, NEW step, NEW id
  PROVE  Has(s, step, id) <=> Is(Head(s), step, id) \/ Has(Tail(s), step, id)
<1>1. Head(s) = s[1]
  BY OneLess
<1> QED BY <1>1, Indices DEF Has

LEMMA LessClean ==
  ASSUME NEW s \in Seq(Messages), s # <<>>, NEW id
  PROVE  Clean(s, id) <=> Clean(Tail(s), id) /\ (Head(s).id = id => Head(s).step \notin Refusals)
<1>1. Head(s) = s[1]
  BY OneLess
<1> QED BY <1>1, Indices DEF Clean

LEMMA LessShowing ==
  ASSUME NEW s \in Seq(Messages), s # <<>>, NEW id, NEW screen, NEW stream
  PROVE  Showing(s, id, screen, stream) <=>
           Showing(Tail(s), id, IF Is(Head(s), "screen", id) THEN Head(s).stream ELSE screen, stream)
<1> DEFINE t == Tail(s)
<1>1. Head(s) = s[1] /\ 1 \in DOMAIN s
  BY OneLess, Indices
<1>2. \A i \in DOMAIN s : i \in Nat /\ 1 <= i /\ (i = 1 \/ (i - 1 \in DOMAIN t /\ t[i - 1] = s[i]))
  BY Indices
<1>3. \A i \in DOMAIN t : i \in Nat /\ i + 1 \in DOMAIN s /\ i + 1 # 1 /\ s[i + 1] = t[i]
  BY Indices
<1> HIDE DEF t
<1>4. CASE Has(t, "screen", id)
  <2>1. PICK k \in DOMAIN t : Is(t[k], "screen", id)
    BY <1>4 DEF Has
  <2>2. k + 1 \in DOMAIN s /\ Is(s[k + 1], "screen", id)
    BY <1>3, <2>1
  <2>3. ASSUME NEW i \in DOMAIN s, Is(s[i], "screen", id), s[i].stream = stream,
               \A j \in DOMAIN s : Is(s[j], "screen", id) => j <= i
        PROVE  /\ i - 1 \in DOMAIN t /\ Is(t[i - 1], "screen", id) /\ t[i - 1].stream = stream
               /\ \A j \in DOMAIN t : Is(t[j], "screen", id) => j <= i - 1
    <3>1. i # 1
      <4>1. k + 1 <= i /\ k \in Nat /\ k + 1 # 1
        BY <1>3, <2>1, <2>2, <2>3
      <4> QED BY <1>2, <4>1
    <3>2. i - 1 \in DOMAIN t /\ t[i - 1] = s[i]
      BY <1>2, <3>1
    <3>3. ASSUME NEW j \in DOMAIN t, Is(t[j], "screen", id) PROVE j <= i - 1
      <4>1. j + 1 <= i /\ j \in Nat /\ i \in Nat
        BY <1>2, <1>3, <2>3, <3>3
      <4> QED BY <4>1
    <3> QED BY <2>3, <3>2, <3>3
  <2>4. ASSUME NEW i \in DOMAIN t, Is(t[i], "screen", id), t[i].stream = stream,
               \A j \in DOMAIN t : Is(t[j], "screen", id) => j <= i
        PROVE  /\ i + 1 \in DOMAIN s /\ Is(s[i + 1], "screen", id) /\ s[i + 1].stream = stream
               /\ \A j \in DOMAIN s : Is(s[j], "screen", id) => j <= i + 1
    <3>1. i + 1 \in DOMAIN s /\ s[i + 1] = t[i] /\ i \in Nat
      BY <1>3
    <3>2. ASSUME NEW j \in DOMAIN s, Is(s[j], "screen", id) PROVE j <= i + 1
      <4>1. CASE j = 1
        BY <3>1, <4>1
      <4>2. CASE j # 1
        <5>1. j - 1 <= i /\ j \in Nat
          BY <1>2, <2>4, <3>2, <4>2
        <5> QED BY <3>1, <5>1
      <4> QED BY <4>1, <4>2
    <3> QED BY <2>4, <3>1, <3>2
  <2>5. Has(s, "screen", id)
    BY <2>2 DEF Has
  <2> QED BY <1>4, <2>3, <2>4, <2>5 DEF Showing, t
<1>5. CASE ~Has(t, "screen", id)
  <2>1. \A i \in DOMAIN s : Is(s[i], "screen", id) => i = 1
    BY <1>2, <1>5 DEF Has
  <2>2. ~ \E i \in DOMAIN t : Is(t[i], "screen", id)
    BY <1>5 DEF Has
  <2>3. CASE Is(s[1], "screen", id)
    <3>1. Has(s, "screen", id) /\ \A j \in DOMAIN s : Is(s[j], "screen", id) => j <= 1
      BY <1>1, <2>1, <2>3 DEF Has
    <3>2. Showing(s, id, screen, stream) <=> s[1].stream = stream
      BY <1>1, <2>1, <2>3, <3>1 DEF Showing
    <3> QED BY <1>1, <1>5, <2>2, <2>3, <3>2 DEF Showing, t
  <2>4. CASE ~Is(s[1], "screen", id)
    <3>1. ~Has(s, "screen", id)
      BY <2>1, <2>4 DEF Has
    <3>2. Showing(s, id, screen, stream) <=> screen = stream
      BY <3>1 DEF Showing, Has
    <3> QED BY <1>1, <1>5, <2>2, <2>4, <3>2 DEF Showing, t
  <2> QED BY <2>3, <2>4
<1> QED BY <1>4, <1>5

LEMMA LessAccepted ==
  ASSUME NEW s \in Seq(Messages), s # <<>>, NEW id, AcceptedFirst(s, id)
  PROVE  /\ AcceptedFirst(Tail(s), id)
         /\ Is(Head(s), "accept", id) \/ Is(Head(s), "screen", id) => ~Has(Tail(s), "accept", id)
<1> DEFINE t == Tail(s)
<1>1. Head(s) = s[1] /\ 1 \in DOMAIN s
  BY OneLess, Indices
<1>2. \A i \in DOMAIN t : i \in Nat /\ i + 1 \in DOMAIN s /\ i + 1 # 1 /\ s[i + 1] = t[i]
  BY Indices
<1> HIDE DEF t
<1>3. AcceptedFirst(t, id)
  <2> SUFFICES ASSUME NEW i \in DOMAIN t, NEW j \in DOMAIN t, Is(t[i], "accept", id),
                      Is(t[j], "accept", id) \/ Is(t[j], "screen", id)
               PROVE  i <= j
    BY DEF AcceptedFirst
  <2>1. i + 1 <= j + 1 /\ i \in Nat /\ j \in Nat
    BY <1>2 DEF AcceptedFirst
  <2> QED BY <2>1
<1>4. ASSUME Is(s[1], "accept", id) \/ Is(s[1], "screen", id), NEW i \in DOMAIN t, Is(t[i], "accept", id)
      PROVE  FALSE
  <2>1. i + 1 <= 1 /\ i \in Nat /\ i + 1 # 1
    BY <1>1, <1>2, <1>4 DEF AcceptedFirst
  <2> QED BY <2>1
<1> QED BY <1>1, <1>3, <1>4 DEF Has, t

-----------------------------------------------------------------------------
(* What a step of either does to what a caller and the person called agree *)
(* on.                                                                     *)
(* Something else is on its way to the person called.                      *)
LEMMA MoreToCalled ==
  ASSUME NEW c \in InCalls, NEW d, NEW v \in Seq(Messages), NEW w, NEW mine, NEW theirs,
         NEW on \in BOOLEAN, NEW here \in BOOLEAN, NEW there \in BOOLEAN,
         Agree(c, d, v, w, mine, theirs, on, here, there),
         NEW m \in Messages, m.id = c.id => m.step \notin {"end", "screen"}
  PROVE  Agree(c, d, Append(v, m), w, mine, theirs, on, here, there)
<1>1. /\ Has(Append(v, m), "end", c.id) <=> Has(v, "end", c.id)
      /\ Has(Append(v, m), "screen", c.id) <=> Has(v, "screen", c.id)
  BY MoreHas DEF Is
<1>2. \A x, y : Showing(Append(v, m), c.id, x, y) <=> Showing(v, c.id, x, y)
  BY MoreShowing DEF Is
<1> QED BY <1>1, <1>2 DEF Agree

(* Something else is on its way to the caller, or what ends the call.      *)
LEMMA MoreToCaller ==
  ASSUME NEW c \in InCalls, NEW d, NEW v, NEW w \in Seq(Messages), NEW mine, NEW theirs,
         NEW on \in BOOLEAN, NEW here \in BOOLEAN, NEW there \in BOOLEAN,
         Agree(c, d, v, w, mine, theirs, on, here, there),
         NEW m \in Messages, m.id = c.id => m.step \notin {"accept", "screen"}
  PROVE  Agree(c, d, v, Append(w, m), mine, theirs, on, here, there)
<1>1. /\ Has(Append(w, m), "accept", c.id) <=> Has(w, "accept", c.id)
      /\ Has(Append(w, m), "screen", c.id) <=> Has(w, "screen", c.id)
  BY MoreHas DEF Is
<1>2. \A x, y : Showing(Append(w, m), c.id, x, y) <=> Showing(w, c.id, x, y)
  BY MoreShowing DEF Is
<1>3. AcceptedFirst(w, c.id) => AcceptedFirst(Append(w, m), c.id)
  BY MoreAccepted DEF Is
<1>4. Clean(Append(w, m), c.id) => Clean(w, c.id)
  BY MoreClean
<1> QED BY <1>1, <1>2, <1>3, <1>4 DEF Agree

(* Whoever is called is in it before and after no more than ringing.       *)
LEMMA Aside ==
  ASSUME NEW c \in InCalls, NEW d, NEW v, NEW w, NEW mine, NEW theirs,
         NEW on \in BOOLEAN, NEW here \in BOOLEAN, NEW there \in BOOLEAN,
         Agree(c, d, v, w, mine, theirs, on, here, there), ~InIt(c, d),
         NEW e, ~InIt(c, e), e.id = c.id => e.screen = NoStream, NEW now
  PROVE  Agree(c, e, v, w, mine, now, on, here, there)
BY DEF Agree

LEMMA CalledAccepts ==
  ASSUME NEW c \in InCalls, NEW d \in InCalls, NEW v, NEW w \in Seq(Messages), NEW mine, NEW theirs,
         NEW on \in BOOLEAN, NEW here \in BOOLEAN, NEW there \in BOOLEAN,
         Agree(c, d, v, w, mine, theirs, on, here, there), ~on \/ ~there => w = <<>>,
         d.id = c.id, d.state = "ringing", theirs = NoStream,
         NEW e \in InCalls, e.id = c.id, e.state = "active", e.screen = d.screen,
         NEW m \in Messages, Is(m, "accept", c.id),
         NEW u, on /\ there => u = Append(w, m), ~(on /\ there) => u = w
  PROVE  Agree(c, e, v, u, mine, theirs, on, here, there)
<1>1. InIt(c, e) /\ ~InIt(c, d)
  BY DEF InIt
<1>2. CASE on /\ there
  <2>1. Clean(Append(w, m), c.id) <=> Clean(w, c.id)
    BY MoreClean DEF Is, Refusals
  <2>2. Clean(w, c.id) => /\ c.state # "active"
                          /\ ~Has(w, "accept", c.id) /\ ~Has(w, "screen", c.id)
    BY <1>1, <1>2 DEF Agree
  <2>3. Clean(w, c.id) => /\ AcceptedFirst(Append(w, m), c.id)
                          /\ Showing(Append(w, m), c.id, NoStream, theirs)
    <3>1. ~Is(m, "screen", c.id)
      BY DEF Is
    <3>2. ~Has(w, "screen", c.id) => Showing(w, c.id, NoStream, theirs)
      BY DEF Showing
    <3> QED BY <2>2, <3>1, <3>2, MoreAccepted, MoreShowing
  <2> QED BY <1>1, <1>2, <2>1, <2>2, <2>3 DEF Agree
<1>3. CASE ~(on /\ there)
  <2>1. w = <<>> /\ Clean(w, c.id) /\ ~Has(w, "accept", c.id)
    BY <1>3 DEF Clean, Has
  <2>2. c.state = "active" => ~on
    BY <1>1, <2>1 DEF Agree
  <2> QED BY <1>1, <1>3, <2>1, <2>2 DEF Agree
<1> QED BY <1>2, <1>3

(* Whoever is called is no longer in the call, and says so if they can.    *)
LEMMA CalledLeaves ==
  ASSUME NEW c \in InCalls, NEW d, NEW v, NEW w \in Seq(Messages), NEW mine, NEW theirs,
         NEW on \in BOOLEAN, NEW here \in BOOLEAN, NEW there \in BOOLEAN,
         Agree(c, d, v, w, mine, theirs, on, here, there), ~on \/ ~there => w = <<>>,
         NEW e, e.id # c.id, NEW now,
         NEW m \in Messages, m.id = c.id, m.step \in Refusals,
         NEW u, on /\ there => u = Append(w, m), ~(on /\ there) => u = w
  PROVE  Agree(c, e, v, u, mine, now, on, here, there)
<1>1. ~InIt(c, e)
  BY DEF InIt
<1>2. CASE on /\ there
  <2>1. ~Clean(Append(w, m), c.id)
    BY MoreClean
  <2> QED BY <1>1, <1>2, <2>1 DEF Agree
<1>3. CASE ~(on /\ there)
  <2>1. w = <<>> /\ Clean(w, c.id) /\ ~Has(w, "accept", c.id) /\ ~Has(w, "screen", c.id)
    BY <1>3 DEF Clean, Has
  <2>2. c.state = "active" => ~on
    BY <1>3, <2>1 DEF Agree
  <2> QED BY <1>1, <1>3, <2>1, <2>2 DEF Agree
<1> QED BY <1>2, <1>3

LEMMA CalledShares ==
  ASSUME NEW c \in InCalls, NEW d, NEW v, NEW w \in Seq(Messages), NEW mine, NEW theirs,
         NEW on \in BOOLEAN, NEW here \in BOOLEAN, NEW there \in BOOLEAN,
         Agree(c, d, v, w, mine, theirs, on, here, there), ~on \/ ~there => w = <<>>,
         InIt(c, d), NEW m \in Messages, NEW now, Shows(m, c.id, now),
         NEW u, on /\ there => u = Append(w, m), ~(on /\ there) => u = w
  PROVE  Agree(c, d, v, u, mine, now, on, here, there)
<1> USE DEF Shows
<1>1. CASE on /\ there
  <2>1. Clean(Append(w, m), c.id) <=> Clean(w, c.id)
    BY MoreClean DEF Is, Refusals
  <2>2. /\ Has(Append(w, m), "accept", c.id) <=> Has(w, "accept", c.id)
        /\ AcceptedFirst(w, c.id) => AcceptedFirst(Append(w, m), c.id)
        /\ \A x : Showing(Append(w, m), c.id, x, now)
    <3>1. ~Is(m, "accept", c.id)
      BY DEF Is
    <3> QED BY <3>1, MoreHas, MoreAccepted, MoreShowing
  <2> QED BY <1>1, <2>1, <2>2 DEF Agree
<1>2. CASE ~(on /\ there)
  <2>1. w = <<>> /\ Clean(w, c.id) /\ ~Has(w, "accept", c.id)
    BY <1>2 DEF Clean, Has
  <2>2. c.state = "active" => ~on
    BY <1>2, <2>1 DEF Agree
  <2> QED BY <1>2, <2>1, <2>2 DEF Agree
<1> QED BY <1>1, <1>2

LEMMA CallerShares ==
  ASSUME NEW c \in InCalls, NEW d, NEW v \in Seq(Messages), NEW w, NEW mine, NEW theirs,
         NEW on \in BOOLEAN, NEW here \in BOOLEAN, NEW there \in BOOLEAN,
         Agree(c, d, v, w, mine, theirs, on, here, there),
         c.state = "active", NEW m \in Messages, NEW now, Shows(m, c.id, now),
         NEW u, on /\ here => u = Append(v, m), ~(on /\ here) => u = v
  PROVE  Agree(c, d, u, w, now, theirs, on, here, there)
<1> USE DEF Shows
<1>1. CASE on
  <2>1. ~Is(m, "end", c.id)
    BY DEF Is
  <2>2. /\ Has(Append(v, m), "end", c.id) <=> Has(v, "end", c.id)
        /\ \A x : Showing(Append(v, m), c.id, x, now)
    BY <2>1, MoreHas, MoreShowing
  <2> QED BY <1>1, <2>2 DEF Agree
<1>2. CASE ~on
  BY <1>2 DEF Agree
<1> QED BY <1>1, <1>2

-----------------------------------------------------------------------------
(* The connection is there, is not, or is taken to be.                     *)
LEMMA BothReadier ==
  ASSUME NEW c \in InCalls, NEW d, NEW v, NEW w, NEW mine, NEW theirs,
         NEW on \in BOOLEAN, NEW here \in BOOLEAN, NEW there \in BOOLEAN,
         Agree(c, d, v, w, mine, theirs, on, here, there),
         NEW here1 \in BOOLEAN, NEW there1 \in BOOLEAN, here => here1, there => there1
  PROVE  Agree(c, d, v, w, mine, theirs, on, here1, there1)
BY DEF Agree

LEMMA Unnoticed ==
  ASSUME NEW c \in InCalls, NEW d, NEW v, NEW w, NEW mine, NEW theirs,
         NEW on \in BOOLEAN, NEW here \in BOOLEAN, NEW there \in BOOLEAN,
         Agree(c, d, v, w, mine, theirs, on, here, there), c.state = "ringing" \/ ~on,
         NEW here1 \in BOOLEAN, NEW there1 \in BOOLEAN, c.state = "active" => here1,
         NEW on1 \in BOOLEAN, on1 => c.state = "ringing"
  PROVE  Agree(c, d, v, w, mine, theirs, on1, here1, there1)
BY DEF Agree, InCalls

LEMMA Broken ==
  ASSUME NEW c \in InCalls, NEW d, NEW v, NEW w, NEW mine, NEW theirs,
         NEW on \in BOOLEAN, NEW here \in BOOLEAN, NEW there \in BOOLEAN,
         Agree(c, d, v, w, mine, theirs, on, here, there),
         NEW none, none = <<>>, NEW on1 \in BOOLEAN, ~on1
  PROVE  Agree(c, d, none, none, mine, theirs, on1, here, there)
BY DEF Agree, Has

-----------------------------------------------------------------------------
(* What is on its way is taken.                                            *)
LEMMA CallerTakes ==
  ASSUME NEW c \in InCalls, NEW d, NEW v, NEW w \in Seq(Messages), NEW mine, NEW theirs,
         NEW on \in BOOLEAN, NEW here \in BOOLEAN, NEW there \in BOOLEAN,
         Agree(c, d, v, w, mine, theirs, on, here, there), w # <<>>, on, here, there,
         Head(w).id = c.id => Head(w).step \notin Refusals
  PROVE  /\ ~(Is(Head(w), "accept", c.id) /\ c.state = "ringing") /\ ~(Is(Head(w), "screen", c.id) /\ c.state = "active")
              => Agree(c, d, v, Tail(w), mine, theirs, on, here, there)
         /\ Is(Head(w), "accept", c.id) /\ c.state = "ringing"
              => Agree([c EXCEPT !.state = "active"], d, v, Tail(w), mine, theirs, on, here, there)
         /\ Is(Head(w), "screen", c.id) /\ c.state = "active"
              => Agree([c EXCEPT !.screen = Head(w).stream], d, v, Tail(w), mine, theirs, on, here, there)
<1> DEFINE m == Head(w)  t == Tail(w)  id == c.id
<1>1. /\ Clean(w, id) <=> Clean(t, id)
      /\ \A step : Has(w, step, id) <=> Is(m, step, id) \/ Has(t, step, id)
  BY LessClean, LessHas
<1>2. \A x, y : Showing(w, id, x, y) <=> Showing(t, id, IF Is(m, "screen", id) THEN m.stream ELSE x, y)
  BY LessShowing
<1>3. AcceptedFirst(w, id) => /\ AcceptedFirst(t, id)
                              /\ Is(m, "accept", id) \/ Is(m, "screen", id) => ~Has(t, "accept", id)
  BY LessAccepted
<1> HIDE DEF m, t
<1>4. ASSUME ~(Is(m, "accept", id) /\ c.state = "ringing"), ~(Is(m, "screen", id) /\ c.state = "active")
      PROVE  Agree(c, d, v, t, mine, theirs, on, here, there)
  <2>1. CASE c.state = "ringing"
    <3>1. Clean(t, id) /\ Has(t, "accept", id) => AcceptedFirst(t, id) /\ Showing(t, id, NoStream, theirs)
      <4>1. Clean(t, id) /\ Has(t, "accept", id) => AcceptedFirst(w, id) /\ Showing(w, id, NoStream, theirs)
        BY <1>1, <2>1 DEF Agree
      <4>2. Clean(t, id) /\ Has(t, "accept", id) => ~Is(m, "screen", id)
        BY <1>3, <4>1
      <4> QED BY <1>2, <1>3, <4>1, <4>2
    <3> QED BY <1>1, <2>1, <3>1 DEF Agree
  <2>2. CASE c.state = "active"
    BY <1>1, <1>2, <1>4, <2>2 DEF Agree
  <2> QED BY <2>1, <2>2 DEF InCalls
<1>5. ASSUME Is(m, "accept", id), c.state = "ringing"
      PROVE  Agree([c EXCEPT !.state = "active"], d, v, t, mine, theirs, on, here, there)
  <2> DEFINE k == [c EXCEPT !.state = "active"]
  <2>1. k.id = id /\ k.state = "active" /\ k.screen = c.screen
    BY DEF InCalls
  <2>2. InIt(k, d) <=> InIt(c, d)
    BY <2>1 DEF InIt
  <2>3. ~Is(m, "screen", id)
    BY <1>5 DEF Is
  <2>4. Clean(t, id) => /\ InIt(c, d) /\ ~Has(t, "accept", id)
                        /\ Showing(t, id, c.screen, theirs) /\ c.screen = NoStream
    BY <1>1, <1>2, <1>3, <1>5, <2>3 DEF Agree
  <2>5. Clean(t, id) => Showing(v, id, d.screen, mine)
    <3>1. ~Has(v, "screen", id) /\ mine = NoStream /\ (InIt(c, d) => d.screen = NoStream)
      BY <1>5 DEF Agree, InIt
    <3> QED BY <2>4, <3>1 DEF Showing
  <2> HIDE DEF k
  <2>6. Agree(k, d, v, t, mine, theirs, on, here, there)
    BY <1>1, <2>1, <2>2, <2>4, <2>5 DEF Agree
  <2> QED BY <2>6 DEF k
<1>6. ASSUME Is(m, "screen", id), c.state = "active"
      PROVE  Agree([c EXCEPT !.screen = m.stream], d, v, t, mine, theirs, on, here, there)
  <2> DEFINE k == [c EXCEPT !.screen = m.stream]
  <2>1. k.id = id /\ k.state = "active" /\ k.screen = m.stream
    BY <1>6 DEF InCalls
  <2>2. InIt(k, d) <=> InIt(c, d)
    BY <2>1 DEF InIt
  <2> HIDE DEF k
  <2>3. Agree(k, d, v, t, mine, theirs, on, here, there)
    BY <1>1, <1>2, <1>6, <2>1, <2>2 DEF Agree
  <2> QED BY <2>3 DEF k
<1> QED BY <1>4, <1>5, <1>6 DEF m, t

LEMMA NoEndComes ==
  ASSUME NEW c \in InCalls, NEW d, NEW v \in Seq(Messages), NEW w, NEW mine, NEW theirs,
         NEW on \in BOOLEAN, NEW here \in BOOLEAN, NEW there \in BOOLEAN,
         Agree(c, d, v, w, mine, theirs, on, here, there), v # <<>>
  PROVE  ~Is(Head(v), "end", c.id)
BY LessHas DEF Agree

LEMMA CalledTakes ==
  ASSUME NEW c \in InCalls, NEW d, NEW v \in Seq(Messages), NEW w, NEW mine, NEW theirs,
         NEW on \in BOOLEAN, NEW here \in BOOLEAN, NEW there \in BOOLEAN,
         Agree(c, d, v, w, mine, theirs, on, here, there), v # <<>>,
         ~(Is(Head(v), "screen", c.id) /\ InIt(c, d))
  PROVE  Agree(c, d, Tail(v), w, mine, theirs, on, here, there)
<1>1. \A step : Has(v, step, c.id) <=> Is(Head(v), step, c.id) \/ Has(Tail(v), step, c.id)
  BY LessHas
<1>2. \A x, y : Showing(v, c.id, x, y) <=>
                 Showing(Tail(v), c.id, IF Is(Head(v), "screen", c.id) THEN Head(v).stream ELSE x, y)
  BY LessShowing
<1> QED BY <1>1, <1>2 DEF Agree

LEMMA CalledWatches ==
  ASSUME NEW c \in InCalls, NEW d, NEW v \in Seq(Messages), NEW w, NEW mine, NEW theirs,
         NEW on \in BOOLEAN, NEW here \in BOOLEAN, NEW there \in BOOLEAN,
         Agree(c, d, v, w, mine, theirs, on, here, there), v # <<>>,
         InIt(c, d), NEW e, e.id = d.id, e.state = d.state, Shows(Head(v), c.id, e.screen)
  PROVE  Agree(c, e, Tail(v), w, mine, theirs, on, here, there)
<1> DEFINE m == Head(v)  t == Tail(v)  id == c.id
<1>1. \A step : Has(v, step, id) <=> Is(m, step, id) \/ Has(t, step, id)
  BY LessHas
<1>2. \A x, y : Showing(v, id, x, y) <=> Showing(t, id, IF Is(m, "screen", id) THEN m.stream ELSE x, y)
  BY LessShowing
<1>3. Is(m, "screen", id) /\ m.stream = e.screen
  BY DEF Shows
<1> HIDE DEF m, t
<1>4. InIt(c, e) <=> InIt(c, d)
  BY DEF InIt
<1>5. c.state # "ringing"
  BY <1>1, <1>3 DEF Agree
<1> QED BY <1>1, <1>2, <1>3, <1>4, <1>5 DEF Agree, t

(* A call nobody heard of yet.                                             *)
LEMMA Fresh ==
  ASSUME NEW c \in InCalls, c.state = "ringing", c.screen = NoStream, NEW d, d.id # c.id,
         NEW v \in Seq(Messages), NEW w \in Seq(Messages), NEW theirs,
         \A i \in DOMAIN v : v[i].id # c.id, \A i \in DOMAIN w : w[i].id # c.id,
         NEW on \in BOOLEAN, NEW here \in BOOLEAN, NEW there \in BOOLEAN
  PROVE  Agree(c, d, v, w, NoStream, theirs, on, here, there)
<1>1. \A step : ~Has(v, step, c.id) /\ ~Has(w, step, c.id)
  BY DEF Has, Is
<1> QED BY <1>1 DEF Agree

-----------------------------------------------------------------------------
(* What is known of anybody.                                               *)
LEMMA Known ==
  ASSUME TypeOK, NEW p \in People
  PROVE  /\ Live(p) <=> current[p] \in InCalls
         /\ Live(p) <=> current[p].id # 0
         /\ current[p].id \in Nat /\ (Live(p) => current[p].id \in Ids)
         /\ Live(p) => /\ current[p].peer \in People /\ current[p].incoming \in BOOLEAN
                       /\ current[p].state \in {"ringing", "active"} /\ current[p].screen \in Shares
<1>1. current[p] \in {NoCall} \cup InCalls
  BY DEF TypeOK
<1>2. NoCall.id = 0
  BY DEF NoCall
<1>3. \A c \in InCalls : /\ c.id \in Ids /\ c.peer \in People /\ c.incoming \in BOOLEAN
                         /\ c.state \in {"ringing", "active"} /\ c.screen \in Shares
  BY DEF InCalls
<1>4. \A i \in Ids : i \in Nat /\ i # 0
  BY CallsAssumption DEF Ids
<1>5. NoCall \notin InCalls
  BY <1>2, <1>3, <1>4
<1> QED BY <1>1, <1>2, <1>3, <1>4, <1>5 DEF Live

LEMMA NoCallIsNone == NoCall \notin InCalls /\ NoCall.id = 0 /\ \A c \in InCalls : c.id # 0
BY CallsAssumption DEF NoCall, InCalls, Ids

LEMMA StepTypes ==
  ASSUME NEW step \in {"ring", "accept", "decline", "busy", "end"}, NEW id \in Ids
  PROVE  Step(step, id) \in Messages /\ Step(step, id).step = step /\ Step(step, id).id = id
BY DEF Step, Messages, Shares

Up(x, y) == {x, y} \in up
Sees(x, y) == y \in ready[x]

(* What a step puts on its way, and what taking a message leaves.          *)
LEMMA Carrying ==
  ASSUME TypeOK, NEW p \in People, NEW q \in People, NEW m \in Messages, wire' = Carried(p, q, m)
  PROVE  /\ wire' \in [People -> [People -> Seq(Messages)]]
         /\ \A a, b \in People :
              wire'[a][b] = IF a = p /\ b = q /\ Up(p, q) /\ Sees(p, q)
                            THEN Append(wire[a][b], m) ELSE wire[a][b]
<1>1. wire \in [People -> [People -> Seq(Messages)]] /\ wire[p][q] \in Seq(Messages)
  BY DEF TypeOK
<1>2. Append(wire[p][q], m) \in Seq(Messages)
  BY <1>1, OneMore
<1>3. CASE Up(p, q) /\ Sees(p, q)
  <2>1. wire' = [wire EXCEPT ![p][q] = Append(@, m)]
    BY <1>3 DEF Carried, Up, Sees
  <2> QED BY <1>1, <1>2, <1>3, <2>1
<1>4. CASE ~(Up(p, q) /\ Sees(p, q))
  <2>1. wire' = wire
    BY <1>4 DEF Carried, Up, Sees
  <2> QED BY <1>1, <1>4, <2>1
<1> QED BY <1>3, <1>4

LEMMA Taking ==
  ASSUME TypeOK, NEW p \in People, NEW q \in People, wire[q][p] # <<>>, Taken(p, q)
  PROVE  /\ wire' \in [People -> [People -> Seq(Messages)]]
         /\ \A a, b \in People :
              wire'[a][b] = IF a = q /\ b = p THEN Tail(wire[a][b]) ELSE wire[a][b]
<1>1. wire \in [People -> [People -> Seq(Messages)]] /\ wire[q][p] \in Seq(Messages)
  BY DEF TypeOK
<1>2. Tail(wire[q][p]) \in Seq(Messages)
  BY <1>1, OneLess
<1>3. wire' = [wire EXCEPT ![q][p] = Tail(@)]
  BY DEF Taken
<1> QED BY <1>1, <1>2, <1>3

(* An end of a call, and a beginning.                                      *)
LEMMA Ending ==
  ASSUME TypeOK, NEW p \in People, Live(p), NEW outcome \in Outcomes, Ends(p, outcome)
  PROVE  /\ current' \in [People -> {NoCall} \cup InCalls] /\ log' \in [People -> Seq(Entries)]
         /\ shared' \in [People -> Shares]
         /\ \A r \in People : r # p => current'[r] = current[r] /\ log'[r] = log[r] /\ shared'[r] = shared[r]
         /\ current'[p] = NoCall /\ shared'[p] = NoStream
         /\ On(log'[p]) = On(log[p]) \cup {Ended(current[p], outcome)}
<1>1. log[p] \in Seq(Entries) /\ Ended(current[p], outcome) \in Entries
  BY Known DEF TypeOK, Ended, Entries
<1> DEFINE e == Ended(current[p], outcome)
<1> HIDE DEF e
<1>2. Append(log[p], e) \in Seq(Entries) /\ On(Append(log[p], e)) = On(log[p]) \cup {e}
  <2> DEFINE t == Append(log[p], e)  s == log[p]  n == Len(s)
  <2>1. t \in Seq(Entries) /\ Len(t) = n + 1 /\ (\A i \in 1..n : t[i] = s[i]) /\ t[n + 1] = e
    BY <1>1, AppendProperties DEF e
  <2>2. n \in Nat /\ DOMAIN s = 1..n /\ DOMAIN t = 1..n + 1
    BY <1>1, <2>1
  <2> HIDE DEF t, s, n
  <2>3. On(t) = On(s) \cup {e}
    BY <2>1, <2>2 DEF On
  <2> QED BY <2>1, <2>3 DEF t, s
<1>3. /\ current' = [current EXCEPT ![p] = NoCall] /\ shared' = [shared EXCEPT ![p] = NoStream]
      /\ log' = [log EXCEPT ![p] = Append(log[p], e)]
  BY DEF Ends, e
<1>4. current' \in [People -> {NoCall} \cup InCalls] /\ shared' \in [People -> Shares]
  BY <1>3 DEF TypeOK, Shares
<1>5. log' \in [People -> Seq(Entries)] /\ On(log'[p]) = On(log[p]) \cup {e}
  BY <1>2, <1>3 DEF TypeOK
<1> QED BY <1>3, <1>4, <1>5 DEF TypeOK, e

LEMMA Beginning ==
  ASSUME TypeOK, NEW p \in People, NEW q \in People, NEW id \in Ids, NEW incoming \in BOOLEAN,
         Begins(p, id, q, incoming)
  PROVE  /\ current' \in [People -> {NoCall} \cup InCalls]
         /\ \A r \in People : r # p => current'[r] = current[r]
         /\ current'[p] \in InCalls
         /\ current'[p].id = id /\ current'[p].peer = q /\ current'[p].incoming = incoming
         /\ current'[p].state = "ringing" /\ current'[p].screen = NoStream
<1> DEFINE c == [id |-> id, peer |-> q, incoming |-> incoming, state |-> "ringing", screen |-> NoStream]
<1>1. c \in InCalls /\ c.id = id /\ c.peer = q /\ c.incoming = incoming /\ c.state = "ringing" /\ c.screen = NoStream
  BY DEF InCalls, Shares
<1> HIDE DEF c
<1>2. current' = [current EXCEPT ![p] = c]
  BY DEF Begins, c
<1> QED BY <1>1, <1>2 DEF TypeOK

LEMMA Activating ==
  ASSUME TypeOK, NEW p \in People, Live(p), Activates(p)
  PROVE  /\ current' \in [People -> {NoCall} \cup InCalls]
         /\ \A r \in People : r # p => current'[r] = current[r]
         /\ current'[p] = [current[p] EXCEPT !.state = "active"] /\ current'[p] \in InCalls
         /\ current'[p].id = current[p].id /\ current'[p].peer = current[p].peer
         /\ current'[p].incoming = current[p].incoming /\ current'[p].screen = current[p].screen
         /\ current'[p].state = "active"
<1> DEFINE c == current[p]  d == [c EXCEPT !.state = "active"]
<1>1. c \in InCalls
  BY Known
<1>2. /\ d \in InCalls /\ d.id = c.id /\ d.peer = c.peer /\ d.incoming = c.incoming /\ d.screen = c.screen
      /\ d.state = "active"
  BY <1>1 DEF InCalls
<1>3. current' = [current EXCEPT ![p] = d]
  BY DEF Activates
<1> HIDE DEF d
<1>4. current'[p] = d /\ \A r \in People : r # p => current'[r] = current[r]
  BY <1>3 DEF TypeOK
<1>5. current' \in [People -> {NoCall} \cup InCalls]
  BY <1>2, <1>3 DEF TypeOK
<1> QED BY <1>2, <1>4, <1>5 DEF d

LEMMA Showed ==
  ASSUME TypeOK, NEW p \in People, Live(p), NEW stream \in Shares,
         current' = [current EXCEPT ![p].screen = stream]
  PROVE  /\ current' \in [People -> {NoCall} \cup InCalls]
         /\ \A r \in People : r # p => current'[r] = current[r]
         /\ current'[p] = [current[p] EXCEPT !.screen = stream] /\ current'[p] \in InCalls
         /\ current'[p].id = current[p].id /\ current'[p].peer = current[p].peer
         /\ current'[p].incoming = current[p].incoming /\ current'[p].screen = stream
         /\ current'[p].state = current[p].state
<1> DEFINE c == current[p]  d == [c EXCEPT !.screen = stream]
<1>1. c \in InCalls
  BY Known
<1>2. /\ d \in InCalls /\ d.id = c.id /\ d.peer = c.peer /\ d.incoming = c.incoming /\ d.screen = stream
      /\ d.state = c.state
  BY <1>1 DEF InCalls
<1>3. current' = [current EXCEPT ![p] = d]
  OBVIOUS
<1> HIDE DEF d
<1>4. current'[p] = d /\ \A r \in People : r # p => current'[r] = current[r]
  BY <1>3 DEF TypeOK
<1>5. current' \in [People -> {NoCall} \cup InCalls]
  BY <1>2, <1>3 DEF TypeOK
<1> QED BY <1>2, <1>4, <1>5 DEF d

-----------------------------------------------------------------------------
(* A caller x and the person called, y, after a step of either.            *)
Pair(x, y) ==
  Agree(current[x], current[y], wire[x][y], wire[y][x], shared[x], shared[y], Up(x, y), Sees(x, y), Sees(y, x))

LEMMA Pairing ==
  ASSUME IInv, NEW x \in People, NEW y \in People, Calling(x), current[x].peer = y
  PROVE  /\ x # y /\ Up(x, y) \in BOOLEAN /\ Sees(x, y) \in BOOLEAN /\ Sees(y, x) \in BOOLEAN /\ Up(y, x) = Up(x, y)
         /\ current[x] \in InCalls /\ Pair(x, y)
         /\ wire[x][y] \in Seq(Messages) /\ wire[y][x] \in Seq(Messages)
         /\ ~Up(x, y) \/ ~Sees(y, x) => wire[y][x] = <<>>
         /\ current[y].id = current[x].id =>
              current[y] \in InCalls /\ Live(y) /\ current[y].peer = x /\ current[y].incoming
         /\ current[y].id # current[x].id => ~InIt(current[x], current[y])
<1>1. Live(x) /\ current[x] \in InCalls /\ current[x].id # 0
  BY Known DEF IInv, Calling
<1>2. x # y
  BY <1>1 DEF IInv, OneCall
<1>3. Pair(x, y)
  BY DEF IInv, Together, Pair, Up, Sees
<1>4. wire[x][y] \in Seq(Messages) /\ wire[y][x] \in Seq(Messages)
  BY DEF IInv, TypeOK
<1>5. ~Up(x, y) \/ ~Sees(y, x) => wire[y][x] = <<>>
  <2>1. {y, x} = {x, y}
    OBVIOUS
  <2> QED BY <2>1 DEF IInv, OverConnections, Up, Sees
<1>6. Up(x, y) \in BOOLEAN /\ Sees(x, y) \in BOOLEAN /\ Sees(y, x) \in BOOLEAN /\ Up(y, x) = Up(x, y)
  BY DEF Up, Sees
<1>7. ASSUME current[y].id = current[x].id
      PROVE  current[y] \in InCalls /\ Live(y) /\ current[y].peer = x /\ current[y].incoming
  <2>1. current[y] \in InCalls /\ Live(y)
    BY <1>1, <1>7, Known DEF IInv
  <2>2. InCall(y, current[x].id)
    BY <1>7, <2>1 DEF InCall
  <2>3. current[y].peer = x /\ current[x].incoming = ~current[y].incoming
    BY <1>1, <1>2, <2>2 DEF IInv, OneCall
  <2>4. ~current[x].incoming /\ current[y].incoming \in BOOLEAN
    BY <2>1, Known DEF IInv, Calling
  <2> QED BY <2>1, <2>3, <2>4
<1> QED BY <1>1, <1>2, <1>3, <1>4, <1>5, <1>6, <1>7 DEF InIt

LEMMA Elsewhere ==
  ASSUME IInv, NEW x \in People, NEW y \in People, Calling(x)', current'[x].peer = y,
         current'[x] = current[x], current'[y] = current[y],
         wire'[x][y] = wire[x][y], wire'[y][x] = wire[y][x],
         shared'[x] = shared[x], shared'[y] = shared[y],
         Up(x, y)' = Up(x, y), Sees(x, y)' = Sees(x, y), Sees(y, x)' = Sees(y, x)
  PROVE  Pair(x, y)'
<1>1. Calling(x) /\ current[x].peer = y
  BY DEF Calling, Live
<1>2. Pair(x, y)
  BY <1>1, Pairing
<1> QED BY <1>2 DEF Pair

(* The person called does something else than what this call is about.     *)
LEMMA CalledElse ==
  ASSUME NEW c \in InCalls, NEW d, NEW v, NEW w \in Seq(Messages), NEW mine, NEW theirs,
         NEW on \in BOOLEAN, NEW here \in BOOLEAN, NEW there \in BOOLEAN,
         Agree(c, d, v, w, mine, theirs, on, here, there), ~InIt(c, d),
         NEW e, ~InIt(c, e), e.id = c.id => e.screen = NoStream, NEW now,
         NEW m \in Messages, m.id = c.id => m.step \notin {"accept", "screen"},
         NEW u, u = w \/ u = Append(w, m)
  PROVE  Agree(c, e, v, u, mine, now, on, here, there)
<1>1. Agree(c, e, v, w, mine, now, on, here, there)
  BY Aside
<1>2. Agree(c, e, v, Append(w, m), mine, now, on, here, there)
  BY <1>1, MoreToCaller
<1> QED BY <1>1, <1>2

LEMMA CallAgrees ==
  ASSUME IInv, NEW p \in People, NEW q \in People, Call(p, q)
  PROVE  Together'
<1> DEFINE id == made + 1  m == Step("ring", id)
<1>1. /\ p # q /\ ~Live(p) /\ id \in Ids /\ made \in Nat /\ id \notin 0..made
  BY CallsAssumption DEF IInv, TypeOK, Call, Busy, Ids
<1>2. m \in Messages /\ m.step = "ring" /\ m.id = id
  BY <1>1, StepTypes
<1> HIDE DEF m
<1>3. Begins(p, id, q, FALSE)
  BY DEF Call, m
<1>4. wire' = Carried(p, q, m) \/ wire' = wire
  BY DEF Call, m
<1> HIDE DEF id
<1>5. /\ \A r \in People : r # p => current'[r] = current[r]
      /\ current'[p] \in InCalls
      /\ current'[p].id = id /\ current'[p].peer = q /\ current'[p].incoming = FALSE
      /\ current'[p].state = "ringing" /\ current'[p].screen = NoStream
  BY <1>1, <1>3, Beginning DEF IInv
<1>6. \A a, b \in People :
        wire'[a][b] = wire[a][b] \/ (a = p /\ b = q /\ wire'[a][b] = Append(wire[a][b], m))
  <2>1. CASE wire' = Carried(p, q, m)
    <3>1. \A a, b \in People :
            wire'[a][b] = IF a = p /\ b = q /\ Up(p, q) /\ Sees(p, q)
                          THEN Append(wire[a][b], m) ELSE wire[a][b]
      BY <1>2, <2>1, Carrying DEF IInv
    <3> QED BY <3>1
  <2>2. CASE wire' = wire
    BY <2>2
  <2> QED BY <1>4, <2>1, <2>2
<1>7. /\ \A r \in People : current[r].id # id
      /\ \A a, b \in People : \A i \in DOMAIN wire[a][b] : wire[a][b][i].id # id
  <2>1. \A r \in People : current[r].id \in 0..made
    <3> SUFFICES ASSUME NEW r \in People PROVE current[r].id \in 0..made
      OBVIOUS
    <3>1. Live(r) => current[r].id <= made
      BY DEF IInv, OneCall
    <3>2. current[r].id \in Nat /\ (~Live(r) => current[r].id = 0)
      BY Known DEF IInv
    <3> QED BY <1>1, <3>1, <3>2
  <2>2. \A a, b \in People : \A i \in DOMAIN wire[a][b] : wire[a][b][i].id \in 0..made
    <3> SUFFICES ASSUME NEW a \in People, NEW b \in People, NEW i \in DOMAIN wire[a][b]
                 PROVE  wire[a][b][i].id \in 0..made
      OBVIOUS
    <3>1. wire[a][b][i] \in On(wire[a][b])
      BY DEF On
    <3>2. wire[a][b][i].id <= made
      BY <3>1 DEF IInv, OneCall
    <3>3. wire[a][b] \in Seq(Messages)
      BY DEF IInv, TypeOK
    <3>4. wire[a][b][i] \in Messages
      BY <3>3
    <3>5. wire[a][b][i].id \in Ids
      BY <3>4 DEF Messages
    <3> QED BY <1>1, <3>2, <3>5, CallsAssumption DEF Ids
  <2> QED BY <1>1, <2>1, <2>2
<1>8. shared' = shared /\ \A a, b \in People : Up(a, b)' = Up(a, b) /\ Sees(a, b)' = Sees(a, b)
  BY DEF Call, link, Up, Sees
<1> SUFFICES ASSUME NEW x \in People, NEW y \in People, Calling(x)', current'[x].peer = y
             PROVE  Pair(x, y)'
  BY DEF Together, Pair, Up, Sees
<1>9. CASE x = p
  <2>1. y = q /\ current'[y] = current[y] /\ current[y].id # id /\ shared[p] = NoStream
    BY <1>1, <1>5, <1>7, <1>9 DEF IInv, SharedInACall, In
  <2>2. /\ wire[p][q] \in Seq(Messages) /\ wire[q][p] \in Seq(Messages) /\ wire'[q][p] = wire[q][p]
        /\ wire'[p][q] = wire[p][q] \/ wire'[p][q] = Append(wire[p][q], m)
    <3>1. wire[p][q] \in Seq(Messages) /\ wire[q][p] \in Seq(Messages)
      BY DEF IInv, TypeOK
    <3> QED BY <1>1, <1>6, <3>1
  <2>3. Up(p, q) \in BOOLEAN /\ Sees(p, q) \in BOOLEAN /\ Sees(q, p) \in BOOLEAN
    BY DEF Up, Sees
  <2>4. Agree(current'[p], current[q], wire[p][q], wire[q][p], NoStream, shared[q],
              Up(p, q), Sees(p, q), Sees(q, p))
    BY <1>5, <1>7, <2>1, <2>2, <2>3, Fresh
  <2>5. Agree(current'[p], current[q], Append(wire[p][q], m), wire[q][p], NoStream, shared[q],
              Up(p, q), Sees(p, q), Sees(q, p))
    BY <1>2, <1>5, <2>2, <2>3, <2>4, MoreToCalled
  <2> QED BY <1>8, <1>9, <2>1, <2>2, <2>4, <2>5 DEF Pair
<1>10. CASE x # p /\ y = p
  <2>1. Calling(x) /\ current[x].peer = y /\ current'[x] = current[x]
    BY <1>5, <1>10 DEF Calling, Live
  <2>2. /\ x # y /\ Up(x, y) \in BOOLEAN /\ Sees(x, y) \in BOOLEAN /\ Sees(y, x) \in BOOLEAN /\ Up(y, x) = Up(x, y)
        /\ current[x] \in InCalls /\ Pair(x, y)
        /\ wire[x][y] \in Seq(Messages) /\ wire[y][x] \in Seq(Messages)
    BY <2>1, Pairing
  <2>3. current'[y].id # current[x].id /\ current[x].id # id /\ current[y].id # current[x].id
    <3>1. current[y].id = 0 /\ current[x].id # 0
      BY <1>1, <1>10, <2>1, Known DEF IInv, Calling
    <3> QED BY <1>5, <1>7, <1>10, <3>1
  <2>4. ~InIt(current[x], current[y]) /\ ~InIt(current[x], current'[y])
    BY <2>3 DEF InIt
  <2>5. wire'[x][y] = wire[x][y] /\ (wire'[y][x] = wire[y][x] \/ wire'[y][x] = Append(wire[y][x], m))
    BY <1>6, <1>10
  <2>6. Agree(current[x], current[y], wire[x][y], wire[y][x], shared[x], shared[y], Up(x, y), Sees(x, y), Sees(y, x))
    BY <2>2 DEF Pair
  <2>7. Agree(current[x], current'[y], wire[x][y], wire'[y][x], shared[x], shared[y], Up(x, y), Sees(x, y), Sees(y, x))
    BY <1>2, <2>2, <2>3, <2>4, <2>5, <2>6, CalledElse
  <2> QED BY <1>8, <2>1, <2>5, <2>7 DEF Pair
<1>11. CASE x # p /\ y # p
  <2>1. current'[x] = current[x] /\ current'[y] = current[y] /\ wire'[x][y] = wire[x][y] /\ wire'[y][x] = wire[y][x]
    BY <1>5, <1>6, <1>11
  <2> QED BY <1>8, <2>1, Elsewhere
<1> QED BY <1>9, <1>10, <1>11

LEMMA AcceptAgrees ==
  ASSUME IInv, NEW p \in People, Accept(p)
  PROVE  Together'
<1> DEFINE q == current[p].peer  id == current[p].id  m == Step("accept", id)
<1>1. Live(p) /\ current[p].state = "ringing" /\ current[p].incoming
  BY DEF Accept, In
<1>2. q \in People /\ id \in Ids /\ current[p] \in InCalls
  BY <1>1, Known DEF IInv
<1>3. m \in Messages /\ m.step = "accept" /\ m.id = id
  BY <1>2, StepTypes
<1> HIDE DEF m
<1>4. Activates(p) /\ wire' = Carried(p, q, m)
  BY DEF Accept, Steps, m
<1>5. /\ \A r \in People : r # p => current'[r] = current[r]
      /\ current'[p] \in InCalls
      /\ current'[p].id = id /\ current'[p].peer = q
      /\ current'[p].incoming = current[p].incoming /\ current'[p].screen = current[p].screen
      /\ current'[p].state = "active"
  BY <1>1, <1>4, Activating DEF IInv
<1> HIDE DEF q, id
<1>6. \A a, b \in People :
        wire'[a][b] = IF a = p /\ b = q /\ Up(p, q) /\ Sees(p, q)
                      THEN Append(wire[a][b], m) ELSE wire[a][b]
  BY <1>2, <1>3, <1>4, Carrying DEF IInv
<1>7. shared' = shared /\ \A a, b \in People : Up(a, b)' = Up(a, b) /\ Sees(a, b)' = Sees(a, b)
  BY DEF Accept, link, Up, Sees
<1> SUFFICES ASSUME NEW x \in People, NEW y \in People, Calling(x)', current'[x].peer = y
             PROVE  Pair(x, y)'
  BY DEF Together, Pair, Up, Sees
<1>8. x # p
  BY <1>1, <1>5 DEF Calling
<1>9. Calling(x) /\ current[x].peer = y /\ current'[x] = current[x]
  BY <1>5, <1>8 DEF Calling, Live
<1>10. /\ Up(x, y) \in BOOLEAN /\ Sees(x, y) \in BOOLEAN /\ Sees(y, x) \in BOOLEAN
       /\ current[x] \in InCalls
       /\ wire[x][y] \in Seq(Messages) /\ wire[y][x] \in Seq(Messages)
       /\ ~Up(x, y) \/ ~Sees(y, x) => wire[y][x] = <<>>
  BY <1>9, Pairing
<1>11. /\ x # y /\ Up(y, x) = Up(x, y)
       /\ current[y].id = current[x].id => current[y].peer = x
       /\ current[y].id # current[x].id => ~InIt(current[x], current[y])
  BY <1>9, Pairing
<1>12. Agree(current[x], current[y], wire[x][y], wire[y][x], shared[x], shared[y], Up(x, y), Sees(x, y), Sees(y, x))
  BY <1>9, Pairing DEF Pair
<1>13. CASE y = p /\ id = current[x].id
  <2>1. q = x
    BY <1>10, <1>11, <1>13 DEF q, id
  <2>2. shared[y] = NoStream
    BY <1>1, <1>13 DEF IInv, SharedInACall, In
  <2>3. /\ wire'[x][y] = wire[x][y]
        /\ Up(x, y) /\ Sees(y, x) => wire'[y][x] = Append(wire[y][x], m)
        /\ ~(Up(x, y) /\ Sees(y, x)) => wire'[y][x] = wire[y][x]
    BY <1>6, <1>8, <1>10, <1>11, <1>13, <2>1
  <2>4. /\ current[y] \in InCalls /\ current[y].id = current[x].id /\ current[y].state = "ringing"
        /\ current'[y] \in InCalls /\ current'[y].id = current[x].id /\ current'[y].state = "active"
        /\ current'[y].screen = current[y].screen /\ Is(m, "accept", current[x].id)
    BY <1>1, <1>2, <1>3, <1>5, <1>13 DEF Is, id
  <2>5. Agree(current[x], current'[y], wire[x][y], wire'[y][x], shared[x], shared[y], Up(x, y), Sees(x, y), Sees(y, x))
    BY <1>3, <1>10, <1>12, <2>2, <2>3, <2>4, CalledAccepts
  <2> QED BY <1>7, <1>9, <2>3, <2>5 DEF Pair
<1>14. CASE y = p /\ id # current[x].id
  <2>1. wire'[x][y] = wire[x][y] /\ (wire'[y][x] = wire[y][x] \/ wire'[y][x] = Append(wire[y][x], m))
    BY <1>6, <1>8, <1>14
  <2>2. ~InIt(current[x], current[y]) /\ ~InIt(current[x], current'[y]) /\ current'[y].id # current[x].id
    BY <1>5, <1>10, <1>11, <1>14 DEF InIt, id
  <2>3. m.id # current[x].id
    BY <1>3, <1>14
  <2>4. Agree(current[x], current'[y], wire[x][y], wire'[y][x], shared[x], shared[y], Up(x, y), Sees(x, y), Sees(y, x))
    BY <1>3, <1>10, <1>12, <2>1, <2>2, <2>3, CalledElse
  <2> QED BY <1>7, <1>9, <2>1, <2>4 DEF Pair
<1>15. CASE y # p
  <2>1. current'[x] = current[x] /\ current'[y] = current[y] /\ wire'[x][y] = wire[x][y] /\ wire'[y][x] = wire[y][x]
    BY <1>5, <1>6, <1>8, <1>15
  <2> QED BY <1>7, <2>1, Elsewhere
<1> QED BY <1>13, <1>14, <1>15

(* Declining, hanging up and giving up.                                    *)
Leaves(p, step, outcome) == Live(p) /\ Steps(p, step) /\ Ends(p, outcome) /\ UNCHANGED <<ready, up>>

LEMMA LeavingAgrees ==
  ASSUME IInv, NEW p \in People, NEW step \in {"decline", "end"}, NEW outcome \in Outcomes,
         Leaves(p, step, outcome)
  PROVE  Together'
<1> DEFINE q == current[p].peer  id == current[p].id  m == Step(step, id)
<1>1. Live(p) /\ q \in People /\ id \in Ids
  BY Known DEF IInv, Leaves
<1>2. m \in Messages /\ m.step = step /\ m.id = id
  BY <1>1, StepTypes
<1> HIDE DEF m
<1>3. Ends(p, outcome) /\ wire' = Carried(p, q, m)
  BY DEF Leaves, Steps, m
<1>4. /\ \A r \in People : r # p => current'[r] = current[r] /\ shared'[r] = shared[r]
      /\ current'[p] = NoCall
  BY <1>1, <1>3, Ending DEF IInv
<1> HIDE DEF q, id
<1>5. \A a, b \in People :
        wire'[a][b] = IF a = p /\ b = q /\ Up(p, q) /\ Sees(p, q)
                      THEN Append(wire[a][b], m) ELSE wire[a][b]
  BY <1>1, <1>2, <1>3, Carrying DEF IInv
<1>6. \A a, b \in People : Up(a, b)' = Up(a, b) /\ Sees(a, b)' = Sees(a, b)
  BY DEF Leaves, Up, Sees
<1> SUFFICES ASSUME NEW x \in People, NEW y \in People, Calling(x)', current'[x].peer = y
             PROVE  Pair(x, y)'
  BY DEF Together, Pair, Up, Sees
<1>7. x # p
  BY <1>4 DEF Calling, Live
<1>8. Calling(x) /\ current[x].peer = y /\ current'[x] = current[x] /\ shared'[x] = shared[x]
  BY <1>4, <1>7 DEF Calling, Live
<1>9. /\ Up(x, y) \in BOOLEAN /\ Sees(x, y) \in BOOLEAN /\ Sees(y, x) \in BOOLEAN
      /\ current[x] \in InCalls
      /\ wire[x][y] \in Seq(Messages) /\ wire[y][x] \in Seq(Messages)
      /\ ~Up(x, y) \/ ~Sees(y, x) => wire[y][x] = <<>>
  BY <1>8, Pairing
<1>10. /\ x # y /\ Up(y, x) = Up(x, y)
       /\ current[y].id = current[x].id => current[y].peer = x
       /\ current[y].id # current[x].id => ~InIt(current[x], current[y])
  BY <1>8, Pairing
<1>11. NoCall.id # current[x].id
  <2>1. current[x].id \in Ids /\ NoCall.id = 0
    BY <1>9, <1>10 DEF InCalls, NoCall
  <2> QED BY <2>1, CallsAssumption DEF Ids
<1>12. Agree(current[x], current[y], wire[x][y], wire[y][x], shared[x], shared[y], Up(x, y), Sees(x, y), Sees(y, x))
  BY <1>8, Pairing DEF Pair
<1>13. CASE y = p /\ id = current[x].id
  <2>1. q = x
    BY <1>9, <1>10, <1>13 DEF q, id
  <2>2. /\ wire'[x][y] = wire[x][y]
        /\ Up(x, y) /\ Sees(y, x) => wire'[y][x] = Append(wire[y][x], m)
        /\ ~(Up(x, y) /\ Sees(y, x)) => wire'[y][x] = wire[y][x]
    BY <1>5, <1>7, <1>9, <1>10, <1>13, <2>1
  <2>3. m.id = current[x].id /\ m.step \in Refusals
    BY <1>2, <1>13 DEF Refusals
  <2>4. Agree(current[x], NoCall, wire[x][y], wire'[y][x], shared[x], shared'[y], Up(x, y), Sees(x, y), Sees(y, x))
    BY SMTT(30), <1>2, <1>9, <1>11, <1>12, <2>2, <2>3, CalledLeaves
  <2> QED BY <1>4, <1>6, <1>8, <1>13, <2>2, <2>4 DEF Pair
<1>14. CASE y = p /\ id # current[x].id
  <2>1. wire'[x][y] = wire[x][y] /\ (wire'[y][x] = wire[y][x] \/ wire'[y][x] = Append(wire[y][x], m))
    BY <1>5, <1>7, <1>14
  <2>2. ~InIt(current[x], current[y]) /\ ~InIt(current[x], NoCall) /\ m.id # current[x].id
    BY <1>2, <1>9, <1>10, <1>11, <1>14 DEF InIt, id
  <2>3. Agree(current[x], NoCall, wire[x][y], wire'[y][x], shared[x], shared'[y], Up(x, y), Sees(x, y), Sees(y, x))
    BY SMTT(30), <1>2, <1>9, <1>11, <1>12, <2>1, <2>2, CalledElse
  <2> QED BY <1>4, <1>6, <1>8, <1>14, <2>1, <2>3 DEF Pair
<1>15. CASE y # p
  <2>1. /\ current'[y] = current[y] /\ shared'[y] = shared[y]
        /\ wire'[x][y] = wire[x][y] /\ wire'[y][x] = wire[y][x]
    BY <1>4, <1>5, <1>7, <1>15
  <2> QED BY <1>6, <1>8, <2>1, Elsewhere
<1> QED BY <1>13, <1>14, <1>15

-----------------------------------------------------------------------------
LEMMA ShareAgrees ==
  ASSUME IInv, NEW p \in People, NEW stream \in Shares, Share(p, stream)
  PROVE  Together'
<1> DEFINE q == current[p].peer  id == current[p].id  m == [step |-> "screen", id |-> id, stream |-> stream]
<1>1. Live(p) /\ current[p].state = "active"
  BY DEF Share, In
<1>2. q \in People /\ id \in Ids
  BY <1>1, Known DEF IInv
<1>3. m \in Messages /\ m.step = "screen" /\ m.id = id /\ m.stream = stream
  BY <1>2 DEF Messages
<1> HIDE DEF m
<1>4. wire' = Carried(p, q, m)
  BY DEF Share, m
<1> HIDE DEF q, id
<1>5. \A a, b \in People :
        wire'[a][b] = IF a = p /\ b = q /\ Up(p, q) /\ Sees(p, q)
                      THEN Append(wire[a][b], m) ELSE wire[a][b]
  BY <1>2, <1>3, <1>4, Carrying DEF IInv
<1>6. current' = current /\ \A a, b \in People : Up(a, b)' = Up(a, b) /\ Sees(a, b)' = Sees(a, b)
  BY DEF Share, calls, link, Up, Sees
<1>7. shared'[p] = stream /\ \A r \in People : r # p => shared'[r] = shared[r]
  BY DEF Share, IInv, TypeOK
<1> SUFFICES ASSUME NEW x \in People, NEW y \in People, Calling(x)', current'[x].peer = y
             PROVE  Pair(x, y)'
  BY DEF Together, Pair, Up, Sees
<1>8. Calling(x) /\ current[x].peer = y
  BY <1>6 DEF Calling, Live
<1>9. /\ Up(x, y) \in BOOLEAN /\ Sees(x, y) \in BOOLEAN /\ Sees(y, x) \in BOOLEAN
      /\ current[x] \in InCalls
      /\ wire[x][y] \in Seq(Messages) /\ wire[y][x] \in Seq(Messages)
      /\ ~Up(x, y) \/ ~Sees(y, x) => wire[y][x] = <<>>
  BY <1>8, Pairing
<1>10. /\ x # y /\ Up(y, x) = Up(x, y)
       /\ current[y].id = current[x].id => current[y].peer = x
       /\ current[y].id # current[x].id => ~InIt(current[x], current[y])
  BY <1>8, Pairing
<1>11. Agree(current[x], current[y], wire[x][y], wire[y][x], shared[x], shared[y], Up(x, y), Sees(x, y), Sees(y, x))
  BY <1>8, Pairing DEF Pair
<1>12. CASE x = p
  <2>1. /\ q = y /\ id = current[x].id /\ current[x].state = "active"
        /\ Shows(m, current[x].id, stream)
    BY <1>1, <1>3, <1>8, <1>12 DEF q, id, Is, Shows
  <2>2. /\ wire'[y][x] = wire[y][x]
        /\ Up(x, y) /\ Sees(x, y) => wire'[x][y] = Append(wire[x][y], m)
        /\ ~(Up(x, y) /\ Sees(x, y)) => wire'[x][y] = wire[x][y]
    BY <1>5, <1>9, <1>10, <1>12, <2>1
  <2>3. Agree(current[x], current[y], wire'[x][y], wire[y][x], stream, shared[y], Up(x, y), Sees(x, y), Sees(y, x))
    BY SMTT(30), <1>3, <1>9, <1>11, <2>1, <2>2, CallerShares
  <2> QED BY <1>3, <1>6, <1>7, <1>9, <1>10, <1>12, <2>2, <2>3 DEF Pair
<1>13. CASE y = p /\ id = current[x].id
  <2>1. q = x /\ InIt(current[x], current[y]) /\ Shows(m, current[x].id, stream)
    BY <1>1, <1>3, <1>9, <1>10, <1>13 DEF q, id, InIt, Is, Shows
  <2>2. /\ wire'[x][y] = wire[x][y]
        /\ Up(x, y) /\ Sees(y, x) => wire'[y][x] = Append(wire[y][x], m)
        /\ ~(Up(x, y) /\ Sees(y, x)) => wire'[y][x] = wire[y][x]
    BY <1>5, <1>9, <1>10, <1>13, <2>1
  <2>3. Agree(current[x], current[y], wire[x][y], wire'[y][x], shared[x], stream, Up(x, y), Sees(x, y), Sees(y, x))
    BY <1>3, <1>9, <1>11, <2>1, <2>2, CalledShares
  <2> QED BY <1>3, <1>6, <1>7, <1>9, <1>10, <1>13, <2>2, <2>3 DEF Pair
<1>14. CASE y = p /\ id # current[x].id
  <2>1. wire'[x][y] = wire[x][y] /\ (wire'[y][x] = wire[y][x] \/ wire'[y][x] = Append(wire[y][x], m))
    BY <1>5, <1>9, <1>10, <1>14
  <2>2. ~InIt(current[x], current[y]) /\ m.id # current[x].id /\ current[y].id # current[x].id
    BY <1>3, <1>9, <1>10, <1>14 DEF id
  <2>3. Agree(current[x], current[y], wire[x][y], wire'[y][x], shared[x], stream, Up(x, y), Sees(x, y), Sees(y, x))
    BY <1>3, <1>9, <1>11, <2>1, <2>2, CalledElse
  <2> QED BY <1>6, <1>7, <1>9, <1>10, <1>14, <2>1, <2>3 DEF Pair
<1>15. CASE x # p /\ y # p
  <2>1. wire'[x][y] = wire[x][y] /\ wire'[y][x] = wire[y][x] /\ shared'[x] = shared[x] /\ shared'[y] = shared[y]
    BY <1>5, <1>7, <1>15
  <2> QED BY <1>6, <2>1, Elsewhere
<1> QED BY <1>12, <1>13, <1>14, <1>15

(* A call missed: it rang too long for the person called.                  *)
LEMMA MissingAgrees ==
  ASSUME IInv, NEW p \in People, In(p, {"ringing"}), current[p].incoming, Ends(p, "missed"),
         UNCHANGED <<wire, ready, up>>
  PROVE  Together'
<1>1. Live(p) /\ current[p].state = "ringing"
  BY DEF In
<1>2. /\ \A r \in People : r # p => current'[r] = current[r] /\ shared'[r] = shared[r]
      /\ current'[p] = NoCall
  BY <1>1, Ending DEF IInv, Outcomes
<1>3. \A a, b \in People : Up(a, b)' = Up(a, b) /\ Sees(a, b)' = Sees(a, b)
  BY DEF Up, Sees
<1> SUFFICES ASSUME NEW x \in People, NEW y \in People, Calling(x)', current'[x].peer = y
             PROVE  Pair(x, y)'
  BY DEF Together, Pair, Up, Sees
<1>4. x # p
  BY <1>2 DEF Calling, Live
<1>5. Calling(x) /\ current[x].peer = y /\ current'[x] = current[x] /\ shared'[x] = shared[x]
  BY <1>2, <1>4 DEF Calling, Live
<1>6. /\ x # y /\ Up(x, y) \in BOOLEAN /\ Sees(x, y) \in BOOLEAN /\ Sees(y, x) \in BOOLEAN
      /\ current[x] \in InCalls /\ Pair(x, y)
  BY <1>5, Pairing
<1>7. CASE y = p
  <2>1. Agree(current[x], current[y], wire[x][y], wire[y][x], shared[x], shared[y], Up(x, y), Sees(x, y), Sees(y, x))
    BY <1>6 DEF Pair
  <2>2. NoCall.id # current[x].id
    <3>1. current[x].id \in Ids /\ NoCall.id = 0
      BY <1>6 DEF InCalls, NoCall
    <3> QED BY <3>1, CallsAssumption DEF Ids
  <2>3. ~InIt(current[x], current[y]) /\ ~InIt(current[x], NoCall)
    BY <1>1, <1>7, <2>2 DEF InIt
  <2>4. Agree(current[x], NoCall, wire[x][y], wire[y][x], shared[x], shared'[y], Up(x, y), Sees(x, y), Sees(y, x))
    BY <1>6, <2>1, <2>2, <2>3, Aside
  <2> QED BY <1>2, <1>3, <1>5, <1>7, <2>4 DEF Pair
<1>8. CASE y # p
  <2>1. current'[y] = current[y] /\ shared'[y] = shared[y]
    BY <1>2, <1>8
  <2> QED BY <1>3, <1>5, <2>1, Elsewhere
<1> QED BY <1>7, <1>8

LEMMA ReadyAgrees ==
  ASSUME IInv, NEW p \in People, NEW q \in People, HandleReady(p, q)
  PROVE  Together'
<1>1. /\ {p, q} \in up /\ q \notin ready[p]
      /\ UNCHANGED <<current, shared, up, wire>>
      /\ ready' = [ready EXCEPT ![p] = @ \cup {q}]
  BY DEF HandleReady, calls
<1>4. \A a, b \in People : /\ Up(a, b)' = Up(a, b) /\ (Sees(a, b) => Sees(a, b)')
                           /\ Sees(a, b)' \in BOOLEAN
  BY <1>1 DEF Up, Sees, IInv, TypeOK
<1> SUFFICES ASSUME NEW x \in People, NEW y \in People, Calling(x)', current'[x].peer = y
             PROVE  Pair(x, y)'
  BY DEF Together, Pair, Up, Sees
<1>5. Calling(x) /\ current[x].peer = y
  BY <1>1 DEF Calling, Live
<1>6. /\ Up(x, y) \in BOOLEAN /\ Sees(x, y) \in BOOLEAN /\ Sees(y, x) \in BOOLEAN
      /\ current[x] \in InCalls /\ Pair(x, y)
      /\ wire[x][y] \in Seq(Messages) /\ wire[y][x] \in Seq(Messages)
  BY <1>5, Pairing
<1> DEFINE here == Sees(x, y)'  there == Sees(y, x)'
<1>7. here \in BOOLEAN /\ there \in BOOLEAN /\ (Sees(x, y) => here) /\ (Sees(y, x) => there)
  BY <1>4
<1> HIDE DEF here, there
<1>8. Agree(current[x], current[y], wire[x][y], wire[y][x], shared[x], shared[y], Up(x, y), Sees(x, y), Sees(y, x))
  BY <1>6 DEF Pair
<1>9. Agree(current[x], current[y], wire[x][y], wire[y][x], shared[x], shared[y], Up(x, y), here, there)
  BY <1>6, <1>7, <1>8, BothReadier
<1> QED BY <1>1, <1>4, <1>9 DEF Pair, here, there

LEMMA LostAgrees ==
  ASSUME IInv, NEW p \in People, NEW q \in People, HandleLost(p, q)
  PROVE  Together'
<1>1. /\ ~Up(p, q) /\ UNCHANGED <<wire, up>> /\ q \in ready[p]
      /\ ready' = [ready EXCEPT ![p] = @ \ {q}]
  BY DEF HandleLost, Up
<1>2. \A a, b \in People : /\ Up(a, b)' = Up(a, b) /\ Sees(a, b)' \in BOOLEAN
                           /\ Sees(a, b)' = Sees(a, b) \/ (a = p /\ b = q)
  <2>1. ready \in [People -> SUBSET People]
    BY DEF IInv, TypeOK
  <2>2. \A a, b \in People : (b \in ready'[a]) = (b \in ready[a]) \/ (a = p /\ b = q)
    BY <1>1, <2>1
  <2> QED BY <1>1, <2>2 DEF Up, Sees
<1> DEFINE gone == In(p, {"active"}) /\ current[p].peer = q
<1>3. gone => /\ \A r \in People : r # p => current'[r] = current[r] /\ shared'[r] = shared[r]
              /\ current'[p] = NoCall
  <2> SUFFICES ASSUME gone PROVE /\ \A r \in People : r # p => current'[r] = current[r] /\ shared'[r] = shared[r]
                                 /\ current'[p] = NoCall
    OBVIOUS
  <2>1. Ends(p, "lost") /\ Live(p)
    BY DEF HandleLost, In
  <2> QED BY <2>1, Ending DEF IInv, Outcomes
<1>4. ~gone => current' = current /\ shared' = shared
  BY DEF HandleLost
<1> SUFFICES ASSUME NEW x \in People, NEW y \in People, Calling(x)', current'[x].peer = y
             PROVE  Pair(x, y)'
  BY DEF Together, Pair, Up, Sees
<1>5. ~(gone /\ x = p)
  BY <1>3 DEF Calling, Live
<1>6. Calling(x) /\ current[x].peer = y /\ current'[x] = current[x] /\ shared'[x] = shared[x]
  <2>1. current'[x] = current[x] /\ shared'[x] = shared[x]
    BY <1>3, <1>4, <1>5
  <2> QED BY <2>1 DEF Calling, Live
<1>7. /\ x # y /\ Up(x, y) \in BOOLEAN /\ Sees(x, y) \in BOOLEAN /\ Sees(y, x) \in BOOLEAN /\ Up(y, x) = Up(x, y)
      /\ current[x] \in InCalls /\ Pair(x, y)
      /\ wire[x][y] \in Seq(Messages) /\ wire[y][x] \in Seq(Messages)
      /\ ~Up(x, y) \/ ~Sees(y, x) => wire[y][x] = <<>>
      /\ current[y].id = current[x].id => current[y].peer = x
      /\ current[y].id # current[x].id => ~InIt(current[x], current[y])
  BY <1>6, Pairing
<1>8. Agree(current[x], current[y], wire[x][y], wire[y][x], shared[x], shared[y], Up(x, y), Sees(x, y), Sees(y, x))
  BY <1>7 DEF Pair
<1>9. Agree(current[x], current'[y], wire[x][y], wire[y][x], shared[x], shared'[y], Up(x, y), Sees(x, y), Sees(y, x))
  <2>1. CASE gone /\ y = p
    <3>1. current'[y] = NoCall /\ NoCall.id # current[x].id
      <4>1. current[x].id \in Ids /\ NoCall.id = 0
        BY <1>7 DEF InCalls, NoCall
      <4> QED BY <1>3, <2>1, <4>1, CallsAssumption DEF Ids
    <3>2. CASE current[y].id = current[x].id
      <4>1. q = x /\ ~Up(x, y)
        BY <1>1, <1>7, <2>1, <3>2
      <4> DEFINE m == Step("end", current[x].id)
      <4>2. m \in Messages /\ m.id = current[x].id /\ m.step \in Refusals
        BY <1>7, StepTypes DEF Refusals, InCalls
      <4> HIDE DEF m
      <4> QED BY <1>7, <1>8, <3>1, <4>1, <4>2, CalledLeaves
    <3>3. CASE current[y].id # current[x].id
      <4>1. ~InIt(current[x], current[y]) /\ ~InIt(current[x], NoCall)
        BY <1>7, <3>1, <3>3 DEF InIt
      <4> QED BY <1>7, <1>8, <3>1, <4>1, Aside
    <3> QED BY <3>2, <3>3
  <2>2. CASE ~(gone /\ y = p)
    <3>1. current'[y] = current[y] /\ shared'[y] = shared[y]
      BY <1>3, <1>4, <2>2
    <3> QED BY <1>8, <3>1
  <2> QED BY <2>1, <2>2
<1> DEFINE here == Sees(x, y)'  there == Sees(y, x)'
<1>10. here \in BOOLEAN /\ there \in BOOLEAN
  BY <1>2
<1>11. CASE (x = p /\ y = q) \/ (y = p /\ x = q)
  <2>1. ~Up(x, y)
    BY <1>1, <1>7, <1>11
  <2>2. current[x].state = "active" => here
    <3> SUFFICES ASSUME current[x].state = "active" PROVE Sees(x, y)'
      OBVIOUS
    <3>1. Sees(x, y)
      BY <1>8 DEF Agree
    <3>2. x # p
      BY <1>5, <1>6, <1>7, <1>11 DEF Calling, In
    <3> QED BY <1>2, <3>1, <3>2
  <2> HIDE DEF here, there
  <2>3. Agree(current[x], current'[y], wire[x][y], wire[y][x], shared[x], shared'[y], Up(x, y), here, there)
    BY <1>7, <1>9, <1>10, <2>1, <2>2, Unnoticed
  <2> QED BY <1>1, <1>2, <1>6, <2>3 DEF Pair, here, there
<1>12. CASE ~((x = p /\ y = q) \/ (y = p /\ x = q))
  <2>1. Sees(x, y)' = Sees(x, y) /\ Sees(y, x)' = Sees(y, x)
    BY <1>2, <1>12
  <2> QED BY <1>1, <1>2, <1>6, <1>9, <2>1 DEF Pair
<1> QED BY <1>11, <1>12

LEMMA ConnectAgrees ==
  ASSUME IInv, NEW pair \in Pairs, Connect(pair)
  PROVE  Together'
<1>1. /\ UNCHANGED <<current, shared, ready, wire>> /\ up' = up \cup {pair}
      /\ \A r \in pair : ready[r] \cap pair = {}
  BY DEF Connect, calls
<1>2. \A a, b \in People : /\ Sees(a, b)' = Sees(a, b) /\ Up(a, b)' \in BOOLEAN
                           /\ Up(a, b)' = Up(a, b) \/ (pair = {a, b} /\ ~Sees(a, b) /\ ~Sees(b, a))
  BY <1>1 DEF Up, Sees
<1> SUFFICES ASSUME NEW x \in People, NEW y \in People, Calling(x)', current'[x].peer = y
             PROVE  Pair(x, y)'
  BY DEF Together, Pair, Up, Sees
<1>3. Calling(x) /\ current[x].peer = y
  BY <1>1 DEF Calling, Live
<1>4. /\ Up(x, y) \in BOOLEAN /\ Sees(x, y) \in BOOLEAN /\ Sees(y, x) \in BOOLEAN
      /\ current[x] \in InCalls /\ Pair(x, y)
  BY <1>3, Pairing
<1>5. Agree(current[x], current[y], wire[x][y], wire[y][x], shared[x], shared[y], Up(x, y), Sees(x, y), Sees(y, x))
  BY <1>4 DEF Pair
<1>6. CASE Up(x, y)' = Up(x, y)
  BY <1>1, <1>2, <1>5, <1>6 DEF Pair
<1>7. CASE ~Sees(x, y)
  <2>1. current[x].state = "ringing"
    BY <1>4, <1>5, <1>7 DEF Agree, InCalls
  <2> DEFINE on == Up(x, y)'
  <2>2. on \in BOOLEAN
    BY <1>2
  <2> HIDE DEF on
  <2>3. Agree(current[x], current[y], wire[x][y], wire[y][x], shared[x], shared[y], on, Sees(x, y), Sees(y, x))
    BY <1>4, <1>5, <2>1, <2>2, Unnoticed
  <2> QED BY <1>1, <1>2, <2>3 DEF Pair, on
<1> QED BY <1>2, <1>6, <1>7

LEMMA DisconnectAgrees ==
  ASSUME IInv, NEW pair \in Pairs, Disconnect(pair)
  PROVE  Together'
<1>1. /\ UNCHANGED <<current, shared, ready>> /\ up' = up \ {pair}
      /\ wire' = [p \in People |-> [q \in People |-> IF {p, q} = pair THEN <<>> ELSE wire[p][q]]]
  BY DEF Disconnect, calls
<1>2. \A a, b \in People : /\ Sees(a, b)' = Sees(a, b)
                           /\ {a, b} = pair => Up(a, b)' = FALSE /\ wire'[a][b] = <<>>
                           /\ {a, b} # pair => Up(a, b)' = Up(a, b) /\ wire'[a][b] = wire[a][b]
  BY <1>1 DEF Up, Sees
<1> SUFFICES ASSUME NEW x \in People, NEW y \in People, Calling(x)', current'[x].peer = y
             PROVE  Pair(x, y)'
  BY DEF Together, Pair, Up, Sees
<1>3. Calling(x) /\ current[x].peer = y
  BY <1>1 DEF Calling, Live
<1>4. /\ Up(x, y) \in BOOLEAN /\ Sees(x, y) \in BOOLEAN /\ Sees(y, x) \in BOOLEAN
      /\ current[x] \in InCalls /\ Pair(x, y)
  BY <1>3, Pairing
<1>5. {y, x} = {x, y}
  OBVIOUS
<1>6. CASE {x, y} = pair
  <2>1. Agree(current[x], current[y], wire[x][y], wire[y][x], shared[x], shared[y], Up(x, y), Sees(x, y), Sees(y, x))
    BY <1>4 DEF Pair
  <2> DEFINE on == Up(x, y)'  none == wire'[x][y]
  <2>2. none = <<>> /\ wire'[y][x] = none /\ on \in BOOLEAN /\ ~on
    BY <1>2, <1>5, <1>6
  <2> HIDE DEF on, none
  <2>3. Agree(current[x], current[y], none, none, shared[x], shared[y], on, Sees(x, y), Sees(y, x))
    BY <1>4, <2>1, <2>2, Broken
  <2> QED BY <1>1, <1>2, <2>2, <2>3 DEF Pair, on, none
<1>7. CASE {x, y} # pair
  <2>1. wire'[x][y] = wire[x][y] /\ wire'[y][x] = wire[y][x] /\ Up(x, y)' = Up(x, y)
    BY <1>2, <1>5, <1>7
  <2> QED BY <1>1, <1>2, <2>1, Elsewhere
<1> QED BY <1>6, <1>7

-----------------------------------------------------------------------------
(* What taking the next message m from q does to p.                        *)
Answered(p, q, m) == Ours(p, q, m) /\ ~current[p].incoming /\ In(p, {"ringing"})
Over(p, q, m) == Ours(p, q, m) /\ (m.step = "end" \/ ~current[p].incoming)
Watching(p, q, m) == Ours(p, q, m) /\ In(p, {"active"})

Nothing(p, q, m) ==
  /\ m.step = "accept" => ~Answered(p, q, m)
  /\ m.step \in Refusals => ~Over(p, q, m)
  /\ m.step = "screen" => ~Watching(p, q, m)
  /\ UNCHANGED <<current, log, shared>>
Rings(p, q, m) == /\ m.step = "ring" /\ ~Busy(p) /\ Begins(p, m.id, q, TRUE) /\ UNCHANGED <<log, shared>>
Accepted(p, q, m) == /\ m.step = "accept" /\ Answered(p, q, m) /\ Activates(p) /\ UNCHANGED <<log, shared>>
Dropped(p, q, m) ==
  /\ m.step \in Refusals /\ Over(p, q, m)
  /\ \E outcome \in Outcomes : /\ Ends(p, outcome)
                               /\ outcome = "declined" => m.step = "decline"
                               /\ In(p, {"active"}) => outcome \in {"ended", "declined", "busy"}
                               /\ current[p].incoming /\ In(p, {"active"}) => outcome = "ended"
Seen(p, q, m) ==
  /\ m.step = "screen" /\ Watching(p, q, m)
  /\ current' = [current EXCEPT ![p].screen = m.stream] /\ UNCHANGED <<log, shared>>

LEMMA Receiving ==
  ASSUME IInv, NEW p \in People, NEW q \in People, Message(p, q)
  PROVE  LET m == Head(wire[q][p])
         IN  /\ p # q /\ Up(p, q) /\ Up(q, p) /\ Sees(p, q) /\ Sees(q, p)
             /\ wire[q][p] \in Seq(Messages) /\ wire[q][p] # <<>> /\ m \in Messages /\ m \in On(wire[q][p])
             /\ UNCHANGED <<made, link, seat, shares>> /\ stuck' \subseteq People
             /\ wire' \in [People -> [People -> Seq(Messages)]]
             /\ wire'[q][p] = Tail(wire[q][p])
             /\ \A a, b \in People : ~(a = q /\ b = p) => wire'[a][b] = wire[a][b]
             /\ \/ Nothing(p, q, m) \/ Rings(p, q, m) \/ Accepted(p, q, m) \/ Dropped(p, q, m) \/ Seen(p, q, m)
<1> DEFINE m == Head(wire[q][p])
<1>1. /\ wire[q][p] \in Seq(Messages) /\ wire[q][p] # <<>> /\ up \subseteq Pairs
      /\ stuck \subseteq People
  BY DEF IInv, TypeOK, Message
<1>2. m \in Messages /\ m \in On(wire[q][p])
  <2>1. m = wire[q][p][1] /\ m \in Messages /\ 1 \in DOMAIN wire[q][p]
    BY <1>1, OneLess, Indices
  <2> QED BY <2>1 DEF On
<1>3. Up(q, p) /\ Sees(q, p) /\ Sees(p, q)
  <2>1. Up(q, p) /\ Sees(q, p)
    BY <1>1 DEF IInv, OverConnections, Up, Sees
  <2> QED BY <2>1 DEF Message, Takes, Sees
<1>4. p # q /\ Up(p, q)
  <2>1. {q, p} = {p, q}
    OBVIOUS
  <2>2. {q, p} \in Pairs
    BY <1>1, <1>3 DEF Up
  <2>3. p = q => {q, p} = {p}
    OBVIOUS
  <2> QED BY <1>3, <2>1, <2>2, <2>3 DEF Pairs, Up
<1>5. /\ UNCHANGED <<made, link, seat, shares>>
      /\ HandleRing(p, q, m) \/ HandleAccept(p, q, m) \/ HandleEnd(p, q, m) \/ Shown(p, q, m)
  BY DEF Message
<1> HIDE DEF m
<1>6. Taken(p, q)
  BY <1>5 DEF HandleRing, HandleAccept, HandleEnd, Shown
<1>7. stuck' \subseteq People
  BY <1>1, <1>5 DEF HandleRing, HandleAccept, HandleEnd, Shown, Stuck
<1>8. \/ Nothing(p, q, m) \/ Rings(p, q, m) \/ Accepted(p, q, m) \/ Dropped(p, q, m) \/ Seen(p, q, m)
  <2>1. CASE HandleRing(p, q, m)
    <3>1. m.step = "ring" /\ UNCHANGED <<log, shared>> /\ (UNCHANGED current \/ (~Busy(p) /\ Begins(p, m.id, q, TRUE)))
      BY <2>1 DEF HandleRing
    <3> QED BY <3>1 DEF Nothing, Rings, Refusals
  <2>2. CASE HandleAccept(p, q, m)
    BY <2>2 DEF HandleAccept, Nothing, Accepted, Answered, Refusals
  <2>3. CASE HandleEnd(p, q, m)
    <3>1. m.step \in Refusals
      BY <2>3 DEF HandleEnd, Refusals
    <3>2. CASE ~Over(p, q, m)
      BY <2>3, <3>1, <3>2 DEF HandleEnd, Over, Nothing, Refusals
    <3>3. CASE Over(p, q, m)
      <4> DEFINE outcome == IF current[p].incoming /\ In(p, {"ringing"}) THEN "missed"
                            ELSE CASE m.step = "decline" -> "declined" [] m.step = "busy" -> "busy" [] OTHER -> "ended"
      <4>1. Ends(p, outcome)
        BY <2>3, <3>3 DEF HandleEnd, Over
      <4>2. outcome \in Outcomes /\ (outcome = "declined" => m.step = "decline")
        BY DEF Outcomes
      <4>3. In(p, {"active"}) => ~In(p, {"ringing"})
        BY DEF In
      <4>4. In(p, {"active"}) => outcome \in {"ended", "declined", "busy"}
        BY <4>3
      <4>5. current[p].incoming /\ In(p, {"active"}) => outcome = "ended"
        <5>1. current[p].incoming => m.step = "end"
          BY <3>3 DEF Over
        <5> QED BY <4>3, <5>1
      <4> HIDE DEF outcome
      <4> QED BY <3>1, <3>3, <4>1, <4>2, <4>4, <4>5 DEF Dropped
    <3> QED BY <3>2, <3>3
  <2>4. CASE Shown(p, q, m)
    BY <2>4 DEF Shown, Nothing, Seen, Watching, Refusals
  <2> QED BY <1>5, <2>1, <2>2, <2>3, <2>4
<1>9. TypeOK
  BY DEF IInv
<1>10. /\ wire' \in [People -> [People -> Seq(Messages)]]
       /\ wire'[q][p] = Tail(wire[q][p])
       /\ \A a, b \in People : ~(a = q /\ b = p) => wire'[a][b] = wire[a][b]
  BY <1>1, <1>6, <1>9, Taking
<1> QED BY <1>1, <1>2, <1>3, <1>4, <1>5, <1>7, <1>8, <1>10 DEF m

LEMMA MessageAgrees ==
  ASSUME IInv, NEW p \in People, NEW q \in People, Message(p, q)
  PROVE  Together'
<1> DEFINE m == Head(wire[q][p])
<1>1. /\ p # q /\ Up(p, q) /\ Up(q, p) /\ Sees(p, q) /\ Sees(q, p)
      /\ wire[q][p] \in Seq(Messages) /\ wire[q][p] # <<>> /\ m \in Messages /\ m \in On(wire[q][p])
      /\ UNCHANGED <<made, link, seat, shares>>
      /\ wire'[q][p] = Tail(wire[q][p])
      /\ \A a, b \in People : ~(a = q /\ b = p) => wire'[a][b] = wire[a][b]
      /\ \/ Nothing(p, q, m) \/ Rings(p, q, m) \/ Accepted(p, q, m) \/ Dropped(p, q, m) \/ Seen(p, q, m)
  BY Receiving
<1>2. \A a, b \in People : Up(a, b)' = Up(a, b) /\ Sees(a, b)' = Sees(a, b)
  BY <1>1 DEF link, Up, Sees
<1>3. TypeOK
  BY DEF IInv
<1>4. Nothing(p, q, m) => current' = current /\ shared' = shared
  BY DEF Nothing
<1>5. Rings(p, q, m) =>
        /\ ~Live(p) /\ m.step = "ring" /\ m.id \in Ids
        /\ \A r \in People : r # p => current'[r] = current[r]
        /\ current'[p].id = m.id /\ current'[p].incoming /\ current'[p].state = "ringing"
        /\ current'[p].screen = NoStream /\ shared' = shared
  <2> SUFFICES ASSUME Rings(p, q, m)
               PROVE  /\ ~Live(p) /\ m.step = "ring" /\ m.id \in Ids
                      /\ \A r \in People : r # p => current'[r] = current[r]
                      /\ current'[p].id = m.id /\ current'[p].incoming /\ current'[p].state = "ringing"
                      /\ current'[p].screen = NoStream /\ shared' = shared
    OBVIOUS
  <2>1. ~Live(p) /\ m.step = "ring" /\ m.id \in Ids /\ Begins(p, m.id, q, TRUE) /\ shared' = shared
    BY <1>1 DEF Rings, Busy, Messages
  <2>2. /\ \A r \in People : r # p => current'[r] = current[r]
        /\ current'[p].id = m.id /\ current'[p].incoming = TRUE /\ current'[p].state = "ringing"
        /\ current'[p].screen = NoStream
    BY <1>3, <2>1, Beginning
  <2> QED BY <2>1, <2>2
<1>6. Accepted(p, q, m) =>
        /\ Live(p) /\ Ours(p, q, m) /\ ~current[p].incoming /\ current[p].state = "ringing" /\ m.step = "accept"
        /\ \A r \in People : r # p => current'[r] = current[r]
        /\ current'[p] = [current[p] EXCEPT !.state = "active"]
        /\ current'[p].id = m.id /\ current'[p].peer = current[p].peer /\ ~current'[p].incoming /\ shared' = shared
  <2> SUFFICES ASSUME Accepted(p, q, m)
               PROVE  /\ Live(p) /\ Ours(p, q, m) /\ ~current[p].incoming /\ current[p].state = "ringing" /\ m.step = "accept"
                      /\ \A r \in People : r # p => current'[r] = current[r]
                      /\ current'[p] = [current[p] EXCEPT !.state = "active"]
                      /\ current'[p].id = m.id /\ current'[p].peer = current[p].peer /\ ~current'[p].incoming
                      /\ shared' = shared
    OBVIOUS
  <2>1. /\ Live(p) /\ Ours(p, q, m) /\ ~current[p].incoming /\ current[p].state = "ringing" /\ m.step = "accept"
        /\ Activates(p) /\ current[p].id = m.id /\ shared' = shared
    BY DEF Accepted, Answered, Ours, In
  <2> QED BY <1>3, <2>1, Activating
<1>7. Dropped(p, q, m) =>
        /\ Live(p) /\ Ours(p, q, m) /\ (m.step = "end" \/ ~current[p].incoming)
        /\ \A r \in People : r # p => current'[r] = current[r] /\ shared'[r] = shared[r]
        /\ current'[p] = NoCall /\ shared'[p] = NoStream
  <2> SUFFICES ASSUME Dropped(p, q, m)
               PROVE  /\ Live(p) /\ Ours(p, q, m) /\ (m.step = "end" \/ ~current[p].incoming)
                      /\ \A r \in People : r # p => current'[r] = current[r] /\ shared'[r] = shared[r]
                      /\ current'[p] = NoCall /\ shared'[p] = NoStream
    OBVIOUS
  <2>1. Live(p) /\ Ours(p, q, m) /\ (m.step = "end" \/ ~current[p].incoming)
    BY DEF Dropped, Over, Ours
  <2>2. PICK outcome \in Outcomes : Ends(p, outcome)
    BY DEF Dropped
  <2> QED BY <1>3, <2>1, <2>2, Ending
<1>8. Seen(p, q, m) =>
        /\ Live(p) /\ Ours(p, q, m) /\ current[p].state = "active" /\ m.step = "screen"
        /\ \A r \in People : r # p => current'[r] = current[r]
        /\ current'[p] = [current[p] EXCEPT !.screen = m.stream]
        /\ current'[p].id = m.id /\ current'[p].peer = current[p].peer /\ current'[p].incoming = current[p].incoming
        /\ shared' = shared
  <2> SUFFICES ASSUME Seen(p, q, m)
               PROVE  /\ Live(p) /\ Ours(p, q, m) /\ current[p].state = "active" /\ m.step = "screen"
                      /\ \A r \in People : r # p => current'[r] = current[r]
                      /\ current'[p] = [current[p] EXCEPT !.screen = m.stream]
                      /\ current'[p].id = m.id /\ current'[p].peer = current[p].peer
                      /\ current'[p].incoming = current[p].incoming /\ shared' = shared
    OBVIOUS
  <2>1. /\ Live(p) /\ Ours(p, q, m) /\ current[p].state = "active" /\ m.step = "screen" /\ current[p].id = m.id
        /\ current' = [current EXCEPT ![p].screen = m.stream] /\ shared' = shared
    BY DEF Seen, Watching, Ours, In
  <2>2. m.stream \in Shares
    BY <1>1 DEF Messages
  <2> QED BY <1>3, <2>1, <2>2, Showed
<1>9. \A r \in People : r # p => current'[r] = current[r] /\ shared'[r] = shared[r]
  BY <1>1, <1>4, <1>5, <1>6, <1>7, <1>8
<1>10. m.id # 0
  BY <1>1, CallsAssumption DEF Messages, Ids
<1> HIDE DEF m
<1> SUFFICES ASSUME NEW x \in People, NEW y \in People, Calling(x)', current'[x].peer = y
             PROVE  Pair(x, y)'
  BY DEF Together, Pair, Up, Sees
<1>11. /\ Calling(x) /\ current[x].peer = y /\ current'[x].id = current[x].id
       /\ x = p => ~Rings(p, q, m) /\ ~Dropped(p, q, m)
  <2>1. CASE x # p
    <3>1. current'[x] = current[x]
      BY <1>9, <2>1
    <3> QED BY <2>1, <3>1 DEF Calling, Live
  <2>2. CASE x = p
    <3>1. ~Rings(p, q, m) /\ ~Dropped(p, q, m)
      BY <1>5, <1>7, <2>2 DEF Calling, Live
    <3>2. CASE Nothing(p, q, m)
      BY <1>4, <3>1, <3>2 DEF Calling, Live
    <3>3. CASE Accepted(p, q, m)
      BY <1>6, <2>2, <3>1, <3>3 DEF Calling, Ours
    <3>4. CASE Seen(p, q, m)
      BY <1>8, <2>2, <3>1, <3>4 DEF Calling, Ours
    <3> QED BY <1>1, <3>1, <3>2, <3>3, <3>4
  <2> QED BY <2>1, <2>2
<1>12. /\ x # y /\ Up(x, y) \in BOOLEAN /\ Sees(x, y) \in BOOLEAN /\ Sees(y, x) \in BOOLEAN
       /\ current[x] \in InCalls /\ Pair(x, y)
       /\ wire[x][y] \in Seq(Messages) /\ wire[y][x] \in Seq(Messages)
       /\ current[y].id = current[x].id => current[y] \in InCalls /\ Live(y) /\ current[y].peer = x /\ current[y].incoming
       /\ current[y].id # current[x].id => ~InIt(current[x], current[y])
  BY <1>11, Pairing
<1>13. Agree(current[x], current[y], wire[x][y], wire[y][x], shared[x], shared[y], Up(x, y), Sees(x, y), Sees(y, x))
  BY <1>12 DEF Pair
<1>14. CASE x = p /\ y = q
  <2>1. /\ wire[y][x] # <<>> /\ m = Head(wire[y][x]) /\ wire'[y][x] = Tail(wire[y][x])
        /\ Up(x, y) /\ Sees(x, y) /\ Sees(y, x)
    BY <1>1, <1>14 DEF m
  <2>2. m.id = current[x].id <=> Ours(p, q, m)
    BY <1>11, <1>14 DEF Ours, Calling
  <2>3. m.id = current[x].id => m.step \notin Refusals
    <3> SUFFICES ASSUME m.id = current[x].id, m.step \in Refusals PROVE FALSE
      OBVIOUS
    <3>1. Over(p, q, m)
      BY <1>11, <1>14, <2>2 DEF Over, Calling
    <3>2. ~Nothing(p, q, m)
      BY <3>1 DEF Nothing
    <3>3. ~Accepted(p, q, m) /\ ~Seen(p, q, m)
      BY DEF Accepted, Seen, Refusals
    <3> QED BY <1>1, <1>11, <1>14, <3>2, <3>3
  <2>4. Head(wire[y][x]).id = current[x].id => Head(wire[y][x]).step \notin Refusals
    BY <2>1, <2>3
  <2>5. /\ ~(Is(m, "accept", current[x].id) /\ current[x].state = "ringing")
           /\ ~(Is(m, "screen", current[x].id) /\ current[x].state = "active")
             => Agree(current[x], current[y], wire[x][y], wire'[y][x], shared[x], shared[y], Up(x, y), Sees(x, y), Sees(y, x))
        /\ Is(m, "accept", current[x].id) /\ current[x].state = "ringing"
             => Agree([current[x] EXCEPT !.state = "active"], current[y], wire[x][y], wire'[y][x],
                      shared[x], shared[y], Up(x, y), Sees(x, y), Sees(y, x))
        /\ Is(m, "screen", current[x].id) /\ current[x].state = "active"
             => Agree([current[x] EXCEPT !.screen = m.stream], current[y], wire[x][y], wire'[y][x],
                      shared[x], shared[y], Up(x, y), Sees(x, y), Sees(y, x))
    <3> DEFINE h == Head(wire[y][x])
    <3>1. /\ ~(Is(h, "accept", current[x].id) /\ current[x].state = "ringing")
             /\ ~(Is(h, "screen", current[x].id) /\ current[x].state = "active")
               => Agree(current[x], current[y], wire[x][y], Tail(wire[y][x]), shared[x], shared[y], Up(x, y), Sees(x, y), Sees(y, x))
          /\ Is(h, "accept", current[x].id) /\ current[x].state = "ringing"
               => Agree([current[x] EXCEPT !.state = "active"], current[y], wire[x][y], Tail(wire[y][x]),
                        shared[x], shared[y], Up(x, y), Sees(x, y), Sees(y, x))
          /\ Is(h, "screen", current[x].id) /\ current[x].state = "active"
               => Agree([current[x] EXCEPT !.screen = h.stream], current[y], wire[x][y], Tail(wire[y][x]),
                        shared[x], shared[y], Up(x, y), Sees(x, y), Sees(y, x))
      BY <1>12, <1>13, <2>1, <2>4, CallerTakes
    <3> HIDE DEF h
    <3> QED BY <2>1, <3>1 DEF h
  <2>6. current'[y] = current[y] /\ shared'[y] = shared[y]
    BY <1>9, <1>12, <1>14
  <2>7. CASE Nothing(p, q, m)
    <3>1. /\ ~(Is(m, "accept", current[x].id) /\ current[x].state = "ringing")
          /\ ~(Is(m, "screen", current[x].id) /\ current[x].state = "active")
      BY <1>11, <1>14, <2>2, <2>7 DEF Nothing, Answered, Watching, Is, In, Calling
    <3>2. Agree(current[x], current[y], wire[x][y], wire'[y][x], shared[x], shared[y], Up(x, y), Sees(x, y), Sees(y, x))
      BY <2>5, <3>1
    <3>3. wire'[x][y] = wire[x][y]
      BY <1>1, <1>14
    <3> QED BY <1>2, <1>4, <2>7, <3>2, <3>3 DEF Pair
  <2>8. CASE Accepted(p, q, m)
    <3>1. Is(m, "accept", current[x].id) /\ current[x].state = "ringing"
      BY <1>6, <1>14, <2>2, <2>8 DEF Is
    <3>2. wire'[x][y] = wire[x][y] /\ current'[x] = [current[x] EXCEPT !.state = "active"] /\ shared' = shared
      BY <1>1, <1>6, <1>14, <2>8
    <3> QED BY <1>2, <2>5, <2>6, <3>1, <3>2 DEF Pair
  <2>9. CASE Seen(p, q, m)
    <3>1. Is(m, "screen", current[x].id) /\ current[x].state = "active"
      BY <1>8, <1>14, <2>2, <2>9 DEF Is
    <3>2. wire'[x][y] = wire[x][y] /\ current'[x] = [current[x] EXCEPT !.screen = m.stream] /\ shared' = shared
      BY <1>1, <1>8, <1>14, <2>9
    <3> QED BY <1>2, <2>5, <2>6, <3>1, <3>2 DEF Pair
  <2> QED BY <1>1, <1>11, <1>14, <2>7, <2>8, <2>9
<1>15. CASE x = p /\ y # q
  <2>1. ~Ours(p, q, m)
    BY <1>11, <1>15 DEF Ours
  <2>2. Nothing(p, q, m)
    BY <1>1, <1>6, <1>8, <1>11, <1>15, <2>1
  <2>3. wire'[x][y] = wire[x][y] /\ wire'[y][x] = wire[y][x]
    BY <1>1, <1>15
  <2> QED BY <1>2, <1>4, <2>2, <2>3, Elsewhere
<1>16. CASE y = p /\ x = q
  <2>1. /\ wire[x][y] # <<>> /\ m = Head(wire[x][y]) /\ wire'[x][y] = Tail(wire[x][y])
        /\ Tail(wire[x][y]) \in Seq(Messages)
    BY <1>1, <1>12, <1>16, OneLess DEF m
  <2>2. /\ ~Is(m, "end", current[x].id)
        /\ ~(Is(m, "screen", current[x].id) /\ InIt(current[x], current[y]))
             => Agree(current[x], current[y], wire'[x][y], wire[y][x], shared[x], shared[y], Up(x, y), Sees(x, y), Sees(y, x))
        /\ Is(m, "screen", current[x].id) /\ InIt(current[x], current[y]) /\ current[y] \in InCalls
             => Agree(current[x], [current[y] EXCEPT !.screen = m.stream], wire'[x][y], wire[y][x],
                      shared[x], shared[y], Up(x, y), Sees(x, y), Sees(y, x))
    <3>1. ~Is(m, "end", current[x].id)
      BY <1>12, <1>13, <2>1, NoEndComes
    <3>2. ~(Is(m, "screen", current[x].id) /\ InIt(current[x], current[y]))
            => Agree(current[x], current[y], wire'[x][y], wire[y][x], shared[x], shared[y], Up(x, y), Sees(x, y), Sees(y, x))
      BY <1>12, <1>13, <2>1, CalledTakes
    <3>3. ASSUME Is(m, "screen", current[x].id), InIt(current[x], current[y]), current[y] \in InCalls
          PROVE  Agree(current[x], [current[y] EXCEPT !.screen = m.stream], wire'[x][y], wire[y][x],
                       shared[x], shared[y], Up(x, y), Sees(x, y), Sees(y, x))
      <4> DEFINE e == [current[y] EXCEPT !.screen = m.stream]
      <4>1. e.id = current[y].id /\ e.state = current[y].state /\ Shows(m, current[x].id, e.screen)
        BY <3>3 DEF InCalls, Shows
      <4> HIDE DEF e
      <4>2. Agree(current[x], e, wire'[x][y], wire[y][x], shared[x], shared[y], Up(x, y), Sees(x, y), Sees(y, x))
        BY <1>12, <1>13, <2>1, <3>3, <4>1, CalledWatches
      <4> QED BY <4>2 DEF e
    <3> QED BY <3>1, <3>2, <3>3
  <2>3. current'[x] = current[x] /\ shared'[x] = shared[x]
    BY <1>9, <1>12, <1>16
  <2>4. CASE Nothing(p, q, m)
    <3>1. ~(Is(m, "screen", current[x].id) /\ InIt(current[x], current[y]))
      BY <1>12, <1>16, <2>4 DEF Nothing, Watching, Ours, In, InIt, Is
    <3>2. Agree(current[x], current[y], wire'[x][y], wire[y][x], shared[x], shared[y], Up(x, y), Sees(x, y), Sees(y, x))
      BY <2>2, <3>1
    <3>3. wire'[y][x] = wire[y][x]
      BY <1>1, <1>16
    <3> QED BY <1>2, <1>4, <2>4, <3>2, <3>3 DEF Pair
  <2>5. CASE ~Nothing(p, q, m)
    <3>1. wire'[y][x] = wire[y][x]
      BY <1>1, <1>16
    <3>2. CASE Seen(p, q, m) /\ m.id = current[x].id
      <4>1. Is(m, "screen", current[x].id) /\ InIt(current[x], current[y]) /\ current[y] \in InCalls
        BY <1>8, <1>12, <1>16, <3>2 DEF Is, InIt, Ours
      <4>2. current'[y] = [current[y] EXCEPT !.screen = m.stream] /\ shared' = shared
        BY <1>8, <1>16, <3>2
      <4> QED BY <1>2, <2>2, <2>3, <3>1, <4>1, <4>2 DEF Pair
    <3>3. CASE ~(Seen(p, q, m) /\ m.id = current[x].id)
      <4>1. ~InIt(current[x], current[y])
        <5>1. CASE Rings(p, q, m)
          <6>1. current[y].id = 0 /\ current[x].id # 0
            BY <1>3, <1>5, <1>11, <1>16, <5>1, Known DEF Calling
          <6> QED BY <6>1 DEF InIt
        <5>2. CASE Accepted(p, q, m)
          BY <1>6, <1>12, <1>16, <5>2
        <5>3. CASE Dropped(p, q, m)
          <6>1. m.step # "end" => current[y].id # current[x].id
            BY <1>7, <1>12, <1>16, <5>3
          <6>2. m.step = "end" => m.id # current[x].id /\ m.id = current[y].id
            BY <1>7, <1>16, <2>2, <5>3 DEF Is, Ours
          <6> QED BY <1>12, <6>1, <6>2
        <5>4. CASE Seen(p, q, m)
          BY <1>8, <1>12, <1>16, <3>3, <5>4 DEF Ours
        <5> QED BY <1>1, <2>5, <5>1, <5>2, <5>3, <5>4
      <4>2. ~InIt(current[x], current'[y]) /\ (current'[y].id = current[x].id => current'[y].screen = NoStream)
        <5>1. CASE Rings(p, q, m)
          BY <1>5, <1>16, <5>1 DEF InIt
        <5>2. CASE Accepted(p, q, m)
          <6>1. current'[y].id # current[x].id
            BY <1>6, <1>12, <1>16, <5>2 DEF Ours
          <6> QED BY <6>1 DEF InIt
        <5>3. CASE Dropped(p, q, m)
          <6>1. current'[y].id # current[x].id
            <7>1. NoCall.id = 0 /\ current[x].id # 0
              BY <1>3, <1>11, Known DEF Calling, NoCall
            <7> QED BY <1>7, <1>16, <5>3, <7>1
          <6> QED BY <6>1 DEF InIt
        <5>4. CASE Seen(p, q, m)
          <6>1. current'[y].id # current[x].id
            BY <1>8, <1>16, <3>3, <5>4
          <6> QED BY <6>1 DEF InIt
        <5> QED BY <1>1, <2>5, <5>1, <5>2, <5>3, <5>4
      <4>3. Agree(current[x], current[y], wire'[x][y], wire[y][x], shared[x], shared[y], Up(x, y), Sees(x, y), Sees(y, x))
        BY <2>2, <4>1
      <4>4. Agree(current[x], current'[y], wire'[x][y], wire[y][x], shared[x], shared'[y], Up(x, y), Sees(x, y), Sees(y, x))
        BY <1>12, <4>1, <4>2, <4>3, Aside
      <4> QED BY <1>2, <2>3, <3>1, <4>4 DEF Pair
    <3> QED BY <3>2, <3>3
  <2> QED BY <2>4, <2>5
<1>17. CASE y = p /\ x # q
  <2>1. wire'[x][y] = wire[x][y] /\ wire'[y][x] = wire[y][x] /\ current'[x] = current[x] /\ shared'[x] = shared[x]
    BY <1>1, <1>9, <1>12, <1>17
  <2>2. CASE Nothing(p, q, m)
    BY <1>2, <1>4, <2>1, <2>2, Elsewhere
  <2>3. CASE ~Nothing(p, q, m)
    <3>1. current[y].id # current[x].id
      <4>1. CASE Rings(p, q, m)
        BY <1>3, <1>5, <1>11, <1>17, <4>1, Known DEF Calling
      <4>2. CASE ~Rings(p, q, m)
        <5>1. Ours(p, q, m)
          BY <1>1, <1>6, <1>7, <1>8, <2>3, <4>2
        <5> QED BY <1>12, <1>17, <5>1 DEF Ours
      <4> QED BY <4>1, <4>2
    <3>2. current'[y].id # current[x].id
      <4>1. CASE Rings(p, q, m)
        <5>1. ASSUME m.id = current[x].id PROVE FALSE
          <6>1. InCall(x, m.id) /\ ~current[x].incoming
            BY <1>11, <5>1 DEF InCall, Calling
          <6>2. Roles(x, q, p)
            BY <1>1, <1>5, <4>1, <6>1 DEF IInv, OneCall
          <6> QED BY <1>17, <6>1, <6>2 DEF Roles
        <5> QED BY <1>5, <1>17, <4>1, <5>1
      <4>2. CASE Dropped(p, q, m)
        <5>1. NoCall.id = 0 /\ current[x].id # 0
          BY <1>3, <1>11, Known DEF Calling, NoCall
        <5> QED BY <1>7, <1>17, <4>2, <5>1
      <4>3. CASE Accepted(p, q, m) \/ Seen(p, q, m)
        <5>1. current'[y].id = current[y].id
          BY <1>6, <1>8, <1>17, <4>3 DEF Ours
        <5> QED BY <3>1, <5>1
      <4> QED BY <1>1, <2>3, <4>1, <4>2, <4>3
    <3>3. ~InIt(current[x], current[y]) /\ ~InIt(current[x], current'[y])
      BY <3>1, <3>2 DEF InIt
    <3>4. Agree(current[x], current'[y], wire[x][y], wire[y][x], shared[x], shared'[y], Up(x, y), Sees(x, y), Sees(y, x))
      BY <1>12, <1>13, <3>2, <3>3, Aside
    <3> QED BY <1>2, <2>1, <3>4 DEF Pair
  <2> QED BY <2>2, <2>3
<1>18. CASE x # p /\ y # p
  <2>1. wire'[x][y] = wire[x][y] /\ wire'[y][x] = wire[y][x]
    BY <1>1, <1>18
  <2> QED BY <1>2, <1>9, <1>18, <2>1, Elsewhere
<1> QED BY <1>14, <1>15, <1>16, <1>17, <1>18

-----------------------------------------------------------------------------
(* What is on its way, or logged, as a set.                                *)
LEMMA OnMore ==
  ASSUME NEW s \in Seq(Messages), NEW m \in Messages
  PROVE  On(Append(s, m)) = On(s) \cup {m}
<1> DEFINE t == Append(s, m)  n == Len(s)
<1>1. /\ DOMAIN t = 1..n + 1 /\ DOMAIN s = 1..n /\ n \in Nat
      /\ \A i \in 1..n : t[i] = s[i]
      /\ t[n + 1] = m
  BY OneMore
<1> HIDE DEF t, n
<1>2. On(t) = On(s) \cup {m}
  BY <1>1 DEF On
<1> QED BY <1>2 DEF t

LEMMA OnLess ==
  ASSUME NEW s \in Seq(Messages), s # <<>>
  PROVE  On(Tail(s)) \subseteq On(s)
<1>1. \A i \in DOMAIN Tail(s) : i + 1 \in DOMAIN s /\ s[i + 1] = Tail(s)[i]
  BY Indices
<1> QED BY <1>1 DEF On

LEMMA OnTypes ==
  ASSUME TypeOK, NEW a \in People, NEW b \in People, NEW m \in On(wire[a][b])
  PROVE  m \in Messages
<1>1. wire[a][b] \in Seq(Messages)
  BY DEF TypeOK
<1> QED BY <1>1 DEF On

LEMMA LoggedOn ==
  ASSUME NEW p \in People, NEW id, NEW incoming, NEW outcomes
  PROVE  /\ Logged(p, id, incoming, outcomes) <=>
              \E e \in On(log[p]) : e.id = id /\ e.incoming = incoming /\ e.outcome \in outcomes
         /\ Logged(p, id, incoming, outcomes)' <=>
              \E e \in On(log'[p]) : e.id = id /\ e.incoming = incoming /\ e.outcome \in outcomes
BY DEF Logged, On

(* Calls go on or end, and what is put on its way belongs to one.          *)
GoesOn(p) ==
  current'[p] # NoCall =>
    /\ Live(p) /\ current'[p].id = current[p].id /\ current'[p].peer = current[p].peer
    /\ current'[p].incoming = current[p].incoming
RingOf(a, b, m) == Calling(a) /\ current[a].peer = b /\ m.id = current[a].id

LEMMA OneCallOn ==
  ASSUME IInv, made \in Nat, made' = made, \A p \in People : GoesOn(p),
         \A a, b \in People : \A m \in On(wire'[a][b]) :
           \/ m \in On(wire[a][b])
           \/ m.id <= made /\ (m.step = "ring" => RingOf(a, b, m))
  PROVE  OneCall'
<1>1. \A p \in People : current'[p] # NoCall => Live(p) /\ current'[p].id <= made' /\ current'[p].peer # p
  BY DEF GoesOn, IInv, OneCall
<1>2. \A a, b \in People : \A m \in On(wire'[a][b]) : m.id <= made'
  BY DEF IInv, OneCall
<1>3. ASSUME NEW p \in People, NEW a \in People, NEW b \in People, NEW m \in On(wire'[a][b]),
             m.step = "ring", InCall(p, m.id)'
      PROVE  Roles(p, a, b)'
  <2>1. InCall(p, m.id) /\ current'[p].peer = current[p].peer /\ current'[p].incoming = current[p].incoming
    BY <1>3 DEF InCall, Live, GoesOn
  <2>2. Roles(p, a, b)
    <3>1. CASE m \in On(wire[a][b])
      BY <1>3, <2>1, <3>1 DEF IInv, OneCall
    <3>2. CASE RingOf(a, b, m)
      <4>1. CASE p = a
        BY <3>2, <4>1 DEF RingOf, Calling, Roles
      <4>2. CASE p # a
        <5>1. current[a].peer = p /\ current[p].peer = a /\ current[a].incoming = ~current[p].incoming
          BY <2>1, <3>2, <4>2 DEF RingOf, Calling, InCall, IInv, OneCall
        <5>2. current[p].incoming \in BOOLEAN
          BY <2>1, Known DEF IInv, InCall
        <5> QED BY <3>2, <5>1, <5>2 DEF RingOf, Calling, Roles
      <4> QED BY <4>1, <4>2
    <3> QED BY <1>3, <3>1, <3>2
  <2> QED BY <2>1, <2>2 DEF Roles
<1>4. ASSUME NEW a \in People, NEW b \in People, NEW m \in On(wire'[a][b]), m.step = "ring",
             NEW x \in People, NEW y \in People, NEW n \in On(wire'[x][y]), n.step = "ring", n.id = m.id
      PROVE  x = a /\ y = b
  <2>1. ASSUME NEW c \in People, NEW d \in People, NEW e \in People, NEW f \in People,
               NEW k, NEW l, k.step = "ring", l.step = "ring", k.id = l.id,
               RingOf(c, d, k), l \in On(wire[e][f])
        PROVE  c = e /\ d = f
    <3>1. InCall(c, l.id)
      BY <2>1 DEF RingOf, Calling, InCall
    <3>2. Roles(c, e, f)
      BY <2>1, <3>1 DEF IInv, OneCall
    <3> QED BY <2>1, <3>2 DEF Roles, RingOf, Calling
  <2>2. CASE m \in On(wire[a][b]) /\ n \in On(wire[x][y])
    BY <1>4, <2>2 DEF IInv, OneCall
  <2>3. CASE RingOf(a, b, m) /\ n \in On(wire[x][y])
    BY <1>4, <2>1, <2>3
  <2>4. CASE m \in On(wire[a][b]) /\ RingOf(x, y, n)
    BY <1>4, <2>1, <2>4
  <2>5. CASE RingOf(a, b, m) /\ RingOf(x, y, n)
    <3>1. CASE x = a
      BY <2>5, <3>1 DEF RingOf
    <3>2. CASE x # a
      <4>1. Live(x) /\ InCall(a, current[x].id) /\ ~current[x].incoming /\ ~current[a].incoming
        BY <1>4, <2>5 DEF RingOf, Calling, InCall
      <4>2. current[x].incoming = ~current[a].incoming
        BY <3>2, <4>1 DEF IInv, OneCall
      <4> QED BY <4>1, <4>2
    <3> QED BY <3>1, <3>2
  <2> QED BY <1>4, <2>2, <2>3, <2>4, <2>5
<1>5. ASSUME NEW p \in People, NEW q \in People, p # q, Live(p)', InCall(q, current[p].id)'
      PROVE  /\ current'[p].peer = q /\ current'[q].peer = p
             /\ current'[p].incoming = ~current'[q].incoming
  <2>1. /\ Live(p) /\ InCall(q, current[p].id)
        /\ current'[p].peer = current[p].peer /\ current'[p].incoming = current[p].incoming
        /\ current'[q].peer = current[q].peer /\ current'[q].incoming = current[q].incoming
    BY <1>5 DEF InCall, Live, GoesOn
  <2> QED BY <1>5, <2>1 DEF IInv, OneCall
<1> QED BY <1>1, <1>2, <1>3, <1>4, <1>5 DEF OneCall, Live

(* What was taken, or declined, stays so.                                  *)
Kept(q) ==
  /\ On(log[q]) \subseteq On(log'[q])
  /\ In(q, {"active"}) /\ current[q].incoming =>
       \/ current'[q] # NoCall /\ current'[q].state = "active" /\ current'[q].incoming /\ current'[q].id = current[q].id
       \/ \E e \in On(log'[q]) : e.id = current[q].id /\ e.incoming = TRUE /\ e.outcome \in {"ended", "lost"}

LEMMA Evidence ==
  ASSUME NEW q \in People, Kept(q), NEW id
  PROVE  (Took(q, id) => Took(q, id)') /\ (Declined(q, id) => Declined(q, id)')
<1>1. \A incoming, outcomes : Logged(q, id, incoming, outcomes) => Logged(q, id, incoming, outcomes)'
  BY LoggedOn DEF Kept
<1>2. ASSUME InCall(q, id), In(q, {"active"}), current[q].incoming PROVE Took(q, id)'
  <2>1. current[q].id = id
    BY <1>2 DEF InCall
  <2>2. CASE current'[q] # NoCall /\ current'[q].state = "active" /\ current'[q].incoming /\ current'[q].id = current[q].id
    BY <2>1, <2>2 DEF Took, InCall, In, Live
  <2>3. CASE \E e \in On(log'[q]) : e.id = current[q].id /\ e.incoming = TRUE /\ e.outcome \in {"ended", "lost"}
    <3>1. Logged(q, id, TRUE, {"ended", "lost"})'
      BY <2>1, <2>3, LoggedOn
    <3> QED BY <3>1 DEF Took
  <2> QED BY <1>2, <2>2, <2>3 DEF Kept
<1> QED BY <1>1, <1>2 DEF Took, Declined

LEMMA TruthfulOn ==
  ASSUME IInv, \A q \in People : Kept(q),
         \A p, q \in People : \A m \in On(wire'[q][p]) :
           \/ m \in On(wire[q][p])
           \/ (m.step = "accept" => Took(q, m.id)') /\ (m.step = "decline" => Declined(q, m.id)'),
         \A p \in People : Calling(p)' /\ In(p, {"active"})' =>
           /\ current[p].peer \in People /\ current'[p].peer = current[p].peer /\ current'[p].id = current[p].id
           /\ (Calling(p) /\ In(p, {"active"})) \/ Took(current[p].peer, current[p].id),
         \A p \in People : \A e \in On(log'[p]) :
           e \in On(log[p]) \/ e.incoming \/ e.outcome # "declined" \/ \E r \in People : Declined(r, e.id)
  PROVE  Truthful'
<1>1. ASSUME NEW p \in People, NEW q \in People, NEW m \in On(wire'[q][p])
      PROVE  (m.step = "accept" => Took(q, m.id)') /\ (m.step = "decline" => Declined(q, m.id)')
  <2>1. CASE m \in On(wire[q][p])
    <3>1. (m.step = "accept" => Took(q, m.id)) /\ (m.step = "decline" => Declined(q, m.id))
      BY <2>1 DEF IInv, Truthful
    <3> QED BY <3>1, Evidence
  <2> QED BY <2>1
<1>2. ASSUME NEW p \in People, Calling(p)', In(p, {"active"})'
      PROVE  Took(current[p].peer, current[p].id)'
  <2>1. ASSUME NEW q \in People, NEW id, current'[p].peer = q, current'[p].id = id, Took(q, id)
        PROVE  Took(current[p].peer, current[p].id)'
    <3>1. Took(q, id)'
      BY <2>1, Evidence
    <3> QED BY <2>1, <3>1 DEF Took, Logged, InCall, In, Live
  <2>2. /\ current[p].peer \in People /\ current'[p].peer = current[p].peer /\ current'[p].id = current[p].id
        /\ Took(current[p].peer, current[p].id)
    BY <1>2 DEF IInv, Truthful
  <2> QED BY <2>1, <2>2
<1>3. ASSUME NEW p \in People, NEW e \in On(log'[p]), ~e.incoming, e.outcome = "declined"
      PROVE  \E r \in People : Declined(r, e.id)'
  <2>1. PICK r \in People : Declined(r, e.id)
    BY <1>3 DEF IInv, Truthful
  <2>2. Declined(r, e.id)'
    BY <2>1, Evidence
  <2> QED BY <2>2
<1> QED BY <1>1, <1>2, <1>3 DEF Truthful

-----------------------------------------------------------------------------
(* What an action keeps, but for what both sides agree on.                 *)
Rest == TypeOK /\ OverConnections /\ SharedInACall /\ OneCall /\ Truthful

LEMMA OverIs ==
  /\ OverConnections <=> \A a, b \in People : ~Up(a, b) \/ ~Sees(a, b) => wire[a][b] = <<>>
  /\ OverConnections' <=> \A a, b \in People : ~Up(a, b)' \/ ~Sees(a, b)' => wire'[a][b] = <<>>
BY DEF OverConnections, Up, Sees

LEMMA CarriedOn ==
  ASSUME TypeOK, NEW p \in People, NEW q \in People, NEW m \in Messages, wire' = Carried(p, q, m)
  PROVE  \A a, b \in People :
           /\ On(wire'[a][b]) \subseteq On(wire[a][b]) \cup {m}
           /\ \A n \in On(wire'[a][b]) : n \in On(wire[a][b]) \/ (n = m /\ a = p /\ b = q)
           /\ ~Up(a, b) \/ ~Sees(a, b) => wire'[a][b] = wire[a][b]
<1>1. \A a, b \in People :
        wire'[a][b] = IF a = p /\ b = q /\ Up(p, q) /\ Sees(p, q) THEN Append(wire[a][b], m) ELSE wire[a][b]
  BY Carrying
<1>2. wire[p][q] \in Seq(Messages)
  BY DEF TypeOK
<1>3. On(Append(wire[p][q], m)) = On(wire[p][q]) \cup {m}
  BY <1>2, OnMore
<1> QED BY <1>1, <1>3

LEMMA CallRest ==
  ASSUME IInv, NEW p \in People, NEW q \in People, Call(p, q)
  PROVE  Rest'
<1> DEFINE id == made + 1  m == Step("ring", id)
<1>1. /\ p # q /\ ~Live(p) /\ id \in Ids /\ made \in Nat /\ made' = id /\ id \in 0..MaxCalls /\ id \notin 0..made
      /\ made <= id
  BY CallsAssumption DEF IInv, TypeOK, Call, Busy, Ids
<1>2. m \in Messages /\ m.step = "ring" /\ m.id = id
  BY <1>1, StepTypes
<1> HIDE DEF m
<1>3. Begins(p, id, q, FALSE)
  BY DEF Call
<1>4. wire' = Carried(p, q, m) \/ wire' = wire
  BY DEF Call, m
<1> HIDE DEF id
<1>5. UNCHANGED <<log, ready, up, breaks, shared, seat, shares>> /\ stuck' \subseteq People
  BY DEF Call, link, Stuck, IInv, TypeOK
<1>6. TypeOK
  BY DEF IInv
<1>7. /\ current' \in [People -> {NoCall} \cup InCalls]
      /\ \A r \in People : r # p => current'[r] = current[r]
      /\ current'[p] \in InCalls
      /\ current'[p].id = id /\ current'[p].peer = q /\ current'[p].incoming = FALSE
      /\ current'[p].state = "ringing"
  BY <1>1, <1>3, <1>6, Beginning
<1>8. /\ wire' \in [People -> [People -> Seq(Messages)]]
      /\ \A a, b \in People : \A n \in On(wire'[a][b]) : n \in On(wire[a][b]) \/ (n = m /\ a = p /\ b = q)
      /\ \A a, b \in People : ~Up(a, b) \/ ~Sees(a, b) => wire'[a][b] = wire[a][b]
  <2>1. CASE wire' = Carried(p, q, m)
    <3>1. wire' \in [People -> [People -> Seq(Messages)]]
      BY <1>2, <1>6, <2>1, Carrying
    <3>2. \A a, b \in People :
             /\ On(wire'[a][b]) \subseteq On(wire[a][b]) \cup {m}
             /\ \A n \in On(wire'[a][b]) : n \in On(wire[a][b]) \/ (n = m /\ a = p /\ b = q)
             /\ ~Up(a, b) \/ ~Sees(a, b) => wire'[a][b] = wire[a][b]
      BY <1>2, <1>6, <2>1, CarriedOn
    <3> QED BY <3>1, <3>2
  <2>2. CASE wire' = wire
    BY <1>6, <2>2 DEF TypeOK
  <2> QED BY <1>4, <2>1, <2>2
<1>9. TypeOK'
  BY <1>1, <1>5, <1>6, <1>7, <1>8 DEF TypeOK
<1>10. OverConnections'
  <2>1. \A a, b \in People : Up(a, b)' = Up(a, b) /\ Sees(a, b)' = Sees(a, b)
    BY <1>5 DEF Up, Sees
  <2> QED BY <1>8, <2>1, OverIs DEF IInv
<1>11. SharedInACall'
  BY <1>1, <1>5, <1>7 DEF IInv, SharedInACall, In, Live
<1>12. /\ \A r \in People : current[r].id \in 0..made
       /\ \A a, b \in People : \A n \in On(wire[a][b]) : n.id \in 0..made
  <2>1. ASSUME NEW r \in People PROVE current[r].id \in 0..made
    <3>1. Live(r) => current[r].id <= made
      BY DEF IInv, OneCall
    <3>2. current[r].id \in Nat /\ (~Live(r) => current[r].id = 0)
      BY <1>6, Known
    <3> QED BY <1>1, <3>1, <3>2
  <2>2. ASSUME NEW a \in People, NEW b \in People, NEW n \in On(wire[a][b]) PROVE n.id \in 0..made
    <3>1. n.id <= made
      BY DEF IInv, OneCall
    <3>2. n.id \in Ids
      BY <1>6, OnTypes DEF Messages
    <3> QED BY <1>1, <3>1, <3>2, CallsAssumption DEF Ids
  <2> QED BY <2>1, <2>2
<1>13. OneCall'
  <2>1. ASSUME NEW r \in People, Live(r)' PROVE current'[r].id <= made' /\ current'[r].peer # r
    <3>1. CASE r = p
      BY <1>1, <1>7, <3>1 DEF Ids
    <3>2. CASE r # p
      <4>1. Live(r) /\ current'[r] = current[r]
        BY <1>7, <2>1, <3>2 DEF Live
      <4>2. current[r].id \in 0..made /\ current[r].peer # r
        BY <1>12, <4>1 DEF IInv, OneCall
      <4> QED BY <1>1, <4>1, <4>2 DEF Ids
    <3> QED BY <3>1, <3>2
  <2>2. ASSUME NEW a \in People, NEW b \in People, NEW n \in On(wire'[a][b]) PROVE n.id <= made'
    <3>1. n.id \in 0..made \/ n.id = id
      BY <1>2, <1>8, <1>12
    <3> QED BY <1>1, <3>1 DEF Ids
  <2>3. ASSUME NEW a \in People, NEW b \in People, NEW n \in On(wire'[a][b]), n.step = "ring",
               NEW r \in People, InCall(r, n.id)'
        PROVE  Roles(r, a, b)'
    <3>1. CASE n \in On(wire[a][b])
      <4>1. n.id # id
        BY <1>1, <1>12, <3>1
      <4>2. r # p
        BY <1>7, <2>3, <4>1 DEF InCall
      <4>3. InCall(r, n.id) /\ current'[r] = current[r]
        BY <1>7, <2>3, <4>2 DEF InCall, Live
      <4>4. Roles(r, a, b)
        BY <2>3, <3>1, <4>3 DEF IInv, OneCall
      <4> QED BY <4>3, <4>4 DEF Roles
    <3>2. CASE n = m /\ a = p /\ b = q
      <4>1. r = p
        BY <1>1, <1>2, <1>7, <1>12, <2>3, <3>2 DEF InCall
      <4> QED BY <1>7, <3>2, <4>1 DEF Roles
    <3> QED BY <1>8, <3>1, <3>2
  <2>4. ASSUME NEW a \in People, NEW b \in People, NEW n \in On(wire'[a][b]), n.step = "ring",
               NEW x \in People, NEW y \in People, NEW k \in On(wire'[x][y]), k.step = "ring", k.id = n.id
        PROVE  x = a /\ y = b
    <3>1. CASE n \in On(wire[a][b]) /\ k \in On(wire[x][y])
      BY <2>4, <3>1 DEF IInv, OneCall
    <3>2. CASE ~(n \in On(wire[a][b]) /\ k \in On(wire[x][y]))
      <4>1. \A c, d \in People : \A l \in On(wire[c][d]) : l.id # id
        BY <1>1, <1>12
      <4>2. k = m /\ x = p /\ y = q /\ n = m /\ a = p /\ b = q
        <5>1. \A c, d \in People : \A l \in On(wire'[c][d]) : l.id = id => l = m /\ c = p /\ d = q
          <6>1. ASSUME NEW c \in People, NEW d \in People, NEW l \in On(wire'[c][d]), l.id = id
                PROVE  l = m /\ c = p /\ d = q
            BY <1>8, <4>1, <6>1
          <6> QED BY <6>1
        <5>2. n.id = id
          BY <1>2, <1>8, <2>4, <3>2
        <5> QED BY <2>4, <5>1, <5>2
      <4> QED BY <4>2
    <3> QED BY <3>1, <3>2
  <2>5. ASSUME NEW r \in People, NEW s \in People, r # s, Live(r)', InCall(s, current[r].id)'
        PROVE  current'[r].peer = s /\ current'[s].peer = r /\ current'[r].incoming = ~current'[s].incoming
    <3>1. r # p /\ s # p
      BY <1>1, <1>7, <1>12, <2>5 DEF InCall
    <3>2. Live(r) /\ InCall(s, current[r].id) /\ current'[r] = current[r] /\ current'[s] = current[s]
      BY <1>7, <2>5, <3>1 DEF InCall, Live
    <3> QED BY <2>5, <3>2 DEF IInv, OneCall
  <2> QED BY <2>1, <2>2, <2>3, <2>4, <2>5 DEF OneCall
<1>14. Truthful'
  <2>1. \A r \in People : Kept(r)
    BY <1>1, <1>5, <1>7 DEF Kept, In, Live
  <2>2. \A r \in People : Calling(r)' /\ In(r, {"active"})' =>
           /\ current[r].peer \in People /\ current'[r].peer = current[r].peer /\ current'[r].id = current[r].id
           /\ Calling(r) /\ In(r, {"active"})
    <3>1. ASSUME NEW r \in People, Calling(r)', In(r, {"active"})'
          PROVE  /\ current[r].peer \in People /\ current'[r] = current[r]
                 /\ Calling(r) /\ In(r, {"active"})
      <4>1. r # p
        BY <1>7, <3>1 DEF In
      <4>2. current'[r] = current[r] /\ Calling(r) /\ In(r, {"active"})
        BY <1>7, <3>1, <4>1 DEF Calling, In, Live
      <4> QED BY <1>6, <4>2, Known DEF Calling
    <3> QED BY <3>1
  <2>3. \A a, b \in People : \A n \in On(wire'[a][b]) :
          n \in On(wire[a][b]) \/ (n.step # "accept" /\ n.step # "decline")
    BY <1>2, <1>8
  <2> QED BY <1>5, <2>1, <2>2, <2>3, TruthfulOn
<1> QED BY <1>9, <1>10, <1>11, <1>13, <1>14 DEF Rest

LEMMA AcceptRest ==
  ASSUME IInv, NEW p \in People, Accept(p)
  PROVE  Rest'
<1> DEFINE q == current[p].peer  id == current[p].id  m == Step("accept", id)
<1>1. Live(p) /\ current[p].state = "ringing" /\ current[p].incoming
  BY DEF Accept, In
<1>2. q \in People /\ id \in Ids /\ current[p] \in InCalls
  BY <1>1, Known DEF IInv
<1>3. m \in Messages /\ m.step = "accept" /\ m.id = id
  BY <1>2, StepTypes
<1> HIDE DEF m
<1>4. Activates(p) /\ wire' = Carried(p, q, m)
  BY DEF Accept, Steps, m
<1>5. TypeOK
  BY DEF IInv
<1>6. /\ current' \in [People -> {NoCall} \cup InCalls]
      /\ \A r \in People : r # p => current'[r] = current[r]
      /\ current'[p] \in InCalls
      /\ current'[p].id = id /\ current'[p].peer = q
      /\ current'[p].incoming = current[p].incoming
      /\ current'[p].state = "active"
  BY <1>1, <1>4, <1>5, Activating
<1> HIDE DEF q, id
<1>7. UNCHANGED <<made, log, ready, up, breaks, shared, stuck, seat, shares>>
  BY DEF Accept, link
<1>8. /\ wire' \in [People -> [People -> Seq(Messages)]]
      /\ \A a, b \in People : \A n \in On(wire'[a][b]) : n \in On(wire[a][b]) \/ (n = m /\ a = p /\ b = q)
      /\ \A a, b \in People : ~Up(a, b) \/ ~Sees(a, b) => wire'[a][b] = wire[a][b]
  <2>1. wire' \in [People -> [People -> Seq(Messages)]]
    BY <1>2, <1>3, <1>4, <1>5, Carrying
  <2>2. \A a, b \in People :
           /\ On(wire'[a][b]) \subseteq On(wire[a][b]) \cup {m}
           /\ \A n \in On(wire'[a][b]) : n \in On(wire[a][b]) \/ (n = m /\ a = p /\ b = q)
           /\ ~Up(a, b) \/ ~Sees(a, b) => wire'[a][b] = wire[a][b]
    <3>1. TypeOK /\ q \in People /\ m \in Messages
      BY <1>2, <1>3, <1>5
    <3> QED BY <1>4, <3>1, SMTT(40), CarriedOn
  <2> QED BY <2>1, <2>2
<1>9. TypeOK'
  BY <1>5, <1>6, <1>7, <1>8 DEF TypeOK
<1>10. OverConnections'
  <2>1. \A a, b \in People : Up(a, b)' = Up(a, b) /\ Sees(a, b)' = Sees(a, b)
    BY <1>7 DEF Up, Sees
  <2> QED BY <1>8, <2>1, OverIs DEF IInv
<1>11. SharedInACall'
  <2> SUFFICES ASSUME NEW r \in People, ~In(r, {"active"})' PROVE shared'[r] = NoStream
    BY DEF SharedInACall
  <2>1. current'[p] # NoCall
    BY <1>6, NoCallIsNone
  <2>2. r # p
    BY <1>6, <2>1 DEF In, Live
  <2>3. ~In(r, {"active"})
    BY <1>6, <2>2 DEF In, Live
  <2> QED BY <1>7, <2>3 DEF IInv, SharedInACall
<1>12. made \in Nat /\ id <= made
  BY <1>1, <1>5 DEF TypeOK, IInv, OneCall, id
<1>13. OneCall'
  <2>1. \A r \in People : GoesOn(r)
    BY <1>1, <1>6 DEF GoesOn, Live, q, id
  <2>2. \A a, b \in People : \A n \in On(wire'[a][b]) :
           n \in On(wire[a][b]) \/ (n.id <= made /\ (n.step = "ring" => RingOf(a, b, n)))
    BY <1>3, <1>8, <1>12
  <2> QED BY <1>7, <1>12, <2>1, <2>2, OneCallOn
<1>14. Truthful'
  <2>1. \A r \in People : Kept(r)
    BY <1>1, <1>6, <1>7 DEF Kept, In, Live
  <2>2. ASSUME NEW k, k = id PROVE Took(p, k)'
    <3>1. current'[p] # NoCall
      BY <1>6, NoCallIsNone
    <3> QED BY <1>1, <1>6, <2>2, <3>1 DEF Took, InCall, In, Live
  <2>3. \A r \in People : Calling(r)' /\ In(r, {"active"})' =>
           /\ current[r].peer \in People /\ current'[r].peer = current[r].peer /\ current'[r].id = current[r].id
           /\ Calling(r) /\ In(r, {"active"})
    <3>1. ASSUME NEW r \in People, Calling(r)', In(r, {"active"})'
          PROVE  /\ current[r].peer \in People /\ current'[r] = current[r]
                 /\ Calling(r) /\ In(r, {"active"})
      <4>1. r # p
        BY <1>1, <1>6, <3>1 DEF Calling
      <4>2. current'[r] = current[r] /\ Calling(r) /\ In(r, {"active"})
        BY <1>6, <3>1, <4>1 DEF Calling, In, Live
      <4> QED BY <1>5, <4>2, Known DEF Calling
    <3> QED BY <3>1
  <2>4. \A a, b \in People : \A n \in On(wire'[a][b]) :
          n \in On(wire[a][b]) \/ (n = m /\ a = p)
    BY <1>8
  <2>5. \A a, b \in People : \A n \in On(wire'[b][a]) :
          n \in On(wire[b][a]) \/ ((n.step = "accept" => Took(b, n.id)') /\ (n.step = "decline" => Declined(b, n.id)'))
    <3>1. ASSUME NEW a \in People, NEW b \in People, NEW n \in On(wire'[b][a]), n \notin On(wire[b][a])
          PROVE  (n.step = "accept" => Took(b, n.id)') /\ n.step # "decline"
      <4>1. n = m /\ b = p /\ n.id = m.id
        BY <2>4, <3>1
      <4>2. n.id = id /\ n.step = "accept"
        BY <1>3, <4>1
      <4>3. Took(p, n.id)'
        BY <2>2, <4>2
      <4> QED BY <4>1, <4>2, <4>3
    <3> QED BY <3>1
  <2> QED BY <1>7, <2>1, <2>3, <2>5, TruthfulOn
<1> QED BY <1>9, <1>10, <1>11, <1>13, <1>14 DEF Rest

-----------------------------------------------------------------------------
(* A caller whose call is in progress was answered, before or just now.    *)
Believed(p) ==
  Calling(p)' /\ In(p, {"active"})' =>
    /\ current[p].peer \in People /\ current'[p].peer = current[p].peer /\ current'[p].id = current[p].id
    /\ (Calling(p) /\ In(p, {"active"})) \/ Took(current[p].peer, current[p].id)

LEMMA Same ==
  ASSUME TypeOK, NEW r \in People, current'[r] = current[r], log'[r] = log[r]
  PROVE  GoesOn(r) /\ Kept(r) /\ Believed(r) /\ (In(r, {"active"})' <=> In(r, {"active"}))
<1>1. Calling(r)' <=> Calling(r)
  BY DEF Calling, Live
<1>2. In(r, {"active"})' <=> In(r, {"active"})
  BY DEF In, Live
<1>3. Calling(r) => current[r].peer \in People
  BY Known DEF Calling
<1>4. Kept(r)
  BY DEF Kept, In, Live
<1> QED BY <1>1, <1>2, <1>3, <1>4 DEF GoesOn, Believed, Live

LEMMA EndingRest ==
  ASSUME IInv, NEW p \in People, Live(p), NEW outcome \in Outcomes, Ends(p, outcome),
         In(p, {"active"}) /\ current[p].incoming => outcome \in {"ended", "lost"}
  PROVE  /\ SharedInACall'
         /\ \A r \in People : GoesOn(r) /\ Kept(r) /\ Believed(r)
         /\ \A r \in People : \A e \in On(log'[r]) :
              e \in On(log[r]) \/ (e.id = current[p].id /\ e.incoming = current[p].incoming /\ e.outcome = outcome)
         /\ outcome = "declined" /\ current[p].incoming => \A id : id = current[p].id => Declined(p, id)'
<1> DEFINE e == Ended(current[p], outcome)
<1>1. TypeOK
  BY DEF IInv
<1>2. /\ \A r \in People : r # p => current'[r] = current[r] /\ log'[r] = log[r] /\ shared'[r] = shared[r]
      /\ current'[p] = NoCall /\ shared'[p] = NoStream
      /\ On(log'[p]) = On(log[p]) \cup {e}
  BY <1>1, Ending
<1>3. e.id = current[p].id /\ e.incoming = current[p].incoming /\ e.outcome = outcome
  BY DEF Ended
<1> HIDE DEF e
<1>4. current[p].incoming \in BOOLEAN
  BY <1>1, Known
<1>5. GoesOn(p) /\ Believed(p)
  BY <1>2 DEF GoesOn, Believed, Calling, Live
<1>6. Kept(p)
  <2>1. In(p, {"active"}) /\ current[p].incoming =>
          \E f \in On(log'[p]) : f.id = current[p].id /\ f.incoming = TRUE /\ f.outcome \in {"ended", "lost"}
    BY <1>2, <1>3, <1>4
  <2> QED BY <1>2, <2>1 DEF Kept
<1>7. SharedInACall'
  <2> SUFFICES ASSUME NEW r \in People, ~In(r, {"active"})' PROVE shared'[r] = NoStream
    BY DEF SharedInACall
  <2>1. CASE r = p
    BY <1>2, <2>1
  <2>2. CASE r # p
    <3>1. ~In(r, {"active"}) /\ shared'[r] = shared[r]
      BY <1>1, <1>2, <2>2, Same
    <3> QED BY <3>1 DEF IInv, SharedInACall
  <2> QED BY <2>1, <2>2
<1>8. ASSUME outcome = "declined", current[p].incoming, NEW id, id = current[p].id PROVE Declined(p, id)'
  <2>1. Logged(p, id, TRUE, {"declined"})'
    <3>1. e \in On(log'[p]) /\ e.id = id /\ e.outcome \in {"declined"}
      BY <1>2, <1>3, <1>8
    <3>2. e.incoming = TRUE
      BY <1>3, <1>4, <1>8
    <3>3. \E f \in On(log'[p]) : f.id = id /\ f.incoming = TRUE /\ f.outcome \in {"declined"}
      BY <3>1, <3>2
    <3> QED BY <3>3, LoggedOn
  <2> QED BY <2>1 DEF Declined
<1>9. \A r \in People : GoesOn(r) /\ Kept(r) /\ Believed(r)
  <2> SUFFICES ASSUME NEW r \in People PROVE GoesOn(r) /\ Kept(r) /\ Believed(r)
    OBVIOUS
  <2>1. CASE r = p
    BY <1>5, <1>6, <2>1
  <2>2. CASE r # p
    BY <1>1, <1>2, <2>2, Same
  <2> QED BY <2>1, <2>2
<1>10. \A r \in People : \A f \in On(log'[r]) :
         f \in On(log[r]) \/ (f.id = current[p].id /\ f.incoming = current[p].incoming /\ f.outcome = outcome)
  BY <1>2, <1>3
<1> QED BY <1>7, <1>8, <1>9, <1>10

LEMMA LeavingRest ==
  ASSUME IInv, NEW p \in People, NEW step \in {"decline", "end"}, NEW outcome \in Outcomes,
         Leaves(p, step, outcome), UNCHANGED <<made, breaks, stuck, seat, shares>>,
         In(p, {"active"}) /\ current[p].incoming => outcome = "ended",
         outcome = "declined" <=> step = "decline", step = "decline" => current[p].incoming
  PROVE  Rest'
<1> DEFINE q == current[p].peer  id == current[p].id  m == Step(step, id)
<1>1. Live(p) /\ q \in People /\ id \in Ids
  BY Known DEF IInv, Leaves
<1>2. m \in Messages /\ m.step = step /\ m.id = id
  BY <1>1, StepTypes
<1> HIDE DEF m
<1>3. Ends(p, outcome)
  BY DEF Leaves
<1>4. wire' = Carried(p, q, m)
  BY DEF Leaves, Steps, m
<1>5. TypeOK /\ UNCHANGED <<ready, up>>
  BY DEF IInv, Leaves
<1>6. /\ current' \in [People -> {NoCall} \cup InCalls] /\ log' \in [People -> Seq(Entries)]
      /\ shared' \in [People -> Shares]
  BY <1>1, <1>3, <1>5, Ending
<1>7. /\ SharedInACall'
      /\ \A r \in People : GoesOn(r) /\ Kept(r) /\ Believed(r)
      /\ \A r \in People : \A e \in On(log'[r]) :
           e \in On(log[r]) \/ (e.id = current[p].id /\ e.incoming = current[p].incoming /\ e.outcome = outcome)
      /\ outcome = "declined" /\ current[p].incoming => \A k : k = current[p].id => Declined(p, k)'
  BY <1>1, <1>3, EndingRest
<1> HIDE DEF q
<1>8. /\ wire' \in [People -> [People -> Seq(Messages)]]
      /\ \A a, b \in People :
           /\ On(wire'[a][b]) \subseteq On(wire[a][b]) \cup {m}
           /\ \A n \in On(wire'[a][b]) : n \in On(wire[a][b]) \/ (n = m /\ a = p /\ b = q)
           /\ ~Up(a, b) \/ ~Sees(a, b) => wire'[a][b] = wire[a][b]
  <2>1. wire' \in [People -> [People -> Seq(Messages)]]
    BY <1>1, <1>2, <1>4, <1>5, Carrying
  <2>2. \A a, b \in People :
           /\ On(wire'[a][b]) \subseteq On(wire[a][b]) \cup {m}
           /\ \A n \in On(wire'[a][b]) : n \in On(wire[a][b]) \/ (n = m /\ a = p /\ b = q)
           /\ ~Up(a, b) \/ ~Sees(a, b) => wire'[a][b] = wire[a][b]
    <3>1. TypeOK /\ q \in People /\ m \in Messages
      BY <1>1, <1>2, <1>5
    <3> QED BY <1>4, <3>1, SMTT(40), CarriedOn
  <2> QED BY <2>1, <2>2
<1>9. TypeOK'
  BY <1>5, <1>6, <1>8 DEF TypeOK
<1>10. OverConnections'
  <2>1. \A a, b \in People : Up(a, b)' = Up(a, b) /\ Sees(a, b)' = Sees(a, b)
    BY <1>5 DEF Up, Sees
  <2> QED BY <1>8, <2>1, OverIs DEF IInv
<1>11. OneCall'
  <2>1. made \in Nat /\ id <= made
    BY <1>1, <1>5 DEF TypeOK, IInv, OneCall
  <2>2. \A a, b \in People : \A n \in On(wire'[a][b]) :
           n \in On(wire[a][b]) \/ (n.id <= made /\ (n.step = "ring" => RingOf(a, b, n)))
    BY <1>2, <1>8, <2>1
  <2> QED BY <1>7, <2>1, <2>2, OneCallOn
<1>12. Truthful'
  <2>1. \A a, b \in People : \A n \in On(wire'[b][a]) :
          n \in On(wire[b][a]) \/ ((n.step = "accept" => Took(b, n.id)') /\ (n.step = "decline" => Declined(b, n.id)'))
    <3>1. ASSUME NEW a \in People, NEW b \in People, NEW n \in On(wire'[b][a]), n \notin On(wire[b][a])
          PROVE  n.step # "accept" /\ (n.step = "decline" => Declined(b, n.id)')
      <4>1. n = m /\ b = p
        BY <1>8, <3>1
      <4>2. n.id = id /\ n.step = step
        BY <1>2, <4>1
      <4>3. n.step = "decline" => Declined(p, n.id)'
        BY <1>7, <4>2
      <4> QED BY <4>1, <4>2, <4>3
    <3> QED BY <3>1
  <2>2. \A r \in People : \A e \in On(log'[r]) : e \in On(log[r]) \/ e.incoming \/ e.outcome # "declined"
    BY <1>7
  <2>3. \A r \in People : Kept(r)
    BY <1>7
  <2>4. \A r \in People : Calling(r)' /\ In(r, {"active"})' =>
          /\ current[r].peer \in People /\ current'[r].peer = current[r].peer /\ current'[r].id = current[r].id
          /\ (Calling(r) /\ In(r, {"active"})) \/ Took(current[r].peer, current[r].id)
    BY <1>7 DEF Believed
  <2> QED BY <2>1, <2>2, <2>3, <2>4, TruthfulOn
<1> QED BY <1>7, <1>9, <1>10, <1>11, <1>12 DEF Rest

(* Nothing more is on its way.                                             *)
LEMMA QuietRest ==
  ASSUME IInv, TypeOK', \A r \in People : GoesOn(r) /\ Kept(r) /\ Believed(r), made' = made,
         \A a, b \in People : \A m \in On(wire'[a][b]) : m \in On(wire[a][b]),
         \A r \in People : \A e \in On(log'[r]) :
           e \in On(log[r]) \/ e.incoming \/ e.outcome # "declined" \/ \E s \in People : Declined(s, e.id)
  PROVE  OneCall' /\ Truthful'
<1>1. made \in Nat
  BY DEF IInv, TypeOK
<1>2. OneCall'
  BY <1>1, OneCallOn
<1>3. \A r \in People : Calling(r)' /\ In(r, {"active"})' =>
        /\ current[r].peer \in People /\ current'[r].peer = current[r].peer /\ current'[r].id = current[r].id
        /\ (Calling(r) /\ In(r, {"active"})) \/ Took(current[r].peer, current[r].id)
  BY DEF Believed
<1>4. Truthful'
  BY <1>3, TruthfulOn
<1> QED BY <1>2, <1>4

LEMMA MissingRest ==
  ASSUME IInv, NEW p \in People, In(p, {"ringing"}), Ends(p, "missed"),
         UNCHANGED <<made, wire, ready, up, breaks, stuck, seat, shares>>
  PROVE  Rest'
<1>1. Live(p) /\ TypeOK /\ ~In(p, {"active"}) /\ "missed" \in Outcomes
  BY DEF In, IInv, Outcomes
<1>2. /\ current' \in [People -> {NoCall} \cup InCalls] /\ log' \in [People -> Seq(Entries)]
      /\ shared' \in [People -> Shares]
  BY <1>1, Ending
<1>3. /\ SharedInACall'
      /\ \A r \in People : GoesOn(r) /\ Kept(r) /\ Believed(r)
      /\ \A r \in People : \A e \in On(log'[r]) : e \in On(log[r]) \/ e.outcome = "missed"
  BY <1>1, EndingRest
<1>4. TypeOK'
  BY <1>1, <1>2 DEF TypeOK
<1>5. OverConnections'
  BY DEF IInv, OverConnections
<1>6. OneCall' /\ Truthful'
  BY <1>3, <1>4, QuietRest
<1> QED BY <1>3, <1>4, <1>5, <1>6 DEF Rest

LEMMA ShareRest ==
  ASSUME IInv, NEW p \in People, NEW stream \in Shares, Share(p, stream)
  PROVE  Rest'
<1> DEFINE q == current[p].peer  id == current[p].id  m == [step |-> "screen", id |-> id, stream |-> stream]
<1>1. Live(p) /\ In(p, {"active"})
  BY DEF Share, In
<1>2. q \in People /\ id \in Ids
  BY <1>1, Known DEF IInv
<1>3. m \in Messages /\ m.step = "screen" /\ m.id = id
  BY <1>2 DEF Messages
<1> HIDE DEF m
<1>4. wire' = Carried(p, q, m)
  BY DEF Share, m
<1>5. TypeOK /\ UNCHANGED <<made, current, log, ready, up, breaks, stuck, seat>> /\ shares \in 0..MaxShares /\ shares < MaxShares
      /\ shared' = [shared EXCEPT ![p] = stream] /\ shares' = shares + 1
  BY DEF IInv, Share, calls, link, TypeOK
<1> HIDE DEF q
<1>6. /\ wire' \in [People -> [People -> Seq(Messages)]]
      /\ \A a, b \in People :
           /\ On(wire'[a][b]) \subseteq On(wire[a][b]) \cup {m}
           /\ \A n \in On(wire'[a][b]) : n \in On(wire[a][b]) \/ (n = m /\ a = p /\ b = q)
           /\ ~Up(a, b) \/ ~Sees(a, b) => wire'[a][b] = wire[a][b]
  <2>1. wire' \in [People -> [People -> Seq(Messages)]]
    BY <1>2, <1>3, <1>4, <1>5, Carrying
  <2>2. \A a, b \in People :
           /\ On(wire'[a][b]) \subseteq On(wire[a][b]) \cup {m}
           /\ \A n \in On(wire'[a][b]) : n \in On(wire[a][b]) \/ (n = m /\ a = p /\ b = q)
           /\ ~Up(a, b) \/ ~Sees(a, b) => wire'[a][b] = wire[a][b]
    <3>1. TypeOK /\ q \in People /\ m \in Messages
      BY <1>2, <1>3, <1>5
    <3> QED BY <1>4, <3>1, SMTT(40), CarriedOn
  <2> QED BY <2>1, <2>2
<1>7. TypeOK'
  <2>1. shares' \in 0..MaxShares
    BY <1>5, CallsAssumption
  <2>2. shared' \in [People -> Shares]
    BY <1>5 DEF TypeOK
  <2> QED BY <1>5, <1>6, <2>1, <2>2 DEF TypeOK
<1>8. OverConnections'
  <2>1. \A a, b \in People : Up(a, b)' = Up(a, b) /\ Sees(a, b)' = Sees(a, b)
    BY <1>5 DEF Up, Sees
  <2> QED BY <1>6, <2>1, OverIs DEF IInv
<1>9. \A r \in People : GoesOn(r) /\ Kept(r) /\ Believed(r) /\ (In(r, {"active"})' <=> In(r, {"active"}))
  BY <1>5, Same
<1>10. SharedInACall'
  <2> SUFFICES ASSUME NEW r \in People, ~In(r, {"active"})' PROVE shared'[r] = NoStream
    BY DEF SharedInACall
  <2>1. ~In(r, {"active"}) /\ r # p
    BY <1>1, <1>9
  <2>2. shared'[r] = shared[r]
    BY <1>5, <2>1 DEF TypeOK
  <2> QED BY <2>1, <2>2 DEF IInv, SharedInACall
<1>11. OneCall'
  <2>1. made \in Nat /\ id <= made
    BY <1>1, <1>5 DEF TypeOK, IInv, OneCall
  <2>2. \A a, b \in People : \A n \in On(wire'[a][b]) :
           n \in On(wire[a][b]) \/ (n.id <= made /\ (n.step = "ring" => RingOf(a, b, n)))
    BY <1>3, <1>6, <2>1
  <2> QED BY <1>5, <1>9, <2>1, <2>2, OneCallOn
<1>12. Truthful'
  <2>1. \A a, b \in People : \A n \in On(wire'[a][b]) :
          n \in On(wire[a][b]) \/ (n.step # "accept" /\ n.step # "decline")
    BY <1>3, <1>6
  <2>2. \A r \in People : Kept(r)
    BY <1>9
  <2>3. \A r \in People : Calling(r)' /\ In(r, {"active"})' =>
          /\ current[r].peer \in People /\ current'[r].peer = current[r].peer /\ current'[r].id = current[r].id
          /\ (Calling(r) /\ In(r, {"active"})) \/ Took(current[r].peer, current[r].id)
    BY <1>9 DEF Believed
  <2> QED BY <1>5, <2>1, <2>2, <2>3, TruthfulOn
<1> QED BY <1>7, <1>8, <1>10, <1>11, <1>12 DEF Rest

-----------------------------------------------------------------------------
(* Nobody does anything in a call.                                         *)
LEMMA CallsUntouched ==
  ASSUME IInv, TypeOK', UNCHANGED <<made, current, log, shared>>,
         \A a, b \in People : wire'[a][b] = wire[a][b] \/ wire'[a][b] = <<>>
  PROVE  SharedInACall' /\ OneCall' /\ Truthful'
<1>1. TypeOK
  BY DEF IInv
<1>2. \A r \in People : GoesOn(r) /\ Kept(r) /\ Believed(r) /\ (In(r, {"active"})' <=> In(r, {"active"}))
  BY <1>1, Same
<1>3. SharedInACall'
  BY <1>2 DEF IInv, SharedInACall
<1>4. On(<<>>) = {}
  BY DEF On
<1>5. \A a, b \in People : \A m \in On(wire'[a][b]) : m \in On(wire[a][b])
  BY <1>4
<1>6. OneCall' /\ Truthful'
  BY <1>2, <1>5, QuietRest
<1> QED BY <1>3, <1>6

LEMMA ReadyRest ==
  ASSUME IInv, NEW p \in People, NEW q \in People, HandleReady(p, q)
  PROVE  Rest'
<1>1. /\ TypeOK /\ UNCHANGED <<made, current, log, up, breaks, wire, shared, seat, shares>>
      /\ ready' = [ready EXCEPT ![p] = @ \cup {q}] /\ stuck' \subseteq People
  BY DEF IInv, HandleReady, calls, Stuck, TypeOK
<1>2. ready' \in [People -> SUBSET People] /\ \A a, b \in People : Up(a, b)' = Up(a, b) /\ (Sees(a, b) => Sees(a, b)')
  BY <1>1 DEF TypeOK, Up, Sees
<1>3. TypeOK'
  BY <1>1, <1>2 DEF TypeOK
<1>4. OverConnections'
  BY <1>1, <1>2, OverIs DEF IInv
<1> QED BY <1>1, <1>3, <1>4, CallsUntouched DEF Rest

LEMMA LostRest ==
  ASSUME IInv, NEW p \in People, NEW q \in People, HandleLost(p, q)
  PROVE  Rest'
<1>1. /\ TypeOK /\ ~Up(p, q) /\ UNCHANGED <<made, wire, up, breaks, stuck, seat, shares>>
      /\ ready' = [ready EXCEPT ![p] = @ \ {q}]
  BY DEF IInv, HandleLost, Up
<1>2. ready' \in [People -> SUBSET People]
  BY <1>1 DEF TypeOK
<1>3. \A a, b \in People : Up(a, b)' = Up(a, b) /\ (Sees(a, b)' = Sees(a, b) \/ ~Up(a, b))
  <2>1. \A a, b \in People : ~(a = p /\ b = q) => (b \in ready'[a] <=> b \in ready[a])
    BY <1>1 DEF TypeOK
  <2>2. \A a, b \in People : Up(a, b)' = Up(a, b)
    BY <1>1 DEF Up
  <2>3. \A a, b \in People : ~(a = p /\ b = q) => Sees(a, b)' = Sees(a, b)
    BY <2>1 DEF Sees
  <2> QED BY <1>1, <2>2, <2>3
<1>4. OverConnections'
  <2> SUFFICES ASSUME NEW a \in People, NEW b \in People, ~Up(a, b)' \/ ~Sees(a, b)' PROVE wire'[a][b] = <<>>
    BY OverIs
  <2>1. ~Up(a, b) \/ ~Sees(a, b)
    BY <1>3
  <2> QED BY <1>1, <2>1, OverIs DEF IInv
<1>5. /\ current' \in [People -> {NoCall} \cup InCalls] /\ log' \in [People -> Seq(Entries)]
      /\ shared' \in [People -> Shares]
      /\ SharedInACall'
      /\ \A r \in People : GoesOn(r) /\ Kept(r) /\ Believed(r)
      /\ \A r \in People : \A e \in On(log'[r]) : e \in On(log[r]) \/ e.outcome # "declined"
  <2>1. CASE In(p, {"active"}) /\ current[p].peer = q
    <3>1. Live(p) /\ Ends(p, "lost") /\ "lost" \in Outcomes
      BY <2>1 DEF HandleLost, In, Outcomes
    <3>2. /\ current' \in [People -> {NoCall} \cup InCalls] /\ log' \in [People -> Seq(Entries)]
          /\ shared' \in [People -> Shares]
      BY <1>1, <3>1, Ending
    <3>3. /\ SharedInACall'
          /\ \A r \in People : GoesOn(r) /\ Kept(r) /\ Believed(r)
          /\ \A r \in People : \A e \in On(log'[r]) :
              e \in On(log[r]) \/ (e.id = current[p].id /\ e.incoming = current[p].incoming /\ e.outcome = "lost")
      BY <3>1, EndingRest
    <3> QED BY <3>2, <3>3
  <2>2. CASE ~(In(p, {"active"}) /\ current[p].peer = q)
    <3>1. UNCHANGED <<current, log, shared>>
      BY <2>2 DEF HandleLost
    <3>2. \A r \in People : GoesOn(r) /\ Kept(r) /\ Believed(r) /\ (In(r, {"active"})' <=> In(r, {"active"}))
      BY <1>1, <3>1, Same
    <3>3. SharedInACall'
      BY <3>1, <3>2 DEF IInv, SharedInACall
    <3>4. /\ current' \in [People -> {NoCall} \cup InCalls] /\ log' \in [People -> Seq(Entries)]
          /\ shared' \in [People -> Shares]
      BY <1>1, <3>1 DEF TypeOK
    <3> QED BY <3>1, <3>2, <3>3, <3>4
  <2> QED BY <2>1, <2>2
<1>6. TypeOK'
  BY <1>1, <1>2, <1>5 DEF TypeOK
<1>7. OneCall' /\ Truthful'
  BY <1>1, <1>5, <1>6, QuietRest
<1> QED BY <1>4, <1>5, <1>6, <1>7 DEF Rest

LEMMA ConnectRest ==
  ASSUME IInv, NEW pair \in Pairs, Connect(pair)
  PROVE  Rest'
<1>1. TypeOK /\ UNCHANGED <<made, current, log, ready, breaks, wire, shared, stuck, seat, shares>> /\ up' = up \cup {pair}
  BY DEF IInv, Connect, calls
<1>2. TypeOK'
  BY <1>1 DEF TypeOK
<1>3. OverConnections'
  <2>1. \A a, b \in People : (Up(a, b) => Up(a, b)') /\ Sees(a, b)' = Sees(a, b)
    BY <1>1 DEF Up, Sees
  <2> QED BY <1>1, <2>1, OverIs DEF IInv
<1> QED BY <1>1, <1>2, <1>3, CallsUntouched DEF Rest

LEMMA DisconnectRest ==
  ASSUME IInv, NEW pair \in Pairs, Disconnect(pair)
  PROVE  Rest'
<1>1. /\ TypeOK /\ UNCHANGED <<made, current, log, ready, shared, stuck, seat, shares>> /\ up' = up \ {pair}
      /\ breaks < MaxBreaks /\ breaks' = breaks + 1
      /\ wire' = [p \in People |-> [q \in People |-> IF {p, q} = pair THEN <<>> ELSE wire[p][q]]]
  BY DEF IInv, Disconnect, calls
<1>2. \A a, b \in People : wire'[a][b] = IF {a, b} = pair THEN <<>> ELSE wire[a][b]
  BY <1>1
<1>3. TypeOK'
  <2>1. <<>> \in Seq(Messages)
    OBVIOUS
  <2>2. wire' \in [People -> [People -> Seq(Messages)]]
    BY <1>1, <2>1 DEF TypeOK
  <2>3. breaks' \in 0..MaxBreaks
    BY <1>1, CallsAssumption DEF TypeOK
  <2> QED BY <1>1, <2>2, <2>3 DEF TypeOK
<1>4. OverConnections'
  <2>1. \A a, b \in People : (Up(a, b)' => Up(a, b)) /\ Sees(a, b)' = Sees(a, b) /\ ({a, b} # pair => Up(a, b)' = Up(a, b))
    BY <1>1 DEF Up, Sees
  <2> QED BY <1>2, <2>1, OverIs DEF IInv
<1> QED BY <1>1, <1>2, <1>3, <1>4, CallsUntouched DEF Rest

(* Voice channels, or nothing at all.                                      *)
LEMMA SeatRest ==
  ASSUME IInv, UNCHANGED <<calls, link, wire, shared, shares>>, stuck' \subseteq People,
         seat' \in [People -> {"out", "looking", "in"}]
  PROVE  Rest' /\ Together'
<1>1. TypeOK /\ UNCHANGED <<made, current, log, ready, up, breaks, wire, shared, shares>>
  BY DEF IInv, calls, link
<1>2. TypeOK'
  BY <1>1 DEF TypeOK
<1>3. OverConnections' /\ Together'
  BY <1>1 DEF IInv, OverConnections, Together, Calling, Live
<1> QED BY <1>1, <1>2, <1>3, CallsUntouched DEF Rest

-----------------------------------------------------------------------------
(* A ring is taken by somebody in no call.                                 *)
LEMMA RingsOneCall ==
  ASSUME IInv, NEW p \in People, NEW q \in People, p # q, NEW m \in On(wire[q][p]), m.step = "ring", made' = made,
         \A r \in People : r # p => current'[r] = current[r],
         ~Live(p), current'[p].id = m.id, current'[p].peer = q, current'[p].incoming = TRUE,
         \A a, b \in People : \A n \in On(wire'[a][b]) : n \in On(wire[a][b]) \/ (n.id <= made /\ n.step # "ring")
  PROVE  OneCall'
<1>1. ASSUME NEW r \in People, Live(r)' PROVE current'[r].id <= made' /\ current'[r].peer # r
  <2>1. m.id <= made
    BY DEF IInv, OneCall
  <2>2. r # p => Live(r) /\ current'[r] = current[r]
    BY <1>1 DEF Live
  <2> QED BY <2>1, <2>2 DEF IInv, OneCall
<1>2. ASSUME NEW a \in People, NEW b \in People, NEW n \in On(wire'[a][b]) PROVE n.id <= made'
  BY DEF IInv, OneCall
<1>3. ASSUME NEW a \in People, NEW b \in People, NEW n \in On(wire'[a][b]), n.step = "ring",
             NEW r \in People, InCall(r, n.id)'
      PROVE  Roles(r, a, b)'
  <2>1. n \in On(wire[a][b])
    BY <1>3
  <2>2. CASE r = p
    <3>1. n.id = m.id
      BY <1>3, <2>2 DEF InCall
    <3>2. a = q /\ b = p
      BY <1>3, <2>1, <3>1 DEF IInv, OneCall
    <3> QED BY <2>2, <3>2 DEF Roles
  <2>3. CASE r # p
    <3>1. InCall(r, n.id) /\ current'[r] = current[r]
      BY <1>3, <2>3 DEF InCall, Live
    <3>2. Roles(r, a, b)
      BY <1>3, <2>1, <3>1 DEF IInv, OneCall
    <3> QED BY <3>1, <3>2 DEF Roles
  <2> QED BY <2>2, <2>3
<1>4. ASSUME NEW a \in People, NEW b \in People, NEW n \in On(wire'[a][b]), n.step = "ring",
             NEW x \in People, NEW y \in People, NEW k \in On(wire'[x][y]), k.step = "ring", k.id = n.id
      PROVE  x = a /\ y = b
  <2>1. n \in On(wire[a][b]) /\ k \in On(wire[x][y])
    BY <1>4
  <2> QED BY <1>4, <2>1 DEF IInv, OneCall
<1>5. ASSUME NEW s \in People, s # p, InCall(s, m.id)
      PROVE  s = q /\ current[s].peer = p /\ current[s].incoming = FALSE
  <2>1. Roles(s, q, p)
    BY <1>5 DEF IInv, OneCall
  <2>2. current[s].incoming \in BOOLEAN
    BY <1>5, Known DEF IInv, InCall
  <2>3. CASE current[s].incoming
    BY <1>5, <2>1, <2>3 DEF Roles
  <2>4. CASE current[s].incoming = FALSE
    BY <2>1, <2>4 DEF Roles
  <2> QED BY <2>2, <2>3, <2>4
<1>6. ASSUME NEW r \in People, NEW s \in People, r # s, Live(r)', InCall(s, current[r].id)'
      PROVE  current'[r].peer = s /\ current'[s].peer = r /\ current'[r].incoming = ~current'[s].incoming
  <2>1. CASE r # p /\ s # p
    <3>1. Live(r) /\ InCall(s, current[r].id) /\ current'[r] = current[r] /\ current'[s] = current[s]
      BY <1>6, <2>1 DEF InCall, Live
    <3> QED BY <1>6, <3>1 DEF IInv, OneCall
  <2>2. CASE r = p
    <3>1. InCall(s, m.id) /\ current'[s] = current[s]
      BY <1>6, <2>2 DEF InCall, Live
    <3>2. s = q /\ current[s].peer = p /\ current[s].incoming = FALSE
      BY <1>5, <1>6, <2>2, <3>1
    <3> QED BY <2>2, <3>1, <3>2
  <2>3. CASE s = p
    <3>1. InCall(r, m.id) /\ current'[r] = current[r]
      BY <1>6, <2>3 DEF InCall, Live
    <3>2. r = q /\ current[r].peer = p /\ current[r].incoming = FALSE
      BY <1>5, <1>6, <2>3, <3>1
    <3> QED BY <2>3, <3>1, <3>2
  <2> QED BY <2>1, <2>2, <2>3
<1> QED BY <1>1, <1>2, <1>3, <1>4, <1>6 DEF OneCall

LEMMA MessageRest ==
  ASSUME IInv, NEW p \in People, NEW q \in People, Message(p, q)
  PROVE  Rest'
<1> DEFINE m == Head(wire[q][p])
<1>1. /\ p # q /\ Up(p, q) /\ Up(q, p) /\ Sees(p, q) /\ Sees(q, p)
      /\ wire[q][p] \in Seq(Messages) /\ wire[q][p] # <<>> /\ m \in Messages /\ m \in On(wire[q][p])
      /\ UNCHANGED <<made, link, seat, shares>> /\ stuck' \subseteq People
      /\ wire' \in [People -> [People -> Seq(Messages)]]
      /\ wire'[q][p] = Tail(wire[q][p])
      /\ \A a, b \in People : ~(a = q /\ b = p) => wire'[a][b] = wire[a][b]
      /\ \/ Nothing(p, q, m) \/ Rings(p, q, m) \/ Accepted(p, q, m) \/ Dropped(p, q, m) \/ Seen(p, q, m)
  BY Receiving
<1> HIDE DEF m
<1>2. TypeOK /\ UNCHANGED <<made, ready, up, breaks, seat, shares>>
  BY <1>1 DEF IInv, link
<1>3. /\ m.id <= made /\ made \in Nat /\ m.id \in Ids
      /\ m.step = "accept" => Took(q, m.id)
      /\ m.step = "decline" => Declined(q, m.id)
  <2>1. made \in Nat
    BY <1>2 DEF TypeOK
  <2>2. m.id \in Ids
    BY <1>1 DEF Messages
  <2>3. m.id <= made
    BY <1>1 DEF IInv, OneCall
  <2>4. m.step = "accept" => Took(q, m.id)
    BY <1>1 DEF IInv, Truthful
  <2>5. m.step = "decline" => Declined(q, m.id)
    BY <1>1 DEF IInv, Truthful
  <2> QED BY <2>1, <2>2, <2>3, <2>4, <2>5
<1>4. \A a, b \in People : \A n \in On(wire'[a][b]) : n \in On(wire[a][b])
  <2>1. On(wire'[q][p]) \subseteq On(wire[q][p])
    BY <1>1, OnLess
  <2> QED BY <1>1, <2>1
<1>5. OverConnections'
  <2>1. \A a, b \in People : Up(a, b)' = Up(a, b) /\ Sees(a, b)' = Sees(a, b)
    BY <1>2 DEF Up, Sees
  <2>2. \A a, b \in People : ~Up(a, b) \/ ~Sees(a, b) => wire'[a][b] = wire[a][b]
    BY <1>1
  <2> QED BY <2>1, <2>2, OverIs DEF IInv
<1>6. CASE Nothing(p, q, m)
  <2>1. UNCHANGED <<current, log, shared>>
    BY <1>6 DEF Nothing
  <2>2. TypeOK'
    BY <1>1, <1>2, <2>1 DEF TypeOK
  <2>3. \A r \in People : GoesOn(r) /\ Kept(r) /\ Believed(r) /\ (In(r, {"active"})' <=> In(r, {"active"}))
    BY <1>2, <2>1, Same
  <2>4. SharedInACall'
    BY <2>1, <2>3 DEF IInv, SharedInACall
  <2>5. OneCall'
    BY <1>2, <1>3, <1>4, <2>3, OneCallOn
  <2>6. Truthful'
    <3>1. \A r \in People : Calling(r)' /\ In(r, {"active"})' =>
            /\ current[r].peer \in People /\ current'[r].peer = current[r].peer /\ current'[r].id = current[r].id
            /\ (Calling(r) /\ In(r, {"active"})) \/ Took(current[r].peer, current[r].id)
      BY <2>3 DEF Believed
    <3>2. \A a, b \in People : \A n \in On(wire'[a][b]) :
            n \in On(wire[a][b]) \/ (n.step # "accept" /\ n.step # "decline")
      BY <1>4
    <3>3. \A r \in People : Kept(r)
      BY <2>3
    <3> QED BY <2>1, <3>1, <3>2, <3>3, TruthfulOn
  <2> QED BY <1>5, <2>2, <2>4, <2>5, <2>6 DEF Rest
<1>7. CASE Rings(p, q, m)
  <2>1. m.step = "ring" /\ ~Live(p) /\ Begins(p, m.id, q, TRUE) /\ UNCHANGED <<log, shared>>
    BY <1>7 DEF Rings, Busy
  <2>2. /\ current' \in [People -> {NoCall} \cup InCalls]
        /\ \A r \in People : r # p => current'[r] = current[r]
        /\ current'[p].id = m.id /\ current'[p].peer = q /\ current'[p].incoming = TRUE
        /\ current'[p].state = "ringing"
    BY <1>2, <1>3, <2>1, Beginning
  <2>3. TypeOK'
    BY <1>1, <1>2, <2>1, <2>2 DEF TypeOK
  <2>4. \A r \in People : r # p => /\ GoesOn(r) /\ Kept(r) /\ Believed(r)
                                   /\ In(r, {"active"})' <=> In(r, {"active"})
    BY <1>2, <2>1, <2>2, Same
  <2>5. Kept(p) /\ ~In(p, {"active"}) /\ ~In(p, {"active"})'
    BY <2>1, <2>2 DEF Kept, In
  <2>6. SharedInACall'
    BY <2>1, <2>4, <2>5 DEF IInv, SharedInACall
  <2>7. OneCall'
    <3>1. \A a, b \in People : \A n \in On(wire'[a][b]) : n \in On(wire[a][b]) \/ (n.id <= made /\ n.step # "ring")
      BY <1>4
    <3> QED BY <1>1, <1>2, <2>1, <2>2, <3>1, RingsOneCall
  <2>8. Truthful'
    <3>1. \A r \in People : Calling(r)' /\ In(r, {"active"})' =>
            /\ current[r].peer \in People /\ current'[r].peer = current[r].peer /\ current'[r].id = current[r].id
            /\ (Calling(r) /\ In(r, {"active"})) \/ Took(current[r].peer, current[r].id)
      BY <2>4, <2>5 DEF Believed
    <3>2. \A a, b \in People : \A n \in On(wire'[a][b]) :
            n \in On(wire[a][b]) \/ (n.step # "accept" /\ n.step # "decline")
      BY <1>4
    <3>3. \A r \in People : Kept(r)
      BY <2>4, <2>5
    <3> QED BY <2>1, <3>1, <3>2, <3>3, TruthfulOn
  <2> QED BY <1>5, <2>3, <2>6, <2>7, <2>8 DEF Rest
<1>8. CASE Accepted(p, q, m) \/ Seen(p, q, m)
  <2>1. /\ Live(p) /\ current[p].peer = q /\ current[p].id = m.id /\ UNCHANGED <<log, shared>>
        /\ \/ Activates(p) /\ m.step = "accept" /\ ~current[p].incoming /\ ~In(p, {"active"})
           \/ In(p, {"active"}) /\ current' = [current EXCEPT ![p].screen = m.stream]
    BY <1>8 DEF Accepted, Answered, Seen, Watching, Ours, In
  <2>2. m.stream \in Shares
    BY <1>1 DEF Messages
  <2>3. /\ current' \in [People -> {NoCall} \cup InCalls]
        /\ \A r \in People : r # p => current'[r] = current[r]
        /\ current'[p] \in InCalls /\ current'[p].id = current[p].id /\ current'[p].peer = current[p].peer
        /\ current'[p].incoming = current[p].incoming /\ current'[p].state = "active"
    <3>1. CASE Activates(p)
      BY <1>2, <2>1, <3>1, Activating
    <3>2. CASE In(p, {"active"}) /\ current' = [current EXCEPT ![p].screen = m.stream]
      <4>1. current[p].state = "active"
        BY <3>2 DEF In
      <4> QED BY <1>2, <2>1, <2>2, <3>2, <4>1, Showed
    <3> QED BY <2>1, <3>1, <3>2
  <2>4. current'[p] # NoCall
    BY <2>3, NoCallIsNone
  <2>5. TypeOK'
    BY <1>1, <1>2, <2>1, <2>3 DEF TypeOK
  <2>6. \A r \in People : r # p => /\ GoesOn(r) /\ Kept(r) /\ Believed(r)
                                   /\ In(r, {"active"})' <=> In(r, {"active"})
    BY <1>2, <2>1, <2>3, Same
  <2>7. GoesOn(p) /\ Kept(p) /\ In(p, {"active"})'
    BY <2>1, <2>3, <2>4 DEF GoesOn, Kept, In, Live
  <2>8. Believed(p)
    <3>1. In(p, {"active"}) \/ Took(q, m.id)
      BY <1>3, <2>1
    <3>2. Calling(p)' => Calling(p)
      BY <2>1, <2>3 DEF Calling
    <3> QED BY <2>1, <2>3, <3>1, <3>2 DEF Believed
  <2>9. SharedInACall'
    BY <2>1, <2>6, <2>7 DEF IInv, SharedInACall
  <2>10. \A r \in People : GoesOn(r) /\ Kept(r) /\ Believed(r)
    BY <2>6, <2>7, <2>8
  <2>11. OneCall'
    BY <1>2, <1>3, <1>4, <2>10, OneCallOn
  <2>12. Truthful'
    <3>1. \A r \in People : Calling(r)' /\ In(r, {"active"})' =>
            /\ current[r].peer \in People /\ current'[r].peer = current[r].peer /\ current'[r].id = current[r].id
            /\ (Calling(r) /\ In(r, {"active"})) \/ Took(current[r].peer, current[r].id)
      BY <2>10 DEF Believed
    <3>2. \A a, b \in People : \A n \in On(wire'[a][b]) :
            n \in On(wire[a][b]) \/ (n.step # "accept" /\ n.step # "decline")
      BY <1>4
    <3>3. \A r \in People : Kept(r)
      BY <2>10
    <3> QED BY <2>1, <3>1, <3>2, <3>3, TruthfulOn
  <2> QED BY <1>5, <2>5, <2>9, <2>11, <2>12 DEF Rest
<1>9. CASE Dropped(p, q, m)
  <2>1. PICK outcome \in Outcomes : /\ Ends(p, outcome)
                                    /\ outcome = "declined" => m.step = "decline"
                                    /\ current[p].incoming /\ In(p, {"active"}) => outcome = "ended"
    BY <1>9 DEF Dropped
  <2>2. Live(p) /\ current[p].id = m.id
    BY <1>9 DEF Dropped, Over, Ours
  <2>3. /\ current' \in [People -> {NoCall} \cup InCalls] /\ log' \in [People -> Seq(Entries)]
        /\ shared' \in [People -> Shares]
    BY <1>2, <2>1, <2>2, Ending
  <2>4. /\ SharedInACall'
        /\ \A r \in People : GoesOn(r) /\ Kept(r) /\ Believed(r)
        /\ \A r \in People : \A e \in On(log'[r]) :
             e \in On(log[r]) \/ (e.id = current[p].id /\ e.incoming = current[p].incoming /\ e.outcome = outcome)
    BY <2>1, <2>2, EndingRest
  <2>5. TypeOK'
    BY <1>1, <1>2, <2>3 DEF TypeOK
  <2>6. OneCall'
    BY <1>2, <1>3, <1>4, <2>4, OneCallOn
  <2>7. Truthful'
    <3>1. \A r \in People : Calling(r)' /\ In(r, {"active"})' =>
            /\ current[r].peer \in People /\ current'[r].peer = current[r].peer /\ current'[r].id = current[r].id
            /\ (Calling(r) /\ In(r, {"active"})) \/ Took(current[r].peer, current[r].id)
      BY <2>4 DEF Believed
    <3>2. \A a, b \in People : \A n \in On(wire'[a][b]) :
            n \in On(wire[a][b]) \/ (n.step # "accept" /\ n.step # "decline")
      BY <1>4
    <3>3. \A r \in People : Kept(r)
      BY <2>4
    <3>4. ASSUME NEW r \in People, NEW e \in On(log'[r])
          PROVE  e \in On(log[r]) \/ e.incoming \/ e.outcome # "declined" \/ \E s \in People : Declined(s, e.id)
      <4>1. e \in On(log[r]) \/ e.outcome # "declined" \/ (e.id = m.id /\ Declined(q, m.id))
        BY <1>3, <2>1, <2>2, <2>4
      <4> QED BY <4>1
    <3> QED BY <3>1, <3>2, <3>3, <3>4, TruthfulOn
  <2> QED BY <1>5, <2>4, <2>5, <2>6, <2>7 DEF Rest
<1> QED BY <1>1, <1>6, <1>7, <1>8, <1>9

-----------------------------------------------------------------------------
LEMMA AtFirst == Init => IInv
<1> SUFFICES ASSUME Init PROVE IInv
  OBVIOUS
<1>1. TypeOK
  <2>1. \A S : <<>> \in Seq(S)
    OBVIOUS
  <2>2. /\ made \in 0..MaxCalls /\ breaks \in 0..MaxBreaks /\ shares \in 0..MaxShares
    BY CallsAssumption DEF Init
  <2>3. log \in [People -> Seq(Entries)] /\ wire \in [People -> [People -> Seq(Messages)]]
    BY <2>1 DEF Init
  <2>4. /\ current \in [People -> {NoCall} \cup InCalls] /\ ready \in [People -> SUBSET People] /\ up \subseteq Pairs
        /\ shared \in [People -> Shares] /\ stuck \subseteq People /\ seat \in [People -> {"out", "looking", "in"}]
    BY DEF Init, Shares
  <2> QED BY <2>2, <2>3, <2>4 DEF TypeOK
<1>2. /\ \A p \in People : ~Live(p) /\ log[p] = <<>> /\ shared[p] = NoStream
      /\ \A p, q \in People : wire[p][q] = <<>>
  BY DEF Init, Live
<1>3. On(<<>>) = {}
  BY DEF On
<1>4. Together /\ OverConnections /\ SharedInACall
  BY <1>2 DEF Together, Calling, OverConnections, SharedInACall
<1>5. OneCall
  BY <1>2, <1>3 DEF OneCall
<1>6. Truthful
  BY <1>2, <1>3 DEF Truthful, Calling
<1> QED BY <1>1, <1>4, <1>5, <1>6 DEF IInv

LEMMA Keeps == IInv /\ [Next]_vars => IInv'
<1> SUFFICES ASSUME IInv, [Next]_vars PROVE Rest' /\ Together'
  BY DEF IInv, Rest
<1>1. ASSUME NEW p \in People, Person(p) PROVE Rest' /\ Together'
  <2>1. CASE \E q \in People : Call(p, q)
    BY <2>1, CallRest, CallAgrees
  <2>2. CASE Accept(p)
    BY <2>2, AcceptRest, AcceptAgrees
  <2>3. CASE Decline(p)
    <3>1. /\ current[p].incoming /\ ~In(p, {"active"}) /\ "decline" \in {"decline", "end"} /\ "declined" \in Outcomes
          /\ Leaves(p, "decline", "declined") /\ UNCHANGED <<made, breaks, stuck, seat, shares>>
      BY <2>3 DEF Decline, In, Leaves, link, Outcomes
    <3>2. Rest'
      BY <3>1, LeavingRest
    <3>3. Together'
      BY <3>1, LeavingAgrees
    <3> QED BY <3>2, <3>3
  <2>4. CASE Hang(p)
    <3>1. /\ "end" \in {"decline", "end"} /\ "ended" \in Outcomes
          /\ Leaves(p, "end", "ended") /\ UNCHANGED <<made, breaks, stuck, seat, shares>>
      BY <2>4 DEF Hang, In, Leaves, link, Outcomes
    <3>2. Rest'
      BY <3>1, LeavingRest
    <3>3. Together'
      BY <3>1, LeavingAgrees
    <3> QED BY <3>2, <3>3
  <2>5. CASE \E stream \in Streams \cup {NoStream} : Share(p, stream)
    <3>1. PICK stream \in Shares : Share(p, stream)
      BY <2>5 DEF Shares
    <3>2. Rest'
      BY <3>1, ShareRest
    <3>3. Together'
      BY <3>1, ShareAgrees
    <3> QED BY <3>2, <3>3
  <2>6. CASE JoinVoice(p) \/ LeaveVoice(p)
    <3>1. seat' \in [People -> {"out", "looking", "in"}] /\ UNCHANGED <<calls, link, wire, shared, shares>> /\ stuck' \subseteq People
      BY <2>6 DEF JoinVoice, LeaveVoice, IInv, TypeOK
    <3> QED BY <3>1, SeatRest
  <2> QED BY <1>1, <2>1, <2>2, <2>3, <2>4, <2>5, <2>6 DEF Person
<1>2. ASSUME NEW p \in People, Sit(p) \/ Stick(p) PROVE Rest' /\ Together'
  <2>1. seat' \in [People -> {"out", "looking", "in"}] /\ UNCHANGED <<calls, link, wire, shared, shares>> /\ stuck' \subseteq People
    BY <1>2 DEF Sit, Stick, Stuck, IInv, TypeOK
  <2> QED BY <2>1, SeatRest
<1>3. ASSUME NEW p \in People, Expire(p) PROVE Rest' /\ Together'
  <2>1. CASE current[p].incoming
    <3>1. In(p, {"ringing"}) /\ Ends(p, "missed") /\ UNCHANGED <<made, wire, ready, up, breaks, stuck, seat, shares>>
      BY <1>3, <2>1 DEF Expire, link
    <3> QED BY <2>1, <3>1, MissingRest, MissingAgrees
  <2>2. CASE ~current[p].incoming
    <3>1. /\ "end" \in {"decline", "end"} /\ "unanswered" \in Outcomes
          /\ Leaves(p, "end", "unanswered") /\ UNCHANGED <<made, breaks, stuck, seat, shares>>
      BY <1>3, <2>2 DEF Expire, In, Leaves, link, Outcomes
    <3>2. Rest'
      BY <2>2, <3>1, LeavingRest
    <3>3. Together'
      BY <3>1, LeavingAgrees
    <3> QED BY <3>2, <3>3
  <2> QED BY <2>1, <2>2
<1>4. ASSUME NEW p \in People, NEW q \in People, Reports(p, q) PROVE Rest' /\ Together'
  <2>1. CASE HandleReady(p, q)
    BY <2>1, ReadyRest, ReadyAgrees
  <2>2. CASE HandleLost(p, q)
    BY <2>2, LostRest, LostAgrees
  <2>3. CASE Message(p, q)
    BY <2>3, MessageRest, MessageAgrees
  <2> QED BY <1>4, <2>1, <2>2, <2>3 DEF Reports
<1>5. ASSUME NEW pair \in Pairs, Connect(pair) \/ Disconnect(pair) PROVE Rest' /\ Together'
  <2>1. CASE Connect(pair)
    BY <2>1, ConnectRest, ConnectAgrees
  <2>2. CASE Disconnect(pair)
    BY <2>2, DisconnectRest, DisconnectAgrees
  <2> QED BY <1>5, <2>1, <2>2
<1>6. CASE UNCHANGED vars
  <2>1. seat' \in [People -> {"out", "looking", "in"}] /\ UNCHANGED <<calls, link, wire, shared, shares>> /\ stuck' \subseteq People
    BY <1>6 DEF vars, IInv, TypeOK
  <2> QED BY <2>1, SeatRest
<1> QED BY <1>1, <1>2, <1>3, <1>4, <1>5, <1>6 DEF Next

(* What the two sides of a call believe of each other, and what is on its  *)
(* way between them, fit together whatever happens (calls.go, the handlers *)
(* of Calls): the invariant the two theorems after it rest on.             *)
THEOREM CallsAreSound == Spec => []IInv
BY AtFirst, Keeps, PTL DEF Spec

(* Whatever crosses, is lost or belongs to an earlier call: a caller who   *)
(* takes a call for answered was answered, and who takes it for declined   *)
(* was declined (calls.go, Message, handleAccept and handleDecline).       *)
THEOREM ToldTheTruth == Spec => []CallersAreToldTheTruth
<1>1. IInv => CallersAreToldTheTruth
  <2> SUFFICES ASSUME IInv PROVE CallersAreToldTheTruth
    OBVIOUS
  <2>1. ASSUME NEW p \in People, Calling(p), In(p, {"active"})
        PROVE  \/ InCall(current[p].peer, current[p].id) /\ In(current[p].peer, {"active"})
               \/ Logged(current[p].peer, current[p].id, TRUE, {"ended", "lost"})
    BY <2>1 DEF IInv, Truthful, Took
  <2>2. ASSUME NEW p \in People, NEW id \in Ids, Logged(p, id, FALSE, {"declined"})
        PROVE  \E q \in People : Logged(q, id, TRUE, {"declined"})
    <3> DEFINE mine(e) == e.id = id /\ e.incoming = FALSE /\ e.outcome \in {"declined"}
    <3>1. \E e \in On(log[p]) : mine(e)
      BY <2>2 DEF Logged, On
    <3>2. PICK e \in On(log[p]) : mine(e)
      BY <3>1
    <3>3. \E q \in People : Declined(q, e.id)
      BY <3>2 DEF IInv, Truthful
    <3> QED BY <3>2, <3>3 DEF Declined
  <2> QED BY <2>1, <2>2 DEF CallersAreToldTheTruth
<1> QED BY <1>1, CallsAreSound, PTL

(* With nothing on its way, each sees the screen the other shares, however *)
(* the calls before it ended (calls.go, handleScreen).                     *)
THEOREM SeesWhatIsShared == Spec => []BothSeeWhatIsShared
<1>1. IInv => BothSeeWhatIsShared
  <2> SUFFICES ASSUME IInv, NEW p \in People, NEW q \in People,
                      In(p, {"active"}), InCall(q, current[p].id), In(q, {"active"}), p # q, {p, q} \in up,
                      wire[p][q] = <<>>, wire[q][p] = <<>>
               PROVE  current[q].screen = shared[p]
    BY DEF BothSeeWhatIsShared
  <2>1. \A id : Clean(<<>>, id) /\ \A screen, stream : Showing(<<>>, id, screen, stream) => screen = stream
    BY DEF Clean, Showing
  <2>2. /\ Live(p) /\ Live(q) /\ current[q].id = current[p].id
        /\ current[p].state = "active" /\ current[q].state = "active"
    BY DEF In, InCall
  <2>3. /\ current[p].peer = q /\ current[q].peer = p /\ current[p].incoming = ~current[q].incoming
        /\ current[q].incoming \in BOOLEAN
    BY <2>2, Known DEF IInv, OneCall
  <2>4. CASE ~current[p].incoming
    <3>1. Agree(current[p], current[q], wire[p][q], wire[q][p], shared[p], shared[q],
                {p, q} \in up, q \in ready[p], p \in ready[q])
      BY <2>2, <2>3, <2>4 DEF IInv, Together, Calling
    <3> QED BY <2>1, <2>2, <3>1 DEF Agree
  <2>5. CASE ~current[q].incoming
    <3>1. Agree(current[q], current[p], wire[q][p], wire[p][q], shared[q], shared[p],
                {q, p} \in up, p \in ready[q], q \in ready[p])
      BY <2>2, <2>3, <2>5 DEF IInv, Together, Calling
    <3>2. {q, p} = {p, q}
      OBVIOUS
    <3> QED BY <2>1, <2>2, <3>1, <3>2 DEF Agree
  <2> QED BY <2>3, <2>4, <2>5
<1> QED BY <1>1, CallsAreSound, PTL

-----------------------------------------------------------------------------
(***************************************************************************)
(* What CallGoroutines promises of the connection a call wants, proved for *)
(* a channel of any capacity and however much is begun.                    *)
(*                                                                         *)
(* Want and Release are queued under the calls' mutex as a call begins and *)
(* ends, so what the queue will have asked for in the end is whether there *)
(* is a call.  That takes the mutex to hold one goroutine at a time, while *)
(* it waits for what it sent too: of somebody who answers, the call is     *)
(* still there.                                                            *)
(***************************************************************************)

(* Where a goroutine is that holds the mutex.                              *)
Holds(t) ==
  \/ at[t] \in {"inside", "seating", "busy", "free"}
  \/ t # "spaces" /\ at[t] \in {"sending", "sent"}

Exclusive == \A t \in Threads : Holds(t) <=> lock = t

(* The spaces' goroutine only sends.                                       *)
OnlySpreads == at["spaces"] \in {"rest", "sending", "sent"} /\ job["spaces"] \in {"none", "spread"}

(* What is queued to be sent is of somebody who waits for it, once.        *)
Awaited(w, places) ==
  \A i \in DOMAIN w : w[i].kind = "send" =>
    /\ w[i].from \in Threads /\ places[w[i].from] = "sending"
    /\ \A j \in DOMAIN w : w[j].kind = "send" /\ w[j].from = w[i].from => j = i

(* Whoever answers answers a call there is.                                *)
AnswersACall ==
  \A t \in Threads \ {"spaces"} : at[t] \in {"sending", "sent"} /\ job[t] = "accept" => ThereIsACall

(* What a queue asks for, and what it brings a connection to that is       *)
(* wanted or not.                                                          *)
Asks(w) == {i \in DOMAIN w : w[i].kind \in {"want", "release"}}
Brings(w, b) ==
  \/ Asks(w) = {} /\ b
  \/ \E i \in Asks(w) : w[i].kind = "want" /\ \A j \in Asks(w) : j <= i

LockInv == TypeOKGoroutines /\ Exclusive /\ OnlySpreads /\ Awaited(work, at)
GoroutinesInv == LockInv /\ AnswersACall /\ (Brings(work, wanted) <=> ThereIsACall)

-----------------------------------------------------------------------------
(* Queues.                                                                 *)
LEMMA QueuedMore ==
  ASSUME NEW w \in Seq(Items), NEW x \in Items
  PROVE  LET v == w \o <<x>>
         IN  /\ v \in Seq(Items) /\ Len(v) = Len(w) + 1
             /\ DOMAIN v = 1..Len(w) + 1 /\ DOMAIN w = 1..Len(w) /\ Len(w) \in Nat
             /\ \A i \in 1..Len(w) : v[i] = w[i]
             /\ v[Len(w) + 1] = x
OBVIOUS

LEMMA QueuedLess ==
  ASSUME NEW w \in Seq(Items), w # <<>>
  PROVE  /\ Tail(w) \in Seq(Items) /\ Head(w) = w[1] /\ Head(w) \in Items
         /\ Len(w) \in Nat \ {0} /\ Len(Tail(w)) = Len(w) - 1
         /\ DOMAIN w = 1..Len(w) /\ DOMAIN Tail(w) = 1..Len(w) - 1
         /\ \A i \in 1..Len(w) - 1 : Tail(w)[i] = w[i + 1]
OBVIOUS

(* Whatever is asked last is what is asked for.                            *)
LEMMA AddedAsks ==
  ASSUME NEW w \in Seq(Items), NEW x \in Items, NEW b \in BOOLEAN
  PROVE  Brings(w \o <<x>>, b) <=>
           CASE x.kind = "want" -> TRUE [] x.kind = "release" -> FALSE [] OTHER -> Brings(w, b)
<1> DEFINE v == w \o <<x>>  n == Len(w) + 1
<1>1. /\ DOMAIN v = 1..n /\ DOMAIN w = 1..(n - 1) /\ n \in Nat \ {0}
      /\ \A i \in 1..(n - 1) : v[i] = w[i]
      /\ v[n] = x
  BY QueuedMore
<1> HIDE DEF v, n
<1>2. CASE x.kind \in {"want", "release"}
  <2>1. n \in Asks(v) /\ \A i \in Asks(v) : i <= n
    BY <1>1, <1>2 DEF Asks
  <2>2. \A i \in Asks(v) : (\A j \in Asks(v) : j <= i) => i = n
    BY <1>1, <2>1 DEF Asks
  <2> QED BY <1>1, <1>2, <2>1, <2>2 DEF Brings, v
<1>3. CASE x.kind \notin {"want", "release"}
  <2>1. Asks(v) = Asks(w) /\ \A i \in Asks(w) : v[i] = w[i]
    BY <1>1, <1>3 DEF Asks
  <2> QED BY <1>3, <2>1 DEF Brings, v
<1> QED BY <1>2, <1>3

(* What the Manager takes is done.                                         *)
LEMMA TakenAsks ==
  ASSUME NEW w \in Seq(Items), w # <<>>, NEW b \in BOOLEAN
  PROVE  /\ Head(w).kind = "want" => (Brings(Tail(w), TRUE) <=> Brings(w, b))
         /\ Head(w).kind = "release" => (Brings(Tail(w), FALSE) <=> Brings(w, b))
         /\ Head(w).kind \notin {"want", "release"} => (Brings(Tail(w), b) <=> Brings(w, b))
<1> DEFINE c == CASE Head(w).kind = "want" -> TRUE [] Head(w).kind = "release" -> FALSE [] OTHER -> b
           v == Tail(w)  n == Len(w)
<1>1. /\ DOMAIN w = 1..n /\ DOMAIN v = 1..(n - 1) /\ n \in Nat \ {0}
      /\ \A i \in 1..(n - 1) : v[i] = w[i + 1]
      /\ Head(w) = w[1] /\ c \in BOOLEAN
  BY QueuedLess
<1>2. c <=> IF w[1].kind = "want" THEN TRUE ELSE IF w[1].kind = "release" THEN FALSE ELSE b
  BY <1>1
<1> HIDE DEF v, n, c
<1>3. \A i \in 1..(n - 1) : i \in Asks(v) <=> i + 1 \in Asks(w)
  BY <1>1 DEF Asks
<1>4. Asks(w) \subseteq 1..n /\ Asks(v) \subseteq 1..(n - 1)
  BY <1>1 DEF Asks
<1>5. ASSUME Asks(v) = {} PROVE Brings(v, c) <=> Brings(w, b)
  <2>1. Asks(w) \subseteq {1}
    <3> SUFFICES ASSUME NEW i \in Asks(w), i # 1 PROVE FALSE
      OBVIOUS
    <3>1. i - 1 \in 1..(n - 1) /\ i = (i - 1) + 1
      BY <1>1, <1>4
    <3> QED BY <1>3, <1>5, <3>1
  <2>2. 1 \in Asks(w) <=> w[1].kind \in {"want", "release"}
    BY <1>1 DEF Asks
  <2>3. Brings(v, c) <=> c
    BY <1>5 DEF Brings
  <2>4. Brings(w, b) <=> IF 1 \in Asks(w) THEN w[1].kind = "want" ELSE b
    BY <2>1 DEF Brings
  <2> QED BY <1>2, <2>2, <2>3, <2>4
<1>6. ASSUME Asks(v) # {} PROVE Brings(v, c) <=> Brings(w, b)
  <2>1. ASSUME NEW i \in Asks(v), v[i].kind = "want", \A j \in Asks(v) : j <= i
        PROVE  Brings(w, b)
    <3>1. i + 1 \in Asks(w) /\ w[i + 1].kind = "want"
      BY <1>1, <1>3, <1>4, <2>1
    <3>2. ASSUME NEW j \in Asks(w) PROVE j <= i + 1
      <4>1. CASE j = 1
        BY <4>1, <1>4
      <4>2. CASE j # 1
        <5>1. j - 1 \in 1..(n - 1) /\ j = (j - 1) + 1
          BY <1>1, <1>4, <4>2
        <5>2. j - 1 \in Asks(v)
          BY <1>3, <5>1
        <5> QED BY <2>1, <5>1, <5>2, <1>4
      <4> QED BY <4>1, <4>2
    <3> QED BY <3>1, <3>2 DEF Brings
  <2>2. ASSUME NEW i \in Asks(w), w[i].kind = "want", \A j \in Asks(w) : j <= i
        PROVE  Brings(v, c)
    <3>1. PICK k \in Asks(v) : TRUE
      BY <1>6
    <3>2. k + 1 \in Asks(w) /\ k \in 1..(n - 1)
      BY <1>3, <1>4
    <3>3. i - 1 \in 1..(n - 1) /\ i = (i - 1) + 1
      BY <1>1, <1>4, <2>2, <3>2
    <3>4. i - 1 \in Asks(v) /\ v[i - 1].kind = "want"
      BY <1>1, <1>3, <2>2, <3>3
    <3>5. ASSUME NEW j \in Asks(v) PROVE j <= i - 1
      <4>1. j \in 1..(n - 1) /\ j + 1 \in Asks(w)
        BY <1>3, <1>4
      <4> QED BY <2>2, <3>3, <4>1
    <3> QED BY <3>4, <3>5 DEF Brings
  <2>3. Brings(v, c) => Brings(w, b)
    BY <1>6, <2>1 DEF Brings
  <2>4. Asks(w) # {}
    BY <1>3, <1>4, <1>6
  <2>5. Brings(w, b) => Brings(v, c)
    BY <2>2, <2>4 DEF Brings
  <2> QED BY <2>3, <2>5
<1>7. Brings(v, c) <=> Brings(w, b)
  BY <1>5, <1>6
<1> QED BY <1>1, <1>2, <1>7 DEF v
-----------------------------------------------------------------------------
(* The steps leave everything what it is.                                  *)
LEMMA AddsTyped ==
  ASSUME NEW x \in Items, NEW y \in Items, work \in Seq(Items), Len(work) <= Capacity
  PROVE  /\ Adds(<<x>>) => work' \in Seq(Items) /\ Len(work') <= Capacity
         /\ Adds(<<x, y>>) => work' \in Seq(Items) /\ Len(work') <= Capacity
<1>1. <<x>> \in Seq(Items) /\ <<x, y>> \in Seq(Items)
  OBVIOUS
<1>2. \A v \in Seq(Items) : work \o v \in Seq(Items) /\ Len(work \o v) = Len(work) + Len(v)
  OBVIOUS
<1> QED BY <1>1, <1>2 DEF Adds

LEMMA ItemsTyped ==
  ASSUME NEW t \in Threads
  PROVE  /\ {Item("send", t), Item("want", t), Item("release", t)} \subseteq Items
         /\ \A kind \in Come \cap Jobs : Item(kind, "nobody") \in Items
BY DEF Item, Items

(* What begins and what is taken.                                          *)
LEMMA BeginningTyped ==
  ASSUME TypeOKGoroutines,
         \/ \E kind \in Come : Arrive(kind)
         \/ \E j \in Asked : BeginCalls("interface", j)
         \/ BeginCalls("ticker", "expire")
         \/ Spread \/ Take
  PROVE  TypeOKGoroutines'
<1>1. ASSUME NEW kind \in Come, Arrive(kind) PROVE TypeOKGoroutines'
  <2>1. work' \in Seq(Items) /\ Len(work') <= Capacity
    <3>1. Item(kind, "nobody") \in Items
      BY <1>1, ItemsTyped DEF Arrive, Threads
    <3> QED BY <1>1, <3>1, AddsTyped DEF Arrive, TypeOKGoroutines
  <2> QED BY <1>1, <2>1, GoroutinesAssumption DEF TypeOKGoroutines, Arrive
<1>2. ASSUME NEW t \in Threads, NEW j, BeginCalls(t, j) PROVE TypeOKGoroutines'
  BY <1>2, GoroutinesAssumption DEF TypeOKGoroutines, BeginCalls, Begin, Goes
<1>3. CASE Spread
  <2>1. work' \in Seq(Items) /\ Len(work') <= Capacity
    <3>1. Item("send", "spaces") \in Items
      BY ItemsTyped DEF Threads
    <3> QED BY <1>3, <3>1, AddsTyped DEF Spread, TypeOKGoroutines
  <2>2. at' \in [Threads -> {"rest", "locking", "inside", "seating", "busy", "free", "sending", "sent"}]
    BY <1>3 DEF TypeOKGoroutines, Spread, Goes
  <2>3. job' \in [Threads -> Jobs \cup {"none"}]
    BY <1>3 DEF TypeOKGoroutines, Spread, Begin, Threads
  <2>4. begun' \in 0..MaxJobs
    BY <1>3, GoroutinesAssumption DEF TypeOKGoroutines, Spread, Begin
  <2> QED BY <1>3, <2>1, <2>2, <2>3, <2>4 DEF TypeOKGoroutines, Spread, Begin
<1>4. CASE Take
  <2> DEFINE next == Head(work)
  <2>1. next \in Items /\ work' \in Seq(Items) /\ Len(work') <= Capacity
    BY <1>4, QueuedLess, GoroutinesAssumption DEF Take, TypeOKGoroutines
  <2>2. next.kind \in Come => next.kind \in Jobs
    BY <2>1 DEF Items, Come
  <2>3. at' \in [Threads -> {"rest", "locking", "inside", "seating", "busy", "free", "sending", "sent"}]
    BY <1>4 DEF Take, TypeOKGoroutines, Goes
  <2>4. job' \in [Threads -> Jobs \cup {"none"}]
    BY <1>4, <2>2 DEF Take, TypeOKGoroutines
  <2>5. wanted' \in BOOLEAN
    <3>1. CASE next.kind = "want"
      BY <1>4, <3>1 DEF Take, Come
    <3>2. CASE next.kind = "release"
      BY <1>4, <3>2 DEF Take, Come
    <3>3. CASE next.kind \notin {"want", "release"}
      BY <1>4, <3>3 DEF Take, TypeOKGoroutines
    <3> QED BY <3>1, <3>2, <3>3
  <2> QED BY <1>4, <2>1, <2>3, <2>4, <2>5 DEF Take, TypeOKGoroutines
<1> QED BY <1>1, <1>2, <1>3, <1>4 DEF Threads

(* What goes on.                                                           *)
LEMMA SendingTyped ==
  ASSUME TypeOKGoroutines, NEW t \in Threads, Sends(t), connected' \in BOOLEAN
  PROVE  TypeOKGoroutines'
<1>1. work' \in Seq(Items) /\ Len(work') <= Capacity
  BY ItemsTyped, AddsTyped DEF Sends, TypeOKGoroutines
<1> QED BY <1>1 DEF Sends, TypeOKGoroutines, Goes

LEMMA EndingTyped ==
  ASSUME TypeOKGoroutines, NEW t \in Threads, EndsCall(t)
  PROVE  TypeOKGoroutines'
<1>1. work' \in Seq(Items) /\ Len(work') <= Capacity
  BY ItemsTyped, AddsTyped DEF EndsCall, TypeOKGoroutines
<1> QED BY <1>1 DEF EndsCall, TypeOKGoroutines, Goes, Unlock

LEMMA ProceedingTyped ==
  ASSUME TypeOKGoroutines, NEW t \in Threads, Proceed(t)
  PROVE  TypeOKGoroutines'
<1>1. ASSUME NothingMore(t) PROVE TypeOKGoroutines'
  BY <1>1 DEF TypeOKGoroutines, NothingMore, Unlock, Goes
<1>2. CASE Lock(t)
  BY <1>2 DEF TypeOKGoroutines, Lock, Goes
<1>3. CASE AskBusy(t)
  BY <1>3 DEF TypeOKGoroutines, AskBusy, Goes
<1>4. CASE Seat(t)
  BY <1>4 DEF TypeOKGoroutines, Seat, Goes
<1>5. CASE Refuse(t)
  BY <1>1, <1>5, SendingTyped DEF Refuse, TypeOKGoroutines
<1>6. CASE Ring(t)
  <2>1. work' \in Seq(Items) /\ Len(work') <= Capacity
    BY <1>6, ItemsTyped, AddsTyped DEF Ring, TypeOKGoroutines
  <2>2. lock' \in Threads \cup {"nobody"} /\ call' \in {"calling", "called"}
    BY <1>6 DEF Ring, TypeOKGoroutines, Unlock
  <2>3. at' \in [Threads -> {"rest", "locking", "inside", "seating", "busy", "free", "sending", "sent"}]
    BY <1>6 DEF Ring, TypeOKGoroutines, Unlock, Goes
  <2> QED BY <1>6, <2>1, <2>2, <2>3 DEF Ring, TypeOKGoroutines
<1>7. CASE Ready(t)
  <2>1. CASE Sends(t)
    BY <1>7, <2>1, SendingTyped DEF Ready
  <2>2. CASE ~Sends(t)
    BY <1>7, <2>2 DEF Ready, TypeOKGoroutines, Unlock, Goes
  <2> QED BY <2>1, <2>2
<1>8. CASE Lost(t)
  <2>1. work' \in Seq(Items) /\ Len(work') <= Capacity
    BY <1>8, ItemsTyped, AddsTyped DEF Lost, TypeOKGoroutines
  <2>2. call' \in {"none", "calling", "called", "active"}
    BY <1>8 DEF Lost, TypeOKGoroutines
  <2> QED BY <1>8, <2>1, <2>2 DEF Lost, TypeOKGoroutines, Unlock, Goes
<1>9. CASE CallAccepted(t)
  BY <1>9 DEF CallAccepted, TypeOKGoroutines, Unlock, Goes
<1>10. CASE CallEnded(t)
  BY <1>1, <1>10, EndingTyped DEF CallEnded
<1>11. CASE TakeStep(t)
  BY <1>1, <1>11, SendingTyped, EndingTyped DEF TakeStep, TypeOKGoroutines
<1>12. CASE Finish(t)
  <2>1. CASE EndsCall(t) \/ NothingMore(t)
    BY <1>1, <2>1, EndingTyped
  <2>2. ASSUME Goes(t, "rest"), UNCHANGED <<work, job, lock, call, connected, wanted, begun>>
        PROVE TypeOKGoroutines'
    BY <2>2 DEF TypeOKGoroutines, Goes
  <2>3. ASSUME Unlock(t), call' = "active", UNCHANGED <<work, job, connected, wanted, begun>>
        PROVE TypeOKGoroutines'
    BY <2>3 DEF TypeOKGoroutines, Goes, Unlock
  <2>4. \/ Goes(t, "rest") /\ UNCHANGED <<work, job, lock, call, connected, wanted, begun>>
        \/ EndsCall(t) \/ NothingMore(t)
        \/ Unlock(t) /\ call' = "active" /\ UNCHANGED <<work, job, connected, wanted, begun>>
    BY <1>12 DEF Finish
  <2> QED BY <2>1, <2>2, <2>3, <2>4
<1> QED BY <1>2, <1>3, <1>4, <1>5, <1>6, <1>7, <1>8, <1>9, <1>10, <1>11, <1>12 DEF Proceed

LEMMA Typed == TypeOKGoroutines /\ [NextGoroutines]_goroutines => TypeOKGoroutines'
<1>1. TypeOKGoroutines /\ UNCHANGED goroutines => TypeOKGoroutines'
  BY DEF TypeOKGoroutines, goroutines
<1> QED BY <1>1, BeginningTyped, ProceedingTyped DEF NextGoroutines

-----------------------------------------------------------------------------
(* What is queued stays awaited.                                           *)
LEMMA AwaitedMore ==
  ASSUME NEW w \in Seq(Items), NEW f, Awaited(w, f), NEW x \in Items, x.kind # "send"
  PROVE  Awaited(w \o <<x>>, f)
<1> DEFINE v == w \o <<x>>  n == Len(w)
<1>1. /\ DOMAIN v = 1..n + 1 /\ DOMAIN w = 1..n /\ n \in Nat
      /\ \A i \in 1..n : v[i] = w[i]
      /\ v[n + 1] = x
  BY QueuedMore
<1> HIDE DEF v, n
<1>2. \A i \in DOMAIN v : v[i].kind = "send" => i \in DOMAIN w /\ v[i] = w[i]
  BY <1>1
<1>3. Awaited(v, f)
  BY <1>2 DEF Awaited
<1> QED BY <1>3 DEF v

LEMMA AwaitedMove ==
  ASSUME NEW w, NEW f \in [Threads -> {"rest", "locking", "inside", "seating", "busy", "free", "sending", "sent"}],
         Awaited(w, f), NEW t \in Threads, f[t] # "sending", NEW place
  PROVE  /\ Awaited(w, [f EXCEPT ![t] = place])
         /\ \A i \in DOMAIN w : w[i].kind = "send" => w[i].from # t
BY DEF Awaited

LEMMA AwaitedSend ==
  ASSUME NEW w \in Seq(Items),
         NEW f \in [Threads -> {"rest", "locking", "inside", "seating", "busy", "free", "sending", "sent"}],
         Awaited(w, f), NEW t \in Threads, f[t] # "sending"
  PROVE  Awaited(w \o <<Item("send", t)>>, [f EXCEPT ![t] = "sending"])
<1> DEFINE x == Item("send", t)  v == w \o <<x>>  n == Len(w)  g == [f EXCEPT ![t] = "sending"]
<1>1. x.kind = "send" /\ x.from = t /\ x \in Items
  BY ItemsTyped DEF Item
<1> HIDE DEF x
<1>2. /\ DOMAIN v = 1..n + 1 /\ DOMAIN w = 1..n /\ n \in Nat
      /\ \A i \in 1..n : v[i] = w[i]
      /\ v[n + 1] = x
  BY <1>1, QueuedMore
<1>3. Awaited(w, g) /\ \A i \in DOMAIN w : w[i].kind = "send" => w[i].from # t
  BY AwaitedMove
<1>4. g[t] = "sending"
  OBVIOUS
<1> HIDE DEF v, n, g
<1>5. \A i \in DOMAIN v : v[i].kind = "send" => (i \in DOMAIN w /\ v[i] = w[i]) \/ i = n + 1
  BY <1>2
<1>6. Awaited(v, g)
  BY <1>1, <1>2, <1>3, <1>4, <1>5 DEF Awaited
<1> QED BY <1>6 DEF v, g, x

LEMMA AwaitedTaken ==
  ASSUME NEW w \in Seq(Items), w # <<>>,
         NEW f \in [Threads -> {"rest", "locking", "inside", "seating", "busy", "free", "sending", "sent"}],
         Awaited(w, f)
  PROVE  /\ Head(w).kind = "send" =>
              /\ Head(w).from \in Threads /\ f[Head(w).from] = "sending"
              /\ Awaited(Tail(w), [f EXCEPT ![Head(w).from] = "sent"])
         /\ Head(w).kind # "send" => Awaited(Tail(w), f)
<1> DEFINE v == Tail(w)  n == Len(w)
<1>1. /\ DOMAIN w = 1..n /\ DOMAIN v = 1..(n - 1) /\ n \in Nat \ {0}
      /\ \A i \in 1..(n - 1) : v[i] = w[i + 1]
      /\ Head(w) = w[1]
  BY QueuedLess
<1> HIDE DEF v, n
<1>2. \A i \in DOMAIN v : i + 1 \in DOMAIN w /\ i + 1 # 1 /\ v[i] = w[i + 1]
  BY <1>1
<1>3. \A i, j \in DOMAIN v : i + 1 = j + 1 => i = j
  BY <1>1
<1>4. Awaited(v, f)
  BY <1>2, <1>3 DEF Awaited
<1>5. 1 \in DOMAIN w
  BY <1>1
<1>6. ASSUME w[1].kind = "send"
      PROVE  /\ w[1].from \in Threads /\ f[w[1].from] = "sending"
             /\ Awaited(v, [f EXCEPT ![w[1].from] = "sent"])
  <2>1. w[1].from \in Threads /\ f[w[1].from] = "sending"
    BY <1>5, <1>6 DEF Awaited
  <2>2. \A i \in DOMAIN v : v[i].kind = "send" => v[i].from # w[1].from
    BY <1>2, <1>5, <1>6 DEF Awaited
  <2> QED BY <1>4, <2>1, <2>2 DEF Awaited
<1> QED BY <1>1, <1>4, <1>6 DEF v

-----------------------------------------------------------------------------
(* A goroutine goes on, and has the mutex or not as where it goes says.    *)
LEMMA GoingKeeps ==
  ASSUME LockInv, TypeOKGoroutines', NEW t \in Threads, NEW place, Goes(t, place), Awaited(work', at'),
         \/ /\ t # "spaces" /\ job'["spaces"] = job["spaces"]
            /\ lock' = t <=> place \in {"inside", "seating", "busy", "free", "sending", "sent"}
            /\ \A s \in Threads \ {t} : lock' = s <=> lock = s
         \/ /\ t = "spaces" /\ place \in {"rest", "sending", "sent"} /\ lock' = lock
            /\ job'["spaces"] \in {"none", "spread"}
  PROVE  LockInv'
<1>1. at' = [at EXCEPT ![t] = place] /\ at \in [Threads -> {"rest", "locking", "inside", "seating", "busy", "free", "sending", "sent"}]
  BY DEF Goes, LockInv, TypeOKGoroutines
<1>2. at'[t] = place /\ \A s \in Threads \ {t} : at'[s] = at[s]
  BY <1>1
<1>3. \A s \in Threads : Holds(s) <=> lock = s
  BY DEF LockInv, Exclusive
<1>4. CASE t = "spaces"
  <2>1. Exclusive'
    BY <1>2, <1>3, <1>4 DEF Exclusive, Holds, LockInv, OnlySpreads
  <2>2. OnlySpreads'
    BY <1>2, <1>4 DEF OnlySpreads
  <2> QED BY <2>1, <2>2 DEF LockInv
<1>5. CASE t # "spaces"
  <2>1. Exclusive'
    BY <1>2, <1>3, <1>5 DEF Exclusive, Holds
  <2>2. OnlySpreads'
    BY <1>2, <1>5 DEF OnlySpreads, LockInv, Threads
  <2> QED BY <2>1, <2>2 DEF LockInv
<1> QED BY <1>4, <1>5

(* Whoever holds the mutex is alone: nobody else waits for what it sent.   *)
LEMMA Alone ==
  ASSUME LockInv, NEW t \in Threads, Holds(t)
  PROVE  /\ t # "spaces" /\ lock = t
         /\ \A s \in Threads \ {t, "spaces"} : at[s] \notin {"sending", "sent"}
<1>1. lock = t
  BY DEF LockInv, Exclusive
<1>2. t # "spaces"
  BY DEF LockInv, OnlySpreads, Holds
<1>3. ASSUME NEW s \in Threads \ {t, "spaces"}, at[s] \in {"sending", "sent"} PROVE FALSE
  BY <1>1, <1>3 DEF LockInv, Exclusive, Holds
<1> QED BY <1>1, <1>2, <1>3

(* Whoever holds the mutex may change the call, if it asks for what is     *)
(* then wanted.                                                            *)
LEMMA HolderKeeps ==
  ASSUME GoroutinesInv, TypeOKGoroutines', NEW t \in Threads, Holds(t), NEW place, Goes(t, place),
         job' = job,
         \/ lock' = lock /\ place \in {"inside", "seating", "busy", "free", "sending", "sent"}
         \/ lock' = "nobody" /\ place \in {"rest"},
         Awaited(work', at'),
         Brings(work', wanted') <=> ThereIsACall',
         place \in {"sending", "sent"} /\ job[t] = "accept" => ThereIsACall'
  PROVE  GoroutinesInv'
<1>1. /\ t # "spaces" /\ lock = t
      /\ \A s \in Threads \ {t, "spaces"} : at[s] \notin {"sending", "sent"}
  BY Alone DEF GoroutinesInv
<1>2. LockInv'
  BY <1>1, GoingKeeps DEF GoroutinesInv, Threads
<1>3. at'[t] = place /\ \A s \in Threads \ {t} : at'[s] = at[s]
  BY DEF Goes, GoroutinesInv, LockInv, TypeOKGoroutines
<1>4. AnswersACall'
  BY <1>1, <1>3 DEF AnswersACall
<1> QED BY <1>2, <1>4 DEF GoroutinesInv

LEMMA BringsTypes == GoroutinesInv => /\ work \in Seq(Items) /\ wanted \in BOOLEAN /\ Awaited(work, at)
                             /\ at \in [Threads -> {"rest", "locking", "inside", "seating", "busy", "free", "sending", "sent"}]
BY DEF GoroutinesInv, LockInv, TypeOKGoroutines

LEMMA SendingKeeps ==
  ASSUME GoroutinesInv, TypeOKGoroutines', NEW t \in Threads, Holds(t), at[t] # "sending", Sends(t),
         job[t] = "accept" => ThereIsACall
  PROVE  GoroutinesInv'
<1>1. /\ Goes(t, "sending") /\ work' = work \o <<Item("send", t)>>
      /\ UNCHANGED <<job, lock, call, wanted>>
  BY DEF Sends, Adds
<1>2. Awaited(work', at')
  BY <1>1, BringsTypes, AwaitedSend DEF Goes
<1>3. Brings(work', wanted') <=> Brings(work, wanted)
  <2>1. Item("send", t) \in Items /\ Item("send", t).kind = "send"
    BY ItemsTyped DEF Item
  <2> QED BY <1>1, <2>1, BringsTypes, AddedAsks
<1>4. ThereIsACall' <=> ThereIsACall
  BY <1>1 DEF ThereIsACall
<1> QED BY <1>1, <1>2, <1>3, <1>4, HolderKeeps DEF GoroutinesInv

LEMMA EndingKeeps ==
  ASSUME GoroutinesInv, TypeOKGoroutines', NEW t \in Threads, Holds(t), at[t] # "sending", EndsCall(t)
  PROVE  GoroutinesInv'
<1>1. /\ Goes(t, "rest") /\ work' = work \o <<Item("release", t)>>
      /\ UNCHANGED <<job, wanted>> /\ lock' = "nobody" /\ call' = "none"
  BY DEF EndsCall, Adds, Unlock
<1>2. Item("release", t) \in Items /\ Item("release", t).kind = "release"
  BY ItemsTyped DEF Item
<1>3. Awaited(work', at')
  BY <1>1, <1>2, BringsTypes, AwaitedMore, AwaitedMove DEF Goes
<1>4. ~Brings(work', wanted')
  BY <1>1, <1>2, BringsTypes, AddedAsks
<1>5. ~ThereIsACall'
  BY <1>1 DEF ThereIsACall
<1> QED BY <1>1, <1>3, <1>4, <1>5, HolderKeeps

(* Nothing is asked for, and the call stays or goes on.                    *)
LEMMA QuietlyKeeps ==
  ASSUME GoroutinesInv, TypeOKGoroutines', NEW t \in Threads, Holds(t), at[t] # "sending",
         NEW place, Goes(t, place),
         UNCHANGED <<work, job, wanted>>, ThereIsACall' <=> ThereIsACall,
         \/ lock' = lock /\ place \in {"inside", "seating", "busy", "free"}
         \/ lock' = "nobody" /\ place \in {"rest"}
  PROVE  GoroutinesInv'
<1>1. Awaited(work', at')
  BY BringsTypes, AwaitedMove DEF Goes
<1> QED BY <1>1, HolderKeeps DEF GoroutinesInv

LEMMA TwoMore ==
  ASSUME NEW w \in Seq(Items), NEW x \in Items, NEW y \in Items
  PROVE  w \o <<x, y>> = (w \o <<x>>) \o <<y>>
<1>1. <<x>> \in Seq(Items) /\ <<y>> \in Seq(Items)
  OBVIOUS
<1>2. <<x, y>> = <<x>> \o <<y>>
  <2> DEFINE a == <<x, y>>  b == <<x>> \o <<y>>
  <2>1. a \in Seq(Items) /\ Len(a) = 2 /\ a[1] = x /\ a[2] = y
    OBVIOUS
  <2>2. b \in Seq(Items) /\ Len(b) = 2
    OBVIOUS
  <2>3. b[1] = x /\ b[2] = y
    OBVIOUS
  <2> HIDE DEF a, b
  <2>4. \A i \in 1..Len(a) : a[i] = b[i]
    <3>1. \A i \in 1..2 : i = 1 \/ i = 2
      OBVIOUS
    <3> QED BY <2>1, <2>2, <2>3, <3>1
  <2>5. a = b
    BY <2>1, <2>2, <2>4, SeqEqual
  <2> QED BY <2>5 DEF a, b
<1> QED BY <1>1, <1>2, ConcatAssociative

(* A call begins, and the connection is wanted for it.                     *)
LEMMA RingingKeeps ==
  ASSUME GoroutinesInv, TypeOKGoroutines', NEW t \in Threads, Ring(t)
  PROVE  GoroutinesInv'
<1> DEFINE want == Item("want", t)  send == Item("send", t)  asked == work \o <<want>>
<1>1. /\ want \in Items /\ want.kind = "want" /\ send \in Items /\ send.kind = "send"
  BY ItemsTyped DEF Item
<1>2. at[t] = "free" /\ Holds(t) /\ ThereIsACall' /\ job' = job /\ wanted' = wanted
  BY DEF Ring, Holds, ThereIsACall
<1>3. asked \in Seq(Items) /\ Awaited(asked, at)
  BY <1>1, BringsTypes, AwaitedMore
<1>4. Brings(asked, wanted)
  BY <1>1, BringsTypes, AddedAsks
<1>5. CASE job[t] = "call" /\ connected
  <2>1. work' = work \o <<want, send>> /\ Goes(t, "sending") /\ lock' = lock
    BY <1>5 DEF Ring, Adds
  <2>2. work' = asked \o <<send>>
    BY <1>1, <2>1, BringsTypes, TwoMore
  <2> HIDE DEF asked
  <2>3. Awaited(work', at')
    BY <1>2, <1>3, <2>1, <2>2, BringsTypes, AwaitedSend DEF Goes
  <2>4. Brings(work', wanted')
    BY <1>1, <1>2, <1>3, <1>4, <2>2, BringsTypes, AddedAsks
  <2> QED BY <1>2, <2>1, <2>3, <2>4, HolderKeeps
<1>6. CASE ~(job[t] = "call" /\ connected)
  <2>1. work' = asked /\ Goes(t, "rest") /\ lock' = "nobody"
    BY <1>6 DEF Ring, Adds, Unlock
  <2>2. Awaited(work', at')
    BY <1>2, <1>3, <2>1, BringsTypes, AwaitedMove DEF Goes
  <2>3. Brings(work', wanted')
    BY <1>2, <1>4, <2>1
  <2> QED BY <1>2, <2>1, <2>2, <2>3, HolderKeeps
<1> QED BY <1>5, <1>6

(* Whoever answers answers a call there is.                                *)
LEMMA FinishingKeeps ==
  ASSUME GoroutinesInv, TypeOKGoroutines', NEW t \in Threads, Finish(t)
  PROVE  GoroutinesInv'
<1>1. at[t] = "sent"
  BY DEF Finish
<1>2. CASE t = "spaces"
  <2>1. Goes(t, "rest") /\ UNCHANGED <<work, job, lock, call, connected, wanted, begun>>
    BY <1>2 DEF Finish, GoroutinesInv, LockInv, OnlySpreads
  <2>2. Awaited(work', at')
    BY <1>1, <2>1, BringsTypes, AwaitedMove DEF Goes
  <2>3. LockInv'
    BY <1>2, <2>1, <2>2, GoingKeeps DEF GoroutinesInv, LockInv, OnlySpreads
  <2>4. AnswersACall'
    BY <1>2, <2>1 DEF AnswersACall, GoroutinesInv, Goes, LockInv, TypeOKGoroutines, ThereIsACall
  <2> QED BY <2>1, <2>3, <2>4 DEF GoroutinesInv, ThereIsACall
<1>3. CASE t # "spaces"
  <2>1. Holds(t)
    BY <1>1, <1>3 DEF Holds
  <2>2. CASE EndsCall(t)
    BY <1>1, <2>1, <2>2, EndingKeeps
  <2>3. CASE NothingMore(t)
    <3>1. Goes(t, "rest") /\ lock' = "nobody" /\ UNCHANGED <<work, job, wanted, call>>
      BY <2>3 DEF NothingMore, Unlock
    <3> QED BY <1>1, <2>1, <3>1, QuietlyKeeps DEF ThereIsACall
  <2>4. CASE job[t] = "accept" /\ Unlock(t) /\ call' = "active" /\ UNCHANGED <<work, job, connected, wanted, begun>>
    <3>1. ThereIsACall /\ ThereIsACall'
      BY <1>1, <1>3, <2>4 DEF GoroutinesInv, AnswersACall, ThereIsACall
    <3> QED BY <1>1, <2>1, <2>4, <3>1, QuietlyKeeps DEF Unlock
  <2> QED BY <1>3, <2>2, <2>3, <2>4 DEF Finish
<1> QED BY <1>2, <1>3

LEMMA ProceedingKeeps ==
  ASSUME GoroutinesInv, NEW t \in Threads, Proceed(t)
  PROVE  GoroutinesInv'
<1>1. TypeOKGoroutines'
  BY ProceedingTyped DEF GoroutinesInv, LockInv
<1>2. ASSUME NothingMore(t), Holds(t), at[t] # "sending" PROVE GoroutinesInv'
  <2>1. Goes(t, "rest") /\ lock' = "nobody" /\ UNCHANGED <<work, job, wanted, call>>
    BY <1>2 DEF NothingMore, Unlock
  <2> QED BY <1>1, <1>2, <2>1, QuietlyKeeps DEF ThereIsACall
<1>3. CASE Lock(t)
  <2>1. /\ t # "spaces" /\ at[t] = "locking" /\ lock = "nobody" /\ lock' = t /\ Goes(t, "inside")
        /\ UNCHANGED <<work, job, call, wanted>>
    BY <1>3 DEF Lock, GoroutinesInv, LockInv, OnlySpreads
  <2>2. Awaited(work', at')
    BY <2>1, BringsTypes, AwaitedMove DEF Goes
  <2>3. LockInv'
    BY <1>1, <2>1, <2>2, GoingKeeps DEF GoroutinesInv, Threads
  <2>4. AnswersACall'
    BY <2>1 DEF AnswersACall, GoroutinesInv, Goes, LockInv, TypeOKGoroutines, ThereIsACall
  <2> QED BY <2>1, <2>3, <2>4 DEF GoroutinesInv, ThereIsACall
<1>4. CASE AskBusy(t)
  <2>1. /\ Holds(t) /\ at[t] = "inside" /\ \E place \in {"busy", "seating"} : Goes(t, place)
        /\ UNCHANGED <<work, job, lock, call, wanted>>
    BY <1>4 DEF AskBusy, Inside, Holds
  <2> QED BY <1>1, <2>1, QuietlyKeeps DEF ThereIsACall
<1>5. CASE Seat(t)
  <2>1. /\ Holds(t) /\ at[t] = "seating" /\ \E place \in {"busy", "free"} : Goes(t, place)
        /\ UNCHANGED <<work, job, lock, call, wanted>>
    BY <1>5 DEF Seat, Holds
  <2> QED BY <1>1, <2>1, QuietlyKeeps DEF ThereIsACall
<1>6. CASE Refuse(t)
  <2>1. Holds(t) /\ at[t] = "busy"
    BY <1>6 DEF Refuse, Holds
  <2>2. CASE job[t] = "ring"
    BY <1>1, <1>6, <2>1, <2>2, SendingKeeps DEF Refuse
  <2>3. CASE job[t] # "ring"
    BY <1>2, <1>6, <2>1, <2>3 DEF Refuse
  <2> QED BY <2>2, <2>3
<1>7. CASE Ring(t)
  BY <1>1, <1>7, RingingKeeps
<1>8. CASE Ready(t)
  <2>1. Holds(t) /\ at[t] = "inside" /\ job[t] = "ready"
    BY <1>8 DEF Ready, Inside, Holds
  <2>2. CASE Sends(t)
    BY <1>1, <2>1, <2>2, SendingKeeps
  <2>3. CASE ~Sends(t)
    <3>1. Goes(t, "rest") /\ lock' = "nobody" /\ UNCHANGED <<work, job, wanted, call>>
      BY <1>8, <2>3 DEF Ready, Unlock
    <3> QED BY <1>1, <2>1, <3>1, QuietlyKeeps DEF ThereIsACall
  <2> QED BY <2>2, <2>3
<1>9. CASE Lost(t)
  <2>1. Holds(t) /\ at[t] = "inside" /\ Goes(t, "rest") /\ lock' = "nobody" /\ UNCHANGED <<job, wanted>>
    BY <1>9 DEF Lost, Inside, Holds, Unlock
  <2>2. CASE call = "active"
    <3>1. work' = work \o <<Item("release", t)>> /\ call' = "none"
      BY <1>9, <2>2 DEF Lost, Adds
    <3>2. Item("release", t) \in Items /\ Item("release", t).kind = "release"
      BY ItemsTyped DEF Item
    <3>3. Awaited(work', at')
      BY <2>1, <3>1, <3>2, BringsTypes, AwaitedMore, AwaitedMove DEF Goes
    <3>4. ~Brings(work', wanted') /\ ~ThereIsACall'
      BY <2>1, <3>1, <3>2, BringsTypes, AddedAsks DEF ThereIsACall
    <3> QED BY <1>1, <2>1, <3>3, <3>4, HolderKeeps
  <2>3. CASE call # "active"
    BY <1>1, <1>9, <2>1, <2>3, QuietlyKeeps DEF Lost, ThereIsACall
  <2> QED BY <2>2, <2>3
<1>10. CASE CallAccepted(t)
  <2>1. Holds(t) /\ at[t] = "inside" /\ Goes(t, "rest") /\ lock' = "nobody" /\ UNCHANGED <<work, job, wanted>>
    BY <1>10 DEF CallAccepted, Inside, Holds, Unlock
  <2>2. ThereIsACall' <=> ThereIsACall
    BY <1>10 DEF CallAccepted, ThereIsACall
  <2> QED BY <1>1, <2>1, <2>2, QuietlyKeeps
<1>11. CASE CallEnded(t)
  <2>1. Holds(t) /\ at[t] = "inside"
    BY <1>11 DEF CallEnded, Inside, Holds
  <2> QED BY <1>1, <1>2, <1>11, <2>1, EndingKeeps DEF CallEnded
<1>12. CASE TakeStep(t)
  <2>1. Holds(t) /\ at[t] = "inside"
    BY <1>12 DEF TakeStep, Inside, Holds
  <2>2. CASE HasStep(t)
    <3>1. job[t] = "accept" => ThereIsACall
      BY <2>2 DEF HasStep, ThereIsACall
    <3> QED BY <1>1, <1>12, <2>1, <2>2, <3>1, SendingKeeps DEF TakeStep
  <2>3. CASE ~HasStep(t)
    BY <1>1, <1>2, <1>12, <2>1, <2>3, EndingKeeps DEF TakeStep
  <2> QED BY <2>2, <2>3
<1>13. CASE Finish(t)
  BY <1>1, <1>13, FinishingKeeps
<1> QED BY <1>3, <1>4, <1>5, <1>6, <1>7, <1>8, <1>9, <1>10, <1>11, <1>12, <1>13 DEF Proceed

-----------------------------------------------------------------------------
(* What begins takes no mutex, and changes no call.                        *)
LEMMA BeginningKeeps ==
  ASSUME GoroutinesInv,
         \/ \E kind \in Come : Arrive(kind)
         \/ \E j \in Asked : BeginCalls("interface", j)
         \/ BeginCalls("ticker", "expire")
         \/ Spread
  PROVE  GoroutinesInv'
<1>1. TypeOKGoroutines'
  BY BeginningTyped DEF GoroutinesInv, LockInv
<1>2. ASSUME NEW kind \in Come, Arrive(kind) PROVE GoroutinesInv'
  <2>1. /\ Item(kind, "nobody") \in Items
        /\ Item(kind, "nobody").kind \notin {"send", "want", "release"}
    BY <1>2, ItemsTyped DEF Arrive, Item, Threads, Come
  <2>2. work' = work \o <<Item(kind, "nobody")>> /\ UNCHANGED <<at, job, lock, call, wanted>>
    BY <1>2 DEF Arrive, Adds
  <2>3. Awaited(work', at')
    BY <2>1, <2>2, BringsTypes, AwaitedMore
  <2>4. Brings(work', wanted') <=> Brings(work, wanted)
    BY <2>1, <2>2, BringsTypes, AddedAsks
  <2> QED BY <1>1, <2>2, <2>3, <2>4 
     DEF GoroutinesInv, LockInv, Exclusive, Holds, OnlySpreads, AnswersACall, ThereIsACall
<1>3. ASSUME NEW t \in {"interface", "ticker"}, NEW j, BeginCalls(t, j) PROVE GoroutinesInv'
  <2>1. /\ at[t] = "rest" /\ Goes(t, "locking") /\ job' = [job EXCEPT ![t] = j]
        /\ UNCHANGED <<work, lock, call, wanted>>
    BY <1>3 DEF BeginCalls, Begin
  <2>2. Awaited(work', at')
    BY <2>1, BringsTypes, AwaitedMove DEF Goes, Threads
  <2>3. lock # t
    BY <2>1 DEF GoroutinesInv, LockInv, Exclusive, Holds, Threads
  <2>4. t \in Threads /\ t # "spaces" /\ job'["spaces"] = job["spaces"]
    BY <2>1 DEF Threads, GoroutinesInv, LockInv, TypeOKGoroutines
  <2>5. LockInv'
    BY <1>1, <2>1, <2>2, <2>3, <2>4, GoingKeeps DEF GoroutinesInv
  <2>6. \A s \in Threads \ {t} : at'[s] = at[s] /\ job'[s] = job[s]
    BY <2>1 DEF Goes, GoroutinesInv, LockInv, TypeOKGoroutines
  <2>7. at'[t] = "locking"
    BY <2>1, <2>4 DEF Goes, GoroutinesInv, LockInv, TypeOKGoroutines
  <2>8. AnswersACall'
    BY <2>1, <2>6, <2>7 DEF GoroutinesInv, AnswersACall, ThereIsACall
  <2> QED BY <2>1, <2>5, <2>8 DEF GoroutinesInv, ThereIsACall
<1>4. CASE Spread
  <2>1. /\ at["spaces"] = "rest" /\ Goes("spaces", "sending") /\ job' = [job EXCEPT !["spaces"] = "spread"]
        /\ work' = work \o <<Item("send", "spaces")>> /\ UNCHANGED <<lock, call, wanted>>
    BY <1>4 DEF Spread, Begin, Adds
  <2>2. /\ Item("send", "spaces") \in Items /\ Item("send", "spaces").kind = "send" /\ "spaces" \in Threads
    BY ItemsTyped DEF Item, Threads
  <2>3. Awaited(work', at')
    BY <2>1, <2>2, BringsTypes, AwaitedSend DEF Goes
  <2>4. job'["spaces"] = "spread"
    BY <2>1, <2>2 DEF GoroutinesInv, LockInv, TypeOKGoroutines
  <2>5. LockInv'
    BY <1>1, <2>1, <2>2, <2>3, <2>4, GoingKeeps DEF GoroutinesInv
  <2>6. \A s \in Threads \ {"spaces"} : at'[s] = at[s] /\ job'[s] = job[s]
    BY <2>1 DEF Goes, GoroutinesInv, LockInv, TypeOKGoroutines
  <2>7. AnswersACall'
    BY <2>1, <2>6 DEF GoroutinesInv, AnswersACall, ThereIsACall
  <2>8. Brings(work', wanted') <=> Brings(work, wanted)
    BY <2>1, <2>2, BringsTypes, AddedAsks
  <2> QED BY <2>1, <2>5, <2>7, <2>8 DEF GoroutinesInv, ThereIsACall
<1> QED BY <1>2, <1>3, <1>4

(* The Manager does what was queued, in order.                             *)
LEMMA TakingKeeps == ASSUME GoroutinesInv, Take PROVE GoroutinesInv'
<1> DEFINE next == Head(work)
<1>1. TypeOKGoroutines'
  BY BeginningTyped DEF GoroutinesInv, LockInv
<1>2. /\ at["manager"] = "rest" /\ work # <<>> /\ work' = Tail(work) /\ UNCHANGED <<lock, call>>
      /\ "manager" \in Threads \ {"spaces"}
  BY DEF Take, Threads
<1>3. next \in Items
  BY <1>2, BringsTypes, QueuedLess
<1>4. CASE next.kind \in Come
  <2>1. Goes("manager", "locking") /\ job' = [job EXCEPT !["manager"] = next.kind] /\ wanted' = wanted
    BY <1>4 DEF Take
  <2>2. next.kind \notin {"send", "want", "release"}
    BY <1>4 DEF Come
  <2>3. Brings(work', wanted') <=> Brings(work, wanted)
    BY <1>2, <2>1, <2>2, BringsTypes, TakenAsks
  <2>4. Awaited(work', at)
    BY <1>2, <2>2, BringsTypes, AwaitedTaken
  <2>5. Awaited(work', at')
    BY <1>2, <2>1, <2>4, BringsTypes, AwaitedMove DEF Goes
  <2>6. lock # "manager" /\ job'["spaces"] = job["spaces"]
    BY <1>2, <2>1 DEF GoroutinesInv, LockInv, Exclusive, Holds, TypeOKGoroutines, Threads
  <2>7. LockInv'
    BY <1>1, <1>2, <2>1, <2>5, <2>6, GoingKeeps DEF GoroutinesInv
  <2>8. at'["manager"] = "locking" /\ \A s \in Threads \ {"manager"} : at'[s] = at[s] /\ job'[s] = job[s]
    BY <1>2, <2>1 DEF Goes, GoroutinesInv, LockInv, TypeOKGoroutines
  <2>9. AnswersACall'
    BY <1>2, <2>8 DEF GoroutinesInv, AnswersACall, ThereIsACall
  <2> QED BY <1>2, <2>3, <2>7, <2>9 DEF GoroutinesInv, ThereIsACall
<1>5. CASE next.kind \notin Come
  <2>1. /\ at' = IF next.kind = "send" THEN [at EXCEPT ![next.from] = "sent"] ELSE at
        /\ wanted' = CASE next.kind = "want" -> TRUE [] next.kind = "release" -> FALSE [] OTHER -> wanted
        /\ job' = job
    BY <1>5 DEF Take
  <2>2. Brings(work', wanted') <=> Brings(work, wanted)
    <3>1. CASE next.kind = "want"
      <4>1. wanted' = TRUE
        BY <2>1, <3>1
      <4> QED BY <1>2, <4>1, <3>1, BringsTypes, TakenAsks
    <3>2. CASE next.kind = "release"
      <4>1. wanted' = FALSE
        BY <2>1, <3>2
      <4> QED BY <1>2, <4>1, <3>2, BringsTypes, TakenAsks
    <3>3. CASE next.kind \notin {"want", "release"}
      BY <1>2, <2>1, <3>3, BringsTypes, TakenAsks
    <3> QED BY <3>1, <3>2, <3>3
  <2>3. Awaited(work', at')
    BY <1>2, <2>1, BringsTypes, AwaitedTaken
  <2>4. \A s \in Threads : at'[s] = at[s] \/ (at[s] = "sending" /\ at'[s] = "sent")
    BY <1>2, <2>1, BringsTypes, AwaitedTaken
  <2>5. Exclusive' /\ OnlySpreads'
    <3>1. \A s \in Threads : Holds(s)' <=> Holds(s)
      BY <2>4 DEF Holds
    <3>2. Exclusive'
      BY <1>2, <3>1 DEF Exclusive, GoroutinesInv, LockInv
    <3>3. OnlySpreads'
      BY <2>1, <2>4 DEF OnlySpreads, GoroutinesInv, LockInv, Threads
    <3> QED BY <3>2, <3>3
  <2>6. AnswersACall'
    BY <1>2, <2>1, <2>4 DEF GoroutinesInv, AnswersACall, ThereIsACall
  <2> QED BY <1>1, <1>2, <2>2, <2>3, <2>5, <2>6 DEF GoroutinesInv, LockInv, ThereIsACall
<1> QED BY <1>4, <1>5

LEMMA Inductive == SpecGoroutines => []GoroutinesInv
<1>1. InitGoroutines => GoroutinesInv
  <2> SUFFICES ASSUME InitGoroutines PROVE GoroutinesInv
    OBVIOUS
  <2>1. /\ work = <<>> /\ lock = "nobody" /\ call = "none" /\ wanted = FALSE /\ connected = FALSE /\ begun = 0
        /\ at = [t \in Threads |-> "rest"] /\ job = [t \in Threads |-> "none"]
    BY DEF InitGoroutines
  <2>2. TypeOKGoroutines
    <3>1. work \in Seq(Items) /\ Len(work) = 0
      BY <2>1
    <3>2. 0 <= Capacity /\ begun \in 0..MaxJobs
      BY <2>1, GoroutinesAssumption
    <3>3. at \in [Threads -> {"rest", "locking", "inside", "seating", "busy", "free", "sending", "sent"}]
      BY <2>1
    <3>4. job \in [Threads -> Jobs \cup {"none"}]
      BY <2>1
    <3> QED BY <2>1, <3>1, <3>2, <3>3, <3>4 DEF TypeOKGoroutines
  <2>3. Exclusive /\ OnlySpreads
    BY <2>1 DEF Exclusive, OnlySpreads, Holds, Threads
  <2>4. Awaited(work, at)
    BY <2>1 DEF Awaited
  <2>5. AnswersACall /\ ~ThereIsACall /\ ~Brings(work, wanted)
    BY <2>1 DEF AnswersACall, ThereIsACall, Brings, Asks
  <2> QED BY <2>2, <2>3, <2>4, <2>5 DEF GoroutinesInv, LockInv
<1>2. GoroutinesInv /\ [NextGoroutines]_goroutines => GoroutinesInv'
  <2>1. GoroutinesInv /\ UNCHANGED goroutines => GoroutinesInv'
    BY DEF goroutines, GoroutinesInv, LockInv, TypeOKGoroutines, Exclusive, Holds, OnlySpreads, Awaited,
           AnswersACall, ThereIsACall, Brings, Asks
  <2> QED BY <2>1, BeginningKeeps, TakingKeeps, ProceedingKeeps DEF NextGoroutines
<1> QED BY <1>1, <1>2, PTL DEF SpecGoroutines

-----------------------------------------------------------------------------
(* The mutex of calls.go is held by one goroutine at a time, also while it *)
(* waits for what it sent, and nobody holds it who is somewhere else.      *)
THEOREM OneInside ==
  SpecGoroutines => [](\A s, t \in Threads : Holds(s) /\ Holds(t) => s = t)
<1>1. GoroutinesInv => \A s, t \in Threads : Holds(s) /\ Holds(t) => s = t
  BY DEF GoroutinesInv, LockInv, Exclusive
<1> QED BY <1>1, Inductive, PTL

(* What is queued for the connection is in the order the calls began and   *)
(* ended in, so it is wanted in the end exactly while there is a call      *)
(* (calls.go's Want and Release, peers.go's do).                           *)
THEOREM WantedWhileACallLasts == SpecGoroutines => []WantedWhileThereIsACall
<1>1. GoroutinesInv => WantedWhileThereIsACall
  BY DEF GoroutinesInv, WantedWhileThereIsACall, WillBeWanted, Asking, Brings, Asks
<1> QED BY <1>1, Inductive, PTL
=============================================================================
