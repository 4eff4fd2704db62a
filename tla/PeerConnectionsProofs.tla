----------------------- MODULE PeerConnectionsProofs -----------------------
(***************************************************************************)
(* What PeerConnections promises of what a Manager holds of each peer, of  *)
(* what two who are connected know of one another, and of where the        *)
(* service finds them, proved for any number of peers, whatever the        *)
(* service, the WebView and the network do and however often.              *)
(*                                                                         *)
(* What a Manager holds of a peer (IInv) needs nothing of the service: it  *)
(* is inductive once the record of a peer is one, and rests on each        *)
(* handler leaving a record of which it is true.  What two know of one     *)
(* another (CInv) rests on the order of what is said on a connection, and  *)
(* on a name standing for one connection: an offer is not followed twice,  *)
(* nor once somebody answered it.                                          *)
(***************************************************************************)
EXTENDS PeerConnections, FiniteSetTheorems, SequenceTheorems, TLAPS

(* A record of a peer, and of a connection.                                *)
Stages == {"none", "new", "offered", "settled", "opened", "proved", "ready"}
IsConn(c) ==
  c \in [session : {c.session}, offerer : BOOLEAN, stage : Stages, theyWant : BOOLEAN]

IsRecord(r) ==
  /\ r \in [wanted : BOOLEAN, retry : BOOLEAN, parked : BOOLEAN, conn : {r.conn}]
  /\ IsConn(r.conn)

(* Of a record: its peer is wanted only if something will come of it.      *)
Remembers(r) ==
  /\ IsRecord(r)
  /\ r.wanted => Connected(r) \/ r.retry \/ r.parked

IsReady(r) == r.conn.stage = "ready"

Shape ==
  /\ peer = [p \in Peers |-> [q \in Peers |-> peer[p][q]]]
  /\ told \in [Peers -> SUBSET Peers]

IInv ==
  /\ Shape
  /\ \A p, q \in Peers : Remembers(peer[p][q])
  /\ ObserversKnow

-----------------------------------------------------------------------------
(* What becomes of a record.                                               *)
LEMMA OpeningConnects ==
  ASSUME NEW s, NEW offerer \in BOOLEAN
  PROVE  /\ IsConn(Opening(s, offerer)) /\ Opening(s, offerer) # NoConn
         /\ Opening(s, offerer).stage = "new"
BY DEF Opening, IsConn, NoConn, Stages

LEMMA NoConnIsConn == IsConn(NoConn) /\ NoConn.stage = "none"
BY DEF NoConn, IsConn, Stages

LEMMA StagesConnect ==
  ASSUME NEW r, IsRecord(r), NEW stage \in Stages \ {"none"}
  PROVE  LET t == [r EXCEPT !.conn.stage = stage]
         IN  IsRecord(t) /\ Connected(t) /\ t.conn.stage = stage
BY NoConnIsConn DEF IsRecord, IsConn, Connected

LEMMA AgainRemembers ==
  ASSUME NEW r, IsRecord(r)
  PROVE  Remembers(Again(Dropped(r))) /\ ~IsReady(Again(Dropped(r)))
BY NoConnIsConn DEF Again, Dropped, IsRecord, Remembers, IsReady

LEMMA ConnectingRemembers ==
  ASSUME NEW p, NEW r, IsRecord(r)
  PROVE  /\ Remembers(Connecting(p, r))
         /\ IsReady(Connecting(p, r)) => IsReady(r)
<1>1. CASE link[p] = NoEnd
  BY <1>1 DEF Connecting, IsRecord, Remembers, IsReady
<1>2. CASE link[p] # NoEnd
  <2> DEFINE c == Opening(NewSession(p), TRUE)
  <2>1. IsConn(c) /\ c # NoConn /\ c.stage = "new"
    BY OpeningConnects
  <2>2. Connecting(p, r) = [r EXCEPT !.retry = FALSE, !.conn = c]
    BY <1>2 DEF Connecting
  <2> HIDE DEF c
  <2> QED BY <2>1, <2>2 DEF IsRecord, Remembers, IsReady, Connected
<1> QED BY <1>1, <1>2

LEMMA ConnMadeRemembers ==
  ASSUME NEW r, IsRecord(r), NEW c, IsConn(c), c # NoConn
  PROVE  /\ LET t == [r EXCEPT !.conn = c] IN Remembers(t) /\ t.conn = c
         /\ LET t == [r EXCEPT !.retry = FALSE, !.conn = c] IN Remembers(t) /\ t.conn = c
BY DEF IsRecord, Remembers, Connected

(* Wanting it, and being told it is reachable.                             *)
LEMMA HopeRemembers ==
  ASSUME NEW r, IsRecord(r)
  PROVE  /\ LET t == [r EXCEPT !.wanted = TRUE] IN IsRecord(t) /\ t.conn = r.conn
         /\ LET t == [r EXCEPT !.parked = FALSE] IN IsRecord(t) /\ t.conn = r.conn
BY DEF IsRecord

(* Releasing it, disconnecting it, and being told it is not reachable.     *)
LEMMA LossRemembers ==
  ASSUME NEW r, IsRecord(r)
  PROVE  /\ LET t == [r EXCEPT !.wanted = FALSE, !.retry = FALSE] IN Remembers(t) /\ t.conn = r.conn
         /\ LET t == [Dropped(r) EXCEPT !.wanted = FALSE, !.retry = FALSE]
            IN  Remembers(t) /\ t.conn = NoConn
         /\ LET t == [Dropped(r) EXCEPT !.parked = TRUE, !.retry = FALSE]
            IN  Remembers(t) /\ t.conn = NoConn
BY NoConnIsConn DEF IsRecord, Remembers, Dropped

(* Setting the record of one peer, whoever that is: the service may name   *)
(* anybody.                                                                *)
LEMMA Setting ==
  ASSUME IInv, NEW p \in Peers, NEW q, NEW r, Sets(p, q, r),
         q \in Peers => Remembers(r),
         told' \in [Peers -> SUBSET Peers],
         \A x \in Peers \ {p} : told'[x] = told[x],
         \A y \in Peers \ {q} : y \in told'[p] <=> y \in told[p],
         q \in Peers => (q \in told'[p] <=> IsReady(r))
  PROVE  IInv'
<1>1. /\ peer' = [x \in Peers |-> [y \in Peers |-> peer'[x][y]]]
      /\ \A x, y \in Peers : peer'[x][y] = IF x = p /\ y = q THEN r ELSE peer[x][y]
  BY DEF IInv, Shape, Sets
<1>2. \A x, y \in Peers : Remembers(peer'[x][y])
  BY <1>1 DEF IInv
<1>3. \A x, y \in Peers : y \in told'[x] <=> IsReady(peer'[x][y])
  BY <1>1 DEF IInv, ObserversKnow, Ready, Conn, IsReady
<1>4. ObserversKnow'
  <2>1. \A x \in Peers : told'[x] \subseteq Peers
    OBVIOUS
  <2> QED BY <1>3, <2>1 DEF ObserversKnow, Ready, Conn, IsReady
<1> QED BY <1>1, <1>2, <1>4 DEF IInv, Shape

(* Observers are told nothing, and have nothing to be told.                *)
LEMMA SettingQuietly ==
  ASSUME IInv, NEW p \in Peers, NEW q, NEW r, Sets(p, q, r), told' = told,
         q \in Peers => Remembers(r) /\ (IsReady(r) <=> Ready(p, q))
  PROVE  IInv'
<1>1. \A y \in Peers : y \in told[p] <=> Ready(p, y)
  BY DEF IInv, ObserversKnow
<1> QED BY <1>1, Setting DEF IInv, Shape

(* A connection is dropped, if there was one, and observers told so.       *)
LEMMA SettingDropped ==
  ASSUME IInv, NEW p \in Peers, NEW q, NEW r, Sets(p, q, r), Drops(p, q),
         q \in Peers => Remembers(r) /\ ~IsReady(r)
  PROVE  IInv'
<1>1. \A y \in Peers : y \in told[p] <=> Ready(p, y)
  BY DEF IInv, ObserversKnow
<1>2. \/ Ready(p, q) /\ told' = [told EXCEPT ![p] = @ \ {q}]
      \/ ~Ready(p, q) /\ told' = told
  BY DEF Drops
<1>3. /\ told' \in [Peers -> SUBSET Peers]
      /\ \A x \in Peers \ {p} : told'[x] = told[x]
      /\ \A y \in Peers \ {q} : y \in told'[p] <=> y \in told[p]
      /\ q \in Peers => q \notin told'[p]
  BY <1>1, <1>2 DEF IInv, Shape
<1> QED BY <1>3, Setting

(* Several are connected to at once.                                       *)
LEMMA ConnectingToSeveral ==
  ASSUME IInv, NEW p \in Peers, NEW due, ConnectsTo(p, due), told' = told,
         \A q \in due \cap Peers : ~Connected(peer[p][q])
  PROVE  IInv'
<1> DEFINE names == {f \in [due -> Spare(p)] : IsInjective(f)}
           name == CHOOSE f \in names : TRUE
           New(q) == [peer[p][q] EXCEPT !.retry = FALSE, !.conn = Opening(name[q], TRUE)]
<1>1. peer' = [peer EXCEPT ![p] = [q \in Peers |-> IF q \in due THEN New(q) ELSE peer[p][q]]]
  BY DEF ConnectsTo, IInv, Shape
<1>2. \A q \in Peers : Remembers(New(q)) /\ ~IsReady(New(q))
  <2> SUFFICES ASSUME NEW q \in Peers PROVE Remembers(New(q)) /\ ~IsReady(New(q))
    OBVIOUS
  <2> DEFINE c == Opening(name[q], TRUE)
  <2>1. IsConn(c) /\ c # NoConn /\ c.stage = "new"
    BY OpeningConnects
  <2>2. IsRecord(peer[p][q])
    BY DEF IInv, Remembers
  <2>3. LET t == [peer[p][q] EXCEPT !.retry = FALSE, !.conn = c] IN Remembers(t) /\ t.conn = c
    BY <2>1, <2>2, ConnMadeRemembers
  <2> QED BY <2>1, <2>3 DEF IsReady
<1> HIDE DEF New
<1>3. /\ peer' = [x \in Peers |-> [y \in Peers |-> peer'[x][y]]]
      /\ \A x, y \in Peers : peer'[x][y] = IF x = p /\ y \in due THEN New(y) ELSE peer[x][y]
  BY <1>1 DEF IInv, Shape
<1>4. \A q \in due \cap Peers : ~Ready(p, q)
  BY NoConnIsConn DEF Connected, Ready, Conn
<1>5. \A x, y \in Peers : IsReady(peer'[x][y]) <=> Ready(x, y)
  BY <1>2, <1>3, <1>4 DEF IsReady, Ready, Conn
<1>6. ObserversKnow'
  BY <1>5 DEF IInv, ObserversKnow, IsReady, Ready, Conn
<1> QED BY <1>2, <1>3, <1>6 DEF IInv, Shape

-----------------------------------------------------------------------------
(* What is asked of the Manager.                                           *)
LEMMA AsksKeep ==
  ASSUME IInv, NEW p \in Peers, NEW q \in Peers, Asks(p, q)
  PROVE  IInv'
<1>1. IsRecord(peer[p][q])
  BY DEF IInv, Remembers
<1>2. CASE Want(p, q)
  <2> DEFINE r == [peer[p][q] EXCEPT !.wanted = TRUE]
             connects == ~Connected(r) /\ ~r.parked /\ ~r.retry
  <2>1. IsRecord(r) /\ (IsReady(r) <=> Ready(p, q))
    BY <1>1, HopeRemembers DEF IsReady, Ready, Conn
  <2>2. Sets(p, q, IF connects THEN Connecting(p, r) ELSE r) /\ told' = told
    BY <1>2 DEF Want
  <2> HIDE DEF r
  <2>3. CASE connects
    <3>1. ~IsReady(r)
      BY <2>3, NoConnIsConn DEF Connected, IsReady
    <3> QED BY <2>1, <2>2, <2>3, <3>1, ConnectingRemembers, SettingQuietly
  <2>4. CASE ~connects
    <3>1. Remembers(r)
      BY <2>1, <2>4 DEF Remembers
    <3> QED BY <2>1, <2>2, <2>4, <3>1, SettingQuietly
  <2> QED BY <2>3, <2>4
<1>3. CASE Release(p, q)
  <2> DEFINE r == [peer[p][q] EXCEPT !.wanted = FALSE, !.retry = FALSE]
  <2>1. Remembers(r) /\ (IsReady(r) <=> Ready(p, q))
    BY <1>1, LossRemembers DEF IsReady, Ready, Conn
  <2>2. Sets(p, q, r) /\ told' = told
    BY <1>3 DEF Release
  <2> HIDE DEF r
  <2> QED BY <2>1, <2>2, SettingQuietly
<1>4. CASE Disconnect(p, q)
  <2> DEFINE r == [Dropped(peer[p][q]) EXCEPT !.wanted = FALSE, !.retry = FALSE]
  <2>1. Remembers(r) /\ ~IsReady(r)
    BY <1>1, LossRemembers, NoConnIsConn DEF IsReady
  <2>2. Sets(p, q, r) /\ Drops(p, q)
    BY <1>4 DEF Disconnect
  <2> HIDE DEF r
  <2> QED BY <2>1, <2>2, SettingDropped
<1> QED BY <1>2, <1>3, <1>4 DEF Asks

(* What the service says, of anybody, and what was to be done of it.       *)
LEMMA ServiceKeeps ==
  ASSUME IInv, NEW p \in Peers, FromService(p) \/ HandleReachable(p)
  PROVE  IInv'
<1>1. \A q \in Peers : IsRecord(peer[p][q])
  BY DEF IInv, Remembers
<1>2. ASSUME UNCHANGED manager PROVE IInv'
  BY <1>2 DEF manager, IInv, Shape, ObserversKnow, Ready, Conn
<1>3. ASSUME NEW q, HandleUnreachable(p, q) PROVE IInv'
  <2> DEFINE r == [Dropped(peer[p][q]) EXCEPT !.parked = TRUE, !.retry = FALSE]
  <2>1. q \in Peers => Remembers(r) /\ ~IsReady(r)
    BY <1>1, LossRemembers, NoConnIsConn DEF IsReady
  <2>2. CASE UNCHANGED manager
    BY <1>2, <2>2
  <2>3. CASE Sets(p, q, r) /\ Drops(p, q)
    <3> HIDE DEF r
    <3> QED BY <2>1, <2>3, SettingDropped
  <2> QED BY <1>3, <2>2, <2>3 DEF HandleUnreachable
<1>4. ASSUME NEW q, NEW s, Offered(p, q, s) PROVE IInv'
  <2> DEFINE c == Opening(s, FALSE)
             r == [peer[p][q] EXCEPT !.conn = c]
  <2>1. IsConn(c) /\ c # NoConn /\ c.stage = "new"
    BY OpeningConnects
  <2>2. CASE UNCHANGED manager
    BY <1>2, <2>2
  <2>3. CASE Sets(p, q, r) /\ Drops(p, q)
    <3>1. q \in Peers => Remembers(r) /\ r.conn = c
      BY <1>1, <2>1, ConnMadeRemembers
    <3> HIDE DEF c, r
    <3> QED BY <2>1, <2>3, <3>1, SettingDropped DEF IsReady
  <2> QED BY <1>4, <2>2, <2>3 DEF Offered
<1>5. ASSUME NEW q, NEW s, Answered(p, q, s) PROVE IInv'
  <2>1. \E r : /\ Sets(p, q, r) /\ told' = told
               /\ \/ r = peer[p][q]
                  \/ /\ r = [peer[p][q] EXCEPT !.conn.stage = "settled"]
                     /\ Conn(p, q).stage = "offered"
    BY <1>5 DEF Answered
  <2>2. PICK r : /\ Sets(p, q, r) /\ told' = told
                 /\ \/ r = peer[p][q]
                    \/ /\ r = [peer[p][q] EXCEPT !.conn.stage = "settled"]
                       /\ Conn(p, q).stage = "offered"
    BY <2>1
  <2>3. CASE r = peer[p][q]
    BY <2>2, <2>3, SettingQuietly DEF IInv, Ready, Conn, IsReady
  <2>4. CASE r # peer[p][q]
    <3>1. q \in Peers => IsRecord(r) /\ Connected(r) /\ r.conn.stage = "settled"
      <4>1. r = [peer[p][q] EXCEPT !.conn.stage = "settled"]
        BY <2>2, <2>4
      <4> QED BY <1>1, <4>1, StagesConnect DEF Stages
    <3>2. q \in Peers => Remembers(r) /\ (IsReady(r) <=> Ready(p, q))
      BY <2>2, <2>4, <3>1 DEF Remembers, IsReady, Ready
    <3> QED BY <2>2, <3>2, SettingQuietly
  <2> QED BY <2>3, <2>4
<1>6. CASE FromService(p)
  BY <1>2, <1>3, <1>4, <1>5, <1>6 DEF FromService
<1>7. CASE HandleReachable(p)
  <2> DEFINE q == Head(work[p])
             r == [peer[p][q] EXCEPT !.parked = FALSE]
             connects == r.wanted /\ ~Connected(r)
  <2>1. Sets(p, q, IF connects THEN Connecting(p, r) ELSE r) /\ told' = told
    BY <1>7 DEF HandleReachable
  <2>2. q \in Peers => IsRecord(r) /\ (IsReady(r) <=> Ready(p, q))
    <3>1. \A y \in Peers : LET t == [peer[p][y] EXCEPT !.parked = FALSE]
                          IN  IsRecord(t) /\ t.conn = peer[p][y].conn
      BY <1>1, HopeRemembers
    <3> QED BY <3>1 DEF IsReady, Ready, Conn
  <2> HIDE DEF q, r
  <2>3. CASE connects
    <3>1. ~IsReady(r)
      BY <2>3, NoConnIsConn DEF Connected, IsReady
    <3> QED BY <2>1, <2>2, <2>3, <3>1, ConnectingRemembers, SettingQuietly
  <2>4. CASE ~connects
    <3>1. q \in Peers => Remembers(r)
      BY <2>2, <2>4 DEF Remembers
    <3> QED BY <2>1, <2>2, <2>4, <3>1, SettingQuietly
  <2> QED BY <2>3, <2>4
<1> QED BY <1>6, <1>7

(* What the WebView says, and what comes on a connection.                  *)
LEMMA WebViewKeeps ==
  ASSUME IInv, NEW p \in Peers, NEW q \in Peers, WebView(p, q)
  PROVE  IInv'
<1>1. IsRecord(peer[p][q])
  BY DEF IInv, Remembers
<1>2. ASSUME NEW stage \in Stages \ {"none", "ready"}, ~Ready(p, q), Moves(p, q, stage), told' = told
      PROVE  IInv'
  <2> DEFINE r == [peer[p][q] EXCEPT !.conn.stage = stage]
  <2>1. IsRecord(r) /\ Connected(r) /\ r.conn.stage = stage
    BY <1>1, <1>2, StagesConnect
  <2>2. Sets(p, q, r)
    BY <1>2 DEF Moves
  <2> HIDE DEF r
  <2> QED BY <1>2, <2>1, <2>2, SettingQuietly DEF Remembers, IsReady
<1>3. CASE LocalDescription(p, q)
  <2>1. /\ Moves(p, q, IF Conn(p, q).offerer THEN "offered" ELSE "settled")
        /\ told' = told /\ ~Ready(p, q)
    BY <1>3 DEF LocalDescription, Moves, Ready
  <2> QED BY <1>2, <2>1 DEF Stages
<1>4. CASE Opened(p, q)
  BY <1>2, <1>4 DEF Opened, Ready, Stages
<1>5. CASE Received(p, q)
  <2>1. ASSUME Hello(p, q) PROVE IInv'
    BY <1>2, <2>1 DEF Hello, Ready, Stages
  <2>2. ASSUME Proof(p, q) PROVE IInv'
    <3> DEFINE r == [peer[p][q] EXCEPT !.conn.stage = "ready"]
    <3>1. IsRecord(r) /\ Connected(r) /\ r.conn.stage = "ready"
      BY <1>1, StagesConnect DEF Stages
    <3>2. Sets(p, q, r) /\ told' = [told EXCEPT ![p] = @ \cup {q}]
      BY <2>2 DEF Proof, Moves
    <3> HIDE DEF r
    <3>3. Remembers(r) /\ IsReady(r)
      BY <3>1 DEF Remembers, IsReady
    <3>4. /\ told' \in [Peers -> SUBSET Peers]
          /\ \A x \in Peers \ {p} : told'[x] = told[x]
          /\ \A y \in Peers \ {q} : y \in told'[p] <=> y \in told[p]
          /\ q \in told'[p]
      BY <3>2 DEF IInv, Shape
    <3> QED BY <3>2, <3>3, <3>4, Setting
  <2>3. ASSUME NEW wanted \in BOOLEAN, Interest(p, q, wanted) PROVE IInv'
    <3> DEFINE r == [peer[p][q] EXCEPT !.conn.theyWant = wanted]
    <3>1. Sets(p, q, r) /\ Ready(p, q) /\ told' = told
      BY <2>3 DEF Interest
    <3>2. IsRecord(r) /\ r.conn.stage = "ready"
      BY <1>1, <3>1 DEF IsRecord, IsConn, Ready, Conn
    <3> HIDE DEF r
    <3> QED BY <3>1, <3>2, NoConnIsConn, SettingQuietly DEF Remembers, IsReady, Connected
  <2> QED BY <1>5, <2>1, <2>2, <2>3 DEF Received
<1>6. CASE Closed(p, q)
  BY <1>1, <1>6, AgainRemembers, SettingDropped DEF Closed, Fails
<1> QED BY <1>3, <1>4, <1>5, <1>6 DEF WebView

LEMMA ResetKeeps == ASSUME IInv, NEW p \in Peers, Reset(p) PROVE IInv'
<1> DEFINE ended == {q \in Peers : Connected(peer[p][q])}
           New(q) == Again(Dropped(peer[p][q]))
<1>1. /\ peer' = [peer EXCEPT ![p] = [q \in Peers |-> IF q \in ended THEN New(q) ELSE peer[p][q]]]
      /\ told' = [told EXCEPT ![p] = {}]
  BY DEF Reset, IInv, Shape
<1>2. \A q \in Peers : Remembers(New(q)) /\ ~IsReady(New(q))
  BY AgainRemembers DEF IInv, Remembers
<1> HIDE DEF New
<1>3. /\ peer' = [x \in Peers |-> [y \in Peers |-> peer'[x][y]]]
      /\ \A x, y \in Peers : peer'[x][y] = IF x = p /\ y \in ended THEN New(y) ELSE peer[x][y]
  BY <1>1 DEF IInv, Shape
<1>4. \A y \in Peers : ~IsReady(peer'[p][y])
  BY <1>2, <1>3, NoConnIsConn DEF Connected, IsReady
<1>5. told' \in [Peers -> SUBSET Peers] /\ told'[p] = {} /\ \A x \in Peers \ {p} : told'[x] = told[x]
  BY <1>1 DEF IInv, Shape
<1>6. \A x, y \in Peers : y \in told'[x] <=> IsReady(peer'[x][y])
  BY <1>3, <1>4, <1>5 DEF IInv, ObserversKnow, IsReady, Ready, Conn
<1>7. ObserversKnow'
  BY <1>5, <1>6 DEF ObserversKnow, IsReady, Ready, Conn
<1> QED BY <1>2, <1>3, <1>5, <1>7 DEF IInv, Shape

LEMMA TickKeeps ==
  ASSUME IInv, NEW p \in Peers, NEW q \in Peers, Tick(p, q)
  PROVE  IInv'
<1>1. IsRecord(peer[p][q])
  BY DEF IInv, Remembers
<1>2. CASE TakesTooLong(p, q)
  BY <1>1, <1>2, AgainRemembers, SettingDropped DEF TakesTooLong, Fails
<1>3. CASE Idle(p, q)
  <2> DEFINE r == Dropped(peer[p][q])
  <2>1. Remembers(r) /\ ~IsReady(r)
    BY <1>1, <1>3, NoConnIsConn DEF Idle, Wanted, IsRecord, Remembers, IsReady, Dropped
  <2>2. Sets(p, q, r) /\ Drops(p, q)
    BY <1>3 DEF Idle
  <2> HIDE DEF r
  <2> QED BY <2>1, <2>2, SettingDropped
<1>4. CASE Retry(p, q)
  <2>1. Sets(p, q, Connecting(p, peer[p][q])) /\ told' = told /\ ~IsReady(peer[p][q])
    BY <1>4, NoConnIsConn DEF Retry, Connected, IsReady
  <2> QED BY <1>1, <2>1, ConnectingRemembers, SettingQuietly DEF IsReady, Ready, Conn
<1>5. CASE ForgetPeer(p, q)
  <2>1. Sets(p, q, Unknown) /\ told' = told /\ ~Ready(p, q)
    BY <1>5, NoConnIsConn DEF ForgetPeer, Connected, Ready, Conn
  <2>2. Remembers(Unknown) /\ ~IsReady(Unknown)
    BY NoConnIsConn DEF Unknown, Remembers, IsRecord, IsReady
  <2> QED BY <2>1, <2>2, SettingQuietly
<1> QED BY <1>2, <1>3, <1>4, <1>5 DEF Tick

(* Several at once, and what is none of the Manager's business.            *)
LEMMA RestKeeps ==
  ASSUME IInv, NEW p \in Peers,
         \/ Online(p) \/ LinkEnds(p) \/ LinkBreaks(p) \/ Reachability(p) \/ NetworkChanged(p)
         \/ \E e \in Ends : Service(e) \/ Overflows(e)
         \/ UNCHANGED vars
  PROVE  IInv'
<1>1. CASE Online(p)
  BY <1>1, ConnectingToSeveral DEF Online
<1>2. CASE NetworkChanged(p)
  BY <1>2, ConnectingToSeveral DEF NetworkChanged
<1>3. ASSUME UNCHANGED manager PROVE IInv'
  BY <1>3 DEF manager, IInv, Shape, ObserversKnow, Ready, Conn
<1> QED BY <1>1, <1>2, <1>3 DEF LinkEnds, LinkBreaks, Offline, Reachability, Service, Overflows, vars

LEMMA NextKeeps == IInv /\ [Next]_vars => IInv'
<1> SUFFICES ASSUME IInv, [Next]_vars PROVE IInv'
  OBVIOUS
<1>1. CASE Peers = {}
  BY <1>1 DEF IInv, Shape, ObserversKnow, Next, vars, manager, Service, Overflows, Ends
<1>2. CASE Peers # {}
  BY <1>2, AsksKeep, ServiceKeeps, WebViewKeeps, ResetKeeps, TickKeeps, RestKeeps
  DEF Next, Others
<1> QED BY <1>1, <1>2

LEMMA Inductive == Spec => []IInv
<1>1. Init => IInv
  <2> SUFFICES ASSUME Init PROVE IInv
    OBVIOUS
  <2>1. Remembers(Unknown) /\ ~IsReady(Unknown)
    BY NoConnIsConn DEF Unknown, Remembers, IsRecord, IsReady
  <2>2. peer = [p \in Peers |-> [q \in Peers |-> Unknown]] /\ told = [p \in Peers |-> {}]
    BY DEF Init
  <2> QED BY <2>1, <2>2 DEF IInv, Shape, ObserversKnow, Ready, Conn, IsReady
<1> QED BY <1>1, NextKeeps, PTL DEF Spec

(* ADR 0024: whoever is wanted is connected to, to be tried again, or      *)
(* waited for: no handler of peers.go gives up a peer somebody wants.      *)
THEOREM NobodyIsEverForgotten == Spec => []NobodyIsForgotten
<1>1. IInv => NobodyIsForgotten
  BY DEF IInv, NobodyIsForgotten, Remembers, Wanted
<1> QED BY <1>1, Inductive, PTL

(* Messages, calls and spaces are told of every connection that becomes    *)
(* ready and of every one that ends, whichever way (peers.go's drop).      *)
THEOREM ObserversAlwaysKnow == Spec => []ObserversKnow
<1>1. IInv => ObserversKnow
  BY DEF IInv
<1> QED BY <1>1, Inductive, PTL

-----------------------------------------------------------------------------
(* Where the service finds whoever is online.  An earlier connection may   *)
(* be forgotten later than the next is registered, but its name is of a    *)
(* peer's own, and it is found no longer.                                  *)
Named ==
  /\ link \in [Peers -> Ends \cup {NoEnd}] /\ found \in [Peers -> Ends \cup {NoEnd}]
  /\ \A p \in Peers : link[p] # NoEnd => Whose(link[p]) = p

Found(p) == link[p] \in served \ done => found[p] = link[p]

FInv == Named /\ \A p \in Peers : link[p] # NoEnd => Found(p)

LEMMA LeastNumber ==
  ASSUME NEW T \in SUBSET Nat, T # {}
  PROVE  \E x \in T : \A y \in T : x <= y
<1> DEFINE R == {ss \in Nat \X Nat : ss[1] < ss[2]}
<1>1. PICK x \in T : \A y \in T : ~(<<y, x>> \in R)
  <2>1. IsWellFoundedOn(R, Nat)
    BY NatLessThanWellFounded DEF OpToRel
  <2> HIDE DEF R
  <2> QED BY <2>1, WFMin
<1>2. \A y \in T : y < x => <<y, x>> \in R
  OBVIOUS
<1>3. \A y \in T : ~(y < x)
  <2> HIDE DEF R
  <2> QED BY <1>1, <1>2
<1> HIDE DEF R
<1> QED BY <1>3

LEMMA DialsFind ==
  ASSUME FInv, NEW p \in Peers, NEW says, Dials(p, says)
  PROVE  FInv'
<1> DEFINE e == <<p, Min(Unused(p))>>
<1>1. /\ link' = [link EXCEPT ![p] = e] /\ found' = [found EXCEPT ![p] = e]
      /\ served' = served \cup {e} /\ done \subseteq done'
  BY DEF Dials
<1>2. Whose(e) = p
  BY DEF Whose
<1>3. e \in Ends
  <2>1. Unused(p) # {}
    BY DEF Dials
  <2>2. Unused(p) \subseteq 1..MaxEnds
    BY DEF Unused
  <2>3. Unused(p) \in SUBSET Nat
    BY <2>2, RendezvousAssumption
  <2>4. Min(Unused(p)) \in Unused(p)
    BY <2>1, <2>3, LeastNumber DEF Min
  <2> QED BY <2>2, <2>4 DEF Ends
<1> HIDE DEF e
<1>4. Named'
  BY <1>1, <1>2, <1>3 DEF FInv, Named
<1>5. link'[p] = found'[p]
  BY <1>1 DEF FInv, Named
<1>6. ASSUME NEW q \in Peers \ {p}, link'[q] # NoEnd PROVE Found(q)'
  <2>1. link'[q] = link[q] /\ found'[q] = found[q] /\ link[q] # e
    BY <1>1, <1>2, <1>6 DEF FInv, Named
  <2> QED BY <1>1, <1>6, <2>1 DEF FInv, Found
<1> QED BY <1>4, <1>5, <1>6 DEF FInv, Found

LEMMA HangingFinds ==
  ASSUME FInv, NEW p \in Peers, Hangs(p), UNCHANGED service
  PROVE  FInv'
BY DEF FInv, Named, Found, Hangs, service

LEMMA ServingFinds ==
  ASSUME FInv, NEW e, Serves(e) \/ Overflow(e)
  PROVE  FInv'
<1>1. CASE Forget(e)
  <2>1. /\ link' = link /\ served' = served \ {e} /\ done' = done \ {e}
        /\ found' = [p \in Peers |-> IF found[p] = e THEN NoEnd ELSE found[p]]
    BY <1>1 DEF Forget, ForgetFound
  <2> QED BY <2>1 DEF FInv, Named, Found
<1>2. CASE ~Forget(e)
  <2>1. UNCHANGED <<link, served, found>> /\ done \subseteq done'
    BY <1>2 DEF Serves, Read, Relay, EndSlow, Overflow
  <2> QED BY <2>1 DEF FInv, Named, Found
<1> QED BY <1>1, <1>2

LEMMA Quiet == FInv /\ UNCHANGED <<link, served, found, done>> => FInv'
BY DEF FInv, Named, Found

LEMMA NextFinds == FInv /\ [Next]_vars => FInv'
<1> SUFFICES ASSUME FInv, [Next]_vars PROVE FInv'
  OBVIOUS
<1>1. ASSUME NEW p \in Peers, Online(p) PROVE FInv'
  BY <1>1, DialsFind DEF Online
<1>2. ASSUME NEW p \in Peers, LinkEnds(p) \/ LinkBreaks(p) PROVE FInv'
  BY <1>2, HangingFinds DEF LinkEnds, LinkBreaks, Offline
<1>3. ASSUME NEW p \in Peers, \/ Reachability(p) \/ FromService(p) \/ HandleReachable(p)
                              \/ Reset(p) \/ NetworkChanged(p)
      PROVE  FInv'
  BY <1>3, Quiet
  DEF Reachability, FromService, HandleReachable, Reset, NetworkChanged, rendezvous, service
<1>4. ASSUME NEW p \in Peers, NEW q \in Peers, Asks(p, q) \/ WebView(p, q) \/ Tick(p, q)
      PROVE  FInv'
  <2>1. CASE Asks(p, q)
    BY <2>1, Quiet DEF Asks, Want, Release, Disconnect, rendezvous, service
  <2>2. CASE WebView(p, q)
    BY <2>2, Quiet
    DEF WebView, LocalDescription, Opened, Received, Closed, rendezvous, service
  <2>3. CASE Tick(p, q)
    BY <2>3, Quiet DEF Tick, TakesTooLong, Idle, Retry, ForgetPeer, rendezvous, service
  <2> QED BY <1>4, <2>1, <2>2, <2>3
<1>5. ASSUME NEW e, Service(e) \/ Overflows(e) PROVE FInv'
  BY <1>5, ServingFinds DEF Service, Overflows
<1>6. CASE UNCHANGED vars
  BY <1>6, Quiet DEF vars, rendezvous, service
<1> QED BY <1>1, <1>2, <1>3, <1>4, <1>5, <1>6 DEF Next, Others

LEMMA InductiveFound == Spec => []FInv
<1>1. Init => FInv
  BY DEF Init, InitRendezvous, FInv, Named, Found
<1> QED BY <1>1, NextFinds, PTL DEF Spec

(* Whoever is online is found by the service, however their connections    *)
(* end, break and overlap (service.go's register and forget).              *)
THEOREM WhoIsOnlineIsAlwaysFound == Spec => []WhoIsOnlineIsFound
<1>1. FInv => WhoIsOnlineIsFound
  BY DEF FInv, Found, WhoIsOnlineIsFound, Ended, Served
<1> QED BY <1>1, InductiveFound, PTL

-----------------------------------------------------------------------------
(* What two who are connected know of one another.                         *)

Signals == [kind : {"signal"}, peer : Peers, session : Sessions, what : {"offer", "answer"}]
Messages ==
  Signals \cup [kind : {"announce", "subscribe", "unsubscribe"}, ids : SUBSET Peers]
          \cup [kind : {"reachable", "unreachable"}, peer : Peers]
Sayings == {"hello", "proof", "wanted", "unwanted"}

ServiceTyped ==
  /\ sent \in [Ends -> Seq(Messages)] /\ queue \in [Ends -> Seq(Messages)]
  /\ announced \in [Ends -> SUBSET Peers] /\ subscribed \in [Ends -> SUBSET Peers]
  /\ watched \in [Peers -> SUBSET Peers] /\ work \in [Peers -> Seq(Peers)]
  /\ relaying = [e \in Ends |-> relaying[e]]
  /\ \A e \in Ends : relaying[e] = NotRelaying \/ relaying[e].signal \in Signals

ConnTyped ==
  /\ channel \in [Peers -> [Peers -> Seq(Sayings)]]
  /\ \A p, q \in Peers : Conn(p, q) # NoConn => Conn(p, q).session \in Sessions

(* Where a signal may be: sent and not read, read and looked up, queued.   *)
Slots == {"sent", "relaying", "queue"} \X Ends
Carried ==
  [x \in Slots |-> IF x[1] = "sent" THEN sent[x[2]]
                   ELSE IF x[1] = "queue" THEN queue[x[2]]
                   ELSE IF Relaying(x[2]) THEN <<relaying[x[2]].signal>> ELSE <<>>]

Is(m, s, what) == m.kind = "signal" /\ m.session = s /\ m.what = what
Has(w, s, what) == \E i \in DOMAIN w : Is(w[i], s, what)
Once(w, s) == \A i, j \in DOMAIN w : Is(w[i], s, "offer") /\ Is(w[j], s, "offer") => i = j
Flies(b, s, what) == \E x \in Slots : Has(b[x], s, what)
Single(b, s) ==
  /\ \A x \in Slots : Once(b[x], s)
  /\ \A x, y \in Slots : Has(b[x], s, "offer") /\ Has(b[y], s, "offer") => x = y

(* A name is offered in one place, and is not once somebody answered.      *)
OffersSingle(b) ==
  \A s \in Sessions : Single(b, s) /\ (Flies(b, s, "answer") => ~Flies(b, s, "offer"))

(* Nor is it once whoever answers has it, or its offerer is settled; and   *)
(* there is one offerer, to whom nobody answers before it offered.         *)
(* f[p][q] is what p holds of q.                                           *)
Began(b, f) ==
  \A p, q \in Peers :
    LET c == f[p][q].conn
    IN  c # NoConn =>
          /\ ~c.offerer \/ c.stage \notin {"new", "offered"} => ~Flies(b, c.session, "offer")
          /\ c.offerer /\ c.stage = "new" => ~Flies(b, c.session, "offer") /\ ~Flies(b, c.session, "answer")
          /\ \A x, y \in Peers :
               LET d == f[x][y].conn
               IN  d.session = c.session /\ d # NoConn /\ c.offerer =>
                     /\ d.offerer => x = p /\ y = q
                     /\ ~d.offerer => c.stage # "new"

(* The last that is said of wanting somebody.                              *)
Interests(w) == {i \in DOMAIN w : w[i] \in {"wanted", "unwanted"}}
Tellings(w, wanted) == \E i \in Interests(w) : (w[i] = "wanted" <=> wanted) /\ \A j \in Interests(w) : j <= i

(* Of one p is ready for: it was told whether p wants it, or is about to   *)
(* be; it was not told unless it is ready too.                             *)
Knows(p, q) ==
  Ready(p, q) /\ Same(p, q) =>
    \/ Tellings(channel[p][q], Wanted(p, q))
    \/ Interests(channel[p][q]) = {} /\ Ready(q, p) /\ Conn(q, p).theyWant = Wanted(p, q)

(* The inductive invariant: types, names, and what is known.               *)
SInv == ServiceTyped /\ ConnTyped
EInv == OffersSingle(Carried) /\ Began(Carried, peer)
JInv == \A p \in Peers : \A q \in Others(p) : Knows(p, q)
CInv == SInv /\ EInv /\ JInv

-----------------------------------------------------------------------------
(* Messages on their way.                                                  *)
Thin(w, v) ==
  \A s : (Once(w, s) => Once(v, s)) /\ \A what : Has(v, s, what) => Has(w, s, what)

Plain(w) == \A i \in DOMAIN w : w[i].kind # "signal"

LEMMA ThinNothing ==
  ASSUME NEW w
  PROVE  Thin(w, w) /\ Thin(w, <<>>) /\ Plain(<<>>)
BY DEF Thin, Has, Once, Plain

LEMMA ThinPlain ==
  ASSUME NEW w, NEW v, Plain(v)
  PROVE  Thin(w, v)
BY DEF Thin, Has, Once, Plain, Is

LEMMA TailOf ==
  ASSUME NEW w \in Seq(Messages), w # <<>>
  PROVE  /\ Tail(w) \in Seq(Messages) /\ Head(w) \in Messages /\ Head(w) = w[1]
         /\ Len(w) \in Nat \ {0} /\ DOMAIN w = 1..Len(w) /\ DOMAIN Tail(w) = 1..(Len(w) - 1)
         /\ \A i \in 1..(Len(w) - 1) : Tail(w)[i] = w[i + 1]
OBVIOUS

LEMMA ThinTail ==
  ASSUME NEW w \in Seq(Messages), w # <<>>
  PROVE  /\ Thin(w, Tail(w))
         /\ \A s, what : Is(Head(w), s, what) => Has(w, s, what)
         /\ \A s : Is(Head(w), s, "offer") /\ Once(w, s) => ~Has(Tail(w), s, "offer")
<1> DEFINE v == Tail(w)  n == Len(w)
<1>1. /\ Head(w) = w[1] /\ n \in Nat \ {0} /\ DOMAIN w = 1..n /\ DOMAIN v = 1..(n - 1)
      /\ \A i \in 1..(n - 1) : v[i] = w[i + 1] /\ i + 1 \in 1..n /\ i + 1 # 1
  BY TailOf
<1> HIDE DEF v, n
<1>2. \A s, what : Has(v, s, what) => Has(w, s, what)
  BY <1>1 DEF Has
<1>3. ASSUME NEW s, Once(w, s) PROVE Once(v, s)
  <2> SUFFICES ASSUME NEW i \in DOMAIN v, NEW j \in DOMAIN v, Is(v[i], s, "offer"), Is(v[j], s, "offer")
               PROVE  i = j
    BY DEF Once
  <2>1. i + 1 = j + 1
    BY <1>1, <1>3 DEF Once
  <2>2. i \in Nat /\ j \in Nat
    BY <1>1
  <2> QED BY <2>1, <2>2
<1>4. ASSUME NEW s, NEW what, Is(Head(w), s, what) PROVE Has(w, s, what)
  <2>1. 1 \in 1..n
    BY <1>1
  <2> QED BY <1>1, <1>4, <2>1 DEF Has
<1>5. ASSUME NEW s, Is(Head(w), s, "offer"), Once(w, s), NEW i \in DOMAIN v, Is(v[i], s, "offer")
      PROVE  FALSE
  <2>1. 1 \in 1..n
    BY <1>1
  <2>2. i + 1 = 1
    BY <1>1, <1>5, <2>1 DEF Once
  <2> QED BY <1>1, <2>2
<1> QED BY <1>2, <1>3, <1>4, <1>5 DEF Thin, Has, v

LEMMA ThinFront ==
  ASSUME NEW w \in Seq(Messages), w # <<>>
  PROVE  Front(w) \in Seq(Messages) /\ Thin(w, Front(w))
<1>1. /\ Len(w) \in Nat \ {0} /\ DOMAIN w = 1..Len(w)
  BY TailOf
<1>2. Front(w) = [i \in 1..(Len(w) - 1) |-> w[i]]
  BY <1>1 DEF Front
<1>3. Front(w) \in Seq(Messages)
  <2>1. \A i \in 1..(Len(w) - 1) : w[i] \in Messages
    BY <1>1
  <2>2. Len(w) - 1 \in Nat
    BY <1>1
  <2> QED BY <1>2, <2>1, <2>2, IsASeq
<1>4. DOMAIN Front(w) = 1..(Len(w) - 1) /\ \A i \in 1..(Len(w) - 1) : Front(w)[i] = w[i] /\ i \in DOMAIN w
  BY <1>1, <1>2
<1>5. Thin(w, Front(w))
  BY <1>4 DEF Thin, Has, Once
<1> QED BY <1>3, <1>5

LEMMA Joined ==
  ASSUME NEW w \in Seq(Messages), NEW v \in Seq(Messages)
  PROVE  /\ w \o v \in Seq(Messages)
         /\ DOMAIN w = 1..Len(w) /\ Len(w) \in Nat /\ DOMAIN v = 1..Len(v) /\ Len(v) \in Nat
         /\ DOMAIN (w \o v) = 1..(Len(w) + Len(v))
         /\ \A i \in 1..Len(w) : (w \o v)[i] = w[i]
         /\ \A i \in 1..(Len(w) + Len(v)) : i \notin 1..Len(w) => (w \o v)[i] = v[i - Len(w)] /\ i - Len(w) \in 1..Len(v)
OBVIOUS

LEMMA ThinJoined ==
  ASSUME NEW w \in Seq(Messages), NEW v \in Seq(Messages), Plain(v)
  PROVE  Thin(w, w \o v)
<1> DEFINE u == w \o v  n == Len(w)  k == Len(v)
<1>1. /\ DOMAIN w = 1..n /\ DOMAIN v = 1..k /\ DOMAIN u = 1..(n + k) /\ n \in Nat /\ k \in Nat
      /\ \A i \in 1..n : u[i] = w[i]
      /\ \A i \in 1..(n + k) : i \notin 1..n => u[i] = v[i - n] /\ i - n \in 1..k
  BY Joined
<1> HIDE DEF u, n, k
<1>2. ASSUME NEW i \in DOMAIN u, NEW s, NEW what, Is(u[i], s, what) PROVE i \in DOMAIN w /\ u[i] = w[i]
  BY <1>1, <1>2 DEF Is, Plain
<1>3. Thin(w, u)
  BY <1>2 DEF Thin, Has, Once
<1> QED BY <1>3 DEF u

LEMMA JoinedPlain ==
  ASSUME NEW v \in Seq(Messages), NEW w \in Seq(Messages), Plain(v), Plain(w)
  PROVE  v \o w \in Seq(Messages) /\ Plain(v \o w)
BY Joined DEF Plain

LEMMA OneMore ==
  ASSUME NEW w \in Seq(Messages), NEW m \in Messages
  PROVE  /\ w \o <<m>> \in Seq(Messages)
         /\ \A s, what : Has(w \o <<m>>, s, what) <=> Has(w, s, what) \/ Is(m, s, what)
         /\ \A s : Once(w, s) /\ (Is(m, s, "offer") => ~Has(w, s, "offer")) => Once(w \o <<m>>, s)
<1> DEFINE u == w \o <<m>>  n == Len(w)
<1>1. /\ DOMAIN w = 1..n /\ DOMAIN u = 1..(n + 1) /\ n \in Nat
      /\ \A i \in 1..n : u[i] = w[i]
      /\ u[n + 1] = m /\ u \in Seq(Messages)
  OBVIOUS
<1> HIDE DEF u, n
<1>2. \A s, what : Has(u, s, what) <=> Has(w, s, what) \/ Is(m, s, what)
  BY <1>1 DEF Has
<1>3. ASSUME NEW s, Once(w, s), Is(m, s, "offer") => ~Has(w, s, "offer") PROVE Once(u, s)
  <2> SUFFICES ASSUME NEW i \in 1..(n + 1), NEW j \in 1..(n + 1), Is(u[i], s, "offer"), Is(u[j], s, "offer")
               PROVE  i = j
    BY <1>1 DEF Once
  <2>1. CASE i \in 1..n /\ j \in 1..n
    BY <1>1, <1>3, <2>1 DEF Once
  <2>2. CASE i = n + 1 /\ j \in 1..n
    BY <1>1, <1>3, <2>2 DEF Has
  <2>3. CASE j = n + 1 /\ i \in 1..n
    BY <1>1, <1>3, <2>3 DEF Has
  <2> QED BY <1>1, <2>1, <2>2, <2>3
<1> QED BY <1>1, <1>2, <1>3 DEF u

-----------------------------------------------------------------------------
(* What is carried where.                                                  *)
FewerFly(b, c) == \A s, what : Flies(c, s, what) => Flies(b, s, what)

LEMMA ThinCarried ==
  ASSUME NEW b, NEW c, \A x \in Slots : Thin(b[x], c[x])
  PROVE  FewerFly(b, c) /\ (OffersSingle(b) => OffersSingle(c))
BY DEF Thin, FewerFly, Flies, OffersSingle, Single

LEMMA FewerBegan ==
  ASSUME NEW b, NEW c, NEW f, FewerFly(b, c), Began(b, f)
  PROVE  Began(c, f)
BY DEF FewerFly, Began

(* One taken from x.                                                       *)
LEMMA TakenCarried ==
  ASSUME NEW b, NEW c, NEW x \in Slots, b[x] \in Seq(Messages), b[x] # <<>>,
         c[x] = Tail(b[x]), \A y \in Slots \ {x} : Thin(b[y], c[y]),
         OffersSingle(b)
  PROVE  /\ FewerFly(b, c) /\ OffersSingle(c)
         /\ \A s, what : Is(Head(b[x]), s, what) => Flies(b, s, what)
         /\ \A s \in Sessions : Is(Head(b[x]), s, "offer") \/ Is(Head(b[x]), s, "answer") => ~Flies(c, s, "offer")
<1>1. \A y \in Slots : Thin(b[y], c[y])
  BY ThinTail
<1>2. FewerFly(b, c) /\ OffersSingle(c)
  BY <1>1, ThinCarried
<1>3. \A s, what : Is(Head(b[x]), s, what) => Flies(b, s, what)
  BY ThinTail DEF Flies
<1>4. ASSUME NEW s \in Sessions, Is(Head(b[x]), s, "answer") PROVE ~Flies(c, s, "offer")
  BY <1>2, <1>3, <1>4 DEF OffersSingle, FewerFly
<1>5. ASSUME NEW s \in Sessions, Is(Head(b[x]), s, "offer") PROVE ~Flies(c, s, "offer")
  <2>1. Single(b, s) /\ Has(b[x], s, "offer")
    BY <1>5, ThinTail DEF OffersSingle
  <2>2. ~Has(c[x], s, "offer")
    BY <1>5, <2>1, ThinTail DEF Single
  <2>3. \A y \in Slots \ {x} : ~Has(c[y], s, "offer")
    BY <1>1, <2>1 DEF Single, Thin
  <2> QED BY <2>2, <2>3 DEF Flies
<1> QED BY <1>2, <1>3, <1>4, <1>5

(* One more at x.                                                          *)
Gains(b, c, x, m) ==
  b[x] \in Seq(Messages) /\ c[x] = b[x] \o <<m>> /\ \A y \in Slots \ {x} : c[y] = b[y]
MoreFly(b, c, m) == \A s, what : Flies(c, s, what) <=> Flies(b, s, what) \/ Is(m, s, what)

LEMMA MoreCarried ==
  ASSUME NEW b, NEW c, NEW x \in Slots, NEW m \in Signals, Gains(b, c, x, m),
         OffersSingle(b), ~Flies(b, m.session, "offer"),
         m.what = "offer" => ~Flies(b, m.session, "answer")
  PROVE  OffersSingle(c) /\ MoreFly(b, c, m)
<1>1. m \in Messages /\ \A s, what : Is(m, s, what) <=> s = m.session /\ what = m.what
  BY DEF Signals, Messages, Is
<1>2. b[x] \in Seq(Messages) /\ c[x] = b[x] \o <<m>> /\ \A y \in Slots \ {x} : c[y] = b[y]
  BY DEF Gains
<1>3. /\ \A s, what : Has(c[x], s, what) <=> Has(b[x], s, what) \/ Is(m, s, what)
      /\ \A s : Once(b[x], s) /\ (Is(m, s, "offer") => ~Has(b[x], s, "offer")) => Once(c[x], s)
  BY <1>1, <1>2, OneMore
<1>4. \A s, what : Flies(c, s, what) <=> Flies(b, s, what) \/ Is(m, s, what)
  BY <1>2, <1>3 DEF Flies
<1>5. ASSUME NEW s \in Sessions PROVE Single(c, s)
  <2>1. Single(b, s)
    BY DEF OffersSingle
  <2>2. CASE Is(m, s, "offer")
    <3>1. \A y \in Slots : ~Has(b[y], s, "offer")
      BY <1>1, <2>2 DEF Flies
    <3> QED BY <1>2, <1>3, <2>1, <3>1 DEF Single
  <2>3. CASE ~Is(m, s, "offer")
    BY <1>2, <1>3, <2>1, <2>3 DEF Single
  <2> QED BY <2>2, <2>3
<1>6. ASSUME NEW s \in Sessions, Flies(c, s, "answer"), Flies(c, s, "offer") PROVE FALSE
  BY <1>1, <1>4, <1>6 DEF OffersSingle
<1> QED BY <1>4, <1>5, <1>6 DEF OffersSingle, MoreFly

-----------------------------------------------------------------------------
(* What the service and the connections to it do to what is carried.       *)
LEMMA CarriedAt ==
  ASSUME NEW e \in Ends
  PROVE  /\ <<"sent", e>> \in Slots /\ <<"relaying", e>> \in Slots /\ <<"queue", e>> \in Slots
         /\ Carried[<<"sent", e>>] = sent[e] /\ Carried[<<"queue", e>>] = queue[e]
         /\ Carried[<<"relaying", e>>] = IF Relaying(e) THEN <<relaying[e].signal>> ELSE <<>>
BY DEF Slots, Carried

LEMMA EverySlot ==
  \A x \in Slots : \E e \in Ends : x = <<"sent", e>> \/ x = <<"relaying", e>> \/ x = <<"queue", e>>
BY DEF Slots

LEMMA CarriedTyped == ASSUME ServiceTyped PROVE \A x \in Slots : Carried[x] \in Seq(Messages)
<1>1. ASSUME NEW e \in Ends, Relaying(e) PROVE <<relaying[e].signal>> \in Seq(Messages)
  <2>1. relaying[e].signal \in Messages
    BY <1>1 DEF ServiceTyped, Relaying, Messages
  <2> QED BY <2>1
<1>2. ASSUME NEW e \in Ends
      PROVE  /\ Carried[<<"sent", e>>] \in Seq(Messages) /\ Carried[<<"queue", e>>] \in Seq(Messages)
             /\ Carried[<<"relaying", e>>] \in Seq(Messages)
  <2>1. <<>> \in Seq(Messages)
    OBVIOUS
  <2> QED BY <1>1, <2>1, CarriedAt DEF ServiceTyped
<1> QED BY <1>2, EverySlot

LEMMA ThinService ==
  ASSUME \A e \in Ends : Thin(sent[e], sent'[e]) /\ Thin(queue[e], queue'[e]),
         \A e \in Ends : relaying'[e] = relaying[e] \/ relaying'[e] = NotRelaying
  PROVE  \A x \in Slots : Thin(Carried[x], Carried'[x])
<1> SUFFICES ASSUME NEW x \in Slots PROVE Thin(Carried[x], Carried'[x])
  OBVIOUS
<1>1. PICK e \in Ends : x = <<"sent", e>> \/ x = <<"relaying", e>> \/ x = <<"queue", e>>
  BY EverySlot
<1>2. /\ Carried'[<<"sent", e>>] = sent'[e] /\ Carried'[<<"queue", e>>] = queue'[e]
      /\ Carried'[<<"relaying", e>>] = IF relaying'[e] # NotRelaying THEN <<relaying'[e].signal>> ELSE <<>>
  BY CarriedAt DEF Carried, Relaying
<1>3. Carried'[<<"relaying", e>>] = Carried[<<"relaying", e>>] \/ Carried'[<<"relaying", e>>] = <<>>
  BY <1>2, CarriedAt DEF Relaying
<1> QED BY <1>1, <1>2, <1>3, CarriedAt, ThinNothing

Lost == FewerFly(Carried, Carried') /\ OffersSingle(Carried')

LEMMA ThinLoses ==
  ASSUME \A e \in Ends : Thin(sent[e], sent'[e]) /\ Thin(queue[e], queue'[e]),
         \A e \in Ends : relaying'[e] = relaying[e] \/ relaying'[e] = NotRelaying,
         OffersSingle(Carried)
  PROVE  Lost
BY ThinService, ThinCarried DEF Lost

LEMMA NoticesPlain ==
  ASSUME NEW ids \in SUBSET Peers
  PROVE  Notices(ids) \in Seq(Messages) /\ Plain(Notices(ids))
<1> DEFINE seq == SetToSeq(ids)
<1>1. IsFiniteSet(ids)
  BY RendezvousAssumption, FS_Subset
<1>2. Cardinality(ids) \in Nat /\ \E f \in [1..Cardinality(ids) -> ids] : IsInjective(f)
  BY <1>1, FS_CardinalityType DEF ExistsBijection, Bijection, Injection
<1>3. seq \in [1..Cardinality(ids) -> ids]
  BY <1>2 DEF SetToSeq
<1> HIDE DEF seq
<1>4. Notices(ids) = [i \in 1..Cardinality(ids) |-> Reachable(seq[i])]
  BY <1>3 DEF Notices, seq
<1>5. \A i \in 1..Cardinality(ids) : Reachable(seq[i]) \in Messages /\ Reachable(seq[i]).kind # "signal"
  BY <1>3 DEF Reachable, Messages
<1> QED BY <1>2, <1>4, <1>5, IsASeq DEF Plain

LEMMA QueuesPlain ==
  ASSUME ServiceTyped, NEW ms, \A f \in Ends : ms[f] \in Seq(Messages) /\ Plain(ms[f]), Queues(ms)
  PROVE  queue' \in [Ends -> Seq(Messages)] /\ \A f \in Ends : Thin(queue[f], queue'[f])
<1>1. ASSUME NEW f \in Ends PROVE queue[f] \in Seq(Messages) /\ queue[f] \o ms[f] \in Seq(Messages) /\ Thin(queue[f], queue[f] \o ms[f])
  BY Joined, ThinJoined DEF ServiceTyped
<1> QED BY <1>1, ThinNothing DEF Queues

LEMMA OnlyPlain ==
  ASSUME NEW e, NEW m \in Messages, m.kind # "signal"
  PROVE  \A f \in Ends : Only(e, m)[f] \in Seq(Messages) /\ Plain(Only(e, m)[f])
BY DEF Only, Plain

(* Nothing is carried that was not before.                                 *)
LEMMA ServiceSame ==
  ASSUME ServiceTyped, OffersSingle(Carried), UNCHANGED <<sent, announced, subscribed, queue, relaying>>
  PROVE  /\ Lost
         /\ UNCHANGED <<watched, work>> => ServiceTyped'
BY ThinNothing, ThinLoses DEF ServiceTyped, Lost

LEMMA DialsLoses ==
  ASSUME ServiceTyped, OffersSingle(Carried), NEW p, NEW says \in Seq(Messages), Plain(says),
         Dials(p, says), UNCHANGED <<watched, work>>
  PROVE  Lost /\ ServiceTyped'
<1>1. UNCHANGED <<announced, subscribed, queue, relaying>> /\ \E e : sent' = [sent EXCEPT ![e] = says]
  BY DEF Dials
<1>2. ServiceTyped'
  BY <1>1 DEF ServiceTyped
<1>3. \A e \in Ends : Thin(sent[e], sent'[e]) /\ Thin(queue[e], queue'[e])
  BY <1>1, ThinNothing, ThinPlain DEF ServiceTyped
<1> QED BY <1>1, <1>2, <1>3, ThinLoses

LEMMA SaysLoses ==
  ASSUME ServiceTyped, OffersSingle(Carried), NEW p, NEW ms \in Seq(Messages), Plain(ms),
         Says(p, ms), UNCHANGED service
  PROVE  /\ Lost
         /\ work' = work /\ watched' \in [Peers -> SUBSET Peers] => ServiceTyped'
<1>1. UNCHANGED <<announced, subscribed, queue, relaying>>
  BY DEF service
<1>2. sent' = sent \/ \E e : sent' = [sent EXCEPT ![e] = @ \o ms]
  BY DEF Says
<1>3. \A e \in Ends : sent[e] \o ms \in Seq(Messages) /\ Thin(sent[e], sent[e] \o ms)
  BY Joined, ThinJoined DEF ServiceTyped
<1>4. \A e \in Ends : Thin(sent[e], sent'[e]) /\ Thin(queue[e], queue'[e])
  BY <1>1, <1>2, <1>3, ThinNothing DEF ServiceTyped
<1>5. sent' \in [Ends -> Seq(Messages)]
  BY <1>2, <1>3 DEF ServiceTyped
<1>6. Lost
  <2>1. \A e \in Ends : relaying'[e] = relaying[e]
    BY <1>1
  <2> QED BY <1>4, <2>1, ThinLoses
<1>7. work' = work /\ watched' \in [Peers -> SUBSET Peers] => ServiceTyped'
  BY <1>1, <1>5 DEF ServiceTyped
<1> QED BY <1>6, <1>7

LEMMA OverflowLoses ==
  ASSUME ServiceTyped, OffersSingle(Carried), NEW e, Overflow(e), UNCHANGED <<watched, work>>
  PROVE  Lost /\ ServiceTyped'
<1>1. /\ UNCHANGED <<sent, announced, subscribed, relaying>> /\ queue[e] # <<>>
      /\ queue' = [queue EXCEPT ![e] = Front(queue[e])]
  BY DEF Overflow
<1>2. e \in Ends => Front(queue[e]) \in Seq(Messages) /\ Thin(queue[e], Front(queue[e]))
  BY <1>1, ThinFront DEF ServiceTyped
<1>3. queue' \in [Ends -> Seq(Messages)] /\ \A f \in Ends : Thin(queue[f], queue'[f]) /\ Thin(sent[f], sent'[f])
  BY <1>1, <1>2, ThinNothing DEF ServiceTyped
<1> QED BY <1>1, <1>3, ThinLoses DEF ServiceTyped

LEMMA ForgetLoses ==
  ASSUME ServiceTyped, OffersSingle(Carried), NEW e, Forget(e), UNCHANGED <<watched, work>>
  PROVE  Lost /\ ServiceTyped'
<1>1. /\ sent' = [sent EXCEPT ![e] = <<>>] /\ queue' = [queue EXCEPT ![e] = <<>>] /\ relaying' = relaying
      /\ announced' = [announced EXCEPT ![e] = {}] /\ subscribed' = [subscribed EXCEPT ![e] = {}]
  BY DEF Forget
<1>2. <<>> \in Seq(Messages)
  OBVIOUS
<1>3. /\ sent' \in [Ends -> Seq(Messages)] /\ queue' \in [Ends -> Seq(Messages)]
      /\ announced' \in [Ends -> SUBSET Peers] /\ subscribed' \in [Ends -> SUBSET Peers]
  BY <1>1, <1>2 DEF ServiceTyped
<1>4. \A f \in Ends : Thin(sent[f], sent'[f]) /\ Thin(queue[f], queue'[f])
  BY <1>1, ThinNothing DEF ServiceTyped
<1> QED BY <1>1, <1>3, <1>4, ThinLoses DEF ServiceTyped

(* A signal goes from one place to another.                                *)
LEMMA MoveLoses ==
  ASSUME ServiceTyped, OffersSingle(Carried), NEW x \in Slots, NEW y \in Slots, x # y, NEW m \in Signals,
         Carried[x] # <<>>, Head(Carried[x]) \in Signals,
         Head(Carried[x]).session = m.session, Head(Carried[x]).what = m.what,
         Carried'[x] = Tail(Carried[x]), Carried'[y] = Carried[y] \o <<m>>,
         \A z \in Slots \ {x, y} : Carried'[z] = Carried[z]
  PROVE  Lost
<1> DEFINE a == [Carried EXCEPT ![x] = Tail(Carried[x])]
           h == Head(Carried[x])
<1>1. /\ a[x] = Tail(Carried[x]) /\ \A z \in Slots \ {x} : a[z] = Carried[z]
  BY DEF Carried
<1>2. Carried[x] \in Seq(Messages) /\ a[y] \in Seq(Messages) /\ \A z \in Slots \ {x} : Thin(Carried[z], a[z])
  BY <1>1, CarriedTyped, ThinNothing
<1> HIDE DEF a
<1>3. /\ FewerFly(Carried, a) /\ OffersSingle(a)
      /\ \A s, what : Is(h, s, what) => Flies(Carried, s, what)
      /\ \A s \in Sessions : Is(h, s, "offer") \/ Is(h, s, "answer") => ~Flies(a, s, "offer")
  BY <1>1, <1>2, TakenCarried
<1>4. m.session \in Sessions /\ m.what \in {"offer", "answer"} /\ Is(h, m.session, m.what)
  BY DEF Signals, Is
<1>5. ~Flies(a, m.session, "offer")
  BY <1>3, <1>4
<1>6. m.what = "offer" => ~Flies(a, m.session, "answer")
  BY <1>3, <1>4 DEF OffersSingle, FewerFly
<1>7. Carried'[y] = a[y] \o <<m>> /\ \A z \in Slots \ {y} : Carried'[z] = a[z]
  BY <1>1
<1>8. Gains(a, Carried', y, m)
  BY <1>2, <1>7 DEF Gains
<1>9. OffersSingle(Carried') /\ MoreFly(a, Carried', m)
  BY <1>3, <1>5, <1>6, <1>8, MoreCarried
<1>10. \A s, what : Is(m, s, what) => Flies(Carried, s, what)
  BY <1>3, <1>4 DEF Is
<1> QED BY <1>3, <1>9, <1>10 DEF Lost, FewerFly, MoreFly

LEMMA RelayLoses ==
  ASSUME ServiceTyped, OffersSingle(Carried), NEW e \in Ends, Relay(e), UNCHANGED <<watched, work>>
  PROVE  Lost /\ ServiceTyped'
<1> DEFINE to == relaying[e].to
           signal == relaying[e].signal
           there == Only(e, Unreachable(signal.peer))
           m == Signal(Whose(e), signal.session, signal.what)
<1>1. /\ Relaying(e) /\ relaying' = [relaying EXCEPT ![e] = NotRelaying]
      /\ UNCHANGED <<sent, announced, subscribed>>
      /\ Queues(IF to \in {NoEnd, e} THEN there ELSE Only(to, m))
  BY DEF Relay
<1>2. signal \in Signals /\ m \in Signals /\ Unreachable(signal.peer) \in Messages
  BY <1>1 DEF ServiceTyped, Relaying, Signals, Messages, Signal, Unreachable, Ends, Whose
<1>3. relaying'[e] = NotRelaying /\ \A f \in Ends \ {e} : relaying'[f] = relaying[f]
  BY <1>1 DEF ServiceTyped
<1>4. relaying' = [f \in Ends |-> relaying'[f]] /\ \A f \in Ends : relaying'[f] = NotRelaying \/ relaying'[f].signal \in Signals
  BY <1>1, <1>3 DEF ServiceTyped
<1>5. CASE to \in {NoEnd, e}
  <2>1. \A f \in Ends : there[f] \in Seq(Messages) /\ Plain(there[f])
    BY <1>2, OnlyPlain DEF Unreachable
  <2>2. Queues(there)
    BY <1>1, <1>5
  <2> HIDE DEF there
  <2>3. queue' \in [Ends -> Seq(Messages)] /\ \A f \in Ends : Thin(queue[f], queue'[f])
    BY <2>1, <2>2, QueuesPlain
  <2> QED BY <1>1, <1>3, <1>4, <2>3, ThinNothing, ThinLoses DEF ServiceTyped
<1>6. CASE to \notin {NoEnd, e}
  <2>1. Queues(Only(to, m))
    BY <1>1, <1>6
  <2>2. \A f \in Ends : queue'[f] = queue[f] \/ queue'[f] = queue[f] \o <<>> \/ (f = to /\ queue'[f] = queue[f] \o <<m>>)
    BY <2>1 DEF Queues, Only
  <2>3. \A f \in Ends : queue[f] \in Seq(Messages) /\ queue[f] \o <<>> = queue[f]
    BY DEF ServiceTyped
  <2>4. \A f \in Ends : queue'[f] = queue[f] \/ (f = to /\ queue'[f] = queue[f] \o <<m>>)
    BY <2>2, <2>3
  <2>5. queue' \in [Ends -> Seq(Messages)]
    <3>1. m \in Messages
      BY <1>2 DEF Messages
    <3>2. \A f \in Ends : queue[f] \o <<m>> \in Seq(Messages)
      BY <2>3, <3>1, OneMore
    <3>3. queue' = [f \in Ends |-> queue'[f]]
      BY <2>1 DEF Queues
    <3> QED BY <2>3, <2>4, <3>2, <3>3
  <2>6. ServiceTyped'
    BY <1>1, <1>4, <2>5 DEF ServiceTyped
  <2>7. CASE queue' = queue
    BY <1>1, <1>3, <2>6, <2>7, ThinNothing, ThinLoses DEF ServiceTyped
  <2>8. CASE queue' # queue
    <3>1. to \in Ends /\ queue'[to] = queue[to] \o <<m>> /\ \A f \in Ends \ {to} : queue'[f] = queue[f]
      <4>1. \E f \in Ends : queue'[f] # queue[f]
        BY <2>5, <2>8 DEF ServiceTyped
      <4> QED BY <2>4, <4>1
    <3> DEFINE x == <<"relaying", e>>
               y == <<"queue", to>>
    <3>2. /\ x \in Slots /\ y \in Slots /\ x # y /\ Carried[x] = <<signal>> /\ Carried'[x] = <<>>
          /\ Carried[y] = queue[to] /\ Carried'[y] = queue'[to]
      BY <1>1, <1>3, <3>1, CarriedAt DEF Carried, Relaying
    <3>3. \A z \in Slots \ {x, y} : Carried'[z] = Carried[z]
      <4>1. ASSUME NEW f \in Ends
            PROVE  /\ Carried'[<<"sent", f>>] = Carried[<<"sent", f>>]
                   /\ f # to => Carried'[<<"queue", f>>] = Carried[<<"queue", f>>]
                   /\ f # e => Carried'[<<"relaying", f>>] = Carried[<<"relaying", f>>]
        <5>1. /\ Carried'[<<"sent", f>>] = sent'[f] /\ Carried'[<<"queue", f>>] = queue'[f]
              /\ Carried'[<<"relaying", f>>] = IF relaying'[f] # NotRelaying THEN <<relaying'[f].signal>> ELSE <<>>
          BY CarriedAt DEF Carried, Relaying
        <5>2. sent'[f] = sent[f] /\ (f # to => queue'[f] = queue[f]) /\ (f # e => relaying'[f] = relaying[f])
          BY <1>1, <1>3, <3>1
        <5> QED BY <5>1, <5>2, CarriedAt DEF Relaying
      <4> QED BY <4>1, EverySlot
    <3>4. Head(<<signal>>) = signal /\ Tail(<<signal>>) = <<>> /\ <<signal>> # <<>>
      OBVIOUS
    <3>5. signal.session = m.session /\ signal.what = m.what
      BY DEF Signal
    <3> HIDE DEF x, y, m, signal
    <3>6. /\ Carried[x] # <<>> /\ Head(Carried[x]) \in Signals
          /\ Head(Carried[x]).session = m.session /\ Head(Carried[x]).what = m.what
          /\ Carried'[x] = Tail(Carried[x]) /\ Carried'[y] = Carried[y] \o <<m>>
      BY <1>2, <3>1, <3>2, <3>4, <3>5
    <3>7. Lost
      BY <1>2, <3>2, <3>3, <3>6, MoveLoses
    <3> QED BY <2>6, <3>7
  <2> QED BY <2>7, <2>8
<1> QED BY <1>5, <1>6

LEMMA ReadLoses ==
  ASSUME ServiceTyped, OffersSingle(Carried), NEW e \in Ends, Read(e), UNCHANGED <<watched, work>>
  PROVE  Lost /\ ServiceTyped'
<1> DEFINE m == Head(sent[e])
<1>1. /\ ~Relaying(e) /\ sent[e] # <<>> /\ sent' = [sent EXCEPT ![e] = Tail(sent[e])]
      /\ \/ m.kind = "announce" /\ Announcing(e, m.ids)
         \/ m.kind = "subscribe" /\ Subscribing(e, m.ids)
         \/ m.kind = "unsubscribe" /\ Unsubscribing(e, m.ids)
         \/ m.kind = "signal" /\ LooksUp(e, m)
  BY DEF Read
<1>2. sent[e] \in Seq(Messages) /\ m \in Messages /\ Tail(sent[e]) \in Seq(Messages) /\ Thin(sent[e], Tail(sent[e]))
  BY <1>1, TailOf, ThinTail DEF ServiceTyped
<1>3. /\ sent' \in [Ends -> Seq(Messages)] /\ sent'[e] = Tail(sent[e])
      /\ \A f \in Ends : Thin(sent[f], sent'[f]) /\ (f # e => sent'[f] = sent[f])
  BY <1>1, <1>2, ThinNothing DEF ServiceTyped
<1>4. m.kind \in {"announce", "subscribe", "unsubscribe"} => m.ids \in SUBSET Peers
  BY <1>2 DEF Messages, Signals
<1>5. m.kind = "signal" => m \in Signals
  BY <1>2 DEF Messages, Signals
<1> HIDE DEF m
<1>6. CASE m.kind = "announce" /\ Announcing(e, m.ids)
  <2> DEFINE news(f) == IF f = e THEN {} ELSE (m.ids \ announced[e]) \cap subscribed[f]
             ms == [f \in Ends |-> Notices(news(f))]
  <2>1. Queues(ms) /\ announced' = [announced EXCEPT ![e] = @ \cup m.ids] /\ UNCHANGED <<subscribed, relaying>>
    BY <1>6 DEF Announcing
  <2>2. ASSUME NEW f \in Ends PROVE ms[f] \in Seq(Messages) /\ Plain(ms[f])
    <3>1. news(f) \in SUBSET Peers
      BY <1>4, <1>6
    <3> HIDE DEF news
    <3> QED BY <3>1, NoticesPlain
  <2> HIDE DEF ms
  <2>3. queue' \in [Ends -> Seq(Messages)] /\ \A f \in Ends : Thin(queue[f], queue'[f])
    BY <2>1, <2>2, QueuesPlain
  <2>4. announced' \in [Ends -> SUBSET Peers]
    BY <1>4, <1>6, <2>1 DEF ServiceTyped
  <2> QED BY <1>3, <2>1, <2>3, <2>4, ThinLoses DEF ServiceTyped
<1>7. CASE m.kind = "subscribe" /\ Subscribing(e, m.ids)
  <2> DEFINE there == {i \in m.ids \ subscribed[e] : \E f \in Ends \ {e} : i \in announced[f]}
             ms == [f \in Ends |-> IF f = e THEN Notices(there) ELSE <<>>]
  <2>1. Queues(ms) /\ subscribed' = [subscribed EXCEPT ![e] = @ \cup m.ids] /\ UNCHANGED <<announced, relaying>>
    BY <1>7 DEF Subscribing
  <2>2. there \in SUBSET Peers /\ <<>> \in Seq(Messages)
    BY <1>4, <1>7
  <2> HIDE DEF there
  <2>3. \A f \in Ends : ms[f] \in Seq(Messages) /\ Plain(ms[f])
    BY <2>2, NoticesPlain, ThinNothing
  <2> HIDE DEF ms
  <2>4. queue' \in [Ends -> Seq(Messages)] /\ \A f \in Ends : Thin(queue[f], queue'[f])
    BY <2>1, <2>3, QueuesPlain
  <2>5. subscribed' \in [Ends -> SUBSET Peers]
    BY <1>4, <1>7, <2>1 DEF ServiceTyped
  <2> QED BY <1>3, <2>1, <2>4, <2>5, ThinLoses DEF ServiceTyped
<1>8. CASE m.kind = "unsubscribe" /\ Unsubscribing(e, m.ids)
  <2>1. subscribed' = [subscribed EXCEPT ![e] = @ \ m.ids] /\ UNCHANGED <<announced, relaying, queue>>
    BY <1>8 DEF Unsubscribing
  <2>2. subscribed' \in [Ends -> SUBSET Peers]
    BY <2>1 DEF ServiceTyped
  <2> QED BY <1>3, <2>1, <2>2, ThinNothing, ThinLoses DEF ServiceTyped
<1>9. CASE m.kind = "signal" /\ LooksUp(e, m)
  <2>1. /\ relaying' = [relaying EXCEPT ![e] = [to |-> found[m.peer], signal |-> m]]
        /\ UNCHANGED <<announced, subscribed, queue>>
    BY <1>9 DEF LooksUp
  <2>2. /\ relaying'[e] = [to |-> found[m.peer], signal |-> m] /\ \A f \in Ends \ {e} : relaying'[f] = relaying[f]
        /\ relaying' = [f \in Ends |-> relaying'[f]]
    BY <2>1 DEF ServiceTyped
  <2>3. relaying'[e].signal = m /\ relaying'[e] # NotRelaying
    <3>1. m.what \in {"offer", "answer"}
      BY <1>5, <1>9 DEF Signals
    <3>2. NotRelaying.signal.what = "nothing"
      BY DEF NotRelaying, Signal
    <3> QED BY <2>2, <3>1, <3>2
  <2>4. ServiceTyped'
    BY <1>3, <1>5, <1>9, <2>1, <2>2, <2>3 DEF ServiceTyped
  <2> DEFINE x == <<"sent", e>>
             y == <<"relaying", e>>
  <2>5. /\ x \in Slots /\ y \in Slots /\ x # y /\ Carried[x] = sent[e] /\ Carried'[x] = sent'[e]
        /\ Carried[y] = <<>> /\ Carried'[y] = <<m>>
    BY <1>1, <2>2, <2>3, CarriedAt DEF Carried, Relaying
  <2>6. \A z \in Slots \ {x, y} : Carried'[z] = Carried[z]
    <3>1. ASSUME NEW f \in Ends
          PROVE  /\ Carried'[<<"queue", f>>] = Carried[<<"queue", f>>]
                 /\ f # e => /\ Carried'[<<"sent", f>>] = Carried[<<"sent", f>>]
                             /\ Carried'[<<"relaying", f>>] = Carried[<<"relaying", f>>]
      BY <1>3, <2>1, <2>2, CarriedAt DEF Carried, Relaying
    <3> QED BY <3>1, EverySlot
  <2>7. <<>> \o <<m>> = <<m>>
    OBVIOUS
  <2> HIDE DEF x, y
  <2>8. Carried[x] # <<>> /\ Head(Carried[x]) = m /\ Carried'[x] = Tail(Carried[x]) /\ Carried'[y] = Carried[y] \o <<m>>
    BY <1>1, <1>3, <2>5, <2>7 DEF m
  <2>9. Lost
    BY <1>5, <1>9, <2>5, <2>6, <2>8, MoveLoses
  <2> QED BY <2>4, <2>9
<1> QED BY <1>1, <1>6, <1>7, <1>8, <1>9

LEMMA ServesLoses ==
  ASSUME ServiceTyped, OffersSingle(Carried), NEW e \in Ends, Serves(e), UNCHANGED <<watched, work>>
  PROVE  Lost /\ ServiceTyped'
<1>1. CASE EndSlow(e)
  BY <1>1, ServiceSame DEF EndSlow
<1> QED BY <1>1, ReadLoses, RelayLoses, ForgetLoses DEF Serves

-----------------------------------------------------------------------------
(* Names of sessions.                                                      *)
LEMMA SessionsAreNone == NoSession \notin Sessions /\ NoConn.session = NoSession
BY RendezvousAssumption DEF NoSession, Sessions, None, NoConn

LEMMA SpareIsFresh ==
  ASSUME NEW p \in Peers, NEW s \in Spare(p)
  PROVE  /\ s \in Sessions
         /\ \A what : ~Flies(Carried, s, what)
         /\ \A x, y \in Peers : Conn(x, y).session # s
<1>1. s \in Sessions /\ ~InFlight(s) /\ \A x, y \in Peers : Conn(x, y).session # s
  BY DEF Spare, Sessions
<1>2. ASSUME NEW e \in Ends, NEW what
      PROVE  /\ ~Has(Carried[<<"sent", e>>], s, what) /\ ~Has(Carried[<<"queue", e>>], s, what)
             /\ ~Has(Carried[<<"relaying", e>>], s, what)
  <2>1. /\ \A i \in DOMAIN sent[e] : ~Mentions(sent[e][i], s)
        /\ \A i \in DOMAIN queue[e] : ~Mentions(queue[e][i], s)
        /\ ~(Relaying(e) /\ relaying[e].signal.session = s)
    BY <1>1 DEF InFlight
  <2>2. ~Has(sent[e], s, what) /\ ~Has(queue[e], s, what)
    BY <2>1 DEF Has, Is, Mentions
  <2>3. Relaying(e) => ~Has(<<relaying[e].signal>>, s, what)
    BY <2>1 DEF Has, Is
  <2> QED BY <2>2, <2>3, CarriedAt, ThinNothing DEF Has
<1> QED BY <1>1, <1>2, EverySlot DEF Flies

LEMMA NewIsSpare ==
  ASSUME NEW p \in Peers, link[p] # NoEnd, NameLeft(p)
  PROVE  NewSession(p) \in Spare(p)
<1> DEFINE T == {s[2] : s \in Spare(p)}
<1>1. Spare(p) # {} /\ \A s \in Spare(p) : s[2] \in Nat
  BY ConnectionsAssumption DEF NameLeft, Spare
<1>2. T \in SUBSET Nat /\ T # {}
  BY <1>1
<1>3. PICK n \in T : \A k \in T : n <= k
  <2> HIDE DEF T
  <2> QED BY <1>2, LeastNumber
<1>4. \E s \in Spare(p) : \A t \in Spare(p) : s[2] <= t[2]
  BY <1>3
<1> QED BY <1>4 DEF NewSession

-----------------------------------------------------------------------------
(* What becomes of connections begun.                                      *)
LEMMA BeganLess ==
  ASSUME NEW b, NEW f, NEW g, Began(b, f),
         \A x, y \in Peers : g[x][y].conn = f[x][y].conn \/ g[x][y].conn = NoConn
  PROVE  Began(b, g)
BY DEF Began

(* The connection of q at p becomes c.                                     *)
Fits(b, f, p, q, c) ==
  /\ ~c.offerer \/ c.stage \notin {"new", "offered"} => ~Flies(b, c.session, "offer")
  /\ c.offerer /\ c.stage = "new" => ~Flies(b, c.session, "offer") /\ ~Flies(b, c.session, "answer")
  /\ \A x, y \in Peers :
       LET d == f[x][y].conn
       IN  ~(x = p /\ y = q) /\ d # NoConn /\ d.session = c.session =>
             /\ ~(c.offerer /\ d.offerer)
             /\ c.offerer /\ ~d.offerer => c.stage # "new"
             /\ ~c.offerer /\ d.offerer => d.stage # "new"

LEMMA BeganSet ==
  ASSUME NEW b, NEW f, NEW g, Began(b, f), NEW p \in Peers, NEW q \in Peers, NEW c,
         g[p][q].conn = c, \A x, y \in Peers : ~(x = p /\ y = q) => g[x][y].conn = f[x][y].conn,
         c # NoConn => Fits(b, f, p, q, c), c.offerer \in BOOLEAN
  PROVE  Began(b, g)
<1> SUFFICES ASSUME NEW v \in Peers, NEW w \in Peers, g[v][w].conn # NoConn
             PROVE  LET e == g[v][w].conn
                    IN  /\ ~e.offerer \/ e.stage \notin {"new", "offered"} => ~Flies(b, e.session, "offer")
                        /\ e.offerer /\ e.stage = "new" => ~Flies(b, e.session, "offer") /\ ~Flies(b, e.session, "answer")
                        /\ \A x, y \in Peers :
                             LET d == g[x][y].conn
                             IN  d.session = e.session /\ d # NoConn /\ e.offerer =>
                                   /\ d.offerer => x = v /\ y = w
                                   /\ ~d.offerer => e.stage # "new"
  BY DEF Began
<1>1. CASE v = p /\ w = q
  BY <1>1 DEF Fits
<1>2. CASE ~(v = p /\ w = q)
  <2>1. g[v][w].conn = f[v][w].conn
    BY <1>2
  <2>2. /\ ~g[v][w].conn.offerer \/ g[v][w].conn.stage \notin {"new", "offered"} => ~Flies(b, g[v][w].conn.session, "offer")
        /\ g[v][w].conn.offerer /\ g[v][w].conn.stage = "new" =>
             ~Flies(b, g[v][w].conn.session, "offer") /\ ~Flies(b, g[v][w].conn.session, "answer")
    BY <2>1 DEF Began
  <2>3. ASSUME NEW x \in Peers, NEW y \in Peers, g[x][y].conn.session = g[v][w].conn.session, g[x][y].conn # NoConn,
               g[v][w].conn.offerer
        PROVE  /\ g[x][y].conn.offerer => x = v /\ y = w
               /\ ~g[x][y].conn.offerer => g[v][w].conn.stage # "new"
    <3>1. CASE x = p /\ y = q
      BY <1>2, <2>1, <2>3, <3>1 DEF Fits
    <3>2. CASE ~(x = p /\ y = q)
      BY <2>1, <2>3, <3>2 DEF Began
    <3> QED BY <3>1, <3>2
  <2> QED BY <2>2, <2>3
<1> QED BY <1>1, <1>2

(* It goes on, which only an answer makes it do once it offered.           *)
LEMMA FitsOn ==
  ASSUME NEW b, NEW f, Began(b, f), NEW p \in Peers, NEW q \in Peers, NEW c, f[p][q].conn # NoConn,
         c.session = f[p][q].conn.session, c.offerer = f[p][q].conn.offerer, c.stage # "new",
         f[p][q].conn.offerer /\ f[p][q].conn.stage \in {"new", "offered"} /\ c.stage # "offered"
           => ~Flies(b, c.session, "offer"),
         f[p][q].conn.offerer \in BOOLEAN
  PROVE  Fits(b, f, p, q, c)
<1>1. ~c.offerer \/ c.stage \notin {"new", "offered"} => ~Flies(b, c.session, "offer")
  BY DEF Began
<1>2. ASSUME NEW x \in Peers, NEW y \in Peers, ~(x = p /\ y = q), f[x][y].conn # NoConn, f[x][y].conn.session = c.session
      PROVE  /\ ~(c.offerer /\ f[x][y].conn.offerer)
             /\ ~c.offerer /\ f[x][y].conn.offerer => f[x][y].conn.stage # "new"
  BY <1>2 DEF Began
<1> QED BY <1>1, <1>2 DEF Fits

(* Several are offered, by fresh names.                                    *)
Offering(b, f, g, p, due, name) ==
  /\ \A q \in due \cap Peers :
       /\ g[p][q].conn = Opening(name[q], TRUE)
       /\ \A what : ~Flies(b, name[q], what)
       /\ \A x, y \in Peers : f[x][y].conn.session # name[q]
  /\ \A q, r \in due \cap Peers : name[q] = name[r] => q = r
  /\ \A x, y \in Peers : ~(x = p /\ y \in due) => g[x][y].conn = f[x][y].conn

LEMMA BeganOffering ==
  ASSUME NEW b, NEW f, NEW g, Began(b, f), NEW p \in Peers, NEW due, NEW name,
         Offering(b, f, g, p, due, name)
  PROVE  Began(b, g)
<1> USE DEF Offering
<1>1. \A s : Opening(s, TRUE).offerer = TRUE /\ Opening(s, TRUE).session = s /\ Opening(s, TRUE).stage = "new"
  BY DEF Opening
<1> SUFFICES ASSUME NEW v \in Peers, NEW w \in Peers, g[v][w].conn # NoConn
             PROVE  LET e == g[v][w].conn
                    IN  /\ ~e.offerer \/ e.stage \notin {"new", "offered"} => ~Flies(b, e.session, "offer")
                        /\ e.offerer /\ e.stage = "new" => ~Flies(b, e.session, "offer") /\ ~Flies(b, e.session, "answer")
                        /\ \A x, y \in Peers :
                             LET d == g[x][y].conn
                             IN  d.session = e.session /\ d # NoConn /\ e.offerer =>
                                   /\ d.offerer => x = v /\ y = w
                                   /\ ~d.offerer => e.stage # "new"
  BY DEF Began
<1>2. ASSUME NEW y \in Peers, y \in due
      PROVE  /\ g[p][y].conn.session = name[y] /\ g[p][y].conn.offerer = TRUE /\ g[p][y].conn.stage = "new"
             /\ \A what : ~Flies(b, name[y], what)
             /\ \A x, z \in Peers : f[x][z].conn.session # name[y]
  <2>1. y \in due \cap Peers
    BY <1>2
  <2>2. g[p][y].conn = Opening(name[y], TRUE)
    BY <2>1
  <2>3. \A what : ~Flies(b, name[y], what)
    BY <2>1
  <2>4. \A x, z \in Peers : f[x][z].conn.session # name[y]
    BY <2>1
  <2>5. g[p][y].conn.session = name[y] /\ g[p][y].conn.offerer = TRUE /\ g[p][y].conn.stage = "new"
    BY <2>2 DEF Opening
  <2> QED BY <2>3, <2>4, <2>5
<1>3. CASE v = p /\ w \in due
  <2>1. /\ g[v][w].conn.session = name[w] /\ g[v][w].conn.offerer = TRUE /\ g[v][w].conn.stage = "new"
        /\ \A what : ~Flies(b, name[w], what)
    BY <1>2, <1>3
  <2>2. ASSUME NEW x \in Peers, NEW y \in Peers, g[x][y].conn.session = name[w]
        PROVE  x = v /\ y = w
    <3>1. CASE x = p /\ y \in due
      <4>1. name[y] = name[w]
        BY <1>2, <2>2, <3>1
      <4>2. y \in due \cap Peers /\ w \in due \cap Peers
        BY <1>3, <3>1
      <4> QED BY <1>3, <3>1, <4>1, <4>2
    <3>2. CASE ~(x = p /\ y \in due)
      <4>1. g[x][y].conn = f[x][y].conn
        BY <3>2
      <4>2. f[x][y].conn.session # name[w]
        BY <1>2, <1>3
      <4> QED BY <2>2, <4>1, <4>2
    <3> QED BY <3>1, <3>2
  <2>3. ASSUME NEW x \in Peers, NEW y \in Peers, g[x][y].conn.session = g[v][w].conn.session
        PROVE  x = v /\ y = w
    BY <2>1, <2>2, <2>3
  <2> QED BY <2>1, <2>3
<1>4. CASE ~(v = p /\ w \in due)
  <2>1. g[v][w].conn = f[v][w].conn
    BY <1>4
  <2>2. ASSUME NEW x \in Peers, NEW y \in Peers, g[x][y].conn.session = g[v][w].conn.session
        PROVE  g[x][y].conn = f[x][y].conn
    <3>1. CASE x = p /\ y \in due
      <4>1. f[v][w].conn.session = name[y]
        BY <1>2, <2>1, <2>2, <3>1
      <4> QED BY <1>2, <3>1, <4>1
    <3>2. CASE ~(x = p /\ y \in due)
      BY <3>2
    <3> QED BY <3>1, <3>2
  <2> QED BY <2>1, <2>2 DEF Began
<1> QED BY <1>3, <1>4

(* What is offered or answered is said.                                    *)
LEMMA MoreBegan ==
  ASSUME NEW b, NEW c, NEW f, Began(b, f), NEW m \in Signals,
         MoreFly(b, c, m),
         m.what = "offer" => \A x, y \in Peers :
           f[x][y].conn # NoConn /\ f[x][y].conn.session = m.session => f[x][y].conn.offerer /\ f[x][y].conn.stage = "offered",
         m.what = "answer" => \A x, y \in Peers :
           f[x][y].conn # NoConn /\ f[x][y].conn.session = m.session /\ f[x][y].conn.offerer => f[x][y].conn.stage # "new"
  PROVE  Began(c, f)
<1>1. \A s, what : Is(m, s, what) <=> s = m.session /\ what = m.what
  BY DEF Is, Signals
<1>2. ASSUME NEW v \in Peers, NEW w \in Peers, f[v][w].conn # NoConn
      PROVE  /\ ~f[v][w].conn.offerer \/ f[v][w].conn.stage \notin {"new", "offered"} => ~Flies(c, f[v][w].conn.session, "offer")
             /\ f[v][w].conn.offerer /\ f[v][w].conn.stage = "new" =>
                  ~Flies(c, f[v][w].conn.session, "offer") /\ ~Flies(c, f[v][w].conn.session, "answer")
  BY <1>1, <1>2 DEF Began, MoreFly
<1> QED BY <1>2 DEF Began

-----------------------------------------------------------------------------
(* What is said on a connection.                                           *)
LEMMA Heard ==
  ASSUME NEW c \in Seq(Sayings), c # <<>>
  PROVE  /\ Tail(c) \in Seq(Sayings) /\ Head(c) \in Sayings
         /\ Head(c) \in {"wanted", "unwanted"} => Interests(c) # {}
         /\ \A w : Tellings(c, w) =>
              \/ Tellings(Tail(c), w)
              \/ /\ Interests(Tail(c)) = {} /\ Head(c) \in {"wanted", "unwanted"}
                 /\ Head(c) = "wanted" <=> w
<1> DEFINE d == Tail(c)  n == Len(c)
<1>1. /\ d \in Seq(Sayings) /\ Head(c) \in Sayings /\ Head(c) = c[1]
      /\ n \in Nat \ {0} /\ DOMAIN c = 1..n /\ DOMAIN d = 1..(n - 1)
      /\ \A i \in 1..(n - 1) : d[i] = c[i + 1]
  OBVIOUS
<1> HIDE DEF d, n
<1>2. 1 \in DOMAIN c
  BY <1>1
<1>3. \A i \in DOMAIN d : i \in Nat /\ i + 1 \in DOMAIN c /\ d[i] = c[i + 1]
  BY <1>1
<1>4. \A i \in DOMAIN c : i \in Nat /\ (i # 1 => i - 1 \in DOMAIN d /\ d[i - 1] = c[i] /\ i > 1)
  <2> SUFFICES ASSUME NEW i \in 1..n PROVE i \in Nat /\ (i # 1 => i - 1 \in 1..(n - 1) /\ d[i - 1] = c[i] /\ i > 1)
    BY <1>1
  <2>1. i # 1 => i - 1 \in 1..(n - 1) /\ i > 1 /\ (i - 1) + 1 = i
    BY <1>1
  <2> QED BY <1>1, <2>1
<1>5. \A i \in Interests(d) : i \in Nat /\ i + 1 \in Interests(c)
  BY <1>3 DEF Interests
<1>6. ASSUME NEW w, NEW i \in Interests(c), c[i] = "wanted" <=> w, \A j \in Interests(c) : j <= i
      PROVE  \/ Tellings(d, w)
             \/ /\ Interests(d) = {} /\ Head(c) \in {"wanted", "unwanted"}
                /\ Head(c) = "wanted" <=> w
  <2>1. CASE i = 1
    <3>1. Interests(d) = {}
      <4>1. \A j \in Interests(d) : j \in Nat /\ j + 1 <= 1 /\ j \in DOMAIN d
        BY <1>5, <1>6, <2>1 DEF Interests
      <4>2. \A j \in DOMAIN d : j >= 1
        BY <1>1
      <4>3. \A j \in Interests(d) : FALSE
        BY <4>1, <4>2
      <4> QED BY <4>3
    <3>2. c[1] \in {"wanted", "unwanted"}
      BY <1>6, <2>1 DEF Interests
    <3> QED BY <1>1, <1>6, <2>1, <3>1, <3>2
  <2>2. CASE i # 1
    <3>1. i - 1 \in Interests(d) /\ d[i - 1] = c[i] /\ i \in Nat
      BY <1>4, <2>2 DEF Interests
    <3>2. \A j \in Interests(d) : j <= i - 1
      <4>1. \A j \in Interests(d) : j \in Nat /\ j + 1 <= i
        BY <1>5, <1>6
      <4> QED BY <3>1, <4>1
    <3> QED BY <1>6, <3>1, <3>2 DEF Tellings
  <2> QED BY <2>1, <2>2
<1>7. Head(c) \in {"wanted", "unwanted"} => Interests(c) # {}
  BY <1>1, <1>2 DEF Interests
<1>8. \A w : Tellings(c, w) =>
        \/ Tellings(d, w)
        \/ /\ Interests(d) = {} /\ Head(c) \in {"wanted", "unwanted"}
           /\ Head(c) = "wanted" <=> w
  BY <1>6 DEF Tellings
<1> QED BY <1>1, <1>7, <1>8 DEF d

LEMMA Said ==
  ASSUME NEW c \in Seq(Sayings), NEW m \in Sayings
  PROVE  /\ c \o <<m>> \in Seq(Sayings) /\ Append(c, m) = c \o <<m>> /\ c \o <<>> = c
         /\ m \in {"wanted", "unwanted"} => \A w : (m = "wanted" <=> w) => Tellings(c \o <<m>>, w)
<1> DEFINE d == c \o <<m>>  n == Len(c) + 1
<1>1. /\ d \in Seq(Sayings) /\ Append(c, m) = d /\ c \o <<>> = c
      /\ n \in Nat \ {0} /\ DOMAIN d = 1..n /\ d[n] = m
  OBVIOUS
<1> HIDE DEF d, n
<1>2. \A j \in Interests(d) : j <= n
  BY <1>1 DEF Interests
<1>3. m \in {"wanted", "unwanted"} => n \in Interests(d)
  BY <1>1 DEF Interests
<1> QED BY <1>1, <1>2, <1>3 DEF Tellings, d

-----------------------------------------------------------------------------
(* Of two, what a step does not touch is known as before; nothing is, of   *)
(* those who are not connected.                                            *)
LEMMA KnownStill ==
  ASSUME NEW p, NEW q, Knows(p, q), peer'[p][q] = peer[p][q], peer'[q][p] = peer[q][p],
         channel'[p][q] = channel[p][q]
  PROVE  Knows(p, q)'
BY DEF Knows, Ready, Same, Conn, Wanted

LEMMA NotReadyKnows ==
  ASSUME NEW p, NEW q, peer'[p][q].conn.stage # "ready"
  PROVE  Knows(p, q)'
BY DEF Knows, Ready, Conn

LEMMA ApartKnows ==
  ASSUME NEW p, NEW q, peer'[p][q].conn.stage = "ready" => peer'[p][q].conn.session # peer'[q][p].conn.session
  PROVE  Knows(p, q)'
BY DEF Knows, Ready, Same, Conn

(* What is held of one changes.                                            *)
LEMMA Changing ==
  ASSUME IInv, CInv, NEW p \in Peers, NEW q \in Peers, NEW r, Sets(p, q, r)
  PROVE  /\ peer'[p][q] = r
         /\ \A x, y \in Peers : ~(x = p /\ y = q) => peer'[x][y] = peer[x][y]
BY DEF IInv, Shape, Sets

ChannelsOf(p, q) ==
  /\ channel' \in [Peers -> [Peers -> Seq(Sayings)]]
  /\ \A x, y \in Peers : ~(x = p /\ y = q) /\ ~(x = q /\ y = p) => channel'[x][y] = channel[x][y]

LEMMA Turns ==
  ASSUME IInv, CInv, NEW p \in Peers, NEW q \in Peers, NEW r, Sets(p, q, r), ChannelsOf(p, q),
         r.conn = NoConn \/ r.conn.session \in Sessions,
         q # p => Knows(p, q)' /\ Knows(q, p)'
  PROVE  ConnTyped' /\ JInv'
<1>1. /\ peer'[p][q] = r
      /\ \A x, y \in Peers : ~(x = p /\ y = q) => peer'[x][y] = peer[x][y]
  BY Changing
<1>2. ConnTyped'
  <2>1. \A x, y \in Peers : peer'[x][y].conn # NoConn => peer'[x][y].conn.session \in Sessions
    BY <1>1 DEF CInv, SInv, ConnTyped, Conn
  <2> QED BY <2>1 DEF ConnTyped, Conn, ChannelsOf
<1>3. ASSUME NEW x \in Peers, NEW y \in Others(x) PROVE Knows(x, y)'
  <2>1. y \in Peers /\ x # y /\ Knows(x, y)
    BY <1>3 DEF CInv, JInv, Others
  <2>2. CASE x = p /\ y = q
    BY <2>1, <2>2
  <2>3. CASE x = q /\ y = p
    BY <2>1, <2>3
  <2>4. CASE ~(x = p /\ y = q) /\ ~(x = q /\ y = p)
    <3>1. /\ peer'[x][y] = peer[x][y] /\ peer'[y][x] = peer[y][x]
          /\ channel'[x][y] = channel[x][y]
      BY <1>1, <2>1, <2>4 DEF ChannelsOf
    <3> QED BY <2>1, <3>1, KnownStill
  <2> QED BY <2>2, <2>3, <2>4
<1>4. JInv'
  BY <1>3 DEF JInv, Others
<1> QED BY <1>2, <1>4

(* The same, as nothing is carried that was not.                           *)
LEMMA TurnsFitting ==
  ASSUME IInv, CInv, Lost, ServiceTyped', NEW p \in Peers, NEW q \in Peers, NEW r, Sets(p, q, r), ChannelsOf(p, q),
         r.conn.offerer \in BOOLEAN,
         r.conn # NoConn => r.conn.session \in Sessions /\ Fits(Carried', peer, p, q, r.conn),
         q # p => Knows(p, q)' /\ Knows(q, p)'
  PROVE  CInv'
<1>1. Began(Carried', peer)
  BY FewerBegan DEF CInv, EInv, Lost
<1>2. /\ peer'[p][q].conn = r.conn
      /\ \A x, y \in Peers : ~(x = p /\ y = q) => peer'[x][y].conn = peer[x][y].conn
  BY Changing
<1>3. Began(Carried', peer')
  BY <1>1, <1>2, BeganSet
<1>4. ConnTyped' /\ JInv'
  BY Turns
<1> QED BY <1>3, <1>4 DEF CInv, SInv, EInv, Lost

-----------------------------------------------------------------------------
(* The connection ends, and what was to come on it does not.               *)
LEMMA Clearing ==
  ASSUME ConnTyped, NEW p \in Peers, NEW q \in Peers,
         channel' = channel \/ channel' = [channel EXCEPT ![q][p] = <<>>]
  PROVE  ChannelsOf(p, q)
<1>1. <<>> \in Seq(Sayings)
  OBVIOUS
<1>2. CASE channel' = channel
  BY <1>2 DEF ConnTyped, ChannelsOf
<1>3. CASE channel' = [channel EXCEPT ![q][p] = <<>>]
  <2> DEFINE row == [channel[q] EXCEPT ![p] = <<>>]
  <2>1. row \in [Peers -> Seq(Sayings)] /\ \A y \in Peers \ {p} : row[y] = channel[q][y]
    BY <1>1 DEF ConnTyped
  <2>2. channel' = [channel EXCEPT ![q] = row]
    BY <1>3
  <2> HIDE DEF row
  <2> QED BY <2>1, <2>2 DEF ConnTyped, ChannelsOf
<1> QED BY <1>2, <1>3

LEMMA ConnFacts ==
  ASSUME IInv, CInv, NEW p \in Peers, NEW q \in Peers
  PROVE  /\ IsRecord(peer[p][q]) /\ Conn(p, q).offerer \in BOOLEAN /\ Wanted(p, q) \in BOOLEAN
         /\ Conn(p, q) # NoConn => Conn(p, q).session \in Sessions
         /\ Conn(p, q).stage # "none" => Conn(p, q) # NoConn
BY NoConnIsConn DEF IInv, Remembers, CInv, SInv, ConnTyped, IsRecord, IsConn, Conn, Wanted

LEMMA TurnsAway ==
  ASSUME IInv, CInv, Lost, ServiceTyped', NEW p \in Peers, NEW q \in Peers, NEW r, Sets(p, q, r),
         channel' = channel \/ channel' = [channel EXCEPT ![q][p] = <<>>],
         r.conn = NoConn
  PROVE  CInv'
<1>1. peer'[p][q] = r /\ \A x, y \in Peers : ~(x = p /\ y = q) => peer'[x][y] = peer[x][y]
  BY Changing
<1>2. NoConn.stage = "none" /\ NoConn.session = NoSession /\ NoSession \notin Sessions /\ NoConn.offerer \in BOOLEAN
  BY SessionsAreNone DEF NoConn
<1>3. Knows(p, q)'
  BY <1>1, <1>2, NotReadyKnows
<1>4. ASSUME q # p PROVE Knows(q, p)'
  <2>1. peer'[q][p].conn = Conn(q, p)
    BY <1>1, <1>4 DEF Conn
  <2>2. peer'[q][p].conn.stage = "ready" => peer'[q][p].conn.session \in Sessions
    BY <2>1, ConnFacts
  <2> QED BY <1>1, <1>2, <2>2, ApartKnows
<1>5. ChannelsOf(p, q)
  BY Clearing DEF CInv, SInv
<1> QED BY <1>2, <1>3, <1>4, <1>5, TurnsFitting

(* It begins.                                                              *)
LEMMA TurnsTo ==
  ASSUME IInv, CInv, Lost, ServiceTyped', NEW p \in Peers, NEW q \in Peers, NEW r, Sets(p, q, r),
         channel' = channel \/ channel' = [channel EXCEPT ![q][p] = <<>>],
         NEW s \in Sessions, NEW offerer \in BOOLEAN, r.conn = Opening(s, offerer),
         Fits(Carried', peer, p, q, r.conn),
         Ready(q, p) => Conn(q, p).session # s
  PROVE  CInv'
<1>1. peer'[p][q] = r /\ \A x, y \in Peers : ~(x = p /\ y = q) => peer'[x][y] = peer[x][y]
  BY Changing
<1>2. r.conn.stage = "new" /\ r.conn.session = s /\ r.conn.offerer \in BOOLEAN
  BY DEF Opening
<1>3. Knows(p, q)'
  BY <1>1, <1>2, NotReadyKnows
<1>4. ASSUME q # p PROVE Knows(q, p)'
  <2>1. peer'[q][p].conn = Conn(q, p)
    BY <1>1, <1>4 DEF Conn
  <2>2. peer'[q][p].conn.stage = "ready" => peer'[q][p].conn.session # s
    BY <2>1 DEF Ready
  <2> QED BY <1>1, <1>2, <2>2, ApartKnows
<1>5. ChannelsOf(p, q)
  BY Clearing DEF CInv, SInv
<1> QED BY <1>2, <1>3, <1>4, <1>5, TurnsFitting

(* With a name of its own.                                                 *)
LEMMA FreshFits ==
  ASSUME Lost, NEW p \in Peers, NEW q \in Peers, NEW s \in Spare(p)
  PROVE  Fits(Carried', peer, p, q, Opening(s, TRUE))
<1>1. /\ \A what : ~Flies(Carried, s, what)
      /\ \A x, y \in Peers : Conn(x, y).session # s
  BY SpareIsFresh
<1>2. \A what : ~Flies(Carried', s, what)
  BY <1>1 DEF Lost, FewerFly
<1>3. Opening(s, TRUE).session = s /\ Opening(s, TRUE).offerer /\ Opening(s, TRUE).stage = "new"
  BY DEF Opening
<1> QED BY <1>1, <1>2, <1>3 DEF Fits, Conn

LEMMA TurnsConnecting ==
  ASSUME IInv, CInv, Lost, ServiceTyped', NEW p \in Peers, NEW q \in Peers, NEW r,
         r.conn = NoConn, IsRecord(r), Sets(p, q, Connecting(p, r)), channel' = channel, NameLeft(p)
  PROVE  CInv'
<1>1. CASE link[p] = NoEnd
  <2> DEFINE t == [r EXCEPT !.retry = TRUE]
  <2>1. Sets(p, q, t)
    BY <1>1 DEF Connecting
  <2>2. t.conn = NoConn
    BY DEF IsRecord
  <2> HIDE DEF t
  <2> QED BY <2>1, <2>2, TurnsAway
<1>2. CASE link[p] # NoEnd
  <2> DEFINE s == NewSession(p)
             t == [r EXCEPT !.retry = FALSE, !.conn = Opening(s, TRUE)]
  <2>1. Sets(p, q, t)
    BY <1>2 DEF Connecting
  <2>2. s \in Spare(p)
    BY <1>2, NewIsSpare
  <2>3. t.conn = Opening(s, TRUE)
    BY DEF IsRecord
  <2> HIDE DEF s, t
  <2>4. s \in Sessions /\ Conn(q, p).session # s
    BY <2>2, SpareIsFresh
  <2>5. Fits(Carried', peer, p, q, t.conn)
    BY <2>2, <2>3, FreshFits
  <2> QED BY <2>1, <2>3, <2>4, <2>5, TurnsTo
<1> QED BY <1>1, <1>2

(* It stays as it is, and so does whether it is wanted unless nobody is    *)
(* ready to hear it.                                                       *)
LEMMA SameFits ==
  ASSUME NEW b, Began(b, peer), NEW p \in Peers, NEW q \in Peers, Conn(p, q) # NoConn
  PROVE  Fits(b, peer, p, q, Conn(p, q))
BY DEF Began, Fits, Conn

LEMMA TurnsStill ==
  ASSUME IInv, CInv, Lost, ServiceTyped', NEW p \in Peers, NEW q \in Peers, NEW r, Sets(p, q, r),
         channel' = channel, r.conn = Conn(p, q), Ready(p, q) => r.wanted = Wanted(p, q)
  PROVE  CInv'
<1>1. peer'[p][q] = r /\ \A x, y \in Peers : ~(x = p /\ y = q) => peer'[x][y] = peer[x][y]
  BY Changing
<1>2. Began(Carried', peer)
  BY FewerBegan DEF CInv, EInv, Lost
<1>3. r.conn.offerer \in BOOLEAN /\ (r.conn # NoConn => r.conn.session \in Sessions)
  BY ConnFacts
<1>4. r.conn # NoConn => Fits(Carried', peer, p, q, r.conn)
  BY <1>2, SameFits
<1>5. ASSUME q # p PROVE Knows(p, q)' /\ Knows(q, p)'
  <2>1. peer'[q][p] = peer[q][p] /\ Knows(p, q) /\ Knows(q, p)
    BY <1>1, <1>5 DEF CInv, JInv, Others
  <2>2. Knows(p, q)'
    BY <1>1, <2>1 DEF Knows, Ready, Same, Conn, Wanted
  <2>3. Knows(q, p)'
    BY <1>1, <2>1 DEF Knows, Ready, Same, Conn, Wanted
  <2> QED BY <2>2, <2>3
<1>6. ChannelsOf(p, q)
  BY Clearing DEF CInv, SInv
<1> QED BY <1>3, <1>4, <1>5, <1>6, TurnsFitting

-----------------------------------------------------------------------------
(* What is sent.                                                           *)
LEMMA Sending ==
  ASSUME ConnTyped, NEW p \in Peers, NEW q \in Peers, NEW m \in Sayings, Sends(p, q, m)
  PROVE  /\ ChannelsOf(p, q)
         /\ q # p => channel'[q][p] = channel[q][p]
         /\ Same(p, q) /\ m \in {"wanted", "unwanted"} => \A w : (m = "wanted" <=> w) => Tellings(channel'[p][q], w)
<1>1. channel[p][q] \in Seq(Sayings)
  BY DEF ConnTyped
<1>2. CASE Same(p, q)
  <2> DEFINE d == channel[p][q] \o <<m>>
  <2>1. d \in Seq(Sayings) /\ Append(channel[p][q], m) = d
    BY <1>1, Said
  <2>2. channel' = [channel EXCEPT ![p][q] = d]
    BY <1>2, <2>1 DEF Sends
  <2>3. m \in {"wanted", "unwanted"} => \A w : (m = "wanted" <=> w) => Tellings(d, w)
    BY <1>1, Said
  <2> HIDE DEF d
  <2>4. channel'[p][q] = d
    BY <2>2 DEF ConnTyped
  <2> QED BY <2>1, <2>2, <2>3, <2>4 DEF ConnTyped, ChannelsOf
<1>3. CASE ~Same(p, q)
  BY <1>3 DEF Sends, ConnTyped, ChannelsOf
<1> QED BY <1>2, <1>3

(* What p wants of q becomes something else, and q is told if it can be.   *)
LEMMA TurnsTelling ==
  ASSUME IInv, CInv, Lost, ServiceTyped', NEW p \in Peers, NEW q \in Others(p), NEW r, Sets(p, q, r),
         r.conn = Conn(p, q), NEW interest \in {"wanted", "unwanted"}, interest = "wanted" <=> r.wanted,
         Tells(p, q, interest)
  PROVE  CInv'
<1>1. CASE ~Ready(p, q)
  BY <1>1, TurnsStill DEF Tells, Others
<1>2. CASE Ready(p, q)
  <2>1. q \in Peers /\ q # p /\ interest \in Sayings /\ Sends(p, q, interest)
    BY <1>2 DEF Others, Sayings, Tells
  <2>2. peer'[p][q] = r /\ \A x, y \in Peers : ~(x = p /\ y = q) => peer'[x][y] = peer[x][y]
    BY <2>1, Changing
  <2>3. Began(Carried', peer)
    BY FewerBegan DEF CInv, EInv, Lost
  <2>4. r.conn.offerer \in BOOLEAN /\ (r.conn # NoConn => r.conn.session \in Sessions)
    BY <2>1, ConnFacts
  <2>5. r.conn # NoConn => Fits(Carried', peer, p, q, r.conn)
    BY <2>1, <2>3, SameFits
  <2>6. /\ ChannelsOf(p, q) /\ channel'[q][p] = channel[q][p]
        /\ Same(p, q) => Tellings(channel'[p][q], r.wanted)
    BY <2>1, Sending DEF CInv, SInv
  <2>7. peer'[q][p] = peer[q][p] /\ Knows(q, p)
    BY <2>1, <2>2 DEF CInv, JInv, Others
  <2>8. Knows(p, q)'
    BY <2>2, <2>6, <2>7 DEF Knows, Same, Conn, Wanted
  <2>9. Knows(q, p)'
    BY <2>2, <2>6, <2>7 DEF Knows, Ready, Same, Conn, Wanted
  <2> QED BY <2>1, <2>4, <2>5, <2>6, <2>8, <2>9, TurnsFitting
<1> QED BY <1>1, <1>2

(* An attempt goes on.                                                     *)
LEMMA GoesOn ==
  ASSUME IInv, CInv, NEW p \in Peers, NEW q \in Peers, NEW r, Sets(p, q, r), ChannelsOf(p, q),
         Conn(p, q).stage \notin {"none", "ready"}, r.conn.stage # "ready",
         r.conn.session = Conn(p, q).session,
         q # p => \A w : Tellings(channel[q][p], w) => Tellings(channel'[q][p], w)
  PROVE  ConnTyped' /\ JInv'
<1>1. peer'[p][q] = r /\ \A x, y \in Peers : ~(x = p /\ y = q) => peer'[x][y] = peer[x][y]
  BY Changing
<1>2. r.conn.session \in Sessions
  BY ConnFacts
<1>3. Knows(p, q)'
  BY <1>1, NotReadyKnows
<1>4. ASSUME q # p PROVE Knows(q, p)'
  <2>1. peer'[q][p] = peer[q][p] /\ Knows(q, p)
    BY <1>1, <1>4 DEF CInv, JInv, Others
  <2>2. Ready(q, p) /\ Same(q, p) => Tellings(channel[q][p], Wanted(q, p))
    BY <2>1 DEF Knows, Ready
  <2>3. Ready(q, p)' /\ Same(q, p)' => Ready(q, p) /\ Same(q, p)
    BY <1>1, <2>1 DEF Ready, Same, Conn
  <2>4. Wanted(q, p)' = Wanted(q, p)
    BY <2>1 DEF Wanted
  <2>5. \A w : Tellings(channel[q][p], w) => Tellings(channel'[q][p], w)
    BY <1>4
  <2> QED BY <2>2, <2>3, <2>4, <2>5 DEF Knows
<1> QED BY <1>2, <1>3, <1>4, Turns

LEMMA TurnsOn ==
  ASSUME IInv, CInv, Lost, ServiceTyped', NEW p \in Peers, NEW q \in Peers, NEW stage, ChannelsOf(p, q),
         Sets(p, q, [peer[p][q] EXCEPT !.conn.stage = stage]),
         Conn(p, q).stage \notin {"none", "new", "ready"}, stage \notin {"none", "new", "offered", "ready"},
         Conn(p, q).offerer /\ Conn(p, q).stage = "offered" => ~Flies(Carried', Conn(p, q).session, "offer"),
         q # p => \A w : Tellings(channel[q][p], w) => Tellings(channel'[q][p], w)
  PROVE  CInv'
<1> DEFINE r == [peer[p][q] EXCEPT !.conn.stage = stage]
<1>1. IsRecord(peer[p][q]) /\ Conn(p, q).offerer \in BOOLEAN /\ Conn(p, q) # NoConn
  BY ConnFacts
<1>2. /\ r.conn.stage = stage /\ r.conn.session = Conn(p, q).session
      /\ r.conn.offerer = Conn(p, q).offerer
  BY <1>1 DEF IsRecord, IsConn, Conn
<1>3. Sets(p, q, r)
  OBVIOUS
<1> HIDE DEF r
<1>4. ConnTyped' /\ JInv'
  BY <1>2, <1>3, GoesOn
<1>5. Began(Carried', peer)
  BY FewerBegan DEF CInv, EInv, Lost
<1>6. Fits(Carried', peer, p, q, r.conn)
  <2>1. peer[p][q].conn = Conn(p, q)
    BY DEF Conn
  <2> QED BY <1>1, <1>2, <1>5, <2>1, FitsOn
<1>7. /\ peer'[p][q].conn = r.conn
      /\ \A x, y \in Peers : ~(x = p /\ y = q) => peer'[x][y].conn = peer[x][y].conn
  BY <1>3, Changing
<1>8. Began(Carried', peer')
  BY <1>1, <1>2, <1>5, <1>6, <1>7, BeganSet
<1> QED BY <1>4, <1>8 DEF CInv, SInv, EInv, Lost

-----------------------------------------------------------------------------
(* Steps that carry nothing.                                               *)
LEMMA Quietly ==
  ASSUME CInv, UNCHANGED <<rendezvous, watched, work>>
  PROVE  Lost /\ ServiceTyped'
BY ServiceSame DEF CInv, SInv, EInv, rendezvous, service

LEMMA Elsewhere ==
  ASSUME CInv, Lost, ServiceTyped', UNCHANGED <<peer, channel>>
  PROVE  CInv'
<1>1. ConnTyped' /\ JInv'
  BY DEF CInv, SInv, JInv, ConnTyped, Knows, Ready, Same, Conn, Wanted
<1>2. Began(Carried', peer)
  BY FewerBegan DEF CInv, EInv, Lost
<1> QED BY <1>1, <1>2 DEF CInv, SInv, EInv, Lost

LEMMA TurnsDropping ==
  ASSUME IInv, CInv, Lost, ServiceTyped', NEW p \in Peers, NEW q \in Peers, NEW r,
         Sets(p, q, r), r.conn = NoConn, Drops(p, q)
  PROVE  CInv'
BY TurnsAway DEF Drops

LEMMA AsksKnow ==
  ASSUME IInv, CInv, NEW p \in Peers, NEW q \in Others(p), Asks(p, q)
  PROVE  CInv'
<1>1. q \in Peers /\ IsRecord(peer[p][q])
  BY ConnFacts DEF Others
<1>2. Lost /\ ServiceTyped'
  <2>1. UNCHANGED <<rendezvous, watched, work>>
    BY DEF Asks, Want, Release, Disconnect
  <2> QED BY <2>1, Quietly
<1>3. CASE Want(p, q)
  <2> DEFINE r == [peer[p][q] EXCEPT !.wanted = TRUE]
             connects == ~Connected(r) /\ ~r.parked /\ ~r.retry
  <2>1. IsRecord(r) /\ r.conn = Conn(p, q) /\ r.wanted
    BY <1>1 DEF IsRecord, Conn
  <2>2. /\ Sets(p, q, IF connects THEN Connecting(p, r) ELSE r) /\ Tells(p, q, "wanted")
        /\ connects => NameLeft(p)
    BY <1>3 DEF Want
  <2> HIDE DEF r
  <2>3. CASE connects
    <3>1. r.conn = NoConn
      BY <2>3 DEF Connected
    <3>2. ~Ready(p, q)
      BY <2>1, <3>1, NoConnIsConn DEF Ready
    <3>3. channel' = channel
      BY <2>2, <3>2 DEF Tells
    <3> QED BY <1>1, <1>2, <2>1, <2>2, <2>3, <3>1, <3>3, TurnsConnecting
  <2>4. CASE ~connects
    BY <1>2, <2>1, <2>2, <2>4, TurnsTelling
  <2> QED BY <2>3, <2>4
<1>4. CASE Release(p, q)
  <2> DEFINE r == [peer[p][q] EXCEPT !.wanted = FALSE, !.retry = FALSE]
  <2>1. r.conn = Conn(p, q) /\ ~r.wanted
    BY <1>1 DEF IsRecord, Conn
  <2>2. Sets(p, q, r) /\ Tells(p, q, "unwanted")
    BY <1>4 DEF Release
  <2> HIDE DEF r
  <2> QED BY <1>2, <2>1, <2>2, TurnsTelling
<1>5. CASE Disconnect(p, q)
  <2> DEFINE r == [Dropped(peer[p][q]) EXCEPT !.wanted = FALSE, !.retry = FALSE]
  <2>1. r.conn = NoConn
    BY <1>1, LossRemembers
  <2>2. Sets(p, q, r) /\ Drops(p, q)
    BY <1>5 DEF Disconnect
  <2> HIDE DEF r
  <2> QED BY <1>1, <1>2, <2>1, <2>2, TurnsDropping
<1> QED BY <1>3, <1>4, <1>5 DEF Asks

LEMMA AgainEnds ==
  ASSUME NEW r, IsRecord(r)
  PROVE  Again(Dropped(r)).conn = NoConn /\ Dropped(r).conn = NoConn
BY DEF Again, Dropped, IsRecord

LEMMA TicksKnow ==
  ASSUME IInv, CInv, NEW p \in Peers, NEW q \in Peers, Tick(p, q)
  PROVE  CInv'
<1>1. IsRecord(peer[p][q])
  BY ConnFacts
<1>2. Lost /\ ServiceTyped'
  <2>1. UNCHANGED <<rendezvous, watched, work>>
    BY DEF Tick, TakesTooLong, Idle, Retry, ForgetPeer
  <2> QED BY <2>1, Quietly
<1>3. CASE TakesTooLong(p, q)
  BY <1>1, <1>2, <1>3, AgainEnds, TurnsDropping DEF TakesTooLong, Fails
<1>4. CASE Idle(p, q)
  BY <1>1, <1>2, <1>4, AgainEnds, TurnsDropping DEF Idle
<1>5. CASE Retry(p, q)
  <2>1. Sets(p, q, Connecting(p, peer[p][q])) /\ channel' = channel /\ NameLeft(p) /\ peer[p][q].conn = NoConn
    BY <1>5 DEF Retry, Connected
  <2> QED BY <1>1, <1>2, <2>1, TurnsConnecting
<1>6. CASE ForgetPeer(p, q)
  <2>1. Sets(p, q, Unknown) /\ channel' = channel /\ Unknown.conn = NoConn
    BY <1>6 DEF ForgetPeer, Unknown
  <2> QED BY <1>2, <2>1, TurnsAway
<1> QED BY <1>3, <1>4, <1>5, <1>6 DEF Tick

LEMMA ReachableKnows ==
  ASSUME IInv, CInv, NEW p \in Peers, HandleReachable(p)
  PROVE  CInv'
<1> DEFINE q == Head(work[p])
           r == [peer[p][q] EXCEPT !.parked = FALSE]
           connects == r.wanted /\ ~Connected(r)
<1>1. work[p] \in Seq(Peers) /\ work[p] # <<>> /\ work' = [work EXCEPT ![p] = Tail(work[p])]
  BY DEF HandleReachable, CInv, SInv, ServiceTyped
<1>2. q \in Peers /\ Tail(work[p]) \in Seq(Peers)
  BY <1>1
<1>3. Lost /\ ServiceTyped'
  <2>1. UNCHANGED <<sent, announced, subscribed, queue, relaying, watched>>
    BY DEF HandleReachable, rendezvous, service
  <2>2. Lost
    BY <2>1, ServiceSame DEF CInv, SInv, EInv
  <2>3. work' \in [Peers -> Seq(Peers)]
    BY <1>1, <1>2 DEF CInv, SInv, ServiceTyped
  <2> QED BY <2>1, <2>2, <2>3 DEF CInv, SInv, ServiceTyped
<1>4. /\ Sets(p, q, IF connects THEN Connecting(p, r) ELSE r) /\ channel' = channel
      /\ connects => NameLeft(p)
  BY DEF HandleReachable
<1>5. IsRecord(r) /\ r.conn = Conn(p, q) /\ r.wanted = Wanted(p, q)
  <2> HIDE DEF q
  <2> QED BY <1>2, ConnFacts DEF IsRecord, Conn, Wanted
<1> HIDE DEF q, r
<1>6. CASE connects
  BY <1>2, <1>3, <1>4, <1>5, <1>6, TurnsConnecting DEF Connected
<1>7. CASE ~connects
  BY <1>2, <1>3, <1>4, <1>5, <1>7, TurnsStill
<1> QED BY <1>6, <1>7

-----------------------------------------------------------------------------
(* What comes on the connection.                                           *)
LEMMA Taking ==
  ASSUME ConnTyped, NEW p \in Peers, NEW q \in Peers, q # p, channel[q][p] # <<>>,
         NEW answer, Takes(p, q, answer),
         answer = <<>> \/ \E m \in Sayings : answer = <<m>>
  PROVE  /\ ChannelsOf(p, q)
         /\ channel'[q][p] = Tail(channel[q][p])
         /\ channel'[p][q] = IF Same(p, q) THEN channel[p][q] \o answer ELSE channel[p][q]
<1> DEFINE c == Tail(channel[q][p])
           d == IF Same(p, q) THEN channel[p][q] \o answer ELSE channel[p][q]
<1>1. c \in Seq(Sayings)
  BY Heard DEF ConnTyped
<1>2. channel[p][q] \in Seq(Sayings)
  BY DEF ConnTyped
<1>3. d \in Seq(Sayings)
  <2>1. channel[p][q] \o <<>> \in Seq(Sayings) /\ \A m \in Sayings : channel[p][q] \o <<m>> \in Seq(Sayings)
    BY <1>2, Said
  <2> QED BY <1>2, <2>1
<1>4. channel' = [channel EXCEPT ![q][p] = c, ![p][q] = d]
  BY DEF Takes, ConnTyped
<1> HIDE DEF c, d
<1>5. /\ \A x \in Peers : x # p /\ x # q => channel'[x] = channel[x]
      /\ channel'[q] = [channel[q] EXCEPT ![p] = c]
      /\ channel'[p] = [channel[p] EXCEPT ![q] = d]
      /\ channel' = [x \in Peers |-> channel'[x]]
  BY <1>4 DEF ConnTyped
<1>6. /\ channel'[q] \in [Peers -> Seq(Sayings)] /\ channel'[q][p] = c
      /\ \A y \in Peers \ {p} : channel'[q][y] = channel[q][y]
  BY <1>1, <1>5 DEF ConnTyped
<1>7. /\ channel'[p] \in [Peers -> Seq(Sayings)] /\ channel'[p][q] = d
      /\ \A y \in Peers \ {q} : channel'[p][y] = channel[p][y]
  BY <1>3, <1>5 DEF ConnTyped
<1>8. channel' \in [Peers -> [Peers -> Seq(Sayings)]]
  BY <1>5, <1>6, <1>7 DEF ConnTyped
<1>9. \A x, y \in Peers : ~(x = p /\ y = q) /\ ~(x = q /\ y = p) => channel'[x][y] = channel[x][y]
  BY <1>5, <1>6, <1>7
<1> QED BY <1>6, <1>7, <1>8, <1>9 DEF ChannelsOf, c, d

(* A connection that both have the descriptions of goes on.                *)
LEMMA BeganOn ==
  ASSUME IInv, CInv, Lost, NEW p \in Peers, NEW q \in Peers, NEW r, Sets(p, q, r),
         Conn(p, q).stage \notin {"none", "new", "offered"}, r.conn.stage # "new",
         r.conn.session = Conn(p, q).session, r.conn.offerer = Conn(p, q).offerer
  PROVE  Began(Carried', peer')
<1>1. Conn(p, q).offerer \in BOOLEAN /\ Conn(p, q) # NoConn /\ peer[p][q].conn = Conn(p, q)
  BY ConnFacts DEF Conn
<1>2. Began(Carried', peer)
  BY FewerBegan DEF CInv, EInv, Lost
<1>3. Fits(Carried', peer, p, q, r.conn)
  BY <1>1, <1>2, FitsOn
<1>4. /\ peer'[p][q].conn = r.conn
      /\ \A x, y \in Peers : ~(x = p /\ y = q) => peer'[x][y].conn = peer[x][y].conn
  BY Changing
<1> QED BY <1>1, <1>2, <1>3, <1>4, BeganSet

LEMMA ProofKnows ==
  ASSUME IInv, CInv, Lost, ServiceTyped', NEW p \in Peers, NEW q \in Others(p),
         channel[q][p] # <<>>, Head(channel[q][p]) = "proof", Proof(p, q),
         Takes(p, q, <<IF Wanted(p, q) THEN "wanted" ELSE "unwanted">>)
  PROVE  CInv'
<1> DEFINE r == [peer[p][q] EXCEPT !.conn.stage = "ready"]
           m == IF Wanted(p, q) THEN "wanted" ELSE "unwanted"
<1>1. q \in Peers /\ q # p /\ IsRecord(peer[p][q]) /\ Wanted(p, q) \in BOOLEAN
  BY ConnFacts DEF Others
<1>2. Sets(p, q, r) /\ Conn(p, q).stage = "proved"
  BY DEF Proof, Moves
<1>3. /\ r.conn.stage = "ready" /\ r.conn.session = Conn(p, q).session
      /\ r.conn.offerer = Conn(p, q).offerer /\ r.wanted = Wanted(p, q)
  BY <1>1 DEF IsRecord, IsConn, Conn, Wanted
<1> HIDE DEF r
<1>4. Conn(p, q) # NoConn /\ Conn(p, q).session \in Sessions
  BY <1>1, <1>2, ConnFacts
<1>5. m \in Sayings /\ m \in {"wanted", "unwanted"} /\ (m = "wanted" <=> Wanted(p, q))
  BY DEF Sayings
<1>6. Takes(p, q, <<m>>)
  OBVIOUS
<1> HIDE DEF m
<1>7. /\ ChannelsOf(p, q)
      /\ channel'[q][p] = Tail(channel[q][p])
      /\ channel'[p][q] = IF Same(p, q) THEN channel[p][q] \o <<m>> ELSE channel[p][q]
  BY <1>1, <1>5, <1>6, Taking DEF CInv, SInv
<1>8. channel[q][p] \in Seq(Sayings) /\ channel[p][q] \in Seq(Sayings)
  BY <1>1 DEF CInv, SInv, ConnTyped
<1>9. peer'[p][q] = r /\ peer'[q][p] = peer[q][p] /\ Knows(q, p)
  <2>1. \A x, y \in Peers : ~(x = p /\ y = q) => peer'[x][y] = peer[x][y]
    BY <1>1, <1>2, Changing
  <2> QED BY <1>1, <1>2, <2>1, Changing DEF CInv, JInv, Others
<1>10. Knows(p, q)'
  <2>1. Same(p, q)' => Same(p, q)
    BY <1>3, <1>4, <1>9 DEF Same, Conn
  <2>2. Same(p, q) => Tellings(channel'[p][q], Wanted(p, q))
    BY <1>5, <1>7, <1>8, Said
  <2>3. Wanted(p, q)' = Wanted(p, q)
    BY <1>3, <1>9 DEF Wanted
  <2> QED BY <2>1, <2>2, <2>3 DEF Knows
<1>11. Knows(q, p)'
  <2>1. Ready(q, p)' /\ Same(q, p)' => Ready(q, p) /\ Same(q, p)
    BY <1>3, <1>9 DEF Ready, Same, Conn
  <2>2. Ready(q, p) /\ Same(q, p) => Tellings(channel[q][p], Wanted(q, p))
    BY <1>2, <1>9 DEF Knows, Ready
  <2>3. \A w : Tellings(channel[q][p], w) => Tellings(channel'[q][p], w)
    BY <1>7, <1>8, Heard
  <2>4. Wanted(q, p)' = Wanted(q, p)
    BY <1>9 DEF Wanted
  <2> QED BY <2>1, <2>2, <2>3, <2>4 DEF Knows
<1>12. ConnTyped' /\ JInv'
  BY <1>1, <1>2, <1>3, <1>4, <1>7, <1>10, <1>11, Turns
<1>13. Began(Carried', peer')
  BY <1>1, <1>2, <1>3, BeganOn
<1> QED BY <1>12, <1>13 DEF CInv, SInv, EInv, Lost

LEMMA InterestKnows ==
  ASSUME IInv, CInv, Lost, ServiceTyped', NEW p \in Peers, NEW q \in Others(p),
         channel[q][p] # <<>>, NEW m, m = Head(channel[q][p]), m \in {"wanted", "unwanted"},
         Interest(p, q, m = "wanted"), Takes(p, q, <<>>)
  PROVE  CInv'
<1> DEFINE wanted == m = "wanted"
           r == [peer[p][q] EXCEPT !.conn.theyWant = wanted]
<1>1. q \in Peers /\ q # p /\ IsRecord(peer[p][q])
  BY ConnFacts DEF Others
<1>2. Sets(p, q, r) /\ Ready(p, q)
  BY DEF Interest
<1>3. /\ r.conn.stage = "ready" /\ r.conn.session = Conn(p, q).session /\ r.conn.theyWant = wanted
      /\ r.conn.offerer = Conn(p, q).offerer /\ r.wanted = Wanted(p, q)
  BY <1>1, <1>2 DEF IsRecord, IsConn, Conn, Wanted, Ready
<1> HIDE DEF r
<1>4. Conn(p, q) # NoConn /\ Conn(p, q).session \in Sessions
  BY <1>1, <1>2, ConnFacts DEF Ready
<1>5. channel[q][p] \in Seq(Sayings) /\ channel[p][q] \in Seq(Sayings)
  BY <1>1 DEF CInv, SInv, ConnTyped
<1>6. channel[p][q] \o <<>> = channel[p][q]
  BY <1>5
<1>7. /\ ChannelsOf(p, q)
      /\ channel'[q][p] = Tail(channel[q][p])
      /\ channel'[p][q] = channel[p][q]
  BY <1>1, <1>6, Taking DEF CInv, SInv
<1>8. peer'[p][q] = r /\ peer'[q][p] = peer[q][p] /\ Knows(q, p) /\ Knows(p, q)
  <2>1. \A x, y \in Peers : ~(x = p /\ y = q) => peer'[x][y] = peer[x][y]
    BY <1>1, <1>2, Changing
  <2> QED BY <1>1, <1>2, <2>1, Changing DEF CInv, JInv, Others
<1>9. Ready(p, q)' /\ (Same(p, q)' <=> Same(p, q)) /\ (Same(q, p)' <=> Same(q, p)) /\ (Ready(q, p)' <=> Ready(q, p))
  BY <1>3, <1>4, <1>8 DEF Ready, Same, Conn, NoConn
<1>10. Knows(p, q)'
  <2>1. Wanted(p, q)' = Wanted(p, q) /\ Conn(q, p)' = Conn(q, p)
    BY <1>3, <1>8 DEF Wanted, Conn
  <2> QED BY <1>2, <1>7, <1>8, <1>9, <2>1 DEF Knows
<1>11. Knows(q, p)'
  <2> SUFFICES ASSUME Ready(q, p)', Same(q, p)'
               PROVE  \/ Tellings(channel'[q][p], Wanted(q, p))
                      \/ Interests(channel'[q][p]) = {} /\ Ready(p, q)' /\ Conn(p, q)'.theyWant = Wanted(q, p)
    BY <1>8 DEF Knows, Wanted
  <2>1. Interests(channel[q][p]) # {}
    BY <1>5, Heard
  <2>2. Tellings(channel[q][p], Wanted(q, p))
    BY <1>8, <1>9, <2>1 DEF Knows
  <2>3. CASE Tellings(channel'[q][p], Wanted(q, p))
    BY <2>3
  <2>4. CASE ~Tellings(channel'[q][p], Wanted(q, p))
    <3>1. Interests(channel'[q][p]) = {} /\ (wanted <=> Wanted(q, p))
      BY <1>5, <1>7, <2>2, <2>4, Heard
    <3>2. Conn(p, q)'.theyWant = wanted
      BY <1>3, <1>8 DEF Conn
    <3>3. Wanted(q, p) \in BOOLEAN /\ wanted \in BOOLEAN
      BY <1>1, ConnFacts
    <3> HIDE DEF wanted
    <3>4. wanted = Wanted(q, p)
      BY <3>1, <3>3
    <3> QED BY <1>9, <3>1, <3>2, <3>4
  <2> QED BY <2>3, <2>4
<1>12. ConnTyped' /\ JInv'
  BY <1>1, <1>2, <1>3, <1>4, <1>7, <1>10, <1>11, Turns
<1>13. Began(Carried', peer')
  BY <1>1, <1>2, <1>3, BeganOn DEF Ready
<1> QED BY <1>12, <1>13 DEF CInv, SInv, EInv, Lost

-----------------------------------------------------------------------------
(* What the WebView says.                                                  *)
LEMMA DescriptionTyped ==
  ASSUME IInv, CInv, NEW p \in Peers, NEW q \in Peers, LocalDescription(p, q)
  PROVE  ConnTyped' /\ JInv' /\ Began(Carried, peer')
<1> DEFINE c == Conn(p, q)
           r == [peer[p][q] EXCEPT !.conn.stage = IF c.offerer THEN "offered" ELSE "settled"]
<1>1. IsRecord(peer[p][q]) /\ c.offerer \in BOOLEAN /\ c.stage = "new" /\ c # NoConn /\ c = peer[p][q].conn
  BY ConnFacts DEF LocalDescription, Conn
<1>2. Sets(p, q, r) /\ channel' = channel
  BY DEF LocalDescription
<1>3. /\ r.conn.stage = IF c.offerer THEN "offered" ELSE "settled"
      /\ r.conn.session = c.session /\ r.conn.offerer = c.offerer
  BY <1>1 DEF IsRecord, IsConn, Conn
<1> HIDE DEF r
<1>4. ChannelsOf(p, q)
  BY <1>2, Clearing DEF CInv, SInv
<1>5. ConnTyped' /\ JInv'
  BY <1>1, <1>2, <1>3, <1>4, GoesOn
<1>6. Fits(Carried, peer, p, q, r.conn)
  BY <1>1, <1>3, FitsOn DEF CInv, EInv
<1>7. /\ peer'[p][q].conn = r.conn
      /\ \A x, y \in Peers : ~(x = p /\ y = q) => peer'[x][y].conn = peer[x][y].conn
  BY <1>2, Changing
<1>8. Began(Carried, peer')
  BY <1>1, <1>3, <1>6, <1>7, BeganSet DEF CInv, EInv
<1> QED BY <1>5, <1>8

LEMMA DescriptionKnows ==
  ASSUME IInv, CInv, NEW p \in Peers, NEW q \in Peers, LocalDescription(p, q)
  PROVE  CInv'
<1> DEFINE c == Conn(p, q)
           m == Signal(q, c.session, IF c.offerer THEN "offer" ELSE "answer")
           e == link[p]
<1>1. /\ c.offerer \in BOOLEAN /\ c.stage = "new" /\ c # NoConn /\ c.session \in Sessions
      /\ c = peer[p][q].conn
  BY ConnFacts DEF LocalDescription, Conn
<1>2. /\ UNCHANGED <<announced, subscribed, queue, relaying, watched, work>>
      /\ sent' = IF Served(p) THEN [sent EXCEPT ![e] = @ \o <<m>>] ELSE sent
  BY DEF LocalDescription, Says, service
<1>3. ConnTyped' /\ JInv' /\ Began(Carried, peer')
  BY DescriptionTyped
<1>4. CASE Served(p) /\ e \in Ends
  <2> DEFINE x == <<"sent", e>>
  <2>1. m \in Signals /\ m \in Messages
    BY <1>1 DEF Signal, Signals, Messages
  <2>2. m.session = c.session /\ m.what = IF c.offerer THEN "offer" ELSE "answer"
    BY DEF Signal
  <2>3. sent[e] \in Seq(Messages)
    BY <1>4 DEF CInv, SInv, ServiceTyped
  <2> HIDE DEF m, e
  <2>4. sent[e] \o <<m>> \in Seq(Messages)
    BY <2>1, <2>3, OneMore
  <2>5. /\ sent' \in [Ends -> Seq(Messages)] /\ sent'[e] = sent[e] \o <<m>>
        /\ \A f \in Ends \ {e} : sent'[f] = sent[f]
    BY <1>2, <1>4, <2>4 DEF CInv, SInv, ServiceTyped
  <2>6. ServiceTyped'
    BY <1>2, <2>5 DEF CInv, SInv, ServiceTyped
  <2>7. x \in Slots /\ Carried[x] = sent[e] /\ Carried'[x] = sent'[e]
    BY <1>4, CarriedAt DEF Carried
  <2>8. \A y \in Slots \ {x} : Carried'[y] = Carried[y]
    <3>1. ASSUME NEW f \in Ends
          PROVE  /\ Carried'[<<"queue", f>>] = Carried[<<"queue", f>>]
                 /\ Carried'[<<"relaying", f>>] = Carried[<<"relaying", f>>]
                 /\ f # e => Carried'[<<"sent", f>>] = Carried[<<"sent", f>>]
      BY <1>2, <2>5, CarriedAt DEF Carried, Relaying
    <3> QED BY <3>1, EverySlot
  <2>9. OffersSingle(Carried) /\ Began(Carried, peer)
    BY DEF CInv, EInv
  <2>10. ~Flies(Carried, m.session, "offer") /\ (m.what = "offer" => ~Flies(Carried, m.session, "answer"))
    BY <1>1, <2>2, <2>9 DEF Began
  <2> HIDE DEF x, c
  <2>11. Gains(Carried, Carried', x, m)
    BY <2>3, <2>5, <2>7, <2>8 DEF Gains
  <2>12. OffersSingle(Carried') /\ MoreFly(Carried, Carried', m)
    BY <2>1, <2>7, <2>9, <2>10, <2>11, MoreCarried
  <2>13. /\ peer'[p][q].conn.offerer = c.offerer
         /\ peer'[p][q].conn.stage = IF c.offerer THEN "offered" ELSE "settled"
         /\ \A v, w \in Peers : ~(v = p /\ w = q) => peer'[v][w] = peer[v][w]
    <3> DEFINE r == [peer[p][q] EXCEPT !.conn.stage = IF c.offerer THEN "offered" ELSE "settled"]
    <3>1. IsRecord(peer[p][q])
      BY ConnFacts
    <3>2. Sets(p, q, r)
      BY DEF LocalDescription, c
    <3>3. /\ r.conn.stage = IF c.offerer THEN "offered" ELSE "settled"
          /\ r.conn.offerer = c.offerer
      BY <1>1, <3>1 DEF IsRecord, IsConn
    <3> HIDE DEF r
    <3> QED BY <3>2, <3>3, Changing
  <2>14. ASSUME NEW v \in Peers, NEW w \in Peers, peer'[v][w].conn # NoConn, peer'[v][w].conn.session = m.session
         PROVE  /\ m.what = "offer" => peer'[v][w].conn.offerer /\ peer'[v][w].conn.stage = "offered"
                /\ m.what = "answer" /\ peer'[v][w].conn.offerer => peer'[v][w].conn.stage # "new"
    <3>1. CASE v = p /\ w = q
      BY <1>1, <2>2, <2>13, <3>1
    <3>2. CASE ~(v = p /\ w = q)
      <4>1. peer[v][w].conn # NoConn /\ peer[v][w].conn.session = c.session /\ peer'[v][w] = peer[v][w]
        BY <2>2, <2>13, <2>14, <3>2
      <4>2. ~c.offerer
        BY <1>1, <2>9, <3>2, <4>1 DEF Began
      <4>3. peer[v][w].conn.offerer => peer[v][w].conn.stage # "new"
        BY <1>1, <2>9, <4>1, <4>2 DEF Began
      <4> QED BY <2>2, <4>1, <4>2, <4>3
    <3> QED BY <3>1, <3>2
  <2>15. Began(Carried', peer')
    BY <1>3, <2>1, <2>12, <2>14, MoreBegan
  <2> QED BY <1>3, <2>6, <2>12, <2>15 DEF CInv, SInv, EInv
<1>5. CASE ~(Served(p) /\ e \in Ends)
  <2>1. sent' = sent
    BY <1>2, <1>5 DEF CInv, SInv, ServiceTyped
  <2>2. Lost /\ ServiceTyped'
    BY <1>2, <2>1, ServiceSame DEF CInv, SInv, EInv
  <2>3. Began(Carried', peer')
    BY <1>3, <2>2, FewerBegan DEF Lost
  <2> QED BY <1>3, <2>2, <2>3 DEF CInv, SInv, EInv, Lost
<1> QED BY <1>4, <1>5

LEMMA WebViewKnows ==
  ASSUME IInv, CInv, NEW p \in Peers, NEW q \in Others(p), WebView(p, q)
  PROVE  CInv'
<1>1. q \in Peers /\ q # p
  BY DEF Others
<1>2. ~LocalDescription(p, q) => Lost /\ ServiceTyped'
  <2> SUFFICES ASSUME ~LocalDescription(p, q) PROVE Lost /\ ServiceTyped'
    OBVIOUS
  <2>1. UNCHANGED <<rendezvous, watched, work>>
    BY DEF WebView, Opened, Received, Closed
  <2> QED BY <2>1, Quietly
<1>3. CASE LocalDescription(p, q)
  BY <1>1, <1>3, DescriptionKnows
<1>4. CASE Opened(p, q) /\ ~LocalDescription(p, q)
  <2>1. "hello" \in Sayings
    BY DEF Sayings
  <2>2. Sends(p, q, "hello") /\ Conn(p, q).stage = "settled"
    BY <1>4 DEF Opened
  <2>3. ChannelsOf(p, q) /\ channel'[q][p] = channel[q][p]
    BY <1>1, <2>1, <2>2, Sending DEF CInv, SInv
  <2>4. Sets(p, q, [peer[p][q] EXCEPT !.conn.stage = "opened"])
    BY <1>4 DEF Opened, Moves
  <2> QED BY <1>1, <1>2, <1>4, <2>2, <2>3, <2>4, TurnsOn
<1>5. CASE Received(p, q) /\ ~LocalDescription(p, q)
  <2> DEFINE m == Head(channel[q][p])
  <2>1. /\ channel[q][p] # <<>>
        /\ \/ m = "hello" /\ Hello(p, q) /\ Takes(p, q, <<"proof">>)
           \/ m = "proof" /\ Proof(p, q) /\ Takes(p, q, <<IF Wanted(p, q) THEN "wanted" ELSE "unwanted">>)
           \/ m \in {"wanted", "unwanted"} /\ Interest(p, q, m = "wanted") /\ Takes(p, q, <<>>)
    BY <1>5 DEF Received
  <2>2. CASE m = "hello" /\ Hello(p, q) /\ Takes(p, q, <<"proof">>)
    <3>1. "proof" \in Sayings
      BY DEF Sayings
    <3>2. ChannelsOf(p, q) /\ channel'[q][p] = Tail(channel[q][p])
      BY <1>1, <2>1, <2>2, <3>1, Taking DEF CInv, SInv
    <3>3. channel[q][p] \in Seq(Sayings)
      BY <1>1 DEF CInv, SInv, ConnTyped
    <3>4. \A w : Tellings(channel[q][p], w) => Tellings(channel'[q][p], w)
      BY <2>1, <2>2, <3>2, <3>3, Heard
    <3>5. Sets(p, q, [peer[p][q] EXCEPT !.conn.stage = "proved"]) /\ Conn(p, q).stage = "opened"
      BY <2>2 DEF Hello, Moves
    <3> QED BY <1>1, <1>2, <1>5, <3>2, <3>4, <3>5, TurnsOn
  <2>3. CASE m = "proof" /\ Proof(p, q) /\ Takes(p, q, <<IF Wanted(p, q) THEN "wanted" ELSE "unwanted">>)
    BY <1>2, <1>5, <2>1, <2>3, ProofKnows
  <2>4. CASE m \in {"wanted", "unwanted"} /\ Interest(p, q, m = "wanted") /\ Takes(p, q, <<>>)
    BY <1>2, <1>5, <2>1, <2>4, InterestKnows
  <2> QED BY <2>1, <2>2, <2>3, <2>4
<1>6. CASE Closed(p, q) /\ ~LocalDescription(p, q)
  <2>1. IsRecord(peer[p][q])
    BY <1>1, ConnFacts
  <2> QED BY <1>1, <1>2, <1>6, <2>1, AgainEnds, TurnsDropping DEF Closed, Fails
<1> QED BY <1>3, <1>4, <1>5, <1>6 DEF WebView

-----------------------------------------------------------------------------
(* What the service says.                                                  *)
LEMMA ServiceKnows ==
  ASSUME IInv, CInv, FInv, NEW p \in Peers, FromService(p)
  PROVE  CInv'
<1> DEFINE e == link[p]
           m == Head(queue[e])
           x == <<"queue", e>>
<1>1. /\ e \in Ends /\ queue[e] # <<>> /\ queue' = [queue EXCEPT ![e] = Tail(queue[e])]
      /\ UNCHANGED <<sent, announced, subscribed, relaying, watched>>
  BY DEF FromService, FInv, Named
<1>2. queue[e] \in Seq(Messages) /\ m \in Messages /\ Tail(queue[e]) \in Seq(Messages)
  BY <1>1, TailOf DEF CInv, SInv, ServiceTyped
<1>3. /\ queue' \in [Ends -> Seq(Messages)] /\ queue'[e] = Tail(queue[e])
      /\ \A f \in Ends \ {e} : queue'[f] = queue[f]
  BY <1>1, <1>2 DEF CInv, SInv, ServiceTyped
<1>4. work' \in [Peers -> Seq(Peers)] => ServiceTyped'
  BY <1>1, <1>3 DEF CInv, SInv, ServiceTyped
<1> HIDE DEF e
<1>5. x \in Slots /\ Carried[x] = queue[e] /\ Carried'[x] = queue'[e]
  BY <1>1, CarriedAt DEF Carried
<1>6. \A y \in Slots \ {x} : Thin(Carried[y], Carried'[y])
  <2>1. ASSUME NEW f \in Ends
        PROVE  /\ Carried'[<<"sent", f>>] = Carried[<<"sent", f>>]
               /\ Carried'[<<"relaying", f>>] = Carried[<<"relaying", f>>]
               /\ f # e => Carried'[<<"queue", f>>] = Carried[<<"queue", f>>]
    BY <1>1, <1>3, CarriedAt DEF Carried, Relaying
  <2> QED BY <2>1, EverySlot, ThinNothing
<1>7. OffersSingle(Carried) /\ Began(Carried, peer) /\ ConnTyped /\ work \in [Peers -> Seq(Peers)]
  BY DEF CInv, SInv, EInv, ServiceTyped
<1> HIDE DEF x
<1>8. /\ Lost
      /\ \A s, what : Is(m, s, what) => Flies(Carried, s, what)
      /\ \A s \in Sessions : Is(m, s, "offer") \/ Is(m, s, "answer") => ~Flies(Carried', s, "offer")
  BY <1>1, <1>2, <1>3, <1>5, <1>6, <1>7, TakenCarried DEF Lost
<1>9. m.kind \in {"reachable", "unreachable", "signal"} => m.peer \in Peers
  BY <1>2 DEF Messages, Signals
<1>10. m.kind = "signal" => m.session \in Sessions
  BY <1>2 DEF Messages, Signals
<1>11. \/ /\ m.kind = "reachable" /\ work' = [work EXCEPT ![p] = Append(work[p], m.peer)]
          /\ UNCHANGED manager
       \/ m.kind = "unreachable" /\ HandleUnreachable(p, m.peer) /\ work' = work
       \/ m.kind = "signal" /\ m.what = "offer" /\ Offered(p, m.peer, m.session) /\ work' = work
       \/ m.kind = "signal" /\ m.what = "answer" /\ Answered(p, m.peer, m.session) /\ work' = work
  BY DEF FromService, e
<1> HIDE DEF m
<1>12. CASE m.kind = "reachable" /\ work' = [work EXCEPT ![p] = Append(work[p], m.peer)] /\ UNCHANGED manager
  <2>1. Append(work[p], m.peer) \in Seq(Peers)
    BY <1>7, <1>9, <1>12
  <2>2. work' \in [Peers -> Seq(Peers)]
    BY <1>7, <1>12, <2>1
  <2> QED BY <1>4, <1>8, <1>12, <2>2, Elsewhere DEF manager
<1>13. ASSUME work' = work PROVE ServiceTyped'
  BY <1>4, <1>7, <1>13
<1>14. CASE m.kind = "unreachable" /\ HandleUnreachable(p, m.peer) /\ work' = work
  <2> DEFINE q == m.peer
             r == [Dropped(peer[p][q]) EXCEPT !.parked = TRUE, !.retry = FALSE]
  <2>1. q \in Peers /\ IsRecord(peer[p][q])
    BY <1>9, <1>14, ConnFacts
  <2>2. CASE UNCHANGED manager
    BY <1>8, <1>13, <1>14, <2>2, Elsewhere DEF manager
  <2>3. CASE Sets(p, q, r) /\ Drops(p, q)
    <3>1. r.conn = NoConn
      BY <2>1, LossRemembers
    <3> HIDE DEF q, r
    <3> QED BY <1>8, <1>13, <1>14, <2>1, <2>3, <3>1, TurnsDropping
  <2> QED BY <1>14, <2>2, <2>3 DEF HandleUnreachable
<1>15. CASE m.kind = "signal" /\ m.what = "offer" /\ Offered(p, m.peer, m.session) /\ work' = work
  <2> DEFINE q == m.peer
             s == m.session
             c == Opening(s, FALSE)
             r == [peer[p][q] EXCEPT !.conn = c]
  <2>1. q \in Peers /\ IsRecord(peer[p][q]) /\ s \in Sessions
    BY <1>9, <1>10, <1>15, ConnFacts
  <2>2. CASE UNCHANGED manager
    BY <1>8, <1>13, <1>15, <2>2, Elsewhere DEF manager
  <2>3. CASE Sets(p, q, r) /\ Drops(p, q)
    <3>1. r.conn = c
      BY <2>1 DEF IsRecord
    <3>2. c.session = s /\ ~c.offerer /\ c.stage = "new"
      BY DEF Opening
    <3>3. Is(m, s, "offer")
      BY <1>15 DEF Is
    <3> HIDE DEF q, s, r
    <3>4. Flies(Carried, s, "offer") /\ ~Flies(Carried', s, "offer")
      BY <1>8, <2>1, <3>3
    <3>5. Fits(Carried', peer, p, q, c)
      <4>1. ASSUME NEW v \in Peers, NEW w \in Peers, peer[v][w].conn # NoConn, peer[v][w].conn.session = s,
                   peer[v][w].conn.offerer
            PROVE  peer[v][w].conn.stage # "new"
        BY <1>7, <3>4, <4>1 DEF Began
      <4> HIDE DEF c
      <4> QED BY <3>2, <3>4, <4>1 DEF Fits
    <3>6. Ready(q, p) => Conn(q, p).session # s
      <4> SUFFICES ASSUME Ready(q, p), Conn(q, p).session = s PROVE FALSE
        OBVIOUS
      <4>1. peer[q][p].conn # NoConn /\ peer[q][p].conn.stage = "ready" /\ peer[q][p].conn.session = s
        BY <2>1, NoConnIsConn DEF Ready, Conn
      <4> QED BY <1>7, <2>1, <3>4, <4>1 DEF Began
    <3>7. Sets(p, q, r) /\ (channel' = channel \/ channel' = [channel EXCEPT ![q][p] = <<>>])
      BY <2>3 DEF Drops
    <3>8. r.conn = Opening(s, FALSE) /\ FALSE \in BOOLEAN
      BY <3>1
    <3>9. Fits(Carried', peer, p, q, r.conn)
      BY <3>1, <3>5
    <3> HIDE DEF c
    <3>10. ServiceTyped' /\ Lost
      BY <1>8, <1>13, <1>15
    <3> QED BY <2>1, <3>6, <3>7, <3>8, <3>9, <3>10, TurnsTo
  <2> QED BY <1>15, <2>2, <2>3 DEF Offered
<1>16. CASE m.kind = "signal" /\ m.what = "answer" /\ Answered(p, m.peer, m.session) /\ work' = work
  <2> DEFINE q == m.peer
             s == m.session
             answers == Conn(p, q).session = s /\ Conn(p, q).offerer /\ Conn(p, q).stage = "offered"
  <2>1. q \in Peers /\ s \in Sessions
    BY <1>9, <1>10, <1>16
  <2>2. /\ channel' = channel
        /\ Sets(p, q, IF answers THEN [peer[p][q] EXCEPT !.conn.stage = "settled"] ELSE peer[p][q])
    BY <1>16 DEF Answered
  <2>3. Is(m, s, "answer")
    BY <1>16 DEF Is
  <2> HIDE DEF q, s
  <2>4. ~Flies(Carried', s, "offer")
    BY <1>8, <2>1, <2>3
  <2>5. ChannelsOf(p, q)
    BY <1>7, <2>1, <2>2, Clearing
  <2>6. CASE answers
    <3>1. Sets(p, q, [peer[p][q] EXCEPT !.conn.stage = "settled"])
      BY <2>2, <2>6
    <3> QED BY <1>8, <1>13, <1>16, <2>1, <2>2, <2>4, <2>5, <2>6, <3>1, TurnsOn
  <2>7. CASE ~answers
    <3>1. Sets(p, q, peer[p][q]) /\ peer[p][q].conn = Conn(p, q) /\ peer[p][q].wanted = Wanted(p, q)
      BY <2>2, <2>7 DEF Conn, Wanted
    <3> QED BY <1>8, <1>13, <1>16, <2>1, <2>2, <3>1, TurnsStill
  <2> QED BY <2>6, <2>7
<1> QED BY <1>11, <1>12, <1>14, <1>15, <1>16

-----------------------------------------------------------------------------
(* Of several at once.                                                     *)
LEMMA SeveralKnow ==
  ASSUME IInv, CInv, Lost, ServiceTyped', NEW p \in Peers, NEW due \in SUBSET Peers,
         ConnectsTo(p, due), channel' = channel
  PROVE  CInv'
<1> DEFINE names == {f \in [due -> Spare(p)] : IsInjective(f)}
           name == CHOOSE f \in names : TRUE
           New(q) == [peer[p][q] EXCEPT !.retry = FALSE, !.conn = Opening(name[q], TRUE)]
<1>1. name \in names
  BY DEF ConnectsTo
<1>2. /\ \A q \in due : name[q] \in Spare(p)
      /\ \A q, r \in due : name[q] = name[r] => q = r
  BY <1>1 DEF IsInjective
<1>3. peer' = [peer EXCEPT ![p] = [q \in Peers |-> IF q \in due THEN New(q) ELSE peer[p][q]]]
  BY DEF ConnectsTo, IInv, Shape
<1>4. ASSUME NEW q \in Peers PROVE New(q).conn = Opening(name[q], TRUE)
  <2>1. IsRecord(peer[p][q])
    BY ConnFacts
  <2> HIDE DEF name
  <2> QED BY <2>1 DEF IsRecord
<1> HIDE DEF name, names, New
<1>5. /\ \A q \in due : peer'[p][q].conn = Opening(name[q], TRUE)
      /\ \A x, y \in Peers : ~(x = p /\ y \in due) => peer'[x][y] = peer[x][y]
  BY <1>3, <1>4 DEF IInv, Shape
<1>6. ASSUME NEW q \in due
      PROVE  /\ name[q] \in Sessions /\ \A what : ~Flies(Carried', name[q], what)
             /\ \A x, y \in Peers : Conn(x, y).session # name[q]
  <2>1. /\ name[q] \in Sessions /\ \A what : ~Flies(Carried, name[q], what)
        /\ \A x, y \in Peers : Conn(x, y).session # name[q]
    BY <1>2, SpareIsFresh
  <2> QED BY <2>1 DEF Lost, FewerFly
<1>7. \A s : Opening(s, TRUE).session = s /\ Opening(s, TRUE).stage = "new"
  BY DEF Opening
<1>8. Began(Carried', peer')
  <2>1. Began(Carried', peer)
    BY FewerBegan DEF CInv, EInv, Lost
  <2>2. \A q \in due \cap Peers :
          /\ peer'[p][q].conn = Opening(name[q], TRUE)
          /\ \A what : ~Flies(Carried', name[q], what)
          /\ \A x, y \in Peers : peer[x][y].conn.session # name[q]
    BY <1>5, <1>6 DEF Conn
  <2>3. \A q, r \in due \cap Peers : name[q] = name[r] => q = r
    BY <1>2
  <2>4. \A x, y \in Peers : ~(x = p /\ y \in due) => peer'[x][y].conn = peer[x][y].conn
    BY <1>5
  <2>5. Offering(Carried', peer, peer', p, due, name)
    BY <2>2, <2>3, <2>4 DEF Offering
  <2> QED BY <2>1, <2>5, BeganOffering
<1>9. ConnTyped'
  <2>1. ASSUME NEW x \in Peers, NEW y \in Peers, peer'[x][y].conn # NoConn
        PROVE  peer'[x][y].conn.session \in Sessions
    <3>1. CASE x = p /\ y \in due
      <4>1. peer'[x][y].conn = Opening(name[y], TRUE) /\ name[y] \in Sessions
        BY <1>5, <1>6, <3>1
      <4> QED BY <1>7, <4>1
    <3>2. CASE ~(x = p /\ y \in due)
      BY <1>5, <2>1, <3>2 DEF CInv, SInv, ConnTyped, Conn
    <3> QED BY <3>1, <3>2
  <2> QED BY <2>1 DEF ConnTyped, Conn, CInv, SInv
<1>10. ASSUME NEW x \in Peers, NEW y \in Others(x) PROVE Knows(x, y)'
  <2>1. y \in Peers /\ x # y /\ Knows(x, y)
    BY <1>10 DEF CInv, JInv, Others
  <2>2. CASE x = p /\ y \in due
    <3>1. peer'[x][y].conn.stage # "ready"
      BY <1>5, <1>7, <2>2
    <3> QED BY <3>1, NotReadyKnows
  <2>3. CASE y = p /\ x \in due
    <3>1. peer'[y][x].conn.session = name[x] /\ peer'[x][y] = peer[x][y]
      BY <1>5, <1>7, <2>1, <2>3
    <3>2. peer'[x][y].conn.session # name[x]
      BY <1>6, <2>1, <2>3, <3>1 DEF Conn
    <3> QED BY <3>1, <3>2, ApartKnows
  <2>4. CASE ~(x = p /\ y \in due) /\ ~(y = p /\ x \in due)
    BY <1>5, <2>1, <2>4, KnownStill
  <2> QED BY <2>2, <2>3, <2>4
<1>11. JInv'
  BY <1>10 DEF JInv, Others
<1> QED BY <1>8, <1>9, <1>11 DEF CInv, SInv, EInv, Lost

LEMMA OnlineKnows ==
  ASSUME IInv, CInv, NEW p \in Peers, Online(p)
  PROVE  CInv'
<1> DEFINE rest == IF watched[p] = {} THEN <<>> ELSE <<Subscribe(watched[p])>>
           says == <<Announce({p})>> \o rest
           due == {q \in Peers : Wanted(p, q) /\ ~Connected(peer[p][q]) /\ ~peer[p][q].parked}
<1>1. Dials(p, says) /\ ConnectsTo(p, due) /\ UNCHANGED <<watched, work, channel>>
  BY DEF Online
<1>2. Announce({p}) \in Messages /\ Announce({p}).kind # "signal"
  BY DEF Announce, Messages
<1>3. Subscribe(watched[p]) \in Messages /\ Subscribe(watched[p]).kind # "signal"
  BY DEF CInv, SInv, ServiceTyped, Subscribe, Messages
<1>4. rest \in Seq(Messages) /\ Plain(rest)
  BY <1>3 DEF Plain
<1>5. <<Announce({p})>> \in Seq(Messages) /\ Plain(<<Announce({p})>>)
  BY <1>2 DEF Plain
<1> HIDE DEF rest
<1>6. says \in Seq(Messages) /\ Plain(says)
  <2> DEFINE v == <<Announce({p})>>
  <2> HIDE DEF v
  <2>1. v \in Seq(Messages) /\ Plain(v) /\ says = v \o rest
    BY <1>5 DEF v
  <2> HIDE DEF says
  <2> QED BY <1>4, <2>1, JoinedPlain
<1> HIDE DEF says
<1>7. Lost /\ ServiceTyped'
  BY <1>1, <1>6, DialsLoses DEF CInv, SInv, EInv
<1> QED BY <1>1, <1>7, SeveralKnow

LEMMA NetworkKnows ==
  ASSUME IInv, CInv, NEW p \in Peers, NetworkChanged(p)
  PROVE  CInv'
<1> DEFINE due == {q \in Peers : peer[p][q].retry /\ ~Connected(peer[p][q]) /\ Wanted(p, q)}
<1>1. ConnectsTo(p, due) /\ UNCHANGED <<rendezvous, watched, work, channel>>
  BY DEF NetworkChanged
<1>2. Lost /\ ServiceTyped'
  BY <1>1, Quietly
<1> QED BY <1>1, <1>2, SeveralKnow

LEMMA ResetKnows == ASSUME IInv, CInv, NEW p \in Peers, Reset(p) PROVE CInv'
<1> DEFINE ended == {q \in Peers : Connected(peer[p][q])}
           New(q) == IF q \in ended THEN Again(Dropped(peer[p][q])) ELSE peer[p][q]
<1>1. /\ peer' = [peer EXCEPT ![p] = [q \in Peers |-> New(q)]]
      /\ channel' = [q \in Peers |-> [channel[q] EXCEPT ![p] = <<>>]]
      /\ UNCHANGED <<rendezvous, watched, work>>
  BY DEF Reset, IInv, Shape
<1>2. ASSUME NEW q \in Peers PROVE New(q).conn = NoConn
  <2>1. IsRecord(peer[p][q])
    BY ConnFacts
  <2> QED BY <2>1, AgainEnds DEF Connected
<1> HIDE DEF New
<1>3. /\ \A q \in Peers : peer'[p][q].conn = NoConn
      /\ \A x \in Peers \ {p} : \A y \in Peers : peer'[x][y] = peer[x][y]
  BY <1>1, <1>2 DEF IInv, Shape
<1>4. /\ channel' \in [Peers -> [Peers -> Seq(Sayings)]]
      /\ \A x \in Peers : \A y \in Peers \ {p} : channel'[x][y] = channel[x][y]
  <2>1. <<>> \in Seq(Sayings)
    OBVIOUS
  <2> QED BY <1>1, <2>1 DEF CInv, SInv, ConnTyped
<1>5. Lost /\ ServiceTyped'
  BY <1>1, Quietly
<1>6. Began(Carried', peer')
  <2>1. Began(Carried', peer)
    BY <1>5, FewerBegan DEF CInv, EInv, Lost
  <2>2. \A x, y \in Peers : peer'[x][y].conn = peer[x][y].conn \/ peer'[x][y].conn = NoConn
    BY <1>3
  <2> QED BY <2>1, <2>2, BeganLess
<1>7. ConnTyped'
  <2>1. ASSUME NEW x \in Peers, NEW y \in Peers, peer'[x][y].conn # NoConn
        PROVE  peer'[x][y].conn.session \in Sessions
    <3>1. peer'[x][y] = peer[x][y]
      BY <1>3, <2>1
    <3> QED BY <2>1, <3>1, ConnFacts DEF Conn
  <2> QED BY <1>4, <2>1 DEF ConnTyped, Conn
<1>8. ASSUME NEW x \in Peers, NEW y \in Others(x) PROVE Knows(x, y)'
  <2>1. y \in Peers /\ x # y /\ Knows(x, y)
    BY <1>8 DEF CInv, JInv, Others
  <2>2. CASE x = p
    BY <1>3, <2>1, <2>2, NoConnIsConn, NotReadyKnows
  <2>3. CASE y = p
    <3>1. peer'[x][y].conn = Conn(x, y) /\ peer'[y][x].conn = NoConn
      BY <1>3, <2>1, <2>3 DEF Conn
    <3>2. peer'[x][y].conn.stage = "ready" => peer'[x][y].conn.session \in Sessions
      BY <2>1, <3>1, ConnFacts
    <3> QED BY <3>1, <3>2, SessionsAreNone, ApartKnows
  <2>4. CASE x # p /\ y # p
    BY <1>3, <1>4, <2>1, <2>4, KnownStill
  <2> QED BY <2>2, <2>3, <2>4
<1>9. JInv'
  BY <1>8 DEF JInv, Others
<1> QED BY <1>5, <1>6, <1>7, <1>9 DEF CInv, SInv, EInv, Lost

(* Whoever is watched.                                                     *)
LEMMA WatchingKnows ==
  ASSUME CInv, NEW p \in Peers, Reachability(p)
  PROVE  CInv'
<1> DEFINE wanted == {q \in Peers : Wanted(p, q)}
           unless(ids, m) == IF ids = {} THEN <<>> ELSE <<m>>
           v == unless(watched[p] \ wanted, Unsubscribe(watched[p] \ wanted))
           w == unless(wanted \ watched[p], Subscribe(wanted \ watched[p]))
<1>1. /\ watched' = [watched EXCEPT ![p] = wanted] /\ Says(p, v \o w)
      /\ UNCHANGED <<service, manager, work>>
  BY DEF Reachability
<1>2. watched[p] \in SUBSET Peers /\ wanted \in SUBSET Peers
  BY DEF CInv, SInv, ServiceTyped
<1> HIDE DEF wanted
<1>3. \A m \in Messages : m.kind # "signal" => <<m>> \in Seq(Messages) /\ Plain(<<m>>)
  BY DEF Plain
<1>4. <<>> \in Seq(Messages) /\ Plain(<<>>)
  BY DEF Plain
<1>5. v \in Seq(Messages) /\ Plain(v)
  <2>1. Unsubscribe(watched[p] \ wanted) \in Messages /\ Unsubscribe(watched[p] \ wanted).kind # "signal"
    <3>1. watched[p] \ wanted \in SUBSET Peers
      BY <1>2
    <3> QED BY <3>1 DEF Unsubscribe, Messages
  <2> QED BY <1>3, <1>4, <2>1
<1>6. w \in Seq(Messages) /\ Plain(w)
  <2>1. Subscribe(wanted \ watched[p]) \in Messages /\ Subscribe(wanted \ watched[p]).kind # "signal"
    BY <1>2 DEF Subscribe, Messages
  <2> QED BY <1>3, <1>4, <2>1
<1> HIDE DEF v, w
<1>7. v \o w \in Seq(Messages) /\ Plain(v \o w)
  BY <1>5, <1>6, JoinedPlain
<1>8. watched' \in [Peers -> SUBSET Peers]
  BY <1>1, <1>2 DEF CInv, SInv, ServiceTyped
<1>9. Lost /\ ServiceTyped'
  BY <1>1, <1>7, <1>8, SaysLoses DEF CInv, SInv, EInv
<1> QED BY <1>1, <1>9, Elsewhere DEF manager

LEMMA NextKnows == IInv /\ CInv /\ FInv /\ [Next]_vars => CInv'
<1> SUFFICES ASSUME IInv, CInv, FInv, [Next]_vars PROVE CInv'
  OBVIOUS
<1>1. ASSUME NEW p \in Peers, \/ Online(p) \/ Reachability(p) \/ FromService(p) \/ HandleReachable(p)
                              \/ Reset(p) \/ NetworkChanged(p)
      PROVE  CInv'
  BY <1>1, OnlineKnows, WatchingKnows, ServiceKnows, ReachableKnows, ResetKnows, NetworkKnows
<1>2. ASSUME NEW p \in Peers, LinkEnds(p) \/ LinkBreaks(p) PROVE CInv'
  <2>1. UNCHANGED <<sent, service, manager, watched, work>>
    BY <1>2 DEF LinkEnds, LinkBreaks, Offline
  <2>2. Lost /\ ServiceTyped'
    BY <2>1, ServiceSame DEF CInv, SInv, EInv, service
  <2> QED BY <2>1, <2>2, Elsewhere DEF manager
<1>3. ASSUME NEW p \in Peers, NEW q \in Others(p), Asks(p, q) \/ WebView(p, q) \/ Tick(p, q)
      PROVE  CInv'
  <2>1. q \in Peers
    BY DEF Others
  <2> QED BY <1>3, <2>1, AsksKnow, WebViewKnows, TicksKnow
<1>4. ASSUME NEW e \in Ends, Service(e) \/ Overflows(e) PROVE CInv'
  <2>1. UNCHANGED <<peer, channel, watched, work>> /\ (Serves(e) \/ Overflow(e))
    BY <1>4 DEF Service, Overflows, manager
  <2>2. Lost /\ ServiceTyped'
    BY <2>1, ServesLoses, OverflowLoses DEF CInv, SInv, EInv
  <2> QED BY <2>1, <2>2, Elsewhere
<1>5. CASE UNCHANGED vars
  <2>1. UNCHANGED <<rendezvous, peer, channel, watched, work>>
    BY <1>5 DEF vars, manager
  <2> QED BY <2>1, Quietly, Elsewhere
<1> QED BY <1>1, <1>2, <1>3, <1>4, <1>5 DEF Next

LEMMA InitKnows == Init => CInv
<1> SUFFICES ASSUME Init PROVE CInv
  OBVIOUS
<1>1. /\ sent = [e \in Ends |-> <<>>] /\ queue = [e \in Ends |-> <<>>]
      /\ announced = [e \in Ends |-> {}] /\ subscribed = [e \in Ends |-> {}]
      /\ relaying = [e \in Ends |-> NotRelaying]
  BY DEF Init, InitRendezvous
<1>2. /\ watched = [p \in Peers |-> {}] /\ work = [p \in Peers |-> <<>>]
      /\ peer = [p \in Peers |-> [q \in Peers |-> Unknown]]
      /\ channel = [p \in Peers |-> [q \in Peers |-> <<>>]]
  BY DEF Init
<1>3. <<>> \in Seq(Messages) /\ <<>> \in Seq(Peers) /\ <<>> \in Seq(Sayings)
  OBVIOUS
<1>4. ServiceTyped
  BY <1>1, <1>2, <1>3 DEF ServiceTyped
<1>5. \A p, q \in Peers : Conn(p, q) = NoConn
  BY <1>2 DEF Conn, Unknown
<1>6. ConnTyped
  BY <1>2, <1>3, <1>5 DEF ConnTyped
<1>7. \A x \in Slots : Carried[x] = <<>>
  <2>1. ASSUME NEW e \in Ends
        PROVE  Carried[<<"sent", e>>] = <<>> /\ Carried[<<"queue", e>>] = <<>> /\ Carried[<<"relaying", e>>] = <<>>
    <3>1. ~Relaying(e) /\ sent[e] = <<>> /\ queue[e] = <<>>
      BY <1>1 DEF Relaying
    <3> QED BY <3>1, CarriedAt
  <2> QED BY <2>1, EverySlot
<1>8. \A s, what : ~Flies(Carried, s, what)
  BY <1>7 DEF Flies, Has
<1>9. OffersSingle(Carried)
  BY <1>7, <1>8 DEF OffersSingle, Single, Once, Has
<1>10. Began(Carried, peer)
  BY <1>5 DEF Began, Conn
<1>11. JInv
  BY <1>5, NoConnIsConn DEF JInv, Knows, Ready, Others
<1> QED BY <1>4, <1>6, <1>9, <1>10, <1>11 DEF CInv, SInv, EInv

LEMMA InductiveKnown == Spec => []CInv
BY Inductive, InductiveFound, InitKnows, NextKnows, PTL DEF Spec

LEMMA Told ==
  ASSUME IInv, CInv
  PROVE  InterestIsKnown
<1> SUFFICES ASSUME NEW p \in Peers, NEW q \in Others(p), Ready(p, q), Ready(q, p), Same(p, q)
             PROVE  LET c == channel[p][q]
                        said == {i \in DOMAIN c : c[i] \in {"wanted", "unwanted"}}
                    IN  Wanted(p, q) = IF said = {} THEN Conn(q, p).theyWant ELSE c[Max(said)] = "wanted"
  BY DEF InterestIsKnown
<1> DEFINE c == channel[p][q]
           said == {i \in DOMAIN c : c[i] \in {"wanted", "unwanted"}}
<1>1. q \in Peers /\ Wanted(p, q) \in BOOLEAN /\ Knows(p, q)
  BY ConnFacts DEF Others, CInv, JInv
<1>2. said = Interests(c) /\ c \in Seq(Sayings)
  BY <1>1 DEF Interests, CInv, SInv, ConnTyped
<1>3. \A i \in Interests(c) : i \in Nat
  BY <1>2 DEF Interests
<1> HIDE DEF said, c
<1>4. CASE Tellings(c, Wanted(p, q))
  <2>1. PICK i \in Interests(c) : (c[i] = "wanted" <=> Wanted(p, q)) /\ \A j \in Interests(c) : j <= i
    BY <1>4 DEF Tellings
  <2>2. \A j \in said : i >= j
    BY <1>2, <1>3, <2>1
  <2>3. Max(said) \in said /\ \A j \in said : Max(said) >= j
    BY <1>2, <2>1, <2>2 DEF Max
  <2>4. Max(said) = i
    BY <1>2, <1>3, <2>1, <2>2, <2>3
  <2> QED BY <1>1, <1>2, <2>1, <2>4 DEF said, c
<1>5. CASE Interests(c) = {} /\ Conn(q, p).theyWant = Wanted(p, q)
  BY <1>2, <1>5 DEF said, c
<1> QED BY <1>1, <1>4, <1>5 DEF Knows, c

(* Of two who are connected, each knows whether the other wants it, or is  *)
(* about to be told, and observers were told of every connection there is: *)
(* what Interest and Received of peers.go send, whatever crossed the       *)
(* handshake, was replaced or lost before.                                 *)
THEOREM ConnectionsAreAlwaysKnown == Spec => []ConnectionsAreKnown
<1>1. IInv /\ CInv => ConnectionsAreKnown
  BY Told DEF IInv, ConnectionsAreKnown
<1> QED BY <1>1, Inductive, InductiveKnown, PTL

(* What is held is what it is meant to be: ends, and names of sessions,    *)
(* are those there are, and a connection has a name from the first.        *)
THEOREM TypeCorrect == Spec => []TypeOK
<1>1. ASSUME IInv, CInv, FInv PROVE TypeOK
  <2>1. ASSUME NEW p \in Peers, NEW q \in Peers
        PROVE  /\ peer[p][q] \in [wanted : BOOLEAN, retry : BOOLEAN, parked : BOOLEAN, conn : Conns]
               /\ Conn(p, q) = NoConn \/ Conn(p, q).session # NoSession
    <3>1. IsRecord(peer[p][q]) /\ (Conn(p, q) # NoConn => Conn(p, q).session \in Sessions)
      BY <1>1, ConnFacts
    <3>2. Conn(p, q).session \in Sessions \cup {NoSession}
      BY <3>1, SessionsAreNone
    <3>3. Conn(p, q) \in Conns
      BY <3>1, <3>2 DEF IsRecord, IsConn, Stages, Conns, Conn
    <3>4. peer[p][q] \in [wanted : BOOLEAN, retry : BOOLEAN, parked : BOOLEAN, conn : Conns]
      BY <3>1, <3>3 DEF IsRecord, Conn
    <3> QED BY <3>1, <3>4, SessionsAreNone
  <2>2. peer \in [Peers -> [Peers -> [wanted : BOOLEAN, retry : BOOLEAN, parked : BOOLEAN, conn : Conns]]]
    BY <1>1, <2>1 DEF IInv, Shape
  <2> QED BY <1>1, <2>1, <2>2 DEF TypeOK, FInv, Named
<1> QED BY <1>1, Inductive, InductiveFound, InductiveKnown, PTL
=============================================================================
