------------------------- MODULE SpaceContentProofs -------------------------
(***************************************************************************)
(* What SpaceContent promises of the secrets of a space, proved for any    *)
(* story of operations, any members and connections that end at any time.  *)
(*                                                                         *)
(* A secret is given to whoever is a member where its epoch is the latest, *)
(* as far as its giver knows.  A secret on its way, or waiting in a queue, *)
(* is therefore one its receiver was given while a member; and what is     *)
(* held came that way, or was made by an administrator.                    *)
(*                                                                         *)
(* And what VoicePresence promises of who is believed to be where, in one  *)
(* voice channel, at the end of the module.                                *)
(***************************************************************************)
EXTENDS SpaceContent, VoicePresence, FiniteSetTheorems, SequenceTheorems, TLAPS

(* Somebody is a member at the secret's epoch or after it.                 *)
MayHold(o, q, x) == \E n \in x.epoch..Len(o.story) : Rank(o.after[n], q) # None

(* A sequence of messages whose secrets q may hold.                        *)
Bears(o, q, s) ==
  \E S : /\ s \in Seq(S)
         /\ \A m \in S : m.type = "space-secret" => MayHold(o, q, m.what)

Lawful(o, box) ==
  /\ DOMAIN box = People
  /\ \A p \in People : DOMAIN box[p] = People /\ \A q \in People : Bears(o, p, box[p][q])

Entitled(o, held) ==
  /\ DOMAIN held = People
  /\ \A p \in People : IsFiniteSet(held[p]) /\ \A x \in held[p] : MayHold(o, p, x)

Finite(f) == DOMAIN f = People /\ \A p \in People : IsFiniteSet(f[p])
Filed(f) == DOMAIN f = People /\ \A p \in People : IsFiniteSet(DOMAIN f[p])

IInv ==
  /\ occasion \in Occasions
  /\ Finite(holds) /\ Filed(files)
  /\ Entitled(occasion, secrets) /\ Lawful(occasion, inbox)

-----------------------------------------------------------------------------
(* The greatest of numbers that are bounded.                               *)
LEMMA LeastNumber ==
  ASSUME NEW T \in SUBSET Nat, T # {}
  PROVE  \E x \in T : \A y \in T : x <= y
<1> DEFINE R == {ss \in Nat \X Nat : ss[1] < ss[2]}
<1>1. PICK x \in T : \A y \in T : ~(<<y, x>> \in R)
  <2>1. IsWellFoundedOn(R, Nat)
    BY NatLessThanWellFounded DEF OpToRel
  <2> HIDE DEF R
  <2> QED BY <2>1, WFMin
<1>2. \A y \in T : y < x => <<y, x>> \in R
  OBVIOUS
<1>3. \A y \in T : ~(y < x)
  <2> HIDE DEF R
  <2> QED BY <1>1, <1>2
<1> HIDE DEF R
<1> QED BY <1>3

LEMMA GreatestNumber ==
  ASSUME NEW T \in SUBSET Nat, T # {}, NEW b \in Nat, \A x \in T : x <= b
  PROVE  \E x \in T : \A y \in T : y <= x
<1> DEFINE U == {b - x : x \in T}
<1>1. U # {}
  OBVIOUS
<1>2. U \in SUBSET Nat
  <2>1. \A x \in T : b - x \in Nat
    OBVIOUS
  <2> QED BY <2>1
<1>3. PICK u \in U : \A v \in U : u <= v
  <2> HIDE DEF U
  <2> QED BY <1>1, <1>2, LeastNumber
<1>4. PICK x \in T : u = b - x
  OBVIOUS
<1>5. ASSUME NEW y \in T PROVE y <= x
  <2>1. u <= b - y
    BY <1>3
  <2> QED BY <2>1, <1>4
<1> QED BY <1>5

LEMMA HighestOf ==
  ASSUME NEW b \in Nat, NEW T \in SUBSET (0..b)
  PROVE  Highest(T) \in 0..b
<1> DEFINE U == {0} \cup T
<1>1. U \in SUBSET Nat /\ U # {} /\ \A x \in U : x <= b
  OBVIOUS
<1>2. \E n \in U : \A k \in U : k <= n
  <2> HIDE DEF U
  <2> QED BY <1>1, GreatestNumber
<1>3. \E n \in {0} \cup T : \A k \in T : k <= n
  BY <1>2
<1>4. Highest(T) \in {0} \cup T
  BY <1>3 DEF Highest
<1>5. {0} \cup T \subseteq 0..b
  OBVIOUS
<1> QED BY <1>4, <1>5

LEMMA Story ==
  ASSUME NEW o \in Occasions
  PROVE  Len(o.story) \in Nat /\ DOMAIN o.story = 1..Len(o.story)
<1>1. o.story \in Seq(Operations)
  BY ContentAssumption
<1> QED BY <1>1

LEMMA KnownOf ==
  ASSUME occasion \in Occasions, NEW ops
  PROVE  Known(ops) \in 0..Len(occasion.story)
<1> DEFINE T == {n \in Places : 1..n \subseteq ops}
<1>1. Len(occasion.story) \in Nat /\ T \in SUBSET (0..Len(occasion.story))
  BY Story DEF Places
<1> HIDE DEF T
<1>2. Highest(T) \in 0..Len(occasion.story)
  BY <1>1, HighestOf
<1> QED BY <1>2 DEF Known, T

LEMMA EpochOf ==
  ASSUME NEW n \in Nat
  PROVE  Epoch(n) \in 0..n
<1> DEFINE T == {k \in 1..n : occasion.story[k].kind \in Revokes /\ Allowed(After(k - 1), occasion.story[k])}
<1>1. T \in SUBSET (0..n)
  OBVIOUS
<1> HIDE DEF T
<1>2. Highest(T) \in 0..n
  BY <1>1, HighestOf
<1> QED BY <1>2 DEF Epoch, T

-----------------------------------------------------------------------------
(* Sequences of messages.                                                  *)
LEMMA ToSequence ==
  ASSUME NEW S, IsFiniteSet(S)
  PROVE  SetToSeq(S) \in Seq(S)
<1>1. Cardinality(S) \in Nat /\ ExistsBijection(1..Cardinality(S), S)
  BY FS_CardinalityType
<1>2. \E f \in [1..Cardinality(S) -> S] : IsInjective(f)
  BY <1>1 DEF ExistsBijection, Bijection, Injection
<1>3. SetToSeq(S) \in [1..Cardinality(S) -> S]
  BY <1>2 DEF SetToSeq
<1> QED BY <1>1, <1>3, IsASeq

LEMMA BearsNone ==
  ASSUME NEW o, NEW q
  PROVE  Bears(o, q, <<>>)
<1> DEFINE S == {}
<1>1. <<>> \in Seq(S) /\ \A m \in S : m.type = "space-secret" => MayHold(o, q, m.what)
  OBVIOUS
<1> HIDE DEF S
<1> QED BY <1>1 DEF Bears

LEMMA BearsPlain ==
  ASSUME NEW o, NEW q, NEW n \in Nat, NEW f, f = [i \in 1..n |-> f[i]],
         \A i \in 1..n : f[i].type # "space-secret"
  PROVE  Bears(o, q, f)
<1> DEFINE S == {f[i] : i \in 1..n}
<1>1. [i \in 1..n |-> f[i]] \in [1..n -> S]
  OBVIOUS
<1>2. \A m \in S : m.type # "space-secret"
  OBVIOUS
<1> HIDE DEF S
<1>3. f \in Seq(S)
  BY <1>1, IsASeq
<1> QED BY <1>2, <1>3 DEF Bears

LEMMA BearsOne ==
  ASSUME NEW o, NEW q, NEW m, m.type # "space-secret"
  PROVE  Bears(o, q, <<m>>)
<1> DEFINE S == {m}
<1>1. <<m>> \in Seq(S) /\ \A k \in S : k.type = "space-secret" => MayHold(o, q, k.what)
  OBVIOUS
<1> HIDE DEF S
<1> QED BY <1>1 DEF Bears

LEMMA BearsBoth ==
  ASSUME NEW o, NEW q, NEW s, NEW t, Bears(o, q, s), Bears(o, q, t)
  PROVE  Bears(o, q, s \o t)
<1>1. PICK S : s \in Seq(S) /\ \A m \in S : m.type = "space-secret" => MayHold(o, q, m.what)
  BY DEF Bears
<1>2. PICK T : t \in Seq(T) /\ \A m \in T : m.type = "space-secret" => MayHold(o, q, m.what)
  BY DEF Bears
<1> DEFINE U == S \cup T
<1>3. s \in Seq(U) /\ t \in Seq(U)
  BY <1>1, <1>2, SeqMonotonic
<1>4. \A m \in U : m.type = "space-secret" => MayHold(o, q, m.what)
  BY <1>1, <1>2
<1> HIDE DEF U
<1>5. s \o t \in Seq(U)
  BY <1>3
<1> QED BY <1>4, <1>5 DEF Bears

LEMMA BearsRest ==
  ASSUME NEW o, NEW q, NEW s, Bears(o, q, s), s # <<>>
  PROVE  /\ Bears(o, q, Tail(s))
         /\ Head(s).type = "space-secret" => MayHold(o, q, Head(s).what)
<1>1. PICK S : s \in Seq(S) /\ \A m \in S : m.type = "space-secret" => MayHold(o, q, m.what)
  BY DEF Bears
<1>2. Tail(s) \in Seq(S) /\ Head(s) \in S
  BY <1>1
<1> QED BY <1>1, <1>2 DEF Bears

LEMMA BearsCut ==
  ASSUME NEW o, NEW q, NEW s, Bears(o, q, s), NEW t \in Cut(s)
  PROVE  Bears(o, q, t)
<1>1. PICK S : s \in Seq(S) /\ \A m \in S : m.type = "space-secret" => MayHold(o, q, m.what)
  BY DEF Bears
<1> DEFINE I == {i \in 1..Len(s) : s[i] = Came}
<1>2. Len(s) \in Nat /\ I \in SUBSET Nat /\ \A i \in I : i <= Len(s)
  BY <1>1
<1>3. Began(s) = IF I # {} THEN Max(I) ELSE 0
  BY DEF Began, SelectLastInSeq
<1> HIDE DEF I
<1>4. Began(s) \in Nat
  <2>1. CASE I # {}
    <3>1. \E x \in I : \A y \in I : y <= x
      BY <1>2, <2>1, GreatestNumber
    <3>2. \E x \in I : \A y \in I : x >= y
      BY <1>2, <3>1
    <3>3. Max(I) \in I
      BY <3>2 DEF Max
    <3> QED BY <1>2, <1>3, <2>1, <3>3
  <2> QED BY <1>3, <2>1
<1>5. PICK n \in Began(s)..Len(s) : t = Append(SubSeq(s, 1, n), Went)
  BY DEF Cut
<1>6. SubSeq(s, 1, n) \in Seq(S)
  BY <1>1, <1>2, <1>4
<1>7. Bears(o, q, SubSeq(s, 1, n))
  BY <1>1, <1>6 DEF Bears
<1>8. Bears(o, q, <<Went>>)
  BY BearsOne DEF Went, Msg
<1>9. t = SubSeq(s, 1, n) \o <<Went>>
  BY <1>5, <1>6, AppendIsConcat, SeqMonotonic
<1> QED BY <1>7, <1>8, <1>9, BearsBoth

(* What is shared with a member it may hold.                               *)
LEMMA SharesBear ==
  ASSUME occasion \in Occasions, NEW q, NEW held, IsFiniteSet(held), NEW n \in 0..Len(occasion.story)
  PROVE  Bears(occasion, q, Shares(q, held, n))
<1> DEFINE S == Shared(q, held, n)
<1>1. S \subseteq held /\ \A x \in S : x.epoch = Epoch(n) /\ Rank(After(n), q) # None
  BY DEF Shared, Current, Counting, SecretsOf
<1>2. \A x \in S : MayHold(occasion, q, x)
  <2>1. Len(occasion.story) \in Nat /\ Epoch(n) \in 0..n
    BY Story, EpochOf
  <2>2. n \in Epoch(n)..Len(occasion.story)
    BY <2>1
  <2> HIDE DEF S
  <2> QED BY <1>1, <2>2 DEF MayHold, After
<1> HIDE DEF S
<1>3. SetToSeq(S) \in Seq(S)
  BY <1>1, FS_Subset, ToSequence
<1> DEFINE T == {SecretMessage(x) : x \in S}
           s == SetToSeq(S)
<1>4. [i \in DOMAIN s |-> SecretMessage(s[i])] \in Seq(T)
  <2>1. DOMAIN s = 1..Len(s) /\ Len(s) \in Nat /\ \A i \in 1..Len(s) : s[i] \in S
    BY <1>3
  <2>2. [i \in DOMAIN s |-> SecretMessage(s[i])] \in [1..Len(s) -> T]
    BY <2>1
  <2> HIDE DEF s, T
  <2> QED BY <2>1, <2>2, IsASeq
<1>5. \A m \in T : MayHold(occasion, q, m.what)
  BY <1>2 DEF SecretMessage, Msg
<1>6. Shares(q, held, n) = [i \in DOMAIN s |-> SecretMessage(s[i])]
  BY DEF Shares, S
<1> HIDE DEF T, s
<1> QED BY <1>4, <1>5, <1>6 DEF Bears

(* Nothing else has secrets.                                               *)
LEMMA RequestsBear ==
  ASSUME NEW o, NEW r, NEW q, NEW stored, NEW chosen, IsFiniteSet(DOMAIN chosen)
  PROVE  Bears(o, r, Requests(chosen, stored, q))
<1> DEFINE S == {f \in DOMAIN chosen : chosen[f] = {q}}
           s == SetToSeq(S)
<1>1. s \in Seq(S)
  <2>1. IsFiniteSet(S)
    BY FS_Subset
  <2> HIDE DEF S
  <2> QED BY <2>1, ToSequence
<1>2. DOMAIN s = 1..Len(s) /\ Len(s) \in Nat
  BY <1>1
<1>3. Requests(chosen, stored, q) = [i \in 1..Len(s) |-> Request(s[i], stored[s[i]].held)]
  BY <1>2 DEF Requests
<1>4. \A i \in 1..Len(s) : Request(s[i], stored[s[i]].held).type # "space-secret"
  BY DEF Request, Msg
<1> DEFINE f == [i \in 1..Len(s) |-> Request(s[i], stored[s[i]].held)]
<1>5. f = [i \in 1..Len(s) |-> f[i]] /\ \A i \in 1..Len(s) : f[i].type # "space-secret"
  BY <1>4
<1> HIDE DEF s, f
<1>6. Bears(o, r, f)
  BY <1>2, <1>5, BearsPlain
<1> QED BY <1>3, <1>6 DEF f

LEMMA SpreadBears ==
  ASSUME NEW o, NEW p, NEW from, NEW e, NEW erased, NEW q \in People
  PROVE  Bears(o, q, Spread(p, from, e, erased)[q])
<1>1. EntryMessage(e, erased).type # "space-secret"
  BY DEF EntryMessage, Msg
<1>2. Bears(o, q, <<EntryMessage(e, erased)>>)
  BY <1>1, BearsOne
<1> QED BY <1>2, BearsNone DEF Spread

-----------------------------------------------------------------------------
(* What a step does to the queues.                                         *)
LEMMA SentLawful ==
  ASSUME NEW o, NEW box, Lawful(o, box), NEW p \in People,
         NEW out, \A q \in People : Bears(o, q, out[q])
  PROVE  Lawful(o, Sent(box, p, out))
<1> DEFINE b == Sent(box, p, out)
<1>1. DOMAIN b = People /\ \A q \in People : DOMAIN b[q] = People
  BY DEF Sent, Lawful
<1>2. ASSUME NEW q \in People, NEW r \in People PROVE Bears(o, q, b[q][r])
  <2>1. b[q][r] = IF r = p /\ Connected(p, q) THEN box[q][p] \o out[q] ELSE box[q][r]
    BY DEF Sent, Lawful
  <2>2. Bears(o, q, box[q][p]) /\ Bears(o, q, box[q][r]) /\ Bears(o, q, out[q])
    BY DEF Lawful
  <2>3. Bears(o, q, box[q][p] \o out[q])
    BY <2>2, BearsBoth
  <2> QED BY <2>1, <2>2, <2>3
<1> HIDE DEF b
<1>3. Lawful(o, b)
  BY <1>1, <1>2 DEF Lawful
<1> QED BY <1>3 DEF b

LEMMA TakenLawful ==
  ASSUME NEW o, Lawful(o, inbox), NEW p \in People, NEW q \in People, inbox[p][q] # <<>>
  PROVE  /\ Lawful(o, Taken(p, q))
         /\ Head(inbox[p][q]).type = "space-secret" => MayHold(o, p, Head(inbox[p][q]).what)
<1> DEFINE b == Taken(p, q)
<1>1. Bears(o, p, inbox[p][q])
  BY DEF Lawful
<1>2. /\ Bears(o, p, Tail(inbox[p][q]))
      /\ Head(inbox[p][q]).type = "space-secret" => MayHold(o, p, Head(inbox[p][q]).what)
  BY <1>1, BearsRest
<1>3. DOMAIN b = People /\ \A r \in People : DOMAIN b[r] = People
  BY DEF Taken, Lawful
<1>4. ASSUME NEW r \in People, NEW s \in People PROVE Bears(o, r, b[r][s])
  <2>1. b[r][s] = IF r = p /\ s = q THEN Tail(inbox[p][q]) ELSE inbox[r][s]
    BY DEF Taken, Lawful
  <2>2. Bears(o, r, inbox[r][s])
    BY DEF Lawful
  <2> QED BY <1>2, <2>1, <2>2
<1> HIDE DEF b
<1>5. Lawful(o, b)
  BY <1>3, <1>4 DEF Lawful
<1> QED BY <1>2, <1>5 DEF b

LEMMA PullLawful ==
  ASSUME NEW o, NEW box, Lawful(o, box), NEW p \in People, NEW s, NEW stored, IsFiniteSet(DOMAIN stored),
         NEW asked, NEW connected, Pull(p, s, stored, asked, connected, box)
  PROVE  Lawful(o, inbox')
<1>1. PICK chosen \in AskedAnew(s, stored, asked, connected) :
        inbox' = Sent(box, p, [q \in People |-> Requests(chosen, stored, q)])
  BY DEF Pull
<1>2. DOMAIN chosen \subseteq DOMAIN stored
  BY DEF AskedAnew, Wanted
<1>3. IsFiniteSet(DOMAIN chosen)
  BY <1>2, FS_Subset
<1> DEFINE out == [q \in People |-> Requests(chosen, stored, q)]
<1>4. \A q \in People : Bears(o, q, out[q])
  BY <1>3, RequestsBear
<1> HIDE DEF out
<1>5. Lawful(o, Sent(box, p, out))
  BY <1>4, SentLawful
<1> QED BY <1>1, <1>5 DEF out

(* Operations in their order, and entries in theirs, are no secrets.       *)
LEMMA LackedBears ==
  ASSUME NEW o, NEW r, occasion \in Occasions, NEW p, NEW q, NEW known
  PROVE  LET lacks == InOrder(Lacks(p, q, known), <)
         IN  Bears(o, r, [i \in DOMAIN lacks |-> OpMessage(lacks[i])])
<1> DEFINE S == Lacks(p, q, known)
           n == Cardinality(S)
           lacks == InOrder(S, <)
           f == [i \in DOMAIN lacks |-> OpMessage(lacks[i])]
<1>1. n \in Nat
  <2>1. Known(knows[p]) \in Nat
    BY Story, KnownOf
  <2>2. IsFiniteSet(1..Known(knows[p])) /\ S \subseteq 1..Known(knows[p])
    BY <2>1, FS_Interval DEF Lacks
  <2> HIDE DEF S
  <2> QED BY <2>2, FS_Subset, FS_CardinalityType
<1>2. DOMAIN lacks = 1..n
  BY DEF InOrder
<1> HIDE DEF lacks, n
<1>3. f = [i \in 1..n |-> f[i]] /\ \A i \in 1..n : f[i].type # "space-secret"
  BY <1>2 DEF OpMessage, Msg
<1> HIDE DEF f
<1>4. Bears(o, r, f)
  BY <1>1, <1>3, BearsPlain
<1> QED BY <1>4 DEF f, lacks

LEMMA SuppliedBears ==
  ASSUME NEW o, NEW r, NEW s, NEW q, NEW entries, IsFiniteSet(entries), NEW theirs, NEW erased
  PROVE  LET lacks == Supply(s, q, entries, theirs)
         IN  Bears(o, r, [i \in DOMAIN lacks |-> EntryMessage(lacks[i], erased)])
<1> DEFINE S == {e \in entries : Sees(s, q, e.channel) /\ e.n > theirs[e.channel][e.author]}
           n == Cardinality(S)
           lacks == Supply(s, q, entries, theirs)
           f == [i \in DOMAIN lacks |-> EntryMessage(lacks[i], erased)]
<1>1. n \in Nat
  <2>1. S \subseteq entries
    OBVIOUS
  <2> HIDE DEF S
  <2> QED BY <2>1, FS_Subset, FS_CardinalityType
<1>2. DOMAIN lacks = 1..n
  BY DEF Supply, InOrder
<1> HIDE DEF lacks, n
<1>3. f = [i \in 1..n |-> f[i]] /\ \A i \in 1..n : f[i].type # "space-secret"
  BY <1>2 DEF EntryMessage, Msg
<1> HIDE DEF f
<1>4. Bears(o, r, f)
  BY <1>1, <1>3, BearsPlain
<1> QED BY <1>4 DEF f, lacks

LEMMA OnlyTo ==
  ASSUME NEW o, NEW q \in People, NEW out, Bears(o, q, out)
  PROVE  \A r \in People : Bears(o, r, [Nothing EXCEPT ![q] = out][r])
<1>1. \A r \in People : [Nothing EXCEPT ![q] = out][r] = IF r = q THEN out ELSE <<>>
  BY DEF Nothing
<1> QED BY <1>1, BearsNone

LEMMA SpreadLawful ==
  ASSUME NEW o, NEW box, Lawful(o, box), NEW p \in People, NEW from, NEW e, NEW erased
  PROVE  Lawful(o, Sent(box, p, Spread(p, from, e, erased)))
BY SpreadBears, SentLawful

-----------------------------------------------------------------------------
(* What a step does to what is stored.                                     *)
LEMMA FiledStays ==
  ASSUME Filed(files), NEW p \in People, NEW stored, IsFiniteSet(DOMAIN stored)
  PROVE  Filed([files EXCEPT ![p] = stored])
BY DEF Filed

LEMMA HeldStays ==
  ASSUME Finite(holds), NEW p \in People, NEW e
  PROVE  Finite([holds EXCEPT ![p] = holds[p] \cup {e}])
<1>1. IsFiniteSet(holds[p] \cup {e})
  BY FS_AddElement DEF Finite
<1> QED BY <1>1 DEF Finite

LEMMA RecordsFinite ==
  ASSUME NEW stored, IsFiniteSet(DOMAIN stored), NEW e, NEW entries, entries \subseteq {e}
  PROVE  IsFiniteSet(DOMAIN Records(stored, entries))
<1>1. {Id(d) : d \in entries} \subseteq {Id(e)}
  OBVIOUS
<1>2. IsFiniteSet({Id(d) : d \in entries})
  BY <1>1, FS_Singleton, FS_Subset
<1>3. DOMAIN Records(stored, entries) = DOMAIN stored \cup {Id(d) : d \in entries}
  BY DEF Records
<1> QED BY <1>2, <1>3, FS_Union

LEMMA UnfileFinite ==
  ASSUME NEW stored, IsFiniteSet(DOMAIN stored), NEW s, NEW entries
  PROVE  IsFiniteSet(DOMAIN Unfile(stored, s, entries))
<1>1. DOMAIN Unfile(stored, s, entries) = DOMAIN stored
  BY DEF Unfile
<1> QED BY <1>1

LEMMA StoresKeep ==
  ASSUME Finite(holds), Filed(files), NEW p \in People, NEW e, NEW described, IsFiniteSet(DOMAIN described),
         Stores(p, e, described)
  PROVE  Finite(holds') /\ Filed(files')
<1>1. /\ holds' = [holds EXCEPT ![p] = holds[p] \cup {e}]
      /\ files' = [files EXCEPT ![p] = Unfile(described, View(p), holds[p] \cup {e})]
  BY DEF Stores
<1>2. IsFiniteSet(DOMAIN Unfile(described, View(p), holds[p] \cup {e}))
  BY UnfileFinite
<1> QED BY <1>1, <1>2, HeldStays, FiledStays

(* A step that gives nobody a secret.                                      *)
LEMMA GivesNone ==
  ASSUME IInv, occasion' = occasion, secrets' = secrets, Finite(holds'), Filed(files'),
         Lawful(occasion, inbox')
  PROVE  IInv'
BY DEF IInv

LEMMA Only ==
  ASSUME IInv, occasion' = occasion, secrets' = secrets, holds' = holds, files' = files,
         Lawful(occasion, inbox')
  PROVE  IInv'
BY DEF IInv

-----------------------------------------------------------------------------
(* An operation is kept: whoever makes the secret of its epoch administers *)
(* the space as they know it, and whom it is shared with is a member.      *)
LEMMA AppliedKeeps ==
  ASSUME IInv, occasion' = occasion, NEW p \in People, NEW from, NEW n, NEW box, Lawful(occasion, box),
         Applied(p, from, n, box), holds' = holds, files' = files
  PROVE  IInv'
<1> DEFINE known == Known(knows'[p])
           members == {q \in joined[p] : Rank(After(known), q) # None}
           told == {q \in joined[p] \ from : q \in members \/ Removes(n, q)}
           op(q) == IF q \in told THEN <<OpMessage(n)>> ELSE <<>>
           revokes == occasion.story[n].kind \in Revokes
           held == IF revokes THEN Rotated(p, secrets[p], known) ELSE secrets[p]
           out == [q \in People |-> op(q) \o IF revokes /\ q \in members THEN Shares(q, held, known) ELSE <<>>]
<1>1. secrets' = [secrets EXCEPT ![p] = held] /\ inbox' = Sent(box, p, out)
  BY DEF Applied
<1>2. known \in 0..Len(occasion.story) /\ Len(occasion.story) \in Nat /\ Epoch(known) \in 0..known
  BY KnownOf, Story, EpochOf DEF IInv
<1>3. /\ DOMAIN secrets = People /\ IsFiniteSet(secrets[p])
      /\ \A x \in secrets[p] : MayHold(occasion, p, x)
  BY DEF IInv, Entitled
<1>4. IsFiniteSet(held) /\ \A x \in held : MayHold(occasion, p, x)
  <2> DEFINE x == [epoch |-> Epoch(known), author |-> p, hash |-> occasion.hash[p]]
  <2> HIDE DEF known
  <2>1. CASE held = secrets[p]
    BY <1>3, <2>1
  <2>2. CASE held # secrets[p]
    <3>1. held = secrets[p] \cup {x} /\ ~(Rank(After(known), p) < Administrator)
      BY <2>2 DEF Rotated
    <3>2. Rank(After(known), p) # None
      BY <3>1 DEF Administrator, None
    <3>3. known \in x.epoch..Len(occasion.story)
      BY <1>2
    <3> HIDE DEF x, held
    <3>4. MayHold(occasion, p, x)
      BY <3>2, <3>3 DEF MayHold, After
    <3>5. IsFiniteSet(secrets[p] \cup {x})
      BY <1>3, FS_AddElement
    <3> QED BY <1>3, <3>1, <3>4, <3>5
  <2> QED BY <2>1, <2>2
<1> HIDE DEF held, known
<1>5. ASSUME NEW q \in People PROVE Bears(occasion, q, out[q])
  <2>1. Bears(occasion, q, <<OpMessage(n)>>)
    BY BearsOne DEF OpMessage, Msg
  <2>2. Bears(occasion, q, op(q))
    BY <2>1, BearsNone
  <2>3. Bears(occasion, q, Shares(q, held, known))
    BY <1>2, <1>4, SharesBear DEF IInv
  <2>4. Bears(occasion, q, IF revokes /\ q \in members THEN Shares(q, held, known) ELSE <<>>)
    BY <2>3, BearsNone
  <2> QED BY <2>2, <2>4, BearsBoth
<1> HIDE DEF out
<1>6. Lawful(occasion, inbox')
  BY <1>1, <1>5, SentLawful
<1>7. Entitled(occasion, secrets')
  BY <1>1, <1>3, <1>4 DEF IInv, Entitled
<1> QED BY <1>6, <1>7 DEF IInv

(* What is handled first leaves the rest of the queue.                     *)
LEMMA Foremosts ==
  ASSUME IInv, NEW p \in People, NEW q \in People, NEW type, Foremost(p, q, type)
  PROVE  /\ Lawful(occasion, Taken(p, q)) /\ Head(inbox[p][q]).type = type
         /\ type = "space-secret" => MayHold(occasion, p, Head(inbox[p][q]).what)
<1>1. inbox[p][q] # <<>> /\ Head(inbox[p][q]).type = type
  BY DEF Foremost
<1> QED BY <1>1, TakenLawful DEF IInv

LEMMA Stored ==
  ASSUME IInv, NEW p \in People
  PROVE  /\ Finite(holds) /\ Filed(files) /\ Lawful(occasion, inbox)
         /\ IsFiniteSet(holds[p]) /\ IsFiniteSet(DOMAIN files[p]) /\ IsFiniteSet(secrets[p])
BY DEF IInv, Finite, Filed, Entitled

LEMMA OperatingKeeps ==
  ASSUME IInv, NEW p \in People, Operate(p)
  PROVE  IInv'
<1> DEFINE n == Known(UNION {knows[q] : q \in People}) + 1
<1>1. Applied(p, {}, n, inbox) /\ UNCHANGED <<occasion, holds, files>>
  BY DEF Operate
<1> HIDE DEF n
<1> QED BY <1>1, Stored, AppliedKeeps

LEMMA WritingKeeps ==
  ASSUME IInv, NEW p \in People, Write(p) \/ Attach(p)
  PROVE  IInv'
<1>1. PICK e, described :
        /\ described = files[p] \/ described = Attaches(files[p], e)
        /\ Stores(p, e, described) /\ inbox' = Sent(inbox, p, Spread(p, {}, e, {}))
  BY DEF Write, Attach
<1>2. occasion' = occasion /\ secrets' = secrets
  BY DEF Write, Attach
<1>3. IsFiniteSet(DOMAIN described)
  <2>1. IsFiniteSet(DOMAIN Records(files[p], {e}))
    BY Stored, RecordsFinite
  <2>2. DOMAIN Attaches(files[p], e) = DOMAIN Records(files[p], {e})
    BY DEF Attaches
  <2> QED BY <1>1, <2>1, <2>2, Stored
<1>4. Lawful(occasion, inbox')
  BY <1>1, Stored, SpreadLawful
<1>5. Finite(holds') /\ Filed(files')
  BY <1>1, <1>3, Stored, StoresKeep
<1> QED BY <1>2, <1>4, <1>5, GivesNone

LEMMA FetchingKeeps ==
  ASSUME IInv, NEW p \in People, Fetch(p)
  PROVE  IInv'
<1>1. PICK f \in DOMAIN files[p] :
        /\ files' = [files EXCEPT ![p] = Wants(files[p], f)]
        /\ Pull(p, View(p), Wants(files[p], f), asks[p], ready[p], inbox)
  BY DEF Fetch
<1>2. UNCHANGED <<occasion, holds, secrets>>
  BY DEF Fetch
<1>3. IsFiniteSet(DOMAIN Wants(files[p], f))
  <2>1. DOMAIN Wants(files[p], f) = DOMAIN files[p]
    BY DEF Wants
  <2> QED BY <2>1, Stored
<1>4. Lawful(occasion, inbox')
  BY <1>1, <1>3, Stored, PullLawful
<1>5. Filed(files')
  BY <1>1, <1>3, Stored, FiledStays
<1> QED BY <1>2, <1>4, <1>5, Stored, GivesNone

LEMMA ReadyKeeps ==
  ASSUME IInv, NEW p \in People, NEW q \in People, HandleReady(p, q)
  PROVE  IInv'
<1> DEFINE out == [Nothing EXCEPT ![q] = Syncs(p, q)]
           asked == [f \in DOMAIN asks[p] |-> [asks[p][f] EXCEPT !.tried = @ \ {q}]]
<1>1. /\ Foremost(p, q, "ready") /\ UNCHANGED <<occasion, holds, files, secrets>>
      /\ Pull(p, View(p), files[p], asked, ready'[p], Sent(Taken(p, q), p, out))
  BY DEF HandleReady, store
<1>2. Bears(occasion, q, Syncs(p, q))
  <2> DEFINE one == Msg("space-sync", knows[p])  two == Msg("space-holding", HeldSoFar(holds[p]))
             f == <<one, two>>
  <2>1. one.type # "space-secret" /\ two.type # "space-secret"
    BY DEF Msg
  <2> HIDE DEF one, two
  <2>2. f = [i \in 1..2 |-> f[i]] /\ \A i \in 1..2 : f[i].type # "space-secret"
    BY <2>1
  <2> HIDE DEF f
  <2>3. Bears(occasion, q, f)
    BY <2>2, BearsPlain
  <2> QED BY <2>3, BearsNone DEF Syncs, f, one, two
<1>3. \A r \in People : Bears(occasion, r, out[r])
  BY <1>2, OnlyTo
<1> HIDE DEF out, asked
<1>4. Lawful(occasion, Sent(Taken(p, q), p, out))
  BY <1>1, <1>3, Foremosts, SentLawful
<1>5. Lawful(occasion, inbox')
  BY <1>1, <1>4, Stored, PullLawful
<1> QED BY <1>1, <1>5, Only

LEMMA LostKeeps ==
  ASSUME IInv, NEW p \in People, NEW q \in People, HandleLost(p, q)
  PROVE  IInv'
<1>1. Foremost(p, q, "lost") /\ inbox' = Taken(p, q) /\ UNCHANGED <<occasion, holds, files, secrets>>
  BY DEF HandleLost, store
<1> QED BY <1>1, Foremosts, Only

LEMMA SyncKeeps ==
  ASSUME IInv, NEW p \in People, NEW q \in People, HandleSync(p, q)
  PROVE  IInv'
<1> DEFINE lacks == InOrder(Lacks(p, q, Head(inbox[p][q]).what), <)
           ops == [i \in DOMAIN lacks |-> OpMessage(lacks[i])]
           out == ops \o Shares(q, secrets[p], Known(knows[p]))
<1>1. /\ Foremost(p, q, "space-sync") /\ UNCHANGED <<occasion, holds, files, secrets>>
      /\ inbox' = Sent(Taken(p, q), p, [Nothing EXCEPT ![q] = out])
  BY DEF HandleSync, store
<1>2. Bears(occasion, q, ops)
  BY LackedBears DEF IInv
<1>3. Bears(occasion, q, Shares(q, secrets[p], Known(knows[p])))
  BY Stored, KnownOf, SharesBear DEF IInv
<1> HIDE DEF ops
<1>4. Bears(occasion, q, out)
  BY <1>2, <1>3, BearsBoth
<1> HIDE DEF out
<1>5. Lawful(occasion, inbox')
  BY <1>1, <1>4, OnlyTo, Foremosts, SentLawful
<1> QED BY <1>1, <1>5, Only

LEMMA HoldingKeeps ==
  ASSUME IInv, NEW p \in People, NEW q \in People, HandleHolding(p, q)
  PROVE  IInv'
<1> DEFINE lacks == Supply(View(p), q, holds[p], Head(inbox[p][q]).what)
           out == [i \in DOMAIN lacks |-> EntryMessage(lacks[i], wiped[p])]
<1>1. /\ Foremost(p, q, "space-holding") /\ UNCHANGED <<occasion, holds, files, secrets>>
      /\ inbox' = Sent(Taken(p, q), p, [Nothing EXCEPT ![q] = out])
  BY DEF HandleHolding, store
<1>2. Bears(occasion, q, out)
  BY Stored, SuppliedBears
<1> HIDE DEF out
<1>3. Lawful(occasion, inbox')
  BY <1>1, <1>2, OnlyTo, Foremosts, SentLawful
<1> QED BY <1>1, <1>3, Only

LEMMA OperationKeeps ==
  ASSUME IInv, NEW p \in People, NEW q \in People, HandleOperation(p, q)
  PROVE  IInv'
<1> DEFINE n == Head(inbox[p][q]).what
<1>1. Foremost(p, q, "space-operation") /\ UNCHANGED <<occasion, holds, files>>
  BY DEF HandleOperation
<1>2. CASE n \in knows[p]
  <2>1. inbox' = Taken(p, q) /\ UNCHANGED secrets
    BY <1>2 DEF HandleOperation
  <2> QED BY <1>1, <2>1, Foremosts, Only
<1>3. CASE n \notin knows[p]
  <2>1. Applied(p, {q}, n, Taken(p, q))
    BY <1>3 DEF HandleOperation
  <2> QED BY <1>1, <2>1, Foremosts, AppliedKeeps
<1> QED BY <1>2, <1>3

LEMMA SecretKeeps ==
  ASSUME IInv, NEW p \in People, NEW q \in People, HandleSecret(p, q)
  PROVE  IInv'
<1> DEFINE x == Head(inbox[p][q]).what
           held == secrets[p] \cup {x}
           known == Known(knows[p])
           out == [r \in People |-> IF News(p, held, known) # {} /\ r \in joined[p] \ {q}
                                    THEN Shares(r, held, known) ELSE <<>>]
<1>1. /\ Foremost(p, q, "space-secret") /\ UNCHANGED <<occasion, holds, files>>
      /\ secrets' = [secrets EXCEPT ![p] = held]
      /\ inbox' = Sent(Taken(p, q), p, out)
  BY DEF HandleSecret
<1>2. MayHold(occasion, p, x) /\ Lawful(occasion, Taken(p, q))
  BY <1>1, Foremosts
<1> HIDE DEF x
<1>3. IsFiniteSet(held) /\ known \in 0..Len(occasion.story)
  BY Stored, FS_AddElement, KnownOf DEF IInv
<1>4. Entitled(occasion, secrets')
  BY <1>1, <1>2, <1>3 DEF IInv, Entitled
<1> HIDE DEF held, known
<1>5. \A r \in People : Bears(occasion, r, out[r])
  BY <1>3, SharesBear, BearsNone DEF IInv
<1> HIDE DEF out
<1>6. Lawful(occasion, inbox')
  BY <1>1, <1>2, <1>5, SentLawful
<1> QED BY <1>1, <1>4, <1>6 DEF IInv

LEMMA EntryKeeps ==
  ASSUME IInv, NEW p \in People, NEW q \in People, HandleEntry(p, q)
  PROVE  IInv'
<1> DEFINE e == Head(inbox[p][q]).what.entry
           erased == {d \in {e} : Head(inbox[p][q]).what.wiped}
           kept == holds[p] \cup {e}
           attached == {d \in {e} \ erased : e.kind \in Attached}
           recorded == Records(files[p], attached)
           stored == IF e.kind \in {"edit", "deletion"} THEN Unfile(recorded, View(p), kept) ELSE recorded
           box == Sent(Taken(p, q), p, Spread(p, {q}, e, erased))
<1>1. Foremost(p, q, "group-message") /\ UNCHANGED <<occasion, secrets>>
  BY DEF HandleEntry
<1>2. Lawful(occasion, Taken(p, q)) /\ Lawful(occasion, box)
  BY <1>1, Foremosts, SpreadLawful
<1>3. CASE ~Accepts(p, e)
  <2>1. inbox' = Taken(p, q) /\ UNCHANGED <<holds, files>>
    BY <1>3 DEF HandleEntry
  <2> QED BY <1>1, <1>2, <2>1, Only
<1>4. CASE Accepts(p, e)
  <2>1. /\ holds' = [holds EXCEPT ![p] = kept] /\ files' = [files EXCEPT ![p] = stored]
        /\ IF e.kind \in Attached \cup {"deletion"}
           THEN Pull(p, View(p), stored, asks[p], ready[p], box) ELSE DoesNotPull(box)
    BY <1>4 DEF HandleEntry
  <2>2. attached \subseteq {e}
    OBVIOUS
  <2>3. IsFiniteSet(DOMAIN stored)
    <3> HIDE DEF attached, kept
    <3>1. IsFiniteSet(DOMAIN recorded)
      BY <2>2, Stored, RecordsFinite
    <3> HIDE DEF recorded
    <3> QED BY <3>1, UnfileFinite
  <2> HIDE DEF stored, box, erased
  <2>4. Lawful(occasion, inbox')
    BY <1>2, <2>1, <2>3, PullLawful DEF DoesNotPull
  <2>5. Finite(holds') /\ Filed(files')
    BY <2>1, <2>3, Stored, HeldStays, FiledStays
  <2> QED BY <1>1, <2>4, <2>5, GivesNone
<1> QED BY <1>3, <1>4

LEMMA RequestKeeps ==
  ASSUME IInv, NEW p \in People, NEW q \in People, HandleRequest(p, q)
  PROVE  IInv'
<1> DEFINE f == Head(inbox[p][q]).what.file
<1>1. Foremost(p, q, "file-request") /\ UNCHANGED <<occasion, holds, files, secrets>>
  BY DEF HandleRequest, store
<1>2. \/ inbox' = Taken(p, q)
      \/ inbox' = Sent(Taken(p, q), p, [Nothing EXCEPT ![q] = <<Missing(f)>>])
  BY DEF HandleRequest
<1>3. Bears(occasion, q, <<Missing(f)>>)
  BY BearsOne DEF Missing, Msg
<1> DEFINE out == [Nothing EXCEPT ![q] = <<Missing(f)>>]
<1>4. \A r \in People : Bears(occasion, r, out[r])
  BY <1>3, OnlyTo
<1>5. Lawful(occasion, Taken(p, q))
  BY <1>1, Foremosts
<1> HIDE DEF out
<1>6. Lawful(occasion, Sent(Taken(p, q), p, out))
  BY <1>4, <1>5, SentLawful
<1> QED BY <1>1, <1>2, <1>5, <1>6, Only DEF out

LEMMA MissingKeeps ==
  ASSUME IInv, NEW p \in People, NEW q \in People, HandleMissing(p, q)
  PROVE  IInv'
<1> DEFINE f == Head(inbox[p][q]).what
<1>1. Foremost(p, q, "file-missing") /\ UNCHANGED <<occasion, holds, files, secrets>>
  BY DEF HandleMissing, store
<1>2. \/ Pull(p, View(p), files[p], TriesAnother(p, f), ready[p], Taken(p, q))
      \/ inbox' = Taken(p, q)
  BY DEF HandleMissing, DoesNotPull
<1>3. Lawful(occasion, inbox')
  BY <1>1, <1>2, Stored, Foremosts, PullLawful
<1> QED BY <1>1, <1>3, Only

LEMMA PieceKeeps ==
  ASSUME IInv, NEW p \in People, NEW q \in People, HandlePiece(p, q)
  PROVE  IInv'
<1> DEFINE stored == Arrived(files[p], Head(pieces[p][q]))
<1>1. UNCHANGED <<occasion, holds, secrets>>
  BY DEF HandlePiece
<1>2. PICK now, asking :
        /\ now = files[p] \/ now = stored
        /\ files' = files \/ files' = [files EXCEPT ![p] = now]
        /\ inbox' = inbox \/ Pull(p, View(p), now, asking, ready[p], inbox)
  BY DEF HandlePiece, DoesNotPull
<1>3. DOMAIN stored = DOMAIN files[p]
  BY DEF Arrived
<1>4. IsFiniteSet(DOMAIN now)
  BY <1>2, <1>3, Stored
<1>5. Lawful(occasion, inbox') /\ Filed(files')
  BY <1>2, <1>4, Stored, PullLawful, FiledStays
<1> QED BY <1>1, <1>5, Stored, GivesNone

-----------------------------------------------------------------------------
(* Connections begin and end, and the application starts again.            *)
LEMMA ConnectingKeeps ==
  ASSUME IInv, NEW p \in People, NEW q \in People, Connect(p, q)
  PROVE  IInv'
<1>1. /\ p # q /\ UNCHANGED <<occasion, holds, files, secrets>>
      /\ inbox' = [inbox EXCEPT ![p][q] = Append(@, Came), ![q][p] = Append(@, Came)]
  BY DEF Connect, store
<1>2. ASSUME NEW r \in People, NEW s \in People
      PROVE  Bears(occasion, r, inbox[r][s]) /\ Bears(occasion, r, Append(inbox[r][s], Came))
  <2>1. Bears(occasion, r, inbox[r][s])
    BY DEF IInv, Lawful
  <2>2. PICK S : inbox[r][s] \in Seq(S)
    BY <2>1 DEF Bears
  <2> DEFINE T == S \cup {Came}
  <2>3. inbox[r][s] \in Seq(T) /\ Came \in T
    BY <2>2, SeqMonotonic
  <2> HIDE DEF T
  <2>4. Append(inbox[r][s], Came) = inbox[r][s] \o <<Came>>
    BY <2>3, AppendIsConcat
  <2>5. Bears(occasion, r, <<Came>>)
    BY BearsOne DEF Came, Msg
  <2> QED BY <2>1, <2>4, <2>5, BearsBoth
<1>3. /\ DOMAIN inbox' = People /\ \A r \in People : DOMAIN inbox'[r] = People
      /\ \A r, s \in People : inbox'[r][s] \in {inbox[r][s], Append(inbox[r][s], Came)}
  BY <1>1 DEF IInv, Lawful
<1>4. Lawful(occasion, inbox')
  BY <1>2, <1>3 DEF Lawful
<1> QED BY <1>1, <1>4, Only

LEMMA DisconnectingKeeps ==
  ASSUME IInv, NEW p \in People, NEW q \in People, Disconnect(p, q)
  PROVE  IInv'
<1>1. UNCHANGED <<occasion, holds, files, secrets>>
  BY DEF Disconnect, store
<1>2. PICK ours \in Cut(inbox[p][q]), theirs \in Cut(inbox[q][p]) :
        inbox' = [inbox EXCEPT ![p][q] = ours, ![q][p] = theirs]
  BY DEF Disconnect
<1>3. Bears(occasion, p, ours) /\ Bears(occasion, q, theirs)
  BY BearsCut DEF IInv, Lawful
<1>4. /\ DOMAIN inbox' = People /\ \A r \in People : DOMAIN inbox'[r] = People
      /\ \A r, s \in People : \/ inbox'[r][s] = inbox[r][s]
                              \/ r = p /\ inbox'[r][s] = ours
                              \/ r = q /\ inbox'[r][s] = theirs
  BY <1>2 DEF IInv, Lawful
<1>5. Lawful(occasion, inbox')
  BY <1>3, <1>4 DEF IInv, Lawful
<1> QED BY <1>1, <1>5, Only

LEMMA RestartingKeeps ==
  ASSUME IInv, NEW p \in People, Restart(p)
  PROVE  IInv'
<1>1. inbox' = [inbox EXCEPT ![p] = Nothing] /\ UNCHANGED <<occasion, holds, files, secrets>>
  BY DEF Restart, store
<1>2. DOMAIN Nothing = People /\ \A q \in People : Nothing[q] = <<>>
  BY DEF Nothing
<1>3. /\ DOMAIN inbox' = People /\ \A r \in People : DOMAIN inbox'[r] = People
      /\ \A r, s \in People : inbox'[r][s] \in {inbox[r][s], <<>>}
  BY <1>1, <1>2 DEF IInv, Lawful
<1>4. Lawful(occasion, inbox')
  BY <1>3, BearsNone DEF IInv, Lawful
<1> QED BY <1>1, <1>4, Only

LEMMA Beginning == Init => IInv
<1> SUFFICES ASSUME Init PROVE IInv
  OBVIOUS
<1>1. occasion \in Occasions
  BY DEF Init
<1>2. Finite(holds) /\ Filed(files)
  <2>1. holds = [p \in People |-> {}] /\ files = [p \in People |-> <<>>]
    BY DEF Init
  <2>2. DOMAIN <<>> = {}
    OBVIOUS
  <2> QED BY <2>1, <2>2, FS_EmptySet DEF Finite, Filed
<1>3. Entitled(occasion, secrets)
  <2> DEFINE x == [epoch |-> 0, author |-> Creator, hash |-> occasion.hash[Creator]]
  <2>1. secrets = [p \in People |-> IF Rank(After(0), p) = None THEN {} ELSE {x}]
    BY DEF Init
  <2>2. 0 \in x.epoch..Len(occasion.story)
    BY <1>1, Story
  <2> HIDE DEF x
  <2>3. ASSUME NEW p \in People, Rank(After(0), p) # None PROVE MayHold(occasion, p, x)
    BY <2>2, <2>3 DEF MayHold, After
  <2>4. IsFiniteSet({}) /\ IsFiniteSet({x})
    BY FS_EmptySet, FS_Singleton
  <2> QED BY <2>1, <2>3, <2>4 DEF Entitled
<1>4. Lawful(occasion, inbox)
  BY BearsNone DEF Init, Nothing, Lawful
<1> QED BY <1>1, <1>2, <1>3, <1>4 DEF IInv

LEMMA Inductive == Spec => []IInv
<1>1. IInv /\ [Next]_vars => IInv'
  <2> SUFFICES ASSUME IInv, [Next]_vars PROVE IInv'
    OBVIOUS
  <2>1. CASE UNCHANGED vars
    BY <2>1 DEF vars, store, links, IInv
  <2>2. ASSUME NEW p \in People, NEW q \in People, Handle(p, q) PROVE IInv'
    BY <2>2, ReadyKeeps, LostKeeps, SyncKeeps, HoldingKeeps, OperationKeeps, SecretKeeps, EntryKeeps,
       RequestKeeps, MissingKeeps DEF Handle
  <2> QED BY <2>1, <2>2, OperatingKeeps, WritingKeeps, FetchingKeeps, RestartingKeeps, PieceKeeps,
             ConnectingKeeps, DisconnectingKeeps DEF Next
<1> QED BY <1>1, Beginning, PTL DEF Spec

-----------------------------------------------------------------------------
(* Whoever left a space or was removed holds no secret of an epoch that    *)
(* began since: epoch.go shares a secret with members alone, as the one    *)
(* who shares it knows them, and that is never before the epoch.           *)
THEOREM RemovedNeverLearn == Spec => []RemovedLearnNothing
<1>1. IInv => RemovedLearnNothing
  BY DEF IInv, Entitled, MayHold, RemovedLearnNothing, After
<1> QED BY <1>1, Inductive, PTL

-----------------------------------------------------------------------------
(***************************************************************************)
(* VoicePresence.  What p knows of a member is the latest moment it was    *)
(* told of.  Nothing on its way, or believed, says of a member what is not *)
(* so unless the member said something later; and whoever opened the space *)
(* with p was told all p knows, or will be by what is on its way.          *)
(***************************************************************************)

(* The last p knows of what m said.                                        *)
Knows(p, m) == IF m = p THEN said[p] ELSE newest[p][m]

(* As m is, if at is the moment of the last it said.                       *)
IsLast(m, x) ==
  /\ x.at <= said[m]
  /\ x.at = said[m] => IF x.leaving THEN seat[m] = Out ELSE seat[m] = x.channel /\ video[m] = x.video

(* What is on its way from p to q, and what is true of it.                 *)
OnWay(p, q) == ToSet(wire[p][q])
Carried(p, q, x) ==
  /\ {q, x.member} \subseteq Seers[x.channel] /\ x.member # q /\ x.at <= Knows(p, x.member) /\ IsLast(x.member, x)

Carries ==
  \A p, q \in Everybody : /\ \A x \in OnWay(p, q) : Carried(p, q, x)
                          /\ ~Joined(p, q) => wire[p][q] = <<>>

(* What p believes of m, which is the last it was told.                    *)
Believed(p, m) ==
  /\ left[p][m] <= newest[p][m] /\ expired[p][m] <= newest[p][m] /\ newest[p][m] <= said[m]
  /\ IF voices[p][m] = Unheard THEN newest[p][m] = left[p][m] \/ newest[p][m] = expired[p][m]
     ELSE {p, m} \subseteq Seers[voices[p][m].channel] /\ newest[p][m] = voices[p][m].at
  /\ newest[p][m] = said[m] =>
       IF seat[m] = Out THEN voices[p][m] = Unheard
       ELSE voices[p][m] = [channel |-> seat[m], at |-> said[m], video |-> video[m]]

Beliefs == \A p, m \in Everybody : IF m = p THEN voices[p][m] = Unheard ELSE Believed(p, m)

Seated == \A p \in Everybody :
  /\ seat[p] # Out => p \in Seers[seat[p]]
  /\ meshed[p] = IF seat[p] = Out THEN {} ELSE Present(p, seat[p])

(* What p has to say of m, to whoever it opened the space with.            *)
HasToSay(p, m) == broken = 0 \/ IF m = p THEN seat[p] # Out ELSE voices[p][m] # Unheard

Comes(p, q, m) ==
  \/ Knows(q, m) >= Knows(p, m)
  \/ \E x \in OnWay(p, q) : x.member = m /\ x.at >= Knows(p, m)

Passed ==
  /\ broken = 0 => opened = Directed
  /\ \A c \in Channels : \A p, q \in Seers[c] :
       Joined(p, q) => \A m \in Everybody \ {p, q} : HasToSay(p, m) => Comes(p, q, m)

(* Whoever opened the space with all it is linked to told one of them the  *)
(* last it said, although each says so to one alone as it opens it.        *)
Neighbors(m, c) == {q \in Seers[c] : {m, q} \in Links}
SaidIt == \A c \in Channels, m \in Everybody :
  m \in Seers[c] /\ HasToSay(m, m) /\ Neighbors(m, c) # {} /\ (\A q \in Neighbors(m, c) : Joined(m, q))
    => \E q \in Neighbors(m, c) : Comes(m, q, m)

VInv == TypeOKVoice /\ Seated /\ Carries /\ Beliefs /\ Passed /\ SaidIt

-----------------------------------------------------------------------------
(* What is on its way.                                                     *)
LEMMA OneOnWay ==
  ASSUME NEW S, NEW x \in S
  PROVE  <<x>> \in Seq(S) /\ ToSet(<<x>>) = {x} /\ <<>> \in Seq(S) /\ ToSet(<<>>) = {}
BY DEF ToSet

LEMMA BothOnWay ==
  ASSUME NEW S, NEW s \in Seq(S), NEW t \in Seq(S)
  PROVE  /\ s \o t \in Seq(S) /\ ToSet(s \o t) = ToSet(s) \cup ToSet(t)
         /\ ToSet(s) \subseteq S
<1>1. /\ s \o t \in Seq(S) /\ Len(s) \in Nat /\ Len(t) \in Nat
      /\ DOMAIN s = 1..Len(s) /\ DOMAIN t = 1..Len(t) /\ DOMAIN (s \o t) = 1..(Len(s) + Len(t))
      /\ \A i \in 1..Len(s) : (s \o t)[i] = s[i]
      /\ \A i \in 1..Len(t) : (s \o t)[Len(s) + i] = t[i]
  OBVIOUS
<1>2. ToSet(s \o t) = ToSet(s) \cup ToSet(t)
  <2> DEFINE w == s \o t  m == Len(s)  n == Len(t)
  <2>1. /\ m \in Nat /\ n \in Nat /\ DOMAIN s = 1..m /\ DOMAIN t = 1..n /\ DOMAIN w = 1..(m + n)
        /\ \A i \in 1..m : w[i] = s[i]
        /\ \A i \in 1..n : w[m + i] = t[i]
    BY <1>1
  <2> HIDE DEF w, m, n
  <2>2. \A i \in DOMAIN w : w[i] \in ToSet(s) \cup ToSet(t)
    <3> SUFFICES ASSUME NEW i \in 1..(m + n) PROVE w[i] \in ToSet(s) \cup ToSet(t)
      BY <2>1
    <3>1. CASE i <= m
      <4>1. i \in 1..m
        BY <2>1, <3>1
      <4> QED BY <2>1, <4>1 DEF ToSet
    <3>2. CASE i > m
      <4>1. i - m \in 1..n /\ i = m + (i - m)
        BY <2>1, <3>2
      <4> QED BY <2>1, <4>1 DEF ToSet
    <3> QED BY <2>1, <3>1, <3>2
  <2>3. \A i \in DOMAIN s : s[i] \in ToSet(w)
    <3> SUFFICES ASSUME NEW i \in 1..m PROVE s[i] \in ToSet(w)
      BY <2>1
    <3>1. i \in DOMAIN w /\ w[i] = s[i]
      BY <2>1
    <3> QED BY <3>1 DEF ToSet
  <2>4. \A i \in DOMAIN t : t[i] \in ToSet(w)
    <3> SUFFICES ASSUME NEW i \in 1..n PROVE t[i] \in ToSet(w)
      BY <2>1
    <3>1. m + i \in DOMAIN w /\ w[m + i] = t[i]
      BY <2>1
    <3> QED BY <3>1 DEF ToSet
  <2>5. ToSet(w) = ToSet(s) \cup ToSet(t)
    BY <2>2, <2>3, <2>4 DEF ToSet
  <2> QED BY <2>5 DEF w
<1>3. ToSet(s) \subseteq S
  BY <1>1 DEF ToSet
<1> QED BY <1>1, <1>2, <1>3

LEMMA FirstOfAWay ==
  ASSUME NEW S, NEW s \in Seq(S), s # <<>>
  PROVE  Head(s) \in S /\ Tail(s) \in Seq(S) /\ ToSet(s) = {Head(s)} \cup ToSet(Tail(s))
<1>1. /\ Tail(s) \in Seq(S) /\ Head(s) = s[1] /\ Head(s) \in S
      /\ Len(s) \in Nat \ {0} /\ DOMAIN s = 1..Len(s) /\ DOMAIN Tail(s) = 1..Len(s) - 1
      /\ \A i \in 1..Len(s) - 1 : Tail(s)[i] = s[i + 1]
  OBVIOUS
<1> DEFINE n == Len(s)  v == Tail(s)
<1>2. /\ n \in Nat \ {0} /\ DOMAIN s = 1..n /\ DOMAIN v = 1..n - 1 /\ Head(s) = s[1]
      /\ \A i \in 1..n - 1 : v[i] = s[i + 1]
  BY <1>1
<1> HIDE DEF n, v
<1>3. \A i \in DOMAIN s : s[i] \in {Head(s)} \cup ToSet(v)
  <2> SUFFICES ASSUME NEW i \in 1..n, i # 1 PROVE s[i] \in ToSet(v)
    BY <1>2
  <2>1. i - 1 \in DOMAIN v /\ v[i - 1] = s[i]
    BY <1>2
  <2> QED BY <2>1 DEF ToSet
<1>4. Head(s) \in ToSet(s) /\ \A i \in DOMAIN v : v[i] \in ToSet(s)
  <2>1. 1 \in DOMAIN s /\ \A i \in DOMAIN v : i + 1 \in DOMAIN s /\ v[i] = s[i + 1]
    BY <1>2
  <2> QED BY <1>2, <2>1 DEF ToSet
<1>5. ToSet(s) = {Head(s)} \cup ToSet(v)
  BY <1>3, <1>4 DEF ToSet
<1> QED BY <1>1, <1>5 DEF v

(* Those p was told are in a channel, as it tells q.                       *)
Aware(p, q) == {m \in Everybody \ {p, q} : voices[p][m] # Unheard /\ q \in Seers[voices[p][m].channel]}
AsHeld(p, m) == Saying(m, voices[p][m].channel, voices[p][m].at, FALSE, voices[p][m].video)

LEMMA HeldIs ==
  ASSUME TypeOKVoice, NEW p \in Everybody, NEW q \in Everybody
  PROVE  /\ Held(p, q) \in Seq(Presences)
         /\ ToSet(Held(p, q)) = {AsHeld(p, m) : m \in Aware(p, q)}
<1> DEFINE K == Aware(p, q)  n == Cardinality(K)  f == SetToSeq(K)
<1>1. IsFiniteSet(K)
  <2>1. K \subseteq Everybody
    BY DEF Aware
  <2> HIDE DEF K
  <2> QED BY <2>1, VoiceAssumption, FS_Subset
<1>2. n \in Nat /\ f \in [1..n -> K] /\ \A m \in K : \E i \in 1..n : f[i] = m
  <2> HIDE DEF K
  <2>1. n \in Nat /\ ExistsBijection(1..n, K)
    BY <1>1, FS_CardinalityType
  <2>2. \E g \in [1..n -> K] : IsInjective(g)
    BY <2>1 DEF ExistsBijection, Bijection, Injection
  <2>3. f \in [1..n -> K] /\ IsInjective(f)
    BY <2>2 DEF SetToSeq
  <2>4. \A m \in K : \E i \in 1..n : f[i] = m
    <3> DEFINE R == {f[i] : i \in 1..n}
    <3>1. R \subseteq K
      BY <2>3
    <3>2. f \in Injection(1..n, R) /\ f \in Surjection(1..n, R)
      BY <2>3 DEF Injection, Surjection, IsInjective
    <3>3. f \in Bijection(1..n, R)
      BY <3>2 DEF Bijection
    <3> HIDE DEF R
    <3>4. IsFiniteSet(R) /\ Cardinality(R) = n
      <4>1. IsFiniteSet(1..n) /\ Cardinality(1..n) = n
        BY <2>1, FS_Interval
      <4> QED BY <3>3, <4>1, FS_Bijection DEF ExistsBijection
    <3>5. R = K
      BY <1>1, <3>1, <3>4, FS_Subset
    <3> QED BY <3>5 DEF R
  <2> QED BY <2>1, <2>3, <2>4
<1>3. \A m \in K : AsHeld(p, m) \in Presences
  <2> SUFFICES ASSUME NEW m \in K PROVE AsHeld(p, m) \in Presences
    OBVIOUS
  <2>1. m \in Everybody /\ voices[p][m] # Unheard
    BY DEF Aware
  <2>2. voices[p][m] \in [channel : Channels, at : Numbers, video : BOOLEAN]
    BY <2>1 DEF TypeOKVoice
  <2> QED BY <2>1, <2>2 DEF AsHeld, Saying, Presences
<1> DEFINE h == [i \in 1..n |-> AsHeld(p, f[i])]
<1>4. Held(p, q) = h
  BY DEF Held, AsHeld, Aware
<1> HIDE DEF K, f, n
<1>5. h \in Seq(Presences) /\ Len(h) = n
  <2>1. h \in [1..n -> Presences]
    BY <1>2, <1>3
  <2> QED BY <1>2, <2>1, IsASeq
<1>6. ToSet(h) = {AsHeld(p, m) : m \in K}
  <2>1. DOMAIN h = 1..n
    OBVIOUS
  <2> QED BY <1>2, <2>1 DEF ToSet
<1> QED BY <1>4, <1>5, <1>6 DEF K

-----------------------------------------------------------------------------
(* Types.                                                                  *)
Wires == [Everybody -> [Everybody -> Seq(Presences)]]

LEMMA Numbered ==
  ASSUME NEW p \in Everybody, NEW n \in Nat \ {0}, n <= MaxSaid[p]
  PROVE  n \in Numbers
<1>1. MaxSaid[p] \in Nat
  BY VoiceAssumption
<1>2. n \in 1..MaxSaid[p]
  BY <1>1
<1> QED BY <1>2 DEF Numbers

LEMMA NumbersAre == Numbers \subseteq Nat \ {0}
<1> SUFFICES ASSUME NEW n \in Numbers PROVE n \in Nat \ {0}
  OBVIOUS
<1>1. PICK m \in Everybody : n \in 1..MaxSaid[m]
  BY DEF Numbers
<1> QED BY <1>1, VoiceAssumption

LEMMA Pairs ==
  ASSUME NEW p, NEW q, <<p, q>> \in Directed
  PROVE  p \in Everybody /\ q \in Everybody /\ p # q /\ {p, q} \in Links /\ <<q, p>> \in Directed
<1>1. p \in Everybody /\ q \in Everybody /\ {p, q} \in Links
  BY DEF Directed
<1>2. p # q
  <2> SUFFICES ASSUME p = q PROVE FALSE
    OBVIOUS
  <2>1. {p, q} = {p}
    OBVIOUS
  <2>2. Cardinality({p}) = 1
    BY FS_Singleton
  <2>3. Cardinality({p, q}) = 2
    BY <1>1, VoiceAssumption
  <2> QED BY <2>1, <2>2, <2>3
<1>3. {q, p} = {p, q}
  OBVIOUS
<1> QED BY <1>1, <1>2, <1>3 DEF Directed

(* What p says is on its way to whoever it passes it on to, and nothing    *)
(* else changes.                                                           *)
Passing(w, p, from, x) == [w EXCEPT ![p] = [q \in Everybody |-> @[q] \o PassedOn(p, q, from, x)]]

LEMMA PassedOnWay ==
  ASSUME NEW w \in Wires, NEW v, NEW p \in Everybody, NEW from, NEW x \in Presences,
         v = Passing(w, p, from, x)
  PROVE  /\ v \in Wires
         /\ \A q \in Everybody : ToSet(v[p][q]) = ToSet(w[p][q]) \cup ToSet(PassedOn(p, q, from, x))
         /\ \A q \in Everybody : ~Joined(p, q) => v[p][q] = w[p][q]
         /\ \A o, q \in Everybody : o # p => v[o][q] = w[o][q]
<1>1. ASSUME NEW q \in Everybody
      PROVE  /\ w[p][q] \in Seq(Presences) /\ PassedOn(p, q, from, x) \in Seq(Presences)
             /\ ~Joined(p, q) => PassedOn(p, q, from, x) = <<>>
  BY DEF Wires, PassedOn
<1>2. /\ v[p] = [q \in Everybody |-> w[p][q] \o PassedOn(p, q, from, x)]
      /\ v = [o \in Everybody |-> IF o = p THEN v[p] ELSE w[o]]
  BY DEF Wires, Passing
<1>3. ASSUME NEW q \in Everybody
      PROVE  /\ v[p][q] \in Seq(Presences)
             /\ ToSet(v[p][q]) = ToSet(w[p][q]) \cup ToSet(PassedOn(p, q, from, x))
  BY <1>1, <1>2, BothOnWay
<1>4. ASSUME NEW q \in Everybody, ~Joined(p, q) PROVE v[p][q] = w[p][q]
  <2>1. v[p][q] = w[p][q] \o <<>>
    BY <1>1, <1>2, <1>4
  <2>2. w[p][q] \o <<>> = w[p][q]
    BY <1>1
  <2> QED BY <2>1, <2>2
<1>5. v \in Wires
  BY <1>2, <1>3 DEF Wires
<1>6. \A o, q \in Everybody : o # p => v[o][q] = w[o][q]
  BY <1>2
<1> QED BY <1>3, <1>4, <1>5, <1>6

LEMMA SayingTyped ==
  ASSUME NEW p \in Everybody, NEW c \in Channels, NEW n \in Nat \ {0}, n <= MaxSaid[p],
         NEW leaving \in BOOLEAN, NEW on \in BOOLEAN
  PROVE  Saying(p, c, n, leaving, on) \in Presences
BY Numbered DEF Saying, Presences

LEMMA JoiningTyped ==
  ASSUME TypeOKVoice, NEW p \in Everybody, NEW c \in Channels, NEW on \in BOOLEAN, JoinVoice(p, c, on)
  PROVE  TypeOKVoice'
<1> DEFINE leaving == Saying(p, seat[p], said[p] + 1, TRUE, video[p])
           joining == Saying(p, c, said'[p], FALSE, on)
<1>1. /\ said[p] \in Nat /\ said'[p] = said[p] + IF seat[p] \in {Out, c} THEN 1 ELSE 2
      /\ said'[p] <= MaxSaid[p] /\ said' \in [Everybody -> Nat] /\ said'[p] \in Nat \ {0}
      /\ \A q \in Everybody : said'[q] <= MaxSaid[q]
  BY DEF JoinVoice, TypeOKVoice
<1>2. joining \in Presences
  BY <1>1, SayingTyped
<1>3. wire \in Wires
  BY DEF TypeOKVoice, Wires
<1>4. CASE seat[p] \in {Out, c}
  <2>1. wire' = Passing(wire, p, p, joining)
    BY <1>4 DEF JoinVoice, PassesOn, Passing
  <2> HIDE DEF joining
  <2>2. wire' \in Wires
    BY <1>2, <1>3, <2>1, PassedOnWay
  <2> QED BY <1>1, <2>2 DEF JoinVoice, TypeOKVoice, Wires, belief, Mesh
<1>5. CASE seat[p] \notin {Out, c}
  <2>1. leaving \in Presences
    <3>1. seat[p] \in Channels /\ video[p] \in BOOLEAN
      BY <1>5 DEF TypeOKVoice
    <3>2. said[p] + 1 \in Nat \ {0} /\ said[p] + 1 <= MaxSaid[p]
      BY <1>1, <1>5, VoiceAssumption
    <3> QED BY <3>1, <3>2, SayingTyped
  <2>2. wire' = [wire EXCEPT ![p] =
                  [q \in Everybody |-> @[q] \o PassedOn(p, q, p, leaving) \o PassedOn(p, q, p, joining)]]
    BY <1>5 DEF JoinVoice
  <2> HIDE DEF joining, leaving
  <2>3. \A q \in Everybody : /\ wire[p][q] \in Seq(Presences)
                             /\ PassedOn(p, q, p, leaving) \in Seq(Presences)
                             /\ PassedOn(p, q, p, joining) \in Seq(Presences)
    BY <1>2, <1>3, <2>1 DEF Wires, PassedOn
  <2>4. \A q \in Everybody :
          wire[p][q] \o PassedOn(p, q, p, leaving) \o PassedOn(p, q, p, joining) \in Seq(Presences)
    BY <2>3
  <2>5. wire' \in Wires
    BY <1>3, <2>2, <2>4 DEF Wires
  <2> QED BY <1>1, <2>5 DEF JoinVoice, TypeOKVoice, Wires, belief, Mesh
<1> QED BY <1>4, <1>5

LEMMA SaysTyped ==
  ASSUME TypeOKVoice, NEW p \in Everybody, seat[p] # Out, NEW leaving \in BOOLEAN, NEW on \in BOOLEAN,
         Says(p, leaving, on)
  PROVE  /\ said' \in [Everybody -> Nat] /\ said' = [said EXCEPT ![p] = said[p] + 1]
         /\ \A q \in Everybody : said'[q] <= MaxSaid[q]
         /\ Saying(p, seat[p], said'[p], leaving, on) \in Presences /\ wire' \in Wires
<1> DEFINE x == Saying(p, seat[p], said'[p], leaving, on)
<1>1. /\ said[p] \in Nat /\ said' = [said EXCEPT ![p] = said[p] + 1] /\ said[p] < MaxSaid[p]
      /\ said' \in [Everybody -> Nat] /\ said'[p] = said[p] + 1 /\ MaxSaid[p] \in Nat
  <2>1. said \in [Everybody -> Nat] /\ said' = [said EXCEPT ![p] = @ + 1] /\ said[p] < MaxSaid[p]
    BY DEF Says, TypeOKVoice
  <2>2. MaxSaid[p] \in Nat
    BY VoiceAssumption
  <2> QED BY <2>1, <2>2
<1>2. \A q \in Everybody : said'[q] <= MaxSaid[q]
  BY <1>1, VoiceAssumption DEF TypeOKVoice
<1>3. seat[p] \in Channels
  BY DEF TypeOKVoice
<1>4. x \in Presences
  BY <1>1, <1>2, <1>3, SayingTyped
<1>5. wire' = Passing(wire, p, p, x)
  BY DEF Says, PassesOn, Passing
<1> HIDE DEF x
<1>6. wire' \in Wires
  <2>1. wire \in Wires
    BY DEF TypeOKVoice, Wires
  <2> QED BY <1>4, <1>5, <2>1, PassedOnWay
<1> QED BY <1>1, <1>2, <1>4, <1>6 DEF x

LEMMA LeavingTyped == ASSUME TypeOKVoice, NEW p \in Everybody, LeaveVoice(p) PROVE TypeOKVoice'
<1>1. seat[p] # Out /\ Says(p, TRUE, video[p]) /\ video[p] \in BOOLEAN
  BY DEF LeaveVoice, TypeOKVoice
<1>2. /\ said' \in [Everybody -> Nat] /\ \A q \in Everybody : said'[q] <= MaxSaid[q]
      /\ wire' \in Wires
  BY <1>1, SaysTyped
<1> QED BY <1>2 DEF LeaveVoice, TypeOKVoice, Wires, belief, Mesh

LEMMA ShowingTyped == ASSUME TypeOKVoice, NEW p \in Everybody, VoiceVideo(p) PROVE TypeOKVoice'
<1>1. seat[p] # Out /\ Says(p, FALSE, ~video[p]) /\ (~video[p]) \in BOOLEAN
  BY DEF VoiceVideo, TypeOKVoice
<1>2. /\ said' \in [Everybody -> Nat] /\ \A q \in Everybody : said'[q] <= MaxSaid[q]
      /\ wire' \in Wires
  BY <1>1, SaysTyped
<1>3. video' \in [Everybody -> BOOLEAN]
  BY DEF VoiceVideo, TypeOKVoice
<1> QED BY <1>2, <1>3 DEF VoiceVideo, TypeOKVoice, Wires, belief

LEMMA RenewingTyped == ASSUME TypeOKVoice, NEW p \in Everybody, Renew(p) PROVE TypeOKVoice'
<1>1. PICK gone \in SUBSET Silent(p) :
        /\ IF seat[p] # Out THEN Says(p, FALSE, video[p]) ELSE gone # {} /\ UNCHANGED <<said, wire>>
        /\ expired' = [expired EXCEPT ![p] = [m \in Everybody |-> IF m \in gone THEN voices[p][m].at ELSE @[m]]]
        /\ voices' = [voices EXCEPT ![p] = [m \in Everybody |-> IF m \in gone THEN Unheard ELSE @[m]]]
        /\ UNCHANGED <<seat, video, left, newest, opened, broken>>
        /\ Mesh(p)
  BY DEF Renew
<1>2. /\ said' \in [Everybody -> Nat] /\ \A q \in Everybody : said'[q] <= MaxSaid[q]
      /\ wire' \in Wires
  <2>1. CASE seat[p] # Out
    <3>1. Says(p, FALSE, video[p]) /\ video[p] \in BOOLEAN
      BY <1>1, <2>1 DEF TypeOKVoice
    <3> QED BY <2>1, <3>1, SaysTyped
  <2>2. CASE seat[p] = Out
    BY <1>1, <2>2 DEF TypeOKVoice, Wires
  <2> QED BY <2>1, <2>2
<1>3. \A m \in gone : voices[p][m].at \in Numbers
  <2> SUFFICES ASSUME NEW m \in gone PROVE voices[p][m].at \in Numbers
    OBVIOUS
  <2>1. m \in Everybody /\ voices[p][m] # Unheard
    BY <1>1 DEF Silent
  <2>2. voices[p][m] \in [channel : Channels, at : Numbers, video : BOOLEAN]
    BY <2>1 DEF TypeOKVoice
  <2> QED BY <2>2
<1>4. expired' \in [Everybody -> [Everybody -> {0} \cup Numbers]]
  <2>1. expired \in [Everybody -> [Everybody -> {0} \cup Numbers]]
    BY DEF TypeOKVoice
  <2> QED BY <1>1, <1>3, <2>1
<1>5. voices' \in [Everybody -> [Everybody -> {Unheard} \cup [channel : Channels, at : Numbers, video : BOOLEAN]]]
  BY <1>1 DEF TypeOKVoice
<1>6. meshed' \in [Everybody -> SUBSET Everybody]
  BY <1>1 DEF TypeOKVoice, Mesh
<1> QED BY <1>1, <1>2, <1>4, <1>5, <1>6 DEF TypeOKVoice, Wires

(* What is taken, and what is then on its way.                             *)
TakenOff(w, q, p) == [w EXCEPT ![q][p] = Tail(@)]

LEMMA TakenFromWay ==
  ASSUME NEW w \in Wires, NEW p \in Everybody, NEW q \in Everybody, w[q][p] # <<>>
  PROVE  /\ TakenOff(w, q, p) \in Wires /\ Head(w[q][p]) \in Presences
         /\ ToSet(w[q][p]) = {Head(w[q][p])} \cup ToSet(TakenOff(w, q, p)[q][p])
         /\ \A o, r \in Everybody : <<o, r>> # <<q, p>> => TakenOff(w, q, p)[o][r] = w[o][r]
<1>1. w[q][p] \in Seq(Presences)
  BY DEF Wires
<1>2. /\ Head(w[q][p]) \in Presences /\ Tail(w[q][p]) \in Seq(Presences)
      /\ ToSet(w[q][p]) = {Head(w[q][p])} \cup ToSet(Tail(w[q][p]))
  BY <1>1, FirstOfAWay
<1>3. TakenOff(w, q, p)[q][p] = Tail(w[q][p])
  BY DEF TakenOff, Wires
<1>4. TakenOff(w, q, p) \in Wires
  BY <1>2 DEF TakenOff, Wires
<1>5. \A o, r \in Everybody : <<o, r>> # <<q, p>> => TakenOff(w, q, p)[o][r] = w[o][r]
  BY DEF TakenOff, Wires
<1> QED BY <1>2, <1>3, <1>4, <1>5

LEMMA BelievingTyped ==
  ASSUME TypeOKVoice, NEW p \in Everybody, NEW x \in Presences, Believes(p, x)
  PROVE  /\ voices' \in [Everybody -> [Everybody ->
              {Unheard} \cup [channel : Channels, at : Numbers, video : BOOLEAN]]]
         /\ left' \in [Everybody -> [Everybody -> {0} \cup Numbers]]
         /\ expired' \in [Everybody -> [Everybody -> {0} \cup Numbers]]
         /\ newest' \in [Everybody -> [Everybody -> {0} \cup Numbers]]
<1>1. /\ x.member \in Everybody /\ x.channel \in Channels /\ x.at \in Numbers
      /\ [channel |-> x.channel, at |-> x.at, video |-> x.video] \in
           [channel : Channels, at : Numbers, video : BOOLEAN]
  BY DEF Presences
<1>2. voices' \in [Everybody -> [Everybody -> {Unheard} \cup [channel : Channels, at : Numbers, video : BOOLEAN]]]
  <2> DEFINE R == {Unheard} \cup [channel : Channels, at : Numbers, video : BOOLEAN]
             y == IF x.leaving THEN Unheard ELSE [channel |-> x.channel, at |-> x.at, video |-> x.video]
  <2>1. voices \in [Everybody -> [Everybody -> R]] /\ y \in R /\ voices' = [voices EXCEPT ![p][x.member] = y]
    BY <1>1 DEF TypeOKVoice, Believes
  <2> HIDE DEF R, y
  <2>2. voices' \in [Everybody -> [Everybody -> R]]
    BY <1>1, <2>1
  <2> QED BY <2>2 DEF R
<1>3. left \in [Everybody -> [Everybody -> {0} \cup Numbers]] /\ newest \in [Everybody -> [Everybody -> {0} \cup Numbers]]
  BY DEF TypeOKVoice
<1>4. left' \in [Everybody -> [Everybody -> {0} \cup Numbers]]
  <2> DEFINE y == IF x.leaving THEN x.at ELSE 0
  <2>1. y \in {0} \cup Numbers /\ left' = [left EXCEPT ![p][x.member] = y]
    BY <1>1 DEF Believes
  <2> HIDE DEF y
  <2> QED BY <1>1, <1>3, <2>1
<1>5. newest' \in [Everybody -> [Everybody -> {0} \cup Numbers]]
  <2> DEFINE y == IF x.at > newest[p][x.member] THEN x.at ELSE newest[p][x.member]
  <2>1. y \in {0} \cup Numbers
    BY <1>1, <1>3
  <2>2. newest' = [newest EXCEPT ![p][x.member] = y]
    BY DEF Believes
  <2> HIDE DEF y
  <2> QED BY <1>1, <1>3, <2>1, <2>2
<1> QED BY <1>2, <1>4, <1>5 DEF Believes, TypeOKVoice

LEMMA HearingTyped == ASSUME TypeOKVoice, NEW p \in Everybody, NEW q \in Everybody, Hear(p, q) PROVE TypeOKVoice'
<1> DEFINE x == Head(wire[q][p])  taken == TakenOff(wire, q, p)
<1>1. wire \in Wires /\ wire[q][p] # <<>>
  BY DEF Hear, TypeOKVoice, Wires
<1>2. taken \in Wires /\ x \in Presences
  BY <1>1, TakenFromWay
<1>3. /\ IF IsNews(p, x) THEN Believes(p, x) /\ wire' = Passing(taken, p, q, x)
         ELSE wire' = taken /\ UNCHANGED belief
      /\ UNCHANGED <<mine, opened, broken>> /\ Mesh(p)
  BY DEF Hear, TakenOff, Passing
<1> HIDE DEF x, taken
<1>4. wire' \in Wires
  BY <1>2, <1>3, PassedOnWay
<1>5. /\ voices' \in [Everybody -> [Everybody ->
           {Unheard} \cup [channel : Channels, at : Numbers, video : BOOLEAN]]]
      /\ left' \in [Everybody -> [Everybody -> {0} \cup Numbers]]
      /\ expired' \in [Everybody -> [Everybody -> {0} \cup Numbers]]
      /\ newest' \in [Everybody -> [Everybody -> {0} \cup Numbers]]
  <2>1. CASE IsNews(p, x)
    BY <1>2, <1>3, <2>1, BelievingTyped
  <2>2. CASE ~IsNews(p, x)
    BY <1>3, <2>2 DEF TypeOKVoice, belief
  <2> QED BY <2>1, <2>2
<1>6. meshed' \in [Everybody -> SUBSET Everybody]
  BY <1>3 DEF TypeOKVoice, Mesh
<1> QED BY <1>3, <1>4, <1>5, <1>6 DEF TypeOKVoice, Wires, mine

LEMMA OpeningTyped == ASSUME TypeOKVoice, NEW p \in Everybody, NEW q \in Everybody, Join(p, q) PROVE TypeOKVoice'
<1> DEFINE x == Saying(p, seat[p], said[p] + 1, FALSE, video[p])
<1>1. Tells(p, q) => x \in Presences /\ said[p] + 1 <= MaxSaid[p]
  <2> SUFFICES ASSUME Tells(p, q) PROVE x \in Presences /\ said[p] + 1 <= MaxSaid[p]
    OBVIOUS
  <2>1. said[p] \in Nat /\ seat[p] \in Channels /\ video[p] \in BOOLEAN /\ said[p] < MaxSaid[p]
    BY DEF Tells, Join, TypeOKVoice
  <2>2. MaxSaid[p] \in Nat
    BY VoiceAssumption
  <2>3. said[p] + 1 \in Nat \ {0} /\ said[p] + 1 <= MaxSaid[p]
    BY <2>1, <2>2
  <2> QED BY <2>1, <2>3, SayingTyped
<1>2. Opens(p, q) = Held(p, q) \o (IF Tells(p, q) THEN <<x>> ELSE <<>>)
  BY DEF Opens
<1>3. Opens(p, q) \in Seq(Presences)
  <2> HIDE DEF x
  <2>1. (IF Tells(p, q) THEN <<x>> ELSE <<>>) \in Seq(Presences) /\ Held(p, q) \in Seq(Presences)
    BY <1>1, HeldIs
  <2> QED BY <1>2, <2>1
<1>4. wire' \in Wires
  <2>1. wire \in Wires /\ wire' = [wire EXCEPT ![p][q] = @ \o Opens(p, q)] /\ wire[p][q] \in Seq(Presences)
    BY DEF Join, TypeOKVoice, Wires
  <2>2. wire[p][q] \o Opens(p, q) \in Seq(Presences)
    BY <1>3, <2>1
  <2> QED BY <2>1, <2>2 DEF Wires
<1>5. said' \in [Everybody -> Nat] /\ \A o \in Everybody : said'[o] <= MaxSaid[o]
  <2>1. CASE Tells(p, q)
    <3>1. said' = [said EXCEPT ![p] = @ + 1] /\ said \in [Everybody -> Nat]
      BY <2>1 DEF Join, TypeOKVoice
    <3> QED BY <1>1, <2>1, <3>1 DEF TypeOKVoice
  <2>2. CASE ~Tells(p, q)
    BY <2>2 DEF Join, TypeOKVoice
  <2> QED BY <2>1, <2>2
<1>6. opened' \subseteq Directed
  BY DEF Join, TypeOKVoice
<1> QED BY <1>4, <1>5, <1>6 DEF Join, TypeOKVoice, Wires, belief

LEMMA PartingTyped == ASSUME TypeOKVoice, NEW p \in Everybody, NEW q \in Everybody, Part(p, q) PROVE TypeOKVoice'
<1>1. broken' \in 0..MaxBreaks
  BY VoiceAssumption DEF Part, TypeOKVoice
<1>2. wire' \in [Everybody -> [Everybody -> Seq(Presences)]]
  <2>1. <<>> \in Seq(Presences)
    OBVIOUS
  <2> QED BY <2>1 DEF Part, TypeOKVoice
<1> QED BY <1>1, <1>2 DEF Part, TypeOKVoice, mine, belief

LEMMA StepsTyped == TypeOKVoice /\ [NextVoice]_voicing => TypeOKVoice'
<1>1. TypeOKVoice /\ UNCHANGED voicing => TypeOKVoice'
  BY DEF TypeOKVoice, voicing, mine, belief
<1> QED BY <1>1, JoiningTyped, LeavingTyped, ShowingTyped, RenewingTyped, HearingTyped, OpeningTyped, PartingTyped
     DEF NextVoice

LEMMA BeginningTyped == InitVoice => TypeOKVoice
<1> SUFFICES ASSUME InitVoice PROVE TypeOKVoice
  OBVIOUS
<1>1. \A p \in Everybody : 0 <= MaxSaid[p] /\ 0 <= MaxBreaks /\ MaxBreaks \in Nat
  BY VoiceAssumption
<1>2. said \in [Everybody -> Nat] /\ \A p \in Everybody : said[p] <= MaxSaid[p]
  BY <1>1 DEF InitVoice
<1>3. broken \in 0..MaxBreaks
  BY VoiceAssumption DEF InitVoice
<1>4. wire \in [Everybody -> [Everybody -> Seq(Presences)]]
  BY DEF InitVoice
<1>5. voices \in [Everybody -> [Everybody -> {Unheard} \cup [channel : Channels, at : Numbers, video : BOOLEAN]]]
  BY DEF InitVoice
<1> QED BY <1>2, <1>3, <1>4, <1>5 DEF InitVoice, TypeOKVoice

(* Whoever is in a channel is in one there is, and what is said of it is   *)
(* numbered as far as its member said so (voice.go).                       *)
THEOREM VoiceTyped == SpecVoice => []TypeOKVoice
BY BeginningTyped, StepsTyped, PTL DEF SpecVoice

-----------------------------------------------------------------------------
(* What a member says, and how others come to know it, in one channel.     *)
SingleChannel == \A c, d \in Channels : c = d

LEMMA NaturalsAre ==
  ASSUME TypeOKVoice, NEW p \in Everybody, NEW m \in Everybody
  PROVE  said[p] \in Nat /\ newest[p][m] \in Nat /\ left[p][m] \in Nat /\ expired[p][m] \in Nat
<1>1. /\ said \in [Everybody -> Nat]
      /\ left \in [Everybody -> [Everybody -> {0} \cup Numbers]]
      /\ expired \in [Everybody -> [Everybody -> {0} \cup Numbers]]
      /\ newest \in [Everybody -> [Everybody -> {0} \cup Numbers]]
  BY DEF TypeOKVoice
<1>2. {0} \cup Numbers \subseteq Nat
  BY NumbersAre
<1> HIDE DEF Numbers
<1>3. /\ left[p][m] \in {0} \cup Numbers /\ expired[p][m] \in {0} \cup Numbers
      /\ newest[p][m] \in {0} \cup Numbers /\ said[p] \in Nat
  BY <1>1
<1> QED BY <1>2, <1>3

(* What is news is later than anything told before, and nothing else is.   *)
LEMMA NewsIsLater ==
  ASSUME SingleChannel, TypeOKVoice, Beliefs, NEW p \in Everybody, NEW x \in Presences, x.member # p
  PROVE  IsNews(p, x) <=> x.at > newest[p][x.member]
<1> DEFINE m == x.member
<1>1. m \in Everybody /\ x.channel \in Channels /\ x.at \in Nat
  BY NumbersAre DEF Presences
<1>2. Believed(p, m) /\ left[p][m] \in Nat /\ expired[p][m] \in Nat /\ newest[p][m] \in Nat
  BY <1>1, NaturalsAre DEF Beliefs
<1>3. voices[p][m] # Unheard => voices[p][m].channel = x.channel /\ voices[p][m].at = newest[p][m]
  <2> SUFFICES ASSUME voices[p][m] # Unheard
               PROVE  voices[p][m].channel = x.channel /\ voices[p][m].at = newest[p][m]
    OBVIOUS
  <2>1. voices[p][m].channel \in Channels
    BY <1>1 DEF TypeOKVoice
  <2> QED BY <1>1, <1>2, <2>1 DEF Believed, SingleChannel
<1>4. voices[p][m] = Unheard => voices[p][m].channel # x.channel
  BY <1>1, VoiceAssumption DEF Unheard
<1> HIDE DEF m
<1>5. IsNews(p, x) <=> /\ x.at > expired[p][m] /\ x.at > left[p][m]
                       /\ voices[p][m].channel = x.channel => x.at > voices[p][m].at
  BY DEF IsNews, m
<1> QED BY <1>1, <1>2, <1>3, <1>4, <1>5 DEF Believed, m

(* p says x, and forgets some it heard nothing of for too long.            *)
SpeaksAs(p, x) ==
  /\ x \in Presences /\ x.member = p /\ x.at = said[p] + 1 /\ p \in Seers[x.channel]
  /\ said' = [said EXCEPT ![p] = said[p] + 1]
  /\ wire' = Passing(wire, p, p, x) /\ UNCHANGED <<opened, broken>>
  /\ \A o \in Everybody \ {p} : seat'[o] = seat[o] /\ video'[o] = video[o]
  /\ IF x.leaving THEN seat'[p] = Out ELSE seat'[p] = x.channel /\ video'[p] = x.video

Forgets(p) ==
  /\ UNCHANGED <<left, newest>>
  /\ \A o, m \in Everybody :
       \/ voices'[o][m] = voices[o][m] /\ expired'[o][m] = expired[o][m]
       \/ /\ o = p /\ m \in Silent(p)
          /\ voices'[o][m] = Unheard /\ expired'[o][m] = voices[o][m].at

LEMMA OnTheWay ==
  ASSUME TypeOKVoice, NEW p \in Everybody, NEW q \in Everybody
  PROVE  wire[p][q] \in Seq(Presences) /\ OnWay(p, q) \subseteq Presences
BY BothOnWay DEF TypeOKVoice, OnWay

(* Whatever else it knows of a member stays as it was, or is outdated.     *)
LEMMA ForgottenBelieved ==
  ASSUME TypeOKVoice, Beliefs, NEW p \in Everybody, Forgets(p),
         NEW o \in Everybody, NEW m \in Everybody \ {o},
         (seat'[m] = seat[m] /\ video'[m] = video[m] /\ said'[m] = said[m]) \/ said'[m] = said[m] + 1
  PROVE  Believed(o, m)'
<1>1. Believed(o, m) /\ said[m] \in Nat /\ newest[o][m] \in Nat /\ left[o][m] \in Nat /\ expired[o][m] \in Nat
  BY NaturalsAre DEF Beliefs
<1>2. newest' = newest /\ left' = left
  BY DEF Forgets
<1>3. CASE voices'[o][m] = voices[o][m] /\ expired'[o][m] = expired[o][m]
  BY <1>1, <1>2, <1>3 DEF Believed
<1>4. CASE /\ o = p /\ m \in Silent(p)
           /\ voices'[o][m] = Unheard /\ expired'[o][m] = voices[o][m].at
  <2>1. voices[o][m] # Unheard /\ (voices[o][m].channel = seat[m] => said[m] > voices[o][m].at)
    BY <1>4 DEF Silent
  <2>2. newest[o][m] = voices[o][m].at
    BY <1>1, <2>1 DEF Believed
  <2>3. newest[o][m] # said[m]
    <3> SUFFICES ASSUME newest[o][m] = said[m] PROVE FALSE
      OBVIOUS
    <3>1. seat[m] # Out /\ voices[o][m] = [channel |-> seat[m], at |-> said[m], video |-> video[m]]
      BY <1>1, <2>1 DEF Believed
    <3>2. voices[o][m].channel = seat[m] /\ voices[o][m].at = said[m]
      BY <3>1
    <3> QED BY <1>1, <2>1, <3>2
  <2>4. newest'[o][m] # said'[m] /\ newest'[o][m] <= said'[m]
    BY <1>1, <1>2, <2>3 DEF Believed
  <2> QED BY <1>1, <1>2, <1>4, <2>2, <2>4 DEF Believed
<1> QED BY <1>3, <1>4 DEF Forgets

LEMMA SpeakingKeeps ==
  ASSUME SingleChannel, VInv, TypeOKVoice', Seated', NEW p \in Everybody, NEW x, SpeaksAs(p, x), Forgets(p)
  PROVE  VInv'
<1>1. /\ said[p] \in Nat /\ said'[p] = said[p] + 1 /\ \A o \in Everybody \ {p} : said'[o] = said[o]
      /\ newest' = newest /\ opened' = opened /\ broken' = broken /\ x \in Presences
  BY DEF SpeaksAs, Forgets, VInv, TypeOKVoice
<1>2. /\ \A o, q \in Everybody : o # p => OnWay(o, q)' = OnWay(o, q)
      /\ \A q \in Everybody : OnWay(p, q)' = OnWay(p, q) \cup ToSet(PassedOn(p, q, p, x))
      /\ \A o, q \in Everybody : ~Joined(o, q) => wire'[o][q] = wire[o][q]
  <2>1. wire \in Wires /\ wire' = Passing(wire, p, p, x)
    BY DEF SpeaksAs, VInv, TypeOKVoice, Wires
  <2>2. /\ \A q \in Everybody : ToSet(wire'[p][q]) = ToSet(wire[p][q]) \cup ToSet(PassedOn(p, q, p, x))
        /\ \A q \in Everybody : ~Joined(p, q) => wire'[p][q] = wire[p][q]
        /\ \A o, q \in Everybody : o # p => wire'[o][q] = wire[o][q]
    <3>1. x \in Presences
      BY <1>1
    <3> QED BY <2>1, <3>1, PassedOnWay
  <2> QED BY <2>2 DEF OnWay
<1>3. \A q \in Everybody : ToSet(PassedOn(p, q, p, x)) =
        IF Joined(p, q) /\ q # p /\ q \in Seers[x.channel] THEN {x} ELSE {}
  <2>1. ToSet(<<x>>) = {x} /\ ToSet(<<>>) = {}
    BY <1>1, OneOnWay
  <2> QED BY <2>1 DEF PassedOn, SpeaksAs
<1>4. Beliefs'
  <2>1. ASSUME NEW o \in Everybody, NEW m \in Everybody \ {o} PROVE Believed(o, m)'
    <3>1. (seat'[m] = seat[m] /\ video'[m] = video[m] /\ said'[m] = said[m]) \/ said'[m] = said[m] + 1
      BY <1>1 DEF SpeaksAs
    <3> QED BY <3>1, ForgottenBelieved DEF VInv
  <2>2. ASSUME NEW o \in Everybody PROVE voices'[o][o] = Unheard
    BY DEF Forgets, VInv, Beliefs
  <2> QED BY <2>1, <2>2 DEF Beliefs
<1>5. Carries'
  <2>1. ASSUME NEW o \in Everybody, NEW q \in Everybody, NEW y \in OnWay(o, q) PROVE Carried(o, q, y)'
    <3>1. /\ Carried(o, q, y) /\ y \in Presences /\ y.member \in Everybody /\ y.at \in Nat
          /\ said[y.member] \in Nat /\ said[o] \in Nat /\ newest[o][y.member] \in Nat
      <4>1. y \in Presences
        BY <2>1, OnTheWay DEF VInv
      <4>2. y.member \in Everybody /\ y.at \in Nat
        BY <4>1, NumbersAre DEF Presences
      <4> QED BY <2>1, <4>1, <4>2, NaturalsAre DEF VInv, Carries
    <3>2. IsLast(y.member, y)'
      <4>1. IsLast(y.member, y)
        BY <3>1 DEF Carried
      <4>2. CASE y.member = p
        BY <1>1, <3>1, <4>1, <4>2 DEF IsLast
      <4>3. CASE y.member # p
        BY <1>1, <3>1, <4>1, <4>3 DEF IsLast, SpeaksAs
      <4> QED BY <4>2, <4>3
    <3>3. y.at <= Knows(o, y.member)'
      BY <1>1, <3>1 DEF Carried, Knows
    <3> QED BY <3>1, <3>2, <3>3 DEF Carried
  <2>2. ASSUME NEW q \in Everybody, q # p, q \in Seers[x.channel] PROVE Carried(p, q, x)'
    BY <1>1, <2>2 DEF Carried, Knows, IsLast, SpeaksAs
  <2>3. \A o, q \in Everybody : \A y \in OnWay(o, q)' : Carried(o, q, y)'
    BY <1>2, <1>3, <2>1, <2>2
  <2>4. \A o, q \in Everybody : ~Joined(o, q)' => wire'[o][q] = <<>>
    BY <1>1, <1>2 DEF Joined, VInv, Carries
  <2> QED BY <2>3, <2>4 DEF Carries
<1>6. \A o, q \in Everybody : OnWay(o, q) \subseteq OnWay(o, q)'
  BY <1>2
<1>7. Passed'
  <2>1. broken' = 0 => opened' = Directed
    BY <1>1 DEF VInv, Passed
  <2>2. ASSUME NEW c \in Channels, NEW o \in Seers[c], NEW q \in Seers[c], Joined(o, q)',
               NEW m \in Everybody \ {o, q}, HasToSay(o, m)'
        PROVE  Comes(o, q, m)'
    <3>1. Joined(o, q) /\ o \in Everybody /\ q \in Everybody
      BY <1>1, <2>2, VoiceAssumption DEF Joined
    <3>2. HasToSay(o, m)
      BY <1>1, <2>2, <3>1 DEF HasToSay, Forgets
    <3>3. Comes(o, q, m)
      BY <2>2, <3>1, <3>2 DEF VInv, Passed
    <3>4. Knows(o, m)' = Knows(o, m) /\ Knows(q, m)' = Knows(q, m)
      BY <1>1, <2>2 DEF Knows
    <3> QED BY <1>6, <3>1, <3>3, <3>4 DEF Comes
  <2> QED BY <2>1, <2>2 DEF Passed
<1>8. SaidIt'
  <2> SUFFICES ASSUME NEW c \in Channels, NEW m \in Everybody, m \in Seers[c], HasToSay(m, m)', Neighbors(m, c) # {},
                      \A q \in Neighbors(m, c) : Joined(m, q)'
               PROVE  \E q \in Neighbors(m, c) : Comes(m, q, m)'
    BY DEF SaidIt, Neighbors
  <2>1. Neighbors(m, c) \subseteq Everybody /\ Neighbors(m, c) \subseteq Seers[c] /\ \A q \in Neighbors(m, c) : Joined(m, q)
    BY <1>1, VoiceAssumption DEF Joined, Neighbors
  <2>2. CASE m = p
    <3>1. PICK q \in Neighbors(m, c) : TRUE
      OBVIOUS
    <3>2. q # p
      BY <2>1, <2>2, <3>1, Pairs DEF Joined, VInv, TypeOKVoice
    <3>3. x.channel = c
      BY <1>1 DEF SingleChannel, Presences
    <3>4. x \in OnWay(p, q)'
      BY <1>2, <1>3, <2>1, <2>2, <3>1, <3>2, <3>3
    <3>5. x.member = m /\ x.at >= Knows(m, m)'
      BY <1>1, <2>2 DEF Knows, SpeaksAs
    <3> QED BY <2>2, <3>1, <3>4, <3>5 DEF Comes
  <2>3. CASE m # p
    <3>1. HasToSay(m, m)
      BY <1>1, <2>3 DEF HasToSay, SpeaksAs
    <3>2. PICK q \in Neighbors(m, c) : Comes(m, q, m)
      BY <2>1, <3>1 DEF VInv, SaidIt
    <3>3. q # m
      BY <2>1, <3>2, Pairs DEF Joined, VInv, TypeOKVoice
    <3>4. Knows(m, m)' = Knows(m, m) /\ Knows(q, m)' = Knows(q, m)
      BY <1>1, <2>3, <3>3 DEF Knows
    <3> QED BY <1>6, <2>1, <3>2, <3>4 DEF Comes
  <2> QED BY <2>2, <2>3
<1> QED BY <1>4, <1>5, <1>7, <1>8 DEF VInv

LEMMA ForgettingKeeps ==
  ASSUME VInv, TypeOKVoice', Seated', NEW p \in Everybody, Forgets(p),
         UNCHANGED <<mine, wire, opened, broken>>
  PROVE  VInv'
<1>1. Beliefs'
  <2>1. ASSUME NEW o \in Everybody, NEW m \in Everybody \ {o} PROVE Believed(o, m)'
    BY <2>1, ForgottenBelieved DEF VInv, mine
  <2>2. ASSUME NEW o \in Everybody PROVE voices'[o][o] = Unheard
    BY DEF Forgets, VInv, Beliefs
  <2> QED BY <2>1, <2>2 DEF Beliefs
<1>2. newest' = newest /\ UNCHANGED <<seat, video, said, wire, opened, broken>>
  BY DEF Forgets, mine
<1>3. Carries'
  <2>1. ASSUME NEW o \in Everybody, NEW q \in Everybody, NEW y PROVE Carried(o, q, y)' <=> Carried(o, q, y)
    BY <1>2 DEF Carried, Knows, IsLast
  <2>2. \A o, q \in Everybody : OnWay(o, q)' = OnWay(o, q) /\ (Joined(o, q)' <=> Joined(o, q))
    BY <1>2 DEF OnWay, Joined
  <2> QED BY <1>2, <2>1, <2>2 DEF VInv, Carries
<1>4. \A o, q, m \in Everybody : (Comes(o, q, m)' <=> Comes(o, q, m)) /\ (HasToSay(o, m)' => HasToSay(o, m))
  BY <1>2 DEF Comes, Knows, OnWay, HasToSay, Forgets
<1>5. Passed'
  <2>1. \A c \in Channels : Seers[c] \subseteq Everybody
    BY VoiceAssumption
  <2> QED BY <1>2, <1>4, <2>1 DEF VInv, Passed, Joined
<1>6. SaidIt'
  <2>1. \A c \in Channels, m \in Everybody : Neighbors(m, c) \subseteq Everybody
    BY VoiceAssumption DEF Neighbors
  <2> QED BY <1>2, <1>4, <2>1 DEF VInv, SaidIt, Joined, Neighbors
<1> QED BY <1>1, <1>3, <1>5, <1>6 DEF VInv

(* Whom each wants a connection with follows where it is and believes.     *)
LEMMA SeatedKept ==
  ASSUME TypeOKVoice, Seated, NEW p \in Everybody, Mesh(p),
         \A o \in Everybody \ {p} : seat'[o] = seat[o] /\ voices'[o] = voices[o],
         seat'[p] # Out => p \in Seers[seat'[p]]
  PROVE  Seated'
<1>1. /\ meshed'[p] = IF seat'[p] = Out THEN {} ELSE {m \in Everybody : voices'[p][m].channel = seat'[p]}
      /\ \A o \in Everybody \ {p} : meshed'[o] = meshed[o]
  BY DEF TypeOKVoice, Mesh
<1>2. ASSUME NEW o \in Everybody
      PROVE  /\ seat'[o] # Out => o \in Seers[seat'[o]]
             /\ meshed'[o] = IF seat'[o] = Out THEN {} ELSE {m \in Everybody : voices'[o][m].channel = seat'[o]}
  <2>1. CASE o = p
    BY <1>1, <2>1
  <2>2. CASE o # p
    <3>1. seat'[o] = seat[o] /\ voices'[o] = voices[o] /\ meshed'[o] = meshed[o]
      BY <1>1, <2>2
    <3>2. /\ seat[o] # Out => o \in Seers[seat[o]]
          /\ meshed[o] = IF seat[o] = Out THEN {} ELSE {m \in Everybody : voices[o][m].channel = seat[o]}
      BY DEF Seated, Present
    <3> QED BY <3>1, <3>2
  <2> QED BY <2>1, <2>2
<1> QED BY <1>2 DEF Seated, Present

LEMMA JoiningKeeps ==
  ASSUME SingleChannel, VInv, NEW p \in Everybody, NEW c \in Channels, NEW on \in BOOLEAN, JoinVoice(p, c, on)
  PROVE  VInv'
<1> DEFINE x == Saying(p, c, said'[p], FALSE, on)
<1>1. TypeOKVoice /\ TypeOKVoice' /\ Seated
  BY JoiningTyped DEF VInv
<1>2. seat[p] \in {Out, c}
  BY <1>1 DEF SingleChannel, TypeOKVoice
<1>3. said[p] \in Nat /\ said' = [said EXCEPT ![p] = said[p] + 1] /\ said'[p] = said[p] + 1 /\ said'[p] <= MaxSaid[p]
  BY <1>1, <1>2 DEF JoinVoice, TypeOKVoice
<1>4. /\ seat' = [seat EXCEPT ![p] = c] /\ video' = [video EXCEPT ![p] = on] /\ p \in Seers[c]
      /\ UNCHANGED <<belief, opened, broken>> /\ Mesh(p)
  BY DEF JoinVoice
<1>5. Seated'
  <2>1. seat'[p] = c /\ \A o \in Everybody \ {p} : seat'[o] = seat[o] /\ voices'[o] = voices[o]
    BY <1>1, <1>4 DEF TypeOKVoice, belief
  <2> QED BY <1>1, <1>4, <2>1, SeatedKept
<1>6. SpeaksAs(p, x)
  <2>1. x \in Presences
    <3>1. said'[p] \in Nat \ {0} /\ said'[p] <= MaxSaid[p]
      BY <1>3
    <3> QED BY <3>1, SayingTyped
  <2>2. wire' = Passing(wire, p, p, x)
    BY <1>2 DEF JoinVoice, PassesOn, Passing
  <2>3. /\ x.member = p /\ x.at = said[p] + 1 /\ x.channel = c /\ x.leaving = FALSE /\ x.video = on
    BY <1>3 DEF Saying
  <2> HIDE DEF x
  <2> QED BY <1>1, <1>3, <1>4, <2>1, <2>2, <2>3 DEF SpeaksAs, TypeOKVoice
<1>7. Forgets(p)
  BY <1>4 DEF Forgets, belief
<1> HIDE DEF x
<1> QED BY <1>1, <1>5, <1>6, <1>7, SpeakingKeeps

LEMMA LeavingKeeps ==
  ASSUME SingleChannel, VInv, NEW p \in Everybody, LeaveVoice(p) PROVE VInv'
<1> DEFINE x == Saying(p, seat[p], said'[p], TRUE, video[p])
<1>1. TypeOKVoice /\ TypeOKVoice' /\ Seated
  BY LeavingTyped DEF VInv
<1>2. /\ seat[p] # Out /\ seat' = [seat EXCEPT ![p] = Out] /\ video' = [video EXCEPT ![p] = FALSE]
      /\ UNCHANGED <<belief, opened, broken>> /\ Mesh(p) /\ Says(p, TRUE, video[p]) /\ video[p] \in BOOLEAN
  BY <1>1 DEF LeaveVoice, TypeOKVoice
<1>3. said' = [said EXCEPT ![p] = said[p] + 1] /\ said'[p] = said[p] + 1 /\ x \in Presences
  <2>1. said' = [said EXCEPT ![p] = said[p] + 1] /\ x \in Presences
    BY <1>1, <1>2, SaysTyped
  <2> QED BY <1>1, <2>1 DEF TypeOKVoice
<1>4. Seated'
  <2>1. seat'[p] = Out /\ \A o \in Everybody \ {p} : seat'[o] = seat[o] /\ voices'[o] = voices[o]
    BY <1>1, <1>2 DEF TypeOKVoice, belief
  <2> QED BY <1>1, <1>2, <2>1, SeatedKept
<1>5. SpeaksAs(p, x)
  <2>1. wire' = Passing(wire, p, p, x)
    BY <1>2 DEF Says, PassesOn, Passing
  <2>2. x.member = p /\ x.at = said[p] + 1 /\ x.channel = seat[p] /\ x.leaving = TRUE
    BY <1>3 DEF Saying
  <2> HIDE DEF x
  <2>3. p \in Seers[x.channel]
    BY <1>1, <1>2, <2>2 DEF Seated
  <2>4. seat \in [Everybody -> Channels \cup {Out}] /\ video \in [Everybody -> BOOLEAN]
    BY <1>1 DEF TypeOKVoice
  <2>5. seat'[p] = Out /\ \A o \in Everybody \ {p} : seat'[o] = seat[o] /\ video'[o] = video[o]
    BY <1>2, <2>4
  <2> QED BY <1>2, <1>3, <2>1, <2>2, <2>3, <2>5 DEF SpeaksAs
<1>6. Forgets(p)
  BY <1>2 DEF Forgets, belief
<1> HIDE DEF x
<1> QED BY <1>1, <1>4, <1>5, <1>6, SpeakingKeeps

LEMMA ShowingKeeps ==
  ASSUME SingleChannel, VInv, NEW p \in Everybody, VoiceVideo(p) PROVE VInv'
<1> DEFINE x == Saying(p, seat[p], said'[p], FALSE, ~video[p])
<1>1. TypeOKVoice /\ TypeOKVoice' /\ Seated
  BY ShowingTyped DEF VInv
<1>2. /\ seat[p] # Out /\ video' = [video EXCEPT ![p] = ~video[p]]
      /\ UNCHANGED <<seat, belief, meshed, opened, broken>> /\ Says(p, FALSE, ~video[p]) /\ (~video[p]) \in BOOLEAN
  BY <1>1 DEF VoiceVideo, TypeOKVoice
<1>3. said' = [said EXCEPT ![p] = said[p] + 1] /\ said'[p] = said[p] + 1 /\ x \in Presences
  <2>1. said' = [said EXCEPT ![p] = said[p] + 1] /\ x \in Presences
    BY <1>1, <1>2, SaysTyped
  <2> QED BY <1>1, <2>1 DEF TypeOKVoice
<1>4. Seated'
  BY <1>1, <1>2 DEF Seated, Present, belief
<1>5. SpeaksAs(p, x)
  <2>1. wire' = Passing(wire, p, p, x)
    BY <1>2 DEF Says, PassesOn, Passing
  <2>2. x.member = p /\ x.at = said[p] + 1 /\ x.channel = seat[p] /\ x.leaving = FALSE /\ x.video = ~video[p]
    BY <1>3 DEF Saying
  <2>3. video'[p] = ~video[p] /\ \A o \in Everybody \ {p} : video'[o] = video[o]
    BY <1>1, <1>2 DEF TypeOKVoice
  <2>4. seat'[p] = seat[p] /\ p \in Seers[seat[p]] /\ \A o \in Everybody \ {p} : seat'[o] = seat[o]
    BY <1>1, <1>2 DEF Seated
  <2> HIDE DEF x
  <2>5. IF x.leaving THEN seat'[p] = Out ELSE seat'[p] = x.channel /\ video'[p] = x.video
    BY <2>2, <2>3, <2>4
  <2> QED BY <1>2, <1>3, <2>1, <2>2, <2>3, <2>4, <2>5 DEF SpeaksAs
<1>6. Forgets(p)
  BY <1>2 DEF Forgets, belief
<1> HIDE DEF x
<1> QED BY <1>1, <1>4, <1>5, <1>6, SpeakingKeeps

LEMMA RenewingKeeps ==
  ASSUME SingleChannel, VInv, NEW p \in Everybody, Renew(p) PROVE VInv'
<1> DEFINE x == Saying(p, seat[p], said'[p], FALSE, video[p])
<1>1. TypeOKVoice /\ TypeOKVoice' /\ Seated
  BY RenewingTyped DEF VInv
<1>2. PICK gone \in SUBSET Silent(p) :
        /\ IF seat[p] # Out THEN Says(p, FALSE, video[p]) ELSE gone # {} /\ UNCHANGED <<said, wire>>
        /\ expired' = [expired EXCEPT ![p] = [m \in Everybody |-> IF m \in gone THEN voices[p][m].at ELSE @[m]]]
        /\ voices' = [voices EXCEPT ![p] = [m \in Everybody |-> IF m \in gone THEN Unheard ELSE @[m]]]
        /\ UNCHANGED <<seat, video, left, newest, opened, broken>>
        /\ Mesh(p)
  BY DEF Renew
<1>3. Seated'
  <2>1. \A o \in Everybody \ {p} : seat'[o] = seat[o] /\ voices'[o] = voices[o]
    <3>1. voices = [o \in Everybody |-> voices[o]]
      BY <1>1 DEF TypeOKVoice
    <3>2. \A o \in Everybody \ {p} : voices'[o] = voices[o]
      BY <1>2, <3>1
    <3> QED BY <1>2, <3>2
  <2>2. seat'[p] # Out => p \in Seers[seat'[p]]
    BY <1>1, <1>2 DEF Seated
  <2> QED BY <1>1, <1>2, <2>1, <2>2, SeatedKept
<1>4. Forgets(p)
  <2>1. \A o, m \in Everybody : IF o = p /\ m \in gone THEN voices'[o][m] = Unheard /\ expired'[o][m] = voices[o][m].at
                                ELSE voices'[o][m] = voices[o][m] /\ expired'[o][m] = expired[o][m]
    <3>1. voices = [o \in Everybody |-> voices[o]] /\ expired = [o \in Everybody |-> expired[o]]
      BY <1>1 DEF TypeOKVoice
    <3>2. \A o \in Everybody \ {p} : voices'[o] = voices[o] /\ expired'[o] = expired[o]
      BY <1>2, <3>1
    <3>3. voices'[p] = [m \in Everybody |-> IF m \in gone THEN Unheard ELSE voices[p][m]]
      BY <1>2, <3>1
    <3>4. expired'[p] = [m \in Everybody |-> IF m \in gone THEN voices[p][m].at ELSE expired[p][m]]
      BY <1>2, <3>1
    <3> QED BY <3>2, <3>3, <3>4
  <2> QED BY <1>2, <2>1 DEF Forgets
<1>5. CASE seat[p] # Out
  <2>1. Says(p, FALSE, video[p]) /\ video[p] \in BOOLEAN
    BY <1>1, <1>2, <1>5 DEF TypeOKVoice
  <2>2. said' = [said EXCEPT ![p] = said[p] + 1] /\ x \in Presences
    BY <1>1, <1>5, <2>1, SaysTyped
  <2>3. said'[p] = said[p] + 1
    BY <1>1, <2>2 DEF TypeOKVoice
  <2>4. wire' = Passing(wire, p, p, x)
    BY <2>1 DEF Says, PassesOn, Passing
  <2>5. x.member = p /\ x.at = said[p] + 1 /\ x.channel = seat[p] /\ x.leaving = FALSE /\ x.video = video[p]
    BY <2>3 DEF Saying
  <2>6. SpeaksAs(p, x)
    <3> HIDE DEF x
    <3> QED BY <1>1, <1>2, <1>5, <2>2, <2>4, <2>5 DEF SpeaksAs, Seated
  <2> HIDE DEF x
  <2> QED BY <1>1, <1>3, <1>4, <2>6, SpeakingKeeps
<1>6. CASE seat[p] = Out
  <2>1. UNCHANGED <<mine, wire, opened, broken>>
    BY <1>2, <1>6 DEF mine
  <2> QED BY <1>1, <1>3, <1>4, <2>1, ForgettingKeeps
<1> QED BY <1>5, <1>6

LEMMA HearingKeeps ==
  ASSUME SingleChannel, VInv, NEW p \in Everybody, NEW q \in Everybody, Hear(p, q) PROVE VInv'
<1> DEFINE taken == TakenOff(wire, q, p)
<1>0. PICK x : x = Head(wire[q][p])
  OBVIOUS
<1> DEFINE xm == x.member
<1>1. /\ TypeOKVoice /\ TypeOKVoice' /\ Seated /\ Carries /\ Beliefs /\ wire \in Wires /\ wire[q][p] # <<>>
  BY HearingTyped DEF VInv, Hear, TypeOKVoice, Wires
<1>2. /\ taken \in Wires /\ x \in Presences /\ x \in OnWay(q, p)
      /\ OnWay(q, p) = {x} \cup ToSet(taken[q][p])
      /\ \A o, r \in Everybody : <<o, r>> # <<q, p>> => taken[o][r] = wire[o][r]
  <2>1. /\ TakenOff(wire, q, p) \in Wires /\ Head(wire[q][p]) \in Presences
        /\ ToSet(wire[q][p]) = {Head(wire[q][p])} \cup ToSet(TakenOff(wire, q, p)[q][p])
        /\ \A o, r \in Everybody : <<o, r>> # <<q, p>> => TakenOff(wire, q, p)[o][r] = wire[o][r]
    BY <1>1, TakenFromWay
  <2> QED BY <1>0, <2>1 DEF OnWay
<1>3. /\ IF IsNews(p, x) THEN Believes(p, x) /\ wire' = Passing(taken, p, q, x)
         ELSE wire' = taken /\ UNCHANGED belief
      /\ UNCHANGED <<seat, video, said, opened, broken>> /\ Mesh(p)
  <2>1. UNCHANGED <<mine, opened, broken>> /\ Mesh(p)
    BY DEF Hear
  <2>2. LET y == Head(wire[q][p])  w == TakenOff(wire, q, p)
        IN  IF IsNews(p, y) THEN Believes(p, y) /\ wire' = Passing(w, p, q, y)
            ELSE wire' = w /\ UNCHANGED belief
    BY DEF Hear, TakenOff, Passing
  <2>3. IF IsNews(p, x) THEN Believes(p, x) /\ wire' = Passing(taken, p, q, x)
        ELSE wire' = taken /\ UNCHANGED belief
    BY <1>0, <2>2
  <2> QED BY <2>1, <2>3 DEF mine
<1> HIDE DEF taken
<1>4. /\ Joined(q, p) /\ q # p /\ Carried(q, p, x)
      /\ xm \in Everybody /\ x.channel \in Channels /\ x.at \in Nat \ {0}
  <2>1. Joined(q, p) /\ Carried(q, p, x)
    BY <1>1, <1>2 DEF Carries
  <2>2. xm \in Everybody /\ x.channel \in Channels /\ x.at \in Nat \ {0}
    BY <1>2, NumbersAre DEF Presences
  <2>3. q # p
    BY <1>1, <2>1, Pairs DEF Joined, TypeOKVoice
  <2> QED BY <2>1, <2>2, <2>3
<1>5. xm # p /\ {p, xm} \subseteq Seers[x.channel] /\ x.at <= Knows(q, xm) /\ IsLast(xm, x)
  BY <1>4 DEF Carried
<1>6. /\ newest[p][xm] \in Nat /\ Believed(p, xm)
      /\ IsNews(p, x) <=> x.at > newest[p][xm]
  BY <1>1, <1>2, <1>4, <1>5, NaturalsAre, NewsIsLater DEF Beliefs
<1>7. /\ \A o, m \in Everybody : <<o, m>> # <<p, xm>> =>
            /\ newest'[o][m] = newest[o][m] /\ left'[o][m] = left[o][m]
            /\ expired'[o][m] = expired[o][m] /\ voices'[o][m] = voices[o][m]
      /\ newest'[p][xm] = IF IsNews(p, x) THEN x.at ELSE newest[p][xm]
      /\ ~IsNews(p, x) => UNCHANGED belief
      /\ \A o \in Everybody \ {p} : voices'[o] = voices[o]
      /\ IsNews(p, x) =>
           /\ voices'[p][xm] = IF x.leaving THEN Unheard
                               ELSE [channel |-> x.channel, at |-> x.at, video |-> x.video]
           /\ left'[p][xm] = IF x.leaving THEN x.at ELSE 0
           /\ expired'[p][xm] = expired[p][xm]
  <2>1. CASE ~IsNews(p, x)
    BY <1>3, <2>1 DEF belief
  <2>2. CASE IsNews(p, x)
    <3>1. /\ voices \in [Everybody -> [Everybody -> {Unheard} \cup [channel : Channels, at : Numbers, video : BOOLEAN]]]
          /\ left \in [Everybody -> [Everybody -> {0} \cup Numbers]]
          /\ newest \in [Everybody -> [Everybody -> {0} \cup Numbers]]
      BY <1>1 DEF TypeOKVoice
    <3>2. Believes(p, x)
      BY <1>3, <2>2
    <3>3. /\ newest'[p][xm] = x.at
          /\ \A o, m \in Everybody : <<o, m>> # <<p, xm>> => newest'[o][m] = newest[o][m]
      BY <1>4, <1>6, <2>2, <3>1, <3>2 DEF Believes
    <3>4. /\ left'[p][xm] = IF x.leaving THEN x.at ELSE 0
          /\ \A o, m \in Everybody : <<o, m>> # <<p, xm>> => left'[o][m] = left[o][m]
      BY <1>4, <3>1, <3>2 DEF Believes
    <3>5. /\ voices'[p][xm] = IF x.leaving THEN Unheard
                              ELSE [channel |-> x.channel, at |-> x.at, video |-> x.video]
          /\ \A o, m \in Everybody : <<o, m>> # <<p, xm>> => voices'[o][m] = voices[o][m]
          /\ \A o \in Everybody \ {p} : voices'[o] = voices[o]
      <4> DEFINE y == IF x.leaving THEN Unheard ELSE [channel |-> x.channel, at |-> x.at, video |-> x.video]
      <4>1. voices' = [voices EXCEPT ![p][xm] = y]
        BY <3>2 DEF Believes
      <4> HIDE DEF y
      <4>2. /\ voices'[p][xm] = y
            /\ \A o, m \in Everybody : <<o, m>> # <<p, xm>> => voices'[o][m] = voices[o][m]
            /\ \A o \in Everybody \ {p} : voices'[o] = voices[o]
        BY <1>4, <3>1, <4>1
      <4> QED BY <4>2 DEF y
    <3>6. expired' = expired
      BY <3>2 DEF Believes
    <3> QED BY <2>2, <3>3, <3>4, <3>5, <3>6
  <2> QED BY <2>1, <2>2
<1>8. /\ \A o, m \in Everybody : Knows(o, m)' \in Nat /\ Knows(o, m) \in Nat /\ Knows(o, m)' >= Knows(o, m)
      /\ \A o, m \in Everybody : <<o, m>> # <<p, xm>> => Knows(o, m)' = Knows(o, m)
      /\ Knows(p, xm)' >= x.at
  <2>1. ASSUME NEW o \in Everybody, NEW m \in Everybody
        PROVE  /\ Knows(o, m)' \in Nat /\ Knows(o, m) \in Nat
               /\ <<o, m>> # <<p, xm>> => Knows(o, m)' = Knows(o, m)
    <3>1. said[o] \in Nat /\ newest[o][m] \in Nat /\ said'[o] = said[o]
      BY <1>1, <1>3, NaturalsAre
    <3>2. newest'[o][m] \in Nat
      BY <1>4, <1>6, <1>7, <3>1
    <3> QED BY <1>7, <3>1, <3>2 DEF Knows
  <2>2. Knows(p, xm)' >= x.at /\ Knows(p, xm)' >= Knows(p, xm)
    BY <1>4, <1>5, <1>6, <1>7 DEF Knows
  <2>3. ASSUME NEW o \in Everybody, NEW m \in Everybody PROVE Knows(o, m)' >= Knows(o, m)
    <3>1. CASE <<o, m>> = <<p, xm>>
      BY <2>2, <3>1
    <3>2. CASE <<o, m>> # <<p, xm>>
      BY <2>1, <3>2
    <3> QED BY <3>1, <3>2
  <2> QED BY <2>1, <2>2, <2>3
<1>9. ASSUME NEW o \in Everybody, NEW r \in Everybody
      PROVE  /\ OnWay(o, r) \subseteq OnWay(o, r)' \cup (IF <<o, r>> = <<q, p>> THEN {x} ELSE {})
             /\ OnWay(o, r)' \subseteq OnWay(o, r) \cup
                  (IF o = p /\ Joined(p, r) /\ r # q /\ r \in Seers[x.channel] /\ r # xm THEN {x} ELSE {})
             /\ IsNews(p, x) /\ o = p /\ Joined(p, r) /\ r # q /\ r \in Seers[x.channel] /\ r # xm => x \in OnWay(o, r)'
             /\ wire[o][r] = <<>> /\ ~Joined(o, r) => wire'[o][r] = <<>>
  <2>1. /\ OnWay(o, r) \subseteq ToSet(taken[o][r]) \cup (IF <<o, r>> = <<q, p>> THEN {x} ELSE {})
        /\ ToSet(taken[o][r]) \subseteq OnWay(o, r)
        /\ wire[o][r] = <<>> => taken[o][r] = <<>>
    BY <1>1, <1>2 DEF OnWay
  <2>2. CASE ~IsNews(p, x)
    <3>1. wire' = taken
      BY <1>3, <2>2
    <3> QED BY <2>1, <2>2, <3>1 DEF OnWay
  <2>3. CASE IsNews(p, x)
    <3>1. wire' = Passing(taken, p, q, x)
      BY <1>3, <2>3
    <3>2. /\ \A s \in Everybody : ToSet(wire'[p][s]) = ToSet(taken[p][s]) \cup ToSet(PassedOn(p, s, q, x))
          /\ \A s \in Everybody : ~Joined(p, s) => wire'[p][s] = taken[p][s]
          /\ \A n, s \in Everybody : n # p => wire'[n][s] = taken[n][s]
      <4>1. taken \in Wires /\ x \in Presences
        BY <1>2
      <4> QED BY <3>1, <4>1, PassedOnWay
    <3>3. ToSet(PassedOn(p, r, q, x)) =
            IF Joined(p, r) /\ r # q /\ r \in Seers[x.channel] /\ r # xm THEN {x} ELSE {}
      <4>1. ToSet(<<x>>) = {x} /\ ToSet(<<>>) = {}
        BY <1>2, OneOnWay
      <4> QED BY <4>1 DEF PassedOn
    <3>4. CASE o = p
      BY <2>1, <3>2, <3>3, <3>4 DEF OnWay
    <3>5. CASE o # p
      BY <2>1, <3>2, <3>5 DEF OnWay
    <3> QED BY <3>4, <3>5
  <2> QED BY <2>2, <2>3
<1>10. Seated'
  BY <1>1, <1>3, <1>7, SeatedKept DEF Seated
<1>11. Beliefs'
  <2>1. ASSUME NEW o \in Everybody, NEW m \in Everybody \ {o}, <<o, m>> # <<p, xm>> PROVE Believed(o, m)'
    <3>1. Believed(o, m)
      BY <1>1 DEF Beliefs
    <3> QED BY <1>3, <1>7, <2>1, <3>1 DEF Believed
  <2>2. Believed(p, xm)'
    <3>1. CASE ~IsNews(p, x)
      BY <1>3, <1>6, <1>7, <3>1 DEF Believed, belief
    <3>2. CASE IsNews(p, x)
      <4>1. /\ newest'[p][xm] = x.at /\ x.at > newest[p][xm] /\ expired'[p][xm] = expired[p][xm]
            /\ expired[p][xm] \in Nat /\ expired[p][xm] <= newest[p][xm]
            /\ left'[p][xm] = (IF x.leaving THEN x.at ELSE 0)
            /\ seat'[xm] = seat[xm] /\ video'[xm] = video[xm] /\ said'[xm] = said[xm] /\ x.at <= said[xm]
        BY <1>1, <1>3, <1>4, <1>5, <1>6, <1>7, <3>2, NaturalsAre DEF Believed, IsLast
      <4>2. /\ left'[p][xm] <= newest'[p][xm] /\ expired'[p][xm] <= newest'[p][xm] /\ newest'[p][xm] <= said'[xm]
        BY <1>4, <1>6, <4>1
      <4>3. CASE x.leaving
        <5>1. voices'[p][xm] = Unheard /\ left'[p][xm] = newest'[p][xm]
          BY <1>7, <3>2, <4>1, <4>3
        <5>2. newest'[p][xm] = said'[xm] => seat'[xm] = Out
          BY <1>5, <4>1, <4>3 DEF IsLast
        <5> QED BY <4>2, <5>1, <5>2 DEF Believed
      <4>4. CASE ~x.leaving
        <5>1. voices'[p][xm] = [channel |-> x.channel, at |-> x.at, video |-> x.video]
          BY <1>7, <3>2, <4>4
        <5>2. voices'[p][xm] # Unheard /\ voices'[p][xm].channel = x.channel /\ voices'[p][xm].at = x.at
          BY <1>4, <5>1 DEF Unheard
        <5>3. newest'[p][xm] = said'[xm] => /\ seat'[xm] # Out
                /\ voices'[p][xm] = [channel |-> seat'[xm], at |-> said'[xm], video |-> video'[xm]]
          BY <1>4, <1>5, <4>1, <4>4, <5>1, VoiceAssumption DEF IsLast
        <5> QED BY <1>5, <4>1, <4>2, <5>2, <5>3 DEF Believed
      <4> QED BY <4>3, <4>4
    <3> QED BY <3>1, <3>2
  <2>3. ASSUME NEW o \in Everybody PROVE voices'[o][o] = Unheard
    BY <1>1, <1>5, <1>7 DEF Beliefs
  <2> QED BY <2>1, <2>2, <2>3, <1>5 DEF Beliefs
<1>12. Carries'
  <2>1. ASSUME NEW o \in Everybody, NEW r \in Everybody, NEW y \in OnWay(o, r) PROVE Carried(o, r, y)'
    <3>1. Carried(o, r, y) /\ y.member \in Everybody /\ y.at \in Nat
      <4>1. y \in Presences
        BY <1>1, <2>1, OnTheWay
      <4> QED BY <1>1, <2>1, <4>1, NumbersAre DEF Carries, Presences
    <3>2. y.at <= Knows(o, y.member)'
      BY <1>8, <3>1 DEF Carried
    <3>3. IsLast(y.member, y)'
      BY <1>3, <3>1 DEF Carried, IsLast
    <3> QED BY <3>1, <3>2, <3>3 DEF Carried
  <2>2. ASSUME NEW r \in Everybody, r \in Seers[x.channel], r # xm PROVE Carried(p, r, x)'
    <3>1. IsLast(xm, x)'
      BY <1>3, <1>5 DEF IsLast
    <3> QED BY <1>5, <1>8, <2>2, <3>1 DEF Carried
  <2>3. ASSUME NEW o \in Everybody, NEW r \in Everybody, NEW y \in OnWay(o, r)' PROVE Carried(o, r, y)'
    <3>1. CASE y \in OnWay(o, r)
      BY <2>1, <3>1
    <3>2. CASE y \notin OnWay(o, r)
      <4>1. o = p /\ y = x /\ r \in Seers[x.channel] /\ r # xm
        BY <1>9, <2>3, <3>2
      <4> QED BY <2>2, <4>1
    <3> QED BY <3>1, <3>2
  <2>4. \A o, r \in Everybody : ~Joined(o, r)' => wire'[o][r] = <<>>
    BY <1>1, <1>3, <1>9 DEF Joined, Carries
  <2> QED BY <2>3, <2>4 DEF Carries
<1>13. ASSUME NEW o \in Everybody, NEW r \in Everybody, NEW m \in Everybody,
              <<o, m>> # <<p, xm>>, Comes(o, r, m)
       PROVE  Comes(o, r, m)'
  <2>1. Knows(o, m)' = Knows(o, m) /\ Knows(o, m) \in Nat /\ Knows(r, m)' >= Knows(r, m)
        /\ Knows(r, m)' \in Nat /\ Knows(r, m) \in Nat
    BY <1>8, <1>13
  <2>2. CASE Knows(r, m) >= Knows(o, m)
    BY <2>1, <2>2 DEF Comes
  <2>3. CASE \E y \in OnWay(o, r) : y.member = m /\ y.at >= Knows(o, m)
    <3>1. PICK y \in OnWay(o, r) : y.member = m /\ y.at >= Knows(o, m)
      BY <2>3
    <3>2. CASE y \in OnWay(o, r)'
      BY <2>1, <3>1, <3>2 DEF Comes
    <3>3. CASE y \notin OnWay(o, r)'
      <4>1. y = x /\ o = q /\ r = p
        BY <1>9, <3>1, <3>3
      <4>2. Knows(r, m)' >= Knows(o, m)'
        BY <1>4, <1>8, <2>1, <3>1, <4>1
      <4> QED BY <4>2 DEF Comes
    <3> QED BY <3>2, <3>3
  <2> QED BY <1>13, <2>2, <2>3 DEF Comes
<1>14. Passed'
  <2>1. broken' = 0 => opened' = Directed
    BY <1>3 DEF VInv, Passed
  <2>2. ASSUME NEW c \in Channels, NEW o \in Seers[c], NEW r \in Seers[c], Joined(o, r)',
               NEW m \in Everybody \ {o, r}, HasToSay(o, m)'
        PROVE  Comes(o, r, m)'
    <3>1. Joined(o, r) /\ o \in Everybody /\ r \in Everybody /\ x.channel = c
      BY <1>3, <1>4, <2>2, VoiceAssumption DEF Joined, SingleChannel
    <3>2. CASE <<o, m>> # <<p, xm>>
      <4>1. HasToSay(o, m)
        BY <1>3, <1>7, <2>2, <3>1, <3>2 DEF HasToSay
      <4>2. Comes(o, r, m)
        BY <2>2, <3>1, <4>1 DEF VInv, Passed
      <4> QED BY <1>13, <3>1, <3>2, <4>2
    <3>3. CASE <<o, m>> = <<p, xm>> /\ ~IsNews(p, x)
      <4>1. HasToSay(o, m) /\ Knows(o, m)' = Knows(o, m)
        BY <1>3, <1>7, <2>2, <3>1, <3>3 DEF HasToSay, belief, Knows
      <4>2. Comes(o, r, m)
        BY <2>2, <3>1, <4>1 DEF VInv, Passed
      <4>3. OnWay(o, r) \subseteq OnWay(o, r)'
        BY <1>4, <1>9, <3>1, <3>3
      <4>4. Knows(r, m)' >= Knows(r, m) /\ Knows(r, m)' \in Nat /\ Knows(r, m) \in Nat /\ Knows(o, m) \in Nat
        BY <1>8, <3>1
      <4> QED BY <4>1, <4>2, <4>3, <4>4 DEF Comes
    <3>4. CASE <<o, m>> = <<p, xm>> /\ IsNews(p, x)
      <4>1. Knows(o, m)' = x.at
        BY <1>5, <1>7, <3>4 DEF Knows
      <4>2. CASE r # q
        <5>1. x \in OnWay(o, r)'
          BY <1>9, <2>2, <3>1, <3>4, <4>2
        <5> QED BY <1>4, <3>4, <4>1, <5>1 DEF Comes
      <4>3. CASE r = q
        <5>1. Knows(r, m)' >= x.at
          BY <1>4, <1>5, <1>8, <3>1, <3>4, <4>3
        <5> QED BY <4>1, <5>1 DEF Comes
      <4> QED BY <4>2, <4>3
    <3> QED BY <3>2, <3>3, <3>4
  <2> QED BY <2>1, <2>2 DEF Passed
<1>15. SaidIt'
  <2> SUFFICES ASSUME NEW c \in Channels, NEW m \in Everybody, m \in Seers[c], HasToSay(m, m)', Neighbors(m, c) # {},
                      \A r \in Neighbors(m, c) : Joined(m, r)'
               PROVE  \E r \in Neighbors(m, c) : Comes(m, r, m)'
    BY DEF SaidIt, Neighbors
  <2>1. Neighbors(m, c) \subseteq Everybody /\ \A r \in Neighbors(m, c) : Joined(m, r)
    BY <1>3, VoiceAssumption DEF Joined, Neighbors
  <2>2. HasToSay(m, m)
    BY <1>3 DEF HasToSay
  <2>3. PICK r \in Neighbors(m, c) : Comes(m, r, m)
    BY <2>1, <2>2 DEF VInv, SaidIt
  <2>4. <<m, m>> # <<p, xm>>
    BY <1>5
  <2> QED BY <1>13, <2>1, <2>3, <2>4
<1> QED BY <1>1, <1>10, <1>11, <1>12, <1>14, <1>15 DEF VInv

LEMMA OpeningKeeps ==
  ASSUME SingleChannel, VInv, NEW p \in Everybody, NEW q \in Everybody, Join(p, q) PROVE VInv'
<1>0. PICK x : x = Saying(p, seat[p], said[p] + 1, FALSE, video[p])
  OBVIOUS
<1>1. TypeOKVoice /\ TypeOKVoice' /\ Seated /\ Carries /\ Beliefs
  BY OpeningTyped DEF VInv
<1>2. /\ <<p, q>> \in Directed \ opened /\ opened' = opened \cup {<<p, q>>} /\ p # q
      /\ UNCHANGED <<seat, video, voices, left, expired, newest, meshed, broken>>
      /\ broken' # 0 /\ broken # 0
  <2>1. /\ <<p, q>> \in Directed \ opened /\ opened' = opened \cup {<<p, q>>}
        /\ UNCHANGED <<seat, video, voices, left, expired, newest, meshed, broken>>
    BY DEF Join, belief
  <2>2. broken # 0
    BY <2>1 DEF VInv, Passed
  <2>3. p # q
    BY <2>1, Pairs
  <2> QED BY <2>1, <2>2, <2>3
<1>3. /\ said[p] \in Nat /\ \A o \in Everybody \ {p} : said'[o] = said[o]
      /\ said'[p] = IF Tells(p, q) THEN said[p] + 1 ELSE said[p]
  <2>1. said \in [Everybody -> Nat] /\ IF Tells(p, q) THEN said' = [said EXCEPT ![p] = @ + 1] ELSE said' = said
    BY <1>1 DEF Join, TypeOKVoice
  <2> QED BY <2>1
<1>4. Tells(p, q) => x \in Presences /\ x.member = p /\ x.at = said'[p] /\ x.channel = seat[p]
                     /\ x.leaving = FALSE /\ x.video = video[p] /\ q \in Seers[seat[p]] /\ p \in Seers[seat[p]]
  <2> SUFFICES ASSUME Tells(p, q)
               PROVE  x \in Presences /\ x.member = p /\ x.at = said'[p] /\ x.channel = seat[p]
                      /\ x.leaving = FALSE /\ x.video = video[p] /\ q \in Seers[seat[p]] /\ p \in Seers[seat[p]]
    OBVIOUS
  <2>1. /\ seat[p] \in Channels /\ video[p] \in BOOLEAN /\ said[p] + 1 \in Nat \ {0}
        /\ said[p] + 1 <= MaxSaid[p] /\ q \in Seers[seat[p]] /\ p \in Seers[seat[p]]
    <3>1. seat[p] \in Channels /\ video[p] \in BOOLEAN /\ said[p] < MaxSaid[p] /\ MaxSaid[p] \in Nat
      BY <1>1, VoiceAssumption DEF Tells, Join, TypeOKVoice
    <3>2. q \in Seers[seat[p]] /\ p \in Seers[seat[p]]
      BY <1>1 DEF Tells, Seated
    <3> QED BY <1>3, <3>1, <3>2
  <2>2. Saying(p, seat[p], said[p] + 1, FALSE, video[p]) \in Presences
    BY <2>1, SayingTyped
  <2> QED BY <1>0, <1>3, <2>1, <2>2 DEF Saying
<1>5. /\ OnWay(p, q)' = OnWay(p, q) \cup {AsHeld(p, m) : m \in Aware(p, q)} \cup (IF Tells(p, q) THEN {x} ELSE {})
      /\ \A o, r \in Everybody : <<o, r>> # <<p, q>> => wire'[o][r] = wire[o][r]
  <2> DEFINE own == IF Tells(p, q) THEN <<x>> ELSE <<>>
  <2>1. /\ wire \in Wires /\ wire[p][q] \in Seq(Presences)
        /\ wire' = [wire EXCEPT ![p][q] = wire[p][q] \o Opens(p, q)] /\ Opens(p, q) = Held(p, q) \o own
    BY <1>0, <1>1 DEF Join, TypeOKVoice, Wires, Opens
  <2>2. own \in Seq(Presences) /\ ToSet(own) = IF Tells(p, q) THEN {x} ELSE {}
    <3>1. CASE Tells(p, q)
      BY <1>4, <3>1, OneOnWay
    <3>2. CASE ~Tells(p, q)
      BY <3>2 DEF ToSet
    <3> QED BY <3>1, <3>2
  <2> HIDE DEF own
  <2>3. Held(p, q) \in Seq(Presences) /\ ToSet(Held(p, q)) = {AsHeld(p, m) : m \in Aware(p, q)}
    BY <1>1, HeldIs
  <2>4. Opens(p, q) \in Seq(Presences)
        /\ ToSet(Opens(p, q)) = {AsHeld(p, m) : m \in Aware(p, q)} \cup ToSet(own)
    BY <2>1, <2>2, <2>3, BothOnWay
  <2>5. ToSet(wire[p][q] \o Opens(p, q)) = ToSet(wire[p][q]) \cup ToSet(Opens(p, q))
    <3>1. wire[p][q] \in Seq(Presences) /\ Opens(p, q) \in Seq(Presences)
      BY <2>1, <2>4
    <3> HIDE DEF Presences
    <3> QED BY <3>1, BothOnWay
  <2>6. wire'[p][q] = wire[p][q] \o Opens(p, q)
    BY <2>1 DEF Wires
  <2>7. \A o, r \in Everybody : <<o, r>> # <<p, q>> => wire'[o][r] = wire[o][r]
    BY <2>1 DEF Wires
  <2> QED BY <2>2, <2>4, <2>5, <2>6, <2>7 DEF OnWay
<1>6. /\ \A o, r \in Everybody : OnWay(o, r) \subseteq OnWay(o, r)'
      /\ \A o, r \in Everybody : <<o, r>> # <<p, q>> => OnWay(o, r)' = OnWay(o, r)
  BY <1>5 DEF OnWay
<1>7. ASSUME NEW o \in Everybody, NEW m \in Everybody
      PROVE  /\ Knows(o, m) \in Nat /\ Knows(o, m)' \in Nat /\ Knows(o, m)' >= Knows(o, m)
             /\ o # m => Knows(o, m)' = Knows(o, m) /\ Knows(o, m) = newest[o][m]
             /\ o # p => Knows(o, m)' = Knows(o, m)
  <2>1. said[o] \in Nat /\ newest[o][m] \in Nat
    BY <1>1, NaturalsAre
  <2> QED BY <1>2, <1>3, <2>1 DEF Knows
<1>8. Seated'
  BY <1>1, <1>2 DEF Seated, Present
<1>9. Beliefs'
  <2>1. Forgets(p)
    BY <1>2 DEF Forgets
  <2>2. ASSUME NEW o \in Everybody, NEW m \in Everybody \ {o} PROVE Believed(o, m)'
    <3>1. (seat'[m] = seat[m] /\ video'[m] = video[m] /\ said'[m] = said[m]) \/ said'[m] = said[m] + 1
      BY <1>2, <1>3
    <3> QED BY <1>1, <2>1, <3>1, ForgottenBelieved
  <2>3. ASSUME NEW o \in Everybody PROVE voices'[o][o] = Unheard
    BY <1>1, <1>2 DEF Beliefs
  <2> QED BY <2>2, <2>3 DEF Beliefs
<1>10. ASSUME NEW m \in Aware(p, q)
       PROVE  /\ m \in Everybody \ {p, q} /\ voices[p][m] # Unheard /\ {q, p, m} \subseteq Seers[voices[p][m].channel]
              /\ newest[p][m] = voices[p][m].at /\ Believed(p, m)
              /\ AsHeld(p, m).member = m /\ AsHeld(p, m).channel = voices[p][m].channel
              /\ AsHeld(p, m).at = voices[p][m].at /\ AsHeld(p, m).video = voices[p][m].video
              /\ AsHeld(p, m).leaving = FALSE
  <2>1. m \in Everybody \ {p, q} /\ voices[p][m] # Unheard /\ q \in Seers[voices[p][m].channel]
    BY DEF Aware
  <2>2. Believed(p, m)
    BY <1>1, <2>1 DEF Beliefs
  <2>3. {p, m} \subseteq Seers[voices[p][m].channel] /\ newest[p][m] = voices[p][m].at
    BY <2>1, <2>2 DEF Believed
  <2> QED BY <2>1, <2>2, <2>3 DEF AsHeld, Saying
<1>11. Carries'
  <2>1. ASSUME NEW o \in Everybody, NEW r \in Everybody, NEW y \in OnWay(o, r) PROVE Carried(o, r, y)'
    <3>1. Carried(o, r, y) /\ y.member \in Everybody /\ y.at \in Nat /\ said[y.member] \in Nat
      <4>1. y \in Presences
        BY <1>1, <2>1, OnTheWay
      <4> QED BY <1>1, <2>1, <4>1, NumbersAre, NaturalsAre DEF Carries, Presences
    <3>2. y.at <= Knows(o, y.member)'
      <4>1. y.at <= Knows(o, y.member)
        BY <3>1 DEF Carried
      <4>2. Knows(o, y.member)' >= Knows(o, y.member) /\ Knows(o, y.member) \in Nat /\ Knows(o, y.member)' \in Nat
        BY <1>7, <3>1
      <4> QED BY <3>1, <4>1, <4>2
    <3>3. IsLast(y.member, y)'
      BY <1>2, <1>3, <3>1 DEF Carried, IsLast
    <3> QED BY <3>1, <3>2, <3>3 DEF Carried
  <2>2. Tells(p, q) => Carried(p, q, x)'
    BY <1>2, <1>3, <1>4 DEF Carried, Knows, IsLast
  <2>3. ASSUME NEW m \in Aware(p, q), NEW y, y = AsHeld(p, m) PROVE Carried(p, q, y)'
    <3>1. /\ m \in Everybody \ {p, q} /\ voices[p][m] # Unheard /\ Believed(p, m) /\ newest[p][m] = voices[p][m].at
          /\ y.member = m /\ y.channel = voices[p][m].channel /\ y.at = newest[p][m]
          /\ y.video = voices[p][m].video /\ y.leaving = FALSE /\ {q, p, m} \subseteq Seers[y.channel]
      <4>1. /\ m \in Everybody \ {p, q} /\ voices[p][m] # Unheard /\ Believed(p, m)
            /\ newest[p][m] = voices[p][m].at /\ {q, p, m} \subseteq Seers[voices[p][m].channel]
        BY <1>10
      <4>2. /\ y.member = m /\ y.channel = voices[p][m].channel /\ y.at = voices[p][m].at
            /\ y.video = voices[p][m].video /\ y.leaving = FALSE
        BY <2>3 DEF AsHeld, Saying
      <4> QED BY <4>1, <4>2
    <3>2. y.at <= Knows(p, m)'
      BY <1>1, <1>2, <3>1, NaturalsAre DEF Knows
    <3>3. IsLast(m, y)'
      <4>1. y.at <= said[m] /\ said'[m] = said[m]
        BY <1>3, <3>1 DEF Believed
      <4>2. y.at = said[m] => seat[m] = y.channel /\ video[m] = y.video
        <5> SUFFICES ASSUME newest[p][m] = said[m] PROVE seat[m] = y.channel /\ video[m] = y.video
          BY <3>1
        <5>1. voices[p][m] = [channel |-> seat[m], at |-> said[m], video |-> video[m]]
          BY <3>1 DEF Believed
        <5> QED BY <3>1, <5>1
      <4> QED BY <1>2, <3>1, <4>1, <4>2 DEF IsLast
    <3> QED BY <3>1, <3>2, <3>3 DEF Carried
  <2>4. ASSUME NEW o \in Everybody, NEW r \in Everybody, NEW y \in OnWay(o, r)' PROVE Carried(o, r, y)'
    <3>1. CASE y \in OnWay(o, r)
      BY <2>1, <3>1
    <3>2. CASE y \notin OnWay(o, r)
      <4>1. o = p /\ r = q
        BY <1>6, <2>4, <3>2
      <4>2. (Tells(p, q) /\ y = x) \/ \E m \in Aware(p, q) : y = AsHeld(p, m)
        BY <1>5, <2>4, <3>2, <4>1
      <4> QED BY <2>2, <2>3, <4>1, <4>2
    <3> QED BY <3>1, <3>2
  <2>5. \A o, r \in Everybody : ~Joined(o, r)' => wire'[o][r] = <<>>
    BY <1>1, <1>2, <1>5 DEF Joined, Carries
  <2> QED BY <2>4, <2>5 DEF Carries
<1>12. ASSUME NEW o \in Everybody, NEW r \in Everybody, NEW m \in Everybody,
              Knows(o, m)' = Knows(o, m), Comes(o, r, m)
       PROVE  Comes(o, r, m)'
  <2>1. /\ Knows(o, m) \in Nat /\ Knows(r, m)' >= Knows(r, m) /\ Knows(r, m)' \in Nat /\ Knows(r, m) \in Nat
    BY <1>7
  <2> QED BY <1>6, <1>12, <2>1 DEF Comes
<1>13. Passed'
  <2>1. ASSUME NEW c \in Channels, NEW o \in Seers[c], NEW r \in Seers[c], Joined(o, r)',
               NEW m \in Everybody \ {o, r}, HasToSay(o, m)'
        PROVE  Comes(o, r, m)'
    <3>1. o \in Everybody /\ r \in Everybody /\ HasToSay(o, m) /\ voices[o][m] # Unheard
      BY <1>2, <2>1, VoiceAssumption DEF HasToSay
    <3>2. CASE <<o, r>> # <<p, q>>
      <4>1. Joined(o, r)
        BY <1>2, <2>1, <3>2 DEF Joined
      <4>2. Comes(o, r, m)
        BY <2>1, <3>1, <4>1 DEF VInv, Passed
      <4>3. Knows(o, m)' = Knows(o, m)
        BY <1>7, <2>1, <3>1
      <4> QED BY <1>12, <3>1, <4>2, <4>3
    <3>3. CASE <<o, r>> = <<p, q>>
      <4>1. voices[p][m] \in [channel : Channels, at : Numbers, video : BOOLEAN]
        <5>1. voices \in [Everybody -> [Everybody -> {Unheard} \cup [channel : Channels, at : Numbers, video : BOOLEAN]]]
          BY <1>1 DEF TypeOKVoice
        <5>2. voices[p][m] \in {Unheard} \cup [channel : Channels, at : Numbers, video : BOOLEAN]
          BY <5>1
        <5> QED BY <3>1, <3>3, <5>2
      <4>2. voices[p][m].channel = c
        BY <4>1 DEF SingleChannel
      <4>3. m \in Aware(p, q)
        BY <2>1, <3>1, <3>3, <4>2 DEF Aware
      <4>4. AsHeld(p, m) \in OnWay(p, q)' /\ AsHeld(p, m).member = m /\ AsHeld(p, m).at = newest[p][m]
        <5>1. AsHeld(p, m) \in OnWay(p, q)'
          BY <1>5, <4>3
        <5>2. AsHeld(p, m).member = m /\ AsHeld(p, m).at = newest[p][m]
          <6>1. AsHeld(p, m).member = m /\ AsHeld(p, m).at = voices[p][m].at
            BY DEF AsHeld, Saying
          <6>2. newest[p][m] = voices[p][m].at
            BY <1>10, <4>3
          <6> QED BY <6>1, <6>2
        <5> QED BY <5>1, <5>2
      <4>5. Knows(p, m)' = newest[p][m] /\ newest[p][m] \in Nat
        BY <1>7, <2>1, <3>1, <3>3
      <4>6. PICK y \in OnWay(p, q)' : y.member = m /\ y.at = newest[p][m]
        BY <4>4
      <4> QED BY <3>3, <4>5, <4>6 DEF Comes
    <3> QED BY <3>2, <3>3
  <2> QED BY <1>2, <2>1 DEF Passed
<1>14. SaidIt'
  <2> SUFFICES ASSUME NEW c \in Channels, NEW m \in Everybody, m \in Seers[c], HasToSay(m, m)', Neighbors(m, c) # {},
                      \A r \in Neighbors(m, c) : Joined(m, r)'
               PROVE  \E r \in Neighbors(m, c) : Comes(m, r, m)'
    BY DEF SaidIt, Neighbors
  <2>1. Neighbors(m, c) \subseteq Everybody /\ HasToSay(m, m) /\ seat[m] # Out
    BY <1>2, VoiceAssumption DEF Neighbors, HasToSay
  <2>2. CASE m = p /\ Tells(p, q)
    <3>1. seat[p] = c /\ q \in Neighbors(m, c)
      <4>1. seat[p] \in Channels
        BY <1>1, <2>1, <2>2 DEF TypeOKVoice
      <4>2. seat[p] = c
        BY <4>1 DEF SingleChannel
      <4>3. {p, q} \in Links
        BY <1>2, Pairs
      <4> QED BY <1>4, <2>2, <4>2, <4>3 DEF Neighbors
    <3>2. x \in OnWay(m, q)' /\ x.member = m /\ x.at = Knows(m, m)'
      BY <1>4, <1>5, <2>2 DEF Knows
    <3>3. Knows(m, m)' \in Nat
      BY <1>7
    <3> QED BY <3>1, <3>2, <3>3 DEF Comes
  <2>3. CASE ~(m = p /\ Tells(p, q))
    <3>1. Knows(m, m)' = Knows(m, m)
      BY <1>3, <2>3 DEF Knows
    <3>2. \A r \in Neighbors(m, c) : <<m, r>> # <<p, q>>
      <4> SUFFICES ASSUME m = p, q \in Neighbors(m, c) PROVE FALSE
        OBVIOUS
      <4>1. seat[p] \in Channels
        BY <1>1, <2>1 DEF TypeOKVoice
      <4>2. q \in Seers[seat[p]] /\ seat[p] # Out
        BY <2>1, <4>1 DEF SingleChannel, Neighbors
      <4> QED BY <2>3, <4>2 DEF Tells
    <3>3. \A r \in Neighbors(m, c) : Joined(m, r)
      BY <1>2, <3>2 DEF Joined
    <3>4. PICK r \in Neighbors(m, c) : Comes(m, r, m)
      BY <2>1, <3>3 DEF VInv, SaidIt
    <3> QED BY <1>12, <2>1, <3>1, <3>4
  <2> QED BY <2>2, <2>3
<1> QED BY <1>1, <1>8, <1>9, <1>11, <1>13, <1>14 DEF VInv

LEMMA PartingKeeps ==
  ASSUME VInv, NEW p \in Everybody, NEW q \in Everybody, Part(p, q) PROVE VInv'
<1>1. TypeOKVoice /\ TypeOKVoice' /\ Seated /\ Carries /\ Beliefs
  BY PartingTyped DEF VInv
<1>2. /\ opened' = opened \ {<<p, q>>, <<q, p>>} /\ p # q
      /\ UNCHANGED <<seat, video, said, voices, left, expired, newest, meshed>>
      /\ broken' # 0
  <2>1. /\ Joined(p, q) /\ broken' = broken + 1 /\ opened' = opened \ {<<p, q>>, <<q, p>>}
        /\ UNCHANGED <<seat, video, said, voices, left, expired, newest, meshed>>
    BY DEF Part, mine, belief
  <2>2. broken \in Nat
    BY <1>1, VoiceAssumption DEF TypeOKVoice
  <2>3. p # q
    BY <1>1, <2>1, Pairs DEF Joined, TypeOKVoice
  <2> QED BY <2>1, <2>2, <2>3
<1>3. \A o, r \in Everybody : wire'[o][r] = IF <<o, r>> \in {<<p, q>>, <<q, p>>} THEN <<>> ELSE wire[o][r]
  <2>1. wire \in Wires /\ wire' = [wire EXCEPT ![p][q] = <<>>, ![q][p] = <<>>]
    BY <1>1 DEF Part, TypeOKVoice, Wires
  <2> QED BY <1>2, <2>1 DEF Wires
<1>4. /\ \A o, r \in Everybody : OnWay(o, r)' \subseteq OnWay(o, r)
      /\ \A o, r \in Everybody : Joined(o, r)' => OnWay(o, r)' = OnWay(o, r) /\ Joined(o, r)
  <2>1. ToSet(<<>>) = {}
    BY DEF ToSet
  <2> QED BY <1>2, <1>3, <2>1 DEF OnWay, Joined
<1>5. Seated'
  BY <1>1, <1>2 DEF Seated, Present
<1>6. Beliefs'
  BY <1>1, <1>2 DEF Beliefs, Believed
<1>7. Carries'
  <2>1. ASSUME NEW o \in Everybody, NEW r \in Everybody, NEW y \in OnWay(o, r)' PROVE Carried(o, r, y)'
    <3>1. Carried(o, r, y)
      BY <1>1, <1>4, <2>1 DEF Carries
    <3> QED BY <1>2, <3>1 DEF Carried, Knows, IsLast
  <2>2. \A o, r \in Everybody : ~Joined(o, r)' => wire'[o][r] = <<>>
    BY <1>1, <1>2, <1>3 DEF Joined, Carries
  <2> QED BY <2>1, <2>2 DEF Carries
<1>8. ASSUME NEW o \in Everybody, NEW r \in Everybody, NEW m \in Everybody, Joined(o, r)', Comes(o, r, m)
      PROVE  Comes(o, r, m)'
  BY <1>2, <1>4, <1>8 DEF Comes, Knows
<1>9. \A o, m \in Everybody : HasToSay(o, m)' => HasToSay(o, m)
  BY <1>2 DEF HasToSay
<1>10. Passed'
  <2>1. ASSUME NEW c \in Channels, NEW o \in Seers[c], NEW r \in Seers[c], Joined(o, r)',
               NEW m \in Everybody \ {o, r}, HasToSay(o, m)'
        PROVE  Comes(o, r, m)'
    <3>1. o \in Everybody /\ r \in Everybody
      BY VoiceAssumption
    <3>2. Joined(o, r) /\ HasToSay(o, m)
      BY <1>4, <1>9, <2>1, <3>1
    <3>3. Comes(o, r, m)
      BY <2>1, <3>2 DEF VInv, Passed
    <3> QED BY <1>8, <2>1, <3>1, <3>3
  <2> QED BY <1>2, <2>1 DEF Passed
<1>11. SaidIt'
  <2> SUFFICES ASSUME NEW c \in Channels, NEW m \in Everybody, m \in Seers[c], HasToSay(m, m)', Neighbors(m, c) # {},
                      \A r \in Neighbors(m, c) : Joined(m, r)'
               PROVE  \E r \in Neighbors(m, c) : Comes(m, r, m)'
    BY DEF SaidIt, Neighbors
  <2>1. Neighbors(m, c) \subseteq Everybody /\ HasToSay(m, m)
    BY <1>9, VoiceAssumption DEF Neighbors
  <2>2. \A r \in Neighbors(m, c) : Joined(m, r)
    BY <1>4, <2>1
  <2>3. PICK r \in Neighbors(m, c) : Comes(m, r, m)
    BY <2>1, <2>2 DEF VInv, SaidIt
  <2> QED BY <1>8, <2>1, <2>3
<1> QED BY <1>1, <1>5, <1>6, <1>7, <1>10, <1>11 DEF VInv

LEMMA BeginningKeeps == InitVoice => VInv
<1> SUFFICES ASSUME InitVoice PROVE VInv
  OBVIOUS
<1>1. TypeOKVoice
  BY BeginningTyped
<1>2. /\ opened = Directed /\ broken = 0
      /\ \A p \in Everybody : seat[p] = Out /\ said[p] = 0 /\ meshed[p] = {}
      /\ \A p, m \in Everybody : /\ voices[p][m] = Unheard /\ left[p][m] = 0 /\ expired[p][m] = 0 /\ newest[p][m] = 0
                                 /\ wire[p][m] = <<>>
  BY DEF InitVoice
<1>3. \A p, m \in Everybody : OnWay(p, m) = {} /\ Knows(p, m) = 0
  <2>1. ToSet(<<>>) = {}
    BY DEF ToSet
  <2> QED BY <1>2, <2>1 DEF OnWay, Knows
<1>4. Seated /\ Carries /\ Beliefs
  <2>1. Seated
    BY <1>2 DEF Seated
  <2>2. Carries
    BY <1>2, <1>3 DEF Carries
  <2>3. Beliefs
    BY <1>2 DEF Beliefs, Believed
  <2> QED BY <2>1, <2>2, <2>3
<1>5. \A p, q, m \in Everybody : Comes(p, q, m)
  BY <1>3 DEF Comes
<1>6. \A c \in Channels : Seers[c] \subseteq Everybody
  BY VoiceAssumption
<1>7. Passed
  BY <1>2, <1>5, <1>6 DEF Passed
<1>8. SaidIt
  BY <1>5, <1>6 DEF SaidIt, Neighbors
<1> QED BY <1>1, <1>4, <1>7, <1>8 DEF VInv

LEMMA StepsKeepVoice == ASSUME SingleChannel PROVE VInv /\ [NextVoice]_voicing => VInv'
<1> SUFFICES ASSUME VInv, [NextVoice]_voicing PROVE VInv'
  OBVIOUS
<1>1. CASE UNCHANGED voicing
  <2>1. UNCHANGED <<seat, video, said, voices, left, expired, newest, meshed, opened, wire, broken>>
    BY <1>1 DEF voicing, mine, belief
  <2>2. TypeOKVoice'
    BY <2>1 DEF VInv, TypeOKVoice
  <2>3. Seated'
    BY <2>1 DEF VInv, Seated, Present
  <2>4. Carries'
    <3>1. ASSUME NEW o \in Everybody, NEW q \in Everybody, NEW y PROVE Carried(o, q, y)' <=> Carried(o, q, y)
      BY <2>1 DEF Carried, Knows, IsLast
    <3>2. \A o, q \in Everybody : OnWay(o, q)' = OnWay(o, q) /\ (Joined(o, q)' <=> Joined(o, q))
      BY <2>1 DEF OnWay, Joined
    <3> QED BY <2>1, <3>1, <3>2 DEF VInv, Carries
  <2>5. Beliefs'
    BY <2>1 DEF VInv, Beliefs, Believed
  <2>6. Passed'
    BY <2>1 DEF VInv, Passed, HasToSay, Comes, Knows, OnWay, Joined
  <2>7. SaidIt'
    BY <2>1 DEF VInv, SaidIt, Neighbors, HasToSay, Comes, Knows, OnWay, Joined
  <2> QED BY <2>2, <2>3, <2>4, <2>5, <2>6, <2>7 DEF VInv
<1>2. CASE NextVoice
  BY <1>2, JoiningKeeps, LeavingKeeps, ShowingKeeps, RenewingKeeps, HearingKeeps, OpeningKeeps, PartingKeeps
     DEF NextVoice
<1> QED BY <1>1, <1>2

(* In one channel, whoever was told where a member is never goes back to   *)
(* where it was, in whatever order what it said comes, over however many   *)
(* connections, and whoever is forgotten for its silence in between (voice *)
(* and believe).  In two it may: one of the channel left is compared with  *)
(* nothing held of the channel it went to.                                 *)
THEOREM LatestInOneChannel == ASSUME SingleChannel PROVE SpecVoice => []LatestBelieved
<1>1. VInv => LatestBelieved
  <2> SUFFICES ASSUME VInv, NEW p \in Everybody, NEW m \in Everybody, voices[p][m] # Unheard
               PROVE  voices[p][m].at >= newest[p][m]
    BY DEF LatestBelieved, LatestKnown
  <2>1. newest[p][m] = voices[p][m].at
    BY DEF VInv, Beliefs, Believed
  <2>2. newest[p][m] \in Nat
    BY NaturalsAre DEF VInv
  <2> QED BY <2>1, <2>2
<1> QED BY <1>1, BeginningKeeps, StepsKeepVoice, PTL DEF SpecVoice

(* Whoever sees a channel reaches the others who do over the space's       *)
(* links, also without any one of them.                                    *)
Reach(S) == \A some \in SUBSET S : some # {} /\ some # S => \E p \in some, q \in S \ some : {p, q} \in Links
Woven == \A c \in Channels : Reach(Seers[c]) /\ \A m \in Seers[c] : Reach(Seers[c] \ {m})

LEMMA EverybodyKnows ==
  ASSUME SingleChannel, Woven, VInv, Quiet, NEW c \in Channels, NEW p \in Seers[c], NEW m \in Seers[c] \ {p},
         seat[m] = c \/ broken = 0
  PROVE  p \in Everybody /\ m \in Everybody /\ Believed(p, m) /\ newest[p][m] = said[m]
<1>1. Seers[c] \subseteq Everybody /\ p \in Everybody /\ m \in Everybody /\ c # Out
  BY VoiceAssumption
<1>2. \A q, r \in Everybody : {q, r} \in Links => Joined(q, r) /\ q # r
  <2> SUFFICES ASSUME NEW q \in Everybody, NEW r \in Everybody, {q, r} \in Links PROVE Joined(q, r) /\ q # r
    OBVIOUS
  <2>1. <<q, r>> \in Directed
    BY DEF Directed
  <2> QED BY <2>1, Pairs DEF Quiet, Joined
<1>3. \A q, r \in Everybody : OnWay(q, r) = {}
  <2>1. ToSet(<<>>) = {}
    BY DEF ToSet
  <2> QED BY <2>1 DEF Quiet, OnWay
<1>4. \A q \in Seers[c] \ {m} : Believed(q, m) /\ newest[q][m] \in Nat /\ said[m] \in Nat /\ newest[q][m] <= said[m]
  <2> SUFFICES ASSUME NEW q \in Seers[c] \ {m}
               PROVE  Believed(q, m) /\ newest[q][m] \in Nat /\ said[m] \in Nat /\ newest[q][m] <= said[m]
    OBVIOUS
  <2>1. Believed(q, m)
    BY <1>1 DEF VInv, Beliefs
  <2> QED BY <1>1, <2>1, NaturalsAre DEF VInv, Believed
<1>5. PICK first \in Seers[c] \ {m} : newest[first][m] = said[m]
  <2>1. Neighbors(m, c) # {}
    <3>1. {m} \in SUBSET Seers[c] /\ {m} # {} /\ {m} # Seers[c] /\ Reach(Seers[c])
      BY DEF Woven
    <3>2. \E o \in {m}, q \in Seers[c] \ {m} : {o, q} \in Links
      BY <3>1 DEF Reach
    <3> QED BY <3>2 DEF Neighbors
  <2>2. \A q \in Neighbors(m, c) : q \in Seers[c] \ {m} /\ Joined(m, q)
    BY <1>1, <1>2 DEF Neighbors
  <2>3. HasToSay(m, m)
    BY <1>1 DEF HasToSay
  <2>4. PICK q \in Neighbors(m, c) : Comes(m, q, m)
    BY <1>1, <2>1, <2>2, <2>3 DEF VInv, SaidIt
  <2>5. newest[q][m] >= said[m]
    BY <1>1, <1>3, <2>2, <2>4 DEF Comes, Knows
  <2> QED BY <1>4, <2>2, <2>5
<1> DEFINE seers == Seers[c] \ {m}  some == {q \in seers : newest[q][m] = said[m]}
<1>6. some = seers
  <2> SUFFICES ASSUME some # seers PROVE FALSE
    OBVIOUS
  <2>1. some \in SUBSET seers /\ some # {}
    BY <1>5
  <2>2. PICK q \in some, r \in seers \ some : {q, r} \in Links
    <3>1. Reach(seers)
      BY DEF Woven
    <3> HIDE DEF seers, some
    <3> QED BY <2>1, <3>1 DEF Reach
  <2>3. q \in Seers[c] /\ r \in Seers[c] /\ m \in Everybody \ {q, r} /\ Joined(q, r) /\ q \in Everybody /\ r \in Everybody
    BY <1>1, <1>2, <2>2
  <2>4. HasToSay(q, m)
    <3>1. CASE broken = 0
      BY <3>1 DEF HasToSay
    <3>2. CASE seat[m] = c
      <4>1. voices[q][m] = [channel |-> c, at |-> said[m], video |-> video[m]]
        BY <1>1, <1>4, <2>2, <3>2 DEF Believed
      <4>2. voices[q][m] # Unheard
        BY <1>1, <4>1 DEF Unheard
      <4> QED BY <2>3, <4>2 DEF HasToSay
    <3> QED BY <3>1, <3>2
  <2>5. Comes(q, r, m)
    BY <2>3, <2>4 DEF VInv, Passed
  <2>6. newest[r][m] >= newest[q][m]
    BY <1>3, <2>3, <2>5 DEF Comes, Knows
  <2>7. newest[r][m] = said[m]
    BY <1>4, <2>2, <2>6
  <2> QED BY <2>2, <2>7
<1>7. newest[p][m] = said[m]
  BY <1>6
<1> QED BY <1>1, <1>4, <1>7

(* In one channel, once what was said has come, whoever sees the channel   *)
(* knows who is in it, and how, whatever was lost as connections ended and *)
(* whoever was forgotten for its silence (passOn and presences); and while *)
(* none ended, it knows who is not.  The members who see it have to reach  *)
(* one another without any one of them, too: as it opens the space again a *)
(* member says its last presence to one of them alone, who passes it on.   *)
THEOREM SeatsInOneChannel == ASSUME SingleChannel, Woven PROVE SpecVoice => []SeatsAreKnown
<1>1. VInv => SeatsAreKnown
  <2> SUFFICES ASSUME VInv, Quiet, NEW p \in Everybody, NEW c \in Channels
               PROVE  /\ p \in Seers[c] => In(c) \subseteq Voice(p, c)
                      /\ broken = 0 => Voice(p, c) \subseteq In(c)
                      /\ \A m \in In(c) \ {p} : p \in Seers[c] => voices[p][m].video = video[m]
                      /\ seat[p] = c => /\ In(c) \ {p} \subseteq meshed[p]
                                        /\ broken = 0 => meshed[p] \subseteq In(c)
    BY DEF SeatsAreKnown, SeatsKnown
  <2>1. c # Out
    BY VoiceAssumption
  <2>2. ASSUME p \in Seers[c], NEW m \in In(c) \ {p}
        PROVE  m \in Everybody /\ voices[p][m].channel = c /\ voices[p][m].video = video[m]
    <3>1. m \in Everybody /\ seat[m] = c /\ m \in Seers[c] \ {p}
      BY <2>1 DEF In, VInv, Seated
    <3>2. Believed(p, m) /\ newest[p][m] = said[m]
      BY <2>2, <3>1, EverybodyKnows
    <3>3. voices[p][m] = [channel |-> c, at |-> said[m], video |-> video[m]]
      BY <2>1, <3>1, <3>2 DEF Believed
    <3> QED BY <3>1, <3>3
  <2>3. ASSUME broken = 0, NEW m \in Present(p, c) PROVE m \in In(c)
    <3>1. m \in Everybody /\ voices[p][m].channel = c /\ voices[p][m] # Unheard
      BY <2>1 DEF Present, Unheard
    <3>2. m # p /\ Believed(p, m)
      BY <3>1 DEF VInv, Beliefs
    <3>3. {p, m} \subseteq Seers[c]
      BY <3>1, <3>2 DEF Believed
    <3>4. newest[p][m] = said[m]
      BY <2>3, <3>2, <3>3, EverybodyKnows
    <3>5. seat[m] # Out /\ voices[p][m] = [channel |-> seat[m], at |-> said[m], video |-> video[m]]
      BY <3>1, <3>2, <3>4 DEF Believed
    <3>6. seat[m] = c
      BY <3>1, <3>5
    <3> QED BY <3>1, <3>6 DEF In
  <2>4. p \in Seers[c] => In(c) \ {p} \subseteq Present(p, c)
    BY <2>2 DEF Present
  <2>5. p \in Seers[c] => In(c) \subseteq Voice(p, c)
    BY <2>4 DEF Voice, In
  <2>6. broken = 0 => Voice(p, c) \subseteq In(c)
    BY <2>3 DEF Voice, In
  <2>7. seat[p] = c => meshed[p] = Present(p, c) /\ p \in Seers[c]
    BY <2>1 DEF VInv, Seated
  <2> QED BY <2>2, <2>3, <2>4, <2>5, <2>6, <2>7
<1> QED BY <1>1, BeginningKeeps, StepsKeepVoice, PTL DEF SpecVoice
=============================================================================
