----------------------------- MODULE RingProofs -----------------------------
(***************************************************************************)
(* What Ring, Reachability and Admission promise of the service and of     *)
(* those who use it, proved for any people, machines, connections, limits  *)
(* and lengths of blocks.                                                  *)
(*                                                                         *)
(* A connection not released is counted for the address it is from, and    *)
(* one that was is not used again before it is: so the connections of an   *)
(* address are as many as are counted.  The blocks double: how long one is *)
(* is recursive, and what it is for every number of offences follows from  *)
(* there being a least number for which it would not be.                   *)
(***************************************************************************)
EXTENDS Ring, FiniteSetTheorems, SequenceTheorems, WellFoundedInduction, TLAPS

(* Any naturals have a least, from which what is recursive is proved: of   *)
(* the things that would not hold, the first cannot exist.                 *)
LEMMA LeastNatural ==
  ASSUME NEW S \in SUBSET Nat, S # {}
  PROVE  \E n \in S : \A m \in S : n <= m
<1>1. IsWellFoundedOn(OpToRel(<, Nat), Nat)
  BY NatLessThanWellFounded
<1>2. PICK n \in S : \A m \in S : ~ (<<m, n>> \in OpToRel(<, Nat))
  BY <1>1, WFMin
<1>3. \A m \in S : <<m, n>> \in OpToRel(<, Nat) <=> m < n
  BY DEF OpToRel
<1>4. \A m \in S : ~(m < n)
  BY <1>2, <1>3, Zenon
<1> QED BY <1>4

(* There are twice as many subsets of one more.                            *)
LEMMA PowersOfTwo ==
  ASSUME NEW n \in Nat
  PROVE  2^0 = 1 /\ 2^n \in Nat \ {0} /\ 2^(n + 1) = 2 * 2^n
<1>1. /\ IsFiniteSet(1..n) /\ Cardinality(1..n) = n
      /\ IsFiniteSet(1..(n + 1)) /\ Cardinality(1..(n + 1)) = n + 1
  BY FS_Interval
<1>2. /\ IsFiniteSet(SUBSET (1..n)) /\ Cardinality(SUBSET (1..n)) = 2^n
      /\ Cardinality(SUBSET (1..(n + 1))) = 2^(n + 1)
  BY <1>1, FS_SUBSET
<1> DEFINE S == SUBSET (1..n)
           W == {x \cup {n + 1} : x \in S}
           f == [x \in S |-> x \cup {n + 1}]
<1>3. IsFiniteSet(W) /\ Cardinality(W) = Cardinality(S)
  <2>1. \A x, y \in S : x \cup {n + 1} = y \cup {n + 1} => x = y
    <3> TAKE x \in S, y \in S
    <3>1. n + 1 \notin x /\ n + 1 \notin y
      OBVIOUS
    <3> QED BY <3>1
  <2>2. f \in [S -> W] /\ \A x \in S : f[x] = x \cup {n + 1}
    OBVIOUS
  <2>3. \A y \in W : \E x \in S : y = x \cup {n + 1}
    OBVIOUS
  <2> HIDE DEF f, S, W
  <2>4. f \in Injection(S, W)
    BY <2>1, <2>2 DEF Injection, IsInjective
  <2>5. f \in Surjection(S, W)
    BY <2>2, <2>3 DEF Surjection
  <2>6. f \in Bijection(S, W)
    BY <2>4, <2>5 DEF Bijection
  <2>7. ExistsBijection(S, W)
    BY <2>6 DEF ExistsBijection
  <2> QED BY <1>2, <2>7, FS_Bijection DEF S
<1>4. SUBSET (1..(n + 1)) = S \cup W
  <2>1. ASSUME NEW x \in SUBSET (1..(n + 1))
        PROVE  x \in S \cup W
    <3>1. CASE n + 1 \in x
      <4>1. x \ {n + 1} \in S /\ x = (x \ {n + 1}) \cup {n + 1}
        BY <3>1
      <4> QED BY <4>1
    <3>2. CASE n + 1 \notin x
      <4>1. \A i \in x : i \in 1..n
        BY <3>2
      <4> QED BY <4>1
    <3> QED BY <3>1, <3>2
  <2>2. \A i \in 1..n : i \in 1..(n + 1)
    OBVIOUS
  <2>3. n + 1 \in 1..(n + 1)
    OBVIOUS
  <2> QED BY <2>1, <2>2, <2>3
<1>5. S \cap W = {}
  <2>1. \A x \in S : n + 1 \notin x
    OBVIOUS
  <2> QED BY <2>1
<1>6. Cardinality(S \cup W) = Cardinality(S) + Cardinality(W) - 0
  <2>1. IsFiniteSet(S) /\ IsFiniteSet(W) /\ Cardinality(S \cap W) = 0
    BY <1>2, <1>3, <1>5, FS_EmptySet
  <2> HIDE DEF S, W
  <2> QED BY <2>1, FS_Union
<1>7. 2^n \in Nat /\ 2^(n + 1) = 2^n + 2^n
  <2>1. Cardinality(S) \in Nat /\ Cardinality(S) = 2^n /\ Cardinality(S \cup W) = 2^(n + 1)
    BY <1>2, <1>4, FS_CardinalityType
  <2> HIDE DEF S, W
  <2> QED BY <1>3, <1>6, <2>1
<1>8. 2^n # 0
  <2>1. {} \in S
    OBVIOUS
  <2> HIDE DEF S
  <2> QED BY <1>2, <2>1, FS_EmptySet DEF S
<1> QED BY <1>7, <1>8

LEMMA LesserOfTwo ==
  ASSUME NEW a \in Int, NEW b \in Int
  PROVE  Min({a, b}) = IF a <= b THEN a ELSE b
BY DEF Min

-----------------------------------------------------------------------------
(* How long an address is blocked: twice as long each time, to a limit.    *)
Doubles(n, f) ==
  f = [i \in 1..n |-> IF i = 1 THEN FirstBlock
                      ELSE IF f[i - 1] < LongestBlock THEN 2 * f[i - 1] ELSE f[i - 1]]

LEMMA DoublesExists ==
  ASSUME NEW n \in Nat \ {0}
  PROVE  \E f : Doubles(n, f)
<1> DEFINE upTo(k, g) ==
      g = [i \in 1..k |-> IF i = 1 THEN FirstBlock
                          ELSE IF g[i - 1] < LongestBlock THEN 2 * g[i - 1] ELSE g[i - 1]]
           lost == {k \in 1..n : ~\E g : upTo(k, g)}
<1>1. ASSUME lost # {} PROVE FALSE
  <2>1. PICK k \in lost : \A i \in lost : k <= i
    <3>1. lost \in SUBSET Nat
      OBVIOUS
    <3> HIDE DEF lost
    <3> QED BY <1>1, <3>1, LeastNatural
  <2>2. k # 1
    <3>1. upTo(1, [i \in 1..1 |-> FirstBlock])
      OBVIOUS
    <3> HIDE DEF upTo
    <3> QED BY <2>1, <3>1
  <2>3. k \in 2..n /\ k - 1 \in 1..n /\ k - 1 \notin lost
    <3> HIDE DEF upTo
    <3> QED BY <2>1, <2>2
  <2>4. PICK g : upTo(k - 1, g)
    <3> HIDE DEF upTo
    <3> QED BY <2>3
  <2> DEFINE f == [i \in 1..k |-> IF i = k THEN IF g[k - 1] < LongestBlock THEN 2 * g[k - 1] ELSE g[k - 1]
                                  ELSE g[i]]
  <2>5. \A i \in 1..k : f[i] = IF i = 1 THEN FirstBlock
                               ELSE IF f[i - 1] < LongestBlock THEN 2 * f[i - 1] ELSE f[i - 1]
    <3> TAKE i \in 1..k
    <3>1. i # 1 => i - 1 \in 1..(k - 1) /\ f[i - 1] = g[i - 1]
      BY <2>3
    <3>2. CASE i = k
      BY <2>3, <3>1, <3>2
    <3>3. CASE i # k
      <4>1. i \in 1..(k - 1) /\ f[i] = g[i]
        BY <2>3, <3>3
      <4>2. g[i] = IF i = 1 THEN FirstBlock
                   ELSE IF g[i - 1] < LongestBlock THEN 2 * g[i - 1] ELSE g[i - 1]
        BY <2>4, <4>1
      <4> QED BY <3>1, <4>1, <4>2
    <3> QED BY <3>2, <3>3
  <2>6. f = [i \in 1..k |-> f[i]]
    OBVIOUS
  <2> HIDE DEF f
  <2>7. upTo(k, f)
    BY <2>5, <2>6
  <2> HIDE DEF upTo
  <2> QED BY <2>1, <2>7
<1>2. \E g : upTo(n, g)
  <2> HIDE DEF upTo
  <2> QED BY <1>1
<1> QED BY <1>2 DEF Doubles

LEMMA LengthIs ==
  ASSUME NEW n \in Nat \ {0}
  PROVE  Length(n) = Min({FirstBlock * 2^(n - 1), LongestBlock}) /\ Length(n) \in Nat
<1> DEFINE f == CHOOSE g : Doubles(n, g)
<1>1. Doubles(n, f)
  BY DoublesExists
<1>2. Length(n) = Min({f[n], LongestBlock})
  BY DEF Length, Doubles
<1> HIDE DEF f
<1>3. FirstBlock \in Nat \ {0} /\ LongestBlock \in Nat \ {0} /\ FirstBlock <= LongestBlock
  BY AdmissionAssumption
<1> DEFINE right(i) == /\ f[i] \in Nat
                       /\ f[i] = FirstBlock * 2^(i - 1)
                            \/ (f[i] >= LongestBlock /\ FirstBlock * 2^(i - 1) >= LongestBlock)
           wrong == {i \in 1..n : ~right(i)}
<1>4. \A i \in 1..n : f[i] = IF i = 1 THEN FirstBlock
                             ELSE IF f[i - 1] < LongestBlock THEN 2 * f[i - 1] ELSE f[i - 1]
  BY <1>1 DEF Doubles
<1>5. ASSUME wrong # {} PROVE FALSE
  <2>1. PICK i \in wrong : \A k \in wrong : i <= k
    <3>1. wrong \in SUBSET Nat
      OBVIOUS
    <3> HIDE DEF wrong
    <3> QED BY <1>5, <3>1, LeastNatural
  <2>2. i \in 1..n /\ ~right(i)
    OBVIOUS
  <2>3. CASE i = 1
    <3>1. f[1] = FirstBlock /\ 1 - 1 = 0 /\ 2^0 = 1
      BY <1>4, <2>2, <2>3, PowersOfTwo
    <3>2. FirstBlock * 2^(1 - 1) = FirstBlock
      BY <1>3, <3>1
    <3> QED BY <1>3, <2>2, <2>3, <3>1, <3>2
  <2>4. CASE i # 1
    <3>1. i - 1 \in 1..n /\ i - 2 \in Nat /\ (i - 2) + 1 = i - 1 /\ (i - 1) - 1 = i - 2
      BY <2>2, <2>4
    <3>2. right(i - 1)
      <4>1. i - 1 \notin wrong
        <5> HIDE DEF wrong
        <5> QED BY <2>1, <2>2, <3>1
      <4> QED BY <3>1, <4>1
    <3> DEFINE a == 2^(i - 2)
    <3>3. a \in Nat \ {0} /\ 2^(i - 1) = 2 * a
      BY <3>1, PowersOfTwo
    <3>4. /\ f[i - 1] \in Nat
          /\ f[i - 1] = FirstBlock * a \/ (f[i - 1] >= LongestBlock /\ FirstBlock * a >= LongestBlock)
      BY <3>1, <3>2
    <3>5. f[i] = IF f[i - 1] < LongestBlock THEN 2 * f[i - 1] ELSE f[i - 1]
      BY <1>4, <2>2, <2>4
    <3> HIDE DEF a
    <3>6. FirstBlock * a \in Nat /\ FirstBlock * (2 * a) = 2 * (FirstBlock * a)
      BY <1>3, <3>3
    <3> DEFINE b == FirstBlock * a
    <3>7. /\ f[i] \in Nat
          /\ f[i] = 2 * b \/ (f[i] >= LongestBlock /\ 2 * b >= LongestBlock)
      <4>1. b \in Nat
        BY <3>6
      <4>2. f[i - 1] = b \/ (f[i - 1] >= LongestBlock /\ b >= LongestBlock)
        BY <3>4
      <4> HIDE DEF b
      <4> QED BY <1>3, <3>4, <3>5, <4>1, <4>2
    <3>8. FirstBlock * 2^(i - 1) = 2 * b
      BY <3>3, <3>6
    <3> QED BY <2>2, <3>7, <3>8
  <2> QED BY <2>3, <2>4
<1>6. right(n)
  <2>1. n \in 1..n
    OBVIOUS
  <2> HIDE DEF right
  <2> QED BY <1>5, <2>1
<1>7. FirstBlock * 2^(n - 1) \in Nat
  <2>1. n - 1 \in Nat
    OBVIOUS
  <2>2. 2^(n - 1) \in Nat
    BY <2>1, PowersOfTwo
  <2> QED BY <1>3, <2>2
<1> DEFINE b == FirstBlock * 2^(n - 1)
<1>8. b \in Nat /\ f[n] \in Nat /\ (f[n] = b \/ (f[n] >= LongestBlock /\ b >= LongestBlock))
  BY <1>6, <1>7
<1> HIDE DEF b
<1>9. Min({f[n], LongestBlock}) = Min({b, LongestBlock}) /\ Min({b, LongestBlock}) \in Nat
  BY <1>3, <1>8, LesserOfTwo
<1> QED BY <1>2, <1>9 DEF b

-----------------------------------------------------------------------------
(* Which of the times a limit was broken are together.                     *)
LEMMA GreatestIs ==
  ASSUME NEW n \in Nat, NEW S \in SUBSET (1..n), NEW m \in S, \A i \in S : i <= m
  PROVE  Max(S) = m
<1>1. m \in S /\ \A i \in S : m >= i
  OBVIOUS
<1>2. Max(S) \in S /\ \A i \in S : Max(S) >= i
  BY <1>1 DEF Max
<1>3. Max(S) \in Int /\ m \in Int /\ Max(S) <= m /\ m <= Max(S)
  <2> HIDE DEF Max
  <2>1. \A i \in S : i \in Int
    OBVIOUS
  <2> QED BY <1>1, <1>2, <2>1
<1> QED BY <1>3

LEMMA GreatestExists ==
  ASSUME NEW n \in Nat, NEW S \in SUBSET (1..n), S # {}
  PROVE  Max(S) \in S /\ \A i \in S : i <= Max(S)
<1> DEFINE back == {n - i : i \in S}
<1>1. PICK m \in back : \A k \in back : m <= k
  <2>1. back \in SUBSET Nat /\ back # {}
    <3>1. \A i \in S : n - i \in Nat
      OBVIOUS
    <3> QED BY <3>1
  <2> HIDE DEF back
  <2> QED BY <2>1, LeastNatural
<1>2. PICK i \in S : m = n - i
  OBVIOUS
<1>3. \A j \in S : j <= i
  <2> TAKE j \in S
  <2>1. n - j \in back
    OBVIOUS
  <2>2. n - i <= n - j
    BY <1>1, <1>2, <2>1
  <2> QED BY <2>2
<1> QED BY <1>3, GreatestIs

Apart(log) == {1} \cup {i \in 2..Len(log) : log[i] - log[i - 1] >= Forgiven}

LEMMA TogetherTyped ==
  ASSUME NEW log \in Seq(Nat), log # <<>>
  PROVE  /\ Apart(log) \in SUBSET (1..Len(log)) /\ Together(log) \in Apart(log)
         /\ \A i \in Apart(log) : i <= Together(log)
         /\ Len(log) \in Nat \ {0}
<1>1. Len(log) \in Nat \ {0}
  BY EmptySeq
<1>2. Apart(log) \in SUBSET (1..Len(log)) /\ Apart(log) # {}
  BY <1>1 DEF Apart
<1> QED BY <1>1, <1>2, GreatestExists DEF Together, Apart

LEMMA TogetherGrows ==
  ASSUME NEW log \in Seq(Nat), NEW t \in Nat
  PROVE  LET more == Append(log, t)
         IN  /\ more \in Seq(Nat) /\ more # <<>> /\ Len(more) = Len(log) + 1 /\ more[Len(more)] = t
             /\ log = <<>> => Together(more) = 1
             /\ log # <<>> => Together(more) = IF t - log[Len(log)] >= Forgiven THEN Len(log) + 1
                                             ELSE Together(log)
<1> DEFINE more == Append(log, t)  n == Len(log)
<1>1. /\ more \in Seq(Nat) /\ Len(more) = n + 1 /\ n \in Nat /\ more[n + 1] = t
      /\ \A i \in 1..n : more[i] = log[i]
  BY AppendProperties
<1>2. more # <<>>
  BY <1>1, EmptySeq
<1> HIDE DEF more
<1>3. ASSUME log = <<>> PROVE Together(more) = 1
  <2>1. n = 0
    BY <1>3, EmptySeq
  <2>2. Apart(more) = {1}
    BY <1>1, <2>1 DEF Apart
  <2>3. Max({1}) = 1
    BY GreatestIs
  <2> QED BY <2>2, <2>3 DEF Together, Apart
<1>4. ASSUME log # <<>>
      PROVE  Together(more) = IF t - log[n] >= Forgiven THEN n + 1 ELSE Together(log)
  <2>1. /\ Apart(log) \in SUBSET (1..n) /\ Together(log) \in Apart(log)
        /\ \A i \in Apart(log) : i <= Together(log)
        /\ n \in Nat \ {0}
    BY <1>4, TogetherTyped
  <2>2. \A i \in 2..n : more[i] = log[i] /\ more[i - 1] = log[i - 1]
    <3>1. \A i \in 2..n : i \in 1..n /\ i - 1 \in 1..n
      BY <2>1
    <3> QED BY <1>1, <3>1
  <2>3. n + 1 - 1 = n /\ more[n] = log[n]
    BY <1>1, <2>1
  <2>4. Apart(more) = Apart(log) \cup {i \in {n + 1} : t - log[n] >= Forgiven}
    <3>1. ASSUME NEW i PROVE i \in Apart(more) <=> i \in Apart(log) \/ (i = n + 1 /\ t - log[n] >= Forgiven)
      <4>1. CASE i = n + 1
        <5>1. i \in 2..Len(more) /\ i \notin Apart(log)
          BY <1>1, <2>1, <4>1
        <5>2. i # 1 /\ more[i] = t /\ more[i - 1] = log[n]
          BY <1>1, <2>1, <2>3, <4>1
        <5> QED BY <4>1, <5>1, <5>2 DEF Apart
      <4>2. CASE i # n + 1
        <5>1. i \in 2..Len(more) <=> i \in 2..n
          BY <1>1, <4>2
        <5> QED BY <2>2, <4>2, <5>1 DEF Apart
      <4> QED BY <4>1, <4>2
    <3> QED BY <3>1
  <2>5. Together(more) = Max(Apart(more))
    BY DEF Together, Apart
  <2>6. CASE t - log[n] >= Forgiven
    <3>1. n + 1 \in Apart(more) /\ Apart(more) \in SUBSET (1..n + 1) /\ \A i \in Apart(more) : i <= n + 1
      BY <2>1, <2>4, <2>6
    <3>2. Max(Apart(more)) = n + 1
      <4>1. n + 1 \in Nat
        BY <2>1
      <4> QED BY <3>1, <4>1, GreatestIs
    <3> QED BY <2>5, <2>6, <3>2
  <2>7. CASE ~(t - log[n] >= Forgiven)
    <3>1. Apart(more) = Apart(log)
      BY <2>4, <2>7
    <3> QED BY <2>5, <2>7, <3>1 DEF Together, Apart
  <2> QED BY <2>6, <2>7
<1> QED BY <1>1, <1>2, <1>3, <1>4 DEF more

-----------------------------------------------------------------------------
(* The connections the service knows, and why they ended.                  *)
Whys == {"open", "blocked", "replaced", "timeout", "version", "gone"}
Records == [stage : Stages, from : Addresses \cup {NoConn}, who : Identities \cup {Nobody},
            tokens : Int, at : Nat, end : Whys]
Well(cs) ==
  /\ cs \in [Conns -> Records]
  /\ \A c \in Conns : IF cs[c].stage = "unused" THEN cs[c] = Unused ELSE cs[c].from \in Addresses

(* What an address is blocked for, of when it broke a limit.               *)
Offended(b, log, t) ==
  IF b.offences = 0 THEN b = NoBlock /\ (log # <<>> => t - log[Len(log)] >= Forgiven)
  ELSE /\ log # <<>> /\ b.last = log[Len(log)] /\ b.offences = 1 + Len(log) - Together(log)
       /\ b.until = b.last + Length(b.offences)

LimitsInv ==
  /\ now \in Nat /\ counted \in [Addresses -> Nat] /\ violations \in [Addresses -> Seq(Nat)]
  /\ blocks \in [Addresses -> [until : Nat, last : Nat, offences : Nat]]
  /\ Well(conn) /\ CountedWhileOpen
  /\ \A a \in Addresses : Offended(blocks[a], violations[a], now)

(* Whom the service finds, and what it was told, is of connections it      *)
(* reads from; whoever has a connection, or makes one, runs Convia.        *)
Told(index) == \A e \in index : (\E i : e = <<i, e[2]>>) /\ e[2] \in Conns /\ conn[e[2]].stage = "reading"
IndexInv ==
  /\ found \in [Identities -> Conns \cup {NoConn}]
  /\ \A p \in Identities : found[p] # NoConn => conn[found[p]].stage = "reading" /\ conn[found[p]].who = p
  /\ Told(announced) /\ Told(subscribed)
PeopleInv ==
  /\ situation \in Situations /\ running \subseteq Identities /\ online \subseteq running
  /\ link \in [Identities -> Conns \cup {NoConn}]
  /\ \A p \in Identities : link[p] # NoConn => p \in running

Blocks == [until : Nat, last : Nat, offences : Nat]

(* Another limit broken: the block is as long as those together make it.   *)
LEMMA BlockedAnew ==
  ASSUME now \in Nat, NEW b \in Blocks, NEW log \in Seq(Nat), Offended(b, log, now)
  PROVE  Block(b) \in Blocks /\ Offended(Block(b), Append(log, now), now)
<1> DEFINE more == Append(log, now)  n == Block(b).offences
<1>1. /\ more # <<>> /\ Len(more) = Len(log) + 1 /\ more[Len(more)] = now
      /\ log = <<>> => Together(more) = 1
      /\ log # <<>> => Together(more) = IF now - log[Len(log)] >= Forgiven THEN Len(log) + 1
                                      ELSE Together(log)
      /\ Len(log) \in Nat
  BY TogetherGrows
<1>2. /\ n = 1 + IF b.offences = 0 \/ LongForgotten(b) THEN 0 ELSE b.offences
      /\ Block(b) = [until |-> now + Length(n), last |-> now, offences |-> n]
  BY DEF Block
<1>3. b.offences \in Nat /\ b.last \in Nat
  BY DEF Blocks
<1>4. n \in Nat \ {0}
  BY <1>2, <1>3
<1> HIDE DEF more, n
<1>5. Length(n) \in Nat
  BY <1>4, LengthIs
<1>6. Block(b) \in Blocks
  BY <1>2, <1>4, <1>5 DEF Blocks
<1>7. n = 1 + Len(more) - Together(more)
  <2>1. log = <<>> => Len(log) = 0
    OBVIOUS
  <2>2. CASE log = <<>>
    <3>1. b.offences = 0
      BY <2>2 DEF Offended
    <3> QED BY <1>1, <1>2, <2>1, <2>2, <3>1
  <2>3. CASE log # <<>> /\ b.offences = 0
    <3>1. now - log[Len(log)] >= Forgiven
      BY <2>3 DEF Offended
    <3> QED BY <1>1, <1>2, <2>3, <3>1
  <2>4. CASE log # <<>> /\ b.offences # 0
    <3>1. b.last = log[Len(log)] /\ b.offences = 1 + Len(log) - Together(log)
      BY <2>4 DEF Offended
    <3>2. Together(log) \in Int
      BY <2>4, TogetherTyped
    <3>3. CASE now - b.last >= Forgiven
      <4>1. n = 1 /\ Together(more) = Len(log) + 1
        BY <1>1, <1>2, <2>4, <3>1, <3>3 DEF LongForgotten
      <4> QED BY <1>1, <4>1
    <3>4. CASE ~(now - b.last >= Forgiven)
      <4>1. n = 1 + b.offences /\ Together(more) = Together(log)
        BY <1>1, <1>2, <2>4, <3>1, <3>4 DEF LongForgotten
      <4> QED BY <1>1, <3>1, <3>2, <4>1
    <3> QED BY <3>3, <3>4
  <2> QED BY <2>2, <2>3, <2>4
<1> QED BY <1>1, <1>2, <1>4, <1>6, <1>7 DEF Offended, more

-----------------------------------------------------------------------------
(* What happens to connections that no address is counted for anew.        *)
Same(cs, ds) ==
  \A c \in Conns : /\ ds[c].stage = "unused" <=> cs[c].stage = "unused"
                   /\ cs[c].stage # "unused" => ds[c].from = cs[c].from

accounts == <<now, counted, blocks, violations>>

From(cs, a) == {c \in Conns : cs[c].stage # "unused" /\ cs[c].from = a}

LEMMA CountedFrom ==
  CountedWhileOpen <=> \A a \in Addresses : counted[a] = Cardinality(From(conn, a)) /\ counted[a] <= PerAddress
BY DEF CountedWhileOpen, From, Counted

LEMMA CountedFromNext ==
  CountedWhileOpen' <=> \A a \in Addresses : counted'[a] = Cardinality(From(conn', a)) /\ counted'[a] <= PerAddress
BY DEF CountedWhileOpen, From, Counted, Addresses

LEMMA SameCounts ==
  ASSUME Same(conn, conn'), CountedWhileOpen, counted' = counted
  PROVE  CountedWhileOpen'
<1>1. ASSUME NEW a PROVE From(conn', a) = From(conn, a)
  <2>1. ASSUME NEW c \in Conns PROVE c \in From(conn', a) <=> c \in From(conn, a)
    <3>1. /\ conn'[c].stage = "unused" <=> conn[c].stage = "unused"
          /\ conn[c].stage # "unused" => conn'[c].from = conn[c].from
      BY DEF Same
    <3> QED BY <3>1 DEF From
  <2> QED BY <2>1 DEF From
<1> QED BY <1>1, CountedFrom, CountedFromNext

LEMMA ConnsKeep ==
  ASSUME LimitsInv, UNCHANGED accounts, Well(conn'), Same(conn, conn')
  PROVE  LimitsInv'
<1>1. CountedWhileOpen'
  BY SameCounts DEF LimitsInv, accounts
<1> QED BY <1>1 DEF LimitsInv, accounts, Addresses

LEMMA NothingKeeps == LimitsInv /\ UNCHANGED <<accounts, conn>> => LimitsInv'
BY ConnsKeep DEF LimitsInv, Same

(* Only the first to end a connection says why, of one there is.           *)
LEMMA EndsWell ==
  ASSUME NEW cs, Well(cs), NEW c, NEW why \in Whys
  PROVE  LET ds == Ends(cs, c, why)
         IN  /\ Well(ds) /\ Same(cs, ds)
             /\ \A d \in Conns : ds[d].stage = cs[d].stage /\ ds[d].who = cs[d].who
             /\ \A d \in Conns : d # c => ds[d] = cs[d]
<1> DEFINE ds == Ends(cs, c, why)
<1>1. cs \in [Conns -> Records] /\ ds = [d \in Conns |-> IF d = c THEN ds[c] ELSE cs[d]]
  BY DEF Well, Ends
<1>2. ASSUME NEW d \in Conns
      PROVE  /\ ds[d] \in Records /\ ds[d].stage = cs[d].stage /\ ds[d].from = cs[d].from
             /\ ds[d].who = cs[d].who /\ (cs[d].stage = "unused" => ds[d] = cs[d])
             /\ (d # c => ds[d] = cs[d])
  <2>1. cs[d] \in Records
    BY <1>1
  <2>2. ds[d] = IF d = c THEN [cs[d] EXCEPT !.end = IF cs[d].end = "open" /\ cs[d].stage # "unused" THEN why ELSE cs[d].end]
                ELSE cs[d]
    BY <1>1 DEF Ends
  <2>3. CASE d # c
    BY <2>1, <2>2, <2>3
  <2>4. CASE d = c
    <3> DEFINE e == IF cs[d].end = "open" /\ cs[d].stage # "unused" THEN why ELSE cs[d].end
    <3>1. e \in Whys /\ (cs[d].stage = "unused" => e = cs[d].end)
      BY <2>1 DEF Records
    <3>2. ds[d] = [cs[d] EXCEPT !.end = e]
      BY <2>2, <2>4
    <3> HIDE DEF e, ds
    <3> QED BY <2>1, <2>4, <3>1, <3>2 DEF Records
  <2> QED BY <2>3, <2>4
<1> HIDE DEF ds
<1>3. ds \in [Conns -> Records]
  BY <1>1, <1>2
<1>4. Well(ds) /\ Same(cs, ds)
  BY <1>2, <1>3 DEF Well, Same
<1> QED BY <1>2, <1>4 DEF ds

(* A connection goes on, or is used anew.                                  *)
LEMMA GoesOnWell ==
  ASSUME NEW cs, Well(cs), NEW c, NEW r \in Records,
         c \in Conns => cs[c].stage # "unused" /\ r.stage # "unused" /\ r.from = cs[c].from
  PROVE  Well([cs EXCEPT ![c] = r]) /\ Same(cs, [cs EXCEPT ![c] = r])
BY DEF Well, Same

LEMMA BlocksKeep ==
  ASSUME LimitsInv, NEW c \in Conns, Counted(c), Violated(c)
  PROVE  LimitsInv'
<1> DEFINE a == conn[c].from
<1>1. a \in Addresses /\ Well(conn)
  BY DEF LimitsInv, Well, Counted
<1>2. /\ blocks' = [blocks EXCEPT ![a] = Block(@)] /\ violations' = [violations EXCEPT ![a] = Append(@, now)]
      /\ conn' = Ends(conn, c, "blocked") /\ UNCHANGED <<now, counted>>
  BY DEF Violated
<1>3. Well(conn') /\ Same(conn, conn')
  <2>1. "blocked" \in Whys
    BY DEF Whys
  <2> QED BY <1>1, <1>2, <2>1, EndsWell
<1>4. CountedWhileOpen'
  BY <1>2, <1>3, SameCounts DEF LimitsInv
<1>5. blocks \in [Addresses -> Blocks] /\ violations \in [Addresses -> Seq(Nat)] /\ now \in Nat
  BY DEF LimitsInv, Blocks
<1>6. Block(blocks[a]) \in Blocks /\ Offended(Block(blocks[a]), Append(violations[a], now), now)
  BY <1>1, <1>5, BlockedAnew DEF LimitsInv
<1>7. Append(violations[a], now) \in Seq(Nat)
  BY <1>1, <1>5, AppendProperties
<1>8. blocks' \in [Addresses -> Blocks] /\ violations' \in [Addresses -> Seq(Nat)]
  BY <1>1, <1>2, <1>5, <1>6, <1>7
<1>9. \A b \in Addresses : Offended(blocks'[b], violations'[b], now)
  <2> TAKE b \in Addresses
  <2>1. CASE b = a
    BY <1>1, <1>2, <1>5, <1>6, <2>1
  <2>2. CASE b # a
    BY <1>2, <1>5, <2>2 DEF LimitsInv
  <2> QED BY <2>1, <2>2
<1> QED BY <1>2, <1>3, <1>4, <1>8, <1>9 DEF LimitsInv, Blocks, Addresses

LEMMA CountsAre ==
  ASSUME NEW S \in SUBSET Conns
  PROVE  /\ IsFiniteSet(S) /\ Cardinality(S) \in Nat
         /\ \A c \in Conns \ S : Cardinality(S \cup {c}) = Cardinality(S) + 1
         /\ \A c \in S : Cardinality(S \ {c}) = Cardinality(S) - 1
<1>1. IsFiniteSet(S)
  BY AdmissionAssumption, FS_Subset
<1> QED BY <1>1, FS_CardinalityType, FS_AddElement, FS_RemoveElement

LEMMA UnusedTyped == Unused \in Records /\ Unused.stage = "unused"
BY DEF Unused, Records, Stages, Whys

LEMMA AdmitKeeps ==
  ASSUME LimitsInv, NEW c \in Conns, NEW m \in Machines, Admit(c, m)
  PROVE  LimitsInv'
<1> DEFINE a == AddressOf(m)
           r == [Unused EXCEPT !.stage = "challenging", !.from = a, !.tokens = Burst, !.at = now]
<1>1. a \in Addresses
  BY DEF Addresses
<1>2. /\ conn[c] = Unused /\ counted[a] < PerAddress /\ counted' = [counted EXCEPT ![a] = @ + 1]
      /\ conn' = [conn EXCEPT ![c] = r] /\ UNCHANGED <<now, blocks, violations>>
  BY DEF Admit, Admissible
<1>3. /\ now \in Nat /\ counted \in [Addresses -> Nat] /\ Well(conn) /\ CountedWhileOpen
      /\ conn \in [Conns -> Records]
  BY DEF LimitsInv, Well
<1>4. r \in Records /\ r.stage = "challenging" /\ r.from = a
  <2>1. Burst \in Int /\ now \in Nat
    BY <1>3, AdmissionAssumption
  <2>2. "challenging" \in Stages /\ a \in Addresses \cup {NoConn}
    BY <1>1 DEF Stages
  <2> HIDE DEF a
  <2> QED BY <2>1, <2>2, UnusedTyped DEF Records
<1> HIDE DEF r
<1>5. conn' \in [Conns -> Records] /\ conn'[c] = r /\ \A d \in Conns \ {c} : conn'[d] = conn[d]
  BY <1>2, <1>3, <1>4
<1>6. Well(conn')
  BY <1>1, <1>3, <1>4, <1>5 DEF Well
<1>7. \A b \in Addresses : /\ b # a => From(conn', b) = From(conn, b)
                           /\ From(conn', a) = From(conn, a) \cup {c} /\ c \notin From(conn, a)
  <2>1. conn[c].stage = "unused"
    BY <1>2 DEF Unused
  <2> HIDE DEF a
  <2> QED BY <1>4, <1>5, <2>1 DEF From
<1>8. CountedWhileOpen'
  <2>1. \A b \in Addresses : counted[b] = Cardinality(From(conn, b)) /\ counted[b] <= PerAddress
    BY <1>3, CountedFrom
  <2>2. From(conn, a) \in SUBSET Conns
    BY DEF From
  <2>3. Cardinality(From(conn', a)) = Cardinality(From(conn, a)) + 1
    BY <1>1, <1>7, <2>2, CountsAre
  <2>4. \A b \in Addresses : counted'[b] = IF b = a THEN counted[a] + 1 ELSE counted[b]
    BY <1>1, <1>2, <1>3
  <2>5. counted[a] + 1 <= PerAddress
    <3>1. counted[a] \in Nat /\ PerAddress \in Nat
      BY <1>1, <1>3, AdmissionAssumption
    <3> QED BY <1>2, <3>1
  <2> HIDE DEF a
  <2> QED BY <1>1, <1>7, <2>1, <2>3, <2>4, <2>5, CountedFromNext
<1>9. counted' \in [Addresses -> Nat]
  BY <1>1, <1>2, <1>3
<1> QED BY <1>2, <1>6, <1>8, <1>9 DEF LimitsInv, Addresses

LEMMA ReleaseKeeps ==
  ASSUME LimitsInv, NEW c \in Conns, Release(c)
  PROVE  LimitsInv'
<1> DEFINE a == conn[c].from
<1>1. /\ conn[c].stage = "left" /\ counted' = [counted EXCEPT ![a] = @ - 1]
      /\ conn' = [conn EXCEPT ![c] = Unused] /\ UNCHANGED <<now, blocks, violations>>
  BY DEF Release
<1>2. /\ now \in Nat /\ counted \in [Addresses -> Nat] /\ Well(conn) /\ CountedWhileOpen
      /\ conn \in [Conns -> Records] /\ a \in Addresses
  BY <1>1 DEF LimitsInv, Well
<1>3. conn' \in [Conns -> Records] /\ conn'[c] = Unused /\ \A d \in Conns \ {c} : conn'[d] = conn[d]
  BY <1>1, <1>2, UnusedTyped
<1>4. Well(conn')
  BY <1>2, <1>3, UnusedTyped DEF Well
<1>5. \A b \in Addresses : /\ b # a => From(conn', b) = From(conn, b)
                           /\ From(conn', a) = From(conn, a) \ {c} /\ c \in From(conn, a)
  <2>1. c \in From(conn, a) /\ \A b \in Addresses : b # a => c \notin From(conn, b)
    BY <1>1 DEF From
  <2> HIDE DEF a
  <2> QED BY <1>3, <2>1, UnusedTyped DEF From
<1>6. CountedWhileOpen' /\ counted' \in [Addresses -> Nat]
  <2>1. \A b \in Addresses : counted[b] = Cardinality(From(conn, b)) /\ counted[b] <= PerAddress
    BY <1>2, CountedFrom
  <2>2. From(conn, a) \in SUBSET Conns /\ From(conn', a) \in SUBSET Conns
    BY DEF From
  <2>3. Cardinality(From(conn', a)) = Cardinality(From(conn, a)) - 1 /\ Cardinality(From(conn', a)) \in Nat
    BY <1>2, <1>5, <2>2, CountsAre
  <2>4. \A b \in Addresses : counted'[b] = IF b = a THEN counted[a] - 1 ELSE counted[b]
    BY <1>1, <1>2
  <2>5. counted[a] - 1 <= PerAddress /\ counted[a] - 1 \in Nat
    <3>1. counted[a] \in Nat /\ PerAddress \in Nat
      BY <1>2, AdmissionAssumption
    <3> QED BY <1>2, <2>1, <2>3, <3>1
  <2>6. counted' \in [Addresses -> Nat]
    BY <1>1, <1>2, <2>5
  <2> HIDE DEF a
  <2> QED BY <1>2, <1>5, <2>1, <2>3, <2>4, <2>5, <2>6, CountedFromNext
<1> QED BY <1>1, <1>4, <1>6 DEF LimitsInv, Addresses

LEMMA NoBlockWell == NoBlock \in Blocks /\ \A t : Offended(NoBlock, <<>>, t)
BY DEF NoBlock, Blocks, Offended

LEMMA NobodyWell ==
  LET cs == [c \in Conns |-> Unused] IN Well(cs) /\ \A a : From(cs, a) = {} /\ Cardinality(From(cs, a)) = 0
BY UnusedTyped, FS_EmptySet DEF Well, From

LEMMA CloseKeeps ==
  ASSUME LimitsInv, Close
  PROVE  LimitsInv'
<1>1. /\ conn' = [c \in Conns |-> Unused] /\ counted' = [a \in Addresses |-> 0] /\ now' = now
      /\ blocks' = [a \in Addresses |-> NoBlock] /\ violations' = [a \in Addresses |-> <<>>]
  BY DEF Close
<1>2. Well(conn') /\ \A a : Cardinality(From(conn', a)) = 0
  BY <1>1, NobodyWell
<1>3. CountedWhileOpen' /\ counted' \in [Addresses -> Nat]
  <2>1. 0 <= PerAddress
    BY AdmissionAssumption
  <2> QED BY <1>1, <1>2, <2>1, CountedFromNext
<1>4. blocks' \in [Addresses -> Blocks] /\ violations' \in [Addresses -> Seq(Nat)]
  BY <1>1, NoBlockWell
<1>5. \A a \in Addresses : Offended(blocks'[a], violations'[a], now')
  BY <1>1, NoBlockWell
<1> QED BY <1>1, <1>2, <1>3, <1>4, <1>5 DEF LimitsInv, Blocks, Addresses

LEMMA ReportKeeps ==
  ASSUME LimitsInv, Report
  PROVE  LimitsInv'
<1>1. /\ blocks' = [a \in Addresses |-> IF LongForgotten(blocks[a]) THEN NoBlock ELSE blocks[a]]
      /\ UNCHANGED <<now, counted, conn, violations>>
  BY DEF Report
<1>2. blocks \in [Addresses -> Blocks] /\ violations \in [Addresses -> Seq(Nat)] /\ now \in Nat
  BY DEF LimitsInv, Blocks
<1>3. blocks' \in [Addresses -> Blocks]
  BY <1>1, <1>2, NoBlockWell
<1>4. \A a \in Addresses : Offended(blocks'[a], violations'[a], now')
  <2> TAKE a \in Addresses
  <2>1. CASE ~LongForgotten(blocks[a])
    BY <1>1, <2>1 DEF LimitsInv
  <2>2. CASE LongForgotten(blocks[a])
    <3>1. blocks'[a] = NoBlock /\ Offended(blocks[a], violations[a], now)
      BY <1>1, <2>2 DEF LimitsInv
    <3>2. violations[a] # <<>> => now - violations[a][Len(violations[a])] >= Forgiven
      BY <2>2, <3>1 DEF Offended, LongForgotten
    <3> QED BY <1>1, <3>1, <3>2 DEF Offended, NoBlock
  <2> QED BY <2>1, <2>2
<1>5. CountedWhileOpen'
  BY <1>1 DEF LimitsInv, CountedWhileOpen, Counted, Addresses
<1> QED BY <1>1, <1>3, <1>4, <1>5 DEF LimitsInv, Blocks, Addresses

LEMMA PassesKeeps ==
  ASSUME LimitsInv, Passes
  PROVE  LimitsInv'
<1>1. now' = now + 1 /\ UNCHANGED <<counted, blocks, conn, violations>>
  BY DEF Passes
<1>2. blocks \in [Addresses -> Blocks] /\ violations \in [Addresses -> Seq(Nat)] /\ now \in Nat
  BY DEF LimitsInv, Blocks
<1>3. \A a \in Addresses : Offended(blocks'[a], violations'[a], now')
  <2> TAKE a \in Addresses
  <2> DEFINE log == violations[a]
  <2>1. Offended(blocks[a], log, now)
    BY DEF LimitsInv
  <2>2. log # <<>> => log[Len(log)] \in Nat /\ Forgiven \in Nat
    <3>1. log \in Seq(Nat)
      BY <1>2
    <3> HIDE DEF log
    <3> QED BY <3>1, TogetherTyped, ElementOfSeq, AdmissionAssumption
  <2>3. log # <<>> /\ now - log[Len(log)] >= Forgiven => (now + 1) - log[Len(log)] >= Forgiven
    BY <1>2, <2>2
  <2> HIDE DEF log
  <2>4. Offended(blocks[a], log, now + 1)
    <3>1. CASE blocks[a].offences = 0
      <4>1. blocks[a] = NoBlock /\ (log # <<>> => now - log[Len(log)] >= Forgiven)
        BY <2>1, <3>1 DEF Offended
      <4>2. log # <<>> => (now + 1) - log[Len(log)] >= Forgiven
        BY <2>3, <4>1
      <4> QED BY <3>1, <4>1, <4>2 DEF Offended
    <3>2. CASE blocks[a].offences # 0
      BY <2>1, <3>2 DEF Offended
    <3> QED BY <3>1, <3>2
  <2> QED BY <1>1, <2>4 DEF log
<1>4. CountedWhileOpen'
  BY <1>1 DEF LimitsInv, CountedWhileOpen, Counted, Addresses
<1> QED BY <1>1, <1>2, <1>3, <1>4 DEF LimitsInv, Blocks, Addresses, Well

-----------------------------------------------------------------------------
(* What each step of the people and the service does to the limits.        *)
LEMMA EndingKeeps ==
  ASSUME LimitsInv, UNCHANGED accounts, NEW c, NEW why \in Whys, conn' = Ends(conn, c, why)
  PROVE  LimitsInv'
<1>1. Well(conn)
  BY DEF LimitsInv
<1> QED BY <1>1, EndsWell, ConnsKeep

LEMMA AuthenticatesWell ==
  ASSUME LimitsInv, NEW c \in Conns, NEW p \in Identities, Authenticates(c, p)
  PROVE  /\ Well(conn') /\ Same(conn, conn') /\ conn[c].stage = "challenging"
         /\ conn'[c].stage = "reading" /\ conn'[c].who = p
         /\ \A d \in Conns \ {c} : conn'[d].stage = conn[d].stage /\ conn'[d].who = conn[d].who
<1> DEFINE replaced == IF found[p] = NoConn THEN conn ELSE Ends(conn, found[p], "replaced")
           r == [replaced[c] EXCEPT !.stage = "reading", !.who = p]
<1>1. Well(conn) /\ conn[c].stage = "challenging" /\ "replaced" \in Whys
  BY DEF LimitsInv, Authenticates, Open, Whys
<1>2. /\ Well(replaced) /\ Same(conn, replaced)
      /\ \A d \in Conns : replaced[d].stage = conn[d].stage /\ replaced[d].who = conn[d].who
  <2>1. CASE found[p] = NoConn
    BY <1>1, <2>1 DEF Same
  <2>2. CASE found[p] # NoConn
    BY <1>1, <2>2, EndsWell
  <2> QED BY <2>1, <2>2
<1>3. conn' = [replaced EXCEPT ![c] = r]
  BY DEF Authenticates
<1> HIDE DEF replaced
<1>4. replaced[c] \in Records /\ replaced \in [Conns -> Records]
  BY <1>2 DEF Well
<1>5. r \in Records /\ r.stage = "reading" /\ r.who = p /\ r.from = replaced[c].from
  <2>1. "reading" \in Stages
    BY DEF Stages
  <2> QED BY <1>4, <2>1 DEF Records
<1> HIDE DEF r
<1>6. Well(conn') /\ Same(replaced, conn')
  BY <1>1, <1>2, <1>3, <1>5, GoesOnWell
<1>7. conn'[c] = r /\ \A d \in Conns \ {c} : conn'[d] = replaced[d]
  BY <1>3, <1>4
<1>8. Same(conn, conn')
  BY <1>2, <1>6 DEF Same
<1> QED BY <1>1, <1>2, <1>5, <1>6, <1>7, <1>8

LEMMA AuthenticatesKeeps ==
  ASSUME LimitsInv, NEW c \in Conns, NEW p \in Identities, Authenticates(c, p)
  PROVE  LimitsInv'
<1>1. UNCHANGED accounts
  BY DEF Authenticates, accounts
<1> QED BY <1>1, AuthenticatesWell, ConnsKeep

LEMMA TakenWell ==
  ASSUME LimitsInv, NEW c \in Conns, Counted(c)
  PROVE  /\ Well(Taken(c)) /\ Same(conn, Taken(c))
         /\ \A d \in Conns : Taken(c)[d].stage = conn[d].stage /\ Taken(c)[d].who = conn[d].who
<1> DEFINE r == [conn[c] EXCEPT !.tokens = Filled(c) - 1, !.at = now]
<1>1. Well(conn) /\ conn \in [Conns -> Records] /\ conn[c] \in Records /\ now \in Nat
  BY DEF LimitsInv, Well
<1>2. Filled(c) \in Int
  BY <1>1, AdmissionAssumption DEF Filled, Records
<1>3. r \in Records /\ r.stage = conn[c].stage /\ r.who = conn[c].who /\ r.from = conn[c].from
  <2> DEFINE t == Filled(c) - 1
  <2>1. t \in Int
    BY <1>2
  <2> HIDE DEF t
  <2>2. [conn[c] EXCEPT !.tokens = t, !.at = now] \in Records
    BY <1>1, <2>1 DEF Records
  <2>3. LET q == [conn[c] EXCEPT !.tokens = t, !.at = now]
        IN  q.stage = conn[c].stage /\ q.who = conn[c].who /\ q.from = conn[c].from
    BY <1>1 DEF Records
  <2> QED BY <2>2, <2>3 DEF t
<1>4. Taken(c) = [conn EXCEPT ![c] = r]
  BY DEF Taken
<1> HIDE DEF r
<1>5. Well(Taken(c)) /\ Same(conn, Taken(c))
  <2>1. conn[c].stage # "unused" /\ r.stage # "unused"
    BY <1>3 DEF Counted
  <2>2. Well([conn EXCEPT ![c] = r]) /\ Same(conn, [conn EXCEPT ![c] = r])
    BY <1>1, <1>3, <2>1, GoesOnWell
  <2> QED BY <1>4, <2>2
<1> QED BY <1>1, <1>3, <1>4, <1>5

LEMMA ReadKeeps ==
  ASSUME LimitsInv, NEW c \in Conns, Read(c)
  PROVE  LimitsInv'
<1>1. Counted(c)
  BY DEF Read, Counted
<1>2. CASE Violated(c)
  BY <1>1, <1>2, BlocksKeep
<1>3. CASE ~Violated(c)
  <2>1. conn' = Taken(c) /\ UNCHANGED accounts
    BY <1>3 DEF Read, Handle, accounts
  <2> QED BY <1>1, <2>1, TakenWell, ConnsKeep
<1> QED BY <1>2, <1>3

LEMMA ForgetWell ==
  ASSUME LimitsInv, NEW c \in Conns, Forget(c)
  PROVE  /\ Well(conn') /\ Same(conn, conn')
         /\ \A d \in Conns \ {c} : conn'[d] = conn[d]
<1> DEFINE r == [conn[c] EXCEPT !.stage = "left"]
<1>1. /\ Well(conn) /\ conn \in [Conns -> Records] /\ conn[c] \in Records
      /\ conn[c].stage # "unused" /\ conn' = [conn EXCEPT ![c] = r]
  BY DEF LimitsInv, Well, Forget
<1>2. r \in Records /\ r.stage # "unused" /\ r.from = conn[c].from
  BY <1>1 DEF Records, Stages
<1> HIDE DEF r
<1> QED BY <1>1, <1>2, GoesOnWell

LEMMA ServesKeeps ==
  ASSUME LimitsInv, NEW c \in Conns, Serves(c)
  PROVE  LimitsInv'
<1>1. CASE Forget(c)
  <2>1. UNCHANGED accounts
    BY <1>1 DEF Forget, accounts
  <2> QED BY <1>1, <2>1, ForgetWell, ConnsKeep
<1> QED BY <1>1, ReadKeeps, ReleaseKeeps DEF Serves

LEMMA MeddlesKeeps ==
  ASSUME LimitsInv, PeopleInv, NEW c \in Conns, Meddles(c)
  PROVE  LimitsInv'
<1>1. Counted(c) /\ situation.strangers \subseteq Identities
  BY ReachabilityAssumption DEF Meddles, Foreign, Counted, PeopleInv
<1>2. CASE Forges(c)
  BY <1>1, <1>2, BlocksKeep DEF Forges
<1>3. ASSUME NEW why \in {"timeout", "version"}, TurnedAway(c, why) PROVE LimitsInv'
  <2>1. why \in Whys /\ conn' = Ends(conn, c, why) /\ UNCHANGED accounts
    BY <1>3 DEF TurnedAway, Whys, accounts
  <2> QED BY <2>1, EndingKeeps
<1>4. ASSUME NEW p \in situation.strangers, Authenticates(c, p) PROVE LimitsInv'
  BY <1>1, <1>4, AuthenticatesKeeps
<1>5. CASE UNCHANGED <<now, counted, blocks, conn, violations>>
  BY <1>5, NothingKeeps DEF accounts
<1>6. CASE Hangs(c) /\ UNCHANGED <<now, counted, blocks, violations>>
  <2>1. "gone" \in Whys /\ conn' = Ends(conn, c, "gone") /\ UNCHANGED accounts
    BY <1>6 DEF Whys, Hangs, accounts
  <2> QED BY <2>1, EndingKeeps
<1> QED BY <1>2, <1>3, <1>4, <1>5, <1>6 DEF Meddles

LEMMA NextFreeIs == ASSUME NEW c \in Conns, Free(c) PROVE NextFree \in Conns
BY DEF NextFree

LEMMA LivingKeeps ==
  ASSUME LimitsInv, PeopleInv, NEW p \in Identities, Living(p)
  PROVE  LimitsInv'
<1>1. CASE Dials(p)
  <2>1. NextFree \in Conns
    BY <1>1, NextFreeIs DEF Dials
  <2>2. situation.machine[p] \in Machines
    BY ReachabilityAssumption DEF PeopleInv
  <2>3. Admit(NextFree, situation.machine[p])
    BY <1>1 DEF Dials
  <2> QED BY <2>1, <2>2, <2>3, AdmitKeeps
<1>2. CASE Online(p)
  <2>1. link[p] \in Conns /\ Authenticates(link[p], p)
    BY <1>2 DEF Online, Handshakes, PeopleInv
  <2> QED BY <2>1, AuthenticatesKeeps
<1>3. CASE (\E part \in Parts : Reach(p, part)) \/ (\E c \in calls[p] : Reasons(p, c)) \/ Offline(p)
  <2>1. UNCHANGED <<accounts, conn>>
    BY <1>3 DEF Reach, Reasons, Offline, service, accounts
  <2> QED BY <2>1, NothingKeeps
<1> QED BY <1>1, <1>2, <1>3 DEF Living

LEMMA TroublingKeeps ==
  ASSUME LimitsInv, NEW p \in Identities, Troubling(p)
  PROVE  LimitsInv'
<1>1. CASE Cut(p)
  <2>1. "gone" \in Whys /\ conn' = Ends(conn, link[p], "gone") /\ UNCHANGED accounts
    BY <1>1 DEF Cut, Whys, Hangs, accounts
  <2> QED BY <2>1, EndingKeeps
<1>2. CASE Starts(p) \/ \E shown \in Shown(p) : Views(p, shown)
  <2>1. UNCHANGED <<accounts, conn>>
    BY <1>2 DEF Starts, Views, service, accounts
  <2> QED BY <2>1, NothingKeeps
<1> QED BY <1>1, <1>2 DEF Troubling

LEMMA StopsKeeps ==
  ASSUME LimitsInv, NEW p \in Identities, Stops(p)
  PROVE  LimitsInv'
<1>1. UNCHANGED accounts
  BY DEF Stops, accounts
<1>2. CASE link[p] = NoConn
  <2>1. conn' = conn
    BY <1>2 DEF Stops
  <2> QED BY <1>1, <2>1, NothingKeeps
<1>3. CASE link[p] # NoConn
  <2>1. "gone" \in Whys /\ conn' = Ends(conn, link[p], "gone")
    BY <1>3 DEF Stops, Whys
  <2> QED BY <1>1, <2>1, EndingKeeps
<1> QED BY <1>2, <1>3

LEMMA OtherwiseKeeps ==
  ASSUME LimitsInv, PeopleInv, Otherwise
  PROVE  LimitsInv'
<1>1. CASE Serving
  BY <1>1, ServesKeeps DEF Serving
<1>2. CASE Closing
  BY <1>2, CloseKeeps DEF Closing
<1>3. CASE Waiting
  BY <1>3, PassesKeeps DEF Waiting
<1>4. CASE Reporting
  BY <1>4, ReportKeeps DEF Reporting
<1>5. CASE Midnight
  BY <1>5, NothingKeeps DEF Midnight, service, accounts
<1>6. ASSUME NEW m \in situation.theirs, Knocks(m) PROVE LimitsInv'
  <2>1. m \in Machines
    BY ReachabilityAssumption DEF PeopleInv
  <2>2. NextFree \in Conns /\ Admit(NextFree, m)
    BY <1>6, NextFreeIs DEF Knocks
  <2> QED BY <2>1, <2>2, AdmitKeeps
<1>7. ASSUME NEW c \in Conns, Meddles(c) PROVE LimitsInv'
  BY <1>7, MeddlesKeeps
<1> QED BY <1>1, <1>2, <1>3, <1>4, <1>5, <1>6, <1>7 DEF Otherwise, Strangers

LEMMA RingKeepsLimits ==
  ASSUME LimitsInv, PeopleInv, [Next]_vars
  PROVE  LimitsInv'
<1>1. ASSUME NEW p \in Identities, Lives(p) PROVE LimitsInv'
  <2>1. CASE Living(p)
    BY <2>1, LivingKeeps
  <2>2. CASE Listens(p) \/ \E q \in Members : Notices(p, q)
    <3>1. UNCHANGED <<accounts, conn>>
      BY <2>2 DEF Listens, Sights, Hears, Notices, reachability, service, accounts
    <3> QED BY <3>1, NothingKeeps
  <2> QED BY <1>1, <2>1, <2>2 DEF Lives
<1>2. ASSUME NEW p \in Identities, Ceases(p) PROVE LimitsInv'
  BY <1>2, StopsKeeps DEF Ceases
<1>3. ASSUME NEW pair \in Pairs, Connects(pair) \/ LetsGo(pair) \/ Breaks(pair) PROVE LimitsInv'
  <2>1. UNCHANGED <<accounts, conn>>
    BY <1>3 DEF Connects, LetsGo, Breaks, reachability, service, accounts
  <2> QED BY <2>1, NothingKeeps
<1>4. CASE UNCHANGED vars
  <2>1. UNCHANGED <<accounts, conn>>
    BY <1>4 DEF vars, reachability, service, accounts
  <2> QED BY <2>1, NothingKeeps
<1> QED BY <1>1, <1>2, <1>3, <1>4, TroublingKeeps, OtherwiseKeeps DEF Next

-----------------------------------------------------------------------------
(* Who runs Convia, and over which connection.                             *)
LEMMA PeopleKeep ==
  ASSUME PeopleInv, [Next]_vars
  PROVE  PeopleInv'
<1>0. situation.people \subseteq Identities
  BY ReachabilityAssumption DEF PeopleInv
<1>1. ASSUME NEW p \in Identities, Dials(p) PROVE PeopleInv'
  <2>1. NextFree \in Conns /\ p \in running
    BY <1>1, NextFreeIs DEF Dials
  <2>2. link' = [link EXCEPT ![p] = NextFree] /\ UNCHANGED <<situation, running, online>>
    BY <1>1 DEF Dials
  <2> QED BY <2>1, <2>2 DEF PeopleInv
<1>2. ASSUME NEW p \in Identities, Online(p) PROVE PeopleInv'
  <2>1. p \in running /\ online' = online \cup {p} /\ UNCHANGED <<situation, running, link>>
    BY <1>2 DEF Online, Handshakes, PeopleInv
  <2> QED BY <2>1 DEF PeopleInv
<1>3. ASSUME NEW p \in Identities, Offline(p) PROVE PeopleInv'
  <2>1. link' = [link EXCEPT ![p] = NoConn] /\ online' = online \ {p} /\ UNCHANGED <<situation, running>>
    BY <1>3 DEF Offline
  <2> QED BY <2>1 DEF PeopleInv
<1>4. ASSUME NEW p \in Identities, Starts(p) PROVE PeopleInv'
  <2>1. running' = running \cup {p} /\ UNCHANGED <<situation, link, online>>
    BY <1>4 DEF Starts
  <2> QED BY <2>1 DEF PeopleInv
<1>5. ASSUME NEW p \in Identities, Stops(p) PROVE PeopleInv'
  <2>1. /\ running' = running \ {p} /\ online' = online \ {p} /\ link' = [link EXCEPT ![p] = NoConn]
        /\ situation' = situation
    BY <1>5 DEF Stops
  <2> QED BY <2>1 DEF PeopleInv
<1>6. CASE UNCHANGED <<situation, running, link, online>>
  BY <1>6 DEF PeopleInv
<1>7. ASSUME NEW p \in Identities, Living(p) PROVE PeopleInv'
  <2>1. (\E part \in Parts : Reach(p, part)) \/ (\E c \in calls[p] : Reasons(p, c)) => PeopleInv'
    BY <1>6 DEF Reach, Reasons, clients
  <2> QED BY <1>1, <1>2, <1>3, <1>7, <2>1 DEF Living
<1>8. ASSUME NEW p \in Identities, Listens(p) \/ \E q \in Members : Notices(p, q) PROVE PeopleInv'
  BY <1>6, <1>8 DEF Listens, Sights, Hears, Notices, reachability, clients
<1>9. ASSUME NEW p \in Identities, Troubling(p) PROVE PeopleInv'
  <2>1. Cut(p) \/ (\E shown \in Shown(p) : Views(p, shown)) => PeopleInv'
    BY <1>6 DEF Cut, Views, clients
  <2> QED BY <1>4, <1>9, <2>1 DEF Troubling
<1>10. CASE Otherwise
  BY <1>6, <1>10 DEF Otherwise, Serving, Closing, Waiting, Reporting, Midnight, Strangers, Knocks, Meddles, clients
<1>11. ASSUME NEW pair \in Pairs, Connects(pair) \/ LetsGo(pair) \/ Breaks(pair) PROVE PeopleInv'
  BY <1>6, <1>11 DEF Connects, LetsGo, Breaks, reachability, clients
<1>12. CASE UNCHANGED vars
  BY <1>6, <1>12 DEF vars, reachability, clients
<1> QED BY <1>5, <1>7, <1>8, <1>9, <1>10, <1>11, <1>12 DEF Next, Lives, Ceases

-----------------------------------------------------------------------------
(* What the service was told.                                              *)
SameStages == \A c \in Conns : conn'[c].stage = conn[c].stage /\ conn'[c].who = conn[c].who

LEMMA IndexRests ==
  ASSUME IndexInv, UNCHANGED <<found, announced, subscribed>>,
         \A c \in Conns : conn[c].stage = "reading" => conn'[c].stage = "reading" /\ conn'[c].who = conn[c].who
  PROVE  IndexInv'
BY DEF IndexInv, Told

LEMMA ToldMore ==
  ASSUME NEW index, Told(index), NEW c \in Conns, conn[c].stage = "reading", NEW ids
  PROVE  Told(With(index, c, ids))
<1> SUFFICES ASSUME NEW e \in With(index, c, ids)
             PROVE  (\E i : e = <<i, e[2]>>) /\ e[2] \in Conns /\ conn[e[2]].stage = "reading"
  BY DEF Told
<1>1. CASE e \in index
  BY <1>1 DEF Told
<1>2. CASE e \in ids \X {c}
  <2>1. PICK i \in ids : e = <<i, c>>
    BY <1>2
  <2> QED BY <2>1
<1> QED BY <1>1, <1>2 DEF With

LEMMA ToldLess ==
  ASSUME NEW index, Told(index), NEW c, NEW ids
  PROVE  Told(Drop(index, c, ids))
BY DEF Told, Drop

LEMMA ToldStays ==
  ASSUME NEW index, Told(index), \A c \in Conns : conn[c].stage = "reading" => conn'[c].stage = "reading"
  PROVE  \A e \in index : (\E i : e = <<i, e[2]>>) /\ e[2] \in Conns /\ conn'[e[2]].stage = "reading"
BY DEF Told

LEMMA ToldNext ==
  /\ Told(announced)' <=> \A e \in announced' : (\E i : e = <<i, e[2]>>) /\ e[2] \in Conns /\ conn'[e[2]].stage = "reading"
  /\ Told(subscribed)' <=> \A e \in subscribed' : (\E i : e = <<i, e[2]>>) /\ e[2] \in Conns /\ conn'[e[2]].stage = "reading"
BY DEF Told

LEMMA IndexMoves ==
  ASSUME LimitsInv, IndexInv, NEW c \in Conns, Read(c)
  PROVE  IndexInv'
<1>1. Well(conn) /\ conn[c].stage = "reading" /\ Counted(c)
  BY DEF LimitsInv, Read, Counted
<1>2. CASE Violated(c)
  <2>1. "blocked" \in Whys /\ conn' = Ends(conn, c, "blocked") /\ UNCHANGED <<found, announced, subscribed>>
    BY <1>2 DEF Violated, Whys
  <2> QED BY <1>1, <2>1, EndsWell, IndexRests
<1>3. CASE ~Violated(c)
  <2>1. /\ conn' = Taken(c) /\ found' = found
        /\ \/ \E ids : (announced' = With(announced, c, ids) \/ announced' = Drop(announced, c, ids))
                       /\ subscribed' = subscribed
           \/ \E ids : (subscribed' = With(subscribed, c, ids) \/ subscribed' = Drop(subscribed, c, ids))
                       /\ announced' = announced
    BY <1>3 DEF Read, Handle, Announce, Subscribe
  <2>2. \A d \in Conns : conn'[d].stage = conn[d].stage /\ conn'[d].who = conn[d].who
    BY <1>1, <2>1, TakenWell
  <2>3. \A index : Told(index) => \A e \in index : (\E i : e = <<i, e[2]>>) /\ e[2] \in Conns /\ conn'[e[2]].stage = "reading"
    BY <2>2, ToldStays
  <2>4. Told(announced)' /\ Told(subscribed)'
    <3>1. \A ids : /\ Told(With(announced, c, ids)) /\ Told(Drop(announced, c, ids))
                   /\ Told(With(subscribed, c, ids)) /\ Told(Drop(subscribed, c, ids))
      BY <1>1, ToldMore, ToldLess DEF IndexInv
    <3>2. \A e \in announced' : (\E i : e = <<i, e[2]>>) /\ e[2] \in Conns /\ conn'[e[2]].stage = "reading"
      BY <2>1, <2>3, <3>1 DEF IndexInv
    <3>3. \A e \in subscribed' : (\E i : e = <<i, e[2]>>) /\ e[2] \in Conns /\ conn'[e[2]].stage = "reading"
      BY <2>1, <2>3, <3>1 DEF IndexInv
    <3> QED BY <3>2, <3>3, ToldNext
  <2> QED BY <2>1, <2>2, <2>4 DEF IndexInv
<1> QED BY <1>2, <1>3

LEMMA IndexForgets ==
  ASSUME LimitsInv, IndexInv, NEW c \in Conns, Forget(c)
  PROVE  IndexInv'
<1>1. \A d \in Conns \ {c} : conn'[d] = conn[d]
  BY ForgetWell
<1>2. /\ found' = [p \in Identities |-> IF found[p] = c THEN NoConn ELSE found[p]]
      /\ announced' = Drop(announced, c, Mine(announced, c))
      /\ subscribed' = Drop(subscribed, c, Mine(subscribed, c))
  BY DEF Forget
<1>3. ASSUME NEW index, Told(index), NEW e \in Drop(index, c, Mine(index, c))
      PROVE  (\E i : e = <<i, e[2]>>) /\ e[2] \in Conns \ {c} /\ conn[e[2]].stage = "reading"
  <2>1. e \in index
    BY <1>3 DEF Drop
  <2>2. PICK i : e = <<i, e[2]>>
    BY <1>3, <2>1 DEF Told
  <2>3. e[1] = i
    BY <2>2
  <2>4. e[2] # c
    <3>1. SUFFICES ASSUME e[2] = c PROVE FALSE
      OBVIOUS
    <3>2. e[1] \in Mine(index, c)
      BY <2>1, <3>1 DEF Mine
    <3>3. e = <<e[1], c>>
      BY <2>2, <2>3, <3>1
    <3> QED BY <1>3, <3>2, <3>3 DEF Drop
  <2> QED BY <1>3, <2>1, <2>2, <2>4 DEF Told
<1>4. Told(announced)' /\ Told(subscribed)'
  BY <1>1, <1>2, <1>3, ToldNext DEF IndexInv
<1>5. \A p \in Identities : found'[p] # NoConn => found'[p] \in Conns \ {c} /\ found'[p] = found[p]
  BY <1>2 DEF IndexInv
<1>6. found' \in [Identities -> Conns \cup {NoConn}]
  BY <1>2 DEF IndexInv
<1> QED BY <1>1, <1>4, <1>5, <1>6 DEF IndexInv

LEMMA IndexAdmits ==
  ASSUME LimitsInv, IndexInv, NEW c, NEW m, Admit(c, m)
  PROVE  IndexInv'
<1>1. conn[c].stage = "unused"
  BY DEF Admit, Unused
<1>2. \A d \in Conns \ {c} : conn'[d] = conn[d]
  BY DEF Admit, LimitsInv, Well
<1>3. UNCHANGED <<found, announced, subscribed>>
  BY DEF Admit
<1> QED BY <1>1, <1>2, <1>3, IndexRests

LEMMA IndexReleases ==
  ASSUME LimitsInv, IndexInv, NEW c, Release(c)
  PROVE  IndexInv'
<1>1. conn[c].stage = "left" /\ UNCHANGED <<found, announced, subscribed>>
  BY DEF Release
<1>2. \A d \in Conns \ {c} : conn'[d] = conn[d]
  BY DEF Release, LimitsInv, Well
<1> QED BY <1>1, <1>2, IndexRests

LEMMA IndexFinds ==
  ASSUME LimitsInv, IndexInv, NEW c \in Conns, NEW p \in Identities, Authenticates(c, p)
  PROVE  IndexInv'
<1>1. /\ conn[c].stage = "challenging" /\ conn'[c].stage = "reading" /\ conn'[c].who = p
      /\ \A d \in Conns \ {c} : conn'[d].stage = conn[d].stage /\ conn'[d].who = conn[d].who
  BY AuthenticatesWell
<1>2. found' = [found EXCEPT ![p] = c] /\ UNCHANGED <<announced, subscribed>>
  BY DEF Authenticates
<1>3. Told(announced)' /\ Told(subscribed)'
  BY <1>1, <1>2, ToldStays, ToldNext DEF IndexInv
<1>4. \A q \in Identities : found'[q] = IF q = p THEN c ELSE found[q]
  BY <1>2 DEF IndexInv
<1>5. \A q \in Identities : found[q] # NoConn => found[q] \in Conns \ {c}
  BY <1>1 DEF IndexInv
<1>6. found' \in [Identities -> Conns \cup {NoConn}]
  BY <1>2 DEF IndexInv
<1> QED BY <1>1, <1>3, <1>4, <1>5, <1>6 DEF IndexInv

LEMMA IndexCloses ==
  ASSUME LimitsInv, IndexInv, Close
  PROVE  IndexInv'
BY DEF Close, IndexInv, Told

LEMMA IndexEnds ==
  ASSUME LimitsInv, IndexInv, UNCHANGED <<found, announced, subscribed>>,
         NEW c, NEW why \in Whys, conn' = Ends(conn, c, why)
  PROVE  IndexInv'
<1>1. Well(conn)
  BY DEF LimitsInv
<1> QED BY <1>1, EndsWell, IndexRests

LEMMA IndexKeeps ==
  ASSUME LimitsInv, IndexInv, PeopleInv, [Next]_vars
  PROVE  IndexInv'
<1>0. /\ situation.strangers \subseteq Identities
      /\ {"gone", "blocked", "timeout", "version"} \subseteq Whys
  BY ReachabilityAssumption DEF PeopleInv, Whys
<1>1. CASE UNCHANGED <<conn, found, announced, subscribed>>
  BY <1>1, IndexRests
<1>2. ASSUME NEW p \in Identities, Living(p) PROVE IndexInv'
  <2>1. Dials(p) => IndexInv'
    BY IndexAdmits DEF Dials
  <2>2. ASSUME Online(p) PROVE IndexInv'
    <3>1. link[p] \in Conns /\ Authenticates(link[p], p)
      BY <2>2 DEF Online, Handshakes, PeopleInv
    <3> QED BY <3>1, IndexFinds
  <2>3. (\E part \in Parts : Reach(p, part)) \/ (\E c \in calls[p] : Reasons(p, c)) \/ Offline(p) => IndexInv'
    BY <1>1 DEF Reach, Reasons, Offline, service
  <2> QED BY <1>2, <2>1, <2>2, <2>3 DEF Living
<1>3. ASSUME NEW p \in Identities, Listens(p) \/ \E q \in Members : Notices(p, q) PROVE IndexInv'
  BY <1>1, <1>3 DEF Listens, Sights, Hears, Notices, reachability, service
<1>4. ASSUME NEW p \in Identities, Troubling(p) PROVE IndexInv'
  <2>1. Cut(p) => IndexInv'
    BY <1>0, IndexEnds DEF Cut, Hangs
  <2>2. Starts(p) \/ (\E shown \in Shown(p) : Views(p, shown)) => IndexInv'
    BY <1>1 DEF Starts, Views, service
  <2> QED BY <1>4, <2>1, <2>2 DEF Troubling
<1>5. ASSUME NEW p \in Identities, Stops(p) PROVE IndexInv'
  <2>1. UNCHANGED <<found, announced, subscribed>>
    BY <1>5 DEF Stops
  <2>2. conn' = conn \/ conn' = Ends(conn, link[p], "gone")
    BY <1>5 DEF Stops
  <2> QED BY <1>0, <1>1, <2>1, <2>2, IndexEnds
<1>6. ASSUME NEW c \in Conns, Serves(c) PROVE IndexInv'
  BY <1>6, IndexMoves, IndexForgets, IndexReleases DEF Serves
<1>7. ASSUME NEW c \in Conns, Meddles(c) PROVE IndexInv'
  <2>1. Forges(c) => IndexInv'
    BY <1>0, IndexEnds DEF Forges, Violated
  <2>2. \A why \in {"timeout", "version"} : TurnedAway(c, why) => IndexInv'
    BY <1>0, IndexEnds DEF TurnedAway
  <2>3. \A p \in situation.strangers : Authenticates(c, p) => IndexInv'
    BY <1>0, IndexFinds
  <2>4. Hangs(c) /\ UNCHANGED <<found, announced, subscribed>> => IndexInv'
    BY <1>0, IndexEnds DEF Hangs
  <2> QED BY <1>1, <1>7, <2>1, <2>2, <2>3, <2>4 DEF Meddles
<1>8. CASE Otherwise
  <2>1. (\E m \in situation.theirs : Knocks(m)) => IndexInv'
    BY IndexAdmits DEF Knocks
  <2>2. Waiting \/ Reporting \/ Midnight => IndexInv'
    BY <1>1 DEF Waiting, Passes, Reporting, Report, Midnight, service
  <2> QED BY <1>6, <1>7, <1>8, <2>1, <2>2, IndexCloses DEF Otherwise, Strangers, Serving, Closing
<1>9. ASSUME NEW pair \in Pairs, Connects(pair) \/ LetsGo(pair) \/ Breaks(pair) PROVE IndexInv'
  BY <1>1, <1>9 DEF Connects, LetsGo, Breaks, reachability, service
<1>10. CASE UNCHANGED vars
  BY <1>1, <1>10 DEF vars, reachability, service
<1> QED BY <1>2, <1>3, <1>4, <1>5, <1>8, <1>9, <1>10 DEF Next, Lives, Ceases

-----------------------------------------------------------------------------
(* Those who are online already.                                           *)
LEMMA InitLimits == Init => LimitsInv /\ IndexInv /\ PeopleInv
<1> SUFFICES ASSUME Init PROVE LimitsInv /\ IndexInv /\ PeopleInv
  OBVIOUS
<1> DEFINE at == situation.at  m == situation.machine
           whose(c) == {p \in DOMAIN at : at[p] = c}
           at0(p) == [Unused EXCEPT !.stage = "reading", !.who = p, !.from = AddressOf(m[p]), !.tokens = Burst]
<1>1. /\ situation \in Situations /\ running = situation.started /\ online = DOMAIN at
      /\ link = [p \in Identities |-> IF p \in online THEN at[p] ELSE NoConn]
      /\ now = 0 /\ blocks = [a \in Addresses |-> NoBlock]
      /\ counted = [a \in Addresses |-> Cardinality({p \in DOMAIN at : AddressOf(m[p]) = a})]
      /\ found = [p \in Identities |-> IF p \in DOMAIN at THEN at[p] ELSE NoConn]
      /\ violations = [a \in Addresses |-> <<>>]
  BY DEF Init, InitReachability, InitAdmission
<1>2. conn = [c \in Conns |-> IF whose(c) = {} THEN Unused ELSE at0(CHOOSE q \in whose(c) : TRUE)]
  BY DEF Init, InitReachability, InitAdmission
<1>3. \E says, sees : /\ announced = UNION {says[p] \X {at[p]} : p \in DOMAIN at}
                      /\ subscribed = UNION {sees[p] \X {at[p]} : p \in DOMAIN at}
  <2> DEFINE says == [p \in Identities |-> Announced(reached[p], p)]
             sees == [p \in Identities |-> Watched(reached[p], p)]
  <2>1. /\ announced = UNION {says[p] \X {at[p]} : p \in DOMAIN at}
        /\ subscribed = UNION {sees[p] \X {at[p]} : p \in DOMAIN at}
    BY DEF Init, InitReachability, InitAdmission
  <2> HIDE DEF says, sees
  <2> QED BY <2>1
<1>4. /\ m \in [Identities -> Machines] /\ situation.started \subseteq Identities
      /\ DOMAIN at \subseteq situation.started
      /\ at \in [DOMAIN at -> Conns] /\ \A p, q \in DOMAIN at : at[p] = at[q] => p = q
      /\ \A n \in Machines : Cardinality({p \in DOMAIN at : AddressOf(m[p]) = AddressOf(n)}) <= PerAddress
  BY <1>1, ReachabilityAssumption DEF IsInjective
<1> HIDE DEF at, m
<1>5. PeopleInv
  BY <1>1, <1>4 DEF PeopleInv, at
<1>6. ASSUME NEW p \in DOMAIN at
      PROVE  /\ at0(p) \in Records /\ at0(p).stage = "reading" /\ at0(p).who = p
             /\ at0(p).from = AddressOf(m[p]) /\ AddressOf(m[p]) \in Addresses
  <2>1. AddressOf(m[p]) \in Addresses /\ p \in Identities /\ Burst \in Int
    BY <1>4, AdmissionAssumption DEF Addresses
  <2> DEFINE a == AddressOf(m[p])
  <2>2. a \in Addresses /\ at0(p) = [Unused EXCEPT !.stage = "reading", !.who = p, !.from = a, !.tokens = Burst]
    BY <2>1
  <2> HIDE DEF a, at0
  <2>3. "reading" \in Stages
    BY DEF Stages
  <2>4. at0(p) \in Records /\ at0(p).stage = "reading" /\ at0(p).who = p /\ at0(p).from = a
    BY <2>1, <2>2, <2>3, UnusedTyped DEF Records
  <2> QED BY <2>2, <2>4 DEF a
<1> HIDE DEF at0
<1>7. \A p \in DOMAIN at : at[p] \in Conns /\ conn[at[p]] = at0(p)
  <2> TAKE p \in DOMAIN at
  <2>1. at[p] \in Conns /\ whose(at[p]) = {p}
    BY <1>4
  <2>2. (CHOOSE q \in whose(at[p]) : TRUE) = p
    BY <2>1
  <2> HIDE DEF whose
  <2> QED BY <1>2, <2>1, <2>2
<1>8. \A c \in Conns : conn[c] = Unused \/ \E p \in DOMAIN at : at[p] = c
  BY <1>2
<1>9. conn \in [Conns -> Records] /\ Well(conn)
  <2>1. \A c \in Conns : conn[c] \in Records
    BY <1>6, <1>7, <1>8, UnusedTyped
  <2>2. conn = [c \in Conns |-> conn[c]]
    BY <1>2
  <2>3. conn \in [Conns -> Records]
    BY <2>1, <2>2
  <2>4. \A c \in Conns : IF conn[c].stage = "unused" THEN conn[c] = Unused ELSE conn[c].from \in Addresses
    BY <1>6, <1>7, <1>8, UnusedTyped
  <2> QED BY <2>3, <2>4 DEF Well
<1>10. ASSUME NEW a \in Addresses
       PROVE  /\ counted[a] = Cardinality(From(conn, a)) /\ counted[a] <= PerAddress
              /\ counted[a] \in Nat
  <2> DEFINE S == {p \in DOMAIN at : AddressOf(m[p]) = a}
             T == From(conn, a)
             g == [c \in T |-> conn[c].who]
  <2>1. IsFiniteSet(T) /\ Cardinality(T) \in Nat
    <3>1. T \in SUBSET Conns
      BY DEF From
    <3> QED BY <3>1, CountsAre
  <2>2. \A c \in T : \E p \in S : at[p] = c /\ conn[c].who = p
    BY <1>6, <1>7, <1>8, UnusedTyped DEF From
  <2>3. \A p \in S : at[p] \in T /\ conn[at[p]].who = p
    BY <1>6, <1>7 DEF From
  <2> HIDE DEF S, T
  <2>4. g \in [T -> S] /\ \A c \in T : g[c] = conn[c].who
    BY <2>2
  <2> HIDE DEF g
  <2>5. \A c, d \in T : g[c] = g[d] => c = d
    BY <2>2, <2>4
  <2>6. \A p \in S : \E c \in T : g[c] = p
    BY <2>3, <2>4
  <2>7. g \in Bijection(T, S)
    BY <2>4, <2>5, <2>6 DEF Bijection, Injection, Surjection, IsInjective
  <2>8. Cardinality(S) = Cardinality(T)
    <3>1. ExistsBijection(T, S)
      BY <2>7 DEF ExistsBijection
    <3> QED BY <2>1, <3>1, FS_Bijection
  <2>9. Cardinality(S) <= PerAddress
    <3>1. PICK n \in Machines : a = AddressOf(n)
      BY DEF Addresses
    <3> QED BY <1>4, <3>1 DEF S
  <2>10. counted[a] = Cardinality(S)
    BY <1>1 DEF S
  <2> QED BY <2>1, <2>8, <2>9, <2>10 DEF T
<1>11. LimitsInv
  <2>1. CountedWhileOpen
    BY <1>10, CountedFrom
  <2>2. counted \in [Addresses -> Nat]
    <3>1. counted = [a \in Addresses |-> counted[a]]
      BY <1>1
    <3> QED BY <1>10, <3>1
  <2>3. blocks \in [Addresses -> Blocks] /\ violations \in [Addresses -> Seq(Nat)] /\ now \in Nat
    BY <1>1, NoBlockWell
  <2>4. \A a \in Addresses : Offended(blocks[a], violations[a], now)
    BY <1>1, NoBlockWell
  <2> QED BY <1>9, <2>1, <2>2, <2>3, <2>4 DEF LimitsInv, Blocks
<1>12. IndexInv
  <2>1. ASSUME NEW says, NEW e \in UNION {says[p] \X {at[p]} : p \in DOMAIN at}
        PROVE  (\E i : e = <<i, e[2]>>) /\ e[2] \in Conns /\ conn[e[2]].stage = "reading"
    <3>1. PICK p \in DOMAIN at : e \in says[p] \X {at[p]}
      OBVIOUS
    <3>2. PICK i \in says[p] : e = <<i, at[p]>>
      BY <3>1
    <3>3. e[2] = at[p]
      BY <3>2
    <3> QED BY <1>6, <1>7, <3>2, <3>3
  <2>2. Told(announced) /\ Told(subscribed)
    BY <1>3, <2>1 DEF Told
  <2>3. found \in [Identities -> Conns \cup {NoConn}]
    BY <1>1, <1>4
  <2>4. \A p \in Identities : found[p] # NoConn => p \in DOMAIN at /\ found[p] = at[p]
    BY <1>1
  <2> QED BY <1>6, <1>7, <2>2, <2>3, <2>4 DEF IndexInv
<1> QED BY <1>5, <1>11, <1>12

LEMMA ServiceSound == Spec => [](LimitsInv /\ IndexInv /\ PeopleInv)
<1>1. LimitsInv /\ IndexInv /\ PeopleInv /\ [Next]_vars => (LimitsInv /\ IndexInv /\ PeopleInv)'
  BY RingKeepsLimits, IndexKeeps, PeopleKeep
<1> QED BY <1>1, InitLimits, PTL DEF Spec

(* An address has as many connections at once as are counted for it, and   *)
(* no more than it may; it is blocked for as long as the times it broke a  *)
(* limit make it, and no longer (service.go's admit, release and block).   *)
THEOREM LimitsAreAlwaysKept == Spec => []LimitsAreKept
<1>1. LimitsInv => LimitsAreKept
  <2> SUFFICES ASSUME LimitsInv PROVE BlockedAsLong
    BY DEF LimitsInv, LimitsAreKept
  <2> SUFFICES ASSUME NEW a \in Addresses
               PROVE  LET log == violations[a]
                          repeated == Len(log) - Together(log)
                      IN  IF blocks[a] = NoBlock THEN log # <<>> => now - Last(log) >= Forgiven
                          ELSE /\ blocks[a].last = Last(log)
                               /\ blocks[a].until = Last(log) + Min({FirstBlock * 2^repeated, LongestBlock})
    BY DEF BlockedAsLong
  <2> DEFINE log == violations[a]  b == blocks[a]  repeated == Len(log) - Together(log)
  <2>1. Offended(b, log, now) /\ log \in Seq(Nat) /\ b.offences \in Nat
    BY DEF LimitsInv
  <2>2. Last(log) = log[Len(log)]
    BY DEF Last
  <2> HIDE DEF log, b
  <2>3. CASE b = NoBlock
    <3>1. b.offences = 0
      BY <2>3 DEF NoBlock
    <3> QED BY <2>1, <2>2, <2>3, <3>1 DEF Offended, log, b
  <2>4. CASE b # NoBlock
    <3>1. /\ b.offences # 0 /\ log # <<>> /\ b.last = Last(log) /\ b.offences = 1 + Len(log) - Together(log)
          /\ b.until = b.last + Length(b.offences)
      BY <2>1, <2>2, <2>4 DEF Offended
    <3>2. b.offences - 1 = repeated
      <4>1. Len(log) \in Nat /\ Together(log) \in Int
        BY <2>1, <3>1, TogetherTyped
      <4> QED BY <3>1, <4>1
    <3>3. Length(b.offences) = Min({FirstBlock * 2^(b.offences - 1), LongestBlock})
      BY <2>1, <3>1, LengthIs
    <3> QED BY <2>4, <3>1, <3>2, <3>3 DEF log, b
  <2> QED BY <2>3, <2>4
<1> QED BY <1>1, ServiceSound, PTL

-----------------------------------------------------------------------------
(* Of finitely many members at places of their own, one is first: the one  *)
(* with fewest before them.                                                *)
LEMMA LeastIs ==
  ASSUME NEW ps \in SUBSET Members, ps # {}, NEW place, \A p \in Members : place[p] \in Int
  PROVE  Least(ps, place) \in ps
<1> DEFINE ahead(p) == {q \in ps : place[q] < place[p]}
           counts == {Cardinality(ahead(p)) : p \in ps}
<1>1. \A p \in ps : IsFiniteSet(ahead(p)) /\ Cardinality(ahead(p)) \in Nat
  <2>1. \A p \in ps : ahead(p) \in SUBSET Members
    OBVIOUS
  <2> HIDE DEF ahead
  <2> QED BY <2>1, RingAssumption, FS_Subset, FS_CardinalityType
<1>2. PICK p \in ps : \A q \in ps : Cardinality(ahead(p)) <= Cardinality(ahead(q))
  <2>1. counts \in SUBSET Nat /\ counts # {}
    BY <1>1
  <2>2. PICK n \in counts : \A k \in counts : n <= k
    <3> HIDE DEF counts
    <3> QED BY <2>1, LeastNatural
  <2> HIDE DEF ahead
  <2> QED BY <2>2
<1>3. \A q \in ps : place[p] <= place[q]
  <2> SUFFICES ASSUME NEW q \in ps, ~(place[p] <= place[q]) PROVE FALSE
    OBVIOUS
  <2>1. place[q] < place[p] /\ \A r \in ps : place[r] \in Int
    OBVIOUS
  <2>2. ahead(q) \subseteq ahead(p) /\ q \in ahead(p) /\ q \notin ahead(q)
    BY <2>1
  <2> HIDE DEF ahead
  <2>3. Cardinality(ahead(q)) < Cardinality(ahead(p))
    BY <1>1, <2>2, FS_Subset
  <2>4. Cardinality(ahead(p)) <= Cardinality(ahead(q))
    BY <1>2
  <2> QED BY <1>1, <2>3, <2>4
<1> QED BY <1>3 DEF Least

LEMMA ChosenAre ==
  ASSUME NEW p \in Members, NEW ps \in SUBSET Members
  PROVE  Chosen(p, ps) \subseteq ps
<1>1. ASSUME ps # {} PROVE After(p, ps) \in ps
  <2> DEFINE later == {q \in ps : Place[q] > Place[p]}
             some == IF later # {} THEN later ELSE ps
  <2>1. some \in SUBSET ps /\ some # {} /\ \A q \in Members : Place[q] \in Int
    BY <1>1, RingAssumption
  <2>2. After(p, ps) = Least(some, Place)
    BY DEF After
  <2> HIDE DEF some
  <2>3. Least(some, Place) \in some
    BY <2>1, LeastIs
  <2> QED BY <2>1, <2>2, <2>3
<1>2. ASSUME ps # {} PROVE Before(p, ps) \in ps
  <2> DEFINE earlier == {q \in ps : Place[q] < Place[p]}
             some == IF earlier # {} THEN earlier ELSE ps
             Mirrored == [q \in Members |-> -Place[q]]
  <2>1. some \in SUBSET ps /\ some # {} /\ \A q \in Members : Mirrored[q] \in Int
    BY <1>2, RingAssumption
  <2>2. Before(p, ps) = Least(some, Mirrored)
    BY DEF Before
  <2> HIDE DEF some, Mirrored
  <2>3. Least(some, Mirrored) \in some
    BY <2>1, LeastIs
  <2> QED BY <2>1, <2>2, <2>3
<1>3. Neighbours(p, ps) \subseteq ps
  BY <1>1, <1>2 DEF Neighbours
<1> QED BY <1>3 DEF Chosen, First

Known(f) == f \in [Members -> SUBSET Members] /\ \A p \in Members : p \notin f[p]
SpaceInv ==
  /\ Known(sighted) /\ Known(ready) /\ Known(ringed) /\ connected \subseteq Pairs
  /\ DOMAIN events = Members /\ \A p \in Members : DOMAIN events[p] = Members /\ events[p][p] = <<>>

LEMMA RingsKeep ==
  ASSUME SpaceInv, NEW p \in Members, Rings(p), Known(sighted'), Known(ready')
  PROVE  Known(ringed')
<1>1. Fellows(p) \subseteq Members /\ p \notin Fellows(p)
  BY DEF Fellows, Known
<1>2. Chosen(p, Fellows(p)) \subseteq Fellows(p)
  BY <1>1, ChosenAre
<1> QED BY <1>1, <1>2 DEF Rings, Known, SpaceInv

LEMMA SightsKeep ==
  ASSUME SpaceInv, NEW p \in Members, Sights(p)
  PROVE  SpaceInv'
<1>1. \A i : Sighted(p, "space", i) \subseteq Members \ {p}
  BY DEF Sighted, Watches, Id
<1>2. Known(sighted') /\ ready' = ready
  BY <1>1 DEF Sights, SpaceInv, Known
<1>3. Known(ringed')
  BY <1>2, RingsKeep DEF Sights, SpaceInv
<1> QED BY <1>2, <1>3 DEF Sights, SpaceInv, Known

LEMMA PairsAreTwo == \A p \in Members : \A pair \in Pairs : pair # {p, p}
BY DEF Pairs

LEMMA BothKeep ==
  ASSUME SpaceInv, NEW pair \in Pairs, NEW what, NEW es, es = Both(pair, what)
  PROVE  DOMAIN es = Members /\ \A p \in Members : DOMAIN es[p] = Members /\ es[p][p] = <<>>
BY PairsAreTwo DEF Both, SpaceInv

LEMMA NoticesKeep ==
  ASSUME SpaceInv, NEW p \in Members, NEW q \in Members, Notices(p, q)
  PROVE  SpaceInv'
<1>1. p # q
  BY DEF Notices, SpaceInv
<1>2. Known(sighted') /\ Known(ready')
  <2>1. \/ ready' = [ready EXCEPT ![p] = @ \cup {q}] /\ sighted' = sighted
        \/ ready' = [ready EXCEPT ![p] = @ \ {q}] /\ sighted' = [sighted EXCEPT ![p] = @ \ {q}]
    BY DEF Notices
  <2>2. Known(sighted) /\ Known(ready)
    BY DEF SpaceInv
  <2>3. CASE ready' = [ready EXCEPT ![p] = @ \cup {q}] /\ sighted' = sighted
    BY <1>1, <2>2, <2>3 DEF Known
  <2>4. CASE ready' = [ready EXCEPT ![p] = @ \ {q}] /\ sighted' = [sighted EXCEPT ![p] = @ \ {q}]
    BY <2>2, <2>4 DEF Known
  <2> QED BY <2>1, <2>3, <2>4
<1>3. Known(ringed')
  BY <1>2, RingsKeep DEF Notices
<1>4. DOMAIN events' = Members /\ \A r \in Members : DOMAIN events'[r] = Members /\ events'[r][r] = <<>>
  BY <1>1 DEF Notices, SpaceInv
<1> QED BY <1>2, <1>3, <1>4 DEF Notices, SpaceInv, Known

LEMMA AbandonsKeep ==
  ASSUME SpaceInv, NEW p \in Members, Abandons(p)
  PROVE  SpaceInv'
<1>1. Known(sighted') /\ Known(ready') /\ Known(ringed')
  BY DEF Abandons, SpaceInv, Known
<1>2. connected' \subseteq Pairs
  BY DEF Abandons, SpaceInv
<1>3. DOMAIN events' = Members /\ \A r \in Members : DOMAIN events'[r] = Members /\ events'[r][r] = <<>>
  BY DEF Abandons, SpaceInv
<1> QED BY <1>1, <1>2, <1>3 DEF SpaceInv, Known

LEMMA SpaceRests == SpaceInv /\ UNCHANGED space => SpaceInv'
BY DEF SpaceInv, space, Known

LEMMA SpaceKeeps ==
  ASSUME SpaceInv, [Next]_vars
  PROVE  SpaceInv'
<1>1. ASSUME NEW p \in Identities, Lives(p) PROVE SpaceInv'
  BY <1>1, SpaceRests, SightsKeep, NoticesKeep DEF Lives, Listens
<1>2. ASSUME NEW p \in Identities, Ceases(p) PROVE SpaceInv'
  BY <1>2, SpaceRests, AbandonsKeep DEF Ceases
<1>3. ASSUME NEW pair \in Pairs, Connects(pair) \/ LetsGo(pair) \/ Breaks(pair) PROVE SpaceInv'
  <2>1. UNCHANGED <<sighted, ready, ringed>> /\ connected' \subseteq Pairs
    BY <1>3 DEF Connects, LetsGo, Breaks, SpaceInv
  <2>2. events' = Both(pair, "ready") \/ events' = Both(pair, "lost")
    BY <1>3 DEF Connects, LetsGo, Breaks
  <2>3. DOMAIN events' = Members /\ \A r \in Members : DOMAIN events'[r] = Members /\ events'[r][r] = <<>>
    BY <2>2, BothKeep
  <2> QED BY <2>1, <2>3 DEF SpaceInv, Known
<1>4. UNCHANGED vars => SpaceInv'
  BY SpaceRests DEF vars
<1> QED BY <1>1, <1>2, <1>3, <1>4, SpaceRests DEF Next

LEMMA InitSpace == Init => SpaceInv
<1> SUFFICES ASSUME Init PROVE SpaceInv
  OBVIOUS
<1>1. /\ sighted = [p \in Members |-> IF p \in There THEN There \ {p} ELSE {}]
      /\ ringed = [p \in Members |-> Chosen(p, sighted[p])]
      /\ connected = {pair \in Pairs : Wanted(pair)}
      /\ ready = [p \in Members |-> {q \in Members : {p, q} \in connected}]
      /\ events = [p \in Members |-> [q \in Members |-> <<>>]]
  BY DEF Init, InitRing
<1>2. Known(sighted)
  BY <1>1 DEF Known, There
<1>3. \A p \in Members : Chosen(p, sighted[p]) \subseteq sighted[p]
  BY <1>2, ChosenAre DEF Known
<1>4. Known(ringed)
  BY <1>1, <1>2, <1>3 DEF Known
<1>5. Known(ready)
  BY <1>1, PairsAreTwo DEF Known
<1> QED BY <1>1, <1>2, <1>4, <1>5 DEF SpaceInv

(* Types, of the service, of those who use it and of the space: no member  *)
(* takes itself for another, or wants a connection with itself.            *)
THEOREM RingTyped == Spec => []TypeOKRing
<1>1. LimitsInv /\ IndexInv /\ PeopleInv /\ SpaceInv => TypeOKRing
  <2> SUFFICES ASSUME LimitsInv, IndexInv, PeopleInv, SpaceInv PROVE TypeOKRing
    OBVIOUS
  <2>1. \A c \in Conns : conn[c].stage \in Stages
    BY DEF LimitsInv, Well, Records
  <2>2. TypeOK
    BY <2>1 DEF TypeOK, IndexInv, PeopleInv, Told
  <2> QED BY <2>2 DEF TypeOKRing, SpaceInv, Known
<1>2. SpaceInv /\ [Next]_vars => SpaceInv'
  BY SpaceKeeps
<1> QED BY <1>1, <1>2, InitSpace, ServiceSound, PTL DEF Spec

(* Whoever the service finds an identity at has proved to be it, and is    *)
(* read from; nobody is found at a connection released (service.go's       *)
(* authenticate and forget, on goroutines of their own).                   *)
THEOREM FoundAreTheirs ==
  Spec => [](\A p \in Identities : found[p] # NoConn =>
               /\ conn[found[p]].stage = "reading" /\ conn[found[p]].who = p
               /\ \A q \in Identities : found[q] = found[p] => q = p)
<1>1. IndexInv => \A p \in Identities : found[p] # NoConn =>
               /\ conn[found[p]].stage = "reading" /\ conn[found[p]].who = p
               /\ \A q \in Identities : found[q] = found[p] => q = p
  BY DEF IndexInv
<1> QED BY <1>1, ServiceSound, PTL
=============================================================================
