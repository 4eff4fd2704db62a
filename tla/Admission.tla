------------------------------ MODULE Admission ------------------------------
(***************************************************************************)
(* Whom the rendezvous service lets in, and what it allows them (ADR       *)
(* 0021): internal/rendezvous/service/service.go.  Rendezvous is of the    *)
(* same service's signals, queues and slow peers, which are left out here. *)
(*                                                                         *)
(* A goroutine serves each connection: it counts it, challenges whoever    *)
(* made it, reads what they send, and, once either side ended it, forgets  *)
(* it and then releases it, each under the service's mutex.  Any of these  *)
(* may come between two of another's.                                      *)
(*                                                                         *)
(* A signature is whose it is.  Tokens come at a rate that fills a bucket  *)
(* within the shortest block, as in the code.                              *)
(***************************************************************************)
EXTENDS Integers, SequencesExt, FiniteSetsExt

CONSTANTS
  Identities,      \* who may prove who they are
  Machines,        \* where connections come from
  Conns,           \* bound: connections served at once, by name
  PerAddress, Subscriptions, Announcements, Largest, Burst,   \* the limits
  FirstBlock, LongestBlock, Forgiven

ASSUME AdmissionAssumption ==
  /\ {PerAddress, Subscriptions, Announcements, Largest, Burst} \subseteq Nat \ {0}
  /\ {FirstBlock, LongestBlock, Forgiven} \subseteq Nat \ {0}
  /\ FirstBlock <= LongestBlock /\ IsFiniteSet(Conns)
  /\ Machines \subseteq [family : {"v4", "v6"}, net : Nat, host : Nat]

VARIABLES
  now,                     \* the service's time
  counted,                 \* counted[a]: the connections counted of address a
  blocks,                  \* blocks[a]: until when a is blocked, and its offences
  conn,                    \* conn[c]: how far a connection is, whose, and from where
  found,                   \* found[p]: the connection p is registered with
  announced, subscribed,   \* the identifiers that are, each with the connection it is on
  heard, queue,            \* what is on its way to the service, and from it
  violations               \* history: violations[a], when a limit was broken from a

service == <<now, counted, blocks, conn, found, announced, subscribed, heard, queue, violations>>

Nobody == "nobody"
NoConn == "none"

(* addressOf: an IPv4 address, or the /64 network of an IPv6 address.      *)
AddressOf(m) == IF m.family = "v4" THEN m ELSE [m EXCEPT !.host = 0]
Addresses == {AddressOf(m) : m \in Machines}

(* stage: what the goroutine is about to do.  end: what the connection was *)
(* closed with, "open" while it is not; "gone" is not the service's doing. *)
Unused == [stage |-> "unused", from |-> NoConn, who |-> Nobody, tokens |-> 0, at |-> 0, end |-> "open"]
Stages == {"unused", "challenging", "reading", "left"}
Counted(c) == conn[c].stage # "unused"
Open(c, stage) == conn[c].stage = stage /\ conn[c].end = "open"

NoBlock == [until |-> 0, last |-> 0, offences |-> 0]

(* Those who are served already: at[p] is the connection p has, m[p] its   *)
(* machine, and of them says[p] is announced and sees[p] subscribed to.    *)
InitAdmission(at, m, says, sees) ==
  /\ now = 0 /\ blocks = [a \in Addresses |-> NoBlock]
  /\ counted = [a \in Addresses |-> Cardinality({p \in DOMAIN at : AddressOf(m[p]) = a})]
  /\ found = [p \in Identities |-> IF p \in DOMAIN at THEN at[p] ELSE NoConn]
  /\ conn = [c \in Conns |-> LET whose == {p \in DOMAIN at : at[p] = c} IN
       IF whose = {} THEN Unused
       ELSE LET p == CHOOSE q \in whose : TRUE
            IN  [Unused EXCEPT !.stage = "reading", !.who = p, !.from = AddressOf(m[p]), !.tokens = Burst]]
  /\ announced = UNION {says[p] \X {at[p]} : p \in DOMAIN at}
  /\ subscribed = UNION {sees[p] \X {at[p]} : p \in DOMAIN at}
  /\ heard = [c \in Conns |-> <<>>] /\ queue = heard
  /\ violations = [a \in Addresses |-> <<>>]

-----------------------------------------------------------------------------
(* Blocks of addresses.                                                    *)
RunOutForgotten(b) == now >= b.until         \* a mistake: forgiven as it runs out
LongForgotten(b) == now - b.last >= Forgiven

Blocked(a) == blocks[a].offences # 0 /\ now < blocks[a].until

(* block: the first of these, or twice as long as the last, to a limit.    *)
Length(offences) ==
  LET length[n \in 1..offences] ==
        IF n = 1 THEN FirstBlock
        ELSE IF length[n - 1] < LongestBlock THEN 2 * length[n - 1] ELSE length[n - 1]
  IN  Min({length[offences], LongestBlock})

Block(b) ==
  LET offences == 1 + IF b.offences = 0 \/ LongForgotten(b) THEN 0 ELSE b.offences
  IN  [until |-> now + Length(offences), last |-> now, offences |-> offences]

(* Report, every hour: forgets offences old enough.                        *)
Report ==
  /\ blocks' = [a \in Addresses |-> IF LongForgotten(blocks[a]) THEN NoBlock ELSE blocks[a]]
  /\ blocks' # blocks
  /\ UNCHANGED <<now, counted, conn, found, announced, subscribed, heard, queue, violations>>

Passes ==
  /\ now' = now + 1
  /\ UNCHANGED <<counted, blocks, conn, found, announced, subscribed, heard, queue, violations>>

-----------------------------------------------------------------------------
(* ServeHTTP: admit, and the end of serving a connection.                  *)
Admissible(m) == ~Blocked(AddressOf(m)) /\ counted[AddressOf(m)] < PerAddress

Admit(c, m) ==
  /\ conn[c] = Unused /\ Admissible(m)
  /\ counted' = [counted EXCEPT ![AddressOf(m)] = @ + 1]
  /\ conn' = [conn EXCEPT ![c] = [Unused EXCEPT !.stage = "challenging", !.from = AddressOf(m),
                                               !.tokens = Burst, !.at = now]]
  /\ UNCHANGED <<now, blocks, found, announced, subscribed, heard, queue, violations>>

(* end: only the first to end a connection says why.                       *)
Ends(cs, c, why) == [cs EXCEPT ![c].end = IF @ = "open" /\ cs[c].stage # "unused" THEN why ELSE @]

Violated(c) ==
  /\ blocks' = [blocks EXCEPT ![conn[c].from] = Block(@)]
  /\ violations' = [violations EXCEPT ![conn[c].from] = Append(@, now)]
  /\ conn' = Ends(conn, c, "blocked")
  /\ UNCHANGED <<now, counted, found, announced, subscribed, queue>>

(* authenticate: the answer to the challenge is p's, of a version the      *)
(* service speaks; it replaces the connection p had.                       *)
Authenticates(c, p) ==
  /\ Open(c, "challenging")
  /\ conn' = LET replaced == IF found[p] = NoConn THEN conn ELSE Ends(conn, found[p], "replaced")
             IN  [replaced EXCEPT ![c].stage = "reading", ![c].who = p]
  /\ found' = [found EXCEPT ![p] = c]
  /\ UNCHANGED <<now, counted, blocks, announced, subscribed, queue, violations>>

Forges(c) ==   \* or answers with anything else
  Open(c, "challenging") /\ Violated(c) /\ UNCHANGED heard

(* No answer in time, or of a version not spoken: nobody is blocked.       *)
TurnedAway(c, why) ==
  /\ Open(c, "challenging") /\ why \in {"timeout", "version"} /\ conn' = Ends(conn, c, why)
  /\ UNCHANGED <<now, counted, blocks, found, announced, subscribed, heard, queue, violations>>

(* The connection is closed at the other end, or breaks.                   *)
Hangs(c) == conn' = Ends(conn, c, "gone")

Mine(index, c) == {e[1] : e \in {f \in index : f[2] = c}}
Drop(index, c, ids) == index \ (ids \X {c})

Forget(c) ==
  /\ conn[c].stage \in {"challenging", "reading"} /\ conn[c].end # "open"
  /\ conn' = [conn EXCEPT ![c].stage = "left"]
  /\ found' = [p \in Identities |-> IF found[p] = c THEN NoConn ELSE found[p]]
  /\ announced' = Drop(announced, c, Mine(announced, c))
  /\ subscribed' = Drop(subscribed, c, Mine(subscribed, c))
  /\ UNCHANGED <<now, counted, blocks, heard, queue, violations>>

Release(c) ==
  /\ conn[c].stage = "left" /\ conn' = [conn EXCEPT ![c] = Unused]
  /\ counted' = [counted EXCEPT ![conn[c].from] = @ - 1]
  /\ heard' = [heard EXCEPT ![c] = <<>>] /\ queue' = [queue EXCEPT ![c] = <<>>]
  /\ UNCHANGED <<now, blocks, found, announced, subscribed, violations>>

(* Close: the service stops, whereupon every connection to it ends.  It    *)
(* keeps nothing, and so starts as if it never ran.                        *)
Empty == [c \in Conns |-> <<>>]
Close ==
  /\ conn' = [c \in Conns |-> Unused] /\ heard' = Empty /\ queue' = Empty
  /\ counted' = [a \in Addresses |-> 0] /\ blocks' = [a \in Addresses |-> NoBlock]
  /\ violations' = [a \in Addresses |-> <<>>] /\ found' = [p \in Identities |-> NoConn]
  /\ announced' = {} /\ subscribed' = {} /\ now' = now

-----------------------------------------------------------------------------
(* What is sent: identifiers, or something the protocol does not allow.    *)
Saying(kind, ids) == [kind |-> kind, ids |-> ids]
Nonsense == Saying("nonsense", {})

(* take, of a bucket filled since it was last used.                        *)
Filled(c) == IF now > conn[c].at THEN Burst ELSE conn[c].tokens
Taken(c) == [conn EXCEPT ![c].tokens = Filled(c) - 1, ![c].at = now]

With(index, c, ids) == index \cup (ids \X {c})
Others(index, c, i) == \E e \in index : e[1] = i /\ e[2] # c

Notify(told) ==   \* told[c]: what is news to c
  queue' = [c \in Conns |-> IF conn[c].end = "open" THEN queue[c] \o SetToSeq(told[c]) ELSE queue[c]]

(* write, on a goroutine of its own, in the order it was queued.           *)
Writes(c) == queue[c] # <<>> /\ queue' = [queue EXCEPT ![c] = Tail(@)]

Announce(c, added) ==
  /\ announced' = With(announced, c, added)
  /\ Notify([d \in Conns |-> IF d = c THEN {} ELSE added \cap Mine(subscribed, d)])
  /\ UNCHANGED subscribed

Subscribe(c, added) ==
  /\ subscribed' = With(subscribed, c, added)
  /\ Notify([d \in Conns |-> IF d = c THEN {i \in added : Others(announced, c, i)} ELSE {}])
  /\ UNCHANGED announced

Handle(c, m) ==
  LET mine == Mine(IF m.kind = "announce" THEN announced ELSE subscribed, c)
      most == IF m.kind = "announce" THEN Announcements ELSE Subscriptions
  IN  IF m.kind \in {"announce", "subscribe"} /\ Cardinality(mine \cup m.ids) > most THEN Violated(c)
      ELSE /\ conn' = Taken(c) /\ UNCHANGED <<now, counted, blocks, found, violations>>
           /\ \/ m.kind = "announce" /\ Announce(c, m.ids \ mine)
              \/ m.kind = "subscribe" /\ Subscribe(c, m.ids \ mine)
              \/ m.kind = "withdraw" /\ announced' = Drop(announced, c, m.ids)
                                     /\ UNCHANGED <<subscribed, queue>>
              \/ m.kind = "unsubscribe" /\ subscribed' = Drop(subscribed, c, m.ids)
                                        /\ UNCHANGED <<announced, queue>>

(* next and read: too long a message, or one that means nothing, is a      *)
(* violation, as is one that finds the bucket empty.                       *)
Unlawful(m) == m.kind = "nonsense" \/ Cardinality(m.ids) > Largest

Read(c) ==   \* also what came before the connection ended
  /\ conn[c].stage = "reading" /\ heard[c] # <<>> /\ heard' = [heard EXCEPT ![c] = Tail(@)]
  /\ LET m == Head(heard[c])
     IN  IF Unlawful(m) \/ Filled(c) < 1 THEN Violated(c) ELSE Handle(c, m)

-----------------------------------------------------------------------------
(* ADR 0021: an address has so many connections at once, those still to be *)
(* released included, whichever way each of them ended.                    *)
CountedWhileOpen ==
  \A a \in Addresses :
    /\ counted[a] = Cardinality({c \in Conns : Counted(c) /\ conn[c].from = a})
    /\ counted[a] <= PerAddress

(* ADR 0021: an address is blocked "for one minute the first time, twice   *)
(* as long each time after, up to one hour. Its offences are forgotten a   *)
(* day after the last one", said here of all the times it offended.        *)
Together(log) == Max({1} \cup {i \in 2..Len(log) : log[i] - log[i - 1] >= Forgiven})
BlockedAsLong ==
  \A a \in Addresses :
    LET log == violations[a]
        repeated == Len(log) - Together(log)
    IN  IF blocks[a] = NoBlock THEN log # <<>> => now - Last(log) >= Forgiven
        ELSE /\ blocks[a].last = Last(log)
             /\ blocks[a].until = Last(log) + Min({FirstBlock * 2^repeated, LongestBlock})

(* Nobody is refused by more, or let in by less, than what they did.       *)
LimitsAreKept == CountedWhileOpen /\ BlockedAsLong

Serves(c) == Read(c) \/ Forget(c) \/ Release(c)
=============================================================================
