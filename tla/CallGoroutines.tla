--------------------------- MODULE CallGoroutines ---------------------------
(***************************************************************************)
(* The goroutines of one device that a call passes through, and what they  *)
(* wait for: internal/calls over internal/peers and internal/spaces, as    *)
(* internal/app/network.go puts them together.                             *)
(*                                                                         *)
(* The Manager of the connections does all its work on one goroutine, from *)
(* a channel with room for Capacity; the calls' observers run on it, and   *)
(* Send is work that its caller waits for.  The calls keep their state     *)
(* under a mutex, which the interface, the ticker and the Manager's        *)
(* goroutine take.  Whether somebody is in a voice channel is asked of the *)
(* spaces' goroutine, and waited for, under that mutex.                    *)
(***************************************************************************)
EXTENDS Naturals, Sequences

CONSTANTS
  Jobs,       \* what may be begun: by the interface, the ticker, the spaces, or from outside
  Capacity,   \* the room in the Manager's channel (256 in the code)
  MaxJobs     \* bound: how much is begun

Asked == {"call", "accept", "hang"}        \* by the person
Come == {"ready", "lost", "ring", "accepted", "ended"}   \* from the connections
Threads == {"manager", "interface", "ticker", "spaces"}

ASSUME GoroutinesAssumption ==
  /\ Jobs \subseteq Asked \cup Come \cup {"expire", "spread"}
  /\ Capacity \in Nat \ {0} /\ MaxJobs \in Nat

VARIABLES
  work,     \* what waits in the Manager's channel
  at,       \* at[t]: where each goroutine is
  job,      \* job[t]: what it is doing
  lock,     \* who holds the calls' mutex, if anybody
  call,     \* the call there is
  connected,    \* whether the calls take the other to be connected
  wanted,   \* whether the connection is wanted for a call
  begun     \* how much was begun, for the bound

goroutines == <<work, at, job, lock, call, connected, wanted, begun>>

ThereIsACall == call # "none"

Item(kind, from) == [kind |-> kind, from |-> from]

(* do: whoever adds work waits for room.                                   *)
Adds(items) == Len(work) + Len(items) <= Capacity /\ work' = work \o items

Goes(t, place) == at' = [at EXCEPT ![t] = place]

InitGoroutines ==
  /\ work = <<>>
  /\ at = [t \in Threads |-> "rest"] /\ job = [t \in Threads |-> "none"]
  /\ lock = "nobody" /\ call = "none"
  /\ connected = FALSE /\ wanted = FALSE /\ begun = 0

-----------------------------------------------------------------------------
(* What is begun.                                                          *)

(* A connection reports something, which waits for the Manager.            *)
Arrive(kind) ==
  /\ kind \in Come \cap Jobs /\ begun < MaxJobs /\ begun' = begun + 1
  /\ Adds(<<Item(kind, "nobody")>>)
  /\ UNCHANGED <<at, job, lock, call, connected, wanted>>

Begin(t, j) ==
  /\ j \in Jobs /\ at[t] = "rest" /\ begun < MaxJobs /\ begun' = begun + 1
  /\ job' = [job EXCEPT ![t] = j]
  /\ UNCHANGED <<lock, call, connected, wanted>>

BeginCalls(t, j) == Begin(t, j) /\ Goes(t, "locking") /\ UNCHANGED work

(* The spaces send somebody something, as replicating them takes.          *)
Spread == Begin("spaces", "spread") /\ Goes("spaces", "sending") /\ Adds(<<Item("send", "spaces")>>)

(* The Manager takes its next work.  An observer of the calls waits for    *)
(* the mutex; a message sent lets its sender go on.                        *)
Take ==
  /\ at["manager"] = "rest" /\ work # <<>>
  /\ work' = Tail(work)
  /\ LET next == Head(work)
     IN  IF next.kind \in Come
         THEN /\ Goes("manager", "locking") /\ job' = [job EXCEPT !["manager"] = next.kind]
              /\ UNCHANGED wanted
         ELSE /\ at' = IF next.kind = "send" THEN [at EXCEPT ![next.from] = "sent"] ELSE at
              /\ wanted' = CASE next.kind = "want" -> TRUE
                             [] next.kind = "release" -> FALSE
                             [] OTHER -> wanted
              /\ UNCHANGED job
  /\ UNCHANGED <<lock, call, connected, begun>>

-----------------------------------------------------------------------------
(* What the calls do, under their mutex.                                   *)

Lock(t) ==
  /\ at[t] = "locking" /\ lock = "nobody"
  /\ lock' = t /\ Goes(t, "inside")
  /\ UNCHANGED <<work, job, call, connected, wanted, begun>>

Inside(t, jobs) == at[t] = "inside" /\ job[t] \in jobs
Unlock(t) == lock' = "nobody" /\ Goes(t, "rest")

(* Sends: the message is added to the Manager's work, and waited for.      *)
Sends(t) ==
  /\ Adds(<<Item("send", t)>>) /\ Goes(t, "sending")
  /\ UNCHANGED <<job, lock, call, wanted, begun>>

EndsHolding(t) ==   \* a mistake: the connection is not let go of
  /\ call' = "none" /\ Unlock(t)
  /\ UNCHANGED <<work, job, connected, wanted, begun>>

EndsCall(t) ==
  /\ call' = "none" /\ Adds(<<Item("release", t)>>) /\ Unlock(t)
  /\ UNCHANGED <<job, connected, wanted, begun>>

\* a mistake: an early return that keeps the mutex
NothingLocked(t) == Goes(t, "rest") /\ UNCHANGED <<work, job, lock, call, connected, wanted, begun>>

NothingMore(t) == Unlock(t) /\ UNCHANGED <<work, job, call, connected, wanted, begun>>

(* busy: another call, or else a seat in a voice channel, which the spaces *)
(* are asked for and answer once they have nothing else to do.             *)
AskBusy(t) ==
  /\ Inside(t, {"call", "ring"})
  /\ Goes(t, IF ThereIsACall THEN "busy" ELSE "seating")
  /\ UNCHANGED <<work, job, lock, call, connected, wanted, begun>>

Seat(t) ==
  /\ at[t] = "seating" /\ at["spaces"] = "rest"
  /\ \E answer \in {"busy", "free"} : Goes(t, answer)
  /\ UNCHANGED <<work, job, lock, call, connected, wanted, begun>>

(* Somebody busy refuses to call, and tells who calls them so.             *)
Refuse(t) ==
  /\ at[t] = "busy"
  /\ IF job[t] = "ring" THEN Sends(t) /\ UNCHANGED connected ELSE NothingMore(t)

(* A call made rings at once if the other is connected; one that comes     *)
(* rings here.                                                             *)
Ring(t) ==
  /\ at[t] = "free"
  /\ call' = IF job[t] = "call" THEN "calling" ELSE "called"
  /\ IF job[t] = "call" /\ connected
     THEN Adds(<<Item("want", t), Item("send", t)>>) /\ Goes(t, "sending") /\ UNCHANGED lock
     ELSE Adds(<<Item("want", t)>>) /\ Unlock(t)
  /\ UNCHANGED <<job, connected, wanted, begun>>

(* Ready: a call to whoever connected rings now.                           *)
Ready(t) ==
  /\ Inside(t, {"ready"}) /\ connected' = TRUE
  /\ IF call = "calling" THEN Sends(t) ELSE Unlock(t) /\ UNCHANGED <<work, job, call, wanted, begun>>

Lost(t) ==
  /\ Inside(t, {"lost"}) /\ connected' = FALSE
  /\ IF call = "active"
     THEN call' = "none" /\ Adds(<<Item("release", t)>>)
     ELSE UNCHANGED <<call, work>>
  /\ Unlock(t)
  /\ UNCHANGED <<job, wanted, begun>>

CallAccepted(t) ==
  /\ Inside(t, {"accepted"}) /\ Unlock(t)
  /\ call' = IF call = "calling" THEN "active" ELSE call
  /\ UNCHANGED <<work, job, connected, wanted, begun>>

CallEnded(t) == Inside(t, {"ended"}) /\ IF ThereIsACall THEN EndsCall(t) ELSE NothingMore(t)

(* answer, Hang and expire send their step first, where there is a call.   *)
HasStep(t) ==
  \/ job[t] = "accept" /\ call = "called"
  \/ job[t] = "hang" /\ ThereIsACall
  \/ job[t] = "expire" /\ call = "calling"

TakeStep(t) ==
  /\ Inside(t, Asked \cup {"expire"}) /\ job[t] # "call"
  /\ IF HasStep(t) THEN Sends(t) /\ UNCHANGED connected
     ELSE IF job[t] = "expire" /\ call = "called" THEN EndsCall(t)
     ELSE NothingMore(t)

(* What was sent is sent, and the rest follows.                            *)
Finish(t) ==
  /\ at[t] = "sent"
  /\ CASE t = "spaces" ->
            Goes(t, "rest") /\ UNCHANGED <<work, job, lock, call, connected, wanted, begun>>
       [] job[t] \in {"hang", "expire"} -> EndsCall(t)
       [] job[t] = "accept" ->
            Unlock(t) /\ call' = "active" /\ UNCHANGED <<work, job, connected, wanted, begun>>
       [] OTHER -> NothingMore(t)

Proceed(t) ==
  Lock(t) \/ AskBusy(t) \/ Seat(t) \/ Refuse(t) \/ Ring(t) \/ Ready(t) \/ Lost(t)
    \/ CallAccepted(t) \/ CallEnded(t) \/ TakeStep(t) \/ Finish(t)

NextGoroutines ==
  \/ \E kind \in Come : Arrive(kind)
  \/ \E j \in Asked : BeginCalls("interface", j)
  \/ BeginCalls("ticker", "expire")
  \/ Spread \/ Take
  \/ \E t \in Threads : Proceed(t)

SpecGoroutines == InitGoroutines /\ [][NextGoroutines]_goroutines

(* Every goroutine that can go on does.                                    *)
FairGoroutines ==
  SpecGoroutines /\ WF_goroutines(Take) /\ \A t \in Threads : WF_goroutines(Proceed(t))

-----------------------------------------------------------------------------
Items == [kind : (Come \cap Jobs) \cup {"send", "want", "release"}, from : Threads \cup {"nobody"}]

TypeOKGoroutines ==
  /\ work \in Seq(Items) /\ Len(work) <= Capacity
  /\ at \in [Threads -> {"rest", "locking", "inside", "seating", "busy", "free", "sending", "sent"}]
  /\ job \in [Threads -> Jobs \cup {"none"}]
  /\ lock \in Threads \cup {"nobody"} /\ call \in {"none", "calling", "called", "active"}
  /\ connected \in BOOLEAN /\ wanted \in BOOLEAN /\ begun \in 0..MaxJobs

(* The connection is wanted exactly while there is a call, once what is    *)
(* queued is done: Want and Release are queued in the order the calls      *)
(* began and ended, whichever goroutine they were on.                      *)
Asking == {i \in DOMAIN work : work[i].kind \in {"want", "release"}}
WillBeWanted ==
  \/ Asking = {} /\ wanted
  \/ \E i \in Asking : work[i].kind = "want" /\ \A j \in Asking : j <= i
WantedWhileThereIsACall == lock = "nobody" => (WillBeWanted <=> ThereIsACall)

(* While the Manager goes on, so does everybody: nobody else waits for     *)
(* ever, and neither the mutex nor the spaces alone strand anybody.        *)
Waits(t) == at[t] # "rest"
OnlyTheManagerStrandsAnybody ==
  ([]<>~Waits("manager")) => \A t \in Threads : Waits(t) ~> ~Waits(t)

(* calls.go: the service's "methods may be called from any goroutine" -    *)
(* the Manager's too, where network.go calls its observers -, and return.  *)
EveryCallReturns == \A t \in Threads : Waits(t) ~> ~Waits(t)
=============================================================================
