---------------------------- MODULE SpaceContent ----------------------------
(***************************************************************************)
(* What members of a space keep and pass on besides its operations: the    *)
(* entries of its channels, the files they announce and the secrets its    *)
(* epochs are found under.  internal/spaces: the service's handlers, with  *)
(* epoch.go, files.go and fetch.go; SpaceMessages has what a store does    *)
(* with entries.                                                           *)
(*                                                                         *)
(* SpaceReplication has how operations travel, whichever are made at once. *)
(* Here they come one after another, each of somebody who knows those      *)
(* before it, and are told apart by their place.  Services, queues and     *)
(* connections are SpaceReplication's, with a channel of their own for the *)
(* pieces of files; a piece received before a connection ends is handled   *)
(* before it does.  Pieces are genuine.                                    *)
(***************************************************************************)
EXTENDS SpaceMessages

CONSTANTS
  Occasions,   \* what may happen, of which one is tried: the operations made and the
               \* space after each, how the secrets of each hash, who may write what
               \* where, the identifiers of the entries, and so how many, how far
               \* clocks go, who fetches files, which pairs connect of themselves,
               \* and how many connections end
  Pieces,      \* the pieces of a file
  Span         \* how many of them are asked for at once

(* The space after the first operations of a story, none and all included. *)
Course(founded, story) ==
  LET after[n \in 0..Len(story)] == IF n = 0 THEN founded ELSE Apply(after[n - 1], story[n])
  IN  after

ASSUME ContentAssumption ==
  /\ Ids \subseteq Nat
  /\ Pieces \in Nat \ {0} /\ Span \in Nat \ {0}
  /\ \A o \in Occasions :
       /\ o.story \in Seq(Operations) /\ o.after = Course(o.after[0], o.story)
       /\ o.hash \in [People -> Nat] /\ IsInjective(o.hash)
       /\ o.writers \subseteq People \X EntryKinds \X Ids /\ o.fetchers \subseteq People
       /\ o.ids \in Seq(Nat) /\ IsInjective(o.ids) /\ o.wall \in Nat /\ o.breaks \in Nat
       /\ \A l \in o.links : l \subseteq People /\ Cardinality(l) = 2

VARIABLES
  occasion,   \* what may happen
  knows,      \* the operations each knows, by their places
  holds,      \* the entries each holds
  wiped,      \* those of them whose text is wiped
  files,      \* files[p]: what p holds of each file it has a record of, and whether it wants it
  secrets,    \* the secrets each holds
  ready,      \* ready[p]: those p's service takes to be connected
  joined,     \* joined[p]: those that said to p what they hold of the space
  asks,       \* asks[p]: of whom p asks each file, up to where, and who does not hold it
  fetching,   \* fetching[p]: the authors p connects to for their files
  up,         \* the pairs connected
  inbox,      \* inbox[p][q]: what of q's waits in p's queue or on its way there
  pieces,     \* pieces[p][q]: the same of the channel for files
  breaks      \* how many connections ended, for the bound

store == <<knows, holds, wiped, files, secrets>>
service == <<ready, joined, asks, fetching>>
links == <<up, inbox, pieces, breaks>>
vars == <<occasion, store, service, links>>

-----------------------------------------------------------------------------
(* The space as p holds it: after the operations it knows without any      *)
(* missing before them.                                                    *)
After(n) == occasion.after[n]
Places == DOMAIN occasion.story
Known(ops) == Highest({n \in Places : 1..n \subseteq ops})
View(p) == After(Known(knows[p]))

MeetsIn(s, p, q) == Rank(s, p) # None /\ Rank(s, q) # None

(* Epoch: the latest operation applied that may have revoked access.       *)
Epoch(n) ==
  Highest({k \in 1..n : occasion.story[k].kind \in Revokes /\ Allowed(After(k - 1), occasion.story[k])})

(* current: the secret of the epoch every member settles on, of those of   *)
(* somebody who administers the space: the one that hashes lowest.         *)
SecretsOf(held, epoch) == {x \in held : x.epoch = epoch}
Counting(held, n) == {x \in SecretsOf(held, Epoch(n)) : Rank(After(n), x.author) >= Administrator}

Current(held, n) == {x \in Counting(held, n) : \A y \in Counting(held, n) : x.hash <= y.hash}

(* Rotate: the secret of the epoch as it is, or a new one of one who may.  *)
Rotated(p, held, n) ==
  IF Current(held, n) # {} \/ Rank(After(n), p) < Administrator THEN held
  ELSE held \cup {[epoch |-> Epoch(n), author |-> p, hash |-> occasion.hash[p]]}

-----------------------------------------------------------------------------
(* Messages.                                                               *)
Msg(type, what) == [type |-> type, what |-> what]
Came == Msg("ready", 0)
Went == Msg("lost", 0)
OpMessage(n) == Msg("space-operation", n)
EntryMessage(e, erased) == Msg("group-message", [entry |-> e, wiped |-> e \in erased])
SecretMessage(x) == Msg("space-secret", x)
Request(f, offset) ==
  Msg("file-request", [file |-> f, offset |-> offset,
                         length |-> IF Pieces - offset < Span THEN Pieces - offset ELSE Span])
Missing(f) == Msg("file-missing", f)

Connected(p, q) == {p, q} \in up
Nothing == [q \in People |-> <<>>]

(* Sent(box, p, out): the inboxes once p sent each q the messages out[q].  *)
Sent(box, p, out) ==
  [q \in People |-> [box[q] EXCEPT ![p] = IF Connected(p, q) THEN @ \o out[q] ELSE @]]

Taken(p, q) == [inbox EXCEPT ![p][q] = Tail(@)]
Foremost(p, q, type) == inbox[p][q] # <<>> /\ Head(inbox[p][q]).type = type

(* sync: what p holds of a space shared with q.                            *)
Syncs(p, q) ==
  IF MeetsIn(View(p), p, q)
  THEN <<Msg("space-sync", knows[p]), Msg("space-holding", HeldSoFar(holds[p]))>> ELSE <<>>

(* share: the secret of the epoch, for a member.                           *)
Shared(q, held, n) == IF Rank(After(n), q) = None THEN {} ELSE Current(held, n)

SharesWithAnyone(q, held, n) ==   \* a mistake: member or not
  [i \in 1..Cardinality(Current(held, n)) |-> SecretMessage(CHOOSE x \in Current(held, n) : TRUE)]

Shares(q, held, n) ==
  LET shared == SetToSeq(Shared(q, held, n)) IN [i \in DOMAIN shared |-> SecretMessage(shared[i])]

-----------------------------------------------------------------------------
(* Files.  pull asks for the next span of each file wanted and not whole,  *)
(* of anybody connected who may read its channel and did not say they do   *)
(* not hold it; else its author is connected to.                           *)
Nobody == {}
NotAsked == [peer |-> Nobody, end |-> 0, tried |-> {}]
Asking(asked, f) == IF f \in DOMAIN asked THEN asked[f] ELSE NotAsked
Recorded(wanted, held) == [wanted |-> wanted, held |-> held]
Whole(stored, f) == f \in DOMAIN stored /\ stored[f].held = Pieces
Wanted(stored) == {f \in DOMAIN stored : stored[f].wanted /\ ~Whole(stored, f)}

AsksReaders(s, f, a, connected) ==
  {q \in connected : q \notin a.tried /\ Sees(s, q, f[2])}

(* Whom p asks anew, for each file it does not wait for.                   *)
Waits(asked, connected, f) == Asking(asked, f).peer \cap connected # {}

AskedAnew(s, stored, asked, connected) ==
  LET needed == {f \in Wanted(stored) : ~Waits(asked, connected, f)}
      readers(f) == AsksReaders(s, f, Asking(asked, f), connected)
  IN  {c \in [needed -> {{q} : q \in connected} \cup {Nobody}] :
         \A f \in needed : IF readers(f) = {} THEN c[f] = Nobody ELSE \E q \in readers(f) : c[f] = {q}}

Requests(chosen, stored, q) ==
  LET of == SetToSeq({f \in DOMAIN chosen : chosen[f] = {q}})
  IN  [i \in DOMAIN of |-> Request(of[i], stored[of[i]].held)]

Pull(p, s, stored, asked, connected, box) ==
  \E chosen \in AskedAnew(s, stored, asked, connected) :
    /\ inbox' = Sent(box, p, [q \in People |-> Requests(chosen, stored, q)])
    /\ asks' = [asks EXCEPT ![p] =
         [f \in DOMAIN asked \cup DOMAIN chosen |->
            IF f \notin DOMAIN chosen THEN asked[f]
            ELSE [Asking(asked, f) EXCEPT !.peer = chosen[f],
                    !.end = IF chosen[f] = Nobody THEN @ ELSE stored[f].held + Request(f, stored[f].held).what.length]]]
    /\ fetching' = [fetching EXCEPT ![p] =
         {f[1] : f \in {g \in DOMAIN chosen : /\ chosen[g] = Nobody
                                              /\ g[1] \notin Asking(asked, g).tried \cup connected}}]

DoesNotPull(box) == inbox' = box /\ UNCHANGED <<asks, fetching>>

(* What q is asked no more is asked of another.                            *)
AskedBadly(asked, f) ==
  [asked EXCEPT ![f] = [@ EXCEPT !.tried = @ \cup asked[f].peer, !.peer = Nobody]]

(* record and unfile, of the entries held and those that delete them.      *)
Records(stored, entries) ==
  [f \in DOMAIN stored \cup {Id(e) : e \in entries} |->
     IF f \in DOMAIN stored THEN stored[f]
     ELSE Recorded(\E e \in entries : Id(e) = f /\ e.kind = "picture", 0)]

Unfile(stored, s, entries) ==
  LET gone == {Id(m) : m \in Unfiled(s, entries)}
  IN  [f \in DOMAIN stored |-> IF f \in gone THEN Recorded(FALSE, 0) ELSE stored[f]]

-----------------------------------------------------------------------------
(* It begins with those who connect of themselves connected, each having   *)
(* said what they hold: of members, the secret the space began with.       *)
Linked(p) == {q \in People : {p, q} \in occasion.links}

Init ==
  /\ occasion \in Occasions
  /\ knows = [p \in People |-> {}]
  /\ holds = [p \in People |-> {}] /\ wiped = [p \in People |-> {}]
  /\ files = [p \in People |-> <<>>]
  /\ secrets = [p \in People |-> IF Rank(After(0), p) = None THEN {}
                                 ELSE {[epoch |-> 0, author |-> Creator, hash |-> occasion.hash[Creator]]}]
  /\ ready = [p \in People |-> Linked(p)] /\ joined = [p \in People |-> Linked(p)]
  /\ asks = [p \in People |-> <<>>] /\ fetching = [p \in People |-> {}]
  /\ up = occasion.links /\ breaks = 0
  /\ inbox = [p \in People |-> Nothing] /\ pieces = [p \in People |-> Nothing]

(* applied: an operation just kept is passed on; if it may have revoked    *)
(* access, the secret of the epoch is made or found, and shared.           *)
Removes(n, q) == occasion.story[n].kind = "remove-member" /\ occasion.story[n].member = q

Applied(p, from, n, box) ==
  \E known \in {Known(knows'[p])} : \E view \in {After(known)} :
    LET members == {q \in joined[p] : Rank(view, q) # None}
        told == {q \in joined[p] \ from : q \in members \/ Removes(n, q)}
        op(q) == IF q \in told THEN <<OpMessage(n)>> ELSE <<>>
        revokes == occasion.story[n].kind \in Revokes
    IN  \E held \in {IF revokes THEN Rotated(p, secrets[p], known) ELSE secrets[p]} :
          /\ joined' = [joined EXCEPT ![p] = members \cup (@ \cap from)]
          /\ secrets' = [secrets EXCEPT ![p] = held]
          /\ inbox' = Sent(box, p, [q \in People |->
               op(q) \o IF revokes /\ q \in members THEN Shares(q, held, known) ELSE <<>>])

(* The next operation is made by one who knows all those before it.        *)
Operate(p) ==
  LET n == Known(UNION {knows[q] : q \in People}) + 1
  IN  /\ n \in Places /\ occasion.story[n].author = p /\ Known(knows[p]) = n - 1
      /\ Allowed(View(p), occasion.story[n])
      /\ knows' = [knows EXCEPT ![p] = @ \cup {n}]
      /\ Applied(p, {}, n, inbox)
  /\ UNCHANGED <<occasion, holds, wiped, files, ready, asks, fetching, up, pieces, breaks>>

(* spread: an entry, to those joined who see its channel but its author.   *)
SpreadToAll(p, from, e, erased) ==   \* a mistake: whoever sees the channel
  [q \in People |-> IF q \in joined[p] \ (from \cup {e.author}) THEN <<EntryMessage(e, erased)>> ELSE <<>>]

Spread(p, from, e, erased) ==
  [q \in People |->
     IF q \in joined[p] \ (from \cup {e.author}) /\ Sees(View(p), q, e.channel)
     THEN <<EntryMessage(e, erased)>> ELSE <<>>]

(* An entry is made, with what it supersedes and what it says of files.    *)
(* For the bound, each but reactions once.                                 *)
Made == UNION {holds[p] : p \in People}

Makable(p, kinds) ==
  {w \in occasion.writers : /\ w[1] = p /\ w[2] \in kinds /\ Makes(View(p), p, w[3], w[2])
                            /\ Cardinality(Made) < Len(occasion.ids)}

About(p, w) ==
  IF w[2] \in {"text"} \cup Attached THEN {NoTarget}
  ELSE {Id(m) : m \in {e \in holds[p] :
          Allows(View(p), {d \in holds[p] : d.channel = w[3]}, wiped[p], p, w[2], Id(e))}}

Entries(p, kinds) ==
  LET made(w, a, on, physical) ==
        Written(holds[p], p, w[3], w[2], a, on, physical, occasion.ids[Cardinality(Made) + 1])
          @@ ("knew" :> [q \in People |-> Known(knows[q])])   \* for the properties
      may(w, on) ==
        w[2] # "reaction" => ~on /\ \A d \in Made : <<p, w[2], w[3]>> # <<d.author, d.kind, d.channel>>
  IN  UNION {{made(w, a, on, physical) : a \in About(p, w), on \in {b \in BOOLEAN : may(w, b)},
                                         physical \in 0..occasion.wall} : w \in Makable(p, kinds)}

(* Store.Write, and Store.Attach, whose file is held whole.                *)
Stores(p, e, described) ==
  LET kept == holds[p] \cup {e}
  IN  /\ holds' = [holds EXCEPT ![p] = kept]
      /\ wiped' = [wiped EXCEPT ![p] = @ \cup Superseded(View(p), kept)]
      /\ files' = [files EXCEPT ![p] = Unfile(described, View(p), kept)]

Attaches(stored, e) == [Records(stored, {e}) EXCEPT ![Id(e)].held = Pieces]

Write(p) ==
  /\ \E e \in Entries(p, EntryKinds \ Attached) :
       Stores(p, e, files[p]) /\ inbox' = Sent(inbox, p, Spread(p, {}, e, {}))
  /\ UNCHANGED <<occasion, knows, secrets, service, up, pieces, breaks>>

Attach(p) ==
  /\ \E e \in Entries(p, Attached) :
       Stores(p, e, Attaches(files[p], e)) /\ inbox' = Sent(inbox, p, Spread(p, {}, e, {}))
  /\ UNCHANGED <<occasion, knows, secrets, service, up, pieces, breaks>>

Wants(stored, f) == [stored EXCEPT ![f].wanted = TRUE]

Fetch(p) ==
  /\ p \in occasion.fetchers
  /\ \E f \in DOMAIN files[p] :
       LET stored == Wants(files[p], f)
       IN  /\ ~files[p][f].wanted /\ ~Whole(files[p], f)
           /\ files' = [files EXCEPT ![p] = stored]
           /\ Pull(p, View(p), stored, asks[p], ready[p], inbox)
  /\ UNCHANGED <<occasion, knows, holds, wiped, secrets, ready, joined, up, pieces, breaks>>

-----------------------------------------------------------------------------
(* q connected: what p holds is said, and q may hold files it did not.     *)
HandleReady(p, q) ==
  /\ Foremost(p, q, "ready")
  /\ ready' = [ready EXCEPT ![p] = @ \cup {q}]
  /\ joined' = [joined EXCEPT ![p] = @ \ {q}]
  /\ LET box == Sent(Taken(p, q), p, [Nothing EXCEPT ![q] = Syncs(p, q)])
         asked == [f \in DOMAIN asks[p] |-> [asks[p][f] EXCEPT !.tried = @ \ {q}]]
     IN  Pull(p, View(p), files[p], asked, ready'[p], box)
  /\ UNCHANGED <<occasion, store, up, pieces, breaks>>

HandleLost(p, q) ==
  /\ Foremost(p, q, "lost")
  /\ ready' = [ready EXCEPT ![p] = @ \ {q}]
  /\ inbox' = Taken(p, q)
  /\ UNCHANGED <<occasion, store, joined, asks, fetching, up, pieces, breaks>>

(* q said which operations it knows: it is sent those it lacks, or the one *)
(* that removed it, and the secret of the epoch.                           *)
Lacks(p, q, known) ==
  LET missing == {n \in 1..Known(knows[p]) : n \notin known}
      removals == {n \in 1..Known(knows[p]) : Removes(n, q) /\ Allowed(After(n - 1), occasion.story[n])}
  IN  IF Rank(View(p), q) # None THEN missing ELSE {n \in removals : n = Highest(removals)}

HandleSync(p, q) ==
  /\ Foremost(p, q, "space-sync")
  /\ joined' = [joined EXCEPT ![p] = @ \cup {q}]
  /\ LET lacks == InOrder(Lacks(p, q, Head(inbox[p][q]).what), <)
         out == [i \in DOMAIN lacks |-> OpMessage(lacks[i])] \o Shares(q, secrets[p], Known(knows[p]))
     IN  inbox' = Sent(Taken(p, q), p, [Nothing EXCEPT ![q] = out])
  /\ UNCHANGED <<occasion, store, ready, asks, fetching, up, pieces, breaks>>

HandleHolding(p, q) ==
  /\ Foremost(p, q, "space-holding")
  /\ LET lacks == Supply(View(p), q, holds[p], Head(inbox[p][q]).what)
         out == [i \in DOMAIN lacks |-> EntryMessage(lacks[i], wiped[p])]
     IN  inbox' = Sent(Taken(p, q), p, [Nothing EXCEPT ![q] = out])
  /\ UNCHANGED <<occasion, store, service, up, pieces, breaks>>

HandleOperation(p, q) ==
  /\ Foremost(p, q, "space-operation")
  /\ LET n == Head(inbox[p][q]).what
     IN  IF n \in knows[p]
         THEN inbox' = Taken(p, q) /\ UNCHANGED <<knows, secrets, joined>>
         ELSE /\ knows' = [knows EXCEPT ![p] = @ \cup {n}]
              /\ Applied(p, {q}, n, Taken(p, q))
  /\ UNCHANGED <<occasion, holds, wiped, files, ready, asks, fetching, up, pieces, breaks>>

(* A secret is kept whichever epoch it is of, and passed on if it is now   *)
(* the one of this, though another was before.                             *)
FirstNews(p, held, n) ==   \* a mistake: only the first of an epoch
  IF Current(secrets[p], n) = {} THEN Current(held, n) ELSE {}

News(p, held, n) == Current(held, n) \ Current(secrets[p], n)

HandleSecret(p, q) ==
  /\ Foremost(p, q, "space-secret")
  /\ LET held == secrets[p] \cup {Head(inbox[p][q]).what}
         known == Known(knows[p])
         out(r) == IF News(p, held, known) # {} /\ r \in joined[p] \ {q} THEN Shares(r, held, known) ELSE <<>>
     IN  /\ secrets' = [secrets EXCEPT ![p] = held]
         /\ inbox' = Sent(Taken(p, q), p, [r \in People |-> out(r)])
  /\ UNCHANGED <<occasion, knows, holds, wiped, files, service, up, pieces, breaks>>

(* An entry of one who may make it, as the space stands here, is kept if   *)
(* it is new, wipes what it supersedes, and is passed on.                  *)
AcceptsAbout(p, e) ==   \* a mistake: if what it is about is held
  /\ Makes(View(p), e.author, e.channel, e.kind) /\ e \notin holds[p]
  /\ e.target = NoTarget \/ \E m \in holds[p] : Id(m) = e.target

Accepts(p, e) == Makes(View(p), e.author, e.channel, e.kind) /\ e \notin holds[p]

HandleEntry(p, q) ==
  /\ Foremost(p, q, "group-message")
  /\ LET e == Head(inbox[p][q]).what.entry
         erased == {d \in {e} : Head(inbox[p][q]).what.wiped}
         kept == holds[p] \cup {e}
         compacts == e.kind \in {"edit", "deletion"}
         recorded == Records(files[p], {d \in {e} \ erased : e.kind \in Attached})
         stored == IF compacts THEN Unfile(recorded, View(p), kept) ELSE recorded
         box == Sent(Taken(p, q), p, Spread(p, {q}, e, erased))
     IN  IF ~Accepts(p, e)
         THEN inbox' = Taken(p, q) /\ UNCHANGED <<holds, wiped, files, asks, fetching>>
         ELSE /\ holds' = [holds EXCEPT ![p] = kept]
              /\ wiped' = [wiped EXCEPT ![p] =
                   @ \cup erased \cup (IF compacts THEN Superseded(View(p), kept) ELSE {})]
              /\ files' = [files EXCEPT ![p] = stored]
              /\ IF e.kind \in Attached \cup {"deletion"}
                 THEN Pull(p, View(p), stored, asks[p], ready[p], box) ELSE DoesNotPull(box)
  /\ UNCHANGED <<occasion, knows, secrets, ready, joined, up, pieces, breaks>>

(* serve: the span asked for, of a file held whole, to who may read it.    *)
Serves(p, q, f) == Whole(files[p], f) /\ Sees(View(p), q, f[2])

HandleRequest(p, q) ==
  /\ Foremost(p, q, "file-request")
  /\ LET r == Head(inbox[p][q]).what
         span == [i \in 1..r.length |-> [file |-> r.file, offset |-> r.offset + i - 1]]
     IN  IF Serves(p, q, r.file)
         THEN /\ pieces' = [pieces EXCEPT ![q][p] = IF Connected(p, q) THEN @ \o span ELSE @]
              /\ inbox' = Taken(p, q)
         ELSE /\ inbox' = Sent(Taken(p, q), p, [Nothing EXCEPT ![q] = <<Missing(r.file)>>])
              /\ UNCHANGED pieces
  /\ UNCHANGED <<occasion, store, service, up, breaks>>

TriesNoOther(p, f) == asks[p]   \* a mistake: who does not hold it is waited for

TriesAnother(p, f) == AskedBadly(asks[p], f)

HandleMissing(p, q) ==
  /\ Foremost(p, q, "file-missing")
  /\ LET f == Head(inbox[p][q]).what
     IN  IF Asking(asks[p], f).peer = {q}
         THEN Pull(p, View(p), files[p], TriesAnother(p, f), ready[p], Taken(p, q))
         ELSE DoesNotPull(Taken(p, q))
  /\ UNCHANGED <<occasion, store, ready, joined, up, pieces, breaks>>

(* arrived: a piece must be where the file stops.                          *)
Fits(stored, piece) == stored[piece.file].held = piece.offset
Arrived(stored, piece) == [stored EXCEPT ![piece.file].held = piece.offset + 1]

(* File: a piece of who is asked.                                          *)
HandlePiece(p, q) ==
  /\ pieces[p][q] # <<>>
  /\ pieces' = [pieces EXCEPT ![p][q] = Tail(@)]
  /\ LET piece == Head(pieces[p][q])
         f == piece.file
         asked == Asking(asks[p], f).peer = {q}
         fits == Fits(files[p], piece)
         stored == Arrived(files[p], piece)
         others == [g \in DOMAIN asks[p] \ {f} |-> asks[p][g]]
         pulls(now, asking) == files' = [files EXCEPT ![p] = now] /\ Pull(p, View(p), now, asking, ready[p], inbox)
     IN  CASE ~asked -> DoesNotPull(inbox) /\ UNCHANGED files
           [] asked /\ ~fits -> pulls(files[p], AskedBadly(asks[p], f))
           [] asked /\ fits /\ Whole(stored, f) -> pulls(stored, others)
           [] asked /\ fits /\ piece.offset + 1 \in asks[p][f].end..Pieces - 1 ->
                pulls(stored, [asks[p] EXCEPT ![f].peer = Nobody])
           [] OTHER -> files' = [files EXCEPT ![p] = stored] /\ DoesNotPull(inbox)
  /\ UNCHANGED <<occasion, knows, holds, wiped, secrets, ready, joined, up, breaks>>

-----------------------------------------------------------------------------
(* Two connect: neighbours, and whoever fetches of an author.              *)
Connect(p, q) ==
  /\ p # q /\ ~Connected(p, q) /\ ({p, q} \in occasion.links \/ q \in fetching[p])
  /\ up' = up \cup {{p, q}}
  /\ inbox' = [inbox EXCEPT ![p][q] = Append(@, Came), ![q][p] = Append(@, Came)]
  /\ UNCHANGED <<occasion, store, service, pieces, breaks>>

Began(box) == SelectLastInSeq(box, LAMBDA m : m = Came)
Cut(box) == {Append(SubSeq(box, 1, n), Went) : n \in Began(box)..Len(box)}

Disconnect(p, q) ==
  /\ Connected(p, q) /\ breaks < occasion.breaks
  /\ up' = up \ {{p, q}}
  /\ \E mine \in Cut(inbox[p][q]), theirs \in Cut(inbox[q][p]) :
       inbox' = [inbox EXCEPT ![p][q] = mine, ![q][p] = theirs]
  /\ pieces' = [pieces EXCEPT ![p][q] = <<>>, ![q][p] = <<>>]
  /\ breaks' = breaks + 1
  /\ UNCHANGED <<occasion, store, service>>

(* The application stops, its connections over, and starts again with its  *)
(* store.                                                                  *)
Restart(p) ==
  /\ occasion.breaks > 0 /\ \A l \in up : p \notin l
  /\ ready' = [ready EXCEPT ![p] = {}] /\ joined' = [joined EXCEPT ![p] = {}]
  /\ asks' = [asks EXCEPT ![p] = <<>>] /\ fetching' = [fetching EXCEPT ![p] = {}]
  /\ inbox' = [inbox EXCEPT ![p] = Nothing]
  /\ UNCHANGED <<occasion, store, up, pieces, breaks>>

Handle(p, q) ==
  \/ HandleReady(p, q) \/ HandleLost(p, q) \/ HandleSync(p, q) \/ HandleHolding(p, q)
  \/ HandleOperation(p, q) \/ HandleSecret(p, q) \/ HandleEntry(p, q)
  \/ HandleRequest(p, q) \/ HandleMissing(p, q)

Next ==
  \/ \E p \in People : Operate(p) \/ Write(p) \/ Attach(p) \/ Fetch(p) \/ Restart(p)
  \/ \E p, q \in People : Handle(p, q) \/ HandlePiece(p, q) \/ Connect(p, q) \/ Disconnect(p, q)

(* Services get through their queues, and pairs that connect of themselves *)
(* or to fetch connect again.                                              *)
Fairness ==
  \A p, q \in People : WF_vars(Handle(p, q)) /\ WF_vars(HandlePiece(p, q)) /\ WF_vars(Connect(p, q))

Spec == Init /\ [][Next]_vars
FairSpec == Spec /\ Fairness

-----------------------------------------------------------------------------
(* Who may read a channel, and an author who may write what they wrote,    *)
(* whichever operations of the story come.                                 *)
AllAlong == 0..Len(occasion.story)
ReadsAllAlong(p, c) == \A n \in AllAlong : Sees(After(n), p, c)
MayAllAlong(e) == \A n \in AllAlong : Makes(After(n), e.author, e.channel, e.kind)

Content(p, c) == {e \in holds[p] : e.channel = c /\ MayAllAlong(e)}
Shows(p, c) == Channel(View(p), Content(p, c), c, wiped[p])

TypeOK ==
  /\ occasion \in Occasions
  /\ \A p \in People :
       /\ knows[p] \subseteq Places /\ wiped[p] \subseteq holds[p]
       /\ ready[p] \cup joined[p] \cup fetching[p] \subseteq People
       /\ \A f \in DOMAIN files[p] : files[p][f].held \in 0..Pieces
       /\ \A f \in DOMAIN asks[p] : Cardinality(asks[p][f].peer) <= 1

(* Members who may read a channel all along come to hold the same of it    *)
(* and to show the same: whatever was lost with a connection, through whom *)
(* it came, in whichever order, and wherever its text was wiped first.     *)
ReadersAgree ==
  <>[](\A p, q \in People, c \in Ids : ReadsAllAlong(p, c) /\ ReadsAllAlong(q, c) =>
         Content(p, c) = Content(q, c) /\ Shows(p, c) = Shows(q, c))

(* Nobody is given an entry written after all the others knew them to be   *)
(* shut out of its channel, whatever they ask for and whoever it comes     *)
(* through, over connections that end too.  One other who did not know may *)
(* still pass it on.                                                       *)
ShutOutReadNothing ==
  \A q \in People : \A e \in holds[q] :
    \E p \in People \ {q} : \E n \in e.knew[p]..Len(occasion.story) : Sees(After(n), q, e.channel)

(* Members settle on one secret for the epoch, though administrators make  *)
(* theirs at once and secrets come before what began their epoch.          *)
SecretsSettle ==
  <>[](\A p, q \in People : MeetsIn(View(p), p, q) /\ MeetsIn(View(q), p, q) =>
         Current(secrets[p], Known(knows[p])) = Current(secrets[q], Known(knows[q]))
           /\ Current(secrets[p], Known(knows[p])) # {})

(* Whoever left or was removed holds the secret of no epoch since.         *)
RemovedLearnNothing ==
  \A q \in People : \A x \in secrets[q] :
    \E n \in x.epoch..Len(occasion.story) : Rank(After(n), q) # None

(* A file somebody wants and may read comes to be held whole, unless it is *)
(* deleted: of whoever holds it by the time they are asked, or in the end  *)
(* of its author.                                                          *)
WantedFilesArrive ==
  <>[](\A p \in People : \A m \in holds[p] :
         /\ Id(m) \in DOMAIN files[p] /\ files[p][Id(m)].wanted
         /\ DeletionsOf(View(p), holds[p], m) = {}
         => files[p][Id(m)].held = Pieces)
=============================================================================
