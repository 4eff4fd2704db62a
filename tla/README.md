# A formal model of Convia

Convia is a messenger without a server of its own: each person's device holds
their history, signs what they make, and passes it to the devices of others over
WebRTC connections, which a small rendezvous service helps to set up. This
directory holds TLA+ modules of the parts whose correctness rests on orders of
events that nobody can try out by hand, the TLC runs that check them on small
instances, and the proofs, checked by TLAPS, of what holds on every instance.

Contents: [the system](#the-system), [the modules](#the-modules),
[the runs](#the-runs), [fairness](#fairness), [the proofs](#the-proofs),
[where the code does not do what is said](#where-the-code-does-not-do-what-is-said),
[what is not modelled](#what-is-not-modelled), [the plan](#the-plan).

## The system

One process per device (Go), with a WebView that draws the interface and holds
the WebRTC connections. Each service below has **one goroutine** (`Run`), which
takes its work from a queue of its own; what the interface asks for runs on the
interface's goroutine, and either is handed over (`call`) or goes straight to the
database. The database is SQLite over one connection (`storage/db.go`,
`SetMaxOpenConns(1)`), so that a statement or a transaction is one step.

| Component (`internal/`) | State | Operations | Talks to | Hard |
|---|---|---|---|---|
| `spaces`: rules (`state.go`, `operation.go`, `epoch.go`) | ranks, roles held, mutes, channels, who may read and write in them, identifiers gone | `apply`, one case for each of 23 kinds of operation | called by the replication | long sequences of legal operations; who may act on whom |
| `spaces`: replication (`service.go`, `store.go`, `sync.go`, `invitation.go`) | operations kept, the state replayed of them, who is connected (`ready`), who said what it holds (`joined`), what waits for somebody away (`pending`) | Operate, Ready, Lost, synced, operation, invited, Accept/DeclineInvitation | peers, by messages; epochs, entries | concurrent administrators, operations out of order, lost messages, restarts |
| `spaces`: secrets (`epoch.go`) | the secret of each epoch, by author | Rotate, Share, Learn | replication | two secrets of one epoch; who lost authority meanwhile |
| `spaces`: ring (`ring.go`) | who is online, whom one connects to | Reachable, ring, reach | rendezvous, peers | members come, go and are lost unseen; dates that differ |
| `spaces`: entries (`channel.go`, `entry.go`, `message.go`, `sync.go`) | each author's chain in each channel, and its fold | Write, keepMessage, Messages, Supply | replication | entries before the operations that allow them; gaps |
| `spaces`: presences (`voice.go`) | where each member is believed to be, when last told it left | Join/LeaveVoice, VoiceVideo, renew, voice, presences | replication | older news by a slower way; silence |
| `spaces`: files (`files.go`, `fetch.go`) | pieces held, who is asked | Attach, wanted, serve, arrived | peers | losing who was asked |
| `messages` | entries written and held, those not acknowledged, when each was sent | Send, Ready, transmit, receive, settled, again | peers; the reason to connect | an acknowledgement lost; a restart between any two steps; two goroutines |
| `messages`: what is shown (`store.go`, `entries.go`) | texts wiped, what is read | edit, delete, react, compact, MarkRead, Unread | the clock | edits and deletions that cross; clocks set back |
| `messages`: files (`files.go`) | pieces held, what is asked for | Attach, pull, serve, arrived | peers | a connection that ends; a file deleted meanwhile |
| `contacts` | contacts and their secret, requests sent and received, who is blocked | Ask, Accept, Decline, Remove, Block, Requested, Accepted, Confirmed | peers, rendezvous | requests that cross, come again, or are answered late |
| `calls` (with `app/bridge_calls.go`, `app/bridge_voice.go`) | the call there is, under a mutex | Call, answer, Hang, Share, Ready, Lost, Message, expire | peers (Send, Want, Release), spaces (a seat) | two goroutines and a mutex; steps that cross or are lost |
| `peers` | one attempt or connection for each peer, reasons to connect, a channel of work | Want, Release, Send, offers, proofs, retries, parking | rendezvous, WebView, observers | both offer at once; a service that says gone and back |
| `rendezvous`, `rendezvous/service` | who is registered, who subscribed to whom, a queue for each, limits | register, relay, announce, subscribe, forget | peers | registered again while the old connection is forgotten; a slow reader |
| `hlc` | the last moment given | Now, Observe | messages, spaces | the wall clock goes back |
| `app` | which observers run on which goroutine | the methods of the interface | everything | what waits for what |
| `identity`, `canonical`, `invitation`, `protect`, `turn` | keys | sign, verify, encode | everything | – |
| `storage`, `images`, `logging`, `tray`, `autostart`, `frontend/` | the database; the screen | – | – | – |

What makes each correct, in a sentence:

- *Rules*: one owner; no rank, role or channel refers to what is gone; nobody acts
  on an equal or raises themselves; whoever loses access begins an epoch.
- *Replication*: members with the same operations hold the same state, all who
  open a space with one another come to hold the same operations, whoever did not
  join is sent nothing but an invitation, and passing on comes to rest.
- *Presences*: the latest presence is the one believed, and whoever sits in a channel is known (among several channels, of whoever is steady).
- *Secrets*: members settle on one; whoever was removed holds none made since.
- *Ring*: the members online are never split in two.
- *Entries and files*: readers of a channel come to show the same; who is shut out is given nothing; a file wanted arrives.
- *Direct messages*: texts are wiped without changing what is shown; what one writes comes after what one had stored; shown as delivered only when stored by the other; delivered in the end.
- *Contacts*: never without the consent of both; both with the same secret.
- *Calls*: both sides agree on whether there is a call and how it ended; no goroutine waits for ever.
- *Clock*: moments increase, whatever the wall clock says.
- *Connections and rendezvous*: the limits are kept exactly; both sides keep the same connection; whoever is wanted and there is reached.

## The modules

**`SpaceRules`** — `apply` of `state.go` as operators on a state and an operation:
`Allowed` (the author's rank and each case's early returns), one operator for each
change, `Apply` (what is refused changes nothing). `Revokes` is the table of
`epoch.go`. Names, positions and the encoding are left out; channels and roles draw
their identifiers from one set, as both are remembered in `gone`.

**`SpaceState`** EXTENDS it: one space to which any operation anybody could sign
is applied next. The order is left open, as whoever holds a key may sign anything;
that all members compute the *same* order is `SpaceReplication`'s matter.
**`SpaceProofs`** proves the properties of both.

**`SpaceReplication`** EXTENDS `SpaceRules`: several members of one space, each
with the operations it keeps (`known`), the state it replayed of them (`space`) and
what its service holds in memory (`ready`, `joined`, `pending`). `Ordered` is
`order`; an operation's stamp stands for its clock and identifier. `inbox[p][q]`
is the work that q causes p: what is on the connection, then what is queued. The
two are one queue because the Manager hands messages on in order; a break cuts it
at any point after the last `ready`, since what is queued already is still handled.
Each handler is one action, with everything it calls: `HandleOperation` keeps,
replays, refreshes, passes on and forgets who is no member any more. `Restart`
keeps what is in the store and loses the rest. A run tries several `Situations`: each
starts from a space whose first operations everybody inside holds, rather than the
long way there, and says which operations may follow and who is linked.

**`SpaceMessages`** is what a store does with the entries of a channel: who may make
one (`Makes`), what a message shows (`ShowsDeleted` and the rest of the fold), what is
wiped (`compact`), how far an author's chain is held and what another lacks of it
(`supply`). **`SpaceContent`** EXTENDS it: members who pass on operations, entries,
secrets and pieces of files. The operations are those of one `story`, each made by
somebody who knows those before; the hard orders of operations are
`SpaceReplication`'s, and here it matters what comes before or after an operation.
`View(p)` is the space as p holds it. A secret is its epoch, its author and its hash,
since `Current` is decided by the hash; a file is how many pieces are held and
whether it is wanted. `HandleReady`, `HandleLost`, `HandleSync`… are the
cases of the service's `Run`; `Fetch` and `Asking` are `fetch.go`.
**`SpaceContentProofs`** proves what it promises of secrets.

**`Admission`** is whom the rendezvous service lets in: a goroutine for each connection
that counts it, challenges whoever made it, reads, and once either side ended it
forgets and then releases it (`Forget`, `Release`), each under the mutex. `blocks` are
the addresses blocked and for how long; tokens are a bucket. `Close` is the service
stopping, which forgets everything. **`Reachability`** EXTENDS it with people who run
Convia: what `reach` of the contacts and of the spaces announces and watches, on each
person's own date, and whom the interface wants as it shows a conversation (`Views`
cancels the reason for the one left, `Reasons` carries out what a call has left to
do). **`Ring`** EXTENDS that with members of a space: `Chosen` is `ring`, `Notices`
the Ready and Lost of the Manager. `Rendezvous` models other parts of the same service;
the two are apart because signals never touch the limits. **`RingProofs`** proves that
the limits are kept, and the types of all three.

**`DirectDelivery`** is the abstract promise of a conversation: written, stored by
the other, shown as delivered, in this order and never undone. **`DirectMessages`**
is `messages`: the store (`written`, `outbox`, `sent`, `held`), what the interface
is in the middle of (`calling`: `add` stores in one step and wants the connection in
the next), the service's queue (`work`) and the reason to connect (`want`). `settled`
is two actions, since it reads the store (`Delivers`) and then releases (`LetGo`),
with the interface in between. The numbers of an author's entries are 1, 2, 3…, as
in the store; what an entry says is left out. `KeepsItsPromise` states that it
implements `DirectDelivery`; **`DirectMessagesProofs`** proves it.

**`Clock`** is `Now` and `Observe` of `hlc.go`. **`Conversation`** is what the same
entries *say*: their moments, what counts of the edits, reactions and deletions about
a message, which texts are wiped (`compact`) and what is unread. How an entry gets
across is `DirectMessages`' matter, so here one not held may arrive at any moment, in
any order. A call of the interface takes its moment in one step (`Call`) and stores in
another (`Add`), and several may be under way at once, each on a goroutine of its own:
one that attaches a file takes its moment, copies the file, and is numbered after what was
sent meanwhile. `began` is kept for the properties only: the number an entry would have
had when its call began. The service stores, then moves the clock; `Compact` follows, and
the application may stop before it does. **`DirectFiles`** EXTENDS it with files: `pull`
asks for `Span` pieces of each file wanted, `serve` sends them over a channel of their
own. `wants[p]` is whether p's service gave its file as a reason to be connected, which it
keeps in memory only; `stopped` are those who stopped since, for the properties. Each of
its steps is one of `Conversation` or changes nothing of it. **`ConversationProofs`** is of
both.

**`Calls`** is `calls.go` seen from both sides: a call has an identifier, a
direction and a state; steps travel in order and are lost when a connection ends;
each side notices the beginning (`HandleReady`) and the end (`HandleLost`) in its
own time. A handler is one action, under the mutex. A handler that sends from the
Manager's goroutine, or sends while the Manager waits for the mutex, never returns:
its device is `stuck` then, and takes part in nothing more (how that comes about,
goroutine by goroutine, is in `CallGoroutines`). `JoinVoice` and `Sit` are two,
because `bridge_voice.go` reads `Current` before it asks for the seat. **`CallsProofs`**
proves what either side is told and sees of the other.

**`CallGoroutines`** is the same code seen from one device's goroutines: the
Manager's channel of work with room for `Capacity`, the mutex of the calls, `Send`
which waits for the Manager, and the seat asked of the spaces' goroutine. An action
is what a goroutine does between two points at which it may wait. Its safety is proved
in `CallsProofs` too.

**`Contacts`** is `book.go` and `service.go` of two people. `Requested` and
`Accepted` read the book and write to it in separate transactions, hence
`LookAt…` and `Handle…`, between which the interface may act. A secret is the
record of whose request it came from and the two parts it was made of. `AcceptRequest`
asks only that there is a request, as `Book.Accept` does, so that one may be accepted
again; `accepts` counts, for the properties. `strangers`
are those connected who are no contact and are given a while to ask; `TurnOut` is
what ends it. **`ContactsProofs`** proves who may have a contact, and what of it they
share.

**`VoicePresence`** is `voice.go`: a member's own seat, what each believes of
each, the moment it was last told somebody left, what it dropped for silence, and
whom it wants a connection to for the voice (`meshed`). A moment is its number among
those its member said. `newest` is kept for the properties only, and read by no action.
**`VoiceHistory`** EXTENDS it with what each member did, for what can be said among
several channels: those who `Stayed` in one channel and, while no connection ended, those
whose last move came when nothing they had said before was on its way (`settled`) are
`Steady`. `LatestKnown` and `SeatsKnown` take the members they speak of: the steady ones
in `VoiceHistory`, everybody where there is one channel (`LatestBelieved`,
`SeatsAreKnown`). **`SpaceContentProofs`** proves the latter two.

**`Rendezvous`** is the service and each peer's connection to it (`service.go`,
`rendezvous.go`). A peer has at most one connection it uses (`link`), but the service
may still read others of theirs (`served`) until it notices they ended: `Dials` registers
the new one, ends the old one, and `Forget` comes whenever its goroutine returns. A
message is carried out in one step, under the mutex, but for a signal: `LooksUp` finds
whom it is for under the mutex, and `Relay` hands it on after. `Overflow` stands for
a queue found full at any time, since how fast a peer reads is not modelled.

**`PeerConnections`** EXTENDS it with each peer's Manager (`peers.go`, `link.go`) and the
WebView that carries what it says (`connections.ts`). `peer[p][q]` is the `peer` record:
wanted, retry, parked and the `conn`, whose fields are one `stage`. Names of sessions
are used again when nothing refers to them, which keeps the model finite, and whoever
would begin a connection waits for one (`NameLeft`). `channel` is
what is on its way between the two ends of one connection: a message is lost when the
ends are not of one session (`Same`). What the WebView says to the core is taken in
the order said, which the bindings between them are relied on for. **`PeerConnectionsProofs`** proves
what `peers.go` and the service keep, whatever either is told. `work` holds what came back from an observer:
`Reachable` goes through the contacts and the Manager's own queue, so that what the
service says next may be handled first. An attempt takes too long at once when nothing
will bring it further (`Stuck`), and at a cost (`late`) while something is on its way.

The `MC…` modules give constants their values. `map` in `PROJECT.json` says which
lines each definition stands for. A definition whose comment begins with "a
mistake" is a way the code could have been wrong; it is used by no specification,
and every property below is violated when the definition beside it is replaced
by one.

## The runs

| Run | Bounds | What it shows |
|---|---|---|
| `SpaceState` | 4 people, 3 members at most, 1 identifier for a channel and a role, whole state space | One owner, nothing dangling, deleted for good, losing access begins an epoch, nobody acts upwards or promotes themselves. |
| `SpaceReplication` | five situations: 3 members in a circle and 1 operation of three that undo one another's authority, or 2 of the two that remove; 3 in a line and 2 operations of the three; somebody invited between two others, 3 operations; the same with 2 and a break | Members come to hold the same operations and the same state (`Agreement`), what they pass on comes to rest (`NothingCircles`), and nothing of a space goes to whoever did not join it (`NothingOfASpaceNotJoined`). |
| `SpaceContent` | 3 members, 11 occasions of up to 4 entries or 2 operations, files of 3 pieces asked for 2 at a time, a break where it matters | Readers come to show the same, to use one secret and to hold the files they want; who was removed learns no secret made since, and who is shut out of a channel is given nothing written after all others knew. |
| `DirectMessages` | 2 people, one writes 2 entries, 1 trouble (a break, a restart, or sending again) | The conversation implements `DirectDelivery`; every entry is delivered in the end, and the connection let go of. |
| `Conversation` | 2 people, 8 occasions of up to 3 entries; files as above; a clock set back, a restart, a break or a piece that fails | Wiping a text changes nothing shown; an entry comes after all its author had stored when they began to write it; what is unread is news; a file arrives, unless who is to have it stopped and nothing brings the two together again. |
| `PeerConnections` | 2 peers, 2 connections of each to the service at a time; changes, cuts, reloads and late attempts cost 1, a break or overflow 2, up to 3 | Nobody wanted is given up; interest and observers are told; whoever is online is found; two who want one another meet; what neither wants is let go. |
| `Ring` | 4 members, 2 contacts whose dates differ, a stranger; 15 situations of up to 3 arrivals, ends, midnights or restarts of the service | Contacts online find one another; the members online are never left in two parts; an address is counted and blocked for exactly what it did. |
| `CallGoroutines` | everything that may begin, 5 begun, room for 3 | The connection is wanted while there is a call; if the Manager always goes on, so does everybody. |
| `Calls` | 2 people, 2 calls, 2 breaks, 1 screen, one voice seat | Callers are told the truth; both see what is shared; a caller is left neither ringing nor alone, on a device that is not stuck. |
| `Contacts` | 1 request each, 3 parts, 2 breaks or restarts, everything they may do | No contact without consent; one request, accepted by hand at most once, gives both one secret; an acceptance arrives. |
| `VoicePresence` | 3 members, all connected, two channels, 3 presences of one and 1 of another, 1 break, one camera, 4 of all that in total; the channels are symmetric | Nobody goes back to an earlier presence of somebody steady; who is steady is shown where they are, whoever else moves. |
| `CallReady` (violation) | a call and a connection | See below. |

Why these bounds are enough to mean something. In `SpaceState`, four people hold
every rank at once with one left outside; the rules compare two people and one
channel and role at a time. In `SpaceReplication` three members all connected are the
least that form a circle, and two operations the least that can be concurrent; the
three changes are chosen so that each order makes another refused. `SpaceContent`
and `Conversation` do not try everything at once: each occasion is the least in which
one thing can go wrong (an edit crossing a deletion, a restriction crossing an entry, a
connection ending under a file), because the occasions have no state in common, and
together they make every action happen. In `DirectMessages` two entries are the least
that make a hole in what is held. A single trouble already
loses what is on its way, in either direction, and its safety properties are proved
for any number. In `PeerConnections` a cost of 3 leaves room for both to want one another and
one thing to go wrong, or for one to want the other across a connection to the service
that breaks; two peers are the least that offer at once. In `Ring` the limits are scaled
down (2 connections of an address, 12 identifiers watched, a burst of 8) so that
strangers reach each of them in a few steps, and blocks double twice before the longest;
four members who pick nobody but their neighbours are the least whose ring can be cut
in two. In `Calls` a second call is what an old step can be mistaken for, and two breaks let a
connection that was lost come back and be lost again. In `Contacts` a part for each request
and one acceptance are the least for requests that cross and for one accepted twice. In
`VoicePresence` three is the least with a slower way, and a member who moves there and back
says three presences. The bounds `Max…`, and what an occasion or a situation counts down, appear in
guards only (`MaxEnds`, `MaxSessions` and `Conns` count names: with too few, something
that could happen waits for one to be free): after them the
system goes on handling what is left. They are why a run may stop, and why
`CHECK_DEADLOCK FALSE` is set; in `CallGoroutines` a real deadlock shows as a
violation of a liveness property instead.

## Fairness

- `SpaceReplication.FairSpec` and `SpaceContent.FairSpec`: each service gets through its
  queue, and two people linked connect again and again; in the latter, pieces of files
  are handled too, and whoever fetches connects to the author. The first is the
  goroutine of `Run`, which waits for nothing else here; the second is the Manager's
  retries (`peers.go`, `tick`), for people who are both there. Nobody need make an
  operation, write, or answer an invitation.
- `DirectMessages.Progress`: the service works, the interface's `add` finishes, a
  message on a connection arrives unless it ends. `MeetingSpec` adds that the two
  connect again, as they do while the conversation is on screen; `WantedSpec`
  that they do so only when one wants to. `Again` (the ticker) is not fair in either.
- `DirectFiles.FilesSpec`: the services work, what was sent arrives, entries are
  stored and wiped, and the two connect again while a service that is running wants a
  file. Starting again, a service wants only those it has something to send to
  (`service.go:62`): from then on a file brings nobody together by itself, and
  `FilesArrive` excepts who stopped and is not connected.
- `Ring.FairSpec`: whoever runs Convia goes on (`Lives`: reaching anew, dialing,
  hearing, noticing), so does each goroutine of the service, and connections come and
  go as wanted. Strangers, time, midnights, troubles and people need do nothing.
- `Calls.FairSpec`: what rings stops (the ticker), reports are handled, whoever a call
  wants is reached, each on a device that is not stuck, since the ticker needs the mutex
  and reports the Manager. Nobody need answer or hang up.
- `Contacts.FairSpec`: work is done, messages arrive, whoever asked tries again (`Want`
  stays until answered). `CallGoroutines.FairGoroutines`: a goroutine that can go on does.
- `PeerConnections.FairSpec`: the Manager, the service's goroutines and the WebView go on,
  `Link` dials again, the contacts' service hands over whom it watches. Nobody need
  want, release or disconnect, and nothing need break. `TakesTooLong` is strongly fair:
  the 30 seconds of an attempt run on while messages about it come and go, each of which
  makes the attempt not `Stuck` for a moment.

All fairness but that is weak: a handler stays enabled until it runs.

## The proofs

All results are safety properties, for every value of the constants that the
`ASSUME`s allow. The type invariants of `SpaceState`, `DirectMessages` (`TypeCorrect`),
`SpaceReplication` (`ReplicationTyped`),
`Contacts` (`ContactsTyped`), `Ring` (`RingTyped`), `VoicePresence` (`VoiceTyped`), `Calls` (in `CallsAreSound`) and
`CallGoroutines` (in the lemma `Inductive`) are proved, and so are in no run.

`SpaceProofs`, on the rules, from `SpaceAssumption` (the creator is one of finitely many
people, and the limit on members a positive number):

- `TypeCorrect`: by kinds of operation, each change leaves a state.
- `AlwaysOneOwner`: only six kinds touch a rank (`RankKept`); five cannot touch the
  owner's, or make one, by their guards; `transfer-ownership` needs its author
  to be the owner, who by the invariant is the only one.
- `NothingEverDangles`: `Tidy` is inductive. It needs the guards of
  `restrict-channel` and `give-role`, that a channel made has no rules left from
  before, and that removing a member clears what they held.
- `AccessLostBeginsAnEpoch`: no kind outside `Revokes` puts anybody out or shuts
  a channel to anybody (`OnlyRevokingShutsOut`).
- `NobodyEverActsUpwards`: a member who is no administrator changes only themselves;
  administrators cannot touch the rank or mute of their equals, and an
  administrator's powers depend on nothing else (`AdministratorsPowers`).
- `NobodyEverPromotesThemselves`: only adding and ranking raise a rank, of somebody who
  is no member yet, or for an owner who has none above them (`AuthorsRankFalls`); and
  unmuting, or removing, is of somebody else (`AuthorsStayMuted`).
- `DeletedIdsAreGone`: deleting remembers, and making needs what is not remembered.

`SpaceProofs`, on the replication, from those and `ReplicationAssumption` (each situation
begins with operations of stamps of their own that come after one another):

- `OrderIsCausal`, of any finite set of operations with stamps of their own: in the order
  each operation comes once, after all it follows, and what is left out follows
  something that is not there. `order` is a recursive function on what is left; it is
  unrolled (`OrderedFollows`) by taking the least number at which it is not what it
  is said to be (`LeastNatural`), as no induction theorem of the library can be used.
- `ReplicationTyped` and `NothingIsSentOutside`, by `RInv`. It says
  of all operations there are, wherever they are (`Made`), that a stamp is of one of
  them, that what each follows is kept by somebody, and that what says who keeps what
  comes from who keeps the space, and operations go only to them (`Message`). Without the first two the
  outcome of a member's own operation could be that of another: `Operate` looks at the
  last, and `OwnIsLast` shows that it comes last and waits for nothing.
- `OwnChangesCount`: so whatever a member does is judged by the state they saw, and
  the state they see next is that state changed.
- `WhatIsInOrderStays`: an operation that is in a member's order is in it for good
  (`HistoryGrows`), since what they hold only grows (`KnownGrows`).
- `WhateverTheOrder`: the owner and the rules of every member's state are in order,
  whatever they hold, from the invariants of the rules and `FromKeeps`.

`PeerConnectionsProofs`, for any peers and anything the service may say, of anybody:

- `NobodyIsEverForgotten` and `ObserversAlwaysKnow`, by `IInv`: each record of a peer is
  one (`IsRecord`) that, if the peer is wanted, has a connection, a retry or is parked
  (`Remembers`), and `told` is the set of those ready. No other part of the state
  matters; each handler leaves such a record (`AgainRemembers`, `ConnectingRemembers`,
  `LossRemembers`…), and either drops the connection and tells the observers, or
  leaves it ready or not as it was (`SettingDropped`, `SettingQuietly`).
- `WhoIsOnlineIsAlwaysFound`, by `FInv`: a connection served and not ended is found at
  its peer, and is named after that peer, so that neither registering nor forgetting
  another's, or an earlier one of the same peer, touches it.
- `ConnectionsAreAlwaysKnown`, by `CInv`. `Knows(p, q)` is stronger than `InterestIsKnown`:
  once p is ready, the last said of its interest is on its way, or q, ready too, holds
  it. A step could break that only where q begins a connection of the same name
  while p is ready, so names are followed from the draw (`SpareIsFresh`) through what
  is sent, relayed and queued (`Carried`): an offer of a name is in one place and gone
  once an answer is there (`OffersSingle`), or its receiver has it, or its offerer is
  settled (`Began`). What the service does carries nothing that was not
  carried (`Lost`, a lemma for each thing it does: `RelayLoses`, `ReadLoses`,
  `ForgetLoses`…); what a Manager does begins, goes on with, tells of or drops
  connections (`TurnsTo`, `TurnsOn`, `TurnsTelling`, `TurnsAway`).
- `TypeCorrect`, from the three: no run checks `TypeOK`, the proof does.

`ContactsProofs`, from `ContactsAssumption` (two people, natural bounds):

- `ContactsTyped`: `Typed` is stronger than `TypeOK` in that every part said is one that
  was drawn, and that what a service read is of the work at the head of its queue
  (`Matching`), which new work at its end and a restart leave so.
- `ContactsConsented`: that whoever has a contact agreed is not inductive, as a handler
  writes what it read earlier. `Consent` adds that who asked, or whose service has read
  that they asked or have a contact, agreed; all else that is read is a stranger's
  request (`Matching` again), which makes no contact.
- `OneRequestShares`: of a request made once and accepted by hand at most once, nobody
  having removed the other, `OneInv` says what each side of it may be at. `Granted`: whoever has a contact has the one secret
  there can be, and whoever was asked has it from when they accept. `Looked`: what
  was read of the book leads nowhere else. `Told`: which messages there can be, and that
  after a confirmation no request follows. Without the last, a request handed on late
  would be taken for a new one, since a confirmation forgets the request it is of.

`DirectMessagesProofs`, from `ann # bob` and natural bounds:

- `IInv` strengthens `DeliveredIsHeld`: what is held, sent or on its way is among
  what was written (`Numbered`), and every acknowledgement or report of what is
  held that is still under way, on the wire or queued, tells of entries already
  held (`UnderWay`). Without the second, an acknowledgement could deliver anything.
- `TypeCorrect`, `DeliveredIsAlwaysHeld`, and `ConversationKeepsItsPromise`: each
  action is a step of `DirectDelivery` or leaves what it speaks of as it was.

`ConversationProofs`, from `ann # bob`, for any occasions:

- `ClockGoesOn`: a moment taken is later than the last and than any observed.
- `EntriesInOrder`, with any number of calls under way: by `IInv`, which says of each
  (`Timely`) that their clock is at or after the moment of each of their entries and of
  each call under way, that a call's moment is after those of all that was stored when it
  began (`Begun`), and that a store has a latest moment and a next number. Without the
  first, an entry stored after a restart, or by a call that took its moment before
  the service moved the clock, could have any moment; without `Begun`, one stored
  after others that began later.
- `NothingShownIsWiped`: by `KInv`. Entries of one author are stored in an order that need
  not be that of their moments, so what counts of edits is the latest (`Earlier`: by moments, then by
  numbers), and that there is one is a lemma (`LatestIsTheLast`). `KInv` adds (`Kept`) that whatever is wiped and not
  deleted here alone is gone for whoever reads the same store, and that an author wipes
  only what the other holds already, so that nobody is sent a text without its words.

- `NothingReadIsUnread`: by `RInv`, which adds that there is a latest message
  for reading to come up to, so that after it nothing is unread; from then on an entry is
  unread only if it came since.
- Files disturb none of it (`FilesConverse`: a step of `DirectFiles` is one of
  `Conversation` or changes nothing of it), so that what is proved of conversations holds
  of those with files (`FilesKeepTheConversation`).

`CallsProofs`, for any people and however many calls; `IInv` is `TypeOK` and

- `OneCall`: an identifier is of one caller and one person called, who are in it together
  or not at all; `OverConnections`: nothing is on its way over a connection that is not
  there or not noticed; `SharedInACall`: what is shared is shared in a call in progress.
- `Together`: of each call somebody makes, what they take it to be, what the other does and
  what is on its way in both directions `Agree`. The order of a connection makes it
  hold: while nothing that ends the call is on its way to the caller (`Clean`), an
  acceptance is ahead of everything shown, and the last stream on its way is the one
  shared (`Showing`). `SeesWhatIsShared` follows with nothing on its way.
- A device gets stuck as it begins a call, refuses one or is told of a connection, and what
  it was about to send is not on its way then: none of these is of what is not sent.
- `Truthful`: an acceptance or refusal on its way, or believed, is of somebody who took or
  declined the call, as their log goes on to say. It makes `ToldTheTruth`.

`CallsProofs`, on the goroutines, for a channel with room for any number and whatever is begun:

- `OneInside`: whoever holds the mutex is at one of the places of `Holds`, and nobody else
  is (`Exclusive`). It includes waiting for the Manager to take what is sent, which is
  what `CallReady` is about.
- `WantedWhileACallLasts`: what the queue will have asked for in the end, with what it
  asked for already (`Brings`), is whether there is a call. It needs that an answer is of
  the call there is while its sender waits (`AnswersACall`), and so the mutex.

`RingProofs`, from `AdmissionAssumption`, `ReachabilityAssumption` and `RingAssumption`
(natural limits, blocks of some length, finitely many connections and members, and
situations that begin within the limits, at a connection of each person's own):

- `LimitsAreAlwaysKept`, by `LimitsInv`. A connection counts from when it is admitted until
  it is released (`Counted`), and a slot is used again only once it was: so the
  cardinality of those of an address is what the service counts, at most `PerAddress`
  (`AdmitKeeps`, `ReleaseKeeps`). `Offended` says of an address that its offences are the
  limits it broke of late, none `Forgiven` after the one before (`Together`), and that its
  block is as long as those make it. How long that is (`LengthIs`) doubles up to `LongestBlock`, and is proved by the least number of
  offences for which it would be something else; that `2^n` doubles is in no library, and
  follows from counting subsets (`PowersOfTwo`).
- `FoundAreTheirs`, by `IndexInv`: registering, replacing, forgetting and the service
  stopping are steps of goroutines of their own, and none leaves somebody found at a
  connection that is not read from, or not theirs.
- `RingTyped`, by those and `PeopleInv` and `SpaceInv`: it needs that `ring` never chooses
  the member itself (`ChosenAre`), of any number of members, whoever is online.

`SpaceContentProofs`, from `ContentAssumption` (occasions are of the operations of a space):

- `RemovedNeverLearn`: a secret held, on its way or queued is one its receiver `MayHold`, as
  they were a member at its epoch or after it. A secret is given by whoever takes the
  receiver to be a member by a prefix of the story, and an administrator draws one of an
  epoch they stand in; `Bears` and `Lawful` say the same of all that is on its way, which
  connections, services and restarts take from the front or lose.

`SpaceContentProofs`, on presences, from `VoiceAssumption` (finitely many members, links of
two, as many presences as each says), by `VInv`:

- `VoiceTyped`: whoever joined sits in a channel, whose presences are numbered.
- `LatestInOneChannel`, where channels are one (`SingleChannel`), for any members, links,
  breaks, and order of what comes. `Beliefs`: what is held of a member is the last that was
  told of it, and when that was forgotten, or its member left, that is remembered; so what
  is news is later than all told before (`NewsIsLater`). With two channels it is false
  (below), as a presence is compared with what is held of its own channel alone; the run
  checks the same of the steady members (`LatestOfTheSteady`).
- `SeatsInOneChannel`, where channels are one and links `Woven`. Everything believed or
  on its way is so of its member, or the member said something since (`Carries`). Of two
  who opened the space with one another and see the channel, what one knows of a third the other knows, or is
  on its way (`Passed`): a presence is passed on by whoever takes it, and told again as the
  space is opened. What a member says itself is another matter: as it opens the space with
  one, it says a later presence to that one alone, so that after a break only *some* of
  those it is linked to need have its last (`SaidIt`), and the rest learn it from them.
  That is why links are to lead around any one member (`Woven`), which is not so of a line:
  there the code may leave one end with an earlier presence until the next renewal, and the
  model, where silence is not measured, may forget that one before. The triangle of the
  run is woven.

Only model-checked: everything temporal (`Agreement`, `EveryEntryIsDelivered`,
`MembersHoldTogether`…), as liveness under fairness is beyond TLAPS;
`ShutOutReadNothing`, and what is known of the steady members of several channels
(`LatestOfTheSteady`, `SeatsOfTheSteady`).
What recursive functions compute over sequences is proved by least counterexamples; the
library's induction theorems take an operator, which the provers here cannot instantiate.

## Where the code does not do what is said

One is a run of the project: **`CallReady`**. `Ready` of the calls runs on the
Manager's goroutine and calls `Send`, which waits for that goroutine. Calling somebody
not yet connected stops the Manager for good when they connect. Against
`internal/calls/calls.go:80`.

The rest are found by changing a configuration as said here; each is refuted in
seconds or minutes, by the statement of a document, comment or test. `X <- Y` names a
definition of the `MC` module.

| From | Change | Property | What the code does |
|---|---|---|---|
| `CallGoroutines` | `Jobs = {"call", "hang", "lost"}` or `{"call", "spread", "lost"}`, `Capacity = 4`, `MaxJobs = 3` | `EveryCallReturns` | A mutex is held in `Send` while the Manager waits for it; the same through the spaces' goroutine. |
| `CallGoroutines` | `Jobs = {"call", "ring"}`, `Capacity = 4`, `MaxJobs = 3` | `EveryCallReturns` | Whoever is busy refuses a call that comes from the Manager's goroutine, by a `Send` that waits for it (`calls.go:293`). |
| `Calls` | nothing | `CallersAreNotStuck` | A caller whose call is to ring as the connection is made gets stuck instead, as in `CallReady` (`calls.go:222`). |
| `Calls` | `Joiners = {}`, `MaxCalls = 1`, `MaxShares = 0` | `NobodyIsLeft` | Who accepts as the connection ends is in a call the caller has left (`calls.go:186`). |
| `Calls` | `MaxCalls = 1`, `MaxBreaks = 0`, `MaxShares = 0` | `NoCallMeanwhile` | A call between the check and the seat leaves a person in both (`bridge_voice.go:78`). |
| `Contacts` | `Askers = {ann}`, `Deeds = {}`, `MaxBreaks = 0` | `ContactsShareASecret` | Accepting one request twice, while it is connected, makes a second part: `Accept` asks only that there is a request, and the asker keeps what the first acceptance said (`book.go:336`; ADR 0012). |
| `Contacts` | `Askers = {ann}`, `Deeds = {}`, `MaxAsks = 2`, `MaxBreaks = 0` | `accepts < 2 => ContactsShareASecret` | Asking again gives the two different secrets. |
| `Contacts` | `Deeds = {}`, `MaxBreaks = 1`, `MaxParts = 4` | `ContactsShareASecret` | So does accepting a request left behind. |
| `Contacts` | the same | `TwoWhoAskBecomeContacts` | Two who ask one another may never become contacts (`docs/protocol/peers.md:55`). |
| `Contacts` | `Askers = {ann}`, `Deeds = {"block"}`, `MaxAsks = 2`, `MaxParts = 4`, `MaxBreaks = 1` | `RemovedStaysRemoved` | Who is blocked while their acceptance is handled is a contact again (ADR 0028). |
| `Contacts` | `Deeds = {"remove"}`, `MaxBreaks = 3`, `Spec` | `OnlyStrangersAreTurnedOut` | Somebody is taken for a stranger on one connection and accepted as a contact; the 30 seconds run on, and end their next connection (`peers.md:43`, `contacts/service.go:125`). |
| `Conversation` | nothing | `RepliesComeAfter` | The service stores a message and moves the clock after: a reply whose moment is taken in between may have that of what it answers, or an earlier one (`peers.md:73`). |
| `Conversation` | nothing | `TransfersResume` | A file whose transfer was under way as its receiver stopped resumes only when something else brings the two together: `Run` wants those with something to send, and the reason for a file is in memory (`service.go:62`; ADR 0036:18). |
| `Conversation` | nothing | `NewsIsUnread` | A message whose moment is before what was read is never unread (ADR 0032). |
| `Conversation` | nothing | `LittleInFlight` | A `Ready` handled late asks again for what was asked for over the new connection already, and both are sent (`files.go:23`). |
| `Conversation` | nothing | `DeletedFilesAreRemoved` | A piece under way as its file is deleted is stored, and stays (ADR 0034, 0036). |
| `DirectMessages` | `MaxWritten = 1`, `WantedSpec` | `EveryEntryIsDelivered` | An entry stored while the last acknowledgement is handled loses its reason to connect (`service.go:266`). |
| `PeerConnections` | `MaxCost = 1` | `WaitsForWhoIsAway` | A peer is not found, registers, and is announced before the service says it was not found: it is parked although it is there (`peers.go:617`; ADR 0024). |
| `SpaceReplication` | `Situations <- InvitedThere` | `OpenedBothWays` | Whoever accepts while connected tells what it holds, but nobody tells *it*: that is said only in `Ready`, so it passes nothing on until the connection is made anew (`spaces.md:81`). |
| `SpaceReplication` | the same | `NothingButTheInvitation` | Somebody invited is sent `space_sync` before they accept (`spaces.md:116`). |
| `SpaceReplication` | `Situations <- InvitedAway` or `Readmitted` | `AddedIsTold` | An invitation for somebody away is gone after a restart; somebody removed who still holds the space ignores the invitation back. |
| `SpaceReplication` | `Situations <- Expelled` | `RemovedKnowIt` | Who was removed while away is sent the removal without what it names, and cannot apply it (`spaces.md:101`). |
| `SpaceReplication` | `Situations <- Deleted` | `DeletionIsPassedOn` | In a space deleted nobody is a member, so the deletion is passed on to nobody (`spaces.md:100`). |
| `SpaceReplication` | `Situations <- Overruled` | `OneStateForAll` | Who holds that it was removed opens the space with nobody, and never learns that the removal was overruled (ADR 0013). |
| `SpaceReplication` | `Situations <- StaleJoined`, `Spec` | `OnlyOnceItSaid` | What a peer said on its last connection counts on the next until `Ready` is handled (`service.go:34`). |
| `SpaceContent` | `Occasions <- Demoted` or `Edited` | `ReadersAgree` | What a moderator deleted stays wiped where it came before they were demoted, or before the author's edit, and shows elsewhere. |
| `SpaceContent` | `Occasions <- Interrupted` | `WantedFilesArrive` | `Lost` leaves what was asked of a member as it was: when they connect again before another event makes anybody be asked anew, they are taken to be asked still, and nothing comes (`spaces.md:129`, `service.go:210`). |
| `SpaceContent` | `Occasions <- NamedAndLeft` | `SecretsSettle` | An operation that begins an epoch, and comes before one it follows, takes effect with that one, which begins none: no administrator makes the secret. |
| `VoicePresence` | `Cameras = {}`, `MaxSaid <- OnlyAna`, `MaxBreaks = 0`, or nothing | `LatestBelieved` | An older presence of the channel left is believed, as it is compared with what is held of its own channel alone (`voice.go:122`; `spaces.md:107`). |
| `VoicePresence` | the same | `SeatsAreKnown` | So a member who moved may be shown nowhere: believing what comes late of the channel left takes away what is held of the other, and then the leaving comes too (`voice.go:135`). |
| `Ring` | `Situations <- Breaking` | `MembersHoldTogether` | A connection that breaks makes both take the other to be offline, although both are there, until one is announced anew (`service.go:210`, `ring.go:82`; ADR 0024, 0040). |
| `Ring` | `Situations <- Crowded`, `Largest = 8` | `NobodyWhoRunsItIsBlocked` | All identifiers watched go in one message of at most 64 KiB, about 1 900 of them; more, and the service blocks the address (ADR 0021). |
| `Ring` | `Situations <- Glancing` | `WhoIsViewedIsWanted` | `Viewing` is not awaited (`Workspace.tsx:174`), and a call that leaves a conversation may release what a later one wanted (`network.go:213`, ADR 0024). |

Met while modelling, and shown by no configuration: entries a member writes after the
clock was set back may tie with one it holds; a message a moderator deletes and its
author edits shows as an empty edited one; a text that comes after its deletion is
never wiped; `Fetch` of a deleted file wants it for ever; a member given a role while
connected is not supplied what was written before; a request accepted again after
removing the contact in between makes a second secret; of a file being attached and
a message sent meanwhile, the later number has the earlier moment (`service.go:129`,
`files.go:83`); somebody who does not know yet that another is shut out of a channel passes
on to them an entry written after; members announced who go away
before they were ever connected count as online for good; `Link` stops for good once
another of the same identity replaced it; a request made while connected is sent with
the next connection only (`peers.md:52`); messages deleted here alone count as unread.

Two statements hold on instances too slow to keep: `SpaceReplication` with
`Situations <- Broken` (the quarrel in a line, with a break) and `PeerConnections` with
`MaxEnds = 4`, `MaxSessions = 4`, `Costs <- Even` (breaks as cheap as the rest; safety).

## What is not modelled

- Cryptography and encodings (`identity`, `canonical`, `invitation`, `protect`): a
  signature is its author and a hash is what it is of.
- SDP, ICE candidates and media: a connection opens once both ends have
  both descriptions, carries messages in order, and ends. Above `PeerConnections` it is
  there or not. What is renegotiated when a camera or screen is added is next in the plan.
- The rendezvous service's pings and the TURN servers it names; versions.
- Failures of the disk, but for a piece of a file that cannot be written: a transaction
  is a step.
- Queries without a state of their own: search, missed calls, mentions, lists for the
  interface; what is forgotten as a contact or a space is removed.
- Images, logging, the tray, autostart, translations and the interface: no other
  device and no restart depends on their state.
- Generated code (`internal/wire`), the icon's generator, packaging.
- Time: what happens after a while (retries, expiry, silence) may happen at
  any moment the model allows it to. Only the rendezvous service's blocks count it.

## The plan

Rules, replication, direct messages, calls, contacts, presences, connections; then what
they carry (conversations, files, content of spaces) and who finds whom (admission,
reachability, the ring) were written in this order. What is left, most worth first:

1. Renegotiation of a connection's media (`connections.ts`, `peers.go`'s
   `LocalDescription`): both sides may offer at once, and one gives way.
2. Removal of a contact with the conversation in `DirectMessages`, and the numbers that
   begin anew on one side only (`book.go:431`).
3. Three peers and versions in `PeerConnections`; members and epochs that change in `Ring`.
