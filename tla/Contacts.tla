------------------------------ MODULE Contacts ------------------------------
(***************************************************************************)
(* How two people become contacts: internal/contacts, book.go's records    *)
(* and service.go's messages about them.  One asks, from an invitation of  *)
(* the other; the other accepts; each then holds a secret of the pair,     *)
(* made of a part of each.                                                 *)
(*                                                                         *)
(* A service does its work on one goroutine, from a queue, while the       *)
(* interface changes the book on another: the two run one statement of the *)
(* database at a time, so what a handler read may have changed when it     *)
(* writes.  Names, hints, verification, the conversation that may be kept  *)
(* and the limit of requests waiting are left out, and seven days pass     *)
(* whenever they like.                                                     *)
(***************************************************************************)
EXTENDS Naturals, Sequences

CONSTANTS
  ann, bob,     \* two people, ann's key the lower
  Askers,       \* bound: those who ask
  Deeds,        \* bound: what else may be done
  MaxAsks,      \* bound: requests each makes
  MaxParts,     \* bound: parts drawn, for requests and acceptances
  MaxBreaks     \* bound: times the connection is ended, or lost

AllDeeds == {"dismiss", "decline", "remove", "block", "unblock", "expire"}

ASSUME ContactsAssumption ==
  /\ ann # bob /\ Askers \subseteq {ann, bob} /\ Deeds \subseteq AllDeeds
  /\ MaxAsks \in Nat /\ MaxParts \in Nat /\ MaxBreaks \in Nat

People == {ann, bob}
Other(p) == IF p = ann THEN bob ELSE ann
Parts == 1..MaxParts

None == "none"
NoSecret == [asker |-> None]
NoRequest == [state |-> None]
Nothing == [of |-> None, part |-> 0]

VARIABLES
  contact,    \* the secret each holds of the pair, while the other is a contact
  asked,      \* asked[p]: the part of the request p sent, 0 for none
  received,   \* received[p]: the request p was sent, and its answer
  blocked,    \* whether each blocked the other
  parts,      \* parts drawn so far
  asks,       \* requests made, for the bound
  accepts,    \* requests accepted by hand, for the properties
  agreed,     \* whether each ever asked the other, or accepted to be asked
  kept,       \* whether each has not removed, blocked or dismissed the other since
  forgot,     \* whether either ever removed or blocked the other, for the properties
  work,       \* the queue of each service
  read,       \* what each service read in the book, to write to it
  strangers,  \* those whose service waits for the other, no contact, to ask
  wire,       \* wire[p]: what is on its way to p
  up,         \* whether they are connected
  breaks      \* connections that ended, for the bound

book == <<contact, asked, received, blocked, parts, asks, accepts, agreed, kept, forgot>>
link == <<wire, up, breaks>>
service == <<work, read, strangers>>
vars == <<book, service, link>>

-----------------------------------------------------------------------------
Message(type, part) == [type |-> type, part |-> part]
Ready == Message("ready", 0)

Secret(asker, asking, inviting) == [asker |-> asker, asking |-> asking, inviting |-> inviting]

Send(p, m) == wire' = IF up THEN [wire EXCEPT ![Other(p)] = Append(@, m)] ELSE wire
Queue(p, m) == work' = [work EXCEPT ![p] = Append(@, m)]

(* A proven connection is refused to whoever is blocked or was declined.   *)
Declined(p) == received[p].state = "declined"
Accepts(p) == ~blocked[p] /\ ~Declined(p)

Cut == up' = FALSE /\ wire' = [p \in People |-> <<>>] /\ breaks < MaxBreaks /\ breaks' = breaks + 1

Init ==
  /\ contact = [p \in People |-> NoSecret] /\ asked = [p \in People |-> 0]
  /\ received = [p \in People |-> NoRequest] /\ blocked = [p \in People |-> FALSE]
  /\ parts = 0 /\ asks = [p \in People |-> 0] /\ accepts = 0
  /\ agreed = [p \in People |-> FALSE] /\ kept = [p \in People |-> FALSE] /\ forgot = FALSE
  /\ work = [p \in People |-> <<>>] /\ read = [p \in People |-> Nothing] /\ strangers = {}
  /\ wire = [p \in People |-> <<>>] /\ up = FALSE /\ breaks = 0

-----------------------------------------------------------------------------
(* What a person does, on the interface's goroutine.                       *)

Agrees(p) == agreed' = [agreed EXCEPT ![p] = TRUE] /\ kept' = [kept EXCEPT ![p] = TRUE]

Ask(p) ==
  /\ p \in Askers /\ asks[p] < MaxAsks /\ parts < MaxParts
  /\ ~blocked[p] /\ contact[p] = NoSecret
  /\ parts' = parts + 1 /\ asks' = [asks EXCEPT ![p] = @ + 1]
  /\ asked' = [asked EXCEPT ![p] = parts']
  /\ Agrees(p)
  /\ UNCHANGED <<contact, received, blocked, accepts, forgot, service, link>>

(* Accept: k, who asked, is a contact, and told so.                        *)
MakesContact(p, theirs) ==
  /\ parts < MaxParts /\ parts' = parts + 1
  /\ contact' = [contact EXCEPT ![p] = Secret(Other(p), theirs, parts')]
  /\ received' = [received EXCEPT ![p] = [state |-> "accepted", theirs |-> theirs, ours |-> parts']]

(* AcceptRequest of any request there is, answered already or not.         *)
AcceptRequest(p) ==
  /\ received[p] # NoRequest
  /\ MakesContact(p, received[p].theirs)
  /\ accepts' = accepts + 1
  /\ Agrees(p)
  /\ Queue(p, Message("answer", parts'))
  /\ UNCHANGED <<asked, blocked, asks, forgot, read, strangers, link>>

Declines(p) ==   \* says nothing of it, unlike one who accepts
  received[p].state = "waiting" /\ received' = [received EXCEPT ![p].state = "declined"]

DeclineRequest(p) ==
  /\ "decline" \in Deeds /\ Declines(p) /\ Cut
  /\ UNCHANGED <<contact, asked, blocked, parts, asks, accepts, agreed, forgot, kept, service>>

Gone(p) == kept' = [kept EXCEPT ![p] = FALSE]

Dismiss(p) ==
  /\ "dismiss" \in Deeds /\ asked[p] # 0
  /\ asked' = [asked EXCEPT ![p] = 0] /\ Gone(p)
  /\ UNCHANGED <<contact, received, blocked, parts, asks, accepts, agreed, forgot, service, link>>

Forgets(p) ==
  /\ contact' = [contact EXCEPT ![p] = NoSecret]
  /\ asked' = [asked EXCEPT ![p] = 0]
  /\ received' = [received EXCEPT ![p] = NoRequest]
  /\ Cut /\ Gone(p)
  /\ forgot' = TRUE
  /\ UNCHANGED <<parts, asks, accepts, agreed, service>>

Remove(p) == "remove" \in Deeds /\ contact[p] # NoSecret /\ Forgets(p) /\ UNCHANGED blocked

Block(p) ==
  /\ "block" \in Deeds /\ ~blocked[p] /\ Forgets(p)
  /\ blocked' = [blocked EXCEPT ![p] = TRUE]

Unblock(p) ==
  /\ "unblock" \in Deeds /\ blocked[p]
  /\ blocked' = [blocked EXCEPT ![p] = FALSE]
  /\ UNCHANGED <<contact, asked, received, parts, asks, accepts, agreed, forgot, kept, service, link>>

(* Seven days pass, for who asked, and since it came, so later, for who    *)
(* was asked; no message is under way for as long.                         *)
ExpireSent(p) ==
  /\ "expire" \in Deeds /\ asked[p] # 0
  /\ asked' = [asked EXCEPT ![p] = 0]
  /\ UNCHANGED <<contact, received, blocked, parts, asks, accepts, agreed, forgot, kept, service, link>>

ExpireReceived(p) ==
  /\ "expire" \in Deeds /\ received[p] # NoRequest /\ asked[Other(p)] # received[p].theirs
  /\ work[p] = <<>> /\ wire[p] = <<>>
  /\ received' = [received EXCEPT ![p] = NoRequest]
  /\ UNCHANGED <<contact, asked, blocked, parts, asks, accepts, agreed, forgot, kept, service, link>>

-----------------------------------------------------------------------------
(* What the service does, one piece of work at a time.                     *)

Doing(p, type) == work[p] # <<>> /\ Head(work[p]).type = type
Next1(p, type) == Doing(p, type) /\ read[p] = Nothing
Part(p) == Head(work[p]).part
Done(p) == work' = [work EXCEPT ![p] = Tail(@)] /\ read' = [read EXCEPT ![p] = Nothing]
Reads(p, of, part) == read' = [read EXCEPT ![p] = [of |-> of, part |-> part]]

HandleReady(p) ==
  /\ Next1(p, "ready") /\ Done(p)
  /\ IF asked[p] # 0
     THEN Send(p, Message("request", asked[p])) /\ UNCHANGED strangers
     ELSE /\ strangers' = IF contact[p] = NoSecret THEN strangers \cup {p} ELSE strangers
          /\ UNCHANGED wire
  /\ UNCHANGED <<book, up, breaks>>

(* tick: a stranger who did not ask within thirty seconds is disconnected; *)
(* nothing is under way for as long.                                       *)
TurnOut(p) ==
  /\ p \in strangers /\ \A q \in People : work[q] = <<>> /\ wire[q] = <<>>
  /\ strangers' = strangers \ {p}
  /\ IF up THEN Cut ELSE UNCHANGED link
  /\ UNCHANGED <<book, work, read>>

HandleAnswer(p) ==
  /\ Next1(p, "answer") /\ Done(p)
  /\ Send(p, Message("accepted", Part(p)))
  /\ UNCHANGED <<book, strangers, up, breaks>>

(* Requested, as far as it reads: a request refused, ignored for this      *)
(* person's own, or had before, which is answered as it was.               *)
NeverKnown(p) == FALSE   \* a mistake: a request is new each time it comes

KnownAlready(p) == received[p] # NoRequest /\ received[p].theirs = Part(p)
Ignored(p) == ~Accepts(p) \/ (asked[p] # 0 /\ p = ann)

SaysNothing(p) == UNCHANGED wire   \* a mistake: an acceptance is sent once

SaysAgain(p) ==
  IF received[p].state = "accepted" THEN Send(p, Message("accepted", received[p].ours)) ELSE UNCHANGED wire

LookAtRequest(p) ==
  /\ Next1(p, "request") /\ strangers' = strangers \ {p}
  /\ \/ /\ Ignored(p)
        /\ Done(p) /\ UNCHANGED wire
     \/ /\ ~Ignored(p) /\ KnownAlready(p)
        /\ Done(p) /\ SaysAgain(p)
     \/ /\ ~Ignored(p) /\ ~KnownAlready(p)
        /\ Reads(p, IF asked[p] # 0 THEN "asked" ELSE IF contact[p] # NoSecret THEN "contact" ELSE "stranger", 0)
        /\ UNCHANGED <<work, wire>>
  /\ UNCHANGED <<book, up, breaks>>

(* And as far as it writes: a stranger's request waits, that of a contact, *)
(* or of somebody asked, is accepted.                                      *)
AcceptsStrangers(p) ==   \* a mistake: so is a stranger's
  /\ MakesContact(p, Part(p))
  /\ asked' = IF read[p].of = "asked" THEN [asked EXCEPT ![p] = 0] ELSE asked
  /\ Send(p, Message("accepted", parts'))

Answers(p) ==
  IF read[p].of = "stranger"
  THEN /\ received' = [received EXCEPT ![p] = [state |-> "waiting", theirs |-> Part(p), ours |-> 0]]
       /\ UNCHANGED <<contact, asked, parts, wire>>
  ELSE /\ MakesContact(p, Part(p))
       /\ asked' = IF read[p].of = "asked" THEN [asked EXCEPT ![p] = 0] ELSE asked
       /\ Send(p, Message("accepted", parts'))

HandleRequest(p) ==
  /\ Doing(p, "request") /\ read[p] # Nothing
  /\ Answers(p) /\ Done(p)
  /\ UNCHANGED <<blocked, asks, accepts, agreed, forgot, kept, strangers, up, breaks>>

(* Accepted reads the request sent, if there is one, and then makes its    *)
(* inviter a contact.                                                      *)
LookAtAccepted(p) ==
  /\ Next1(p, "accepted")
  /\ IF asked[p] # 0 THEN Reads(p, "acceptance", asked[p]) /\ UNCHANGED work ELSE Done(p)
  /\ UNCHANGED <<book, strangers, link>>

HandleAccepted(p) ==
  /\ Doing(p, "accepted") /\ read[p] # Nothing /\ Done(p)
  /\ contact' = [contact EXCEPT ![p] = Secret(p, read[p].part, Part(p))]
  /\ asked' = [asked EXCEPT ![p] = 0]
  /\ Send(p, Message("confirmed", 0))
  /\ UNCHANGED <<received, blocked, parts, asks, accepts, agreed, forgot, kept, strangers, up, breaks>>

Confirmed(p) ==
  received' = IF received[p].state = "accepted" THEN [received EXCEPT ![p] = NoRequest] ELSE received

HandleConfirmed(p) ==
  /\ Next1(p, "confirmed") /\ Done(p) /\ Confirmed(p)
  /\ UNCHANGED <<contact, asked, blocked, parts, asks, accepts, agreed, forgot, kept, strangers, link>>

Work(p) ==
  HandleReady(p) \/ HandleAnswer(p) \/ LookAtRequest(p) \/ HandleRequest(p)
    \/ LookAtAccepted(p) \/ HandleAccepted(p) \/ HandleConfirmed(p)

-----------------------------------------------------------------------------
(* The connection, which one offers and the other accepts.                 *)

Arrive(p) ==
  /\ wire[p] # <<>>
  /\ wire' = [wire EXCEPT ![p] = Tail(@)]
  /\ Queue(p, Head(wire[p]))
  /\ UNCHANGED <<book, read, strangers, up, breaks>>

Connect(p) ==
  /\ ~up /\ up' = TRUE
  /\ asked[p] # 0 \/ contact[p] # NoSecret
  /\ Accepts(Other(p))
  /\ work' = [q \in People |-> Append(work[q], Ready)]
  /\ UNCHANGED <<book, read, strangers, wire, breaks>>

Disconnect ==
  /\ up /\ Cut
  /\ UNCHANGED <<book, service>>

Restart(p) ==
  /\ Cut
  /\ work' = [work EXCEPT ![p] = <<>>] /\ read' = [read EXCEPT ![p] = Nothing]
  /\ strangers' = strangers \ {p}
  /\ UNCHANGED book

Person(p) ==
  Ask(p) \/ AcceptRequest(p) \/ DeclineRequest(p) \/ Dismiss(p) \/ Remove(p) \/ Block(p) \/ Unblock(p)

Next ==
  \/ \E p \in People :
       Person(p) \/ Work(p) \/ TurnOut(p) \/ ExpireSent(p) \/ ExpireReceived(p) \/ Arrive(p) \/ Connect(p) \/ Restart(p)
  \/ Disconnect

Spec == Init /\ [][Next]_vars

(* Work is done, messages arrive, and who asked tries until answered.      *)
FairSpec ==
  Spec /\ \A p \in People : WF_vars(Work(p)) /\ WF_vars(Arrive(p)) /\ WF_vars(Connect(p) /\ asked[p] # 0)

-----------------------------------------------------------------------------
Secrets == [asker : People, asking : Parts, inviting : Parts]
Requests == [state : {"waiting", "accepted", "declined"}, theirs : Parts, ours : 0..MaxParts]
Messages == [type : {"request", "accepted", "confirmed"}, part : 0..MaxParts]

TypeOK ==
  /\ contact \in [People -> Secrets \cup {NoSecret}] /\ asked \in [People -> 0..MaxParts]
  /\ received \in [People -> Requests \cup {NoRequest}] /\ blocked \in [People -> BOOLEAN]
  /\ parts \in 0..MaxParts /\ asks \in [People -> 0..MaxAsks] /\ accepts \in Nat
  /\ agreed \in [People -> BOOLEAN] /\ kept \in [People -> BOOLEAN] /\ forgot \in BOOLEAN
  /\ \A p \in People : work[p] \in Seq(Messages \cup [type : {"ready", "answer"}, part : 0..MaxParts])
  /\ \A p \in People : read[p] \in [of : {None, "asked", "contact", "stranger", "acceptance"}, part : 0..MaxParts]
  /\ \A p \in People : wire[p] \in Seq(Messages)
  /\ strangers \subseteq People /\ up \in BOOLEAN /\ breaks \in 0..MaxBreaks

(* ADR 0026: a contact needs consent.  Nobody has a contact they neither   *)
(* asked nor accepted to be asked by, however requests cross, come again   *)
(* or are answered by themselves.                                          *)
NoContactWithoutConsent == \A p \in People : contact[p] # NoSecret => agreed[p]

(* Of one request, made once and accepted by hand at most once, two        *)
(* contacts come to share one secret, if neither went back on it: without  *)
(* it neither is told when the other is reachable.                         *)
Quiet == \A p \in People : work[p] = <<>> /\ wire[p] = <<>> /\ asked[p] = 0

ContactsShareASecret ==
  Quiet /\ contact[ann] # NoSecret /\ contact[bob] # NoSecret => contact[ann] = contact[bob]

OneRequestOneSecret ==
  asks[ann] + asks[bob] = 1 /\ accepts < 2 /\ ~forgot => ContactsShareASecret

AsksAlone(p) == asks[p] # 0 /\ asks[Other(p)] = 0

(* An acceptance reaches whoever asked, whatever is lost on its way, while *)
(* they still ask, and whoever accepted neither went back on it nor asks.  *)
AcceptanceArrives ==
  (\E p \in People : AsksAlone(p) /\ asked[p] # 0 /\ contact[Other(p)] # NoSecret)
    ~> forgot \/ ~ \E p \in People : AsksAlone(p) /\ asked[p] # 0 /\ contact[p] = NoSecret

(* The next are what the documents say, and the code does not always do:   *)
(* ContactsShareASecret, whoever asks and accepts however often (ADR       *)
(* 0012), and these.                                                       *)
(* docs/protocol/peers.md: "Two people asking each other become contacts", *)
(* once they connect.                                                      *)
TwoWhoAskBecomeContacts ==
  ~up /\ asked[ann] # 0 /\ asked[bob] # 0
    ~> \E p \in People : contact[p] # NoSecret \/ asked[p] = 0

(* ADR 0028: "Removing a contact deletes them and stops connecting to      *)
(* them", and "Blocking does the same", until the person agrees anew.      *)
RemovedStaysRemoved == \A p \in People : contact[p] # NoSecret => kept[p]

(* docs/protocol/peers.md: "a proven peer that is not a contact may send    *)
(* only a request, within 30 seconds, or it is disconnected", and nobody   *)
(* else is: the thirty seconds of one connection are over with it.         *)
OnlyStrangersAreTurnedOut ==
  [][\A p \in People : up /\ TurnOut(p) => contact[p] = NoSecret]_vars
=============================================================================
