---------------------------- MODULE SpaceMessages ----------------------------
(***************************************************************************)
(* The entries of a space's channels, as one member's store keeps them:    *)
(* who may make one, what they leave a channel showing, which texts are    *)
(* wiped, how far they are held and what another lacks of them.            *)
(* internal/spaces: entry.go, channel.go and sync.go, with makes of        *)
(* state.go, as functions of a state of the space and of entries.          *)
(***************************************************************************)
EXTENDS SpaceRules, Clock, SequencesExt

Said == {"text", "reply"}
Attached == {"picture", "file"}
EntryKinds == Said \cup Attached \cup {"reaction", "edit", "deletion"}
NoTarget == <<>>

(* An entry has its author, channel and place among the author's there,    *)
(* its moment, and an identifier drawn at random, which settles ties.  All *)
(* but what is said or attached is about a message, as an answer is.       *)
Id(e) == <<e.author, e.channel, e.n>>
IsPost(e) == e.kind \in Said \cup Attached

Makes(s, p, c, kind) == IF kind = "reaction" THEN Reacts(s, p, c) ELSE Writes(s, p, c)

(* Messages: the order every member shows them in.                         *)
EarlierThan(d, e) == Before(d.at, e.at) \/ (d.at = e.at /\ d.id < e.id)
LatestOf(entries) == CHOOSE e \in entries : \A d \in entries \ {e} : EarlierThan(d, e)

-----------------------------------------------------------------------------
(* The edits and deletions of a message that count, in a state of the      *)
(* space; a file's name is not edited.                                     *)
EditsOf(entries, m) ==
  {e \in entries : e.kind = "edit" /\ e.target = Id(m) /\ e.author = m.author /\ m.kind \notin Attached}

DeletionsOf(s, entries, m) ==
  {e \in entries : e.kind = "deletion" /\ e.target = Id(m)
                     /\ (e.author = m.author \/ Moderates(s, e.author, m.author))}

(* fold: what a message shows, of the entries held and those wiped of them.*)
(* Deleted by whatever comes last, of its edits and its deletions.         *)
ShowsDeleted(s, entries, erased, m) ==
  LET changes == EditsOf(entries, m) \cup DeletionsOf(s, entries, m)
  IN  IF changes = {} THEN m \in erased ELSE LatestOf(changes).kind = "deletion"

ShownText(s, entries, erased, m) ==
  LET last == IF EditsOf(entries, m) = {} THEN m ELSE LatestOf(EditsOf(entries, m))
  IN  IF ShowsDeleted(s, entries, erased, m) \/ last \in erased THEN NoTarget ELSE Id(last)

Reacting(s, entries, erased, m) ==
  {p \in People :
     LET of == {e \in entries : e.kind = "reaction" /\ e.target = Id(m) /\ e.author = p}
     IN  ~ShowsDeleted(s, entries, erased, m) /\ of # {} /\ LatestOf(of).on}

Posts(s, entries, erased) ==
  LET quoted(m) == {t \in entries : IsPost(t) /\ Id(t) = m.target}
  IN  {[message |-> Id(m), deleted |-> ShowsDeleted(s, entries, erased, m),
        text |-> ShownText(s, entries, erased, m), on |-> Reacting(s, entries, erased, m),
        byModerator |-> \E e \in DeletionsOf(s, entries, m) : e.author # m.author,
        quotes |-> {ShownText(s, entries, erased, t) : t \in quoted(m)}] :
         m \in {e \in entries : IsPost(e)}}

(* Channel: what is held of a channel, as it is shown.                     *)
Channel(s, entries, c, erased) == Posts(s, {e \in entries : e.channel = c}, erased)

(* compact: the texts no longer shown, of which the files are removed too. *)
Superseded(s, entries) ==
  {e \in entries :
     \E m \in entries :
       LET edits == EditsOf(entries, m)
       IN  /\ IsPost(m) /\ e \in {m} \cup edits
           /\ DeletionsOf(s, entries, m) # {} \/ (edits # {} /\ e # LatestOf(edits))}

Unfiled(s, entries) == {m \in entries : m.kind \in Attached /\ DeletionsOf(s, entries, m) # {}}

(* allows: an entry is about a message shown, of one's own or one          *)
(* moderated to delete it, of one's own to edit it.                        *)
Allows(s, entries, erased, p, kind, id) ==
  \E m \in entries :
    /\ IsPost(m) /\ Id(m) = id
    /\ ShowsDeleted(s, entries, erased, m) => kind = "reply"
    /\ kind = "edit" => m.author = p /\ m.kind \notin Attached
    /\ kind = "deletion" => m.author = p \/ Moderates(s, p, m.author)

-----------------------------------------------------------------------------
(* Write: what p writes comes after everything it wrote in the channel, of *)
(* which it looks only at how late the clocks were.                        *)
By(entries, p, c) == {e \in entries : e.author = p /\ e.channel = c}
Highest(ns) == CHOOSE n \in {0} \cup ns : \A k \in ns : k <= n

LastWall(entries) == [Never EXCEPT !.wall = Highest({e.at.wall : e \in entries})]

Written(entries, p, c, kind, about, on, physical, id) ==
  [author |-> p, channel |-> c, n |-> Highest({e.n : e \in By(entries, p, c)}) + 1,
   kind |-> kind, target |-> about, on |-> on,
   at |-> Now(LastWall(By(entries, p, c)), physical), id |-> id]

(* Holding: how far the entries of each author in each channel are held,   *)
(* with every one before.                                                  *)
UpTo(entries, c, p) ==
  LET ns == {e.n : e \in By(entries, p, c)}
  IN  Highest({n \in ns : 1..n \subseteq ns})

HeldSoFar(entries) == [c \in Ids |-> [p \in People |-> UpTo(entries, c, p)]]

(* The elements of a set in order: each where as many come before it.      *)
InOrder(S, before(_, _)) ==
  [i \in 1..Cardinality(S) |-> CHOOSE x \in S : Cardinality({y \in S : before(y, x)}) = i - 1]

(* Supply: what somebody lacks of the channels they see, in order.         *)
Supply(s, q, entries, theirs) ==
  LET authors == SetToSeq(People)
      place(p) == CHOOSE i \in DOMAIN authors : authors[i] = p
      before(d, e) == \/ d.channel < e.channel
                      \/ d.channel = e.channel /\ place(d.author) < place(e.author)
                      \/ d.channel = e.channel /\ d.author = e.author /\ d.n < e.n
  IN  InOrder({e \in entries : Sees(s, q, e.channel) /\ e.n > theirs[e.channel][e.author]}, before)
=============================================================================
