----------------------------- MODULE SpaceState -----------------------------
(***************************************************************************)
(* One space, as Replay leaves it after each operation of its history: the *)
(* genesis, and then whatever anybody signed, in the one order every       *)
(* member computes.  The order itself is SpaceReplication's business; any  *)
(* operation may come next, since whoever holds a key may sign anything.   *)
(***************************************************************************)
EXTENDS SpaceRules

VARIABLE state

StateInit == state = Genesis

(* The next operation of the history is applied, or kept and refused.      *)
StateNext == \E op \in Operations : state' = Apply(state, op)

StateSpec == StateInit /\ [][StateNext]_state

-----------------------------------------------------------------------------
StateTypeOK == state \in States

(* A space has exactly one owner, however ownership was transferred and    *)
(* whoever was removed, promoted or left (state.go's Owner returns "the    *)
(* space's one owner", whichever it meets first).                          *)
OneOwner == \E p \in People : \A q \in People : state.rank[q] = Owner <=> q = p

(* Nothing refers to what does not exist: roles held, and roles that open  *)
(* a channel or let it be written in, are roles of the space; who is no    *)
(* member holds none and is not muted, so who comes back starts afresh;    *)
(* only a channel that exists is restricted or guarded.                    *)
NothingDangles ==
  /\ \A p \in People : state.holds[p] \subseteq state.roles
  /\ \A p \in People \ Members(state) : state.holds[p] = {} /\ p \notin state.muted
  /\ \A c \in Ids : state.readers[c] \cup state.writers[c] \subseteq state.roles
  /\ state.voice \cup state.restricted \cup state.guarded \subseteq state.channels
  /\ \A c \in Ids : /\ c \notin state.restricted => state.readers[c] = {}
                    /\ c \notin state.guarded => state.writers[c] = {}

(* The operations the space would not refuse, and what one leaves.         *)
Effective == {op \in Operations : Allowed(state, op)}
After(op) == Change(state, op)

(* Whoever an operation takes out of the space, or stops from reading a    *)
(* channel that goes on existing, the operation begins an epoch: otherwise *)
(* somebody shut out would still hold the secret the rest are found under. *)
(* Relates the table of revoking kinds in epoch.go to what apply does.     *)
LosingAccessBeginsAnEpoch ==
  \A op \in Effective : \A p \in People :
    \/ Rank(state, p) # None /\ Rank(After(op), p) = None
    \/ \E c \in After(op).channels : Sees(state, p, c) /\ ~Sees(After(op), p, c)
    => op.kind \in Revokes

(* What somebody may do in the space, and in those of its channels.        *)
Powers(s, p, channels) ==
  [rank |-> s.rank[p], muted |-> p \in s.muted,
   sees |-> {c \in channels : Sees(s, p, c)},
   writes |-> {c \in channels : Writes(s, p, c)}]

(* Nobody acts on their equals or their betters: short of the owner        *)
(* deleting the space, what an operation changes of the powers of anybody  *)
(* but its author, it changes for somebody of a lower rank.                *)
NobodyActsUpwards ==
  \A op \in Effective : \A p \in People \ {op.author} :
    LET kept == state.channels \cap After(op).channels
    IN  state.rank[p] >= state.rank[op.author] =>
          \/ After(op).deleted
          \/ Powers(state, p, kept) = Powers(After(op), p, kept)

(* An author never raises their own rank, nor unmutes themselves short of  *)
(* leaving the space.                                                      *)
NobodyPromotesThemselves ==
  \A op \in Effective :
    /\ After(op).rank[op.author] <= state.rank[op.author]
    /\ op.author \in state.muted \ After(op).muted => op.kind = "leave"

(* A channel or a role deleted is gone for good: its identifier, which is  *)
(* remembered for ever, names none again, even where a channel and a role  *)
(* had the same one and only one of them is deleted (state.go's gone).     *)
Forgets(s, t) == (s.channels \ t.channels) \cup (s.roles \ t.roles)
DeletedIdsStayDeleted ==
  [][/\ state.gone \cup Forgets(state, state') \subseteq state'.gone
     /\ state.gone \cap Forgets(state', state) = {}]_state
=============================================================================
