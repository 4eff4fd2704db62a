----------------------------- MODULE SpaceRules -----------------------------
(***************************************************************************)
(* What an operation does to a space: the ranks, the members, the roles    *)
(* and the channels of internal/spaces/state.go, as functions of a state   *)
(* and an operation.  Names are left out: renaming and introducing change  *)
(* nothing here, but are refused like every other operation.               *)
(***************************************************************************)
EXTENDS Integers, FiniteSets

CONSTANTS
  People,      \* whoever may sign an operation or be named by one
  Creator,     \* who signed the genesis
  Ids,         \* identifiers of channels and of roles, drawn from one space
  MaxMembers   \* the most members a space has (50 in the code)

ASSUME SpaceAssumption ==
  /\ Creator \in People
  /\ IsFiniteSet(People)
  /\ MaxMembers \in Nat \ {0}

None == 0
Member == 1
Administrator == 2
Owner == 3
Ranks == {None, Member, Administrator, Owner}

-----------------------------------------------------------------------------
(* Operations: what each kind names.                                       *)

Making == {"create-channel", "create-voice-channel"}
Restricting == {"restrict-channel", "restrict-writing"}
OnChannel == {"rename-channel", "delete-channel", "open-channel", "open-writing"}
OnRole == {"create-role", "rename-role", "delete-role"}
Ranking == {"make-admin", "unmake-admin", "transfer-ownership"}
Muting == {"mute-member", "unmute-member"}
Holding == {"give-role", "take-role"}
OnMember == {"add-member", "remove-member"} \cup Ranking \cup Muting
OnNothing == {"rename-space", "leave", "delete-space", "introduce"}

Operations ==
  [kind : OnNothing, author : People]
    \cup [kind : Making \cup OnChannel, author : People, channel : Ids]
    \cup [kind : Restricting, author : People, channel : Ids, roles : SUBSET Ids]
    \cup [kind : OnRole, author : People, role : Ids]
    \cup [kind : OnMember, author : People, member : People]
    \cup [kind : Holding, author : People, member : People, role : Ids]

Needs(kind) ==
  CASE kind \in {"leave", "introduce"} -> Member
    [] kind \in Ranking \cup {"delete-space"} -> Owner
    [] OTHER -> Administrator

(* The kinds that may revoke somebody's access, and so begin an epoch.     *)
RevokesButRestricting == {"remove-member", "leave", "take-role", "delete-role",
                          "unmake-admin", "delete-space"}  \* a mistake: one kind forgotten

Revokes == {"remove-member", "leave", "take-role", "delete-role",
            "restrict-channel", "unmake-admin", "delete-space"}

-----------------------------------------------------------------------------
(* A state: a person whose rank is None is no member, and a channel or a   *)
(* role not in its set does not exist.                                     *)

States ==
  [rank : [People -> Ranks], holds : [People -> SUBSET Ids], muted : SUBSET People,
   roles : SUBSET Ids, channels : SUBSET Ids, voice : SUBSET Ids,
   restricted : SUBSET Ids, readers : [Ids -> SUBSET Ids],
   guarded : SUBSET Ids, writers : [Ids -> SUBSET Ids],
   gone : SUBSET Ids, deleted : BOOLEAN]

Genesis ==
  [rank |-> [p \in People |-> IF p = Creator THEN Owner ELSE None],
   holds |-> [p \in People |-> {}], muted |-> {},
   roles |-> {}, channels |-> {}, voice |-> {},
   restricted |-> {}, readers |-> [c \in Ids |-> {}],
   guarded |-> {}, writers |-> [c \in Ids |-> {}],
   gone |-> {}, deleted |-> FALSE]

Members(s) == {p \in People : s.rank[p] # None}

(* The authority somebody holds: nobody holds any in a deleted space.      *)
Rank(s, p) == IF s.deleted THEN None ELSE s.rank[p]

Sees(s, p, c) ==
  /\ c \in s.channels /\ s.rank[p] # None /\ ~s.deleted
  /\ \/ s.rank[p] >= Administrator
     \/ c \notin s.restricted
     \/ s.holds[p] \cap s.readers[c] # {}

Reacts(s, p, c) == Sees(s, p, c) /\ p \notin s.muted

Writes(s, p, c) ==
  /\ Reacts(s, p, c)
  /\ \/ c \notin s.guarded
     \/ s.rank[p] >= Administrator
     \/ s.holds[p] \cap s.writers[c] # {}

Moderates(s, p, q) == Rank(s, p) >= Administrator /\ Rank(s, p) > Rank(s, q)

-----------------------------------------------------------------------------
(* What an operation needs of the state before it, beyond its author's     *)
(* rank; an operation not allowed is kept in the history and changes       *)
(* nothing.                                                                *)

MayRemoveAnAdministrator(s, author, member) ==   \* a mistake: administrators are equals
  s.rank[member] \in {Member, Administrator}

MayMuteAnybody(s, author, member) ==   \* a mistake: their ranks are not compared
  s.rank[member] # None

MayRemove(s, author, member) ==
  /\ s.rank[member] \in {Member, Administrator}
  /\ s.rank[member] = Administrator => s.rank[author] = Owner

MayMute(s, author, member) ==
  s.rank[member] # None /\ s.rank[author] > s.rank[member]

Applicable(s, op) ==
  /\ op.kind \in Making => op.channel \notin s.channels \cup s.gone
  /\ op.kind \in OnChannel \cup Restricting => op.channel \in s.channels
  /\ op.kind \in Restricting => op.roles \subseteq s.roles
  /\ op.kind = "add-member" => /\ s.rank[op.member] = None
                               /\ Cardinality(Members(s)) < MaxMembers
  /\ op.kind = "remove-member" => MayRemove(s, op.author, op.member)
  /\ op.kind = "leave" => s.rank[op.author] # Owner
  /\ op.kind = "create-role" => op.role \notin s.roles \cup s.gone
  /\ op.kind \in {"rename-role", "delete-role"} \cup Holding => op.role \in s.roles
  /\ op.kind \in Holding => s.rank[op.member] # None
  /\ op.kind = "make-admin" => s.rank[op.member] = Member
  /\ op.kind = "unmake-admin" => s.rank[op.member] = Administrator
  /\ op.kind = "transfer-ownership" => s.rank[op.member] \in {Member, Administrator}
  /\ op.kind \in Muting => MayMute(s, op.author, op.member)

Allowed(s, op) ==
  /\ ~s.deleted
  /\ s.rank[op.author] # None
  /\ s.rank[op.author] >= Needs(op.kind)
  /\ Applicable(s, op)

-----------------------------------------------------------------------------
(* What an operation that is allowed changes.                              *)

CreateChannel(s, op) ==
  [s EXCEPT !.channels = @ \cup {op.channel},
            !.voice = IF op.kind = "create-voice-channel" THEN @ \cup {op.channel} ELSE @]

DeleteChannelForgotten(s, c) ==   \* a mistake: the identifier may be used again
  [s EXCEPT !.channels = @ \ {c}, !.voice = @ \ {c},
            !.restricted = @ \ {c}, !.readers[c] = {},
            !.guarded = @ \ {c}, !.writers[c] = {}]

DeleteChannel(s, c) ==
  [s EXCEPT !.channels = @ \ {c}, !.voice = @ \ {c}, !.gone = @ \cup {c},
            !.restricted = @ \ {c}, !.readers[c] = {},
            !.guarded = @ \ {c}, !.writers[c] = {}]

RestrictChannel(s, c, roles) == [s EXCEPT !.restricted = @ \cup {c}, !.readers[c] = roles]
RestrictWriting(s, c, roles) == [s EXCEPT !.guarded = @ \cup {c}, !.writers[c] = roles]
OpenChannel(s, c) == [s EXCEPT !.restricted = @ \ {c}, !.readers[c] = {}]
OpenWriting(s, c) == [s EXCEPT !.guarded = @ \ {c}, !.writers[c] = {}]

AddMember(s, p) == [s EXCEPT !.rank[p] = Member]

(* Leaving is being removed: whoever comes back holds nothing of before.   *)
RemoveMember(s, p) ==
  [s EXCEPT !.rank[p] = None, !.holds[p] = {}, !.muted = @ \ {p}]

CreateRole(s, r) == [s EXCEPT !.roles = @ \cup {r}]

DeleteRoleStillReading(s, r) ==   \* a mistake: the channels it opens keep it
  [s EXCEPT !.roles = @ \ {r}, !.gone = @ \cup {r},
            !.holds = [p \in People |-> @[p] \ {r}]]

DeleteRole(s, r) ==
  [s EXCEPT !.roles = @ \ {r}, !.gone = @ \cup {r},
            !.holds = [p \in People |-> @[p] \ {r}],
            !.readers = [c \in Ids |-> @[c] \ {r}],
            !.writers = [c \in Ids |-> @[c] \ {r}]]

GiveRole(s, p, r) == [s EXCEPT !.holds[p] = @ \cup {r}]
TakeRole(s, p, r) == [s EXCEPT !.holds[p] = @ \ {r}]
MakeAdmin(s, p) == [s EXCEPT !.rank[p] = Administrator]
UnmakeAdmin(s, p) == [s EXCEPT !.rank[p] = Member]

TransferOwnershipShared(s, p, q) ==   \* a mistake: the former owner remains one
  [s EXCEPT !.rank[q] = Owner]

TransferOwnership(s, p, q) ==
  [s EXCEPT !.rank[q] = Owner, !.rank[p] = Administrator]

DeleteSpace(s) == [s EXCEPT !.deleted = TRUE]
MuteMember(s, p) == [s EXCEPT !.muted = @ \cup {p}]
UnmuteMember(s, p) == [s EXCEPT !.muted = @ \ {p}]

Change(s, op) ==
  CASE op.kind \in Making -> CreateChannel(s, op)
    [] op.kind = "delete-channel" -> DeleteChannel(s, op.channel)
    [] op.kind = "restrict-channel" -> RestrictChannel(s, op.channel, op.roles)
    [] op.kind = "restrict-writing" -> RestrictWriting(s, op.channel, op.roles)
    [] op.kind = "open-channel" -> OpenChannel(s, op.channel)
    [] op.kind = "open-writing" -> OpenWriting(s, op.channel)
    [] op.kind = "add-member" -> AddMember(s, op.member)
    [] op.kind = "remove-member" -> RemoveMember(s, op.member)
    [] op.kind = "leave" -> RemoveMember(s, op.author)
    [] op.kind = "create-role" -> CreateRole(s, op.role)
    [] op.kind = "delete-role" -> DeleteRole(s, op.role)
    [] op.kind = "give-role" -> GiveRole(s, op.member, op.role)
    [] op.kind = "take-role" -> TakeRole(s, op.member, op.role)
    [] op.kind = "make-admin" -> MakeAdmin(s, op.member)
    [] op.kind = "unmake-admin" -> UnmakeAdmin(s, op.member)
    [] op.kind = "transfer-ownership" -> TransferOwnership(s, op.author, op.member)
    [] op.kind = "delete-space" -> DeleteSpace(s)
    [] op.kind = "mute-member" -> MuteMember(s, op.member)
    [] op.kind = "unmute-member" -> UnmuteMember(s, op.member)
    [] OTHER -> s    \* renamed or introduced: only a name changes

Apply(s, op) == IF Allowed(s, op) THEN Change(s, op) ELSE s
=============================================================================
