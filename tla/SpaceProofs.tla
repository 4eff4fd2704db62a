---------------------------- MODULE SpaceProofs ----------------------------
(***************************************************************************)
(* What SpaceState promises of one space, and SpaceReplication of its      *)
(* members, proved for every set of people, every set of identifiers, any  *)
(* limit on the members, and any changes, links, stamps and breaks.        *)
(***************************************************************************)
EXTENDS SpaceState, SpaceReplication, FiniteSetTheorems, SequenceTheorems,
        WellFoundedInduction, TLAPS

Kinds == OnNothing \cup Making \cup OnChannel \cup Restricting \cup OnRole
           \cup OnMember \cup Holding
Renaming == {"rename-space", "rename-channel", "rename-role", "introduce"}

(* Every operation has an author, and the fields its kind uses.            *)
LEMMA OperationFields ==
  ASSUME NEW op \in Operations
  PROVE  /\ op.author \in People
         /\ op.kind \in Kinds
         /\ op.kind \in Making \cup OnChannel \cup Restricting => op.channel \in Ids
         /\ op.kind \in Restricting => op.roles \subseteq Ids
         /\ op.kind \in OnRole \cup Holding => op.role \in Ids
         /\ op.kind \in OnMember \cup Holding => op.member \in People
BY DEF Operations, Kinds, OnNothing, Making, OnChannel, Restricting, OnRole,
       OnMember, Ranking, Muting, Holding

(* The genesis is a state.                                                 *)
LEMMA GenesisTyped == Genesis \in States
BY SpaceAssumption DEF Genesis, States, Ranks, None, Owner

(* Which change an operation makes, by its kind.                           *)
LEMMA ChangeByKind ==
  ASSUME NEW s, NEW op, op.kind \in Kinds
  PROVE  /\ op.kind \in Making => Change(s, op) = CreateChannel(s, op)
         /\ op.kind = "delete-channel" => Change(s, op) = DeleteChannel(s, op.channel)
         /\ op.kind = "restrict-channel" => Change(s, op) = RestrictChannel(s, op.channel, op.roles)
         /\ op.kind = "restrict-writing" => Change(s, op) = RestrictWriting(s, op.channel, op.roles)
         /\ op.kind = "open-channel" => Change(s, op) = OpenChannel(s, op.channel)
         /\ op.kind = "open-writing" => Change(s, op) = OpenWriting(s, op.channel)
         /\ op.kind = "add-member" => Change(s, op) = AddMember(s, op.member)
         /\ op.kind = "remove-member" => Change(s, op) = RemoveMember(s, op.member)
         /\ op.kind = "leave" => Change(s, op) = RemoveMember(s, op.author)
         /\ op.kind = "create-role" => Change(s, op) = CreateRole(s, op.role)
         /\ op.kind = "delete-role" => Change(s, op) = DeleteRole(s, op.role)
         /\ op.kind = "give-role" => Change(s, op) = GiveRole(s, op.member, op.role)
         /\ op.kind = "take-role" => Change(s, op) = TakeRole(s, op.member, op.role)
         /\ op.kind = "make-admin" => Change(s, op) = MakeAdmin(s, op.member)
         /\ op.kind = "unmake-admin" => Change(s, op) = UnmakeAdmin(s, op.member)
         /\ op.kind = "transfer-ownership" => Change(s, op) = TransferOwnership(s, op.author, op.member)
         /\ op.kind = "delete-space" => Change(s, op) = DeleteSpace(s)
         /\ op.kind = "mute-member" => Change(s, op) = MuteMember(s, op.member)
         /\ op.kind = "unmute-member" => Change(s, op) = UnmuteMember(s, op.member)
         /\ op.kind \in Renaming => Change(s, op) = s
BY DEF Change, Kinds, OnNothing, Making, OnChannel, Restricting, OnRole, OnMember, Ranking,
       Muting, Holding, Renaming

(* Each change of a state leaves a state.                                  *)
LEMMA ChannelChangesTyped ==
  ASSUME NEW s \in States, NEW c \in Ids, NEW roles \in SUBSET Ids
  PROVE  /\ \A op : op.channel = c => CreateChannel(s, op) \in States
         /\ DeleteChannel(s, c) \in States
         /\ RestrictChannel(s, c, roles) \in States
         /\ RestrictWriting(s, c, roles) \in States
         /\ OpenChannel(s, c) \in States
         /\ OpenWriting(s, c) \in States
<1>1. \A op : op.channel = c => CreateChannel(s, op) \in States
  BY DEF States, CreateChannel
<1>2. DeleteChannel(s, c) \in States
  BY DEF States, DeleteChannel
<1>3. RestrictChannel(s, c, roles) \in States /\ RestrictWriting(s, c, roles) \in States
  BY DEF States, RestrictChannel, RestrictWriting
<1>4. OpenChannel(s, c) \in States /\ OpenWriting(s, c) \in States
  BY DEF States, OpenChannel, OpenWriting
<1> QED BY <1>1, <1>2, <1>3, <1>4

LEMMA RoleChangesTyped ==
  ASSUME NEW s \in States, NEW r \in Ids
  PROVE  /\ CreateRole(s, r) \in States
         /\ DeleteRole(s, r) \in States
         /\ \A p \in People : GiveRole(s, p, r) \in States /\ TakeRole(s, p, r) \in States
BY DEF States, CreateRole, DeleteRole, GiveRole, TakeRole

LEMMA MemberChangesTyped ==
  ASSUME NEW s \in States, NEW p \in People
  PROVE  /\ AddMember(s, p) \in States
         /\ RemoveMember(s, p) \in States
         /\ MakeAdmin(s, p) \in States
         /\ UnmakeAdmin(s, p) \in States
         /\ \A q \in People : TransferOwnership(s, p, q) \in States
         /\ MuteMember(s, p) \in States
         /\ UnmuteMember(s, p) \in States
         /\ DeleteSpace(s) \in States
BY DEF States, Ranks, None, Member, Administrator, Owner, AddMember, RemoveMember, MakeAdmin,
       UnmakeAdmin, TransferOwnership, MuteMember, UnmuteMember, DeleteSpace

LEMMA ChangeTyped ==
  ASSUME NEW s \in States, NEW op \in Operations
  PROVE  Change(s, op) \in States
<1> USE OperationFields
<1>1. CASE op.kind \in Making \cup OnChannel \cup Restricting
  <2>1. op.channel \in Ids
    BY <1>1
  <2>2. CASE op.kind \in Restricting
    BY <2>1, <2>2, ChannelChangesTyped, ChangeByKind DEF Making, Restricting, Renaming
  <2>3. CASE op.kind \in Making
    <3>1. CreateChannel(s, op) \in States
      BY <2>1 DEF CreateChannel, States
    <3> QED BY <2>3, <3>1 DEF Change, Making
  <2>4. CASE op.kind \in OnChannel
    <3>1. /\ DeleteChannel(s, op.channel) \in States
          /\ OpenChannel(s, op.channel) \in States
          /\ OpenWriting(s, op.channel) \in States
      <4>1. {} \in SUBSET Ids
        OBVIOUS
      <4> QED BY <2>1, <4>1, ChannelChangesTyped
    <3> QED BY <2>4, <3>1, ChangeByKind DEF OnChannel, Renaming
  <2> QED BY <1>1, <2>2, <2>3, <2>4
<1>2. CASE op.kind \in OnRole \cup Holding
  BY <1>2, RoleChangesTyped, ChangeByKind DEF Making, OnRole, OnMember, Holding, Renaming
<1>3. CASE op.kind \in OnMember \cup OnNothing
  BY <1>3, MemberChangesTyped, ChangeByKind
  DEF Making, OnMember, OnNothing, Ranking, Muting, Renaming
<1> QED BY <1>1, <1>2, <1>3 DEF Kinds

(* Every state a space goes through is well formed (state.go, Replay).     *)
THEOREM TypeCorrect == StateSpec => []StateTypeOK
<1>1. StateInit => StateTypeOK
  BY GenesisTyped DEF StateInit, StateTypeOK
<1>2. StateTypeOK /\ [StateNext]_state => StateTypeOK'
  BY ChangeTyped DEF StateTypeOK, StateNext, Apply
<1> QED BY <1>1, <1>2, PTL DEF StateSpec

-----------------------------------------------------------------------------
RankKinds == {"add-member", "remove-member", "leave"} \cup Ranking

(* Only these six kinds touch a rank.                                      *)
LEMMA RankKept ==
  ASSUME NEW s \in States, NEW op \in Operations, op.kind \notin RankKinds
  PROVE  Change(s, op).rank = s.rank
<1>1. op.kind \in Kinds
  BY OperationFields
<1>2. \A c, r, p, roles :
        /\ CreateChannel(s, op).rank = s.rank
        /\ DeleteChannel(s, c).rank = s.rank
        /\ RestrictChannel(s, c, roles).rank = s.rank
        /\ RestrictWriting(s, c, roles).rank = s.rank
        /\ OpenChannel(s, c).rank = s.rank
        /\ OpenWriting(s, c).rank = s.rank
        /\ CreateRole(s, r).rank = s.rank
        /\ DeleteRole(s, r).rank = s.rank
        /\ GiveRole(s, p, r).rank = s.rank
        /\ TakeRole(s, p, r).rank = s.rank
        /\ DeleteSpace(s).rank = s.rank
        /\ MuteMember(s, p).rank = s.rank
        /\ UnmuteMember(s, p).rank = s.rank
  BY DEF States, CreateChannel, DeleteChannel, RestrictChannel, RestrictWriting, OpenChannel,
         OpenWriting, CreateRole, DeleteRole, GiveRole, TakeRole, DeleteSpace, MuteMember,
         UnmuteMember
<1>3. CASE op.kind \in Making \cup OnChannel \cup Restricting
  BY <1>2, <1>3, ChangeByKind, <1>1 DEF Making, OnChannel, Restricting, Renaming
<1>4. CASE op.kind \in OnRole \cup Holding
  BY <1>2, <1>4, ChangeByKind, <1>1 DEF OnRole, Holding, Renaming
<1>5. CASE op.kind \in OnMember \cup OnNothing
  BY <1>2, <1>5, ChangeByKind, <1>1 DEF OnMember, OnNothing, RankKinds, Muting, Renaming
<1> QED BY <1>1, <1>3, <1>4, <1>5 DEF Kinds

(* Exactly one owner, of any state.                                        *)
HasOneOwner(s) == \E p \in People : \A q \in People : s.rank[q] = Owner <=> q = p

LEMMA ChangeKeepsOneOwner ==
  ASSUME NEW s \in States, NEW op \in Operations, Allowed(s, op), HasOneOwner(s)
  PROVE  HasOneOwner(Change(s, op))
<1> DEFINE t == Change(s, op)
<1> USE DEF None, Member, Administrator, Owner
<1>1. s.rank \in [People -> Ranks] /\ op.author \in People
  BY OperationFields DEF States
<1>2. op.kind \in OnMember => op.member \in People
  BY OperationFields
<1>3. PICK p \in People : \A q \in People : s.rank[q] = Owner <=> q = p
  BY DEF HasOneOwner
<1>4. ASSUME \A q \in People : t.rank[q] = Owner <=> s.rank[q] = Owner
      PROVE  HasOneOwner(t)
  BY <1>3, <1>4 DEF HasOneOwner
<1>5. CASE op.kind \notin RankKinds
  BY <1>4, <1>5, RankKept
<1>6. CASE op.kind = "add-member"
  <2>1. op.member \in People /\ s.rank[op.member] # Owner
    BY <1>1, <1>2, <1>6 DEF OnMember, Allowed, Applicable
  <2>2. t.rank = [s.rank EXCEPT ![op.member] = Member]
    BY <1>6 DEF Change, Making, AddMember, States
  <2> QED BY <1>1, <1>4, <2>1, <2>2
<1>7. CASE op.kind = "remove-member"
  <2>1. op.member \in People /\ s.rank[op.member] # Owner
    BY <1>1, <1>2, <1>7 DEF OnMember, MayRemove, Allowed, Applicable
  <2>2. t.rank = [s.rank EXCEPT ![op.member] = None]
    BY <1>7 DEF Change, Making, RemoveMember, States
  <2> QED BY <1>1, <1>4, <2>1, <2>2
<1>8. CASE op.kind = "leave"
  <2>1. op.author \in People /\ s.rank[op.author] # Owner
    BY <1>1, <1>2, <1>8 DEF Allowed, Applicable
  <2>2. t.rank = [s.rank EXCEPT ![op.author] = None]
    BY <1>8 DEF Change, Making, RemoveMember, States
  <2> QED BY <1>1, <1>4, <2>1, <2>2
<1>9. CASE op.kind = "make-admin"
  <2>1. op.member \in People /\ s.rank[op.member] # Owner
    BY <1>1, <1>2, <1>9 DEF OnMember, Ranking, Allowed, Applicable
  <2>2. t.rank = [s.rank EXCEPT ![op.member] = Administrator]
    BY <1>9 DEF Change, Making, MakeAdmin, States
  <2> QED BY <1>1, <1>4, <2>1, <2>2
<1>10. CASE op.kind = "unmake-admin"
  <2>1. op.member \in People /\ s.rank[op.member] # Owner
    BY <1>1, <1>2, <1>10 DEF OnMember, Ranking, Allowed, Applicable
  <2>2. t.rank = [s.rank EXCEPT ![op.member] = Member]
    BY <1>10 DEF Change, Making, UnmakeAdmin, States
  <2> QED BY <1>1, <1>4, <2>1, <2>2
<1>11. CASE op.kind = "transfer-ownership"
  <2>1. op.member \in People /\ s.rank[op.member] # Owner
    BY <1>2, <1>11 DEF OnMember, Ranking, Allowed, Applicable
  <2>2. op.author = p
    BY <1>1, <1>3, <1>11 DEF Allowed, Needs, Ranking, Ranks
  <2>3. t.rank = [s.rank EXCEPT ![op.member] = Owner, ![op.author] = Administrator]
    BY <1>11 DEF Change, Making, TransferOwnership, States
  <2>4. \A q \in People : t.rank[q] = Owner <=> q = op.member
    BY <1>1, <1>3, <2>1, <2>2, <2>3
  <2> QED BY <2>1, <2>4 DEF HasOneOwner
<1> QED BY <1>5, <1>6, <1>7, <1>8, <1>9, <1>10, <1>11 DEF RankKinds, Ranking

(* However ownership is transferred and whoever leaves, is removed or      *)
(* promoted, a space has exactly one owner (state.go, Owner).              *)
THEOREM AlwaysOneOwner == StateSpec => []OneOwner
<1>1. StateInit => OneOwner
  BY SpaceAssumption DEF StateInit, OneOwner, Genesis, Owner, None
<1>2. StateTypeOK /\ OneOwner /\ [StateNext]_state => OneOwner'
  BY ChangeKeepsOneOwner DEF StateTypeOK, OneOwner, HasOneOwner, StateNext, Apply
<1> QED BY <1>1, <1>2, TypeCorrect, PTL DEF StateSpec

-----------------------------------------------------------------------------
(* NothingDangles, of any state.                                           *)
Tidy(s) ==
  /\ \A p \in People : s.holds[p] \subseteq s.roles
  /\ \A p \in People : s.rank[p] = None => s.holds[p] = {} /\ p \notin s.muted
  /\ \A c \in Ids : s.readers[c] \cup s.writers[c] \subseteq s.roles
  /\ s.voice \cup s.restricted \cup s.guarded \subseteq s.channels
  /\ \A c \in Ids : /\ c \notin s.restricted => s.readers[c] = {}
                    /\ c \notin s.guarded => s.writers[c] = {}

(* Each change keeps it so, under the guard it has.                        *)
LEMMA ChannelChangesTidy ==
  ASSUME NEW s \in States, Tidy(s), NEW c \in Ids, NEW roles \in SUBSET s.roles
  PROVE  /\ \A op : op.channel = c /\ c \notin s.channels => Tidy(CreateChannel(s, op))
         /\ Tidy(DeleteChannel(s, c))
         /\ c \in s.channels => Tidy(RestrictChannel(s, c, roles)) /\ Tidy(RestrictWriting(s, c, roles))
         /\ Tidy(OpenChannel(s, c))
         /\ Tidy(OpenWriting(s, c))
<1> USE DEF States, Tidy
<1>1. \A op : op.channel = c /\ c \notin s.channels => Tidy(CreateChannel(s, op))
  BY DEF CreateChannel
<1>2. Tidy(DeleteChannel(s, c))
  BY DEF DeleteChannel
<1>3. c \in s.channels => Tidy(RestrictChannel(s, c, roles))
  BY DEF RestrictChannel
<1>4. c \in s.channels => Tidy(RestrictWriting(s, c, roles))
  BY DEF RestrictWriting
<1>5. Tidy(OpenChannel(s, c))
  BY DEF OpenChannel
<1>6. Tidy(OpenWriting(s, c))
  BY DEF OpenWriting
<1> HIDE DEF States, Tidy
<1> QED BY <1>1, <1>2, <1>3, <1>4, <1>5, <1>6

LEMMA RoleChangesTidy ==
  ASSUME NEW s \in States, Tidy(s), NEW r \in Ids
  PROVE  /\ Tidy(CreateRole(s, r))
         /\ Tidy(DeleteRole(s, r))
         /\ \A p \in People : /\ r \in s.roles /\ s.rank[p] # None => Tidy(GiveRole(s, p, r))
                             /\ Tidy(TakeRole(s, p, r))
<1> USE DEF States, Tidy
<1>1. Tidy(CreateRole(s, r))
  BY DEF CreateRole
<1>2. Tidy(DeleteRole(s, r))
  BY DEF DeleteRole
<1>3. ASSUME NEW p \in People, r \in s.roles, s.rank[p] # None
      PROVE  Tidy(GiveRole(s, p, r))
  BY <1>3 DEF GiveRole
<1>4. ASSUME NEW p \in People
      PROVE  Tidy(TakeRole(s, p, r))
  BY <1>4 DEF TakeRole
<1> HIDE DEF States, Tidy
<1> QED BY <1>1, <1>2, <1>3, <1>4

LEMMA MemberChangesTidy ==
  ASSUME NEW s \in States, Tidy(s), NEW p \in People
  PROVE  /\ Tidy(AddMember(s, p))
         /\ Tidy(RemoveMember(s, p))
         /\ s.rank[p] # None => /\ Tidy(MakeAdmin(s, p))
                                /\ Tidy(UnmakeAdmin(s, p))
                                /\ Tidy(MuteMember(s, p))
         /\ \A q \in People : s.rank[p] # None /\ s.rank[q] # None => Tidy(TransferOwnership(s, p, q))
         /\ Tidy(UnmuteMember(s, p))
         /\ Tidy(DeleteSpace(s))
<1> USE DEF States, Tidy, None, Member, Administrator, Owner
<1>1. Tidy(AddMember(s, p))
  BY DEF AddMember
<1>2. Tidy(RemoveMember(s, p))
  BY DEF RemoveMember
<1>3. s.rank[p] # None => Tidy(MakeAdmin(s, p))
  BY DEF MakeAdmin
<1>4. s.rank[p] # None => Tidy(UnmakeAdmin(s, p))
  BY DEF UnmakeAdmin
<1>5. s.rank[p] # None => Tidy(MuteMember(s, p))
  BY DEF MuteMember
<1>6. ASSUME NEW q \in People, s.rank[p] # None, s.rank[q] # None
      PROVE  Tidy(TransferOwnership(s, p, q))
  BY <1>6 DEF TransferOwnership
<1>7. Tidy(UnmuteMember(s, p))
  BY DEF UnmuteMember
<1>8. Tidy(DeleteSpace(s))
  BY DEF DeleteSpace
<1> HIDE DEF States, Tidy, None, Member, Administrator, Owner
<1> QED BY <1>1, <1>2, <1>3, <1>4, <1>5, <1>6, <1>7, <1>8

(* No operation leaves a role held that is no longer one, or anything of   *)
(* a member or a channel that is gone.                                     *)
LEMMA ChangeKeepsTidy ==
  ASSUME NEW s \in States, NEW op \in Operations, Allowed(s, op), Tidy(s)
  PROVE  Tidy(Change(s, op))
<1> USE OperationFields
<1>1. CASE op.kind \in Making \cup OnChannel \cup Restricting
  <2>1. op.channel \in Ids
    BY <1>1
  <2>2. CASE op.kind \in Restricting
    <3>1. op.roles \in SUBSET s.roles /\ op.channel \in s.channels
      BY <2>2 DEF Allowed, Applicable
    <3> QED BY <2>1, <2>2, <3>1, ChannelChangesTidy DEF Change, Making, Restricting
  <2>3. CASE op.kind \in Making
    <3>1. op.channel \notin s.channels /\ {} \in SUBSET s.roles
      BY <2>3 DEF Allowed, Applicable
    <3>2. Tidy(CreateChannel(s, op))
      BY <2>1, <3>1, ChannelChangesTidy
    <3> QED BY <2>3, <3>2 DEF Change, Making
  <2>4. CASE op.kind \in OnChannel
    <3>1. /\ Tidy(DeleteChannel(s, op.channel))
          /\ Tidy(OpenChannel(s, op.channel))
          /\ Tidy(OpenWriting(s, op.channel))
      <4>1. {} \in SUBSET s.roles
        OBVIOUS
      <4> QED BY <2>1, <4>1, ChannelChangesTidy
    <3> QED BY <2>4, <3>1 DEF Change, Making, OnChannel
  <2> QED BY <1>1, <2>2, <2>3, <2>4
<1>2. CASE op.kind \in OnRole \cup Holding
  <2>1. op.kind = "give-role" => op.role \in s.roles /\ s.rank[op.member] # None
    BY DEF Allowed, Applicable, Holding
  <2> QED BY <1>2, <2>1, RoleChangesTidy DEF Change, Making, OnRole, Holding
<1>3. CASE op.kind \in OnMember \cup OnNothing
  <2>1. /\ op.kind \in Ranking \cup {"mute-member"} => s.rank[op.member] # None
        /\ s.rank[op.author] # None
    BY DEF Allowed, Applicable, MayMute, Ranking, Muting, None, Member, Administrator
  <2>2. CASE op.kind \in Ranking
    <3>1. op.member \in People /\ s.rank[op.member] # None
      BY <2>1, <2>2 DEF OnMember
    <3>2. Tidy(TransferOwnership(s, op.author, op.member))
      BY <2>1, <3>1, MemberChangesTidy
    <3>3. Tidy(MakeAdmin(s, op.member)) /\ Tidy(UnmakeAdmin(s, op.member))
      BY <3>1, MemberChangesTidy
    <3> QED BY <2>2, <3>2, <3>3 DEF Change, Making, Ranking
  <2>3. CASE op.kind \in OnMember \ Ranking
    <3>1. op.member \in People
      BY <2>3
    <3> QED BY <2>1, <2>3, <3>1, MemberChangesTidy DEF Change, Making, OnMember, Ranking, Muting
  <2>4. CASE op.kind \in OnNothing
    BY <2>4, MemberChangesTidy DEF Change, Making, OnNothing
  <2> QED BY <1>3, <2>2, <2>3, <2>4
<1> QED BY <1>1, <1>2, <1>3 DEF Kinds

(* Nothing refers to what does not exist: what is left of a deleted role,  *)
(* a deleted channel or a member gone is nothing (state.go, apply).        *)
THEOREM NothingEverDangles == StateSpec => []NothingDangles
<1>1. StateInit => Tidy(state)
  BY DEF StateInit, Tidy, Genesis
<1>2. StateTypeOK /\ Tidy(state) /\ [StateNext]_state => Tidy(state)'
  BY ChangeKeepsTidy DEF StateTypeOK, StateNext, Apply
<1>3. Tidy(state) => NothingDangles
  BY DEF Tidy, NothingDangles, Members
<1> QED BY <1>1, <1>2, <1>3, TypeCorrect, PTL DEF StateSpec

-----------------------------------------------------------------------------
(* From one state to the next, nobody is put out of the space and nobody   *)
(* stops seeing a channel that is still there.                             *)
NobodyShutOut(s, t) ==
  \A p \in People :
    /\ Rank(s, p) # None => Rank(t, p) # None
    /\ \A c \in t.channels : Sees(s, p, c) => Sees(t, p, c)

LEMMA OnlyRevokingShutsOut ==
  ASSUME NEW s \in States, NEW op \in Operations, Allowed(s, op), op.kind \notin Revokes
  PROVE  NobodyShutOut(s, Change(s, op))
<1> USE OperationFields
<1> DEFINE t == Change(s, op)
<1> SUFFICES NobodyShutOut(s, t)
  OBVIOUS
<1>1. CASE op.kind \in Making
  <2>1. t = CreateChannel(s, op)
    BY <1>1 DEF Change, Making
  <2>2. op.channel \notin s.channels
    BY <1>1 DEF Allowed, Applicable
  <2> HIDE DEF t
  <2> QED BY <2>1, <2>2 DEF CreateChannel, NobodyShutOut, Rank, Sees, States, None
<1>2. CASE op.kind = "delete-channel"
  <2>1. t = DeleteChannel(s, op.channel)
    BY <1>2 DEF Change, Making
  <2> HIDE DEF t
  <2> QED BY <2>1 DEF DeleteChannel, NobodyShutOut, Rank, Sees, States
<1>3. CASE op.kind = "restrict-writing"
  <2>1. t = RestrictWriting(s, op.channel, op.roles)
    BY <1>3 DEF Change, Making
  <2> HIDE DEF t
  <2> QED BY <2>1 DEF RestrictWriting, NobodyShutOut, Rank, Sees, States
<1>4. CASE op.kind = "open-channel"
  <2>1. t = OpenChannel(s, op.channel)
    BY <1>4 DEF Change, Making
  <2> HIDE DEF t
  <2> QED BY <2>1 DEF OpenChannel, NobodyShutOut, Rank, Sees, States
<1>5. CASE op.kind = "open-writing"
  <2>1. t = OpenWriting(s, op.channel)
    BY <1>5 DEF Change, Making
  <2> HIDE DEF t
  <2> QED BY <2>1 DEF OpenWriting, NobodyShutOut, Rank, Sees, States
<1>6. CASE op.kind = "add-member"
  <2>1. op.member \in People /\ s.rank[op.member] = None
    BY <1>6 DEF OnMember, Allowed, Applicable
  <2>2. t = AddMember(s, op.member)
    BY <1>6 DEF Change, Making
  <2> HIDE DEF t
  <2> QED BY <2>1, <2>2 DEF AddMember, NobodyShutOut, Rank, Sees, States, None, Member
<1>7. CASE op.kind = "create-role"
  <2>1. t = CreateRole(s, op.role)
    BY <1>7 DEF Change, Making
  <2> HIDE DEF t
  <2> QED BY <2>1 DEF CreateRole, NobodyShutOut, Rank, Sees, States
<1>8. CASE op.kind = "give-role"
  <2>1. op.member \in People
    BY <1>8 DEF Holding
  <2>2. t = GiveRole(s, op.member, op.role)
    BY <1>8 DEF Change, Making
  <2> HIDE DEF t
  <2> QED BY <2>1, <2>2 DEF GiveRole, NobodyShutOut, Rank, Sees, States
<1>9. CASE op.kind = "make-admin"
  <2>1. op.member \in People
    BY <1>9 DEF OnMember, Ranking
  <2>2. t = MakeAdmin(s, op.member)
    BY <1>9 DEF Change, Making
  <2> HIDE DEF t
  <2> QED BY <2>1, <2>2 DEF MakeAdmin, NobodyShutOut, Rank, Sees, States, None, Administrator
<1>10. CASE op.kind = "transfer-ownership"
  <2>1. op.member \in People /\ op.author \in People
    BY <1>10 DEF OnMember, Ranking
  <2>2. t = TransferOwnership(s, op.author, op.member)
    BY <1>10 DEF Change, Making
  <2> HIDE DEF t
  <2> QED BY <2>1, <2>2
          DEF TransferOwnership, NobodyShutOut, Rank, Sees, States, None, Administrator, Owner
<1>11. CASE op.kind \in Muting
  <2>1. t \in {MuteMember(s, op.member), UnmuteMember(s, op.member)}
    BY <1>11 DEF Change, Making, Muting
  <2> HIDE DEF t
  <2> QED BY <2>1 DEF MuteMember, UnmuteMember, NobodyShutOut, Rank, Sees, States
<1>12. CASE op.kind \in Renaming
  <2>1. t = s
    BY <1>12 DEF Change, Making, Renaming
  <2> HIDE DEF t
  <2> QED BY <2>1 DEF NobodyShutOut
<1>13. op.kind \in Kinds
  OBVIOUS
<1> HIDE DEF t
<1> QED BY <1>1, <1>2, <1>3, <1>4, <1>5, <1>6, <1>7, <1>8, <1>9, <1>10, <1>11, <1>12, <1>13
        DEF Kinds, OnNothing, Making, OnChannel, Restricting, OnRole, OnMember, Ranking,
            Muting, Holding, Renaming, Revokes

(* Whatever takes somebody out of the space, or stops them from seeing a   *)
(* channel that stays, is of a kind epoch.go's table of revocations names. *)
THEOREM AccessLostBeginsAnEpoch == StateSpec => []LosingAccessBeginsAnEpoch
<1>1. StateTypeOK => LosingAccessBeginsAnEpoch
  <2> SUFFICES ASSUME StateTypeOK, NEW op \in Operations, Allowed(state, op), op.kind \notin Revokes
               PROVE  NobodyShutOut(state, Change(state, op))
    BY DEF LosingAccessBeginsAnEpoch, Effective, After, NobodyShutOut
  <2> QED BY OnlyRevokingShutsOut DEF StateTypeOK
<1> QED BY <1>1, TypeCorrect, PTL

-----------------------------------------------------------------------------
(* An operation leaves the rank, and the mute, of everybody its author     *)
(* does not outrank, unless the author deletes the space.                  *)
LEMMA EqualsKeepRankAndMute ==
  ASSUME NEW s \in States, NEW op \in Operations, Allowed(s, op), op.kind # "delete-space",
         NEW p \in People \ {op.author}, s.rank[p] >= s.rank[op.author]
  PROVE  LET t == Change(s, op)
         IN  /\ t.rank[p] = s.rank[p]
             /\ p \in t.muted <=> p \in s.muted
             /\ ~t.deleted
<1> DEFINE t == Change(s, op)
           AsTheyWere(x) == /\ x.rank[p] = s.rank[p]
                            /\ p \in x.muted <=> p \in s.muted
                            /\ ~x.deleted
<1> USE OperationFields DEF None, Member, Administrator, Owner
<1>1. /\ s.rank \in [People -> Ranks] /\ op.author \in People /\ ~s.deleted
      /\ s.rank[op.author] # None /\ s.rank[op.author] >= Needs(op.kind)
  BY DEF States, Allowed
<1>2. CASE op.kind \in Making \cup OnChannel \cup Restricting
  <2>1. /\ AsTheyWere(CreateChannel(s, op)) /\ AsTheyWere(DeleteChannel(s, op.channel))
        /\ AsTheyWere(RestrictChannel(s, op.channel, op.roles))
        /\ AsTheyWere(RestrictWriting(s, op.channel, op.roles))
        /\ AsTheyWere(OpenChannel(s, op.channel)) /\ AsTheyWere(OpenWriting(s, op.channel)) /\ AsTheyWere(s)
    BY <1>1 DEF States, CreateChannel, DeleteChannel, RestrictChannel, RestrictWriting,
                OpenChannel, OpenWriting
  <2> HIDE DEF Kept
  <2>2. AsTheyWere(t)
    BY <1>2, <2>1 DEF Change, Making, OnChannel, Restricting
  <2> QED BY <2>2 DEF Kept
<1>3. CASE op.kind \in OnRole \cup Holding
  <2>1. /\ AsTheyWere(CreateRole(s, op.role)) /\ AsTheyWere(DeleteRole(s, op.role)) /\ AsTheyWere(s)
        /\ AsTheyWere(GiveRole(s, op.member, op.role)) /\ AsTheyWere(TakeRole(s, op.member, op.role))
    BY <1>1 DEF States, CreateRole, DeleteRole, GiveRole, TakeRole
  <2> HIDE DEF Kept
  <2>2. AsTheyWere(t)
    BY <1>3, <2>1 DEF Change, Making, OnRole, Holding
  <2> QED BY <2>2 DEF Kept
<1>4. CASE op.kind \in OnNothing
  <2>1. AsTheyWere(RemoveMember(s, op.author)) /\ AsTheyWere(s)
    BY <1>1 DEF States, RemoveMember
  <2> HIDE DEF Kept
  <2>2. AsTheyWere(t)
    BY <1>4, <2>1 DEF Change, Making, OnNothing
  <2> QED BY <2>2 DEF Kept
<1>5. ASSUME op.kind \in OnMember, op.member # p
      PROVE  AsTheyWere(t)
  <2>1. /\ AsTheyWere(AddMember(s, op.member)) /\ AsTheyWere(RemoveMember(s, op.member))
        /\ AsTheyWere(MakeAdmin(s, op.member)) /\ AsTheyWere(UnmakeAdmin(s, op.member))
        /\ AsTheyWere(TransferOwnership(s, op.author, op.member))
        /\ AsTheyWere(MuteMember(s, op.member)) /\ AsTheyWere(UnmuteMember(s, op.member))
    BY <1>1, <1>5 DEF States, AddMember, RemoveMember, MakeAdmin, UnmakeAdmin,
                      TransferOwnership, MuteMember, UnmuteMember
  <2> HIDE DEF Kept
  <2> QED BY <1>5, <2>1 DEF Change, Making, OnMember, Ranking, Muting
<1>6. CASE op.kind \in OnMember
  <2>1. op.member # p
    <3>1. op.kind \in Ranking => s.rank[op.author] = Owner /\ s.rank[op.member] # Owner
      BY <1>1, <1>6 DEF Needs, Ranking, Ranks, Allowed, Applicable
    <3>2. op.kind \in {"add-member", "remove-member"} =>
            s.rank[op.author] >= Administrator /\ s.rank[op.member] < s.rank[op.author]
      BY <1>1, <1>6 DEF Needs, OnMember, Ranking, Ranks, Allowed, Applicable, MayRemove
    <3>3. op.kind \in Muting => s.rank[op.member] < s.rank[op.author]
      BY <1>1, <1>6 DEF Muting, OnMember, Ranks, Allowed, Applicable, MayMute
    <3> QED BY <1>1, <1>6, <3>1, <3>2, <3>3 DEF OnMember, Ranks
  <2> QED BY <1>5, <1>6, <2>1
<1> QED BY <1>2, <1>3, <1>4, <1>6 DEF Kinds

(* What keeps an administrator's powers: rank and mute, since they see     *)
(* every channel and write wherever they are not muted.                    *)
LEMMA AdministratorsPowers ==
  ASSUME NEW s \in States, NEW t \in States, NEW p \in People, NEW channels,
         channels \subseteq s.channels \cap t.channels,
         s.rank[p] >= Administrator, t.rank[p] = s.rank[p], p \in t.muted <=> p \in s.muted,
         ~s.deleted, ~t.deleted
  PROVE  Powers(s, p, channels) = Powers(t, p, channels)
<1>1. \A c \in channels : Sees(s, p, c) /\ Sees(t, p, c)
  BY DEF Sees, None, Administrator, States, Ranks, Member, Owner
<1>2. \A c \in channels : Writes(s, p, c) <=> Writes(t, p, c)
  BY <1>1 DEF Writes, Reacts
<1>3. /\ (p \in s.muted) = (p \in t.muted)
      /\ {c \in channels : Sees(s, p, c)} = {c \in channels : Sees(t, p, c)}
      /\ {c \in channels : Writes(s, p, c)} = {c \in channels : Writes(t, p, c)}
  BY <1>1, <1>2
<1> QED BY <1>3 DEF Powers

(* A member who is no administrator changes nobody's powers but their own: *)
(* all they may do is introduce themselves or leave.                       *)
LEMMA MembersChangeOnlyThemselves ==
  ASSUME NEW s \in States, NEW op \in Operations, Allowed(s, op),
         s.rank[op.author] < Administrator, NEW p \in People \ {op.author}, NEW channels
  PROVE  Powers(s, p, channels) = Powers(Change(s, op), p, channels)
<1> USE DEF None, Member, Administrator, Owner
<1>1. op.kind \in {"leave", "introduce"}
  BY OperationFields DEF Allowed, Needs, States, Ranks, Ranking
<1>2. Change(s, op) \in {s, RemoveMember(s, op.author)}
  BY <1>1 DEF Change, Making
<1>3. CASE Change(s, op) = RemoveMember(s, op.author)
  <2> DEFINE t == RemoveMember(s, op.author)
  <2>1. /\ t.rank[p] = s.rank[p] /\ t.holds[p] = s.holds[p]
        /\ (p \in t.muted) = (p \in s.muted)
        /\ t.channels = s.channels /\ t.restricted = s.restricted /\ t.readers = s.readers
        /\ t.guarded = s.guarded /\ t.writers = s.writers /\ t.deleted = s.deleted
    BY OperationFields DEF RemoveMember, States
  <2> HIDE DEF t
  <2>2. \A c : (Sees(s, p, c) <=> Sees(t, p, c)) /\ (Writes(s, p, c) <=> Writes(t, p, c))
    BY <2>1 DEF Sees, Reacts, Writes
  <2>3. /\ {c \in channels : Sees(s, p, c)} = {c \in channels : Sees(t, p, c)}
        /\ {c \in channels : Writes(s, p, c)} = {c \in channels : Writes(t, p, c)}
    BY <2>2
  <2>4. Powers(s, p, channels) = Powers(t, p, channels)
    BY <2>1, <2>3 DEF Powers
  <2> QED BY <1>3, <2>4 DEF t
<1> QED BY <1>2, <1>3

(* Nobody acts on their equals or their betters, whatever the space holds. *)
THEOREM NobodyEverActsUpwards == StateSpec => []NobodyActsUpwards
<1>1. StateTypeOK => NobodyActsUpwards
  <2> SUFFICES ASSUME StateTypeOK, NEW op \in Operations, Allowed(state, op),
                      NEW p \in People \ {op.author}, state.rank[p] >= state.rank[op.author],
                      ~Change(state, op).deleted
               PROVE  LET kept == state.channels \cap Change(state, op).channels
                      IN  Powers(state, p, kept) = Powers(Change(state, op), p, kept)
    BY DEF NobodyActsUpwards, Effective, After
  <2>1. state \in States /\ Change(state, op) \in States
    BY ChangeTyped DEF StateTypeOK
  <2>2. CASE state.rank[op.author] < Administrator
    BY <2>1, <2>2, MembersChangeOnlyThemselves
  <2>3. CASE state.rank[op.author] >= Administrator
    <3>1. op.kind # "delete-space" /\ ~state.deleted
      BY <2>1 DEF Change, Making, DeleteSpace, States, Allowed
    <3>2. /\ Change(state, op).rank[p] = state.rank[p]
          /\ p \in Change(state, op).muted <=> p \in state.muted
      BY <2>1, <3>1, EqualsKeepRankAndMute
    <3>3. state.rank[p] >= Administrator
      BY <2>1, <2>3, OperationFields DEF States, Ranks, None, Member, Administrator, Owner
    <3> QED BY <2>1, <3>1, <3>2, <3>3, AdministratorsPowers
  <2> QED BY <2>1, <2>2, <2>3, OperationFields
          DEF States, Ranks, None, Member, Administrator, Owner
<1> QED BY <1>1, TypeCorrect, PTL

-----------------------------------------------------------------------------
(* Only ranking somebody raises a rank above what the owner's is, and only *)
(* adding somebody raises it from none: nothing raises that of its author. *)
LEMMA AuthorsRankFalls ==
  ASSUME NEW s \in States, NEW op \in Operations, Allowed(s, op)
  PROVE  Change(s, op).rank[op.author] <= s.rank[op.author]
<1> DEFINE t == Change(s, op)
           Falls(x) == x.rank[op.author] <= s.rank[op.author]
<1> USE OperationFields DEF None, Member, Administrator, Owner
<1>1. /\ s.rank \in [People -> Ranks] /\ op.author \in People
      /\ s.rank[op.author] \in Ranks /\ s.rank[op.author] # None
      /\ s.rank[op.author] >= Needs(op.kind)
  BY DEF States, Allowed
<1>2. CASE op.kind \in Making \cup OnChannel \cup Restricting
  <2>1. /\ Falls(CreateChannel(s, op)) /\ Falls(DeleteChannel(s, op.channel))
        /\ Falls(RestrictChannel(s, op.channel, op.roles))
        /\ Falls(RestrictWriting(s, op.channel, op.roles))
        /\ Falls(OpenChannel(s, op.channel)) /\ Falls(OpenWriting(s, op.channel)) /\ Falls(s)
    BY <1>1 DEF States, Ranks, CreateChannel, DeleteChannel, RestrictChannel, RestrictWriting,
                OpenChannel, OpenWriting
  <2> HIDE DEF Falls
  <2>2. Falls(t)
    BY <1>2, <2>1 DEF Change, Making, OnChannel, Restricting
  <2> QED BY <2>2 DEF Falls
<1>3. CASE op.kind \in OnRole \cup Holding
  <2>1. /\ Falls(CreateRole(s, op.role)) /\ Falls(DeleteRole(s, op.role)) /\ Falls(s)
        /\ Falls(GiveRole(s, op.member, op.role)) /\ Falls(TakeRole(s, op.member, op.role))
    BY <1>1 DEF States, Ranks, CreateRole, DeleteRole, GiveRole, TakeRole
  <2> HIDE DEF Falls
  <2>2. Falls(t)
    BY <1>3, <2>1 DEF Change, Making, OnRole, Holding
  <2> QED BY <2>2 DEF Falls
<1>4. CASE op.kind \in OnNothing
  <2>1. Falls(RemoveMember(s, op.author)) /\ Falls(DeleteSpace(s)) /\ Falls(s)
    BY <1>1 DEF States, Ranks, RemoveMember, DeleteSpace
  <2> HIDE DEF Falls
  <2>2. Falls(t)
    BY <1>4, <2>1 DEF Change, Making, OnNothing
  <2> QED BY <2>2 DEF Falls
<1>5. CASE op.kind \in Ranking
  <2>1. s.rank[op.author] = Owner /\ op.member \in People
    BY <1>1, <1>5 DEF Needs, Ranking, OnMember, Ranks
  <2>2. /\ Falls(MakeAdmin(s, op.member)) /\ Falls(UnmakeAdmin(s, op.member))
        /\ Falls(TransferOwnership(s, op.author, op.member))
    BY <1>1, <2>1 DEF States, Ranks, MakeAdmin, UnmakeAdmin, TransferOwnership
  <2> HIDE DEF Falls
  <2>3. Falls(t)
    BY <1>5, <2>2 DEF Change, Making, Ranking
  <2> QED BY <2>3 DEF Falls
<1>6. CASE op.kind \in OnMember \ Ranking
  <2>1. op.member \in People
    BY <1>6
  <2>2. op.kind = "add-member" => op.member # op.author
    BY <1>1 DEF Allowed, Applicable
  <2>3. /\ op.kind = "add-member" => Falls(AddMember(s, op.member))
        /\ Falls(RemoveMember(s, op.member))
        /\ Falls(MuteMember(s, op.member)) /\ Falls(UnmuteMember(s, op.member))
    BY <1>1, <2>1, <2>2
    DEF States, Ranks, AddMember, RemoveMember, MuteMember, UnmuteMember
  <2> HIDE DEF Falls
  <2>4. Falls(t)
    BY <1>6, <2>3 DEF Change, Making, OnMember, Ranking, Muting
  <2> QED BY <2>4 DEF Falls
<1> QED BY <1>2, <1>3, <1>4, <1>5, <1>6 DEF Kinds, OnMember

(* Nobody unmutes themselves: whoever unmutes outranks whom they unmute,   *)
(* and nobody removes themselves but by leaving.                           *)
LEMMA AuthorsStayMuted ==
  ASSUME NEW s \in States, NEW op \in Operations, Allowed(s, op),
         op.author \in s.muted \ Change(s, op).muted
  PROVE  op.kind = "leave"
<1> SUFFICES ASSUME op.kind # "leave" PROVE op.author \in Change(s, op).muted
  OBVIOUS
<1> USE OperationFields
<1>1. op.kind \in {"unmute-member", "remove-member"} => op.member # op.author
  <2>1. s.rank[op.author] \in Ranks /\ s.rank[op.author] >= Needs(op.kind)
    BY DEF Allowed, States
  <2>2. op.kind = "unmute-member" => s.rank[op.author] > s.rank[op.member]
    BY DEF Allowed, Applicable, Muting, MayMute
  <2>3. op.kind = "remove-member" =>
          /\ MayRemove(s, op.author, op.member)
          /\ Needs(op.kind) = Administrator
    BY DEF Allowed, Applicable, Needs, Ranking
  <2> QED BY <2>1, <2>2, <2>3 DEF MayRemove, Ranks, None, Member, Administrator, Owner
<1>2. \A x \in {s, CreateChannel(s, op), DeleteSpace(s)} : x.muted = s.muted
  BY DEF States, CreateChannel, DeleteSpace
<1>3. op.kind = "unmute-member" => op.author \in UnmuteMember(s, op.member).muted
  BY <1>1 DEF States, UnmuteMember
<1>4. op.kind = "remove-member" => op.author \in RemoveMember(s, op.member).muted
  BY <1>1 DEF States, RemoveMember
<1>5. /\ DeleteChannel(s, op.channel).muted = s.muted
      /\ RestrictChannel(s, op.channel, op.roles).muted = s.muted
      /\ RestrictWriting(s, op.channel, op.roles).muted = s.muted
      /\ OpenChannel(s, op.channel).muted = s.muted
      /\ OpenWriting(s, op.channel).muted = s.muted
  BY DEF States, DeleteChannel, RestrictChannel, RestrictWriting, OpenChannel, OpenWriting
<1>6. /\ CreateRole(s, op.role).muted = s.muted
      /\ DeleteRole(s, op.role).muted = s.muted
      /\ GiveRole(s, op.member, op.role).muted = s.muted
      /\ TakeRole(s, op.member, op.role).muted = s.muted
  BY DEF States, CreateRole, DeleteRole, GiveRole, TakeRole
<1>7. /\ AddMember(s, op.member).muted = s.muted
      /\ MakeAdmin(s, op.member).muted = s.muted
      /\ UnmakeAdmin(s, op.member).muted = s.muted
      /\ TransferOwnership(s, op.author, op.member).muted = s.muted
      /\ s.muted \subseteq MuteMember(s, op.member).muted
  BY DEF States, AddMember, MakeAdmin, UnmakeAdmin, TransferOwnership, MuteMember
<1> QED BY <1>2, <1>3, <1>4, <1>5, <1>6, <1>7 DEF Change

(* An author never raises their own rank, nor unmutes themselves short of  *)
(* leaving: state.go's apply, whatever the space holds.                    *)
THEOREM NobodyEverPromotesThemselves == StateSpec => []NobodyPromotesThemselves
<1>1. StateTypeOK => NobodyPromotesThemselves
  BY AuthorsRankFalls, AuthorsStayMuted DEF StateTypeOK, NobodyPromotesThemselves, Effective, After
<1> QED BY <1>1, TypeCorrect, PTL

-----------------------------------------------------------------------------
(* From one state to the next, what is deleted is remembered, and what is  *)
(* remembered is not made again.                                           *)
Remembers(s, t) ==
  /\ s.gone \cup Forgets(s, t) \subseteq t.gone
  /\ s.gone \cap Forgets(t, s) = {}

LEMMA ChangeRemembers ==
  ASSUME NEW s \in States, NEW op \in Operations, Allowed(s, op)
  PROVE  Remembers(s, Change(s, op))
<1> USE OperationFields
<1> DEFINE Same(t) == t.channels = s.channels /\ t.roles = s.roles /\ t.gone = s.gone
<1>1. \A t : Same(t) => Remembers(s, t)
  BY DEF Remembers, Forgets
<1>2. CASE op.kind \in Making
  <2>1. op.channel \notin s.gone
    BY <1>2 DEF Allowed, Applicable
  <2>2. Remembers(s, CreateChannel(s, op))
    BY <2>1 DEF States, CreateChannel, Remembers, Forgets
  <2> QED BY <1>2, <2>2 DEF Change, Making
<1>3. CASE op.kind \in OnChannel \cup Restricting
  <2>1. Remembers(s, DeleteChannel(s, op.channel))
    BY DEF States, DeleteChannel, Remembers, Forgets
  <2>2. /\ Same(RestrictChannel(s, op.channel, op.roles))
        /\ Same(RestrictWriting(s, op.channel, op.roles))
        /\ Same(OpenChannel(s, op.channel)) /\ Same(OpenWriting(s, op.channel)) /\ Same(s)
    BY DEF States, RestrictChannel, RestrictWriting, OpenChannel, OpenWriting
  <2> HIDE DEF Same
  <2>3. Change(s, op) = DeleteChannel(s, op.channel) \/ Same(Change(s, op))
    BY <1>3, <2>2 DEF Change, Making, OnChannel, Restricting
  <2> QED BY <1>1, <2>1, <2>3
<1>4. CASE op.kind \in OnRole \cup Holding
  <2>1. op.kind = "create-role" => op.role \notin s.gone
    BY <1>4 DEF Allowed, Applicable
  <2>2. op.kind = "create-role" => Remembers(s, CreateRole(s, op.role))
    BY <2>1 DEF States, CreateRole, Remembers, Forgets
  <2>3. Remembers(s, DeleteRole(s, op.role))
    BY DEF States, DeleteRole, Remembers, Forgets
  <2>4. Same(GiveRole(s, op.member, op.role)) /\ Same(TakeRole(s, op.member, op.role)) /\ Same(s)
    BY DEF States, GiveRole, TakeRole
  <2> HIDE DEF Same
  <2>5. \/ op.kind = "create-role" /\ Change(s, op) = CreateRole(s, op.role)
        \/ Change(s, op) = DeleteRole(s, op.role)
        \/ Same(Change(s, op))
    BY <1>4, <2>4 DEF Change, Making, OnRole, Holding
  <2> QED BY <1>1, <2>2, <2>3, <2>5
<1>5. CASE op.kind \in OnMember \cup OnNothing
  <2>1. /\ Same(AddMember(s, op.member)) /\ Same(RemoveMember(s, op.member))
        /\ Same(MakeAdmin(s, op.member)) /\ Same(UnmakeAdmin(s, op.member))
        /\ Same(TransferOwnership(s, op.author, op.member))
        /\ Same(MuteMember(s, op.member)) /\ Same(UnmuteMember(s, op.member))
    BY DEF States, AddMember, RemoveMember, MakeAdmin, UnmakeAdmin, TransferOwnership,
                MuteMember, UnmuteMember
  <2>2. Same(RemoveMember(s, op.author)) /\ Same(DeleteSpace(s)) /\ Same(s)
    BY DEF States, RemoveMember, DeleteSpace
  <2> HIDE DEF Same
  <2>3. Same(Change(s, op))
    BY <1>5, <2>1, <2>2 DEF Change, Making, OnMember, OnNothing, Ranking, Muting
  <2> QED BY <1>1, <2>3
<1> QED BY <1>2, <1>3, <1>4, <1>5 DEF Kinds

(* An identifier once deleted never names a channel or a role again        *)
(* (state.go's gone), however many are made and deleted.                   *)
THEOREM DeletedIdsAreGone == StateSpec => DeletedIdsStayDeleted
<1>1. StateTypeOK /\ [StateNext]_state
        => [/\ state.gone \cup Forgets(state, state') \subseteq state'.gone
            /\ state.gone \cap Forgets(state', state) = {}]_state
  <2> SUFFICES ASSUME StateTypeOK, NEW op \in Operations, state' = Apply(state, op), state' # state
               PROVE  Remembers(state, state')
    BY DEF StateNext, Remembers
  <2> QED BY ChangeRemembers DEF StateTypeOK, Apply
<1> QED BY <1>1, TypeCorrect, PTL DEF StateSpec, DeletedIdsStayDeleted

-----------------------------------------------------------------------------
(* Any naturals have a least, from which what is recursive is proved: of   *)
(* the things that would not hold, the first cannot exist.                 *)
LEMMA LeastNatural ==
  ASSUME NEW S \in SUBSET Nat, S # {}
  PROVE  \E n \in S : \A m \in S : n <= m
<1>1. IsWellFoundedOn(OpToRel(<, Nat), Nat)
  BY NatLessThanWellFounded
<1>2. PICK n \in S : \A m \in S : ~ (<<m, n>> \in OpToRel(<, Nat))
  BY <1>1, WFMin
<1>3. \A m \in S : <<m, n>> \in OpToRel(<, Nat) <=> m < n
  BY DEF OpToRel
<1>4. \A m \in S : ~(m < n)
  BY <1>2, <1>3, Zenon
<1> QED BY <1>4

(* Of operations there are, one has the lowest stamp.                      *)
LEMMA EarliestIsFirst ==
  ASSUME NEW some, some # {}, \A o \in some : o.stamp \in Nat
  PROVE  /\ Earliest(some) \in some
         /\ \A other \in some : Earliest(some).stamp <= other.stamp
<1>1. {o.stamp : o \in some} \in SUBSET Nat /\ {o.stamp : o \in some} # {}
  OBVIOUS
<1>2. PICK n \in {o.stamp : o \in some} : \A m \in {o.stamp : o \in some} : n <= m
  BY <1>1, LeastNatural
<1>3. \E o \in some : \A other \in some : o.stamp <= other.stamp
  BY <1>2
<1> QED BY <1>3 DEF Earliest

(* What the order makes of the operations already in order.                *)
Before(e, i) == {e[j] : j \in 1..i-1}
Follows(ops, d, e) ==
  /\ e \in Seq(ops) /\ Len(d) <= Len(e) /\ \A i \in 1..Len(d) : e[i] = d[i]
  /\ \A i \in Len(d) + 1..Len(e) : /\ Ready(ops, Before(e, i)) # {}
                                   /\ e[i] = Earliest(Ready(ops, Before(e, i)))
  /\ Ready(ops, ToSet(e)) = {}

(* Of two that follow, neither goes on after the other ends.               *)
LEMMA BeforeAll ==
  ASSUME NEW ops, NEW e \in Seq(ops)
  PROVE  /\ Before(e, Len(e) + 1) = ToSet(e)
         /\ \A i \in 1..Len(e) : Before(e, i + 1) = Before(e, i) \cup {e[i]}
<1>1. Len(e) \in Nat /\ DOMAIN e = 1..Len(e)
  BY LenProperties
<1>2. 1..(Len(e) + 1) - 1 = 1..Len(e)
  BY <1>1
<1>3. Before(e, Len(e) + 1) = ToSet(e)
  BY <1>1, <1>2, Zenon DEF Before, ToSet
<1>4. ASSUME NEW i \in 1..Len(e)
      PROVE  Before(e, i + 1) = Before(e, i) \cup {e[i]}
  <2>1. 1..(i + 1) - 1 = (1..i - 1) \cup {i}
    BY <1>1
  <2> QED BY <2>1, Zenon DEF Before
<1> QED BY <1>3, <1>4

LEMMA FollowersAgree ==
  ASSUME NEW ops, NEW d \in Seq(ops), NEW e, NEW f, Follows(ops, d, e), Follows(ops, d, f)
  PROVE  /\ \A i \in 1..Len(e) : i <= Len(f) => e[i] = f[i]
         /\ Len(f) <= Len(e)
<1>1. /\ Len(d) \in Nat /\ Len(e) \in Nat /\ Len(f) \in Nat
      /\ e \in Seq(ops) /\ f \in Seq(ops)
  BY LenProperties DEF Follows
<1> DEFINE differ == {i \in 1..Len(e) : i <= Len(f) /\ e[i] # f[i]}
<1>2. ASSUME differ # {} PROVE FALSE
  <2>1. PICK i \in differ : \A j \in differ : i <= j
    <3>1. differ \in SUBSET Nat
      BY <1>1
    <3> HIDE DEF differ
    <3> QED BY <1>2, <3>1, LeastNatural
  <2>2. \A j \in 1..i - 1 : e[j] = f[j]
    BY <1>1, <2>1
  <2>3. Before(e, i) = Before(f, i)
    BY <2>2 DEF Before
  <2>4. i \in Len(d) + 1..Len(e) /\ i \in Len(d) + 1..Len(f)
    BY <1>1, <2>1 DEF Follows
  <2> QED BY <2>1, <2>3, <2>4 DEF Follows
<1>3. ASSUME Len(e) < Len(f) PROVE FALSE
  <2>1. Before(f, Len(e) + 1) = Before(e, Len(e) + 1)
    <3>1. \A j \in 1..(Len(e) + 1) - 1 : e[j] = f[j]
      BY <1>1, <1>2, <1>3
    <3> QED BY <3>1 DEF Before
  <2>2. Len(e) + 1 \in Len(d) + 1..Len(f)
    BY <1>1, <1>3 DEF Follows
  <2>3. Ready(ops, Before(f, Len(e) + 1)) # {}
    BY <2>2 DEF Follows
  <2> QED BY <1>1, <2>1, <2>3, BeforeAll DEF Follows
<1> QED BY <1>1, <1>2, <1>3

LEMMA OneFollows ==
  ASSUME NEW ops, NEW d \in Seq(ops), NEW e, NEW f, Follows(ops, d, e), Follows(ops, d, f)
  PROVE  e = f
<1>1. Len(e) \in Nat /\ Len(f) \in Nat /\ e \in Seq(ops) /\ f \in Seq(ops)
  BY LenProperties DEF Follows
<1>2. Len(f) <= Len(e) /\ Len(e) <= Len(f)
  BY FollowersAgree
<1>3. Len(e) = Len(f)
  BY <1>1, <1>2
<1>4. \A i \in 1..Len(e) : e[i] = f[i]
  BY <1>1, <1>3, FollowersAgree
<1> QED BY <1>1, <1>3, <1>4, SeqEqual

(* The next operation leaves fewer to come.                                *)
Numbers(ops) == IsFiniteSet(ops) /\ \A o \in ops : o.stamp \in Nat
Left(ops, d) == Cardinality(ops \ ToSet(d))
Onward(ops, d) == Append(d, Earliest(Ready(ops, ToSet(d))))

LEMMA OnwardIsShorter ==
  ASSUME NEW ops, Numbers(ops), NEW d \in Seq(ops), Ready(ops, ToSet(d)) # {}
  PROVE  /\ Onward(ops, d) \in Seq(ops)
         /\ Left(ops, d) \in Nat /\ Left(ops, Onward(ops, d)) = Left(ops, d) - 1
         /\ \A e : Follows(ops, Onward(ops, d), e) => Follows(ops, d, e)
<1> DEFINE x == Earliest(Ready(ops, ToSet(d)))
<1>1. Ready(ops, ToSet(d)) \subseteq ops \ ToSet(d)
  BY DEF Ready
<1>2. x \in ops /\ x \notin ToSet(d)
  BY <1>1, EarliestIsFirst DEF Numbers
<1>3. /\ Onward(ops, d) \in Seq(ops) /\ Len(Onward(ops, d)) = Len(d) + 1
      /\ \A i \in 1..Len(d) : Onward(ops, d)[i] = d[i]
      /\ Onward(ops, d)[Len(d) + 1] = x
  BY <1>2, AppendProperties DEF Onward
<1>4. Len(d) \in Nat /\ DOMAIN d = 1..Len(d) /\ DOMAIN Onward(ops, d) = 1..Len(d) + 1
  BY <1>3, LenProperties
<1>5. ToSet(Onward(ops, d)) = ToSet(d) \cup {x}
  <2>1. 1..Len(d) + 1 = (1..Len(d)) \cup {Len(d) + 1}
    BY <1>4
  <2> HIDE DEF x
  <2>2. ToSet(Onward(ops, d)) = {Onward(ops, d)[i] : i \in (1..Len(d)) \cup {Len(d) + 1}}
    BY <1>4, <2>1 DEF ToSet
  <2>3. ToSet(d) = {d[i] : i \in 1..Len(d)}
    BY <1>4 DEF ToSet
  <2>4. \A y : y \in ToSet(Onward(ops, d)) <=> y \in ToSet(d) \/ y = x
    BY <1>3, <2>2, <2>3
  <2> QED BY <2>4
<1>6. IsFiniteSet(ops \ ToSet(d)) /\ Left(ops, d) \in Nat
  BY FS_Subset, FS_CardinalityType DEF Numbers, Left
<1>7. ops \ ToSet(Onward(ops, d)) = (ops \ ToSet(d)) \ {x}
  BY <1>5
<1>8. Left(ops, Onward(ops, d)) = Left(ops, d) - 1
  BY <1>2, <1>6, <1>7, FS_RemoveElement DEF Left
<1>9. ASSUME NEW e, Follows(ops, Onward(ops, d), e)
      PROVE  Follows(ops, d, e)
  <2>1. e \in Seq(ops) /\ Len(e) \in Nat /\ Len(d) + 1 <= Len(e)
    BY <1>3, <1>9, LenProperties DEF Follows
  <2>2. \A i \in 1..Len(d) : e[i] = d[i]
    BY <1>3, <1>4, <1>9 DEF Follows
  <2>3. e[Len(d) + 1] = x
    BY <1>3, <1>4, <1>9 DEF Follows
  <2>4. Before(e, Len(d) + 1) = ToSet(d)
    <3>1. 1..(Len(d) + 1) - 1 = 1..Len(d)
      BY <1>4
    <3> QED BY <1>4, <2>2, <3>1 DEF Before, ToSet
  <2>5. \A i \in Len(d) + 1..Len(e) : i = Len(d) + 1 \/ i \in Len(Onward(ops, d)) + 1..Len(e)
    BY <1>3, <1>4, <2>1
  <2> QED BY <1>4, <1>9, <2>1, <2>2, <2>3, <2>4, <2>5 DEF Follows
<1> QED BY <1>3, <1>6, <1>8, <1>9

LEMMA NoneFollow ==
  ASSUME NEW ops, NEW d \in Seq(ops), Ready(ops, ToSet(d)) = {}
  PROVE  Follows(ops, d, d)
BY LenProperties DEF Follows

(* Something follows, whichever are in order already.                      *)
LEMMA SomethingFollows ==
  ASSUME NEW ops, Numbers(ops)
  PROVE  \A d \in Seq(ops) : \E e : Follows(ops, d, e)
<1> DEFINE lost == {n \in Nat : \E d \in Seq(ops) : Left(ops, d) = n /\ ~\E e : Follows(ops, d, e)}
<1>1. ASSUME lost # {} PROVE FALSE
  <2>1. PICK n \in lost : \A m \in lost : n <= m
    <3>1. lost \in SUBSET Nat
      OBVIOUS
    <3> HIDE DEF lost
    <3> QED BY <1>1, <3>1, LeastNatural
  <2>2. PICK d \in Seq(ops) : Left(ops, d) = n /\ ~\E e : Follows(ops, d, e)
    BY <2>1
  <2>3. Ready(ops, ToSet(d)) # {}
    BY <2>2, NoneFollow
  <2>4. /\ Onward(ops, d) \in Seq(ops) /\ Left(ops, Onward(ops, d)) = n - 1
        /\ n \in Nat /\ ~\E e : Follows(ops, Onward(ops, d), e)
    BY <2>2, <2>3, OnwardIsShorter
  <2>5. Left(ops, Onward(ops, d)) \in Nat
    BY <2>4, FS_Subset, FS_CardinalityType DEF Numbers, Left
  <2>6. n - 1 \in lost
    BY <2>4, <2>5
  <2> QED BY <2>1, <2>4, <2>6
<1>2. \A d \in Seq(ops) : Left(ops, d) \in Nat
  BY FS_Subset, FS_CardinalityType DEF Numbers, Left
<1> QED BY <1>1, <1>2

(* The function the order is defined by exists.                            *)
Orders(ops, f) ==
  f = [done \in Seq(ops) |->
         LET next == Ready(ops, ToSet(done))
         IN  IF next = {} THEN done ELSE f[Append(done, Earliest(next))]]

LEMMA OrderExists ==
  ASSUME NEW ops, Numbers(ops)
  PROVE  \E f : Orders(ops, f)
<1> DEFINE f == [d \in Seq(ops) |-> CHOOSE e : Follows(ops, d, e)]
<1>1. \A d \in Seq(ops) : Follows(ops, d, f[d])
  BY SomethingFollows, Zenon
<1>2. ASSUME NEW d \in Seq(ops), Ready(ops, ToSet(d)) = {}
      PROVE  f[d] = d
  BY <1>1, <1>2, NoneFollow, OneFollows
<1>3. ASSUME NEW d \in Seq(ops), Ready(ops, ToSet(d)) # {}
      PROVE  f[d] = f[Append(d, Earliest(Ready(ops, ToSet(d))))]
  <2>1. Onward(ops, d) \in Seq(ops) /\ Follows(ops, d, f[Onward(ops, d)])
    BY <1>1, <1>3, OnwardIsShorter
  <2>2. f[d] = f[Onward(ops, d)]
    BY <1>1, <2>1, OneFollows
  <2> QED BY <2>2 DEF Onward
<1>4. f = [d \in Seq(ops) |-> f[d]]
  OBVIOUS
<1> HIDE DEF f
<1>5. \A d \in Seq(ops) :
        f[d] = IF Ready(ops, ToSet(d)) = {} THEN d ELSE f[Append(d, Earliest(Ready(ops, ToSet(d))))]
  BY <1>2, <1>3
<1> QED BY <1>4, <1>5 DEF Orders

(* Ordered is what follows nothing: the recursion of order, unrolled.      *)
LEMMA OrderedFollows ==
  ASSUME NEW ops, Numbers(ops)
  PROVE  Follows(ops, <<>>, Ordered(ops))
<1> DEFINE f == CHOOSE g : Orders(ops, g)
<1>1. Orders(ops, f)
  BY OrderExists
<1>2. Ordered(ops) = f[<<>>]
  BY Zenon DEF Ordered, Orders
<1> HIDE DEF f
<1> DEFINE lost == {n \in Nat : \E d \in Seq(ops) : Left(ops, d) = n /\ ~Follows(ops, d, f[d])}
<1>3. \A d \in Seq(ops) :
        f[d] = IF Ready(ops, ToSet(d)) = {} THEN d ELSE f[Onward(ops, d)]
  BY <1>1 DEF Orders, Onward
<1>4. ASSUME lost # {} PROVE FALSE
  <2>1. PICK n \in lost : \A m \in lost : n <= m
    <3>1. lost \in SUBSET Nat
      OBVIOUS
    <3> HIDE DEF lost
    <3> QED BY <1>4, <3>1, LeastNatural
  <2>2. PICK d \in Seq(ops) : Left(ops, d) = n /\ ~Follows(ops, d, f[d])
    BY <2>1
  <2>3. Ready(ops, ToSet(d)) # {}
    BY <1>3, <2>2, NoneFollow
  <2>4. /\ Onward(ops, d) \in Seq(ops) /\ Left(ops, Onward(ops, d)) = n - 1
        /\ n \in Nat /\ ~Follows(ops, Onward(ops, d), f[Onward(ops, d)])
    BY <1>3, <2>2, <2>3, OnwardIsShorter
  <2>5. Left(ops, Onward(ops, d)) \in Nat
    BY <2>4, FS_Subset, FS_CardinalityType DEF Numbers, Left
  <2>6. n - 1 \in lost
    BY <2>4, <2>5
  <2> QED BY <2>1, <2>4, <2>6
<1>5. <<>> \in Seq(ops)
  OBVIOUS
<1>6. Left(ops, <<>>) \in Nat
  BY FS_Subset, FS_CardinalityType DEF Numbers, Left
<1> QED BY <1>2, <1>4, <1>5, <1>6

(* In the order every member computes an operation comes once, and after   *)
(* all that its author had seen; what is left out comes after something    *)
(* that is not there (state.go's order).                                   *)
THEOREM OrderIsCausal ==
  ASSUME NEW ops, Numbers(ops)
  PROVE  /\ Ordered(ops) \in Seq(ops) /\ History(ops) \subseteq ops
         /\ \A i \in 1..Len(Ordered(ops)) :
              /\ Ordered(ops)[i] \notin Before(Ordered(ops), i)
              /\ Ordered(ops)[i].parents \subseteq StampsOf(Before(Ordered(ops), i))
         /\ \A o \in ops \ History(ops) : ~(o.parents \subseteq StampsOf(History(ops)))
<1> DEFINE h == Ordered(ops)
<1>1. Follows(ops, <<>>, h)
  BY OrderedFollows
<1>2. h \in Seq(ops) /\ Len(h) \in Nat /\ DOMAIN h = 1..Len(h) /\ Ready(ops, ToSet(h)) = {}
  BY <1>1, LenProperties DEF Follows
<1>3. History(ops) \subseteq ops
  BY <1>2, ElementOfSeq DEF History, ToSet
<1>4. ASSUME NEW i \in 1..Len(h)
      PROVE  h[i] \in Ready(ops, Before(h, i))
  <2>1. i \in Len(<<>>) + 1..Len(h)
    BY <1>2, EmptySeq
  <2>2. Ready(ops, Before(h, i)) # {} /\ h[i] = Earliest(Ready(ops, Before(h, i)))
    BY <1>1, <2>1 DEF Follows
  <2>3. \A o \in Ready(ops, Before(h, i)) : o.stamp \in Nat
    BY DEF Ready, Numbers
  <2> QED BY <2>2, <2>3, EarliestIsFirst
<1>5. \A o \in ops \ History(ops) : ~(o.parents \subseteq StampsOf(History(ops)))
  BY <1>2 DEF History, Ready
<1> QED BY <1>2, <1>3, <1>4, <1>5 DEF Ready

Single(ops) == \A a, b \in ops : a.stamp = b.stamp => a = b

LEMMA EarliestIsOnly ==
  ASSUME NEW some, NEW o \in some, Single(some), \A a \in some : a.stamp \in Nat,
         \A other \in some : o.stamp <= other.stamp
  PROVE  Earliest(some) = o
<1>1. Earliest(some) \in some /\ Earliest(some).stamp <= o.stamp
  BY EarliestIsFirst
<1>2. Earliest(some).stamp = o.stamp
  BY <1>1
<1> QED BY <1>1, <1>2 DEF Single

(* An operation made after all those known, with a clock later than all of *)
(* theirs, comes last.                                                     *)
LEMMA LatestComesLast ==
  ASSUME NEW ops, Numbers(ops), Single(ops), NEW o, o \notin ops, o.stamp \in Nat,
         \A x \in History(ops) : x.stamp < o.stamp,
         \A x \in ops : x.stamp # o.stamp /\ o.stamp \notin x.parents,
         o.parents \subseteq StampsOf(History(ops))
  PROVE  Ordered(ops \cup {o}) = Append(Ordered(ops), o)
<1> DEFINE h == Ordered(ops)
           all == ops \cup {o}
           e == Append(h, o)
<1>1. Follows(ops, <<>>, h)
  BY OrderedFollows
<1>2. h \in Seq(ops) /\ Len(h) \in Nat /\ DOMAIN h = 1..Len(h) /\ Ready(ops, ToSet(h)) = {}
  BY <1>1, LenProperties DEF Follows
<1>3. Numbers(all) /\ Single(all)
  BY FS_AddElement DEF Numbers, Single
<1>4. h \in Seq(all)
  BY <1>2, SeqMonotonic
<1>5. /\ e \in Seq(all) /\ Len(e) = Len(h) + 1 /\ e[Len(h) + 1] = o
      /\ \A i \in 1..Len(h) : e[i] = h[i]
  BY <1>4, AppendProperties
<1> HIDE DEF e
<1>6. \A i \in 1..Len(h) + 1 : Before(e, i) = Before(h, i)
  <2> TAKE i \in 1..Len(h) + 1
  <2>1. \A j \in 1..i - 1 : e[j] = h[j]
    BY <1>2, <1>5
  <2> QED BY <2>1 DEF Before
<1>7. ASSUME NEW i \in 1..Len(h)
      PROVE  Ready(all, Before(e, i)) # {} /\ e[i] = Earliest(Ready(all, Before(e, i)))
  <2>1. i \in Len(<<>>) + 1..Len(h)
    BY <1>2, EmptySeq
  <2>2. Ready(ops, Before(h, i)) # {} /\ h[i] = Earliest(Ready(ops, Before(h, i)))
    BY <1>1, <2>1 DEF Follows
  <2>3. h[i] \in Ready(ops, Before(h, i)) /\ \A x \in Ready(ops, Before(h, i)) : h[i].stamp <= x.stamp
    BY <2>2, EarliestIsFirst DEF Ready, Numbers
  <2>4. h[i] \in History(ops)
    BY <1>2 DEF History, ToSet
  <2>5. Ready(all, Before(h, i)) \subseteq Ready(ops, Before(h, i)) \cup {o}
    BY DEF Ready
  <2>6. h[i] \in Ready(all, Before(h, i))
    BY <2>3 DEF Ready
  <2>7. \A x \in Ready(all, Before(h, i)) : x \in all /\ x.stamp \in Nat /\ h[i].stamp <= x.stamp
    <3>1. h[i].stamp \in Nat /\ h[i].stamp < o.stamp
      BY <2>4, OrderIsCausal DEF Numbers
    <3> QED BY <1>3, <2>3, <2>5, <3>1 DEF Numbers, Ready
  <2>8. Single(Ready(all, Before(h, i)))
    BY <1>3 DEF Single, Ready
  <2>9. Earliest(Ready(all, Before(h, i))) = h[i]
    BY <2>6, <2>7, <2>8, EarliestIsOnly
  <2>10. Before(e, i) = Before(h, i) /\ e[i] = h[i]
    BY <1>2, <1>5, <1>6
  <2> QED BY <2>6, <2>9, <2>10
<1>8. Before(e, Len(h) + 1) = ToSet(h)
  BY <1>2, <1>6, BeforeAll
<1>9. Ready(all, ToSet(h)) = {o}
  <2>1. o \in Ready(all, ToSet(h))
    <3>1. o \notin ToSet(h)
      BY OrderIsCausal DEF History
    <3> QED BY <3>1 DEF Ready, History
  <2> QED BY <1>2, <2>1 DEF Ready
<1>10. Earliest({o}) = o
  BY EarliestIsFirst
<1>11. ToSet(e) = ToSet(h) \cup {o}
  <2>1. ToSet(e) = Before(e, Len(h) + 2)
    <3>1. Len(e) + 1 = Len(h) + 2
      BY <1>2, <1>5
    <3> QED BY <1>5, <3>1, BeforeAll
  <2>2. Before(e, (Len(h) + 1) + 1) = Before(e, Len(h) + 1) \cup {e[Len(h) + 1]}
    <3>1. Len(h) + 1 \in 1..Len(e)
      BY <1>2, <1>5
    <3> QED BY <1>5, <3>1, BeforeAll
  <2>3. (Len(h) + 1) + 1 = Len(h) + 2
    BY <1>2
  <2> QED BY <1>5, <1>8, <2>1, <2>2, <2>3
<1>12. Ready(all, ToSet(e)) = {}
  <2>1. SUFFICES ASSUME NEW x \in ops, x \notin ToSet(h), x.parents \subseteq StampsOf(ToSet(h) \cup {o})
                 PROVE  FALSE
    BY <1>11 DEF Ready
  <2>2. o.stamp \notin x.parents
    OBVIOUS
  <2>3. x.parents \subseteq StampsOf(ToSet(h))
    BY <2>1, <2>2 DEF StampsOf
  <2> QED BY <1>2, <2>1, <2>3 DEF Ready
<1>13. Follows(all, <<>>, e)
  <2>1. \A i \in Len(<<>>) + 1..Len(e) : i \in 1..Len(h) \/ i = Len(h) + 1
    BY <1>2, <1>5, EmptySeq
  <2>2. Len(<<>>) = 0
    BY EmptySeq
  <2>3. \A i \in Len(<<>>) + 1..Len(e) : /\ Ready(all, Before(e, i)) # {}
                                         /\ e[i] = Earliest(Ready(all, Before(e, i)))
    BY <1>5, <1>7, <1>8, <1>9, <1>10, <2>1
  <2>4. Len(<<>>) <= Len(e) /\ \A i \in 1..Len(<<>>) : e[i] = <<>>[i]
    BY <1>2, <1>5, <2>2
  <2> QED BY <1>5, <1>12, <2>3, <2>4 DEF Follows
<1>14. Follows(all, <<>>, Ordered(all))
  BY <1>3, OrderedFollows
<1>15. <<>> \in Seq(all)
  OBVIOUS
<1> QED BY <1>13, <1>14, <1>15, OneFollows DEF e

-----------------------------------------------------------------------------
(* What is computed of one thing after another: in each step a function is *)
(* applied to what the steps before it left.                               *)
Steps(n, first, each, f) ==
  f = [i \in 0..n |-> IF i = 0 THEN first ELSE each[i][f[i - 1]]]

LEMMA StepsExist ==
  ASSUME NEW n \in Nat, NEW S, NEW first \in S, NEW each \in [1..n -> [S -> S]]
  PROVE  \E f \in [0..n -> S] : Steps(n, first, each, f)
<1> DEFINE upTo(k, g) == /\ g \in [0..k -> S] /\ g[0] = first
                         /\ \A i \in 1..k : g[i] = each[i][g[i - 1]]
           lost == {k \in 0..n : ~\E g : upTo(k, g)}
<1>1. ASSUME lost # {} PROVE FALSE
  <2>1. PICK k \in lost : \A i \in lost : k <= i
    <3>1. lost \in SUBSET Nat
      OBVIOUS
    <3> HIDE DEF lost
    <3> QED BY <1>1, <3>1, LeastNatural
  <2>2. k # 0
    <3>1. upTo(0, [i \in 0..0 |-> first])
      OBVIOUS
    <3> HIDE DEF upTo
    <3> QED BY <2>1, <3>1
  <2>3. k \in 1..n /\ k - 1 \in 0..n /\ k - 1 \notin lost
    <3> HIDE DEF upTo
    <3> QED BY <2>1, <2>2
  <2>4. PICK g : upTo(k - 1, g)
    <3> HIDE DEF upTo
    <3> QED BY <2>3
  <2> DEFINE f == [i \in 0..k |-> IF i = k THEN each[k][g[k - 1]] ELSE g[i]]
  <2>5. g[k - 1] \in S /\ each[k][g[k - 1]] \in S
    BY <2>3, <2>4
  <2>6. \A i \in 0..k : i # k => i \in 0..k - 1
    BY <2>3
  <2>7. f \in [0..k -> S] /\ f[0] = first
    BY <2>3, <2>4, <2>5, <2>6
  <2>8. ASSUME NEW i \in 1..k
        PROVE  f[i] = each[i][f[i - 1]]
    <3>1. f[i - 1] = g[i - 1]
      BY <2>3
    <3>2. CASE i = k
      BY <3>1, <3>2
    <3>3. CASE i # k
      BY <2>3, <2>4, <3>1, <3>3
    <3> QED BY <3>2, <3>3
  <2> HIDE DEF f
  <2>9. upTo(k, f)
    BY <2>7, <2>8
  <2> HIDE DEF upTo
  <2> QED BY <2>1, <2>9
<1>2. PICK g : upTo(n, g)
  <2> HIDE DEF upTo
  <2> QED BY <1>1
<1>3. \A i \in 0..n : g[i] = IF i = 0 THEN first ELSE each[i][g[i - 1]]
  BY <1>2
<1>4. g = [i \in 0..n |-> g[i]] /\ g \in [0..n -> S]
  BY <1>2
<1> QED BY <1>3, <1>4 DEF Steps

LEMMA StepsAgree ==
  ASSUME NEW n \in Nat, NEW first, NEW each, NEW f, NEW g,
         Steps(n, first, each, f), Steps(n, first, each, g)
  PROVE  f = g
<1>1. /\ \A i \in 0..n : f[i] = IF i = 0 THEN first ELSE each[i][f[i - 1]]
      /\ \A i \in 0..n : g[i] = IF i = 0 THEN first ELSE each[i][g[i - 1]]
      /\ f = [i \in 0..n |-> f[i]] /\ g = [i \in 0..n |-> g[i]]
  BY DEF Steps
<1> DEFINE differ == {i \in 0..n : f[i] # g[i]}
<1>2. ASSUME differ # {} PROVE FALSE
  <2>1. PICK i \in differ : \A k \in differ : i <= k
    <3>1. differ \in SUBSET Nat
      OBVIOUS
    <3> HIDE DEF differ
    <3> QED BY <1>2, <3>1, LeastNatural
  <2>2. i # 0
    BY <1>1, <2>1
  <2>3. i \in 0..n /\ f[i] # g[i] /\ i - 1 \in 0..n /\ i - 1 \notin differ
    BY <2>1, <2>2
  <2>4. f[i - 1] = g[i - 1]
    BY <2>3
  <2>5. f[i] = each[i][f[i - 1]] /\ g[i] = each[i][g[i - 1]]
    BY <1>1, <2>2, <2>3
  <2> QED BY <2>3, <2>4, <2>5
<1>3. \A i \in 0..n : f[i] = g[i]
  BY <1>2
<1> QED BY <1>1, <1>3

-----------------------------------------------------------------------------
(* The state a history leaves of another.                                  *)
Changes(h) == h \in Seq([change : Operations, stamp : Nat, parents : SUBSET Nat])
Effects(h) == [i \in 1..Len(h) |-> Effect(h[i].change)]

From(s, h) ==
  LET left[n \in 0..Len(h)] == IF n = 0 THEN s ELSE Effect(h[n].change)[left[n - 1]]
  IN  left[Len(h)]

LEMMA EffectTyped ==
  ASSUME NEW s \in States, NEW op \in Operations
  PROVE  Effect(op)[s] = Apply(s, op) /\ Apply(s, op) \in States
BY ChangeTyped DEF Apply, Effect

LEMMA ChangesAre ==
  ASSUME NEW h, Changes(h)
  PROVE  /\ Len(h) \in Nat /\ DOMAIN h = 1..Len(h)
         /\ \A i \in 1..Len(h) : h[i].change \in Operations
<1> DEFINE some == [change : Operations, stamp : Nat, parents : SUBSET Nat]
<1>1. h \in Seq(some)
  BY DEF Changes
<1>2. \A o \in some : o.change \in Operations
  OBVIOUS
<1> HIDE DEF some
<1>3. Len(h) \in Nat /\ DOMAIN h = 1..Len(h)
  BY <1>1, LenProperties
<1>4. \A i \in 1..Len(h) : h[i] \in some
  BY <1>1, ElementOfSeq
<1> QED BY <1>2, <1>3, <1>4

LEMMA EffectsTyped ==
  ASSUME NEW h, Changes(h)
  PROVE  Effects(h) \in [1..Len(h) -> [States -> States]]
<1>1. \A i \in 1..Len(h) : Effect(h[i].change) \in [States -> States]
  BY ChangesAre, EffectTyped DEF Effect
<1> QED BY <1>1 DEF Effects

LEMMA FromSteps ==
  ASSUME NEW s \in States, NEW h, Changes(h), NEW g, Steps(Len(h), s, Effects(h), g)
  PROVE  From(s, h) = g[Len(h)] /\ From(s, h) \in States
<1> DEFINE left(f) == f = [n \in 0..Len(h) |-> IF n = 0 THEN s ELSE Effect(h[n].change)[f[n - 1]]]
<1>1. Len(h) \in Nat
  BY ChangesAre
<1>2. \A f : left(f) <=> Steps(Len(h), s, Effects(h), f)
  <2> TAKE f
  <2>1. [n \in 0..Len(h) |-> IF n = 0 THEN s ELSE Effect(h[n].change)[f[n - 1]]]
          = [n \in 0..Len(h) |-> IF n = 0 THEN s ELSE Effects(h)[n][f[n - 1]]]
    <3>1. \A n \in 0..Len(h) : n # 0 => Effects(h)[n] = Effect(h[n].change)
      BY <1>1 DEF Effects
    <3> QED BY <3>1
  <2> QED BY <2>1 DEF Steps
<1>3. From(s, h) = (CHOOSE f : left(f))[Len(h)]
  BY Zenon DEF From
<1> HIDE DEF left
<1>4. left(CHOOSE f : left(f))
  BY <1>2
<1>5. (CHOOSE f : left(f)) = g
  BY <1>1, <1>2, <1>4, StepsAgree
<1>6. PICK f \in [0..Len(h) -> States] : Steps(Len(h), s, Effects(h), f)
  BY <1>1, EffectsTyped, StepsExist
<1>7. f = g
  BY <1>1, <1>6, StepsAgree
<1>8. From(s, h) = g[Len(h)]
  BY <1>3, <1>5
<1>9. g[Len(h)] \in States
  BY <1>1, <1>6, <1>7
<1> QED BY <1>8, <1>9

LEMMA FromTyped ==
  ASSUME NEW s \in States, NEW h, Changes(h)
  PROVE  /\ From(s, h) \in States
         /\ \E g \in [0..Len(h) -> States] :
              Steps(Len(h), s, Effects(h), g) /\ From(s, h) = g[Len(h)]
<1>1. PICK g \in [0..Len(h) -> States] : Steps(Len(h), s, Effects(h), g)
  BY ChangesAre, EffectsTyped, StepsExist
<1> QED BY <1>1, FromSteps

(* One more operation is applied to what those before it left.             *)
LEMMA FromAppend ==
  ASSUME NEW s \in States, NEW h, NEW o, Changes(h), Changes(Append(h, o))
  PROVE  From(s, Append(h, o)) = Apply(From(s, h), o.change)
<1> DEFINE e == Append(h, o)
<1>1. /\ Len(h) \in Nat /\ Len(e) = Len(h) + 1 /\ e[Len(h) + 1] = o
      /\ \A i \in 1..Len(h) : e[i] = h[i]
  BY ChangesAre, AppendProperties DEF Changes
<1>2. Changes(e)
  OBVIOUS
<1> HIDE DEF e
<1>3. PICK g \in [0..Len(e) -> States] : Steps(Len(e), s, Effects(e), g) /\ From(s, e) = g[Len(e)]
  BY <1>2, FromTyped
<1>4. \A i \in 0..Len(e) : g[i] = IF i = 0 THEN s ELSE Effect(e[i].change)[g[i - 1]]
  <2>1. \A i \in 0..Len(e) : g[i] = IF i = 0 THEN s ELSE Effects(e)[i][g[i - 1]]
    BY <1>3 DEF Steps
  <2>2. \A i \in 0..Len(e) : i # 0 => Effects(e)[i] = Effect(e[i].change)
    BY <1>1 DEF Effects
  <2> QED BY <2>1, <2>2
<1> DEFINE f == [i \in 0..Len(h) |-> g[i]]
<1>5. Steps(Len(h), s, Effects(h), f)
  <2>1. \A i \in 0..Len(h) : f[i] = IF i = 0 THEN s ELSE Effects(h)[i][f[i - 1]]
    BY <1>1, <1>4 DEF Effects
  <2>2. f = [i \in 0..Len(h) |-> f[i]]
    OBVIOUS
  <2> HIDE DEF f
  <2> QED BY <2>1, <2>2 DEF Steps
<1>6. From(s, h) = g[Len(h)]
  BY <1>1, <1>5, FromSteps
<1>7. g[Len(h) + 1] = Effect(o.change)[g[Len(h)]] /\ g[Len(h)] \in States
  BY <1>1, <1>4
<1>8. o.change \in Operations
  <2>1. Len(h) + 1 \in 1..Len(e)
    BY <1>1
  <2> QED BY <1>1, <1>2, <2>1, ChangesAre
<1> QED BY <1>1, <1>3, <1>6, <1>7, <1>8, EffectTyped DEF e

LEMMA FromNothing ==
  ASSUME NEW s \in States
  PROVE  Changes(<<>>) /\ From(s, <<>>) = s
<1>1. Changes(<<>>) /\ Len(<<>>) = 0
  BY EmptySeq DEF Changes
<1>2. Steps(0, s, Effects(<<>>), [i \in 0..0 |-> s])
  BY DEF Steps
<1> QED BY <1>1, <1>2, FromSteps

(* What somebody lacks of a history is of it.                              *)
LEMMA LacksTyped ==
  ASSUME NEW ops, NEW h \in Seq(ops), NEW held
  PROVE  Lacks(h, held) \in Seq(ops)
<1> DEFINE each == [i \in 1..Len(h) |-> [s \in Seq(ops) |-> IF h[i] \in held THEN s ELSE Append(s, h[i])]]
           lacks(f) == f = [n \in 0..Len(h) |->
                             IF n = 0 THEN <<>>
                             ELSE IF h[n] \in held THEN f[n - 1] ELSE Append(f[n - 1], h[n])]
<1>1. Len(h) \in Nat /\ \A i \in 1..Len(h) : h[i] \in ops
  BY LenProperties, ElementOfSeq
<1>2. each \in [1..Len(h) -> [Seq(ops) -> Seq(ops)]]
  BY <1>1
<1>3. PICK g \in [0..Len(h) -> Seq(ops)] : Steps(Len(h), <<>>, each, g)
  <2>1. <<>> \in Seq(ops)
    OBVIOUS
  <2> HIDE DEF each
  <2> QED BY <1>1, <1>2, <2>1, StepsExist
<1>4. lacks(g)
  <2>1. \A n \in 0..Len(h) : g[n] = IF n = 0 THEN <<>> ELSE each[n][g[n - 1]]
    BY <1>3 DEF Steps
  <2>2. ASSUME NEW n \in 0..Len(h), n # 0
        PROVE  g[n] = IF h[n] \in held THEN g[n - 1] ELSE Append(g[n - 1], h[n])
    <3>1. n \in 1..Len(h) /\ n - 1 \in 0..Len(h)
      BY <1>1, <2>2
    <3>2. g[n] = each[n][g[n - 1]]
      BY <2>1, <2>2
    <3>3. g[n - 1] \in Seq(ops)
      BY <3>1
    <3>4. each[n] = [s \in Seq(ops) |-> IF h[n] \in held THEN s ELSE Append(s, h[n])]
      BY <3>1
    <3> HIDE DEF each
    <3> QED BY <3>2, <3>3, <3>4
  <2>3. g = [n \in 0..Len(h) |-> g[n]]
    OBVIOUS
  <2> QED BY <2>1, <2>2, <2>3
<1>5. Lacks(h, held) = (CHOOSE f : lacks(f))[Len(h)]
  BY Zenon DEF Lacks
<1> DEFINE f == CHOOSE x : lacks(x)
<1> HIDE DEF lacks
<1>6. lacks(f)
  BY <1>4
<1> HIDE DEF f
<1>7. /\ f[0] = <<>>
      /\ \A n \in 1..Len(h) : f[n] = IF h[n] \in held THEN f[n - 1] ELSE Append(f[n - 1], h[n])
  <2>1. \A n \in 0..Len(h) : f[n] = IF n = 0 THEN <<>>
                                 ELSE IF h[n] \in held THEN f[n - 1] ELSE Append(f[n - 1], h[n])
    BY <1>6 DEF lacks
  <2>2. 0 \in 0..Len(h) /\ \A n \in 1..Len(h) : n \in 0..Len(h) /\ n # 0
    BY <1>1
  <2> QED BY <2>1, <2>2
<1> DEFINE lost == {n \in 0..Len(h) : f[n] \notin Seq(ops)}
<1>8. ASSUME lost # {} PROVE FALSE
  <2>1. PICK n \in lost : \A i \in lost : n <= i
    <3>1. lost \in SUBSET Nat
      BY <1>1
    <3> HIDE DEF lost
    <3> QED BY <1>8, <3>1, LeastNatural
  <2>2. n # 0
    <3>1. <<>> \in Seq(ops)
      OBVIOUS
    <3> QED BY <1>7, <2>1, <3>1
  <2>3. n \in 1..Len(h) /\ n - 1 \in 0..Len(h) /\ n - 1 \notin lost
    BY <1>1, <2>1, <2>2
  <2>4. f[n - 1] \in Seq(ops) /\ h[n] \in ops
    BY <1>1, <2>3
  <2>5. f[n] \in Seq(ops)
    <3>1. Append(f[n - 1], h[n]) \in Seq(ops)
      BY <2>4, AppendProperties
    <3> QED BY <1>7, <2>3, <2>4, <3>1
  <2> QED BY <2>1, <2>5
<1>9. f[Len(h)] \in Seq(ops)
  BY <1>1, <1>8
<1> QED BY <1>5, <1>9 DEF f

(* Of some places in a history one is the last.                            *)
LEMMA LastPlace ==
  ASSUME NEW n \in Nat, NEW S \in SUBSET (1..n), S # {}
  PROVE  Max(S) \in S
<1> DEFINE back == {n - i : i \in S}
<1>1. PICK m \in back : \A k \in back : m <= k
  <2>1. back \in SUBSET Nat /\ back # {}
    <3>1. \A i \in S : n - i \in Nat
      OBVIOUS
    <3> QED BY <3>1
  <2> HIDE DEF back
  <2> QED BY <2>1, LeastNatural
<1>2. PICK i \in S : m = n - i
  OBVIOUS
<1>3. \A j \in S : i >= j
  <2> TAKE j \in S
  <2>1. n - j \in back
    OBVIOUS
  <2>2. n - i <= n - j
    BY <1>1, <1>2, <2>1
  <2> QED BY <2>2
<1> QED BY <1>3 DEF Max

(* A sequence of one.                                                      *)
LEMMA OneOf ==
  ASSUME NEW S, NEW x \in S
  PROVE  <<x>> \in Seq(S)
OBVIOUS

LEMMA OrderedNothing == Ordered({}) = <<>>
<1>1. Numbers({}) /\ Follows({}, <<>>, Ordered({}))
  BY FS_EmptySet, OrderedFollows DEF Numbers
<1>2. Ordered({}) \in Seq({})
  BY <1>1 DEF Follows
<1> QED BY <1>2

-----------------------------------------------------------------------------
(* Of more operations the order leaves none out that it did not already.   *)
LEMMA HistoryGrows ==
  ASSUME NEW ops, NEW more, Numbers(ops), Numbers(more), ops \subseteq more
  PROVE  History(ops) \subseteq History(more)
<1> DEFINE h == Ordered(ops)
           lost == {i \in 1..Len(h) : h[i] \notin History(more)}
<1>1. h \in Seq(ops) /\ Len(h) \in Nat /\ DOMAIN h = 1..Len(h)
  BY OrderIsCausal, LenProperties
<1>2. ASSUME lost # {} PROVE FALSE
  <2>1. PICK i \in lost : \A j \in lost : i <= j
    <3>1. lost \in SUBSET Nat
      BY <1>1
    <3> HIDE DEF lost
    <3> QED BY <1>2, <3>1, LeastNatural
  <2>2. \A j \in 1..i - 1 : h[j] \in History(more)
    BY <1>1, <2>1
  <2>3. Before(h, i) \subseteq History(more)
    BY <2>2 DEF Before
  <2>4. h[i].parents \subseteq StampsOf(Before(h, i))
    BY <2>1, OrderIsCausal
  <2>5. h[i].parents \subseteq StampsOf(History(more))
    BY <2>3, <2>4 DEF StampsOf
  <2>6. h[i] \in more \ History(more)
    BY <1>1, <2>1, ElementOfSeq
  <2> QED BY <2>5, <2>6, OrderIsCausal
<1>3. \A i \in 1..Len(h) : h[i] \in History(more)
  BY <1>2
<1> QED BY <1>1, <1>3 DEF History, ToSet

-----------------------------------------------------------------------------
(* Everything that is kept.                                                *)
AllKnown == UNION {known[p] : p \in People}

Types == {"ready", "lost", "space-sync", "space-operation", "space-invitation"}

(* Messages of q's for p, where the operations made are some of made, who  *)
(* keeps the space is in, and what is kept is all: only who keeps the space *)
(* says what they hold and invites, only to who keeps it are operations    *)
(* sent, and whatever an operation comes after is kept by somebody.        *)
Message(made, in, all, p, q) ==
  {m \in [type : Types, ops : {x \in SUBSET made : IsFiniteSet(x)}] :
     /\ m.type \in {"ready", "lost"} => m.ops = {}
     /\ m.type \in {"space-sync", "space-invitation"} => q \in in /\ m.ops \subseteq all
     /\ m.type = "space-operation" =>
          p \in in /\ \E o \in made : m.ops = {o} /\ o.parents \subseteq StampsOf(all)}

Boxes(box, made, in, all) ==
  /\ DOMAIN box = People /\ \A p \in People : DOMAIN box[p] = People
  /\ \A p, q \in People : box[p][q] \in Seq(Message(made, in, all, p, q))

Waits(box, made, in, all) ==
  /\ DOMAIN box = People /\ \A p \in People : DOMAIN box[p] = People
  /\ \A p, q \in People : box[p][q] \in Seq(Message(made, in, all, q, p))

KeptWell(made) ==
  /\ made \subseteq Ops /\ Single(made)
  /\ known \in [People -> SUBSET made]
  /\ \A p \in People : IsFiniteSet(known[p])
  /\ \A p \in People \ inside : known[p] = {}
  /\ \A o \in AllKnown : o.parents \subseteq StampsOf(AllKnown)

InvitedWell(made) ==
  /\ DOMAIN invitation = People
  /\ \A p \in People : \A i \in invitation[p] :
       /\ p \notin inside /\ i[1] \in inside
       /\ i[2] \subseteq AllKnown /\ i[2] \subseteq made /\ IsFiniteSet(i[2])

Replayed ==
  /\ space \in [People -> States]
  /\ \A p \in inside : space[p] = Replay(known[p])

Among(made) ==
  /\ situation \in Situations /\ inside \subseteq People
  /\ ready \in [People -> SUBSET People] /\ joined \in [People -> SUBSET inside]
  /\ up \subseteq Links /\ breaks \in 0..situation.breaks
  /\ KeptWell(made) /\ InvitedWell(made) /\ Replayed
  /\ Boxes(inbox, made, inside, AllKnown) /\ Waits(pending, made, inside, AllKnown)

(* The inductive invariant: those operations are the ones there are.       *)
RInv == Among(Made)

(* The operations there are, are all that any of those bounds lets be.     *)
LEMMA MessagesShrink ==
  ASSUME NEW made, NEW some, NEW in, NEW all, NEW p, NEW q,
         NEW s \in Seq(Message(made, in, all, p, q)), \A m \in ToSet(s) : m.ops \subseteq some
  PROVE  s \in Seq(Message(some, in, all, p, q))
<1>1. Len(s) \in Nat /\ DOMAIN s = 1..Len(s) /\ s = [i \in 1..Len(s) |-> s[i]]
  BY LenProperties
<1>2. ASSUME NEW i \in 1..Len(s)
      PROVE  s[i] \in Message(some, in, all, p, q)
  <2>1. s[i] \in Message(made, in, all, p, q) /\ s[i].ops \subseteq some
    BY <1>1, <1>2, ElementOfSeq DEF ToSet
  <2> QED BY <2>1 DEF Message
<1>3. s \in [1..Len(s) -> Message(some, in, all, p, q)]
  BY <1>1, <1>2
<1> QED BY <1>1, <1>3, SeqDef

LEMMA MessagesGrow ==
  ASSUME NEW made, NEW some, NEW in, NEW ins, NEW all, NEW more, NEW p, NEW q,
         made \subseteq some, in \subseteq ins, all \subseteq more
  PROVE  Message(made, in, all, p, q) \subseteq Message(some, ins, more, p, q)
BY DEF Message, StampsOf

LEMMA BoxesGrow ==
  ASSUME NEW made, NEW some, NEW in, NEW ins, NEW all, NEW more, NEW box,
         made \subseteq some, in \subseteq ins, all \subseteq more
  PROVE  /\ Boxes(box, made, in, all) => Boxes(box, some, ins, more)
         /\ Waits(box, made, in, all) => Waits(box, some, ins, more)
<1>1. \A p, q \in People : Message(made, in, all, p, q) \subseteq Message(some, ins, more, p, q)
  BY MessagesGrow
<1>2. \A p, q \in People : Seq(Message(made, in, all, p, q)) \subseteq Seq(Message(some, ins, more, p, q))
  BY <1>1, SeqMonotonic
<1> QED BY <1>2 DEF Boxes, Waits

(* So it is enough that a step leaves nothing beyond some bound.           *)
LEMMA OnlyWhatIsMade ==
  ASSUME NEW made, Among(made)'
  PROVE  RInv'
<1>1. DOMAIN inbox' = People /\ DOMAIN pending' = People
  BY DEF Among, Boxes, Waits
<1>2. \A p, q \in People : \A m \in ToSet(inbox'[p][q]) \cup ToSet(pending'[q][p]) : m.ops \subseteq made
  <2> SUFFICES ASSUME NEW p \in People, NEW q \in People,
                      NEW m \in ToSet(inbox'[p][q]) \cup ToSet(pending'[q][p])
               PROVE  m.ops \subseteq made
    OBVIOUS
  <2>1. /\ inbox'[p][q] \in Seq(Message(made, inside', AllKnown', p, q))
        /\ pending'[q][p] \in Seq(Message(made, inside', AllKnown', p, q))
    BY DEF Among, Boxes, Waits
  <2>2. m \in Message(made, inside', AllKnown', p, q)
    BY <2>1, ElementOfSeq, LenProperties DEF ToSet
  <2> QED BY <2>2 DEF Message
<1>3. Travelling' \subseteq made
  BY <1>2 DEF Travelling
<1>4. Invited' \subseteq made
  BY DEF Among, InvitedWell, Invited
<1>5. \A p \in People : known'[p] \subseteq made
  BY DEF Among, KeptWell
<1>6. Made' \subseteq made
  <2>1. UNION {known'[p] : p \in People} \subseteq made
    BY <1>5
  <2> QED BY <1>3, <1>4, <2>1 DEF Made
<1>7. /\ \A p \in People : known'[p] \subseteq Made'
      /\ Travelling' \subseteq Made' /\ Invited' \subseteq Made'
  BY Zenon DEF Made
<1>8. KeptWell(Made)'
  <2> QED BY <1>6, <1>7 DEF Among, KeptWell, Single
<1>9. InvitedWell(Made)'
  <2>1. \A p \in People : \A i \in invitation'[p] : i[2] \subseteq Invited'
    <3> DEFINE of(p) == UNION {i[2] : i \in invitation'[p]}
    <3>1. Invited' = UNION {of(p) : p \in People}
      BY DEF Invited
    <3>2. \A p \in People : \A i \in invitation'[p] : i[2] \subseteq of(p)
      BY Zenon
    <3> HIDE DEF of
    <3>3. \A p \in People : of(p) \subseteq Invited'
      BY <3>1, Zenon
    <3> QED BY <3>2, <3>3
  <2> QED BY <1>7, <2>1 DEF Among, InvitedWell
<1>10. \A p, q \in People : \A m \in ToSet(inbox'[p][q]) \cup ToSet(pending'[q][p]) : m.ops \subseteq Made'
  <2>1. \A p, q \in People : \A m \in ToSet(inbox'[p][q]) \cup ToSet(pending'[q][p]) : m.ops \subseteq Travelling'
    <3> DEFINE both(p, q) == UNION {m.ops : m \in ToSet(inbox'[p][q]) \cup ToSet(pending'[q][p])}
               to(p) == UNION {both(p, q) : q \in People}
    <3>1. Travelling' = UNION {to(p) : p \in People}
      BY DEF Travelling
    <3>2. \A p, q \in People :
            \A m \in ToSet(inbox'[p][q]) \cup ToSet(pending'[q][p]) : m.ops \subseteq both(p, q)
      BY Zenon
    <3> HIDE DEF both
    <3>3. \A p, q \in People : both(p, q) \subseteq to(p)
      BY Zenon
    <3> HIDE DEF to
    <3>4. \A p \in People : to(p) \subseteq Travelling'
      BY <3>1, Zenon
    <3> QED BY <3>2, <3>3, <3>4
  <2> QED BY <1>7, <2>1
<1>11. \A p, q \in People :
         /\ inbox'[p][q] \in Seq(Message(Made', inside', AllKnown', p, q))
         /\ pending'[q][p] \in Seq(Message(Made', inside', AllKnown', p, q))
  <2> SUFFICES ASSUME NEW p \in People, NEW q \in People
               PROVE  /\ inbox'[p][q] \in Seq(Message(Made', inside', AllKnown', p, q))
                      /\ pending'[q][p] \in Seq(Message(Made', inside', AllKnown', p, q))
    OBVIOUS
  <2>1. /\ inbox'[p][q] \in Seq(Message(made, inside', AllKnown', p, q))
        /\ pending'[q][p] \in Seq(Message(made, inside', AllKnown', p, q))
    BY DEF Among, Boxes, Waits
  <2>2. /\ \A m \in ToSet(inbox'[p][q]) : m.ops \subseteq Made'
        /\ \A m \in ToSet(pending'[q][p]) : m.ops \subseteq Made'
    BY <1>10
  <2> QED BY <2>1, <2>2, MessagesShrink
<1>12. /\ Boxes(inbox, Made, inside, AllKnown)'
       /\ Waits(pending, Made, inside, AllKnown)'
  BY <1>11 DEF Among, Boxes, Waits
<1> QED BY <1>8, <1>9, <1>12 DEF RInv, Among

(* What a step does to messages: it sends some, takes one, puts some in    *)
(* their place, or passes on an operation.                                 *)
LEMMA SentWell ==
  ASSUME NEW box, NEW made, NEW in, NEW all, Boxes(box, made, in, all), NEW p \in People, NEW out,
         \A q \in People : out[q] \in Seq(Message(made, in, all, q, p))
  PROVE  Boxes(Sent(box, p, out), made, in, all)
<1>1. \A q \in People : box[q][p] \o out[q] \in Seq(Message(made, in, all, q, p))
  BY ConcatProperties DEF Boxes
<1>2. ASSUME NEW q \in People
      PROVE  /\ DOMAIN Sent(box, p, out)[q] = People
             /\ \A r \in People : Sent(box, p, out)[q][r] \in Seq(Message(made, in, all, q, r))
  BY <1>1 DEF Sent, Boxes
<1> QED BY <1>2 DEF Sent, Boxes

LEMMA TakenWell ==
  ASSUME NEW made, NEW in, NEW all, Boxes(inbox, made, in, all),
         NEW p \in People, NEW q \in People, inbox[p][q] # <<>>
  PROVE  /\ Boxes(Taken(p, q), made, in, all)
         /\ Head(inbox[p][q]) \in Message(made, in, all, p, q)
<1>1. inbox[p][q] \in Seq(Message(made, in, all, p, q))
  BY DEF Boxes
<1>2. /\ Tail(inbox[p][q]) \in Seq(Message(made, in, all, p, q))
      /\ Head(inbox[p][q]) \in Message(made, in, all, p, q)
  BY <1>1, HeadTailProperties
<1> QED BY <1>2 DEF Boxes, Taken

LEMMA PutWell ==
  ASSUME NEW box, NEW made, NEW in, NEW all, Boxes(box, made, in, all),
         NEW p \in People, NEW q \in People, NEW s, NEW t,
         s \in Seq(Message(made, in, all, p, q)), t \in Seq(Message(made, in, all, q, p))
  PROVE  Boxes([box EXCEPT ![p][q] = s, ![q][p] = t], made, in, all)
BY DEF Boxes

(* What is passed on of an operation, to those that opened the space.      *)
LEMMA ToldWell ==
  ASSUME NEW made, NEW in, NEW all, NEW p \in People, NEW from, NEW o \in made, NEW view,
         joined \in [People -> SUBSET in], o.parents \subseteq StampsOf(all)
  PROVE  \A q \in People : Told(p, from, o, view)[q] \in Seq(Message(made, in, all, q, p))
<1>1. IsFiniteSet({o})
  BY FS_Singleton
<1>2. ASSUME NEW q \in in
      PROVE  Op(o) \in Message(made, in, all, q, p)
  BY <1>1, <1>2 DEF Op, Message, Types
<1>3. ASSUME NEW q \in People
      PROVE  Told(p, from, o, view)[q] \in Seq(Message(made, in, all, q, p))
  <2>1. q \in joined[p] => <<Op(o)>> \in Seq(Message(made, in, all, q, p))
    BY <1>2
  <2> QED BY <2>1 DEF Told
<1> QED BY <1>3

(* An operation somebody makes of what they know is new, and comes after   *)
(* what is kept.                                                           *)
LEMMA MakesWell ==
  ASSUME RInv, NEW ops, ops \subseteq AllKnown, ops \subseteq Made, IsFiniteSet(ops),
         NEW change, change \in situation.changes \cup [kind : {"introduce", "leave"}, author : People],
         NEW o \in Makes(ops, change)
  PROVE  /\ o \in Ops /\ o \notin Made /\ Made \cup {o} \subseteq Ops
         /\ o.change = change /\ o.stamp \in Nat /\ o.parents \subseteq StampsOf(History(ops))
         /\ History(ops) \subseteq ops /\ o.parents \subseteq StampsOf(AllKnown)
         /\ Single(Made \cup {o}) /\ o.stamp \notin StampsOf(Made)
         /\ \A x \in History(ops) : x.stamp < o.stamp
<1>1. situation \in Situations /\ Made \subseteq Ops /\ Single(Made)
  BY DEF RInv, Among, KeptWell
<1>2. Stamps \subseteq Nat
  BY <1>1, ReplicationAssumption DEF Stamps
<1>3. \A x \in Ops : x.stamp \in Stamps
  BY DEF Ops
<1>4. Numbers(ops)
  BY <1>1, <1>2, <1>3 DEF Numbers
<1>5. History(ops) \subseteq ops
  BY <1>4, OrderIsCausal
<1>6. /\ o = [change |-> change, stamp |-> o.stamp, parents |-> Heads(ops)]
      /\ o.stamp \in Stamps \ StampsOf(Made) /\ \A x \in History(ops) : x.stamp < o.stamp
  BY DEF Makes
<1>7. o.parents \subseteq StampsOf(History(ops)) /\ o.change = change
  <2>1. o.parents = Heads(ops) /\ o.change = change
    BY <1>6
  <2> QED BY <2>1 DEF Heads
<1>8. StampsOf(History(ops)) \subseteq Stamps /\ StampsOf(History(ops)) \subseteq StampsOf(AllKnown)
  BY <1>1, <1>3, <1>5 DEF StampsOf
<1>9. o \in Ops
  <2>1. Heads(ops) \in SUBSET Stamps
    BY <1>8 DEF Heads
  <2> QED BY <1>6, <2>1 DEF Ops
<1>10. o \notin Made /\ Single(Made \cup {o})
  BY <1>1, <1>6 DEF Single, StampsOf
<1> QED BY <1>1, <1>2, <1>5, <1>6, <1>7, <1>8, <1>9, <1>10

(* A state is what any operations leave.                                   *)
LEMMA OpsAre ==
  ASSUME RInv
  PROVE  /\ situation \in Situations /\ Founded \in States
         /\ Ops \subseteq [change : Operations, stamp : Nat, parents : SUBSET Nat]
<1>1. situation \in Situations
  BY DEF RInv, Among
<1>2. Founded \in States /\ Stamps \subseteq Nat /\ situation.changes \subseteq Operations
  BY <1>1, ReplicationAssumption DEF Founded, Stamps
<1>3. [kind : {"introduce", "leave"}, author : People] \subseteq Operations
  BY DEF Operations, OnNothing
<1> QED BY <1>1, <1>2, <1>3 DEF Ops

(* Operations there are can be put in order, and replayed.                *)
LEMMA OrderedChanges ==
  ASSUME RInv, NEW ops, ops \subseteq Ops, IsFiniteSet(ops)
  PROVE  Numbers(ops) /\ Changes(Ordered(ops))
<1>1. Numbers(ops)
  BY OpsAre DEF Numbers
<1>2. Ordered(ops) \in Seq(ops)
  BY <1>1, OrderIsCausal
<1>3. ops \subseteq [change : Operations, stamp : Nat, parents : SUBSET Nat]
  BY OpsAre
<1> QED BY <1>1, <1>2, <1>3, SeqMonotonic DEF Changes

LEMMA ReplayIsFrom == \A ops : Replay(ops) = From(Founded, Ordered(ops))
BY DEF Replay, Applying, From

LEMMA ReplayTyped ==
  ASSUME RInv, NEW ops, ops \subseteq Ops, IsFiniteSet(ops)
  PROVE  Replay(ops) \in States
<1> DEFINE h == Ordered(ops)
<1>1. Changes(h) /\ Founded \in States
  BY OrderedChanges, OpsAre
<1> HIDE DEF h
<1> QED BY <1>1, FromTyped, ReplayIsFrom DEF h

LEMMA AllKnownMade == AllKnown \subseteq Made
<1>1. \A p \in People : known[p] \subseteq Made
  BY Zenon DEF Made
<1> QED BY <1>1 DEF AllKnown

(* Whatever somebody makes of operations comes last of them, so that it is *)
(* judged, and applied, by the state they leave.                           *)
LEMMA OwnIsLast ==
  ASSUME RInv, NEW ops, ops \subseteq AllKnown, ops \subseteq Made, IsFiniteSet(ops),
         NEW change, change \in situation.changes \cup [kind : {"introduce", "leave"}, author : People],
         NEW o \in Makes(ops, change)
  PROVE  /\ Replay(ops) \in States
         /\ Ordered(ops \cup {o}) = Append(Ordered(ops), o)
         /\ Replay(ops \cup {o}) = Apply(Replay(ops), change)
         /\ LastRefused(ops \cup {o}) <=> ~Allowed(Replay(ops), change)
<1>1. /\ o \in Ops /\ o \notin Made /\ o.change = change /\ o.stamp \in Nat
      /\ o.parents \subseteq StampsOf(History(ops)) /\ o.stamp \notin StampsOf(Made)
      /\ \A x \in History(ops) : x.stamp < o.stamp
  BY MakesWell
<1>2. /\ Made \subseteq Ops /\ Single(Made)
      /\ \A x \in AllKnown : x.parents \subseteq StampsOf(AllKnown)
  BY DEF RInv, Among, KeptWell
<1>3. Numbers(ops) /\ Changes(Ordered(ops)) /\ Ordered(ops) \in Seq(ops)
  BY <1>2, OrderedChanges, OrderIsCausal
<1>4. Single(ops) /\ o \notin ops
  BY <1>1, <1>2 DEF Single
<1>5. \A x \in ops : x.stamp # o.stamp /\ o.stamp \notin x.parents
  <2>1. \A x \in ops : x.stamp # o.stamp
    BY <1>1 DEF StampsOf
  <2>2. StampsOf(AllKnown) \subseteq StampsOf(Made)
    BY AllKnownMade DEF StampsOf
  <2> QED BY <1>1, <1>2, <2>1, <2>2
<1>6. Ordered(ops \cup {o}) = Append(Ordered(ops), o)
  BY <1>1, <1>3, <1>4, <1>5, LatestComesLast
<1>7. Changes(Append(Ordered(ops), o))
  <2>1. IsFiniteSet(ops \cup {o}) /\ ops \cup {o} \subseteq Ops
    BY <1>1, <1>2, FS_AddElement
  <2> QED BY <1>6, <2>1, OrderedChanges
<1>8. /\ From(Founded, Ordered(ops)) \in States
      /\ From(Founded, Append(Ordered(ops), o)) = Apply(From(Founded, Ordered(ops)), change)
  BY <1>1, <1>3, <1>7, FromAppend, FromTyped, OpsAre
<1>9. Replay(ops) \in States /\ Replay(ops \cup {o}) = Apply(Replay(ops), change)
  BY <1>6, <1>8, ReplayIsFrom
<1>10. LastRefused(ops \cup {o}) <=> ~Allowed(Replay(ops), change)
  <2> DEFINE h == Ordered(ops)
             e == Append(h, o)
  <2>1. /\ Len(e) = Len(h) + 1 /\ e[Len(h) + 1] = o /\ Len(h) \in Nat
    BY <1>3, AppendProperties, LenProperties, ChangesAre DEF Changes
  <2>2. SubSeq(e, 1, Len(e) - 1) = h
    BY <1>3, <2>1 DEF Changes
  <2>3. Applying(h) = Replay(ops)
    BY DEF Replay
  <2>4. LastRefused(ops \cup {o}) = Refused(e, Len(e))
    BY <1>6 DEF LastRefused
  <2> HIDE DEF e, h
  <2> QED BY <1>1, <2>1, <2>2, <2>3, <2>4 DEF Refused
<1> QED BY <1>6, <1>9, <1>10

-----------------------------------------------------------------------------
(* Who keeps operations keeps the space, and what those come after.        *)
LEMMA KeepsWell ==
  ASSUME RInv, NEW made, Made \subseteq made, made \subseteq Ops, Single(made),
         NEW p \in People, NEW ops, ops \subseteq made, IsFiniteSet(ops), known[p] \subseteq ops,
         \A x \in ops : x.parents \subseteq StampsOf(AllKnown \cup ops),
         known' = [known EXCEPT ![p] = ops], situation' = situation,
         inside \subseteq inside', p \in inside'
  PROVE  KeptWell(made)' /\ AllKnown \subseteq AllKnown' /\ ops \subseteq AllKnown'
<1>1. /\ known \in [People -> SUBSET Made] /\ \A q \in People : IsFiniteSet(known[q])
      /\ \A q \in People \ inside : known[q] = {}
      /\ \A o \in AllKnown : o.parents \subseteq StampsOf(AllKnown)
  BY DEF RInv, Among, KeptWell
<1>2. Ops' = Ops
  BY DEF Ops, Stamps
<1>3. AllKnown' = AllKnown \cup ops
  <2>1. \A q \in People : known[q] \subseteq known'[q] /\ known'[q] \subseteq known[q] \cup ops
    BY <1>1
  <2>2. known'[p] = ops
    BY <1>1
  <2>3. AllKnown \subseteq AllKnown' /\ ops \subseteq AllKnown'
    BY <2>1, <2>2 DEF AllKnown
  <2>4. AllKnown' \subseteq AllKnown \cup ops
    BY <2>1 DEF AllKnown
  <2> QED BY <2>3, <2>4
<1>4. \A o \in AllKnown' : o.parents \subseteq StampsOf(AllKnown')
  BY <1>1, <1>3 DEF StampsOf
<1>5. known' \in [People -> SUBSET made] /\ \A q \in People : IsFiniteSet(known'[q])
  BY <1>1
<1>6. \A q \in People \ inside' : known'[q] = {}
  BY <1>1
<1> QED BY <1>2, <1>3, <1>4, <1>5, <1>6 DEF KeptWell

(* A step that keeps nothing more, and sends what it may.                  *)
LEMMA KnowsAlready ==
  ASSUME RInv, NEW made, Made \subseteq made, made \subseteq Ops, Single(made),
         UNCHANGED <<situation, inside, known>>
  PROVE  KeptWell(made)' /\ AllKnown' = AllKnown
<1>1. Ops' = Ops /\ AllKnown' = AllKnown
  BY DEF Ops, Stamps, AllKnown
<1> QED BY <1>1 DEF RInv, Among, KeptWell

(* A member's state is what their operations replay to, where those stay   *)
(* and where there are others.                                             *)
LEMMA ReplayedAlready ==
  ASSUME RInv, UNCHANGED <<situation, inside, known, space>>
  PROVE  Replayed'
<1>1. \A ops : Replay(ops)' = Replay(ops)
  BY DEF Replay, Applying, Founded
<1> QED BY <1>1 DEF RInv, Among, Replayed

LEMMA Replays ==
  ASSUME RInv, NEW p \in People, NEW ops, ops \subseteq Ops, IsFiniteSet(ops),
         known' = [known EXCEPT ![p] = ops], space' = [space EXCEPT ![p] = Replay(ops)],
         situation' = situation, inside' \subseteq inside \cup {p}
  PROVE  Replayed'
<1>1. Replay(ops) \in States
  BY ReplayTyped
<1>2. \A some : Replay(some)' = Replay(some)
  BY DEF Replay, Applying, Founded
<1>3. DOMAIN known = People
  BY DEF RInv, Among, KeptWell
<1> QED BY <1>1, <1>2, <1>3 DEF RInv, Among, Replayed

LEMMA InvitedAlready ==
  ASSUME RInv, NEW made, Made \subseteq made, UNCHANGED <<inside, invitation>>, AllKnown \subseteq AllKnown'
  PROVE  InvitedWell(made)'
BY DEF RInv, Among, InvitedWell

(* Each action keeps all of it.  A member's own change is judged, and      *)
(* applied, by the state they saw.                                         *)
LEMMA OperateKeeps ==
  ASSUME RInv, NEW p \in People, NEW change \in situation.changes, Operate(p, change)
  PROVE  RInv' /\ Allowed(space[p], change) /\ space'[p] = Apply(space[p], change)
<1> DEFINE added == {q \in People : change.kind = "add-member" /\ change.member = q}
<1>1. PICK o \in Operated(known[p], change) :
        LET ops == known[p] \cup {o}
            invite == Invite(History(ops))
        IN  /\ Kept(p, ops, State(p, {o}))
            /\ PassedOn(p, {}, o, State(p, {o}), inbox, Delivered(p, added, invite))
            /\ Deferred(p, added, invite)
  BY DEF Operate
<1> DEFINE ops == known[p] \cup {o}
           invite == Invite(History(ops))
           all == AllKnown \cup ops
<1>2. p \in inside /\ UNCHANGED <<situation, inside, invitation, ready, up, breaks>>
  BY DEF Operate
<1>3. /\ known \in [People -> SUBSET Made] /\ IsFiniteSet(known[p]) /\ Made \subseteq Ops
      /\ \A x \in AllKnown : x.parents \subseteq StampsOf(AllKnown)
      /\ space[p] = Replay(known[p]) /\ DOMAIN space = People
  BY <1>2 DEF RInv, Among, KeptWell, Replayed
<1>4. known[p] \subseteq AllKnown /\ known[p] \subseteq Made
  BY <1>3 DEF AllKnown
<1>5. o \in Makes(known[p], change) /\ ~LastRefused(ops)
  BY DEF Operated
<1>6. /\ Made \cup {o} \subseteq Ops /\ Single(Made \cup {o})
      /\ o.parents \subseteq StampsOf(AllKnown)
  BY <1>3, <1>4, <1>5, MakesWell
<1>7. Replay(ops) = Apply(space[p], change) /\ Allowed(space[p], change)
  BY <1>3, <1>4, <1>5, OwnIsLast
<1>8. PICK made : made = Made \cup {o}
  OBVIOUS
<1>9. /\ ops \subseteq made /\ IsFiniteSet(ops) /\ ops \subseteq Ops
      /\ \A x \in ops : x.parents \subseteq StampsOf(AllKnown \cup ops)
  BY <1>3, <1>4, <1>6, <1>8, FS_AddElement DEF StampsOf
<1>10. known' = [known EXCEPT ![p] = ops] /\ space' = [space EXCEPT ![p] = Replay(ops)]
  BY <1>1 DEF Kept, State
<1>11. KeptWell(made)' /\ AllKnown \subseteq AllKnown' /\ ops \subseteq AllKnown'
  BY <1>2, <1>6, <1>8, <1>9, <1>10, KeepsWell
<1>12. History(ops) \subseteq ops /\ IsFiniteSet(History(ops))
  BY <1>9, OrderedChanges, OrderIsCausal, FS_Subset
<1>13. \A q \in People : invite \in Message(made, inside', AllKnown', q, p)
  BY <1>2, <1>9, <1>11, <1>12 DEF Invite, Message, Types
<1>14. Boxes(inbox, made, inside', AllKnown') /\ Waits(pending, made, inside', AllKnown')
  BY <1>2, <1>8, <1>11, BoxesGrow DEF RInv, Among
<1>15. joined \in [People -> SUBSET inside']
  BY <1>2 DEF RInv, Among
<1>16. \A q \in People : Told(p, {}, o, State(p, {o}))[q] \in Seq(Message(made, inside', AllKnown', q, p))
  <2>1. o \in made /\ o.parents \subseteq StampsOf(AllKnown')
    BY <1>6, <1>8, <1>11 DEF StampsOf
  <2> QED BY <1>15, <2>1, ToldWell
<1>17. \A q \in People : Delivered(p, added, invite)[q] \in Seq(Message(made, inside', AllKnown', q, p))
  <2> HIDE DEF invite, added
  <2>1. \A q \in People : <<invite>> \in Seq(Message(made, inside', AllKnown', q, p))
    BY <1>13
  <2> QED BY <2>1 DEF Delivered
<1>18. Boxes(inbox', made, inside', AllKnown')
  <2> DEFINE out == [q \in People |-> Told(p, {}, o, State(p, {o}))[q] \o Delivered(p, added, invite)[q]]
  <2>1. inbox' = Sent(inbox, p, out)
    BY <1>1 DEF PassedOn
  <2>2. \A q \in People : out[q] \in Seq(Message(made, inside', AllKnown', q, p))
    BY <1>16, <1>17, ConcatProperties
  <2> HIDE DEF out
  <2> QED BY <1>14, <2>1, <2>2, SentWell
<1>19. Waits(pending', made, inside', AllKnown')
  <2>1. \A q \in People : Append(pending[p][q], invite) \in Seq(Message(made, inside', AllKnown', q, p))
    BY <1>13, <1>14, AppendProperties DEF Waits
  <2> QED BY <1>1, <1>14, <2>1 DEF Deferred, Waits
<1>20. joined' \in [People -> SUBSET inside']
  BY <1>1, <1>15 DEF PassedOn, StillJoined
<1>21. Replayed' /\ InvitedWell(made)'
  BY <1>2, <1>8, <1>9, <1>10, <1>11, Replays, InvitedAlready
<1>22. Among(made)'
  <2>1. situation' \in Situations /\ inside' \subseteq People /\ Links' = Links
    BY <1>2 DEF RInv, Among, Links
  <2>2. ready' \in [People -> SUBSET People] /\ up' \subseteq Links' /\ breaks' \in 0..situation'.breaks
    BY <1>2, <2>1 DEF RInv, Among
  <2> QED BY <1>11, <1>18, <1>19, <1>20, <1>21, <2>1, <2>2 DEF Among
<1>23. RInv'
  BY <1>22, OnlyWhatIsMade
<1> QED BY <1>3, <1>7, <1>10, <1>23

(* A step that keeps nothing more, and sends and remembers what it may.    *)
LEMMA Quiet ==
  ASSUME RInv, NEW made, Made \subseteq made, made \subseteq Ops, Single(made),
         UNCHANGED <<situation, inside, known, space>>, InvitedWell(made)',
         ready' \in [People -> SUBSET People], joined' \in [People -> SUBSET inside],
         up' \subseteq Links, breaks' \in 0..situation.breaks,
         Boxes(inbox', made, inside, AllKnown), Waits(pending', made, inside, AllKnown)
  PROVE  RInv'
<1>1. KeptWell(made)' /\ AllKnown' = AllKnown
  BY KnowsAlready
<1>2. Replayed'
  BY ReplayedAlready
<1>3. situation' \in Situations /\ inside' \subseteq People /\ Links' = Links
  BY DEF RInv, Among, Links
<1>4. Boxes(inbox', made, inside', AllKnown') /\ Waits(pending', made, inside', AllKnown')
  BY <1>1
<1>5. Among(made)'
  BY <1>1, <1>2, <1>3, <1>4 DEF Among
<1> QED BY <1>5, OnlyWhatIsMade

LEMMA AlreadyMade ==
  ASSUME RInv
  PROVE  /\ Made \subseteq Ops /\ Single(Made)
         /\ Boxes(inbox, Made, inside, AllKnown) /\ Waits(pending, Made, inside, AllKnown)
         /\ ready \in [People -> SUBSET People] /\ joined \in [People -> SUBSET inside]
         /\ up \subseteq Links /\ breaks \in 0..situation.breaks
         /\ known \in [People -> SUBSET Made] /\ \A p \in People : IsFiniteSet(known[p])
         /\ inside \subseteq People /\ situation \in Situations
BY DEF RInv, Among, KeptWell

(* What is sent to one.                                                    *)
LEMMA OneIsSent ==
  ASSUME NEW made, NEW in, NEW all, NEW p \in People, NEW q \in People, NEW out,
         out \in Seq(Message(made, in, all, q, p))
  PROVE  \A r \in People : [Nothing EXCEPT ![q] = out][r] \in Seq(Message(made, in, all, r, p))
<1>1. <<>> \in Seq(Message(made, in, all, q, p)) /\ \A r \in People : <<>> \in Seq(Message(made, in, all, r, p))
  OBVIOUS
<1>2. \A r \in People : [Nothing EXCEPT ![q] = out][r] = IF r = q THEN out ELSE <<>>
  BY DEF Nothing
<1> QED BY <1>1, <1>2

LEMMA ReadyKeeps ==
  ASSUME RInv, NEW p \in People, NEW q \in People, HandleReady(p, q)
  PROVE  RInv'
<1> DEFINE sync == IF Shares(p, q) THEN <<Sync(known[p])>> ELSE <<>>
           out == pending[p][q] \o sync
<1>1. /\ inbox[p][q] # <<>> /\ UNCHANGED <<situation, inside, known, space, invitation, up, breaks>>
      /\ ready' = [ready EXCEPT ![p] = @ \cup {q}] /\ joined' = [joined EXCEPT ![p] = @ \ {q}]
      /\ pending' = [pending EXCEPT ![p][q] = <<>>]
      /\ inbox' = Sent(Taken(p, q), p, [Nothing EXCEPT ![q] = out])
  BY DEF HandleReady, Foremost, durable
<1>2. sync \in Seq(Message(Made, inside, AllKnown, q, p))
  <2>1. CASE Shares(p, q)
    <3>1. known[p] \subseteq Made /\ known[p] \subseteq AllKnown /\ IsFiniteSet(known[p])
      BY AlreadyMade DEF AllKnown
    <3>2. p \in inside
      BY <2>1 DEF Shares, Belongs
    <3>3. Sync(known[p]) \in Message(Made, inside, AllKnown, q, p)
      BY <3>1, <3>2 DEF Sync, Message, Types
    <3> QED BY <2>1, <3>3
  <2>2. CASE ~Shares(p, q)
    BY <2>2
  <2> QED BY <2>1, <2>2
<1>3. out \in Seq(Message(Made, inside, AllKnown, q, p))
  <2>1. pending[p][q] \in Seq(Message(Made, inside, AllKnown, q, p))
    BY AlreadyMade DEF Waits
  <2> HIDE DEF sync
  <2> QED BY <1>2, <2>1, ConcatProperties
<1> HIDE DEF out
<1>4. Boxes(inbox', Made, inside, AllKnown)
  <2>1. Boxes(Taken(p, q), Made, inside, AllKnown)
    BY <1>1, TakenWell, AlreadyMade
  <2> QED BY <1>1, <1>3, <2>1, OneIsSent, SentWell
<1>5. Waits(pending', Made, inside, AllKnown)
  BY <1>1, AlreadyMade DEF Waits
<1>6. ready' \in [People -> SUBSET People] /\ joined' \in [People -> SUBSET inside]
  BY <1>1, AlreadyMade
<1>7. PICK made : made = Made
  OBVIOUS
<1>8. InvitedWell(made)'
  BY <1>1, <1>7, InvitedAlready, KnowsAlready, AlreadyMade
<1> QED BY <1>1, <1>4, <1>5, <1>6, <1>7, <1>8, Quiet, AlreadyMade

LEMMA LostKeeps ==
  ASSUME RInv, NEW p \in People, NEW q \in People, HandleLost(p, q)
  PROVE  RInv'
<1>1. /\ inbox[p][q] # <<>> /\ UNCHANGED <<situation, inside, known, space, invitation, up, breaks, joined, pending>>
      /\ ready' = [ready EXCEPT ![p] = @ \ {q}] /\ inbox' = Taken(p, q)
  BY DEF HandleLost, Foremost, durable
<1>2. Boxes(inbox', Made, inside, AllKnown)
  BY <1>1, TakenWell, AlreadyMade
<1>3. ready' \in [People -> SUBSET People]
  BY <1>1, AlreadyMade
<1>4. PICK made : made = Made
  OBVIOUS
<1>5. InvitedWell(made)'
  BY <1>1, <1>4, InvitedAlready, KnowsAlready, AlreadyMade
<1> QED BY <1>1, <1>2, <1>3, <1>4, <1>5, Quiet, AlreadyMade

LEMMA SyncKeeps ==
  ASSUME RInv, NEW p \in People, NEW q \in People, HandleSync(p, q)
  PROVE  RInv'
<1> DEFINE held == Head(inbox[p][q]).ops
           lacking == Lacking(p, q, held) \o Removal(p, q)
<1>0. PICK out : out = IF p \in inside THEN [i \in DOMAIN lacking |-> Op(lacking[i])] ELSE <<>>
  OBVIOUS
<1>1. /\ inbox[p][q] # <<>> /\ Head(inbox[p][q]).type = "space-sync"
      /\ UNCHANGED <<situation, inside, known, space, invitation, up, breaks, ready, pending>>
      /\ joined' = [joined EXCEPT ![p] = @ \cup {q}]
      /\ inbox' = Sent(Taken(p, q), p, [Nothing EXCEPT ![q] = out])
  <2>1. Foremost(p, q, "space-sync") /\ UNCHANGED <<durable, ready, pending, up, breaks>>
    BY ZenonT(40) DEF HandleSync
  <2>2. joined' = [joined EXCEPT ![p] = @ \cup {q}]
    BY DEF HandleSync
  <2>3. inbox' = Sent(Taken(p, q), p,
                   [Nothing EXCEPT ![q] = IF p \in inside THEN [i \in DOMAIN lacking |-> Op(lacking[i])] ELSE <<>>])
    BY ZenonT(40) DEF HandleSync
  <2>4. inbox' = Sent(Taken(p, q), p, [Nothing EXCEPT ![q] = out])
    <3> HIDE DEF lacking
    <3> QED BY <1>0, <2>3
  <2> QED BY <2>1, <2>2, <2>4 DEF Foremost, durable
<1>2. q \in inside
  <2>1. Head(inbox[p][q]) \in Message(Made, inside, AllKnown, p, q)
    BY <1>1, TakenWell, AlreadyMade
  <2> QED BY <1>1, <2>1 DEF Message
<1>3. Numbers(known[p]) /\ Ordered(known[p]) \in Seq(known[p])
  BY AlreadyMade, OrderedChanges, OrderIsCausal
<1>4. lacking \in Seq(known[p])
  <2>1. Lacking(p, q, held) \in Seq(known[p])
    <3>1. Lacks(Ordered(known[p]), held) \in Seq(known[p]) /\ <<>> \in Seq(known[p])
      BY <1>3, LacksTyped
    <3> QED BY <3>1 DEF Lacking
  <2>2. Removal(p, q) \in Seq(known[p])
    <3>1. Len(Ordered(known[p])) \in Nat /\ Removals(p, q) \in SUBSET (1..Len(Ordered(known[p])))
      BY <1>3, LenProperties DEF Removals
    <3>2. Removals(p, q) # {} => Ordered(known[p])[Max(Removals(p, q))] \in known[p]
      BY <1>3, <3>1, LastPlace, ElementOfSeq
    <3> DEFINE last == Ordered(known[p])[Max(Removals(p, q))]
    <3>3. Removal(p, q) = IF Belongs(p, q) \/ Removals(p, q) = {} THEN <<>> ELSE <<last>>
      BY DEF Removal
    <3>4. Removals(p, q) # {} => last \in known[p]
      BY <3>2
    <3> HIDE DEF last
    <3>5. Removals(p, q) # {} => <<last>> \in Seq(known[p])
      BY <3>4, OneOf
    <3>6. <<>> \in Seq(known[p])
      OBVIOUS
    <3> QED BY <3>3, <3>5, <3>6
  <2> QED BY <2>1, <2>2, ConcatProperties
<1>5. out \in Seq(Message(Made, inside, AllKnown, q, p))
  <2> HIDE DEF lacking
  <2>1. Len(lacking) \in Nat /\ DOMAIN lacking = 1..Len(lacking)
    BY <1>4, LenProperties
  <2>2. ASSUME NEW i \in DOMAIN lacking
        PROVE  Op(lacking[i]) \in Message(Made, inside, AllKnown, q, p)
    <3>1. lacking[i] \in known[p]
      BY <1>4, <2>1, ElementOfSeq
    <3>2. lacking[i] \in Made /\ lacking[i] \in AllKnown
      BY <3>1, AlreadyMade DEF AllKnown
    <3>3. lacking[i].parents \subseteq StampsOf(AllKnown)
      BY <3>2 DEF RInv, Among, KeptWell
    <3> QED BY <1>2, <3>2, <3>3, FS_Singleton DEF Op, Message, Types
  <2> DEFINE sent == [i \in DOMAIN lacking |-> Op(lacking[i])]
  <2>3. sent \in Seq(Message(Made, inside, AllKnown, q, p))
    BY <2>1, <2>2, SeqDef
  <2>4. <<>> \in Seq(Message(Made, inside, AllKnown, q, p))
    OBVIOUS
  <2> HIDE DEF sent
  <2>5. out = IF p \in inside THEN sent ELSE <<>>
    BY <1>0 DEF sent
  <2> QED BY <2>3, <2>4, <2>5
<1> HIDE DEF lacking
<1>6. Boxes(inbox', Made, inside, AllKnown)
  <2>1. Boxes(Taken(p, q), Made, inside, AllKnown)
    BY <1>1, TakenWell, AlreadyMade
  <2> QED BY <1>1, <1>5, <2>1, OneIsSent, SentWell
<1>7. joined' \in [People -> SUBSET inside]
  BY <1>1, <1>2, AlreadyMade
<1>8. PICK made : made = Made
  OBVIOUS
<1>9. InvitedWell(made)'
  BY <1>1, <1>8, InvitedAlready, KnowsAlready, AlreadyMade
<1> QED BY <1>1, <1>6, <1>7, <1>8, <1>9, Quiet, AlreadyMade

LEMMA OperationKeeps ==
  ASSUME RInv, NEW p \in People, NEW q \in People, HandleOperation(p, q)
  PROVE  RInv'
<1>1. /\ inbox[p][q] # <<>> /\ Head(inbox[p][q]).type = "space-operation"
      /\ UNCHANGED <<situation, inside, invitation, ready, pending, up, breaks>>
  BY DEF HandleOperation, Foremost
<1>2. PICK o \in Head(inbox[p][q]).ops :
        IF News(p, o)
        THEN /\ Kept(p, known[p] \cup {o}, State(p, {o}))
             /\ PassedOn(p, {q}, o, State(p, {o}), Taken(p, q), Nothing)
        ELSE inbox' = Taken(p, q) /\ UNCHANGED <<known, space, joined>>
  BY DEF HandleOperation
<1>3. o \in Made /\ o.parents \subseteq StampsOf(AllKnown)
  BY <1>1, TakenWell, AlreadyMade DEF Message
<1>4. Boxes(Taken(p, q), Made, inside, AllKnown)
  BY <1>1, TakenWell, AlreadyMade
<1>5. PICK made : made = Made
  OBVIOUS
<1>6. CASE ~News(p, o)
  <2>1. inbox' = Taken(p, q) /\ UNCHANGED <<known, space, joined>>
    BY <1>2, <1>6
  <2>2. InvitedWell(made)'
    BY <1>1, <1>5, <2>1, InvitedAlready, KnowsAlready, AlreadyMade
  <2> QED BY <1>1, <1>4, <1>5, <2>1, <2>2, Quiet, AlreadyMade
<1>7. CASE News(p, o)
  <2> DEFINE ops == known[p] \cup {o}
  <2>1. p \in inside
    BY <1>7 DEF News
  <2>2. Kept(p, ops, State(p, {o})) /\ PassedOn(p, {q}, o, State(p, {o}), Taken(p, q), Nothing)
    BY <1>2, <1>7
  <2>3. known' = [known EXCEPT ![p] = ops] /\ space' = [space EXCEPT ![p] = Replay(ops)]
    BY <2>2 DEF Kept, State
  <2>4. ops \subseteq made /\ IsFiniteSet(ops) /\ ops \subseteq Ops /\ known[p] \subseteq AllKnown
    <3>1. known[p] \subseteq Made /\ IsFiniteSet(known[p]) /\ Made \subseteq Ops
      BY AlreadyMade
    <3>2. IsFiniteSet(ops)
      BY <3>1, FS_AddElement
    <3>3. known[p] \subseteq AllKnown
      BY DEF AllKnown
    <3> QED BY <1>3, <1>5, <3>1, <3>2, <3>3
  <2>5. \A x \in ops : x.parents \subseteq StampsOf(AllKnown \cup ops)
    <3>1. \A x \in AllKnown : x.parents \subseteq StampsOf(AllKnown)
      BY DEF RInv, Among, KeptWell
    <3> QED BY <1>3, <2>4, <3>1 DEF StampsOf
  <2>6. KeptWell(made)' /\ AllKnown \subseteq AllKnown' /\ ops \subseteq AllKnown'
    <3>1. /\ made \subseteq Ops /\ Single(made) /\ Made \subseteq made /\ known[p] \subseteq ops
          /\ situation' = situation /\ inside \subseteq inside' /\ p \in inside'
      BY <1>1, <1>5, <2>1, AlreadyMade
    <3>2. known' = [known EXCEPT ![p] = ops]
      BY <2>3
    <3> HIDE DEF ops
    <3> QED BY <2>4, <2>5, <3>1, <3>2, KeepsWell
  <2>7. Replayed' /\ InvitedWell(made)'
    BY <1>1, <1>5, <2>3, <2>4, <2>6, Replays, InvitedAlready
  <2>8. /\ Boxes(Taken(p, q), made, inside', AllKnown') /\ Waits(pending, made, inside', AllKnown')
        /\ joined \in [People -> SUBSET inside']
    BY <1>1, <1>4, <1>5, <2>6, BoxesGrow, AlreadyMade
  <2>9. \A r \in People : Told(p, {q}, o, State(p, {o}))[r] \in Seq(Message(made, inside', AllKnown', r, p))
    <3>1. o \in made /\ o.parents \subseteq StampsOf(AllKnown')
      BY <1>3, <1>5, <2>6 DEF StampsOf
    <3> QED BY <2>8, <3>1, ToldWell
  <2>10. Boxes(inbox', made, inside', AllKnown')
    <3> DEFINE out == [r \in People |-> Told(p, {q}, o, State(p, {o}))[r] \o Nothing[r]]
    <3>1. inbox' = Sent(Taken(p, q), p, out)
      BY <2>2 DEF PassedOn
    <3>2. \A r \in People : Nothing[r] \in Seq(Message(made, inside', AllKnown', r, p))
      BY DEF Nothing
    <3>3. \A r \in People : out[r] \in Seq(Message(made, inside', AllKnown', r, p))
      BY <2>9, <3>2, ConcatProperties
    <3> HIDE DEF out
    <3> QED BY <2>8, <3>1, <3>3, SentWell
  <2>11. joined' \in [People -> SUBSET inside']
    BY <2>2, <2>8 DEF PassedOn, StillJoined
  <2>12. /\ situation' \in Situations /\ inside' \subseteq People
         /\ ready' \in [People -> SUBSET People] /\ up' \subseteq Links' /\ breaks' \in 0..situation'.breaks
    BY <1>1, AlreadyMade DEF Links
  <2>13. Among(made)'
    BY <1>1, <2>6, <2>7, <2>8, <2>10, <2>11, <2>12 DEF Among
  <2> QED BY <2>13, OnlyWhatIsMade
<1> QED BY <1>6, <1>7

LEMMA InvitationKeeps ==
  ASSUME RInv, NEW p \in People, NEW q \in People, HandleInvitation(p, q)
  PROVE  RInv'
<1> DEFINE ops == Head(inbox[p][q]).ops
<1>1. /\ inbox[p][q] # <<>> /\ Head(inbox[p][q]).type = "space-invitation"
      /\ inbox' = Taken(p, q)
      /\ UNCHANGED <<situation, inside, known, space, ready, joined, pending, up, breaks>>
      /\ \/ p \notin inside /\ KeepInvitation(p, q, ops)
         \/ UNCHANGED invitation
  BY DEF HandleInvitation, Foremost
<1>2. ops \subseteq Made /\ IsFiniteSet(ops) /\ ops \subseteq AllKnown /\ q \in inside
  BY <1>1, TakenWell, AlreadyMade DEF Message
<1>3. Boxes(inbox', Made, inside, AllKnown)
  BY <1>1, TakenWell, AlreadyMade
<1>4. PICK made : made = Made
  OBVIOUS
<1>5. AllKnown' = AllKnown
  BY <1>1 DEF AllKnown
<1>6. CASE UNCHANGED invitation
  <2>1. InvitedWell(made)'
    BY <1>1, <1>4, <1>5, <1>6, InvitedAlready
  <2> QED BY <1>1, <1>3, <1>4, <2>1, Quiet, AlreadyMade
<1>7. CASE p \notin inside /\ KeepInvitation(p, q, ops)
  <2>1. invitation' = [invitation EXCEPT ![p] = {<<q, ops>>}]
    BY <1>7 DEF KeepInvitation
  <2> HIDE DEF ops
  <2>2. InvitedWell(made)'
    BY <1>1, <1>2, <1>4, <1>5, <1>7, <2>1 DEF RInv, Among, InvitedWell
  <2> QED BY <1>1, <1>3, <1>4, <2>2, Quiet, AlreadyMade
<1> QED BY <1>1, <1>6, <1>7

LEMMA AcceptKeeps ==
  ASSUME RInv, NEW p \in People, AcceptInvitation(p)
  PROVE  RInv'
<1>1. PICK i \in Invitations(p) : \E o \in Introduced(p, i[2]) :
        LET ops == i[2] \cup {o}
            view == Replay(ops)
            opens == {q \in ready[p] : Rank(view, p) # None /\ Rank(view, q) # None}
        IN  /\ Joins(p) /\ Kept(p, ops, view)
            /\ PassedOn(p, {}, o, view, inbox,
                        [q \in People |-> IF q \in opens THEN <<Sync(ops)>> ELSE <<>>])
            /\ UNCHANGED <<situation, ready, pending, up, breaks>>
  BY DEF AcceptInvitation
<1>2. PICK o \in Introduced(p, i[2]) :
        LET ops == i[2] \cup {o}
            view == Replay(ops)
            opens == {q \in ready[p] : Rank(view, p) # None /\ Rank(view, q) # None}
        IN  /\ Joins(p) /\ Kept(p, ops, view)
            /\ PassedOn(p, {}, o, view, inbox,
                        [q \in People |-> IF q \in opens THEN <<Sync(ops)>> ELSE <<>>])
            /\ UNCHANGED <<situation, ready, pending, up, breaks>>
  BY <1>1
<1> DEFINE ops == i[2] \cup {o}
           view == Replay(ops)
           opens == {q \in ready[p] : Rank(view, p) # None /\ Rank(view, q) # None}
           change == [kind |-> "introduce", author |-> p]
<1>3. /\ inside' = inside \cup {p} /\ invitation' = [invitation EXCEPT ![p] = {}]
      /\ known' = [known EXCEPT ![p] = ops] /\ space' = [space EXCEPT ![p] = view]
      /\ joined' = [joined EXCEPT ![p] = StillJoined(p, {}, view)]
      /\ inbox' = Sent(inbox, p, [q \in People |-> Told(p, {}, o, view)[q]
                                    \o [r \in People |-> IF r \in opens THEN <<Sync(ops)>> ELSE <<>>][q]])
      /\ UNCHANGED <<situation, ready, pending, up, breaks>>
  BY <1>2 DEF Joins, Kept, PassedOn
<1>4. /\ i \in invitation[p] /\ p \notin inside /\ i[2] \subseteq AllKnown
      /\ i[2] \subseteq Made /\ IsFiniteSet(i[2])
  BY DEF Invitations, RInv, Among, InvitedWell
<1>5. o \in Makes(i[2], change) /\ change \in [kind : {"introduce", "leave"}, author : People]
  BY DEF Introduced, Operated
<1> HIDE DEF change
<1>6. /\ Made \cup {o} \subseteq Ops /\ Single(Made \cup {o}) /\ o.parents \subseteq StampsOf(AllKnown)
  <2> HIDE DEF ops, view, opens
  <2>1. change \in situation.changes \cup [kind : {"introduce", "leave"}, author : People]
    BY <1>5
  <2>2. i[2] \subseteq AllKnown /\ i[2] \subseteq Made /\ IsFiniteSet(i[2]) /\ o \in Makes(i[2], change)
    BY <1>4, <1>5
  <2> QED BY <2>1, <2>2, MakesWell
<1>7. PICK made : made = Made \cup {o}
  OBVIOUS
<1>8. known[p] = {} /\ \A x \in AllKnown : x.parents \subseteq StampsOf(AllKnown)
  BY <1>4 DEF RInv, Among, KeptWell
<1>9. /\ ops \subseteq made /\ IsFiniteSet(ops) /\ ops \subseteq Ops
      /\ \A x \in ops : x.parents \subseteq StampsOf(AllKnown \cup ops)
  BY <1>4, <1>6, <1>7, <1>8, FS_AddElement DEF StampsOf
<1>10. KeptWell(made)' /\ AllKnown \subseteq AllKnown' /\ ops \subseteq AllKnown'
  <2> HIDE DEF ops
  <2> QED BY <1>3, <1>6, <1>7, <1>8, <1>9, KeepsWell
<1>11. Replayed'
  <2> HIDE DEF ops
  <2> QED BY <1>3, <1>9, Replays
<1>12. InvitedWell(made)'
  BY <1>3, <1>7, <1>10 DEF RInv, Among, InvitedWell
<1>13. /\ Boxes(inbox, made, inside', AllKnown') /\ Waits(pending, made, inside', AllKnown')
       /\ joined \in [People -> SUBSET inside']
  BY <1>3, <1>7, <1>10, BoxesGrow, AlreadyMade
<1> HIDE DEF view
<1>14. \A q \in People : Told(p, {}, o, view)[q] \in Seq(Message(made, inside', AllKnown', q, p))
  <2>1. o \in made /\ o.parents \subseteq StampsOf(AllKnown')
    BY <1>6, <1>7, <1>10 DEF StampsOf
  <2> QED BY <1>13, <2>1, ToldWell
<1>15. \A q \in People : [r \in People |-> IF r \in opens THEN <<Sync(ops)>> ELSE <<>>][q]
                           \in Seq(Message(made, inside', AllKnown', q, p))
  <2>1. \A q \in People : Sync(ops) \in Message(made, inside', AllKnown', q, p)
    BY <1>3, <1>9, <1>10 DEF Sync, Message, Types
  <2> HIDE DEF ops, opens
  <2>2. \A q \in People : <<Sync(ops)>> \in Seq(Message(made, inside', AllKnown', q, p))
    BY <2>1, OneOf
  <2> QED BY <2>2
<1>16. Boxes(inbox', made, inside', AllKnown')
  <2> DEFINE more == [r \in People |-> IF r \in opens THEN <<Sync(ops)>> ELSE <<>>]
             out == [q \in People |-> Told(p, {}, o, view)[q] \o more[q]]
  <2>1. inbox' = Sent(inbox, p, out)
    BY <1>3
  <2>2. \A q \in People : more[q] \in Seq(Message(made, inside', AllKnown', q, p))
    BY <1>15
  <2> HIDE DEF more
  <2>3. \A q \in People : out[q] \in Seq(Message(made, inside', AllKnown', q, p))
    BY <1>14, <2>2, ConcatProperties
  <2> HIDE DEF out
  <2> QED BY <1>13, <2>1, <2>3, SentWell
<1>17. joined' \in [People -> SUBSET inside']
  BY <1>3, <1>13 DEF StillJoined
<1>18. /\ situation' \in Situations /\ inside' \subseteq People
       /\ ready' \in [People -> SUBSET People] /\ up' \subseteq Links' /\ breaks' \in 0..situation'.breaks
  BY <1>3, AlreadyMade DEF Links
<1>19. Among(made)'
  BY <1>3, <1>10, <1>11, <1>12, <1>13, <1>16, <1>17, <1>18 DEF Among
<1> QED BY <1>19, OnlyWhatIsMade

LEMMA DeclineKeeps ==
  ASSUME RInv, NEW p \in People, DeclineInvitation(p)
  PROVE  RInv'
<1> DEFINE change == [kind |-> "leave", author |-> p]
<1>1. PICK i \in Invitations(p) : \E o \in Makes(i[2], change) :
      /\ invitation' = [invitation EXCEPT ![p] = {}]
      /\ inbox' = Sent(inbox, p, Delivered(p, {i[1]}, Op(o)))
      /\ Deferred(p, {i[1]}, Op(o))
  BY DEF DeclineInvitation
<1>2. PICK o \in Makes(i[2], change) :
      /\ invitation' = [invitation EXCEPT ![p] = {}]
      /\ inbox' = Sent(inbox, p, Delivered(p, {i[1]}, Op(o)))
      /\ Deferred(p, {i[1]}, Op(o))
  BY <1>1
<1>3. UNCHANGED <<situation, inside, known, space, ready, joined, up, breaks>>
  BY DEF DeclineInvitation
<1>4. /\ i \in invitation[p] /\ i[1] \in inside /\ i[2] \subseteq AllKnown
      /\ i[2] \subseteq Made /\ IsFiniteSet(i[2])
  BY DEF Invitations, RInv, Among, InvitedWell
<1>5. change \in [kind : {"introduce", "leave"}, author : People]
  OBVIOUS
<1> HIDE DEF change
<1>6. /\ Made \cup {o} \subseteq Ops /\ Single(Made \cup {o}) /\ o.parents \subseteq StampsOf(AllKnown)
  BY <1>4, <1>5, MakesWell
<1>7. PICK made : made = Made \cup {o}
  OBVIOUS
<1>8. Boxes(inbox, made, inside, AllKnown) /\ Waits(pending, made, inside, AllKnown)
  BY <1>7, BoxesGrow, AlreadyMade
<1>9. Op(o) \in Message(made, inside, AllKnown, i[1], p)
  BY <1>4, <1>6, <1>7, FS_Singleton DEF Op, Message, Types
<1>10. Boxes(inbox', made, inside, AllKnown)
  <2>1. \A q \in People : Delivered(p, {i[1]}, Op(o))[q] \in Seq(Message(made, inside, AllKnown, q, p))
    <3>1. <<Op(o)>> \in Seq(Message(made, inside, AllKnown, i[1], p))
      BY <1>9, OneOf
    <3> QED BY <3>1 DEF Delivered
  <2> QED BY <1>2, <1>8, <2>1, SentWell
<1>11. Waits(pending', made, inside, AllKnown)
  <2>1. i[1] \in People => Append(pending[p][i[1]], Op(o)) \in Seq(Message(made, inside, AllKnown, i[1], p))
    BY <1>8, <1>9, AppendProperties DEF Waits
  <2> QED BY <1>2, <1>8, <2>1 DEF Deferred, Waits
<1>12. InvitedWell(made)'
  <2>1. AllKnown' = AllKnown
    BY <1>3 DEF AllKnown
  <2> QED BY <1>2, <1>3, <1>7, <2>1 DEF RInv, Among, InvitedWell
<1> QED BY <1>3, <1>6, <1>7, <1>10, <1>11, <1>12, Quiet, AlreadyMade

LEMMA ConnectKeeps ==
  ASSUME RInv, NEW p \in People, NEW q \in People, Connect(p, q)
  PROVE  RInv'
<1>1. /\ {p, q} \in Links \ up /\ up' = up \cup {{p, q}}
      /\ inbox' = [inbox EXCEPT ![p][q] = Append(@, Came), ![q][p] = Append(@, Came)]
      /\ UNCHANGED <<situation, inside, known, space, invitation, ready, joined, pending, breaks>>
  BY DEF Connect, durable
<1>2. p # q
  <2>1. ASSUME p = q PROVE FALSE
    <3>1. Cardinality({p, q}) = 2
      BY <1>1, AlreadyMade, ReplicationAssumption DEF Links
    <3>2. Cardinality({p}) = 1
      BY FS_Singleton
    <3> QED BY <2>1, <3>1, <3>2
  <2> QED BY <2>1
<1>3. \A r, s \in People : Came \in Message(Made, inside, AllKnown, r, s)
  BY FS_EmptySet DEF Came, Plain, Message, Types
<1>4. Boxes(inbox', Made, inside, AllKnown)
  <2>1. /\ Append(inbox[p][q], Came) \in Seq(Message(Made, inside, AllKnown, p, q))
        /\ Append(inbox[q][p], Came) \in Seq(Message(Made, inside, AllKnown, q, p))
    BY <1>3, AlreadyMade, AppendProperties DEF Boxes
  <2> DEFINE mine == Append(inbox[p][q], Came)
             theirs == Append(inbox[q][p], Came)
  <2>2. inbox' = [inbox EXCEPT ![p][q] = mine, ![q][p] = theirs]
    BY <1>1, <1>2, AlreadyMade DEF Boxes
  <2> HIDE DEF mine, theirs
  <2>3. Boxes([inbox EXCEPT ![p][q] = mine, ![q][p] = theirs], Made, inside, AllKnown)
    <3>1. /\ mine \in Seq(Message(Made, inside, AllKnown, p, q))
          /\ theirs \in Seq(Message(Made, inside, AllKnown, q, p))
      BY <2>1 DEF mine, theirs
    <3> QED BY <3>1, PutWell, AlreadyMade
  <2> QED BY <2>2, <2>3
<1>5. PICK made : made = Made
  OBVIOUS
<1>6. InvitedWell(made)'
  BY <1>1, <1>5, InvitedAlready, KnowsAlready, AlreadyMade
<1>7. up' \subseteq Links
  BY <1>1, AlreadyMade
<1> QED BY <1>1, <1>4, <1>5, <1>6, <1>7, Quiet, AlreadyMade

LEMMA CutWell ==
  ASSUME NEW made, NEW in, NEW all, NEW p, NEW q, NEW s \in Seq(Message(made, in, all, p, q)),
         NEW t \in Cut(s)
  PROVE  t \in Seq(Message(made, in, all, p, q))
<1>1. Len(s) \in Nat
  BY LenProperties
<1>2. Began(s) \in 0..Len(s)
  <2> DEFINE places == {i \in 1..Len(s) : s[i] = Came}
  <2>1. Began(s) = IF places # {} THEN Max(places) ELSE 0
    BY Zenon DEF Began, SelectLastInSeq
  <2>2. places # {} => Max(places) \in places
    BY <1>1, LastPlace
  <2> HIDE DEF places
  <2>3. places \subseteq 1..Len(s)
    BY DEF places
  <2>4. CASE places # {}
    <3>1. Began(s) = Max(places)
      BY <2>1, <2>4, Zenon
    <3>2. Max(places) \in 1..Len(s)
      BY <2>2, <2>3, <2>4, Zenon
    <3> QED BY <1>1, <3>1, <3>2
  <2>5. CASE places = {}
    BY <1>1, <2>1, <2>5
  <2> QED BY <2>4, <2>5
<1>3. PICK n \in Began(s)..Len(s) : t = Append(SubSeq(s, 1, n), Went)
  BY DEF Cut
<1>4. n \in 0..Len(s)
  BY <1>1, <1>2
<1>5. SubSeq(s, 1, n) \in Seq(Message(made, in, all, p, q))
  BY <1>1, <1>4
<1>6. Went \in Message(made, in, all, p, q)
  BY FS_EmptySet DEF Went, Plain, Message, Types
<1> QED BY <1>3, <1>5, <1>6, AppendProperties

LEMMA DisconnectKeeps ==
  ASSUME RInv, NEW p \in People, NEW q \in People, Disconnect(p, q)
  PROVE  RInv'
<1>1. PICK mine \in Cut(inbox[p][q]), theirs \in Cut(inbox[q][p]) :
        inbox' = [inbox EXCEPT ![p][q] = mine, ![q][p] = theirs]
  BY DEF Disconnect
<1>2. /\ breaks < situation.breaks /\ breaks' = breaks + 1 /\ up' = up \ {{p, q}}
      /\ UNCHANGED <<situation, inside, known, space, invitation, ready, joined, pending>>
  BY DEF Disconnect, durable
<1>3. Boxes(inbox', Made, inside, AllKnown)
  <2>1. /\ inbox[p][q] \in Seq(Message(Made, inside, AllKnown, p, q))
        /\ inbox[q][p] \in Seq(Message(Made, inside, AllKnown, q, p))
    BY AlreadyMade DEF Boxes
  <2>2. /\ mine \in Seq(Message(Made, inside, AllKnown, p, q))
        /\ theirs \in Seq(Message(Made, inside, AllKnown, q, p))
    BY <2>1, CutWell
  <2> QED BY <1>1, <2>2, PutWell, AlreadyMade
<1>4. PICK made : made = Made
  OBVIOUS
<1>5. InvitedWell(made)'
  BY <1>2, <1>4, InvitedAlready, KnowsAlready, AlreadyMade
<1>6. situation.breaks \in Nat
  BY AlreadyMade, ReplicationAssumption
<1>7. breaks' \in 0..situation.breaks /\ up' \subseteq Links
  BY <1>2, <1>6, AlreadyMade
<1> QED BY <1>2, <1>3, <1>4, <1>5, <1>7, Quiet, AlreadyMade

LEMMA RestartKeeps ==
  ASSUME RInv, NEW p \in People, Restart(p)
  PROVE  RInv'
<1>1. /\ UNCHANGED <<situation, inside, known, space, invitation, up, breaks>>
      /\ ready' = [ready EXCEPT ![p] = {}] /\ joined' = [joined EXCEPT ![p] = {}]
      /\ pending' = [pending EXCEPT ![p] = Nothing] /\ inbox' = [inbox EXCEPT ![p] = Nothing]
  BY DEF Restart, durable
<1>2. DOMAIN Nothing = People /\ \A r, s, q \in People : Nothing[r] \in Seq(Message(Made, inside, AllKnown, s, q))
  BY DEF Nothing
<1>3. Boxes(inbox', Made, inside, AllKnown) /\ Waits(pending', Made, inside, AllKnown)
  BY <1>1, <1>2, AlreadyMade DEF Boxes, Waits
<1>4. ready' \in [People -> SUBSET People] /\ joined' \in [People -> SUBSET inside]
  BY <1>1, AlreadyMade
<1>5. PICK made : made = Made
  OBVIOUS
<1>6. InvitedWell(made)'
  BY <1>1, <1>5, InvitedAlready, KnowsAlready, AlreadyMade
<1> QED BY <1>1, <1>3, <1>4, <1>5, <1>6, Quiet, AlreadyMade

LEMMA NothingChanges ==
  ASSUME RInv, UNCHANGED vars
  PROVE  RInv'
<1>1. PICK made : made = Made
  OBVIOUS
<1>2. UNCHANGED <<situation, inside, known, space, invitation, ready, joined, pending, up, inbox, breaks>>
  BY DEF vars
<1>3. InvitedWell(made)'
  BY <1>1, <1>2, InvitedAlready, KnowsAlready, AlreadyMade
<1> QED BY <1>1, <1>2, <1>3, Quiet, AlreadyMade

LEMMA InitKeeps == Init => RInv
<1> SUFFICES ASSUME Init PROVE RInv
  OBVIOUS
<1>1. /\ situation \in Situations /\ inside = situation.insiders
      /\ known = [p \in People |-> {}] /\ space = [p \in People |-> Founded]
      /\ invitation = [p \in People |-> {}] /\ ready = [p \in People |-> {}]
      /\ joined = [p \in People |-> {}] /\ pending = [p \in People |-> Nothing]
      /\ up = {} /\ inbox = [p \in People |-> Nothing] /\ breaks = 0
  BY DEF Init
<1>2. /\ Founded \in States /\ inside \subseteq People /\ situation.breaks \in Nat
  BY <1>1, ReplicationAssumption DEF Founded
<1>3. ToSet(<<>>) = {}
  BY DEF ToSet
<1>4. Travelling = {}
  BY <1>1, <1>3 DEF Travelling, Nothing
<1>5. Invited = {}
  BY <1>1 DEF Invited
<1>6. Made = {} /\ AllKnown = {}
  BY <1>1, <1>4, <1>5 DEF Made, AllKnown
<1>7. KeptWell(Made) /\ InvitedWell(Made)
  BY <1>1, <1>6, FS_EmptySet DEF KeptWell, InvitedWell, Single
<1>8. Replay({}) = Founded
  BY <1>2, ReplayIsFrom, OrderedNothing, FromNothing
<1>9. Replayed
  BY <1>1, <1>2, <1>8 DEF Replayed
<1>10. DOMAIN Nothing = People /\ \A r, s, q \in People : Nothing[r] \in Seq(Message(Made, inside, AllKnown, s, q))
  BY DEF Nothing
<1>11. Boxes(inbox, Made, inside, AllKnown) /\ Waits(pending, Made, inside, AllKnown)
  BY <1>1, <1>10 DEF Boxes, Waits
<1>12. /\ ready \in [People -> SUBSET People] /\ joined \in [People -> SUBSET inside]
       /\ up \subseteq Links /\ breaks \in 0..situation.breaks
  BY <1>1, <1>2
<1> QED BY <1>1, <1>2, <1>7, <1>9, <1>11, <1>12 DEF RInv, Among

LEMMA StepKeeps == RInv /\ [Next]_vars => RInv'
<1> SUFFICES ASSUME RInv, [Next]_vars PROVE RInv'
  OBVIOUS
<1>1. ASSUME NEW p \in People, NEW change \in situation.changes, Operate(p, change) PROVE RInv'
  BY <1>1, OperateKeeps
<1>2. ASSUME NEW p \in People, AcceptInvitation(p) \/ DeclineInvitation(p) \/ Restart(p) PROVE RInv'
  BY <1>2, AcceptKeeps, DeclineKeeps, RestartKeeps
<1>3. ASSUME NEW p \in People, NEW q \in People, Handle(p, q) PROVE RInv'
  BY <1>3, ReadyKeeps, LostKeeps, SyncKeeps, OperationKeeps, InvitationKeeps DEF Handle
<1>4. ASSUME NEW p \in People, NEW q \in People, Connect(p, q) \/ Disconnect(p, q) PROVE RInv'
  BY <1>4, ConnectKeeps, DisconnectKeeps
<1>5. CASE UNCHANGED vars
  BY <1>5, NothingChanges
<1> QED BY <1>1, <1>2, <1>3, <1>4, <1>5 DEF Next

LEMMA AlwaysSound == Spec => []RInv
BY InitKeeps, StepKeeps, PTL DEF Spec

(* Messages, what is kept, and who is connected are of their types: a      *)
(* message of operations carries one, and one of connections none.         *)
THEOREM ReplicationTyped == Spec => []TypeOK
<1>1. RInv => TypeOK
  <2> SUFFICES ASSUME RInv PROVE TypeOK
    OBVIOUS
  <2>1. \A p, q \in People : Message(Made, inside, AllKnown, p, q) \subseteq Messages
    BY AlreadyMade DEF Message, Messages, Types
  <2>2. \A p, q \in People : AreMessages(pending[p][q]) /\ AreMessages(inbox[p][q])
    <3> TAKE p, q \in People
    <3>1. /\ inbox[p][q] \in Seq(Message(Made, inside, AllKnown, p, q))
          /\ pending[p][q] \in Seq(Message(Made, inside, AllKnown, q, p))
      BY AlreadyMade DEF Boxes, Waits
    <3>2. inbox[p][q] \in Seq(Messages) /\ pending[p][q] \in Seq(Messages)
      BY <2>1, <3>1, SeqMonotonic
    <3> QED BY <3>2, ElementOfSeq, LenProperties DEF AreMessages
  <2>3. \A p \in People : \A i \in invitation[p] : i[1] \in People /\ i[2] \subseteq Ops
    BY AlreadyMade DEF RInv, Among, InvitedWell
  <2> QED BY <2>2, <2>3, AlreadyMade DEF TypeOK
<1> QED BY <1>1, AlwaysSound, PTL

(* Nobody is sent an operation of a space they have not joined, however    *)
(* long what a peer said outlives its connection, whoever is removed,      *)
(* declines or starts again (service.go's applied, synced and deliver).    *)
THEOREM NothingIsSentOutside == Spec => []NothingOfASpaceNotJoined
<1>1. RInv => NothingOfASpaceNotJoined
  <2> SUFFICES ASSUME RInv, NEW p \in People, NEW q \in People, p \notin inside,
                      NEW m \in ToSet(inbox[p][q])
               PROVE  m.type # "space-operation"
    BY DEF NothingOfASpaceNotJoined
  <2>1. inbox[p][q] \in Seq(Message(Made, inside, AllKnown, p, q))
    BY AlreadyMade DEF Boxes
  <2>2. m \in Message(Made, inside, AllKnown, p, q)
    BY <2>1, ElementOfSeq, LenProperties DEF ToSet
  <2> QED BY <2>2 DEF Message
<1> QED BY <1>1, AlwaysSound, PTL

(* What a member does is judged by the state they saw, and changes it:     *)
(* their operation comes last of all they hold, even of those still        *)
(* waiting, so that Operate looks at its outcome and no other's            *)
(* (store.go's Operate looks at the last outcome of the replay).           *)
THEOREM OwnChangesCount ==
  Spec => [][\A p \in People : \A change \in situation.changes :
               Operate(p, change) =>
                 Allowed(space[p], change) /\ space'[p] = Apply(space[p], change)]_vars
<1>1. RInv => \A p \in People : \A change \in situation.changes :
                Operate(p, change) =>
                  Allowed(space[p], change) /\ space'[p] = Apply(space[p], change)
  BY OperateKeeps
<1> QED BY <1>1, AlwaysSound, PTL DEF Spec

(* Nothing kept is ever given up.                                          *)
LEMMA KnownGrows ==
  ASSUME RInv, [Next]_vars
  PROVE  \A p \in People : known[p] \subseteq known'[p]
<1>1. /\ known \in [People -> SUBSET Made] /\ \A p \in People \ inside : known[p] = {}
      /\ \A p \in People : \A i \in invitation[p] : p \notin inside
  BY DEF RInv, Among, KeptWell, InvitedWell
<1>2. ASSUME NEW p \in People, NEW change \in situation.changes, Operate(p, change)
      PROVE  \A q \in People : known[q] \subseteq known'[q]
  BY <1>1, <1>2 DEF Operate, Kept
<1>3. ASSUME NEW p \in People, AcceptInvitation(p)
      PROVE  \A q \in People : known[q] \subseteq known'[q]
  <2>1. p \notin inside
    BY <1>1, <1>3 DEF AcceptInvitation, Invitations
  <2>2. known[p] = {}
    BY <1>1, <2>1
  <2>3. \E ops : known' = [known EXCEPT ![p] = ops]
    BY <1>3 DEF AcceptInvitation, Kept
  <2> QED BY <1>1, <2>2, <2>3
<1>4. ASSUME NEW p \in People, NEW q \in People, HandleOperation(p, q)
      PROVE  \A r \in People : known[r] \subseteq known'[r]
  <2>1. UNCHANGED known \/ \E o : known' = [known EXCEPT ![p] = known[p] \cup {o}]
    BY <1>4 DEF HandleOperation, Kept
  <2> QED BY <1>1, <2>1
<1>5. ASSUME NEW p \in People, NEW q \in People,
             \/ DeclineInvitation(p) \/ Restart(p) \/ HandleReady(p, q) \/ HandleLost(p, q)
             \/ HandleSync(p, q) \/ HandleInvitation(p, q) \/ Connect(p, q) \/ Disconnect(p, q)
      PROVE  known' = known
  BY <1>5 DEF DeclineInvitation, Restart, HandleReady, HandleLost, HandleSync, HandleInvitation,
              Connect, Disconnect, durable
<1>6. CASE UNCHANGED vars
  BY <1>6 DEF vars
<1> QED BY <1>2, <1>3, <1>4, <1>5, <1>6 DEF Next, Handle

(* An operation once in a member's order stays in it: none becomes one     *)
(* that waits again, whatever comes and in whichever order (Receive).      *)
THEOREM WhatIsInOrderStays ==
  Spec => [][\A p \in People : History(known[p]) \subseteq History(known'[p])]_vars
<1>1. RInv /\ RInv' /\ [Next]_vars => \A p \in People : History(known[p]) \subseteq History(known'[p])
  <2> SUFFICES ASSUME RInv, RInv', [Next]_vars, NEW p \in People
               PROVE  History(known[p]) \subseteq History(known'[p])
    OBVIOUS
  <2>1. known[p] \subseteq known'[p]
    BY KnownGrows
  <2>2. Numbers(known[p]) /\ Numbers(known'[p])
    <3>1. /\ known[p] \subseteq Ops /\ IsFiniteSet(known[p])
          /\ known'[p] \subseteq Ops' /\ IsFiniteSet(known'[p])
          /\ situation \in Situations /\ situation' \in Situations
      BY DEF RInv, Among, KeptWell
    <3>2. \A i \in Situations : 1..i.stamps \subseteq Nat
      BY ReplicationAssumption
    <3> QED BY <3>1, <3>2 DEF Numbers, Ops, Stamps
  <2> QED BY <2>1, <2>2, HistoryGrows
<1> QED BY <1>1, AlwaysSound, PTL DEF Spec

(* What every change keeps, every history does.                            *)
LEMMA FromKeeps ==
  ASSUME NEW good \in SUBSET States, NEW s \in good, NEW h, Changes(h),
         \A t \in good : \A op \in Operations : Apply(t, op) \in good
  PROVE  From(s, h) \in good
<1> DEFINE each == [i \in 1..Len(h) |-> [t \in good |-> Apply(t, h[i].change)]]
<1>1. Len(h) \in Nat /\ \A i \in 1..Len(h) : h[i].change \in Operations
  BY ChangesAre
<1>2. each \in [1..Len(h) -> [good -> good]]
  BY <1>1
<1>3. PICK f \in [0..Len(h) -> good] : Steps(Len(h), s, each, f)
  <2> HIDE DEF each
  <2> QED BY <1>1, <1>2, StepsExist
<1>4. \A i \in 0..Len(h) : f[i] = IF i = 0 THEN s ELSE each[i][f[i - 1]]
  BY <1>3 DEF Steps
<1>5. ASSUME NEW i \in 0..Len(h), i # 0
      PROVE  each[i][f[i - 1]] = Effects(h)[i][f[i - 1]]
  <2>1. i \in 1..Len(h) /\ f[i - 1] \in good /\ f[i - 1] \in States
    BY <1>1, <1>5
  <2>2. each[i][f[i - 1]] = Apply(f[i - 1], h[i].change)
    BY <2>1
  <2>3. Effects(h)[i] = Effect(h[i].change)
    BY <2>1 DEF Effects
  <2> QED BY <1>1, <2>1, <2>2, <2>3, EffectTyped
<1> HIDE DEF each
<1>6. Steps(Len(h), s, Effects(h), f)
  <2>1. \A i \in 0..Len(h) : f[i] = IF i = 0 THEN s ELSE Effects(h)[i][f[i - 1]]
    BY <1>4, <1>5
  <2>2. f = [i \in 0..Len(h) |-> f[i]]
    OBVIOUS
  <2> QED BY <2>1, <2>2 DEF Steps
<1>7. From(s, h) = f[Len(h)]
  BY <1>6, FromSteps
<1> QED BY <1>1, <1>7

(* Whatever operations a member holds, and whoever made them, the space    *)
(* they see has one owner and rules that name what there is, if it had in  *)
(* the beginning: the rules of state.go over the order of its replay.      *)
THEOREM WhateverTheOrder ==
  ASSUME \A i \in Situations : HasOneOwner(i.founded) /\ Tidy(i.founded)
  PROVE  Spec => [](\A p \in inside : HasOneOwner(space[p]) /\ Tidy(space[p]))
<1> DEFINE good == {s \in States : HasOneOwner(s) /\ Tidy(s)}
<1>1. \A s \in good : \A op \in Operations : Apply(s, op) \in good
  BY ChangeTyped, ChangeKeepsOneOwner, ChangeKeepsTidy DEF Apply
<1>2. RInv => \A p \in inside : HasOneOwner(space[p]) /\ Tidy(space[p])
  <2> SUFFICES ASSUME RInv, NEW p \in inside PROVE space[p] \in good
    OBVIOUS
  <2>1. Founded \in good
    BY OpsAre DEF Founded
  <2> HIDE DEF good
  <2>2. Changes(Ordered(known[p]))
    BY AlreadyMade, OrderedChanges
  <2>3. good \in SUBSET States
    BY DEF good
  <2>4. From(Founded, Ordered(known[p])) \in good
    BY <1>1, <2>1, <2>2, <2>3, FromKeeps
  <2> QED BY <2>4, ReplayIsFrom DEF RInv, Among, Replayed
<1> QED BY <1>2, AlwaysSound, PTL
=============================================================================
