---------------------------- MODULE VoicePresence ----------------------------
(***************************************************************************)
(* Who is in the voice channels of a space: internal/spaces/voice.go.  A   *)
(* member says where it is, later than anything it said before; the others *)
(* believe it for a while, and pass it on to whoever opened the space with *)
(* them and may see the channel.                                           *)
(*                                                                         *)
(* Who may see a channel does not change here, and everybody is a member:  *)
(* see SpaceRules.  The moment of a presence is its number among those its *)
(* member said, as clocks that agree would order them.  A presence is in   *)
(* one channel of the space; spaces are one, as leaving one for another is *)
(* leaving its channel.                                                    *)
(***************************************************************************)
EXTENDS Naturals, Sequences, FiniteSets, SequencesExt

CONSTANTS
  Everybody, Channels,
  Seers,        \* Seers[c]: the members who may see the channel c
  Links,        \* the pairs that open the space with one another
  Seen, Heard,  \* how many may be in a channel with a camera on, and without
  Cameras,      \* bound: those who have a camera
  MaxSaid,      \* bound: presences each says; who says none joins no channel
  MaxBreaks     \* bound: connections that end

Out == "out"

ASSUME VoiceAssumption ==
  /\ IsFiniteSet(Everybody) /\ Seers \in [Channels -> SUBSET Everybody] /\ Cameras \subseteq Everybody
  /\ Out \notin Channels
  /\ \A link \in Links : link \subseteq Everybody /\ Cardinality(link) = 2
  /\ Seen \in Nat /\ Heard \in Nat /\ MaxSaid \in [Everybody -> Nat] /\ MaxBreaks \in Nat

Unheard == [channel |-> Out, at |-> 0, video |-> FALSE]

VARIABLES
  seat,      \* the voice channel each is in, or Out
  video,     \* whether each has its camera on
  said,      \* the moment of the last presence each said
  voices,    \* voices[p][m]: where p believes m to be
  left,      \* left[p][m]: when p was last told that m left, 0 for never
  expired,   \* expired[p][m]: the moment of a presence p no longer believes for its age
  newest,    \* newest[p][m]: the latest moment p was told of, which nothing reads
  meshed,    \* those each wants a connection with for its channel: a full mesh
  opened,    \* the pairs <<p, q>> where p was told that q opened the space
  wire,      \* wire[p][q]: what is on its way from p to q
  broken     \* connections that ended, for the bound

mine == <<seat, video, said>>
belief == <<voices, left, expired, newest>>
voicing == <<mine, belief, meshed, opened, wire, broken>>

-----------------------------------------------------------------------------
Directed == {pair \in Everybody \X Everybody : {pair[1], pair[2]} \in Links}
Joined(p, q) == <<p, q>> \in opened

Saying(p, channel, at, leaving, on) ==
  [member |-> p, channel |-> channel, at |-> at, leaving |-> leaving, video |-> on]

(* passOn: to whoever opened the space, but the one it came from, who sees *)
(* the channel, but its member.                                            *)
PassedOn(p, q, from, x) ==
  IF Joined(p, q) /\ q # from /\ q \in Seers[x.channel] /\ q # x.member THEN <<x>> ELSE <<>>

PassesOn(p, x) ==
  wire' = [wire EXCEPT ![p] = [q \in Everybody |-> @[q] \o PassedOn(p, q, p, x)]]

Present(p, c) == {m \in Everybody : voices[p][m].channel = c}

(* full: with p in the channel, its camera on if on.                       *)
Full(p, c, on) ==
  LET n == 1 + Cardinality(Present(p, c))
  IN  n > Heard \/ (n > Seen /\ (on \/ \E m \in Present(p, c) : voices[p][m].video))

(* mesh: p wants a connection with whoever it believes in its channel, and *)
(* with nobody else.                                                       *)
Mesh(p) ==
  meshed' = [meshed EXCEPT ![p] =
    IF seat'[p] = Out THEN {} ELSE {m \in Everybody : voices'[p][m].channel = seat'[p]}]

(* Voice: those a channel holds, as p is shown it.                         *)
Voice(p, c) == Present(p, c) \cup {m \in {p} : seat[m] = c}

InitVoice ==
  /\ seat = [p \in Everybody |-> Out] /\ video = [p \in Everybody |-> FALSE]
  /\ said = [p \in Everybody |-> 0]
  /\ voices = [p \in Everybody |-> [m \in Everybody |-> Unheard]]
  /\ left = [p \in Everybody |-> [m \in Everybody |-> 0]]
  /\ expired = left /\ newest = left
  /\ meshed = [p \in Everybody |-> {}]
  /\ opened = Directed
  /\ wire = [p \in Everybody |-> [q \in Everybody |-> <<>>]] /\ broken = 0

-----------------------------------------------------------------------------
(* What a member does.  It is in one voice channel, so it leaves another.  *)

JoinVoice(p, c, on) ==
  /\ p \in Seers[c] /\ ~Full(p, c, on) /\ (on => p \in Cameras)
  /\ seat' = [seat EXCEPT ![p] = c] /\ video' = [video EXCEPT ![p] = on]
  /\ said' = [said EXCEPT ![p] = @ + IF seat[p] \in {Out, c} THEN 1 ELSE 2] /\ said'[p] <= MaxSaid[p]
  /\ LET leaving == Saying(p, seat[p], said[p] + 1, TRUE, video[p])
         joining == Saying(p, c, said'[p], FALSE, on)
     IN  IF seat[p] \in {Out, c} THEN PassesOn(p, joining)
         ELSE wire' = [wire EXCEPT ![p] =
                [q \in Everybody |-> @[q] \o PassedOn(p, q, p, leaving) \o PassedOn(p, q, p, joining)]]
  /\ UNCHANGED <<belief, opened, broken>>
  /\ Mesh(p)

Says(p, leaving, on) ==
  /\ said[p] < MaxSaid[p] /\ said' = [said EXCEPT ![p] = @ + 1]
  /\ PassesOn(p, Saying(p, seat[p], said'[p], leaving, on))

LeaveVoice(p) ==
  /\ seat[p] # Out /\ seat' = [seat EXCEPT ![p] = Out]
  /\ Says(p, TRUE, video[p]) /\ video' = [video EXCEPT ![p] = FALSE]
  /\ UNCHANGED <<belief, opened, broken>>
  /\ Mesh(p)

VoiceVideo(p) ==
  /\ seat[p] # Out /\ p \in Cameras
  /\ video[p] \/ ~Full(p, seat[p], TRUE)
  /\ video' = [video EXCEPT ![p] = ~@] /\ Says(p, FALSE, ~video[p])
  /\ UNCHANGED <<seat, belief, meshed, opened, broken>>

(* renew: p says again where it is, and stops believing whoever said       *)
(* nothing for too long.  Too long is several renewals, so p does not hold *)
(* the last presence of somebody still there.                              *)
Silent(p) ==
  {m \in Everybody : voices[p][m] # Unheard /\ (voices[p][m].channel = seat[m] => said[m] > voices[p][m].at)}

Renew(p) ==
  \E gone \in SUBSET Silent(p) :
    /\ IF seat[p] # Out THEN Says(p, FALSE, video[p]) ELSE gone # {} /\ UNCHANGED <<said, wire>>
    /\ expired' = [expired EXCEPT ![p] = [m \in Everybody |-> IF m \in gone THEN voices[p][m].at ELSE @[m]]]
    /\ voices' = [voices EXCEPT ![p] = [m \in Everybody |-> IF m \in gone THEN Unheard ELSE @[m]]]
    /\ UNCHANGED <<seat, video, left, newest, opened, broken>>
    /\ Mesh(p)

-----------------------------------------------------------------------------
(* voice: p takes what q passed on, if it is newer than what it holds.     *)

(* Later than what is held of its channel, and than the member's leaving;  *)
(* what is older than something believed for its whole time is too old.    *)
IsNews(p, x) ==
  /\ x.member # p /\ x.at > expired[p][x.member] /\ x.at > left[p][x.member]
  /\ voices[p][x.member].channel = x.channel => x.at > voices[p][x.member].at

(* believe: it is in this channel and in no other.                         *)
BelievesForgetful(p, x) ==   \* a mistake: when a member left is not kept
  /\ voices' = [voices EXCEPT ![p][x.member] =
       IF x.leaving THEN Unheard ELSE [channel |-> x.channel, at |-> x.at, video |-> x.video]]
  /\ newest' = [newest EXCEPT ![p][x.member] = IF x.at > @ THEN x.at ELSE @]
  /\ UNCHANGED <<left, expired>>

BelievesAtFirst(p, x) ==   \* a mistake: a camera turned on or off later is not seen
  /\ voices' = [voices EXCEPT ![p][x.member] =
       IF x.leaving THEN Unheard
       ELSE [channel |-> x.channel, at |-> x.at, video |-> IF @.channel = x.channel THEN @.video ELSE x.video]]
  /\ left' = [left EXCEPT ![p][x.member] = IF x.leaving THEN x.at ELSE 0]
  /\ newest' = [newest EXCEPT ![p][x.member] = IF x.at > @ THEN x.at ELSE @]
  /\ UNCHANGED expired

Believes(p, x) ==
  /\ voices' = [voices EXCEPT ![p][x.member] =
       IF x.leaving THEN Unheard ELSE [channel |-> x.channel, at |-> x.at, video |-> x.video]]
  /\ left' = [left EXCEPT ![p][x.member] = IF x.leaving THEN x.at ELSE 0]
  /\ newest' = [newest EXCEPT ![p][x.member] = IF x.at > @ THEN x.at ELSE @]
  /\ UNCHANGED expired

Hear(p, q) ==
  /\ wire[q][p] # <<>>
  /\ LET x == Head(wire[q][p])
         taken == [wire EXCEPT ![q][p] = Tail(@)]
     IN  IF IsNews(p, x)
         THEN /\ Believes(p, x)
              /\ wire' = [taken EXCEPT ![p] = [r \in Everybody |-> @[r] \o PassedOn(p, r, q, x)]]
         ELSE wire' = taken /\ UNCHANGED belief
  /\ UNCHANGED <<mine, opened, broken>>
  /\ Mesh(p)

-----------------------------------------------------------------------------
(* presences: a member that says it opened the space is told who is       *)
(* where, as held, and then where the one telling is.                      *)
Held(p, q) ==
  LET known == {m \in Everybody \ {p, q} : voices[p][m] # Unheard /\ q \in Seers[voices[p][m].channel]}
  IN  [i \in 1..Cardinality(known) |->
        LET m == SetToSeq(known)[i] IN Saying(m, voices[p][m].channel, voices[p][m].at, FALSE, voices[p][m].video)]

Tells(p, q) == seat[p] # Out /\ q \in Seers[seat[p]]

Opens(p, q) ==
  Held(p, q) \o (IF Tells(p, q) THEN <<Saying(p, seat[p], said[p] + 1, FALSE, video[p])>> ELSE <<>>)

Join(p, q) ==
  /\ <<p, q>> \in Directed \ opened /\ opened' = opened \cup {<<p, q>>}
  /\ IF Tells(p, q) THEN said[p] < MaxSaid[p] /\ said' = [said EXCEPT ![p] = @ + 1] ELSE UNCHANGED said
  /\ wire' = [wire EXCEPT ![p][q] = @ \o Opens(p, q)]
  /\ UNCHANGED <<seat, video, belief, meshed, broken>>

(* A connection ends, for both, and what was on its way is lost.           *)
Part(p, q) ==
  /\ Joined(p, q) /\ broken < MaxBreaks /\ broken' = broken + 1
  /\ opened' = opened \ {<<p, q>>, <<q, p>>}
  /\ wire' = [wire EXCEPT ![p][q] = <<>>, ![q][p] = <<>>]
  /\ UNCHANGED <<mine, belief, meshed>>

NextVoice ==
  \/ \E p \in Everybody :
       \/ \E c \in Channels, on \in BOOLEAN : JoinVoice(p, c, on)
       \/ LeaveVoice(p) \/ VoiceVideo(p) \/ Renew(p)
  \/ \E p, q \in Everybody : Hear(p, q) \/ Join(p, q) \/ Part(p, q)

SpecVoice == InitVoice /\ [][NextVoice]_voicing

-----------------------------------------------------------------------------
Numbers == UNION {1..MaxSaid[m] : m \in Everybody}
Presences == [member : Everybody, channel : Channels, at : Numbers, leaving : BOOLEAN, video : BOOLEAN]

TypeOKVoice ==
  /\ seat \in [Everybody -> Channels \cup {Out}] /\ video \in [Everybody -> BOOLEAN]
  /\ said \in [Everybody -> Nat] /\ \A p \in Everybody : said[p] <= MaxSaid[p]
  /\ voices \in [Everybody -> [Everybody ->
       {Unheard} \cup [channel : Channels, at : Numbers, video : BOOLEAN]]]
  /\ \A f \in {left, expired, newest} : f \in [Everybody -> [Everybody -> {0} \cup Numbers]]
  /\ meshed \in [Everybody -> SUBSET Everybody]
  /\ opened \subseteq Directed /\ broken \in 0..MaxBreaks
  /\ wire \in [Everybody -> [Everybody -> Seq(Presences)]]

(* Of whoever these are, nobody who was told where they are goes back to   *)
(* where they were.                                                        *)
LatestKnown(some) ==
  \A p \in Everybody, m \in some : voices[p][m] # Unheard => voices[p][m].at >= newest[p][m]

(* Once what was said has come, each of these in a channel is shown there, *)
(* as they are, to whoever sees it, and is in the full mesh of ADR 0047 of *)
(* whoever is in it too.  While no connection ends none is shown where     *)
(* they are not, either, nor wanted from another channel.                  *)
Quiet == opened = Directed /\ \A p, q \in Everybody : wire[p][q] = <<>>
In(c) == {m \in Everybody : seat[m] = c}

SeatsKnown(some) ==
  Quiet => \A p \in Everybody, c \in Channels :
    /\ p \in Seers[c] => In(c) \cap some \subseteq Voice(p, c)
    /\ broken = 0 => Voice(p, c) \cap some \subseteq In(c)
    /\ \A m \in (In(c) \cap some) \ {p} : p \in Seers[c] => voices[p][m].video = video[m]
    /\ seat[p] = c => /\ (In(c) \cap some) \ {p} \subseteq meshed[p]
                      /\ broken = 0 => meshed[p] \cap some \subseteq In(c)

(* docs/protocol/spaces.md: a presence is believed when it is "later than  *)
(* the last one its signer signed", and a member is taken to be in the     *)
(* channel "its latest presence names".  That is so of everybody in a      *)
(* space of one channel: of several, see VoiceHistory.                     *)
LatestBelieved == LatestKnown(Everybody)
SeatsAreKnown == SeatsKnown(Everybody)
=============================================================================
