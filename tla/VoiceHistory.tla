---------------------------- MODULE VoiceHistory ----------------------------
(***************************************************************************)
(* VoicePresence among several channels.  When a member left is forgotten  *)
(* once anything later of it is believed, and a presence is held against   *)
(* what is held of its own channel alone (voice.go), so one that comes     *)
(* late from a channel a member moved out of is believed.  What is known   *)
(* of a member is thus of how it moved: kept here, beside what happens.    *)
(***************************************************************************)
EXTENDS VoicePresence

CONSTANTS
  MaxDeeds   \* bound: presences said and connections ended, together

ASSUME HistoryAssumption == MaxDeeds \in Nat

VARIABLES
  been,      \* been[m]: the channels m was in
  settled    \* those who, when they last said where they are, said it once,
             \* with nothing they said before still on its way

history == <<been, settled>>

OnItsWay(m) == \E p, q \in Everybody : \E i \in DOMAIN wire[p][q] : wire[p][q][i].member = m

InitHistory == InitVoice /\ been = [m \in Everybody |-> {}] /\ settled = Everybody

NextHistory ==
  /\ NextVoice
  /\ FoldFunction(+, broken', said') <= MaxDeeds
  /\ been' = [m \in Everybody |-> been[m] \cup ({seat'[m]} \ {Out})]
  /\ settled' = {m \in Everybody :
       IF said'[m] = said[m] THEN m \in settled ELSE said'[m] = said[m] + 1 /\ ~OnItsWay(m)}

SpecHistory == InitHistory /\ [][NextHistory]_<<voicing, history>>

-----------------------------------------------------------------------------
TypeOKHistory ==
  TypeOKVoice /\ been \in [Everybody -> SUBSET Channels] /\ settled \subseteq Everybody

(* Those who stay in one channel, and, while no connection ends, those who *)
(* let what they said come before they say more.                           *)
Stayed == {m \in Everybody : Cardinality(been[m]) <= 1}
Steady == Stayed \cup (IF broken = 0 THEN settled ELSE {})

(* Nobody goes back to an earlier presence of somebody steady, though it   *)
(* comes through others, in another order, and again on each connection    *)
(* (voice.go's voice and presences).                                       *)
LatestOfTheSteady == LatestKnown(Steady)

(* Who is steady is shown where they are, and wanted by whoever is there,  *)
(* however others move and connections end (voice.go's believe and mesh).  *)
SeatsOfTheSteady == SeatsKnown(Steady)
=============================================================================
