--------------------------- MODULE MCVoicePresence ---------------------------
(* Small instances of VoicePresence.                                       *)
EXTENDS VoiceHistory, TLC

CONSTANTS ana, bia, cid, hall, den

Three == {ana, bia, cid}
OneChannel == {hall}
TwoChannels == {hall, den}
EverybodySees == [c \in Channels |-> Everybody]
Triangle == {{ana, bia}, {bia, cid}, {cid, ana}}

Either == Permutations(TwoChannels)

(* Ana says three presences and bia one, which room for two allows while   *)
(* no camera is on; or ana alone does.                                     *)
Sayings == [m \in Everybody |-> CASE m = ana -> 3 [] m = bia -> 1 [] OTHER -> 0]
OnlyAna == [m \in Everybody |-> IF m = ana THEN 3 ELSE 0]
=============================================================================
