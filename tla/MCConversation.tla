--------------------------- MODULE MCConversation ---------------------------
(* Small instances of Conversation, with its files.                        *)
EXTENDS DirectFiles

Occasion(writers, kinds, entries, wall, stops, reads, forgets, breaks, failures) ==
  [writers |-> writers, kinds |-> kinds, entries |-> entries, wall |-> wall, restarts |-> stops,
   reads |-> reads, forgets |-> forgets, breaks |-> breaks, failures |-> failures]

(* One changes what it wrote, or deletes it here alone; two answer and     *)
(* react; two write while clocks go back and an application stops; they    *)
(* read; a file crosses while connections end, an application stops,       *)
(* pieces fail, and it is deleted.                                         *)
MCOccasions ==
  {Occasion({ann}, {"text", "edit", "deletion"}, 3, 0, 0, FALSE, FALSE, 0, 0),
   Occasion({ann}, {"text", "edit", "deletion"}, 2, 0, 0, FALSE, TRUE, 0, 0),
   Occasion(People, {"text", "reply", "reaction"}, 2, 0, 0, FALSE, FALSE, 0, 0),
   Occasion(People, {"text"}, 2, 1, 1, FALSE, FALSE, 1, 0),
   Occasion(People, {"text"}, 2, 0, 0, TRUE, FALSE, 0, 0),
   Occasion({ann}, {"file"}, 1, 0, 1, FALSE, TRUE, 1, 0),
   Occasion({ann}, {"file"}, 1, 0, 0, FALSE, FALSE, 1, 1),
   Occasion({ann}, {"file", "deletion"}, 2, 0, 0, FALSE, FALSE, 0, 0)}
=============================================================================
