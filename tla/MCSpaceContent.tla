--------------------------- MODULE MCSpaceContent ---------------------------
(* Small instances of SpaceContent.                                        *)
EXTENDS SpaceContent

CONSTANTS ann, bob, cal

(* Ann owns the space, bob administers it with her, cal is a member who    *)
(* holds a role; everybody reads channel 1, only the role channel 2.       *)
Space ==
  [Genesis EXCEPT !.rank[bob] = Administrator, !.rank[cal] = Member, !.roles = {2},
                  !.holds[cal] = {2}, !.channels = {1, 2}, !.restricted = {2}, !.readers[2] = {2}]

Circle == {{ann, bob}, {bob, cal}, {ann, cal}}
Line == {{ann, bob}, {bob, cal}}

Occasion(story, first, writers, fetchers, ids, wall, pairs, breakings) ==
  [story |-> story, after |-> Course(Space, story),
   hash |-> [p \in People |-> IF p = first THEN 1 ELSE IF p = ann THEN 2 ELSE IF p = bob THEN 3 ELSE 4],
   writers |-> writers, fetchers |-> fetchers, ids |-> ids, wall |-> wall, links |-> pairs, breaks |-> breakings]

Removal == [kind |-> "remove-member", author |-> ann, member |-> cal]
Shut == [kind |-> "take-role", author |-> ann, member |-> cal, role |-> 2]
Demotion == [kind |-> "unmake-admin", author |-> ann, member |-> bob]
Naming == [kind |-> "introduce", author |-> cal]
Leaving == [kind |-> "leave", author |-> cal]
Giving == [kind |-> "give-role", author |-> ann, member |-> cal, role |-> 2]

Says(p) == <<p, "text", 1>>
Edits(p) == <<p, "edit", 1>>
Deletes(p) == <<p, "deletion", 1>>
Announces(p, kind) == <<p, kind, 1>>
InPrivate == <<ann, "text", 2>>

(* Entries cross while a connection ends; a moderator deletes, then an     *)
(* author edits too, clocks going back; a message is reacted and replied   *)
(* to; somebody is shut out, let in, or removed as a connection ends, and  *)
(* an administrator demoted; files are announced, fetched and deleted.     *)
MCOccasions ==
  {Occasion(<<>>, ann, {Says(ann), Edits(ann)}, {}, <<1, 2>>, 0, Circle, 1),
   Occasion(<<>>, ann, {Says(cal), Deletes(bob), Says(ann)}, {}, <<1, 2, 3>>, 0, Line, 1),
   Occasion(<<>>, ann, {Says(cal), Edits(cal), Deletes(bob)}, {}, <<1, 2, 3>>, 1, Line, 0),
   Occasion(<<>>, ann, {Says(ann), <<cal, "reaction", 1>>, <<bob, "reply", 1>>}, {}, <<1, 3, 2, 4>>, 0, Line, 0),
   Occasion(<<Shut>>, ann, {InPrivate}, {}, <<1>>, 0, Circle, 0),
   Occasion(<<Shut>>, ann, {InPrivate}, {}, <<1>>, 0, Line, 1),
   Occasion(<<Giving>>, ann, {InPrivate}, {}, <<1>>, 0, Circle, 0),
   Occasion(<<Removal>>, bob, {}, {}, <<>>, 0, Circle, 1),
   Occasion(<<Removal, Demotion>>, bob, {}, {}, <<>>, 0, Circle, 0),
   Occasion(<<>>, ann, {Announces(ann, "picture"), Deletes(ann)}, {}, <<1, 2>>, 0, Line, 0),
   Occasion(<<>>, ann, {Announces(ann, "file"), Deletes(ann)}, {cal}, <<1, 2>>, 0, Line, 0)}

(* A connection ends while a file is asked for.                            *)
Interrupted == {Occasion(<<>>, ann, {Announces(ann, "file")}, {bob}, <<1>>, 0, Line, 1)}

(* The next are of what the README tells does not hold.  Somebody names    *)
(* themselves and leaves, and the second comes first.                      *)
NamedAndLeft == {Occasion(<<Naming, Leaving>>, ann, {}, {}, <<>>, 0, Circle, 1)}

(* A moderator deletes a message and is demoted, or its author edits it.   *)
Demoted == {Occasion(<<Demotion>>, ann, {Says(cal), Deletes(bob)}, {}, <<1, 2>>, 0, Line, 0)}
Edited == {Occasion(<<>>, ann, {Says(cal), Edits(cal), Deletes(bob)}, {}, <<1, 2, 3>>, 0, Line, 1)}
=============================================================================
