--------------------------- MODULE MC_FatalSignal ---------------------------
(* Two targets whose recipes start children, both deletable, and the two   *)
(* kinds of fatal signal main.c installs the handler for: INT, which kills *)
(* make and deletes targets, and XCPU, which only waits for the children.  *)
(* Either may interrupt the handler of the other.                          *)
EXTENDS FatalSignal

MCTargets  == {"t1", "t2"}
MCAlsoMake == [t \in MCTargets |-> {}]
MCNone     == {}

\* The recipe of both: a command, so a child is started.
MCRecipes  == {<<"x">>}
=============================================================================
