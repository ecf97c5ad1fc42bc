--------------------------- MODULE VPathDirectives ---------------------------
(***************************************************************************)
(* What the VPATH directives promise (src/vpath.c construct_vpath_list and *)
(* build_vpath_lists), with the linked list left out: the selective lists  *)
(* form a sequence in declaration order, a directive with directories      *)
(* appends one, a directive without directories removes every list of the  *)
(* same pattern key (or of any pattern) in the same target category, and   *)
(* the build step fixes the general VPATH and the GPATH.                   *)
(***************************************************************************)
EXTENDS Naturals, Sequences

CONSTANTS
  Dirs,
  Patterns,  \* records [str, pct]: the pattern after find_percent, and the
             \* offset of its unescaped '%' or NoPercent
  NoPercent,
  DirSeqs,   \* the non-empty entry lists a directory string can yield
  NULL

VARIABLES
  lists,          \* the selective lists, in declaration order
  general_vpath,  \* searchpath of the general VPATH, or NULL
  gpaths,         \* searchpath of the GPATH list, or NULL
  built           \* build_vpath_lists has run

vars == <<lists, general_vpath, gpaths, built>>

VPath == [pattern : Patterns, searchpath : DirSeqs, target_goal : BOOLEAN]

\* What a directory string yields after splitting: entries, or none at all.
Entries == DirSeqs \cup {<<>>}

(* Two pattern keys are the same when the strings are equal and both have *)
(* their '%' at the same offset or neither has one.                        *)
SameKey(p, q) ==
  /\ \/ p.pct = NoPercent /\ q.pct = NoPercent
     \/ p.pct # NoPercent /\ q.pct # NoPercent /\ p.pct = q.pct
  /\ p.str = q.str

\* Whether a removing directive for pattern p (NULL: all) and category tg
\* removes list l.
Removes(p, tg, l) == (p = NULL \/ SameKey(p, l.pattern)) /\ l.target_goal = tg

Init ==
  /\ lists = <<>> /\ general_vpath = NULL /\ gpaths = NULL /\ built = FALSE

Add(p, s, tg) ==
  /\ ~built
  /\ lists' = IF s = <<>> THEN lists
              ELSE Append(lists, [pattern |-> p, searchpath |-> s, target_goal |-> tg])
  /\ UNCHANGED <<general_vpath, gpaths, built>>

Remove(p, tg) ==
  /\ ~built
  /\ lists' = SelectSeq(lists, LAMBDA l : ~Removes(p, tg, l))
  /\ UNCHANGED <<general_vpath, gpaths, built>>

\* VPATH and GPATH values that yield no entry leave the slot NULL.
Build(vp, gp) ==
  /\ ~built
  /\ built' = TRUE
  /\ general_vpath' = IF vp = <<>> THEN NULL ELSE vp
  /\ gpaths' = IF gp = <<>> THEN NULL ELSE gp
  /\ UNCHANGED lists

Next ==
  \/ \E p \in Patterns, s \in Entries, tg \in BOOLEAN : Add(p, s, tg)
  \/ \E p \in Patterns \cup {NULL}, tg \in BOOLEAN : Remove(p, tg)
  \/ \E vp, gp \in Entries : Build(vp, gp)

Spec == Init /\ [][Next]_vars
=============================================================================
