---------------------------- MODULE VPathResolve ----------------------------
(***************************************************************************)
(* What vpath_search (src/vpath.c) promises, stated as one atomic step.    *)
(*                                                                         *)
(* One file is resolved against a finished VPATH collection: the chain of  *)
(* selective lists (already reversed into declaration order by             *)
(* build_vpath_lists), the general VPATH list, and the outside world the   *)
(* search consults: make's file database (lookup_file), the directory      *)
(* cache (dir_file_exists_p) and the file system (stat).  The answer is    *)
(* the first list, in phase order, that has an accepted directory; inside  *)
(* a list the first accepted directory wins, and a target-goal list with   *)
(* none falls back to its first directory.                                 *)
(*                                                                         *)
(* The file being resolved is fixed; a directory d stands for the          *)
(* candidate name "d/file", so db, cache and disk are functions of d.      *)
(***************************************************************************)
EXTENDS Naturals, Sequences, FiniteSets, FiniteSetsExt

CONSTANTS
  Dirs,              \* directory entries of the search paths
  Patterns,          \* vpath patterns
  MatchingPatterns,  \* the patterns vpath_match accepts for the file
  DirSeqs,           \* the searchpath arrays a list may have
  MaxLists,          \* bound on the number of selective lists
  DbMtimes,          \* last_mtime values a database entry may hold
  WantMtime,         \* whether the caller passes a non-NULL mtime_ptr
  NULL

ASSUME MatchingPatterns \subseteq Patterns
ASSUME \A s \in DirSeqs : s \in Seq(Dirs) /\ Len(s) > 0
ASSUME WantMtime \in BOOLEAN

VARIABLES
  vpaths,          \* the selective lists, in search order
  general_vpath,   \* searchpath of the general VPATH list, or NULL
  db,              \* db[d]: lookup_file("d/file"), NULL when not mentioned
  cache,           \* cache[d]: dir_file_exists_p(d, file)
  disk,            \* disk[d]: stat("d/file") succeeds
  file_is_target,  \* lookup_file(file)->is_target
  file_absolute,   \* file starts at the root
  outcome          \* NULL until the search has answered

env  == <<db, cache, disk, file_is_target, file_absolute>>
vars == <<vpaths, general_vpath, env, outcome>>

\* OLD_MTIME and NEW_MTIME, the values the -o and -W options give a file.
SpecialMtimes == {"old", "new"}

VPath   == [pattern : Patterns, searchpath : DirSeqs, target_goal : BOOLEAN]
DbEntry == [is_target : BOOLEAN, last_mtime : DbMtimes]
MaxDirs == Max({Len(s) : s \in DirSeqs})

\* "none" is the caller's *mtime_ptr when vpath_search never wrote it.
MtimeOut == {"none", "unknown", "stat"} \cup DbMtimes
Outcome  == [path : Dirs \cup {NULL}, mtime : MtimeOut, target_path : BOOLEAN,
             vpath_index : 0..MaxLists, path_index : 0..MaxDirs]

-----------------------------------------------------------------------------
(* The states vpath_search may start in.  The environment of an absolute   *)
(* file is never consulted, so one environment stands for all of them.     *)
InitEnv ==
  /\ file_absolute \in BOOLEAN
  /\ IF file_absolute
       THEN /\ db = [d \in Dirs |-> NULL]
            /\ cache = [d \in Dirs |-> FALSE]
            /\ disk = [d \in Dirs |-> FALSE]
            /\ file_is_target = FALSE
       ELSE /\ db \in [Dirs -> DbEntry \cup {NULL}]
            /\ cache \in [Dirs -> BOOLEAN]
            /\ disk \in [Dirs -> BOOLEAN]
            /\ file_is_target \in BOOLEAN

InitCollection ==
  /\ vpaths \in UNION {[1..n -> VPath] : n \in 0..MaxLists}
  /\ general_vpath \in DirSeqs \cup {NULL}

Init == InitCollection /\ InitEnv /\ outcome = NULL

-----------------------------------------------------------------------------
(* Whether the candidate in directory d is accepted by a list whose        *)
(* target_goal flag is tg: a database mention counts unless the file is a  *)
(* target and the mention is not; otherwise the directory cache must know  *)
(* it, and a failing stat is forgiven only for a target file or a          *)
(* target-goal list.                                                       *)
DbAccepts(d) == db[d] # NULL /\ (~file_is_target \/ db[d].is_target)

Accepted(d, tg) ==
  \/ DbAccepts(d)
  \/ cache[d] /\ (disk[d] \/ tg \/ file_is_target)

\* The modification time reported for an accepted candidate.
MtimeOf(d) ==
  IF ~WantMtime THEN "none"
  ELSE IF DbAccepts(d) /\ db[d].last_mtime \in SpecialMtimes THEN db[d].last_mtime
  ELSE IF ~DbAccepts(d) /\ disk[d] THEN "stat"
  ELSE "unknown"

(* selective_vpath_search: the first accepted directory, else the first    *)
(* directory of a target-goal list, else nothing.                          *)
SearchIn(sp, tg) ==
  LET acc == {k \in 1..Len(sp) : Accepted(sp[k], tg)}
  IN  IF acc # {}
        THEN [dir |-> sp[Min(acc)], index |-> Min(acc) - 1, mtime |-> MtimeOf(sp[Min(acc)])]
      ELSE IF tg
        THEN [dir |-> sp[1], index |-> 0, mtime |-> IF WantMtime THEN "unknown" ELSE "none"]
      ELSE NULL

Matches(k) == vpaths[k].pattern \in MatchingPatterns

\* Phase 1 reads every matching list as if its target_goal were off;
\* phase 2 rereads the target-goal lists with the flag on.
Phase1(k) == IF Matches(k) THEN SearchIn(vpaths[k].searchpath, FALSE) ELSE NULL
Phase2(k) == IF Matches(k) /\ vpaths[k].target_goal
               THEN SearchIn(vpaths[k].searchpath, TRUE) ELSE NULL

Found(r, vi, tp) ==
  [path |-> r.dir, mtime |-> r.mtime, target_path |-> tp,
   vpath_index |-> vi, path_index |-> r.index]

NotFound == [path |-> NULL, mtime |-> "none", target_path |-> FALSE,
             vpath_index |-> 0, path_index |-> 0]

Resolve ==
  LET hits1 == {k \in DOMAIN vpaths : Phase1(k) # NULL}
      hits2 == {k \in DOMAIN vpaths : Phase2(k) # NULL}
  IN  IF file_absolute \/ (vpaths = <<>> /\ general_vpath = NULL) THEN NotFound
      ELSE IF hits1 # {}
        THEN Found(Phase1(Min(hits1)), Min(hits1) - 1, vpaths[Min(hits1)].target_goal)
      ELSE IF hits2 # {}
        THEN Found(Phase2(Min(hits2)), Min(hits2) - 1, TRUE)
      ELSE IF general_vpath # NULL /\ SearchIn(general_vpath, FALSE) # NULL
        THEN Found(SearchIn(general_vpath, FALSE), 0, FALSE)
      ELSE NotFound

Answer ==
  /\ outcome = NULL
  /\ outcome' = Resolve
  /\ UNCHANGED <<vpaths, general_vpath, env>>

Next == Answer

Spec == Init /\ [][Next]_vars

TypeOK ==
  /\ vpaths \in Seq(VPath) /\ Len(vpaths) <= MaxLists
  /\ general_vpath \in DirSeqs \cup {NULL}
  /\ outcome \in Outcome \cup {NULL}
=============================================================================
