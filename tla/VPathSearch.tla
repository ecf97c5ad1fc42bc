----------------------------- MODULE VPathSearch -----------------------------
(***************************************************************************)
(* vpath_search and selective_vpath_search (src/vpath.c), step by step.    *)
(*                                                                         *)
(* pc follows vpath_search through its three loops: "scan1" runs over the  *)
(* selective lists with target_goal switched off in the list itself,       *)
(* "scan2" reruns the target-goal lists, "general" tries the general       *)
(* VPATH.  "search" is one call of selective_vpath_search, one step per    *)
(* iteration of its loop over the searchpath; caller records which loop    *)
(* made the call.  The outside world (file database, directory cache,      *)
(* file system) is fixed for the search; a directory d stands for the      *)
(* candidate name "d/file".                                                *)
(***************************************************************************)
EXTENDS Naturals, Sequences, FiniteSets, FiniteSetsExt

CONSTANTS Dirs, Patterns, MatchingPatterns, DirSeqs, MaxLists, DbMtimes,
          WantMtime, NULL

VARIABLES
  vpaths, general_vpath, db, cache, disk, file_is_target, file_absolute,
  \* vpath_search
  pc,             \* "start", "scan1", "scan2", "general", "search", "done"
  v,              \* position of the list the loop is at (1-based)
  save_goal,      \* target_goal of vpaths[v] while phase 1 has it off
  caller,         \* 1, 2 or 3: the loop that called selective_vpath_search
  result,         \* the returned name (its directory), NULL for none
  mtime,          \* *mtime_ptr of the caller
  target_path,    \* *target_path
  vpath_index,    \* *vpath_index
  path_index,     \* *path_index
  \* selective_vpath_search
  sp,             \* the searchpath of the list being searched
  is_target_path, \* path->target_goal, read on entry
  is_target,      \* whether the file itself is a target
  i,              \* loop index into sp (1-based)
  exists,         \* declared outside the loop: survives iterations
  mptr,           \* the local mtime_ptr is still non-NULL
  tgt_name        \* the first directory saved for a target path, or NULL

env     == <<db, cache, disk, file_is_target, file_absolute>>
outputs == <<result, mtime, target_path, vpath_index, path_index>>
locals  == <<sp, is_target_path, is_target, i, exists, mptr, tgt_name>>
vars    == <<vpaths, general_vpath, env, pc, v, save_goal, caller, outputs, locals>>

R == INSTANCE VPathResolve WITH outcome <- NULL

SpecialMtimes == {"old", "new"}

Init ==
  /\ R!InitCollection
  /\ R!InitEnv
  /\ pc = "start" /\ v = 1 /\ save_goal = FALSE /\ caller = 1
  /\ result = NULL /\ mtime = "none"
  /\ target_path = FALSE /\ vpath_index = 0 /\ path_index = 0
  /\ sp = <<>> /\ is_target_path = FALSE /\ is_target = FALSE /\ i = 1
  /\ exists = FALSE /\ mptr = FALSE /\ tgt_name = NULL

-----------------------------------------------------------------------------
(* vpath_match: whether the list's pattern matches the file, abstracted   *)
(* to the set of patterns that match it (trailing-dot retry included).     *)
VpathMatch(k) == vpaths[k].pattern \in MatchingPatterns

(* Entering selective_vpath_search for searchpath s with target_goal tg.  *)
Call(s, tg, c) ==
  /\ pc' = "search" /\ caller' = c
  /\ sp' = s /\ is_target_path' = tg /\ is_target' = file_is_target
  /\ i' = 1 /\ exists' = FALSE /\ mptr' = WantMtime /\ tgt_name' = NULL

(* vpath_search gives up at once on an absolute name or when there are no  *)
(* search paths at all.                                                    *)
GiveUp ==
  /\ pc = "start"
  /\ file_absolute \/ (vpaths = <<>> /\ general_vpath = NULL)
  /\ pc' = "done"
  /\ UNCHANGED <<vpaths, general_vpath, env, v, save_goal, caller, outputs, locals>>

BeginScan ==
  /\ pc = "start"
  /\ ~file_absolute /\ (vpaths # <<>> \/ general_vpath # NULL)
  /\ pc' = "scan1" /\ v' = 1
  /\ UNCHANGED <<vpaths, general_vpath, env, save_goal, caller, outputs, locals>>

(* Phase 1: a matching list is searched with its target_goal set to 0 in  *)
(* the list itself; the saved flag is put back when the call returns.      *)
Scan1Call ==
  /\ pc = "scan1" /\ v <= Len(vpaths) /\ VpathMatch(v)
  /\ save_goal' = vpaths[v].target_goal
  /\ vpaths' = [vpaths EXCEPT ![v].target_goal = FALSE]
  /\ Call(vpaths[v].searchpath, FALSE, 1)
  /\ UNCHANGED <<general_vpath, env, v, outputs>>

Scan1Skip ==
  /\ pc = "scan1" /\ v <= Len(vpaths) /\ ~VpathMatch(v)
  /\ v' = v + 1 /\ vpath_index' = vpath_index + 1
  /\ UNCHANGED <<vpaths, general_vpath, env, pc, save_goal, caller, result,
                 mtime, target_path, path_index, locals>>

\* Mutant: the indices are not reset before the second loop.
Scan1EndNoReset ==
  /\ pc = "scan1" /\ v > Len(vpaths)
  /\ pc' = "scan2" /\ v' = 1
  /\ UNCHANGED <<vpaths, general_vpath, env, save_goal, caller, result, mtime,
                 target_path, vpath_index, path_index, locals>>

Scan1End ==
  /\ pc = "scan1" /\ v > Len(vpaths)
  /\ pc' = "scan2" /\ v' = 1 /\ vpath_index' = 0 /\ path_index' = 0
  /\ UNCHANGED <<vpaths, general_vpath, env, save_goal, caller, result, mtime,
                 target_path, locals>>

(* Phase 2: only lists whose target_goal is set, searched as they are.    *)
Scan2Call ==
  /\ pc = "scan2" /\ v <= Len(vpaths)
  /\ vpaths[v].target_goal /\ VpathMatch(v)
  /\ Call(vpaths[v].searchpath, vpaths[v].target_goal, 2)
  /\ UNCHANGED <<vpaths, general_vpath, env, v, save_goal, outputs>>

\* Mutant: only the lists the second loop searched are counted.
Scan2SkipUncounted ==
  /\ pc = "scan2" /\ v <= Len(vpaths)
  /\ ~(vpaths[v].target_goal /\ VpathMatch(v))
  /\ v' = v + 1
  /\ UNCHANGED <<vpaths, general_vpath, env, pc, save_goal, caller, result,
                 mtime, target_path, vpath_index, path_index, locals>>

Scan2Skip ==
  /\ pc = "scan2" /\ v <= Len(vpaths)
  /\ ~(vpaths[v].target_goal /\ VpathMatch(v))
  /\ v' = v + 1 /\ vpath_index' = vpath_index + 1
  /\ UNCHANGED <<vpaths, general_vpath, env, pc, save_goal, caller, result,
                 mtime, target_path, path_index, locals>>

Scan2End ==
  /\ pc = "scan2" /\ v > Len(vpaths)
  /\ pc' = "general" /\ vpath_index' = 0 /\ path_index' = 0
  /\ UNCHANGED <<vpaths, general_vpath, env, v, save_goal, caller, result,
                 mtime, target_path, locals>>

(* Phase 3: the general VPATH, built with target_goal 0.                  *)
GeneralCall ==
  /\ pc = "general" /\ general_vpath # NULL
  /\ Call(general_vpath, FALSE, 3)
  /\ UNCHANGED <<vpaths, general_vpath, env, v, save_goal, outputs>>

GeneralNone ==
  /\ pc = "general" /\ general_vpath = NULL
  /\ pc' = "done"
  /\ UNCHANGED <<vpaths, general_vpath, env, v, save_goal, caller, outputs, locals>>

-----------------------------------------------------------------------------
(* What the calling loop does with the value selective_vpath_search       *)
(* returns: d is the directory of the returned name or NULL, idx the value *)
(* it stored in *path_index and m the value it stored in *mtime_ptr.       *)
\* Mutant: the target_goal flag switched off in phase 1 is not put back.
ReturnNoRestore(d, idx, m) ==
  /\ UNCHANGED vpaths
  /\ IF d # NULL
       THEN /\ pc' = "done" /\ result' = d /\ mtime' = m /\ path_index' = idx
            /\ target_path' = IF caller = 3 THEN FALSE ELSE vpaths[v].target_goal
            /\ UNCHANGED <<v, vpath_index>>
       ELSE /\ pc' = IF caller = 1 THEN "scan1" ELSE IF caller = 2 THEN "scan2" ELSE "done"
            /\ v' = IF caller = 3 THEN v ELSE v + 1
            /\ vpath_index' = IF caller = 3 THEN vpath_index ELSE vpath_index + 1
            /\ UNCHANGED <<result, mtime, target_path, path_index>>

Return(d, idx, m) ==
  LET restored == IF caller = 1
                    THEN [vpaths EXCEPT ![v].target_goal = save_goal]
                    ELSE vpaths
  IN
  /\ vpaths' = restored
  /\ IF d # NULL
       THEN /\ pc' = "done" /\ result' = d /\ mtime' = m /\ path_index' = idx
            /\ target_path' = IF caller = 3 THEN FALSE ELSE restored[v].target_goal
            /\ UNCHANGED <<v, vpath_index>>
       ELSE /\ pc' = IF caller = 1 THEN "scan1" ELSE IF caller = 2 THEN "scan2" ELSE "done"
            /\ v' = IF caller = 3 THEN v ELSE v + 1
            /\ vpath_index' = IF caller = 3 THEN vpath_index ELSE vpath_index + 1
            /\ UNCHANGED <<result, mtime, target_path, path_index>>

(* One iteration of the loop over the searchpath, for directory sp[i].    *)
(* The file database is asked first; a mention sets exists unless the file *)
(* is a target and the mention is not.  Without a mention exists keeps     *)
(* its value.  If exists is still 0 the directory cache is asked.          *)
Dir          == sp[i]
DbExists     == IF db[Dir] # NULL THEN ~is_target \/ db[Dir].is_target ELSE exists
DbMtime      == db[Dir] # NULL /\ DbExists /\ mptr /\ db[Dir].last_mtime \in SpecialMtimes
InCache      == ~DbExists /\ cache[Dir]
ExistsNow    == DbExists \/ InCache
\* The stat call is made only for a cache hit; a failure clears exists.
StatFails    == InCache /\ ~disk[Dir]

\* Mutant: the stat time is stored even when stat failed.
SearchFoundStatUnchecked ==
  /\ pc = "search" /\ i <= Len(sp)
  /\ ExistsNow
  /\ ~StatFails \/ is_target_path \/ is_target
  /\ Return(Dir, i - 1,
            CASE DbMtime         -> db[Dir].last_mtime
              [] InCache /\ mptr -> "stat"
              [] mptr             -> "unknown"
              [] OTHER            -> mtime)
  /\ UNCHANGED <<general_vpath, env, save_goal, caller, locals>>

(* The candidate is returned: a database mention, a cache hit that stat   *)
(* confirms, or a failed stat on a target path or for a target file.       *)
SearchFound ==
  /\ pc = "search" /\ i <= Len(sp)
  /\ ExistsNow
  /\ ~StatFails \/ is_target_path \/ is_target
  /\ Return(Dir, i - 1,
            CASE DbMtime                     -> db[Dir].last_mtime
              [] InCache /\ ~StatFails /\ mptr -> "stat"
              [] mptr                         -> "unknown"
              [] OTHER                        -> mtime)
  /\ UNCHANGED <<general_vpath, env, save_goal, caller, locals>>

\* Mutant: exists is left set when stat refutes the cache.
SearchStaleKeepsExists ==
  /\ pc = "search" /\ i <= Len(sp)
  /\ ExistsNow /\ StatFails /\ ~is_target_path /\ ~is_target
  /\ exists' = TRUE /\ i' = i + 1
  /\ UNCHANGED <<vpaths, general_vpath, env, pc, v, save_goal, caller, outputs,
                 sp, is_target_path, is_target, mptr, tgt_name>>

\* Mutant: the loop retries the same directory after a stale cache hit.
SearchStaleNoAdvance ==
  /\ pc = "search" /\ i <= Len(sp)
  /\ ExistsNow /\ StatFails /\ ~is_target_path /\ ~is_target
  /\ exists' = FALSE
  /\ UNCHANGED <<vpaths, general_vpath, env, pc, v, save_goal, caller, outputs,
                 sp, is_target_path, is_target, mptr, tgt_name, i>>

(* The cache was stale and nothing excuses it: exists is cleared and the  *)
(* loop continues with the next directory.                                 *)
SearchStale ==
  /\ pc = "search" /\ i <= Len(sp)
  /\ ExistsNow /\ StatFails /\ ~is_target_path /\ ~is_target
  /\ exists' = FALSE /\ i' = i + 1
  /\ UNCHANGED <<vpaths, general_vpath, env, pc, v, save_goal, caller, outputs,
                 sp, is_target_path, is_target, mptr, tgt_name>>

\* Mutant: every missing directory of a target path overwrites the saved one.
SearchMissLastDir ==
  /\ pc = "search" /\ i <= Len(sp)
  /\ ~ExistsNow
  /\ exists' = FALSE /\ i' = i + 1
  /\ tgt_name' = IF is_target_path THEN Dir ELSE tgt_name
  /\ UNCHANGED <<vpaths, general_vpath, env, pc, v, save_goal, caller, outputs,
                 sp, is_target_path, is_target, mptr>>

(* Not found here.  On a target path the first such directory is kept as  *)
(* the place where a file to be made will go.                              *)
SearchMiss ==
  /\ pc = "search" /\ i <= Len(sp)
  /\ ~ExistsNow
  /\ exists' = FALSE /\ i' = i + 1
  /\ tgt_name' = IF is_target_path /\ tgt_name = NULL THEN Dir ELSE tgt_name
  /\ UNCHANGED <<vpaths, general_vpath, env, pc, v, save_goal, caller, outputs,
                 sp, is_target_path, is_target, mptr>>

(* The searchpath is exhausted: the saved target directory, else nothing. *)
SearchEnd ==
  /\ pc = "search" /\ i > Len(sp)
  /\ IF tgt_name # NULL
       THEN Return(tgt_name, 0, IF mptr THEN "unknown" ELSE mtime)
       ELSE Return(NULL, path_index, mtime)
  /\ UNCHANGED <<general_vpath, env, save_goal, caller, locals>>

Next ==
  \/ GiveUp \/ BeginScan
  \/ Scan1Call \/ Scan1Skip \/ Scan1End
  \/ Scan2Call \/ Scan2Skip \/ Scan2End
  \/ GeneralCall \/ GeneralNone
  \/ SearchFound \/ SearchStale \/ SearchMiss \/ SearchEnd

\* vpath_search runs to completion once called: nothing else runs in make's
\* main thread meanwhile.
Spec == Init /\ [][Next]_vars /\ WF_vars(Next)

-----------------------------------------------------------------------------
(* Refinement: the loops implement the atomic search of VPathResolve.     *)
(* While phase 1 has a list's target_goal switched off, the collection the *)
(* caller sees is the one with the saved flag put back.                    *)
AbsVPaths  == IF pc = "search" /\ caller = 1
                THEN [vpaths EXCEPT ![v].target_goal = save_goal] ELSE vpaths
AbsOutcome == IF pc = "done"
                THEN [path |-> result, mtime |-> mtime, target_path |-> target_path,
                      vpath_index |-> vpath_index, path_index |-> path_index]
                ELSE NULL

Abs == INSTANCE VPathResolve WITH vpaths <- AbsVPaths, outcome <- AbsOutcome

(* vpath_search returns the answer of the atomic search: phase 1 over all  *)
(* matching lists in declaration order before any target-goal guess, then  *)
(* the target-goal lists, then the general VPATH, and inside a list the    *)
(* first accepted directory; the target_goal flag switched off during      *)
(* phase 1 is always put back.                                             *)
ResolveRefinement == Abs!Spec

TypeOK ==
  /\ Abs!TypeOK
  /\ pc \in {"start", "scan1", "scan2", "general", "search", "done"}
  /\ caller \in 1..3
  /\ v \in 1..Len(vpaths) + 1 /\ vpath_index \in 0..Len(vpaths)
  /\ sp \in Seq(Dirs) /\ i \in 1..Len(sp) + 1
  /\ result \in Dirs \cup {NULL}
  /\ exists \in BOOLEAN /\ mptr \in BOOLEAN
  /\ tgt_name \in Dirs \cup {NULL}

(* The stale-cache guard of selective_vpath_search: a name returned        *)
(* without the target_path flag, for a file that is not itself a target,   *)
(* is mentioned in the file database or really exists on disk; a cache hit *)
(* that stat refutes is never handed back as an existing file.             *)
NoPhantom ==
  pc = "done" /\ result # NULL /\ ~file_is_target /\ ~target_path
    => db[result] # NULL \/ disk[result]

(* The time stored in *mtime_ptr belongs to the returned name: OLD_MTIME  *)
(* or NEW_MTIME only as the database holds it for that name, a stat time   *)
(* only when stat on that name succeeded, and some time whenever a name    *)
(* is returned to a caller that asked for one.                             *)
MtimeFaithful ==
  pc = "done" /\ result # NULL =>
    /\ mtime \in SpecialMtimes => db[result] # NULL /\ db[result].last_mtime = mtime
    /\ mtime = "stat" => disk[result]
    /\ WantMtime => mtime # "none"

(* A name nothing vouches for (no acceptable database mention, no cache    *)
(* entry) is only ever the placeholder of a target-goal list: the first    *)
(* directory of that list, reported with path_index 0 and target_path set. *)
TargetPlaceholder ==
  LET vouched(d) == (db[d] # NULL /\ (~file_is_target \/ db[d].is_target)) \/ cache[d]
  IN  pc = "done" /\ result # NULL /\ ~vouched(result) =>
        /\ target_path /\ path_index = 0
        /\ vpath_index + 1 \in DOMAIN vpaths
        /\ vpaths[vpath_index + 1].target_goal
        /\ vpaths[vpath_index + 1].searchpath[1] = result

(* The indices stored for the caller point at the list and directory the  *)
(* name came from, and target_path is that list's flag.                    *)
IndexConsistent ==
  pc = "done" /\ result # NULL =>
    IF caller = 3
      THEN general_vpath[path_index + 1] = result /\ ~target_path
      ELSE /\ vpath_index + 1 \in DOMAIN vpaths
           /\ VpathMatch(vpath_index + 1)
           /\ vpaths[vpath_index + 1].searchpath[path_index + 1] = result
           /\ target_path = vpaths[vpath_index + 1].target_goal

(* Every search comes to an answer.                                        *)
Terminates == <>(pc = "done")

(* Section 4.3 of the specification: when a candidate is accepted through *)
(* its database mention and the database holds a concrete timestamp for   *)
(* it, that timestamp is captured for the caller.                          *)
SpecDbTimestampCaptured ==
  pc = "done" /\ result # NULL /\ WantMtime
  /\ db[result] # NULL /\ (~file_is_target \/ db[result].is_target)
  /\ db[result].last_mtime = "stamp"
    => mtime = "stamp"
=============================================================================
