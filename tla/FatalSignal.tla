----------------------------- MODULE FatalSignal -----------------------------
(***************************************************************************)
(* What src/commands.c does with the children that run recipes:           *)
(*   execute_file_commands: a recipe of nothing but blanks and '-' '@' '+'  *)
(*     finishes the file at once; any other starts a child (new_job), after *)
(*     unloading a loaded object;                                          *)
(*   fatal_error_signal: for TERM it kills the local children; for TERM,   *)
(*     INT, HUP and QUIT it signals the remote ones and deletes every      *)
(*     child's targets; for any signal it waits for all children to die,   *)
(*     then exits or re-raises the signal (SIG_DFL by now);                *)
(*   delete_child_targets, delete_target: a target and its also_make files *)
(*     are unlinked when they are not precious, phony or archive members   *)
(*     and changed on disk since make stat'd them; the child is marked.    *)
(*                                                                         *)
(* The children are other processes: they write their targets and end at  *)
(* any point, the handler's steps included.  The children list, new_job    *)
(* and reap_children are job.c; here a new child is pushed at the head of  *)
(* the list and reaping removes one that ended.  A file on disk is "none", *)
(* "same" (a regular file with the mtime make recorded), "changed" or      *)
(* "other" (not a regular file).                                          *)
(*                                                                         *)
(* While the handler runs, only the signals it is handling are blocked: a *)
(* fatal signal of another kind in Interrupting (how main.c installs the  *)
(* handler decides which) runs the handler again on top of the first.  The *)
(* inner handler never returns to the outer one: it exits, or re-raises a  *)
(* signal that kills make as the handler returns, so the outer handler's  *)
(* loops are abandoned where they were.                                    *)
(***************************************************************************)
EXTENDS Naturals, Sequences, SequencesExt, FiniteSets

CONSTANTS
  Targets,      \* files with a recipe
  AlsoMake,     \* [Targets -> SUBSET files]: the also_make list of each
  Precious,     \* file->precious
  Phony,        \* file->phony
  ArNames,      \* the 'lib(member)' names (ar_name)
  RecipeTexts,  \* the recipes: sequences of one-character strings
  Loaded,       \* the targets that are loaded objects (file->loaded)
  DiskStates,   \* what stat may find for a file before any child runs
  Signals,      \* the signals fatal_error_signal is installed for
  Interrupting, \* the signals that may interrupt the running handler
  NULL

Files == Targets \cup UNION {AlsoMake[t] : t \in Targets}

\* The signals that mean the user wanted to kill make.
KillSigs == {"TERM", "INT", "HUP", "QUIT"}

ASSUME Loaded \subseteq Targets /\ Interrupting \subseteq Signals
ASSUME DiskStates \subseteq {"none", "same", "other"}

\* The loop of execute_file_commands: only ISSPACE and '-' '@' '+'.
BlankRecipe(s) == \A k \in DOMAIN s : s[k] \in {" ", "\t", "\n", "-", "@", "+"}

\* The files one child makes: its own and its also_make list.
Made(c) == {c} \cup AlsoMake[c]

Kept == Precious \cup Phony \cup ArNames

-----------------------------------------------------------------------------
VARIABLES
  recipe,     \* file->cmds->commands
  cstate,     \* "pending", "success" (no commands), "running", "done"
  loaded,     \* file->loaded
  unloaded,   \* file->unloaded
  children,   \* the children list, newest first
  remote,     \* c->remote
  pidpos,     \* c->pid > 0 (else c->pid < 0)
  deleted,    \* c->deleted
  disk,       \* what stat finds for each file
  pc,         \* "run" (main program), "delete", "reap" (handler), "dead"
  sig,        \* the signal handled, NULL before
  cursor,     \* the delete loop's position in the children list
  handling,   \* handling_fatal_signal
  dfl,        \* the signals reset to SIG_DFL
  killed,     \* the local children sent SIGTERM
  rkilled,    \* the remote children sent the signal
  victims,    \* the children in the list when a killing signal came
  rewritten,  \* the files a child wrote after its targets were deleted
  unlinkFail  \* the files whose unlink failed other than with ENOENT

vars == <<recipe, cstate, loaded, unloaded, children, remote, pidpos, deleted,
          disk, pc, sig, cursor, handling, dfl, killed, rkilled, victims,
          rewritten, unlinkFail>>

handlerVars == <<pc, sig, cursor, handling, dfl, killed, rkilled, victims>>

Init ==
  /\ recipe \in [Targets -> RecipeTexts]
  /\ cstate = [t \in Targets |-> "pending"]
  /\ loaded = [t \in Targets |-> t \in Loaded] /\ unloaded = [t \in Targets |-> FALSE]
  /\ children = <<>>
  /\ remote = [t \in Targets |-> FALSE] /\ pidpos = [t \in Targets |-> TRUE]
  /\ deleted = [t \in Targets |-> FALSE]
  /\ disk \in [Files -> DiskStates]
  /\ pc = "run" /\ sig = NULL /\ cursor = 1 /\ handling = FALSE
  /\ dfl = {} /\ killed = {} /\ rkilled = {} /\ victims = {}
  /\ rewritten = {} /\ unlinkFail = {}

Drop(s, c) == SelectSeq(s, LAMBDA x : x # c)

-----------------------------------------------------------------------------
(* execute_file_commands for file t.  The unloading (unload_file) may fail; *)
(* new_job starts a local or remote child whose pid sign job.c decides.    *)
execute_file_commands(t) ==
  /\ pc = "run" /\ cstate[t] = "pending"
  /\ IF BlankRecipe(recipe[t])
       THEN /\ cstate' = [cstate EXCEPT ![t] = "success"]
            /\ UNCHANGED <<loaded, unloaded, children, remote, pidpos>>
       ELSE \E unload_ok, rem, pos \in BOOLEAN :
              /\ cstate' = [cstate EXCEPT ![t] = "running"]
              /\ loaded' = [loaded EXCEPT ![t] = @ /\ ~unload_ok]
              /\ unloaded' = [unloaded EXCEPT ![t] = @ \/ (loaded[t] /\ unload_ok)]
              /\ children' = <<t>> \o children
              /\ remote' = [remote EXCEPT ![t] = rem]
              /\ pidpos' = [pidpos EXCEPT ![t] = pos]
  /\ UNCHANGED <<recipe, deleted, disk, handlerVars, rewritten, unlinkFail>>

(* A child's commands write one of its files (a child with no process     *)
(* writes nothing); the handler does not stop it.                          *)
ChildWrite(c) ==
  /\ pc # "dead" /\ c \in Range(children) /\ pidpos[c]
  /\ \E g \in Made(c) :
       /\ disk[g] # "other"
       /\ disk' = [disk EXCEPT ![g] = "changed"]
       /\ rewritten' = IF deleted[c] THEN rewritten \cup {g} ELSE rewritten
  /\ UNCHANGED <<recipe, cstate, loaded, unloaded, children, remote, pidpos, deleted,
                 handlerVars, unlinkFail>>

(* The main program reaps a child that finished (job.c).                  *)
ChildDone(c) ==
  /\ pc = "run" /\ c \in Range(children)
  /\ children' = Drop(children, c)
  /\ cstate' = [cstate EXCEPT ![c] = "done"]
  /\ UNCHANGED <<recipe, loaded, unloaded, remote, pidpos, deleted, disk,
                 handlerVars, rewritten, unlinkFail>>

-----------------------------------------------------------------------------
(* fatal_error_signal up to its loops: the handler flag, SIG_DFL, SIGTERM  *)
(* to the local children for TERM, the signal to the remote children for  *)
(* the signals that kill make.  It runs from the main program, or on top  *)
(* of a running handler for a signal of Interrupting not yet handled (one  *)
(* handled is blocked, or SIG_DFL).                                        *)
fatal_error_signal(s) ==
  /\ \/ pc = "run"
     \/ pc \in {"delete", "reap"} /\ s \in Interrupting
  /\ s \notin dfl
  /\ handling' = TRUE /\ sig' = s /\ dfl' = dfl \cup {s}
  /\ killed' = killed \cup (IF s = "TERM" THEN {c \in Range(children) : ~remote[c] /\ pidpos[c]}
                                        ELSE {})
  /\ IF s \in KillSigs
       THEN /\ rkilled' = rkilled \cup {c \in Range(children) : remote[c] /\ pidpos[c]}
            /\ victims' = victims \cup Range(children)
            /\ pc' = "delete" /\ cursor' = 1
       ELSE /\ pc' = "reap" /\ UNCHANGED <<rkilled, victims, cursor>>
  /\ UNCHANGED <<recipe, cstate, loaded, unloaded, children, remote, pidpos, deleted,
                 disk, rewritten, unlinkFail>>

\* Mutant: the mtime comparison is dropped; any regular file is deleted.
DeleteTargetNoMtime(g) == g \notin Kept /\ disk[g] \in {"same", "changed"}

(* delete_target: whether stat finds g a regular file changed since make   *)
(* stat'd it, and g may be deleted.                                        *)
DeleteTarget(g) == g \notin Kept /\ disk[g] = "changed"

\* Mutant: the loop over the also_make list is missing.
DoomedNoAlsoMake(c) == {g \in {c} : DeleteTarget(g)}

\* The files delete_child_targets unlinks: the child's own and its also_make list.
Doomed(c) == {g \in Made(c) : DeleteTarget(g)}

(* delete_child_targets for the child at the cursor: unless it is marked  *)
(* or has no process, its changed files are unlinked (an unlink may fail)  *)
(* and it is marked.                                                       *)
delete_child_targets ==
  /\ pc = "delete" /\ cursor <= Len(children)
  /\ LET c == children[cursor]
         doomed == Doomed(c)
     IN  IF deleted[c] \/ ~pidpos[c]
           THEN UNCHANGED <<deleted, disk, unlinkFail>>
           ELSE \E failed \in SUBSET doomed :
                  /\ disk' = [g \in Files |-> IF g \in doomed \ failed THEN "none" ELSE disk[g]]
                  /\ unlinkFail' = unlinkFail \cup failed
                  /\ deleted' = [deleted EXCEPT ![c] = TRUE]
  /\ cursor' = cursor + 1
  /\ UNCHANGED <<recipe, cstate, loaded, unloaded, children, remote, pidpos, pc, sig,
                 handling, dfl, killed, rkilled, victims, rewritten>>

DeleteLoopEnd ==
  /\ pc = "delete" /\ cursor > Len(children)
  /\ pc' = "reap"
  /\ UNCHANGED <<recipe, cstate, loaded, unloaded, children, remote, pidpos, deleted,
                 disk, sig, cursor, handling, dfl, killed, rkilled, victims,
                 rewritten, unlinkFail>>

\* Mutant: the wait loop tests job_slots_used >= 0.
ReapMoreOffByOne(n) == n >= 0

\* The test of both wait loops: job_slots_used > 0.
ReapMore(n) == n > 0

(* One reap_children call of the wait loops: a child that ended leaves the *)
(* list.                                                                   *)
reap_children(c) ==
  /\ pc = "reap" /\ ReapMore(Len(children)) /\ c \in Range(children)
  /\ children' = Drop(children, c)
  /\ cstate' = [cstate EXCEPT ![c] = "done"]
  /\ UNCHANGED <<recipe, loaded, unloaded, remote, pidpos, deleted, disk,
                 handlerVars, rewritten, unlinkFail>>

(* After the loops: remove_intermediates, then exit for QUIT, or the      *)
(* re-raised signal, delivered on return, ends make.                       *)
Die ==
  /\ pc = "reap" /\ ~ReapMore(Len(children))
  /\ pc' = "dead"
  /\ UNCHANGED <<recipe, cstate, loaded, unloaded, children, remote, pidpos, deleted,
                 disk, sig, cursor, handling, dfl, killed, rkilled, victims,
                 rewritten, unlinkFail>>

Next ==
  \/ \E t \in Targets : execute_file_commands(t) \/ ChildWrite(t) \/ ChildDone(t)
  \/ \E s \in Signals : fatal_error_signal(s)
  \/ delete_child_targets \/ DeleteLoopEnd
  \/ \E c \in Targets : reap_children(c)
  \/ Die

(* The handler runs to its end in make's only thread; every child's       *)
(* commands end, or die of the signal, so the wait loops progress.  From   *)
(* the signal to make's death, one of these steps is always enabled.       *)
HandlerStep ==
  \/ delete_child_targets \/ DeleteLoopEnd \/ Die
  \/ \E c \in Targets : reap_children(c)

Fairness == WF_vars(HandlerStep)

Spec == Init /\ [][Next]_vars /\ Fairness

-----------------------------------------------------------------------------
TypeOK ==
  /\ cstate \in [Targets -> {"pending", "success", "running", "done"}]
  /\ children \in Seq(Targets) /\ IsInjective(children)
  /\ disk \in [Files -> {"none", "same", "changed", "other"}]
  /\ pc \in {"run", "delete", "reap", "dead"} /\ sig \in Signals \cup {NULL}
  /\ cursor \in 1..Cardinality(Targets) + 1
  /\ rewritten \cup unlinkFail \subseteq Files

(* delete_target never removes a file make must keep: every file the      *)
(* handler unlinks was a regular file changed since make stat'd it, not    *)
(* precious, phony or an archive member, and made by a child that was      *)
(* running with a process when a killing signal came in.                   *)
OnlyChangedUnlinked ==
  \A g \in Files :
    disk[g] # "none" /\ disk'[g] = "none" =>
      /\ g \notin Kept /\ disk[g] = "changed" /\ sig \in KillSigs
      /\ \E c \in victims : pidpos[c] /\ g \in Made(c)

DeletesOnlyChanged == [][OnlyChangedUnlinked]_vars

(* When make dies of a signal, no child is left running, and once TERM,   *)
(* INT, HUP or QUIT came, whatever signal came after it, no file a child   *)
(* running then had changed is left on disk, unless it is to be kept, its  *)
(* unlink failed, or the child wrote it again after its targets were       *)
(* deleted.                                                                *)
CleanDeath ==
  pc = "dead" =>
    /\ children = <<>>
    /\ \A c \in victims : pidpos[c] =>
         \A g \in Made(c) : disk[g] = "changed" => g \in Kept \cup rewritten \cup unlinkFail

(* A fatal signal ends make: the delete loop and the wait loops end.       *)
SignalEndsMake == sig # NULL ~> pc = "dead"
=============================================================================
