---------------------------- MODULE MC_Commands ----------------------------
(* The two things commands.c does to a file before its recipe runs, each  *)
(* over every input of its bound; which one runs is fixed in the initial   *)
(* state and the other keeps one initial state.                            *)
(*   recipe:   recipes of up to five characters over the characters         *)
(*             chop_commands and print_commands branch on (backslash,      *)
(*             newline, flags, blank, "M" for $(MAKE)), with an unsigned   *)
(*             short of two bits, so the line limit is reached and passed; *)
(*   autovars: prerequisite lists of up to three entries over a plain      *)
(*             name, a name with a blank and an archive member reference,  *)
(*             for one archive member target with no stem argument: the    *)
(*             properties checked here do not read $@, $% or $*;           *)
(*   signal:   two targets, one phony, the other with an also_make file   *)
(*             and a precious one, started with a recipe of flags only or *)
(*             of a command, and a fatal signal of each kind: TERM, INT    *)
(*             (standing for INT, HUP and QUIT) and XCPU (any other);      *)
(*             TERM and INT may interrupt the handler of another signal.   *)
(*             Every file starts as the regular file make stat'd: one that *)
(*             is not regular is never written by a child, so              *)
(*             delete_target always leaves it.                             *)
EXTENDS Naturals

CONSTANT NULL

VARIABLES part,
  commands, one_shell, command_lines, ncommand_lines, lines_flags, any_recurse,
  printed, status,
  given, deps, always_make, sourcesdup_max, newsources_max, orderonly_max, auto,
  used, calls,
  recipe, cstate, loaded, unloaded, children, remote, pidpos, deleted, disk, pc,
  sig, cursor, handling, dfl, killed, rkilled, victims, rewritten, unlinkFail

R == INSTANCE RecipeLines WITH Chars <- {"\\", "\n", "@", "+", "-", " ", "M"},
                               MaxLen <- 5, ShortBits <- 2, MakeRef <- "M"

A == INSTANCE AutoVars WITH
       Names      <- {<<"a">>, <<"a", " ", "b">>, <<"l", "(", "a", ")">>},
       Targets    <- {<<"l", "(", "a", ".", "c", ")">>},
       Stems      <- {NULL},
       SuffixList <- << <<"c">>, <<".", "c">> >>,
       MaxDeps    <- 3, MaxCalls <- 1

S == INSTANCE FatalSignal WITH
       Targets     <- {"t1", "t2"},
       AlsoMake    <- [t \in {"t1", "t2"} |-> IF t = "t1" THEN {"m", "p"} ELSE {}],
       Precious    <- {"p"}, Phony <- {"t2"}, ArNames <- {},
       RecipeTexts <- {<<"@">>, <<"x">>}, Loaded <- {"t1"},
       DiskStates  <- {"same"}, Signals <- {"TERM", "INT", "XCPU"},
       Interrupting <- {"TERM", "INT"}

recipeVars == <<commands, one_shell, command_lines, ncommand_lines, lines_flags,
                any_recurse, printed, status>>
autoVars   == <<given, deps, always_make, sourcesdup_max, newsources_max,
                orderonly_max, auto, used, calls>>
signalVars == <<recipe, cstate, loaded, unloaded, children, remote, pidpos, deleted,
                disk, pc, sig, cursor, handling, dfl, killed, rkilled, victims,
                rewritten, unlinkFail>>
vars       == <<part, recipeVars, autoVars, signalVars>>

\* The signal part when it does not run: one initial state.
SignalIdle == S!Init /\ recipe = [t \in {"t1", "t2"} |-> <<"x">>]
                    /\ disk = [f \in {"t1", "t2", "m", "p"} |-> "same"]

Init ==
  \/ /\ part = "recipe" /\ R!Init
     /\ A!Init /\ always_make = FALSE /\ SignalIdle
  \/ /\ part = "autovars" /\ A!Init
     /\ R!Init /\ commands = <<>> /\ one_shell = FALSE /\ SignalIdle
  \/ /\ part = "signal" /\ S!Init
     /\ R!Init /\ commands = <<>> /\ one_shell = FALSE
     /\ A!Init /\ always_make = FALSE

Next ==
  /\ UNCHANGED part
  /\ \/ part = "recipe" /\ R!Next /\ UNCHANGED <<autoVars, signalVars>>
     \/ part = "autovars" /\ A!Next /\ UNCHANGED <<recipeVars, signalVars>>
     \/ part = "signal" /\ S!Next /\ UNCHANGED <<recipeVars, autoVars>>

\* A signal step, the other parts left alone.
SignalStep(A1) == part = "signal" /\ A1 /\ UNCHANGED <<part, recipeVars, autoVars>>

(* The fairness of FatalSignal: the handler runs to its end and every      *)
(* child ends.                                                             *)
Spec == Init /\ [][Next]_vars /\ WF_vars(SignalStep(S!HandlerStep))

(* The properties of each part, stated in RecipeLines and AutoVars.        *)

(* chop_commands stores a line count that survives its cast to unsigned    *)
(* short, and stops make only for a recipe of more lines than that.        *)
RecipeLineCountFits == part = "recipe" => R!LineCountFits

(* chop_commands and print_commands cut a recipe into the same lines, the  *)
(* lines of the reference split at newlines after an even backslash run.  *)
RecipeChopAgreesWithPrint == part = "recipe" => R!ChopAgreesWithPrint

(* set_file_variables writes $+, $^ and $| within the buffers its first    *)
(* pass sized, after de-duplication and the order-only upgrade.            *)
AutoSourcesFit == part = "autovars" => A!SourcesFit

(* $^ and $| list every counted name once and never the same name; a name  *)
(* is in $^ exactly when one of its entries is normal; $? is within $^.    *)
AutoListsPartition == part = "autovars" => A!ListsPartition

(* The fatal-signal handler unlinks only files a running child changed and *)
(* make need not keep.                                                     *)
SignalDeletesOnlyChanged == [][part = "signal" => S!OnlyChangedUnlinked]_vars

(* When make dies of a signal no child is running, and after a killing     *)
(* signal every changed target of a child is gone unless it is kept.       *)
SignalCleanDeath == part = "signal" => S!CleanDeath

(* A fatal signal ends make.                                               *)
SignalEndsMake == part = "signal" => S!SignalEndsMake
=============================================================================
