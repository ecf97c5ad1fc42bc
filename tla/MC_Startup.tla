----------------------------- MODULE MC_Startup -----------------------------
(* What make does before it builds anything: read_config reads the        *)
(* configuration file, the makefiles' vpath directives grow and prune the  *)
(* selective chain, and build_vpath_lists finishes it.  Each part runs     *)
(* over every input of its bound; which one runs is fixed in the initial   *)
(* state, and the others keep their initial state.                         *)
(*   lookup: read_config in every environment (argument, exclusive flag,   *)
(*           which places exist, getcwd, $HOME), the file found empty;     *)
(*   read:   read_config finding /etc/make.conf, every file of up to four  *)
(*           characters over a letter, blank, backslash and newline, with  *)
(*           a line buffer of three bytes, so a full buffer is followed by *)
(*           a continuation;                                               *)
(*   chain:  two directories; the patterns "%.c", "\%.c" (the same string  *)
(*           with an escaped, hence no, wildcard) and "%.h"; up to two     *)
(*           live lists on a heap of four nodes.                           *)
EXTENDS Naturals

CONSTANTS d1, d2, NoPct, NULL, NIL

VARIABLES part,
  env, cfgfile, file, pos, line, textroot, cfg_pc, result,
  node, next, alloc, vpaths, general_vpath, gpaths, built, pc,
  path, lastpath, rpat, rtg, old, new

\* Every environment of read_config, and the one in which only
\* /etc/make.conf exists.
ConfigEnvs == [path: BOOLEAN, exclusive: BOOLEAN,
               exists: SUBSET {"path", "pathdir", "cwd", "home", "etc"},
               cwd_ok: BOOLEAN, home_set: BOOLEAN]
EtcOnly == [path |-> FALSE, exclusive |-> FALSE, exists |-> {"etc"},
            cwd_ok |-> TRUE, home_set |-> TRUE]

CL == INSTANCE ConfigReader WITH Chars <- {}, MaxFile <- 0, LINELENGTH <- 3,
                                EnvSet <- ConfigEnvs, pc <- cfg_pc
CR == INSTANCE ConfigReader WITH Chars <- {"a", " ", "\\", "\n"}, MaxFile <- 4,
                                LINELENGTH <- 3, EnvSet <- {EtcOnly}, pc <- cfg_pc

PatC    == [str |-> "%.c", pct |-> 0]
PatCLit == [str |-> "%.c", pct |-> NoPct]
PatH    == [str |-> "%.h", pct |-> 0]

V == INSTANCE VPathChain WITH Dirs <- {d1, d2}, Patterns <- {PatC, PatCLit, PatH},
       NoPercent <- NoPct, DirSeqs <- {<<d1>>, <<d1, d2>>}, Node <- 1..4,
       GeneralPattern <- [str |-> "%", pct |-> 0], MaxLists <- 2

configVars == <<env, cfgfile, file, pos, line, textroot, cfg_pc, result>>
chainVars  == <<node, next, alloc, vpaths, general_vpath, gpaths, built, pc,
                path, lastpath, rpat, rtg, old, new>>
vars       == <<part, configVars, chainVars>>

Init ==
  \/ part = "lookup" /\ CL!Init /\ V!Init
  \/ part = "read" /\ CR!Init /\ V!Init
  \/ part = "chain" /\ V!Init /\ CR!Init

LookupStep == part = "lookup" /\ CL!Next /\ UNCHANGED <<part, chainVars>>
ReadStep   == part = "read" /\ CR!Next /\ UNCHANGED <<part, chainVars>>
ChainStep  == part = "chain" /\ V!Next /\ UNCHANGED <<part, configVars>>
ChainWalk  == part = "chain" /\ V!WalkStep /\ UNCHANGED <<part, configVars>>

Next == LookupStep \/ ReadStep \/ ChainStep

(* The fairness of ConfigReader and VPathChain: read_config, a removal    *)
(* walk and build_vpath_lists run to their return in make's main thread;   *)
(* make may stop reading directives between calls.                         *)
Spec == Init /\ [][Next]_vars /\ WF_vars(LookupStep) /\ WF_vars(ReadStep)
        /\ WF_vars(ChainWalk)

(* The properties of each part, stated in its own module.                  *)

(* The lookup opens the first existing configuration file in the order     *)
(* given place, current directory, home, /etc, although a step that cannot *)
(* run leaves the previous name in the static buffer.                      *)
CascadeFirstExisting == CL!CascadeFirstExisting

(* The continuation fgets never writes past the line buffer.               *)
ContinuationFits == CR!ContinuationFits

(* read_config's read loop ends, whatever the file holds.                  *)
ReadTerminates == part \in {"lookup", "read"} => CR!ReadTerminates

(* The types of the chain's heap.                                          *)
TypeOK == V!TypeOK

(* Heap safety of the chain: no leak, no dangling or shared node.          *)
HeapSafe == V!HeapSafe

(* Every removal walk and every build_vpath_lists returns.                 *)
WalksEnd == V!WalksEnd

(* The chain implements the directives, in declaration order; while the    *)
(* configuration is read it stays empty.                                   *)
ChainRefinement == V!ChainRefinement
=============================================================================
