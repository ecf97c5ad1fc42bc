------------------------------ MODULE VPathChain ------------------------------
(***************************************************************************)
(* The selective VPATH chain of src/vpath.c as the C code keeps it: struct *)
(* vpath nodes on a heap linked through next, new lists pushed at the head *)
(* by construct_vpath_list, removal by a walk with a trailing lastpath     *)
(* pointer that unlinks and frees, and build_vpath_lists reversing the     *)
(* chain in place before it builds the general VPATH and the GPATH.        *)
(*                                                                         *)
(* A directory string is already split (PathSplit models the splitting):   *)
(* the directive carries the entries that survived, <<>> when none did.    *)
(***************************************************************************)
EXTENDS Naturals, Sequences, FiniteSets, SequencesExt

CONSTANTS Dirs, Patterns, NoPercent, DirSeqs, NULL,
          Node,         \* heap addresses a struct vpath may occupy (numbers)
          NIL,          \* the null pointer
          GeneralPattern,  \* the pattern "%" given to the VPATH and GPATH lists
          MaxLists      \* bound on live selective lists; the heap also holds
                        \* the general VPATH and the GPATH

ASSUME Cardinality(Node) >= MaxLists + 2

VARIABLES
  node,           \* node[n]: the struct vpath at address n
  next,           \* next[n]: its next pointer
  alloc,          \* addresses currently allocated
  vpaths,         \* head of the selective chain
  general_vpath,  \* the general VPATH list, or NIL
  gpaths,         \* the GPATH list, or NIL
  built,          \* build_vpath_lists has run
  pc,             \* "idle", "remove", "reverse", "general", "gpath"
  path, lastpath, \* the removal walk
  rpat, rtg,      \* pattern and category of the removing directive
  old, new        \* the reversal walk

vars == <<node, next, alloc, vpaths, general_vpath, gpaths, built, pc,
          path, lastpath, rpat, rtg, old, new>>

D == INSTANCE VPathDirectives WITH lists <- <<>>, general_vpath <- NULL,
                                   gpaths <- NULL, built <- FALSE

Init ==
  /\ node = [n \in Node |-> NULL] /\ next = [n \in Node |-> NIL]
  /\ alloc = {}
  /\ vpaths = NIL /\ general_vpath = NIL /\ gpaths = NIL /\ built = FALSE
  /\ pc = "idle" /\ path = NIL /\ lastpath = NIL /\ rpat = NULL /\ rtg = FALSE
  /\ old = NIL /\ new = NIL

-----------------------------------------------------------------------------
(* The lowest free address: where xmalloc puts the next struct vpath.     *)
Fresh == Min(Node \ alloc)

(* Mutant: a list made even when no entry of the string survived.         *)
ApplyAddEmpty(p, s, tg) ==
  /\ pc = "idle" /\ ~built
  /\ Cardinality(alloc) < MaxLists
  /\ node' = [node EXCEPT ![Fresh] = [pattern |-> p, searchpath |-> s, target_goal |-> tg]]
  /\ next' = [next EXCEPT ![Fresh] = vpaths]
  /\ alloc' = alloc \cup {Fresh}
  /\ vpaths' = Fresh
  /\ UNCHANGED <<general_vpath, gpaths, built, pc, path, lastpath, rpat, rtg, old, new>>

(* construct_vpath_list with a directory string: a list is made only when *)
(* some entry survived, and goes to the head of the chain.                 *)
ApplyAdd(p, s, tg) ==
  /\ pc = "idle" /\ ~built
  /\ Cardinality(alloc) < MaxLists
  /\ IF s = <<>>
       THEN UNCHANGED <<node, next, alloc, vpaths>>
       ELSE /\ node' = [node EXCEPT ![Fresh] = [pattern |-> p, searchpath |-> s, target_goal |-> tg]]
            /\ next' = [next EXCEPT ![Fresh] = vpaths]
            /\ alloc' = alloc \cup {Fresh}
            /\ vpaths' = Fresh
  /\ UNCHANGED <<general_vpath, gpaths, built, pc, path, lastpath, rpat, rtg, old, new>>

(* Mutant: the removal test ignores the target-goal category.             *)
RemovesAnyCategory(p, tg, n) ==
  IF p = NULL THEN TRUE
  ELSE LET q == node[n].pattern
       IN  /\ \/ p.pct = NoPercent /\ q.pct = NoPercent
              \/ p.pct # NoPercent /\ q.pct # NoPercent /\ p.pct = q.pct
           /\ p.str = q.str

(* The removal test: same category, and no pattern given or the same      *)
(* string with the '%' at the same offset.  When only one side has a '%'   *)
(* the C code subtracts pointers from NULL; the difference is never a      *)
(* small offset in practice, so that comparison is taken as false.         *)
Removes(p, tg, n) ==
  /\ IF p = NULL THEN TRUE
     ELSE LET q == node[n].pattern
          IN  /\ \/ p.pct = NoPercent /\ q.pct = NoPercent
                 \/ p.pct # NoPercent /\ q.pct # NoPercent /\ p.pct = q.pct
              /\ p.str = q.str
  /\ node[n].target_goal = tg

(* construct_vpath_list without a directory string starts the walk.       *)
RemoveStart(p, tg) ==
  /\ pc = "idle" /\ ~built
  /\ pc' = "remove" /\ path' = vpaths /\ lastpath' = NIL
  /\ rpat' = p /\ rtg' = tg
  /\ UNCHANGED <<node, next, alloc, vpaths, general_vpath, gpaths, built, old, new>>

(* free(path->searchpath); free(path): the model forgets what the freed   *)
(* memory held, so a walk that reaches it ends there.                      *)
Free(n) ==
  /\ alloc' = alloc \ {n}
  /\ node' = [node EXCEPT ![n] = NULL]

(* Mutant: every unlinked list is taken off the head, as if lastpath were *)
(* never set.                                                              *)
RemoveUnlinkAtHead ==
  /\ pc = "remove" /\ path # NIL /\ Removes(rpat, rtg, path)
  /\ vpaths' = next[path] /\ next' = [next EXCEPT ![path] = NIL]
  /\ Free(path)
  /\ path' = next[path]
  /\ UNCHANGED <<general_vpath, gpaths, built, pc, lastpath, rpat, rtg, old, new>>

RemoveUnlink ==
  /\ pc = "remove" /\ path # NIL /\ Removes(rpat, rtg, path)
  /\ IF lastpath = NIL
       THEN vpaths' = next[path] /\ next' = [next EXCEPT ![path] = NIL]
       ELSE /\ next' = [next EXCEPT ![lastpath] = next[path], ![path] = NIL]
            /\ UNCHANGED vpaths
  /\ Free(path)
  /\ path' = next[path]
  /\ UNCHANGED <<general_vpath, gpaths, built, pc, lastpath, rpat, rtg, old, new>>

\* Mutant: path = next only on the unlink branch; a kept list is visited again.
RemoveKeepNoAdvance ==
  /\ pc = "remove" /\ path # NIL /\ ~Removes(rpat, rtg, path)
  /\ lastpath' = path
  /\ UNCHANGED <<node, next, alloc, vpaths, general_vpath, gpaths, built, pc,
                 path, rpat, rtg, old, new>>
RemoveKeep ==
  /\ pc = "remove" /\ path # NIL /\ ~Removes(rpat, rtg, path)
  /\ lastpath' = path /\ path' = next[path]
  /\ UNCHANGED <<node, next, alloc, vpaths, general_vpath, gpaths, built, pc,
                 rpat, rtg, old, new>>

RemoveEnd ==
  /\ pc = "remove" /\ path = NIL
  /\ pc' = "idle"
  /\ UNCHANGED <<node, next, alloc, vpaths, general_vpath, gpaths, built,
                 path, lastpath, rpat, rtg, old, new>>

-----------------------------------------------------------------------------
(* build_vpath_lists: reverse the chain in place.                         *)
BuildStart ==
  /\ pc = "idle" /\ ~built
  /\ pc' = "reverse" /\ old' = vpaths /\ new' = NIL
  /\ UNCHANGED <<node, next, alloc, vpaths, general_vpath, gpaths, built,
                 path, lastpath, rpat, rtg>>

ReverseStep ==
  /\ pc = "reverse" /\ old # NIL
  /\ next' = [next EXCEPT ![old] = new]
  /\ new' = old /\ old' = next[old]
  /\ UNCHANGED <<node, alloc, vpaths, general_vpath, gpaths, built, pc,
                 path, lastpath, rpat, rtg>>

ReverseEnd ==
  /\ pc = "reverse" /\ old = NIL
  /\ vpaths' = new /\ pc' = "general"
  /\ UNCHANGED <<node, next, alloc, general_vpath, gpaths, built,
                 path, lastpath, rpat, rtg, old, new>>

(* A list for pattern "%" built on an emptied chain, as build_vpath_lists *)
(* does for VPATH and GPATH: NIL when no entry of s survived.              *)
BuildSlot(slot, s) ==
  IF s = <<>>
    THEN slot' = NIL /\ UNCHANGED <<node, next, alloc>>
    ELSE /\ node' = [node EXCEPT ![Fresh] = [pattern |-> GeneralPattern,
                                             searchpath |-> s, target_goal |-> FALSE]]
         /\ next' = [next EXCEPT ![Fresh] = NIL]
         /\ alloc' = alloc \cup {Fresh}
         /\ slot' = Fresh

BuildGeneral(s) ==
  /\ pc = "general"
  /\ BuildSlot(general_vpath, s)
  /\ pc' = "gpath"
  /\ UNCHANGED <<vpaths, gpaths, built, path, lastpath, rpat, rtg, old, new>>

BuildGpath(s) ==
  /\ pc = "gpath"
  /\ BuildSlot(gpaths, s)
  /\ pc' = "idle" /\ built' = TRUE
  /\ UNCHANGED <<vpaths, general_vpath, path, lastpath, rpat, rtg, old, new>>

Next ==
  \/ \E p \in Patterns, s \in D!Entries, tg \in BOOLEAN : ApplyAdd(p, s, tg)
  \/ \E p \in Patterns \cup {NULL}, tg \in BOOLEAN : RemoveStart(p, tg)
  \/ RemoveUnlink \/ RemoveKeep \/ RemoveEnd
  \/ BuildStart \/ ReverseStep \/ ReverseEnd
  \/ \E s \in D!Entries : BuildGeneral(s)
  \/ \E s \in D!Entries : BuildGpath(s)

(* The steps inside one call: the removal walk of construct_vpath_list and *)
(* build_vpath_lists from its reversal to the GPATH.                        *)
WalkStep ==
  \/ RemoveUnlink \/ RemoveKeep \/ RemoveEnd
  \/ ReverseStep \/ ReverseEnd
  \/ \E s \in D!Entries : BuildGeneral(s) \/ BuildGpath(s)

(* A call, once made, runs to its return in make's main thread; make may   *)
(* stop reading directives between calls.                                  *)
Spec == Init /\ [][Next]_vars /\ WF_vars(WalkStep)

-----------------------------------------------------------------------------
(* The chain as a sequence of addresses, following next from h.  The walk *)
(* stops after one step more than the heap has nodes, so a cycle shows as  *)
(* a walk that is too long.                                                *)
RECURSIVE WalkN(_, _)
WalkN(h, k) == IF h = NIL \/ k = 0 THEN <<>> ELSE <<h>> \o WalkN(next[h], k - 1)

Walk(h) == WalkN(h, Cardinality(Node) + 1)

Lists(h) == LET w == Walk(h) IN [k \in DOMAIN w |-> node[w[k]]]

Slot(h) == IF h = NIL THEN NULL ELSE node[h].searchpath

(* The sequence the directives have built, in declaration order: the      *)
(* chain reversed before the build (mid-removal, with the lists the walk   *)
(* has yet to drop already dropped), the reversed part of the chain after  *)
(* what is still to be reversed during the build, the chain itself after.  *)
AbsLists ==
  CASE pc = "remove"  -> Reverse(SelectSeq(Lists(vpaths), LAMBDA l :
                           ~((rpat = NULL \/ D!SameKey(rpat, l.pattern))
                             /\ l.target_goal = rtg)))
    [] pc = "reverse" -> Reverse(Lists(old)) \o Lists(new)
    [] pc \in {"general", "gpath"} \/ built -> Lists(vpaths)
    [] OTHER          -> Reverse(Lists(vpaths))

Abs == INSTANCE VPathDirectives WITH lists <- AbsLists,
         general_vpath <- IF built THEN Slot(general_vpath) ELSE NULL,
         gpaths <- IF built THEN Slot(gpaths) ELSE NULL

(* The chain implements the directives: searching the reversed chain      *)
(* visits the lists in declaration order, removal drops exactly the lists  *)
(* of the same pattern key and category, and the general VPATH and GPATH   *)
(* never enter the selective chain.                                        *)
ChainRefinement == Abs!Spec

TypeOK ==
  /\ alloc \subseteq Node
  /\ \A n \in alloc : node[n] \in D!VPath
                      \/ node[n] \in [pattern : {GeneralPattern}, searchpath : DirSeqs,
                                     target_goal : {FALSE}]
  /\ next \in [Node -> Node \cup {NIL}]
  /\ pc \in {"idle", "remove", "reverse", "general", "gpath"}

(* The roots of the heap: the chain (both halves while it is reversed),   *)
(* the general VPATH and the GPATH.                                        *)
Roots == IF pc = "reverse" THEN <<old, new, general_vpath, gpaths>>
                           ELSE <<vpaths, general_vpath, gpaths>>

(* Heap safety: every walk from a root ends at NIL, passes only allocated  *)
(* nodes and shares none with another root, and every allocated node is   *)
(* on some walk: removal frees exactly what it unlinks and nothing leaks.  *)
HeapSafe ==
  LET walks == [r \in DOMAIN Roots |-> Walk(Roots[r])]
  IN  /\ \A r \in DOMAIN walks : Len(walks[r]) <= Cardinality(Node)
                               /\ ToSet(walks[r]) \subseteq alloc
      /\ \A r1, r2 \in DOMAIN walks :
           r1 # r2 => ToSet(walks[r1]) \cap ToSet(walks[r2]) = {}
      /\ alloc = UNION {ToSet(walks[r]) : r \in DOMAIN walks}


(* Every removal walk and every build_vpath_lists returns: each iteration   *)
(* moves on to the saved next pointer, kept list or freed one, and the      *)
(* walks follow next to NIL, which a cycle in the chain would prevent.      *)
WalksEnd == pc # "idle" ~> pc = "idle"
=============================================================================
