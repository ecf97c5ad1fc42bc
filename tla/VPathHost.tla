------------------------------ MODULE VPathHost ------------------------------
(***************************************************************************)
(* A VPATH directory list on the Windows build (WINDOWS32, ';' separator,  *)
(* DOS paths), from the makefile to the data base printout and back:       *)
(* construct_vpath_list first converts the native list to the canonical    *)
(* form (convert_vpath_from_windows32) and then splits it into entries;    *)
(* print_vpath_data_base converts each entry back (convert_Path_to_windows32)*)
(* and writes them separated by ';'.                                       *)
(***************************************************************************)
EXTENDS Naturals, Sequences, SequencesExt

CONSTANTS Chars, MaxLen, NULL

PathSep == ";"

S == INSTANCE PathSplit WITH PathSep <- PathSep, DosPaths <- TRUE,
       dirpath <- <<>>, entries <- <<>>, parsed <- FALSE
C == INSTANCE PathConvert WITH Delim <- PathSep,
       path <- <<>>, converted <- NULL, done <- "none"

VARIABLES
  native,    \* the directory list as the makefile writes it
  entries,   \* the searchpath construct_vpath_list made of it
  printed,   \* the directory part of the line print_vpath_data_base writes
  reread,    \* the searchpath made of the printed line
  pc         \* "construct", "print", "reread", "done"

vars == <<native, entries, printed, reread, pc>>

Init ==
  /\ native \in C!Strings
  /\ entries = <<>> /\ printed = <<>> /\ reread = <<>>
  /\ pc = "construct"

(* construct_vpath_list on WINDOWS32: a list that converts to NULL makes   *)
(* no searchpath; otherwise the canonical string is split.                 *)
Searchpath(dirpath) ==
  LET canon == C!convert_vpath_from_windows32(dirpath, PathSep)
  IN  IF canon = NULL THEN <<>> ELSE S!Split(canon)

Construct ==
  /\ pc = "construct"
  /\ entries' = Searchpath(native)
  /\ pc' = IF entries' = <<>> THEN "done" ELSE "print"
  /\ UNCHANGED <<native, printed, reread>>

(* print_vpath_data_base: every entry converted back, PATH_SEPARATOR_CHAR  *)
(* between two entries.                                                     *)
DataBaseLine(sp) ==
  FoldLeft(LAMBDA acc, e : (IF acc = <<>> THEN <<>> ELSE Append(acc, PathSep))
                           \o C!convert_Path_to_windows32(e, PathSep),
           <<>>, sp)

PrintDataBase ==
  /\ pc = "print"
  /\ printed' = DataBaseLine(entries)
  /\ pc' = "reread"
  /\ UNCHANGED <<native, entries, reread>>

Reread ==
  /\ pc = "reread"
  /\ reread' = Searchpath(printed)
  /\ pc' = "done"
  /\ UNCHANGED <<native, entries, printed>>

Next == Construct \/ PrintDataBase \/ Reread

Spec == Init /\ [][Next]_vars

TypeOK ==
  /\ native \in C!Strings
  /\ entries \in Seq(Seq(Chars)) /\ reread \in Seq(Seq(Chars))
  /\ printed \in Seq(Chars)
  /\ pc \in {"construct", "print", "reread", "done"}

-----------------------------------------------------------------------------
(* The directories a native list names, as the comment on                  *)
(* convert_vpath_from_windows32 describes the format: the list is cut at   *)
(* each ';' outside double quotes, the quotes are removed, and each name   *)
(* is trimmed of blanks; blank names are dropped.                          *)
NativeDirs(w) ==
  LET cuts  == {j \in DOMAIN w : w[j] = PathSep /\
                  Cardinality({k \in 1..j - 1 : w[k] = C!Quote}) % 2 = 0}
      bound == <<0>> \o SetToSortSeq(cuts, <) \o <<Len(w) + 1>>
      piece(k) == C!StripBlanks(C!SkipBlanks(
                    SelectSeq(SubSeq(w, bound[k] + 1, bound[k + 1] - 1),
                              LAMBDA c : c # C!Quote)))
  IN  SelectSeq([k \in 1..Len(bound) - 1 |-> piece(k)], LAMBDA d : d # <<>>)

(* The round trip the canonical form promises (spec section 8): a list   *)
(* delimited in Windows style (a ';' outside double quotes, so that a      *)
(* backslash is a path character and not an escape), converted to the     *)
(* canonical form and back, names the directories it named before, in      *)
(* order, each with a trailing slash stripped as construct_vpath_list      *)
(* strips it.                                                              *)
HostRoundTrip ==
  pc = "done" /\ C!DelimFound(native, PathSep) =>
    NativeDirs(printed) = [k \in DOMAIN NativeDirs(native) |-> S!Trimmed(NativeDirs(native)[k])]
=============================================================================
