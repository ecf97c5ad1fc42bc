------------------------------ MODULE MC_Syntax ------------------------------
(* The text make takes apart, each over every string of its bound:         *)
(* construct_vpath_list's parse in the POSIX build (':' as separator, '/'  *)
(* only) and in the Windows build (';', both slashes, drive prefixes), the *)
(* two Windows conversions of w32/pathstuff.c, and the configuration lines *)
(* the built-in variables and rules of default.c are taken from.  Which    *)
(* one runs is fixed in the initial state; the others keep their initial   *)
(* values.  A parsed list is also searched by gpath_search, as the GPATH   *)
(* list.                                                                   *)
EXTENDS Naturals, Sequences, SequencesExt

CONSTANT NULL

VARIABLES part, dirpath, entries, parsed, path, converted, done,
  lines, no_builtin, defined, suffixes, suffix_deps, suffix_rules, patterns,
  undefined, pc

\* POSIX strings: a letter, the dot, the slash, the blank, ':' and '\'.
MCChars == {"a", ".", "/", " ", ":", "\\"}

\* Windows strings: drive colons, both slashes, the blank and ';'.
MCDosChars == {"a", ":", "/", "\\", " ", ";"}

\* Windows lists for the conversions: a letter, blank, ';', '\' and '"'.
MCListChars == {"a", " ", ";", "\\", "\""}

Posix == INSTANCE PathSplit WITH PathSep <- ":", DosPaths <- FALSE,
                                 Chars <- MCChars, MaxLen <- 5
Dos   == INSTANCE PathSplit WITH PathSep <- ";", DosPaths <- TRUE,
                                 Chars <- MCDosChars, MaxLen <- 5
G     == INSTANCE GPath

\* File names for gpath_search: up to three letters, dots and slashes.
MCFileNames == UNION {[1..n -> {"a", ".", "/"}] : n \in 1..3}

\* The candidate builders of the two builds.
PN == INSTANCE VPathName WITH DosPaths <- FALSE
DN == INSTANCE VPathName WITH DosPaths <- TRUE

(* Relative names selective_vpath_search splits: up to three letters,     *)
(* slashes and backslashes.                                                *)
MCSearchNames(dos) ==
  {f \in UNION {[1..n -> {"a", "/", "\\"}] : n \in 1..3} :
     IF dos THEN DN!Relative(f) ELSE PN!Relative(f)}

Conv  == INSTANCE PathConvert WITH Chars <- MCListChars, MaxLen <- 6, Delim <- ";"

(* Configurations of up to two lines of up to three characters over the   *)
(* characters the rule, suffix and variable tests branch on ("S" is the    *)
(* keyword .SUFFIXES), with -r and -R on and off.                          *)
D     == INSTANCE DefaultRules WITH Chars <- {".", ":", "%", "=", " ", "S", "\t"},
                                    MaxLine <- 3, NLines <- 2, NameMax <- 128,
                                    SufKw <- "S", FlagSet <- [rules: BOOLEAN, variables: BOOLEAN]

splitVars == <<dirpath, entries, parsed>>
convVars  == <<path, converted, done>>
rulesVars == <<lines, no_builtin, defined, suffixes, suffix_deps, suffix_rules,
               patterns, undefined, pc>>
vars      == <<part, splitVars, convVars, rulesVars>>

SplitIdle == dirpath = <<>> /\ entries = <<>> /\ parsed = FALSE
ConvIdle  == path = <<>> /\ converted = NULL /\ done = "none"
RulesIdle == /\ lines = <<>> /\ no_builtin = [rules |-> FALSE, variables |-> FALSE]
             /\ defined = <<>> /\ suffixes = NULL /\ suffix_deps = <<>>
             /\ suffix_rules = <<>> /\ patterns = <<>> /\ undefined = <<>> /\ pc = "define"

Init ==
  \/ part = "posix" /\ Posix!Init /\ ConvIdle /\ RulesIdle
  \/ part = "dos" /\ Dos!Init /\ ConvIdle /\ RulesIdle
  \/ part = "convert" /\ Conv!Init /\ SplitIdle /\ RulesIdle
  \/ part = "rules" /\ D!Init /\ SplitIdle /\ ConvIdle

Next ==
  /\ UNCHANGED part
  /\ \/ part = "posix" /\ Posix!Parse /\ UNCHANGED <<convVars, rulesVars>>
     \/ part = "dos" /\ Dos!Parse /\ UNCHANGED <<convVars, rulesVars>>
     \/ part = "convert" /\ Conv!FromWindows /\ UNCHANGED <<splitVars, rulesVars>>
     \/ part = "convert" /\ Conv!ToWindows /\ UNCHANGED <<splitVars, rulesVars>>
     \/ part = "rules" /\ D!Next /\ UNCHANGED <<splitVars, convVars>>

Spec == Init /\ [][Next]_vars

\* The type invariant of the parse: no entry is ever empty.
BuildTypeOK ==
  CASE part = "posix" -> Posix!TypeOK [] part = "dos" -> Dos!TypeOK [] OTHER -> TRUE

(* In both builds the entries are exactly those of the reference: blanks   *)
(* escaped by an odd run of backslashes, the trailing-slash rule with its  *)
(* root and drive exceptions, and the "." rule.                            *)
BuildSplitMatchesReference ==
  CASE part = "posix" -> Posix!SplitMatchesReference
    [] part = "dos"   -> Dos!SplitMatchesReference
    [] OTHER          -> TRUE

(* In both builds the entries and the NULL terminator fit the maxelem      *)
(* slots the counting loop allocated.                                      *)
BuildSplitFits ==
  CASE part = "posix" -> Posix!SplitFits [] part = "dos" -> Dos!SplitFits [] OTHER -> TRUE

(* gpath_search, given the maxlen the construction recorded, finds a name  *)
(* of length len exactly when it is one of the parsed entries: the maxlen  *)
(* shortcut never hides an entry and a prefix of an entry never matches.   *)
GPathExact ==
  part \in {"posix", "dos"} /\ parsed =>
    \A f \in MCFileNames, n \in 0..3 :
      n <= Len(f) =>
        (G!gpath_search(entries, G!MaxVpath(entries), f, n) <=> SubSeq(f, 1, n) \in Range(entries))

(* Every candidate selective_vpath_search builds for a parsed entry, its  *)
(* terminator included, fits the buffer alloca sized from the maxlen the   *)
(* construction recorded and the split of the file name.                  *)
CandidateFits ==
  part \in {"posix", "dos"} /\ parsed =>
    \A e \in Range(entries), f \in MCSearchNames(part = "dos") :
      IF part = "dos" THEN DN!CandidateBytes(e, f) <= DN!NameSize(G!MaxVpath(entries), f)
      ELSE PN!CandidateBytes(e, f) <= PN!NameSize(G!MaxVpath(entries), f)

(* Spec section 4.3: the candidate is the entry, "/", the file's directory *)
(* prefix, "/" and its name, with every run of separators made exactly     *)
(* one; so an entry and a file name without such a run give a candidate    *)
(* without one.                                                            *)
CandidateJoinsOnce ==
  part \in {"posix", "dos"} /\ parsed =>
    \A e \in Range(entries), f \in MCSearchNames(part = "dos") :
      IF part = "dos" THEN DN!NoSepRun(e) /\ DN!NoSepRun(f) => DN!NoSepRun(DN!Candidate(e, f))
      ELSE PN!NoSepRun(e) /\ PN!NoSepRun(f) => PN!NoSepRun(PN!Candidate(e, f))

(* convert_vpath_from_windows32 never writes more than its dry run sized   *)
(* (the assert at its end).                                                *)
ConvertFromFits == part = "convert" => Conv!FromFits

(* The dry run of convert_Path_to_windows32 counts exactly the characters  *)
(* the conversion writes, quotes and delimiters included.                  *)
ConvertToSizeExact == part = "convert" => Conv!ToSizeExact

=============================================================================
