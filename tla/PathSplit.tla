------------------------------ MODULE PathSplit ------------------------------
(***************************************************************************)
(* How construct_vpath_list (src/vpath.c) turns a directory string into   *)
(* the entries of a search path: skip leading blanks and separators, size  *)
(* the entry array by counting blanks that are not escaped and separators, *)
(* cut the string at each separator and each blank not escaped by an odd   *)
(* run of backslashes, strip one trailing slash unless the entry is a root *)
(* (or, with DOS paths, a drive prefix), and drop the entry ".".           *)
(*                                                                         *)
(* A string is a sequence of one-character strings.  The colon rule of    *)
(* platforms that have DOS paths and ':' as separator (vpath.c 253-259) is *)
(* not modelled: no supported build has both.                              *)
(***************************************************************************)
EXTENDS Naturals, Sequences, SequencesExt, FiniteSetsExt

CONSTANTS
  PathSep,   \* PATH_SEPARATOR_CHAR: ":" on POSIX, ";" on Windows
  DosPaths,  \* HAVE_DOS_PATHS: "\" also ends a directory name
  Chars,     \* the characters a directory string is made of
  MaxLen     \* bound on the length of a directory string

ASSUME DosPaths => PathSep # ":"

Blank  == " "
BSlash == "\\"
Slash  == "/"
Dot    == "."

\* ISBLANK: one blank stands for space and tab.
IsBlank(c) == c = Blank

\* STOP_SET (c, MAP_BLANK|MAP_PATHSEP).
IsStop(c) == IsBlank(c) \/ c = PathSep

RECURSIVE SkipStops(_)
SkipStops(s) == IF s # <<>> /\ IsStop(Head(s)) THEN SkipStops(Tail(s)) ELSE s

\* The backslash toggle both loops apply after each character.
Escape(esc, c) == IF c = BSlash THEN ~esc ELSE FALSE

(* Mutant: only blanks are counted, as if a separator could not end an   *)
(* entry.                                                                  *)
MaxElemBlanksOnly(s) ==
  LET step(acc, c) ==
        [n   |-> acc.n + (IF ~acc.esc /\ IsBlank(c) THEN 1 ELSE 0),
         esc |-> Escape(acc.esc, c)]
  IN  FoldLeft(step, [n |-> 2, esc |-> FALSE], s).n

(* maxelem: two (the first entry and the terminator) plus one for every   *)
(* blank that is not escaped and every separator of the skipped string.    *)
MaxElem(s) ==
  LET step(acc, c) ==
        [n   |-> acc.n + (IF (~acc.esc /\ IsBlank(c)) \/ c = PathSep THEN 1 ELSE 0),
         esc |-> Escape(acc.esc, c)]
  IN  FoldLeft(step, [n |-> 2, esc |-> FALSE], s).n

(* The length of the entry at the front of s: it ends at the end of the   *)
(* string, at a separator, or at a blank that is not escaped.              *)
RECURSIVE EntryLen(_, _, _)
EntryLen(s, k, esc) ==
  IF k = Len(s) \/ s[k + 1] = PathSep \/ (IsBlank(s[k + 1]) /\ ~esc) THEN k
  ELSE EntryLen(s, k + 1, Escape(esc, s[k + 1]))

\* Mutant: a root loses its slash too.
TrimLenRoot(v, len) ==
  IF DosPaths
    THEN IF (len > 3 \/ len = 1 \/ (len > 1 /\ v[2] # ":")) /\ v[len] \in {Slash, BSlash}
           THEN len - 1 ELSE len
    ELSE IF len > 0 /\ v[len] = Slash THEN len - 1 ELSE len

\* Mutant: a drive prefix "d:/" loses its slash.
TrimLenNoDrive(v, len) ==
  IF DosPaths
    THEN IF len > 1 /\ v[len] \in {Slash, BSlash} THEN len - 1 ELSE len
    ELSE IF len > 1 /\ v[len] = Slash THEN len - 1 ELSE len

\* The entry's length once a trailing slash is stripped.
TrimLen(v, len) ==
  IF DosPaths
    THEN IF (len > 3 \/ (len > 1 /\ v[2] # ":")) /\ v[len] \in {Slash, BSlash}
           THEN len - 1 ELSE len
    ELSE IF len > 1 /\ v[len] = Slash THEN len - 1 ELSE len

\* Mutant: the entry "." is kept.
RECURSIVE SplitFromKeepsDot(_)
SplitFromKeepsDot(s) ==
  IF s = <<>> THEN <<>>
  ELSE LET n   == EntryLen(s, 0, FALSE)
           len == TrimLen(s, n)
       IN  <<SubSeq(s, 1, len)>> \o SplitFromKeepsDot(SkipStops(SubSeq(s, n + 1, Len(s))))

(* The loop over entries: each entry is taken, trimmed, kept unless it is *)
(* ".", and the separators and blanks after it are skipped.                *)
RECURSIVE SplitFrom(_)
SplitFrom(s) ==
  IF s = <<>> THEN <<>>
  ELSE LET n   == EntryLen(s, 0, FALSE)
           len == TrimLen(s, n)
       IN  (IF len > 1 \/ s[1] # Dot THEN <<SubSeq(s, 1, len)>> ELSE <<>>)
           \o SplitFrom(SkipStops(SubSeq(s, n + 1, Len(s))))

Split(dirpath) == SplitFrom(SkipStops(dirpath))

-----------------------------------------------------------------------------
(* The reference: the entries are the maximal runs of characters between  *)
(* cut positions, a cut being a separator or a blank preceded by an even   *)
(* number of backslashes; each is trimmed unless it is a root or a drive   *)
(* prefix, and the entries equal to "." are dropped.                       *)
BackslashRun(s, j) == Max({k \in 0..j - 1 : \A m \in j - k..j - 1 : s[m] = BSlash})

Cut(s, j) == s[j] = PathSep \/ (IsBlank(s[j]) /\ BackslashRun(s, j) % 2 = 0)

IsRoot(e) == Len(e) = 1 \/ (DosPaths /\ Len(e) <= 3 /\ e[2] = ":")

Trimmed(e) ==
  IF ~IsRoot(e) /\ Last(e) \in (IF DosPaths THEN {Slash, BSlash} ELSE {Slash})
    THEN Front(e) ELSE e

RefSplit(s) ==
  LET starts == {j \in 1..Len(s) : ~Cut(s, j) /\ (j = 1 \/ Cut(s, j - 1))}
      EndOf(j) == Min({k \in j..Len(s) : Cut(s, k)} \cup {Len(s) + 1}) - 1
      runs == [k \in 1..Cardinality(starts) |->
                 LET j == SetToSortSeq(starts, <)[k] IN SubSeq(s, j, EndOf(j))]
  IN  SelectSeq([k \in DOMAIN runs |-> Trimmed(runs[k])], LAMBDA e : e # <<Dot>>)

-----------------------------------------------------------------------------
VARIABLES dirpath, entries, parsed

vars == <<dirpath, entries, parsed>>

\* Directory strings a makefile may give, and nothing parsed yet.
Init ==
  /\ dirpath \in UNION {[1..n -> Chars] : n \in 0..MaxLen}
  /\ entries = <<>> /\ parsed = FALSE

(* The parse, from the skip of leading separators to the list of entries; *)
(* no entries means no list is made (the elem > 0 test).                   *)
Parse ==
  /\ ~parsed
  /\ entries' = Split(dirpath) /\ parsed' = TRUE
  /\ UNCHANGED dirpath

Next == Parse

Spec == Init /\ [][Next]_vars

TypeOK ==
  /\ dirpath \in Seq(Chars) /\ Len(dirpath) <= MaxLen
  /\ entries \in Seq(Seq(Chars) \ {<<>>})
  /\ parsed \in BOOLEAN

(* The entries are exactly those of the reference: the escaping a blank   *)
(* gets from an odd run of backslashes, the trailing-slash rule and the    *)
(* "." rule as the directory-string convention states them.                *)
SplitMatchesReference == parsed => entries = RefSplit(dirpath)

(* The entry array is never overrun: the entries and the NULL terminator  *)
(* that vpath[elem] = NULL writes fit in the maxelem slots allocated from  *)
(* the separator count, so the count loop and the cut loop agree on which  *)
(* blanks are escaped.                                                     *)
SplitFits == parsed => Len(entries) + 1 <= MaxElem(SkipStops(dirpath))
=============================================================================
