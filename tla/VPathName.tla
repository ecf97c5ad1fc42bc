------------------------------ MODULE VPathName ------------------------------
(***************************************************************************)
(* The candidate names selective_vpath_search (src/vpath.c) tries: FILE   *)
(* is split at its rightmost slash (or, with DOS paths, backslash) into a  *)
(* directory prefix and a name, one buffer is sized from the list's        *)
(* maxlen, and for each entry the buffer gets the entry, a slash and the   *)
(* prefix when there is one, and a slash before the name unless the text   *)
(* so far ends in one.  Strings are sequences of one-character strings.    *)
(* The entry stored by dir_name (outside src) is taken to be the string    *)
(* construct_vpath_list cut, so its length is bounded by maxlen.           *)
(***************************************************************************)
EXTENDS Naturals, Sequences, SequencesExt

CONSTANT DosPaths   \* HAVE_DOS_PATHS

Slash  == "/"
BSlash == "\\"

\* The separators strrchr looks for in FILE.
IsSep(c) == c = Slash \/ (DosPaths /\ c = BSlash)

(* vpath_search hands on only names that do not start at the root (nor,   *)
(* with DOS paths, at a backslash or a drive).                             *)
Relative(file) ==
  /\ file # <<>>
  /\ ~IsSep(file[1])
  /\ ~(DosPaths /\ Len(file) >= 2 /\ file[2] = ":")

(* name_dplen: the offset of the rightmost separator, 0 when there is none *)
(* (a separator in first place also gives 0: the whole FILE is the name).  *)
DirPrefixLen(file) ==
  LET seps == {k \in DOMAIN file : IsSep(file[k])}
  IN  IF seps = {} THEN 0 ELSE Max(seps) - 1

\* filename and flen: what follows the prefix and its separator.
BaseName(file) ==
  IF DirPrefixLen(file) > 0 THEN SubSeq(file, DirPrefixLen(file) + 2, Len(file)) ELSE file

\* Mutant: the second slash, "not always necessary", is left out of the size.
NameSizeNoSecondSlash(maxvpath, file) ==
  maxvpath + 1 + DirPrefixLen(file) + Len(BaseName(file)) + 1

(* The bytes alloca gives the name buffer: the biggest entry, a slash, the *)
(* prefix, another slash, the name and the terminator.                     *)
NameSize(maxvpath, file) ==
  maxvpath + 1 + DirPrefixLen(file) + 1 + Len(BaseName(file)) + 1

(* The loop body up to the existence tests: the entry, then "/" and the     *)
(* prefix; with DOS paths a trailing backslash becomes a slash; then "/"   *)
(* and the name, or the name alone after a slash (or at the start).        *)
Candidate(entry, file) ==
  LET dp  == DirPrefixLen(file)
      p1  == IF dp > 0 THEN entry \o <<Slash>> \o SubSeq(file, 1, dp) ELSE entry
      p2  == IF DosPaths /\ p1 # <<>> /\ Last(p1) = BSlash
               THEN [p1 EXCEPT ![Len(p1)] = Slash] ELSE p1
  IN  IF p2 # <<>> /\ Last(p2) # Slash THEN p2 \o <<Slash>> \o BaseName(file)
      ELSE p2 \o BaseName(file)

(* The bytes the candidate occupies in the buffer, its terminator included. *)
CandidateBytes(entry, file) == Len(Candidate(entry, file)) + 1

\* The candidate has no two separators in a row.
NoSepRun(s) == \A k \in 1..Len(s) - 1 : ~(IsSep(s[k]) /\ IsSep(s[k + 1]))
=============================================================================
