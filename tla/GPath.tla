-------------------------------- MODULE GPath --------------------------------
(***************************************************************************)
(* gpath_search (src/vpath.c) over a list construct_vpath_list built:      *)
(* whether the first len characters of a file name are exactly one of the  *)
(* list's entries.  The test is skipped when len exceeds the maxlen the    *)
(* construction recorded (maxvpath), so maxlen must bound every entry;     *)
(* selective_vpath_search sizes its name buffer from the same maxlen.      *)
(* A list is the sequence of its entries; no list (gpaths NULL) is the     *)
(* empty sequence, as construct_vpath_list makes none without entries.     *)
(***************************************************************************)
EXTENDS Naturals, Sequences, SequencesExt

\* maxvpath: the longest entry put on the list.
MaxVpath(entries) ==
  FoldLeft(LAMBDA m, e : IF Len(e) > m THEN Len(e) ELSE m, 0, entries)

\* The first n characters of s, or all of s if it is shorter.
Take(s, n) == SubSeq(s, 1, IF n < Len(s) THEN n ELSE Len(s))

\* strneq (a strncmp up to n characters, or to the end of both strings).
StrnEq(a, b, n) == Take(a, n) = Take(b, n)

\* Mutant: the test that the entry ends at len is missing.
gpath_searchPrefix(searchpath, maxlen, file, len) ==
  /\ searchpath # <<>> /\ len <= maxlen
  /\ \E k \in DOMAIN searchpath : StrnEq(searchpath[k], file, len)

\* gpath_search, with the list's searchpath and maxlen.
gpath_search(searchpath, maxlen, file, len) ==
  /\ searchpath # <<>> /\ len <= maxlen
  /\ \E k \in DOMAIN searchpath :
       StrnEq(searchpath[k], file, len) /\ Len(searchpath[k]) = len
=============================================================================
