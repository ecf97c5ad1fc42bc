----------------------------- MODULE PathConvert -----------------------------
(***************************************************************************)
(* The two path-list conversions of src/w32/pathstuff.c that the Windows   *)
(* build uses around the VPATH engine:                                     *)
(*   convert_vpath_from_windows32: a native list ("a b";c, delimited by    *)
(*     ';', names with blanks in double quotes) to the canonical form      *)
(*     (entries separated by blanks, blanks inside a name escaped by '\'); *)
(*   convert_Path_to_windows32: canonical back to native, every name that  *)
(*     had an escaped blank put in double quotes.                          *)
(* Both first measure the output in a dry run, allocate, convert, and      *)
(* assert the output fits the measure.                                     *)
(***************************************************************************)
EXTENDS Naturals, Sequences, SequencesExt, FiniteSets

CONSTANTS
  Chars,   \* the characters a path list is made of
  MaxLen,  \* bound on the length of a path list
  Delim,   \* the list delimiter the callers pass (PATH_SEPARATOR_CHAR, ';')
  NULL     \* the NULL a conversion returns for a blank string

Blank  == " "
BSlash == "\\"
Quote  == "\""

IsBlank(c) == c = Blank

RECURSIVE SkipBlanks(_)
SkipBlanks(s) == IF s # <<>> /\ IsBlank(Head(s)) THEN SkipBlanks(Tail(s)) ELSE s

RECURSIVE StripBlanks(_)
StripBlanks(s) == IF s # <<>> /\ IsBlank(Last(s)) THEN StripBlanks(Front(s)) ELSE s

-----------------------------------------------------------------------------
(* convert_vpath_from_windows32.  The dry run counts two bytes for every  *)
(* blank and notes whether a delimiter occurs outside double quotes.       *)
\* Mutant: the dry run counts one byte per character, blanks included.
FromSizeNoEscape(P) == Len(P)

FromSize(P) == Len(P) + Cardinality({k \in DOMAIN P : IsBlank(P[k])})

DelimFound(P, delim) ==
  LET step(acc, c) ==
        IF c = Quote THEN [acc EXCEPT !.ins = ~acc.ins]
        ELSE [acc EXCEPT !.found = acc.found \/ (c = delim /\ ~acc.ins)]
  IN  FoldLeft(step, [ins |-> FALSE, found |-> FALSE], P).found

(* The conversion loop: a quote toggles the quoted state and is dropped; a *)
(* blank that is not escaped, inside quotes or in a list that has a        *)
(* delimiter, becomes "\ "; a delimiter outside quotes becomes one blank,  *)
(* eating the blanks around it; anything else is copied.  A backslash      *)
(* outside quotes escapes the next character, a second one cancels it.     *)
RECURSIVE FromLoop(_, _, _, _, _, _)
FromLoop(src, delim, df, tgt, instring, isescaped) ==
  IF src = <<>> THEN tgt
  ELSE LET c        == Head(src)
           quote    == c = Quote
           escblank == ~quote /\ IsBlank(c) /\ ~isescaped /\ (instring \/ df)
           sep      == ~quote /\ ~escblank /\ c = delim /\ ~instring
           ins      == IF quote THEN ~instring ELSE instring
       IN  FromLoop(IF sep THEN SkipBlanks(Tail(src)) ELSE Tail(src), delim, df,
                    CASE quote    -> tgt
                      [] escblank -> tgt \o <<BSlash, Blank>>
                      [] sep      -> Append(StripBlanks(tgt), Blank)
                      [] OTHER    -> Append(tgt, c),
                    ins, ~ins /\ c = BSlash /\ ~isescaped)

\* The converted text before its trailing blanks are removed.
FromConverted(P, delim) == FromLoop(P, delim, DelimFound(P, delim), <<>>, FALSE, FALSE)

convert_vpath_from_windows32(Path, delim) ==
  LET P == SkipBlanks(Path)
  IN  IF P = <<>> THEN NULL ELSE StripBlanks(FromConverted(P, delim))

-----------------------------------------------------------------------------
(* convert_Path_to_windows32.  An escaped blank outside quotes becomes a  *)
(* plain blank and marks the name for quoting; a plain blank outside       *)
(* quotes ends the name (quoting it when marked) and becomes the           *)
(* delimiter; anything else is copied, a quote toggling the quoted state.  *)
EscapedBlankAt(src, instring) ==
  ~instring /\ Head(src) = BSlash /\ Len(src) > 1 /\ IsBlank(src[2])

\* Mutant: the dry run forgets the quotes around the last name.
RECURSIVE ToSizeNoFinalQuotes(_, _, _)
ToSizeNoFinalQuotes(src, enquote, instring) ==
  IF src = <<>> THEN 0
  ELSE IF EscapedBlankAt(src, instring)
    THEN 1 + ToSizeNoFinalQuotes(Tail(Tail(src)), TRUE, instring)
  ELSE IF ~instring /\ IsBlank(Head(src))
    THEN (IF enquote THEN 2 ELSE 0) + 1 + ToSizeNoFinalQuotes(Tail(src), FALSE, instring)
  ELSE 1 + ToSizeNoFinalQuotes(Tail(src), enquote, IF Head(src) = Quote THEN ~instring ELSE instring)

\* The dry run: the bytes the conversion will write.
RECURSIVE ToSize(_, _, _)
ToSize(src, enquote, instring) ==
  IF src = <<>> THEN IF enquote THEN 2 ELSE 0
  ELSE IF EscapedBlankAt(src, instring) THEN 1 + ToSize(Tail(Tail(src)), TRUE, instring)
  ELSE IF ~instring /\ IsBlank(Head(src))
    THEN (IF enquote THEN 2 ELSE 0) + 1 + ToSize(Tail(src), FALSE, instring)
  ELSE 1 + ToSize(Tail(src), enquote, IF Head(src) = Quote THEN ~instring ELSE instring)

\* Quote the name that starts after position mark of tgt.
Enclose(tgt, mark) ==
  SubSeq(tgt, 1, mark) \o <<Quote>> \o SubSeq(tgt, mark + 1, Len(tgt)) \o <<Quote>>

RECURSIVE ToLoop(_, _, _, _, _, _)
ToLoop(src, delim, tgt, mark, enquote, instring) ==
  IF src = <<>> THEN IF enquote THEN Enclose(tgt, mark) ELSE tgt
  ELSE IF EscapedBlankAt(src, instring)
    THEN ToLoop(Tail(Tail(src)), delim, Append(tgt, Blank), mark, TRUE, instring)
  ELSE IF ~instring /\ IsBlank(Head(src))
    THEN LET t == IF enquote THEN Enclose(tgt, mark) ELSE tgt
         IN  ToLoop(Tail(src), delim, Append(t, delim), Len(t) + 1, FALSE, instring)
  ELSE ToLoop(Tail(src), delim, Append(tgt, Head(src)), mark, enquote,
              IF Head(src) = Quote THEN ~instring ELSE instring)

convert_Path_to_windows32(Path, delim) ==
  LET P == SkipBlanks(Path)
  IN  IF P = <<>> THEN NULL ELSE ToLoop(P, delim, <<>>, 0, FALSE, FALSE)

-----------------------------------------------------------------------------
VARIABLES path, converted, done

vars == <<path, converted, done>>

Strings == UNION {[1..n -> Chars] : n \in 0..MaxLen}

Init == path \in Strings /\ converted = NULL /\ done = "none"

FromWindows ==
  /\ done = "none"
  /\ converted' = convert_vpath_from_windows32(path, Delim) /\ done' = "from"
  /\ UNCHANGED path

ToWindows ==
  /\ done = "none"
  /\ converted' = convert_Path_to_windows32(path, Delim) /\ done' = "to"
  /\ UNCHANGED path

Next == FromWindows \/ ToWindows

Spec == Init /\ [][Next]_vars

TypeOK ==
  /\ path \in Strings
  /\ converted \in Seq(Chars) \cup {NULL}
  /\ done \in {"none", "from", "to"}

(* The buffer convert_vpath_from_windows32 allocates is never overrun:    *)
(* what the conversion loop writes fits the dry run's count (the assert    *)
(* after the loop), although a delimiter both eats blanks and writes one.  *)
FromFits ==
  done = "from" /\ SkipBlanks(path) # <<>> =>
    Len(FromConverted(SkipBlanks(path), Delim)) <= FromSize(SkipBlanks(path))

(* convert_Path_to_windows32 writes exactly the bytes its dry run counted *)
(* (assert (tgt - wpath == size)), quotes and delimiters included, so the  *)
(* terminator lands in the last allocated byte.                            *)
ToSizeExact ==
  done = "to" /\ converted # NULL =>
    Len(converted) = ToSize(SkipBlanks(path), FALSE, FALSE)
=============================================================================
