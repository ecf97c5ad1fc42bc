----------------------------- MODULE RecipeLines -----------------------------
(***************************************************************************)
(* How a recipe is cut into its command lines (src/commands.c):            *)
(*   chop_commands: unless .ONESHELL is in effect, the recipe text is cut   *)
(*     at every newline that is not escaped by an odd run of backslashes;  *)
(*     a recipe of more than USHRT_MAX lines is a fatal error; the count   *)
(*     is kept in an unsigned short; every line gets its '+', '@', '-'     *)
(*     flags from its prefix, and '+' also from a $(MAKE) reference;       *)
(*   print_commands: the data base printout cuts the same text into the    *)
(*     logical lines it prints, with its own backslash toggle.             *)
(*                                                                         *)
(* A recipe is a sequence of one-character strings.  A reference to        *)
(* $(MAKE) or ${MAKE} is abstracted to the single character MakeRef: no    *)
(* flag character can occur inside it, so it never straddles the prefix.  *)
(***************************************************************************)
EXTENDS Naturals, Sequences, SequencesExt

CONSTANTS
  Chars,      \* the characters a recipe is made of
  MaxLen,     \* bound on the length of a recipe
  ShortBits,  \* width of an unsigned short (16 in the build)
  MakeRef,    \* the character that stands for "$(MAKE)" or "${MAKE}"
  NULL        \* command_lines before chop_commands ran

ASSUME ShortBits \in Nat \ {0}
ASSUME MakeRef \in Chars

Blank   == " "
BSlash  == "\\"
Newline == "\n"

USHRT_MAX == 2^ShortBits - 1

-----------------------------------------------------------------------------
(* chop_commands.  The number of backslashes that end just before          *)
(* position k, not looking further back than the line start p.            *)
RECURSIVE RunBefore(_, _, _)
RunBefore(s, p, k) ==
  IF k - 1 >= p /\ s[k - 1] = BSlash THEN 1 + RunBefore(s, p, k - 1) ELSE 0

(* Mutant: any backslash before the newline escapes it, whatever the     *)
(* length of the run.                                                      *)
RECURSIVE FindEndAnyBackslash(_, _, _)
FindEndAnyBackslash(s, p, e) ==
  LET nl == {k \in e..Len(s) : s[k] = Newline}
  IN  IF nl = {} THEN Len(s) + 1
      ELSE LET end == Min(nl)
           IN  IF end > p /\ RunBefore(s, p, end) > 0
                 THEN FindEndAnyBackslash(s, p, end + 1) ELSE end

(* find_end: the first newline at or after e that is not escaped; a       *)
(* newline after an odd run of backslashes is skipped (goto find_end).     *)
(* Past the end of the text, the line ends at the terminator.             *)
RECURSIVE FindEnd(_, _, _)
FindEnd(s, p, e) ==
  LET nl == {k \in e..Len(s) : s[k] = Newline}
  IN  IF nl = {} THEN Len(s) + 1
      ELSE LET end == Min(nl)
           IN  IF end > p /\ RunBefore(s, p, end) % 2 = 1
                 THEN FindEnd(s, p, end + 1) ELSE end

RECURSIVE ChopFrom(_, _)
ChopFrom(s, p) ==
  IF p > Len(s) THEN <<>>
  ELSE LET end == FindEnd(s, p, p)
       IN  <<SubSeq(s, p, end - 1)>> \o ChopFrom(s, end + 1)

(* .ONESHELL: the whole recipe is one line, one trailing newline removed.  *)
OneShellLines(s) ==
  <<IF Len(s) > 0 /\ Last(s) = Newline THEN Front(s) ELSE s>>

\* Mutant: the loop check fires one line early.
LoopLimitEarly(nlines) == nlines >= USHRT_MAX

\* The check in the loop: a line is about to be added to USHRT_MAX lines.
LoopLimit(nlines) == nlines > USHRT_MAX

\* The check after the loop.
FinalLimit(nlines) == nlines > USHRT_MAX

(* The flags of one line: '+', '@' and '-' among its leading blanks and    *)
(* flag characters; '+' also when the rest refers to $(MAKE).             *)
FlagOf == [c \in {"+", "@", "-"} |->
             CASE c = "+" -> "recurse" [] c = "@" -> "silent" [] OTHER -> "noerror"]

RECURSIVE PrefixLen(_, _)
PrefixLen(l, k) ==
  IF k < Len(l) /\ l[k + 1] \in {Blank} \cup DOMAIN FlagOf
    THEN PrefixLen(l, k + 1) ELSE k

LineFlags(l) ==
  LET k     == PrefixLen(l, 0)
      flags == {FlagOf[l[i]] : i \in {j \in 1..k : l[j] # Blank}}
  IN  IF "recurse" \notin flags /\ \E i \in k + 1..Len(l) : l[i] = MakeRef
        THEN flags \cup {"recurse"} ELSE flags

-----------------------------------------------------------------------------
(* print_commands: a logical line ends at a newline seen while the         *)
(* backslash toggle is off; a backslash flips it, any other character      *)
(* clears it.                                                             *)
RECURSIVE PrintEnd(_, _, _)
PrintEnd(s, e, bs) ==
  IF e > Len(s) \/ (s[e] = Newline /\ ~bs) THEN e
  ELSE PrintEnd(s, e + 1, IF s[e] = BSlash THEN ~bs ELSE FALSE)

RECURSIVE PrintFrom(_)
PrintFrom(s) ==
  IF s = <<>> THEN <<>>
  ELSE LET end == PrintEnd(s, 1, FALSE)
       IN  <<SubSeq(s, 1, end - 1)>> \o PrintFrom(SubSeq(s, end + 1, Len(s)))

-----------------------------------------------------------------------------
(* The reference: the text is cut at each newline preceded by an even      *)
(* number of backslashes; a newline at the very end ends the last line.    *)
RefLines(s) ==
  LET cuts  == {k \in DOMAIN s : s[k] = Newline /\ RunBefore(s, 1, k) % 2 = 0}
      bound == <<0>> \o SetToSortSeq(cuts, <)
                     \o (IF Len(s) \in cuts THEN <<>> ELSE <<Len(s) + 1>>)
  IN  IF s = <<>> THEN <<>>
      ELSE [k \in 1..Len(bound) - 1 |-> SubSeq(s, bound[k] + 1, bound[k + 1] - 1)]

-----------------------------------------------------------------------------
VARIABLES
  commands,        \* cmds->commands, the recipe text
  one_shell,       \* .ONESHELL
  command_lines,   \* cmds->command_lines, NULL until chopped
  ncommand_lines,  \* cmds->ncommand_lines, an unsigned short
  lines_flags,     \* cmds->lines_flags
  any_recurse,     \* cmds->any_recurse
  printed,         \* the lines print_commands wrote, NULL before
  status           \* "ok", or "fatal" once make has stopped

vars == <<commands, one_shell, command_lines, ncommand_lines, lines_flags,
          any_recurse, printed, status>>

Text == UNION {[1..n -> Chars] : n \in 0..MaxLen}

Init ==
  /\ commands \in Text /\ one_shell \in BOOLEAN
  /\ command_lines = NULL /\ ncommand_lines = 0
  /\ lines_flags = <<>> /\ any_recurse = FALSE
  /\ printed = NULL /\ status = "ok"

(* chop_commands, from the early return on a recipe already chopped to the *)
(* flags of the last line.  A fatal error stops make.                      *)
chop_commands ==
  /\ status = "ok" /\ command_lines = NULL
  /\ LET lines  == IF one_shell THEN OneShellLines(commands) ELSE ChopFrom(commands, 1)
         nlines == Len(lines)
     IN  IF (~one_shell /\ LoopLimit(nlines)) \/ FinalLimit(nlines)
           THEN /\ status' = "fatal"
                /\ UNCHANGED <<command_lines, ncommand_lines, lines_flags, any_recurse>>
           ELSE /\ ncommand_lines' = nlines % (USHRT_MAX + 1)
                /\ command_lines' = lines
                /\ lines_flags' = [i \in 1..nlines |-> LineFlags(lines[i])]
                /\ any_recurse' = \E i \in 1..nlines : "recurse" \in LineFlags(lines[i])
                /\ UNCHANGED status
  /\ UNCHANGED <<commands, one_shell, printed>>

print_commands ==
  /\ status = "ok" /\ printed = NULL
  /\ printed' = PrintFrom(commands)
  /\ UNCHANGED <<commands, one_shell, command_lines, ncommand_lines, lines_flags,
                 any_recurse, status>>

Next == chop_commands \/ print_commands

Spec == Init /\ [][Next]_vars

Flag == {"recurse", "silent", "noerror"}

TypeOK ==
  /\ commands \in Text /\ one_shell \in BOOLEAN
  /\ command_lines \in Seq(Seq(Chars)) \cup {NULL}
  /\ ncommand_lines \in 0..USHRT_MAX
  /\ lines_flags \in Seq(SUBSET Flag) /\ any_recurse \in BOOLEAN
  /\ printed \in Seq(Seq(Chars)) \cup {NULL}
  /\ status \in {"ok", "fatal"}

(* The line count survives its cast to unsigned short: a chopped recipe   *)
(* has exactly ncommand_lines lines, and chop_commands stops make only     *)
(* for a recipe of more lines than an unsigned short counts.               *)
LineCountFits ==
  /\ command_lines # NULL => ncommand_lines = Len(command_lines)
  /\ status = "fatal" => ~one_shell /\ Len(RefLines(commands)) > USHRT_MAX

(* The job runner and the data base printout see the same recipe lines:   *)
(* without .ONESHELL, the lines chop_commands made (its goto over escaped  *)
(* newlines and its backward backslash count) are the logical lines       *)
(* print_commands prints (its forward toggle), and both are the lines of   *)
(* the reference cut at newlines after an even run of backslashes.         *)
ChopAgreesWithPrint ==
  /\ command_lines # NULL /\ ~one_shell => command_lines = RefLines(commands)
  /\ printed # NULL => printed = RefLines(commands)
=============================================================================
