---------------------------- MODULE DefaultRules ----------------------------
(***************************************************************************)
(* The built-in variables and rules of src/default.c, taken from the text  *)
(* lines read_config stored:                                               *)
(*   define_default_variables  the hard-coded variables, then every line   *)
(*                             is_variable accepts;                        *)
(*   set_default_suffixes      the words of every ".SUFFIXES" line, joined *)
(*                             and normalised, as .SUFFIXES and $(SUFFIXES);*)
(*   install_default_suffix_rules   every ".x.y:" line, with the indented  *)
(*                             lines after it (collect_commandlines) as    *)
(*                             its recipe;                                 *)
(*   install_default_implicit_rules every "%...:" line as a pattern rule;  *)
(*   undefine_default_variables   every variable of the lines removed.     *)
(* They run in that order, the order the comments at default.c 360-363     *)
(* require (suffix rules before the makefiles are read, pattern rules      *)
(* after).  define_variable, enter_file and install_pattern_rule are       *)
(* outside src/: the model records the calls made to them, in order.       *)
(*                                                                         *)
(* A line is a sequence of one-character strings; the keyword ".SUFFIXES"  *)
(* is the single character SufKw.  The hard-coded variables are named by   *)
(* one-element sequences so that they compare with configuration names.    *)
(***************************************************************************)
EXTENDS Naturals, Sequences, SequencesExt

CONSTANTS
  Chars,     \* the characters of a configuration line
  MaxLine,   \* bound on the length of a line
  NLines,    \* bound on the number of lines
  NameMax,   \* sizeof (vname): 128 in the code
  SufKw,     \* the character that stands for ".SUFFIXES"
  NULL

ASSUME NameMax \in Nat \ {0} /\ NLines \in Nat

Blank == " "
Tab   == "\t"
Dot   == "."
Colon == ":"
Equal == "="
Pct   == "%"
Nl    == "\n"

\* ISBLANK, and the test *p <= ' ' of striptrailing and skipleading.
IsBlank(c) == c \in {Blank, Tab}

RECURSIVE StripTrailing(_)
StripTrailing(l) == IF l # <<>> /\ IsBlank(Last(l)) THEN StripTrailing(Front(l)) ELSE l

RECURSIVE SkipLeading(_)
SkipLeading(l) == IF l # <<>> /\ IsBlank(Head(l)) THEN SkipLeading(Tail(l)) ELSE l

\* The position of the first c in l, 0 when there is none (strchr).
First(l, c) == LET ks == {k \in DOMAIN l : l[k] = c} IN IF ks = {} THEN 0 ELSE Min(ks)

\* The lines from position i on.
From(ls, i) == SubSeq(ls, i, Len(ls))

-----------------------------------------------------------------------------
(* collect_commandlines: the indented lines that follow, each without its *)
(* leading blanks, joined by newlines; an empty one adds no newline.  The  *)
(* buffer is sized by a first pass over the same lines.                    *)
RECURSIVE Indented(_)
Indented(ls) == IF ls # <<>> /\ IsBlank(Head(ls)[1]) THEN <<Head(ls)>> \o Indented(Tail(ls)) ELSE <<>>

CollectSize(ls) == FoldLeft(LAMBDA n, l : n + Len(SkipLeading(l)) + 1, 0, Indented(ls))

collect_commandlines(ls) ==
  FoldLeft(LAMBDA acc, l : (IF acc # <<>> THEN Append(acc, Nl) ELSE acc) \o SkipLeading(l),
           <<>>, Indented(ls))

-----------------------------------------------------------------------------
(* is_variable: a line that does not start with a blank and has an '='.   *)
(* The name is the text before the first '=', cut to NameMax - 1, then     *)
(* stripped of trailing colons and, after that, of trailing blanks; the    *)
(* value is the text after the '=' without its leading blanks.             *)
IsVariable(l) == ~IsBlank(l[1]) /\ First(l, Equal) > 0

RECURSIVE StripColons(_)
StripColons(n) == IF n # <<>> /\ Last(n) = Colon THEN StripColons(Front(n)) ELSE n

VarName(l) ==
  LET len == First(l, Equal) - 1
  IN  StripTrailing(StripColons(SubSeq(l, 1, IF len >= NameMax THEN NameMax - 1 ELSE len)))

VarValue(l) == SkipLeading(From(l, First(l, Equal) + 1))

(* undefine_default_variables: the name is the text before the first '=',  *)
(* with every trailing ':' and ' ' removed.                                *)
RECURSIVE UndefName(_)
UndefName(n) == IF n # <<>> /\ Last(n) \in {Colon, Blank} THEN UndefName(Front(n)) ELSE n

\* default_variables[]: the variables every configuration starts from.
HardCoded == << [name |-> <<"GNUMAKEFLAGS">>, value |-> <<>>],
                [name |-> <<".RECIPEINDENT">>, value |-> <<"4">>],
                [name |-> <<".space">>, value |-> <<" ">>] >>

-----------------------------------------------------------------------------
(* set_default_suffixes.  A ".SUFFIXES" line is the keyword followed by a  *)
(* blank; its text is what follows the blanks after the keyword.  The     *)
(* texts are joined by one blank (none after an empty first text), tabs    *)
(* become blanks, and each run of blanks is cut to one (the memmove).      *)
IsSuffixesLine(l) == Len(l) >= 2 /\ l[1] = SufKw /\ IsBlank(l[2])

JoinSuffixes(ls) ==
  LET step(acc, l) ==
        IF ~IsSuffixesLine(l) THEN acc
        ELSE LET p == SkipLeading(From(l, 2))
             IN  IF acc = NULL \/ acc = <<>> THEN p ELSE Append(acc, Blank) \o p
  IN  FoldLeft(step, NULL, ls)

RECURSIVE SkipBlanks(_)
SkipBlanks(s) == IF s # <<>> /\ Head(s) = Blank THEN SkipBlanks(Tail(s)) ELSE s

RECURSIVE Collapse(_)
Collapse(s) ==
  IF s = <<>> THEN <<>>
  ELSE IF Head(s) = Blank THEN <<Blank>> \o Collapse(SkipBlanks(Tail(s)))
  ELSE <<Head(s)>> \o Collapse(Tail(s))

Normalise(s) == Collapse([k \in DOMAIN s |-> IF s[k] = Tab THEN Blank ELSE s[k]])

(* The words of a text, as PARSE_SIMPLE_SEQ cuts it at blanks.             *)
Words(s) ==
  LET starts == {k \in DOMAIN s : ~IsBlank(s[k]) /\ (k = 1 \/ IsBlank(s[k - 1]))}
      endOf(k) == Min({j \in k..Len(s) : IsBlank(s[j])} \cup {Len(s) + 1}) - 1
  IN  [i \in 1..Cardinality(starts) |->
         LET k == SetToSortSeq(starts, <)[i] IN SubSeq(s, k, endOf(k))]

-----------------------------------------------------------------------------
(* install_default_suffix_rules: a line that starts with '.' and whose     *)
(* first ':' ends it; the name is the text before the ':', stripped.  The  *)
(* line itself is cut to the name.                                         *)
IsSuffixRule(l) == l[1] = Dot /\ First(l, Colon) = Len(l)

SuffixName(l) == StripTrailing(SubSeq(l, 1, Len(l) - 1))

(* install_default_implicit_rules: a line that does not start with a blank *)
(* and has a ':' after its first '%', not followed by '='.  A second ':'   *)
(* makes the rule terminal.  The target is the text up to and including    *)
(* the colons, stripped of trailing blanks; the prerequisites are the rest *)
(* without its leading blanks.                                             *)
ColonAfterPct(l) ==
  LET ks == {k \in DOMAIN l : l[k] = Colon /\ k > First(l, Pct)} IN IF ks = {} THEN 0 ELSE Min(ks)

IsPatternRule(l) ==
  /\ ~IsBlank(l[1]) /\ First(l, Pct) > 0
  /\ ColonAfterPct(l) > 0
  /\ (ColonAfterPct(l) = Len(l) \/ l[ColonAfterPct(l) + 1] # Equal)

TargetEnd(l) ==
  LET c == ColonAfterPct(l)
  IN  IF c < Len(l) /\ l[c + 1] = Colon THEN c + 1 ELSE c

PatternRule(ls, i) ==
  LET l == ls[i]
  IN  [target   |-> StripTrailing(SubSeq(l, 1, TargetEnd(l))),
       dep      |-> SkipLeading(From(l, TargetEnd(l) + 1)),
       commands |-> collect_commandlines(From(ls, i + 1)),
       alloc    |-> CollectSize(From(ls, i + 1)) + 1,
       terminal |-> TargetEnd(l) > ColonAfterPct(l)]

-----------------------------------------------------------------------------
VARIABLES
  lines,        \* the text lines of the configuration
  no_builtin,   \* [rules |-> -r given, variables |-> -R given]
  defined,      \* the define_variable calls made, in order
  suffixes,     \* the value given to SUFFIXES
  suffix_deps,  \* the words entered as prerequisites of .SUFFIXES
  suffix_rules, \* the suffix rules entered: name and recipe
  patterns,     \* the install_pattern_rule calls made, in order
  undefined,    \* the names undefine_variable_global was called with
  pc            \* the next function to run, or "abort" on a failed assert

vars == <<lines, no_builtin, defined, suffixes, suffix_deps, suffix_rules,
          patterns, undefined, pc>>

Line == UNION {[1..n -> Chars] : n \in 1..MaxLine}

CONSTANT FlagSet   \* the settings of -r and -R checked

Init ==
  /\ lines \in UNION {[1..n -> Line] : n \in 0..NLines}
  /\ no_builtin \in FlagSet
  /\ defined = <<>> /\ suffixes = NULL /\ suffix_deps = <<>>
  /\ suffix_rules = <<>> /\ patterns = <<>> /\ undefined = <<>>
  /\ pc = "define"

\* The indices of the lines that satisfy P, in order.
Indices(ls, P(_)) == SelectSeq([i \in DOMAIN ls |-> i], LAMBDA i : P(ls[i]))

(* define_default_variables: the hard-coded variables, then, unless -R,    *)
(* a variable for every line is_variable accepts.                          *)
define_default_variables ==
  /\ pc = "define"
  /\ defined' = HardCoded \o
       (IF no_builtin.variables THEN <<>>
        ELSE LET vs == Indices(lines, IsVariable)
             IN  [k \in DOMAIN vs |-> [name  |-> VarName(lines[vs[k]]),
                                       value |-> VarValue(lines[vs[k]])]])
  /\ pc' = "suffixes"
  /\ UNCHANGED <<lines, no_builtin, suffixes, suffix_deps, suffix_rules, patterns, undefined>>

(* set_default_suffixes: with -r, or without a ".SUFFIXES" line, SUFFIXES  *)
(* is empty; otherwise the joined, normalised text is its value and its    *)
(* words the prerequisites of .SUFFIXES.                                   *)
set_default_suffixes ==
  /\ pc = "suffixes"
  /\ LET j == JoinSuffixes(lines)
     IN  IF no_builtin.rules \/ j = NULL
           THEN suffixes' = <<>> /\ UNCHANGED suffix_deps
           ELSE suffixes' = Normalise(j) /\ suffix_deps' = Words(Normalise(j))
  /\ pc' = "suffixrules"
  /\ UNCHANGED <<lines, no_builtin, defined, suffix_rules, patterns, undefined>>

(* install_default_suffix_rules: unless -r, every suffix-rule line is cut  *)
(* to its name and entered with the following indented lines as recipe;    *)
(* the buffer for the recipe is CollectSize + 1 bytes.  A name entered     *)
(* twice fails assert (f->cmds == 0).                                      *)
install_default_suffix_rules ==
  /\ pc = "suffixrules"
  /\ IF no_builtin.rules
       THEN pc' = "implicit" /\ UNCHANGED <<lines, suffix_rules>>
       ELSE LET rs    == Indices(lines, IsSuffixRule)
                names == [k \in DOMAIN rs |-> SuffixName(lines[rs[k]])]
            IN  IF \E a, b \in DOMAIN names : a < b /\ names[a] = names[b]
                  THEN pc' = "assert_suffix" /\ UNCHANGED <<lines, suffix_rules>>
                  ELSE /\ suffix_rules' =
                            [k \in DOMAIN rs |->
                               [name     |-> names[k],
                                commands |-> collect_commandlines(From(lines, rs[k] + 1)),
                                alloc    |-> CollectSize(From(lines, rs[k] + 1)) + 1]]
                       /\ lines' = [i \in DOMAIN lines |->
                                      IF IsSuffixRule(lines[i]) THEN SuffixName(lines[i])
                                      ELSE lines[i]]
                       /\ pc' = "implicit"
  /\ UNCHANGED <<no_builtin, defined, suffixes, suffix_deps, patterns, undefined>>

(* install_default_implicit_rules: unless -r, a pattern rule for every      *)
(* pattern-rule line, in order; a target of NameMax characters or more     *)
(* fails the assert on the target buffer.                                  *)
install_default_implicit_rules ==
  /\ pc = "implicit"
  /\ IF no_builtin.rules
       THEN pc' = "undefine" /\ UNCHANGED patterns
       ELSE LET rs  == Indices(lines, IsPatternRule)
                bad == {k \in DOMAIN rs : TargetEnd(lines[rs[k]]) >= NameMax}
                n   == IF bad = {} THEN Len(rs) ELSE Min(bad) - 1
            IN  /\ patterns' = [k \in 1..n |-> PatternRule(lines, rs[k])]
                /\ pc' = IF bad = {} THEN "undefine" ELSE "assert_target"
  /\ UNCHANGED <<lines, no_builtin, defined, suffixes, suffix_deps, suffix_rules, undefined>>

(* undefine_default_variables: every line of the variable form names a     *)
(* variable to undefine, -R or not.                                        *)
undefine_default_variables ==
  /\ pc = "undefine"
  /\ LET vs == Indices(lines, IsVariable)
     IN  undefined' = [k \in DOMAIN vs |-> UndefName(SubSeq(lines[vs[k]], 1, First(lines[vs[k]], Equal) - 1))]
  /\ pc' = "done"
  /\ UNCHANGED <<lines, no_builtin, defined, suffixes, suffix_deps, suffix_rules, patterns>>

Next ==
  \/ define_default_variables \/ set_default_suffixes \/ install_default_suffix_rules
  \/ install_default_implicit_rules \/ undefine_default_variables

Spec == Init /\ [][Next]_vars

Rule == [name: Seq(Chars), commands: Seq(Chars \cup {Nl}), alloc: Nat]

TypeOK ==
  /\ lines \in Seq(Seq(Chars))
  /\ no_builtin \in [rules: BOOLEAN, variables: BOOLEAN]
  /\ defined \in Seq([name: Seq(STRING), value: Seq(STRING)])
  /\ suffixes \in Seq(Chars) \cup {NULL} /\ suffix_deps \in Seq(Seq(Chars))
  /\ suffix_rules \in Seq(Rule) /\ undefined \in Seq(Seq(Chars))
  /\ pc \in {"define", "suffixes", "suffixrules", "implicit", "undefine", "done",
             "assert_suffix", "assert_target"}

SuffixRulesFresh == pc # "assert_suffix"

(* undefine_default_variables removes every variable define_default_      *)
(* variables took from the configuration: both read the same lines, but    *)
(* each cuts the name in its own way.                                      *)
UndefineMatchesDefine ==
  pc = "done" =>
    \A k \in 4..Len(defined) : defined[k].name \in Range(undefined)

=============================================================================
