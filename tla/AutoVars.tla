------------------------------ MODULE AutoVars ------------------------------
(***************************************************************************)
(* set_file_variables (src/commands.c): the automatic variables of a file  *)
(* about to be remade.                                                     *)
(*   $@ $%   the target, or the library and member of 'lib(member)';       *)
(*   $*      the given stem, or the name (member) without the first        *)
(*           .SUFFIXES suffix it ends in;                                  *)
(*   $<      the first normal prerequisite, or $@ for .DEFAULT commands;   *)
(*   $+      every normal prerequisite, duplicates kept;                   *)
(*   $^ $?   the normal prerequisites, once each, and the changed ones;    *)
(*   $|      the order-only prerequisites, once each.                      *)
(* A first pass sizes the $+ and $| buffers and bounds $?; a hash table    *)
(* then keeps the first entry of every name, and an entry whose duplicate  *)
(* differs in being order-only makes both normal (the "upgrade", which    *)
(* stays in the file's prerequisite list).  The three buffers are static   *)
(* and only grow, so their sizes carry over from one call to the next.     *)
(*                                                                         *)
(* A value is kept as the list of the names written; the escaping of      *)
(* blanks by copy_escaped_name shows only in the byte counts (EscLen).     *)
(* A prerequisite with need_2nd_expansion or ignore_automatic_vars is      *)
(* "skip": every test of the function treats the two alike.                *)
(***************************************************************************)
EXTENDS Naturals, Sequences, SequencesExt, FiniteSets

CONSTANTS
  Names,     \* prerequisite names: sequences of one-character strings
  Targets,   \* target names
  Stems,     \* the stem arguments: sequences, or NULL for an explicit rule
  SuffixList, \* the prerequisites of .SUFFIXES, in order
  MaxDeps,   \* bound on the prerequisites of one file
  MaxCalls,  \* bound on the calls checked
  NULL

ASSUME MaxDeps \in Nat /\ MaxCalls \in Nat

Blank == " "

\* escaped_name_length: one more byte for every blank.
EscLen(n) == Len(n) + Cardinality({k \in DOMAIN n : n[k] = Blank})

\* ar_name: 'lib(member)' with a non-empty library and member.
Paren(n) == LET ps == {k \in DOMAIN n : n[k] = "("} IN IF ps = {} THEN 0 ELSE Min(ps)

IsArName(n) == Paren(n) > 1 /\ Last(n) = ")" /\ Len(n) > Paren(n) + 1

ArLib(n)    == SubSeq(n, 1, Paren(n) - 1)
ArMember(n) == SubSeq(n, Paren(n) + 1, Len(n) - 1)

\* The bytes a name takes in $+ $^ $? $|: an archive reference gives its member.
WriteLen(n) == IF IsArName(n) THEN EscLen(ArMember(n)) ELSE EscLen(n)

Dep == [name: Names, oo: BOOLEAN, skip: BOOLEAN, changed: BOOLEAN]

Normal(d)    == ~d.oo /\ ~d.skip
OrderOnly(d) == d.oo /\ ~d.skip

(* The first-pass sum over the entries ks: each name's escaped length, or *)
(* with written, the length of what is written for it, and a separator.    *)
SumOver(ds, ks, written) ==
  MapThenSumSet(LAMBDA k : (IF written THEN WriteLen(ds[k].name) ELSE EscLen(ds[k].name)) + 1, ks)

\* Mutant: the `len++` for an empty list is dropped.
AtLeastOneDropped(n) == n

\* The `if (len == 0) len++` of the first pass: room for the terminator.
AtLeastOne(n) == IF n = 0 THEN 1 ELSE n

\* The bytes a list of names takes, each followed by a blank, the last blank
\* turned into the terminator; an empty list takes the terminator only.
Bytes(ns) == IF ns = <<>> THEN 1 ELSE FoldLeft(LAMBDA acc, n : acc + WriteLen(n) + 1, 0, ns)

\* The entry hash_find_slot finds for entry i: the first counted entry of its name.
HashItem(ds, i) == Min({j \in DOMAIN ds : ~ds[j].skip /\ ds[j].name = ds[i].name})

\* Mutant: only the later entry is made normal; the hashed one stays order-only.
UpgradeDupOnly(ds) ==
  LET step(acc, i) ==
        IF acc[i].skip \/ HashItem(acc, i) = i \/ acc[i].oo = acc[HashItem(acc, i)].oo
          THEN acc ELSE [acc EXCEPT ![i].oo = FALSE]
  IN  FoldLeft(step, ds, [k \in DOMAIN ds |-> k])

(* The first loop over the hash table: a duplicate whose ignore_mtime      *)
(* differs from the hashed entry's clears it in both.                      *)
Upgrade(ds) ==
  LET step(acc, i) ==
        IF acc[i].skip \/ HashItem(acc, i) = i \/ acc[i].oo = acc[HashItem(acc, i)].oo
          THEN acc ELSE [acc EXCEPT ![i].oo = FALSE, ![HashItem(acc, i)].oo = FALSE]
  IN  FoldLeft(step, ds, [k \in DOMAIN ds |-> k])

\* The names of the entries ks, in order.
NamesWhere(ds, ks) ==
  LET is == SelectSeq([k \in DOMAIN ds |-> k], LAMBDA k : k \in ks)
  IN  [j \in DOMAIN is |-> ds[is[j]].name]

\* $*: the name (member) with the first suffix it ends in, and is longer than, cut off.
StemOf(t) ==
  LET base == IF IsArName(t) THEN ArMember(t) ELSE t
      ends == SelectSeq(SuffixList, LAMBDA s : Len(base) > Len(s)
                                             /\ SubSeq(base, Len(base) - Len(s) + 1, Len(base)) = s)
  IN  IF ends = <<>> THEN <<>> ELSE SubSeq(base, 1, Len(base) - Len(Head(ends)))

-----------------------------------------------------------------------------
VARIABLES
  given,          \* file->deps as the call found them
  deps,           \* file->deps as the call left them
  always_make,    \* always_make_flag (-B)
  sourcesdup_max, \* the static buffer sizes, kept between calls
  newsources_max,
  orderonly_max,
  auto,           \* the values defined: the names each variable lists
  used,           \* the bytes each buffer was written with in the last call
  calls

vars == <<given, deps, always_make, sourcesdup_max, newsources_max, orderonly_max,
          auto, used, calls>>

DepLists == UNION {[1..n -> Dep] : n \in 0..MaxDeps}

Init ==
  /\ given = <<>> /\ deps = <<>> /\ always_make \in BOOLEAN
  /\ sourcesdup_max = 0 /\ newsources_max = 0 /\ orderonly_max = 0
  /\ auto = NULL /\ used = NULL /\ calls = 0

BiggerOf(a, b) == IF a > b THEN a ELSE b

(* One call for a file with name t, prerequisites ds, stem argument stem,  *)
(* and commands that may come from .DEFAULT.                               *)
set_file_variables ==
  /\ calls < MaxCalls
  /\ \E ds \in DepLists, t \in Targets, stem \in Stems, from_default \in BOOLEAN :
       LET vtarget     == IF IsArName(t) THEN ArLib(t) ELSE t
           vmember     == IF IsArName(t) THEN ArMember(t) ELSE <<>>
           vstem       == IF stem = NULL THEN StemOf(t) ELSE stem
           firstNormal == SelectSeq(ds, Normal)
           vsource     == IF from_default THEN vtarget
                          ELSE IF firstNormal = <<>> THEN <<>> ELSE Head(firstNormal).name
           Where(P(_)) == {k \in DOMAIN ds : P(ds[k])}
           Stale(d)    == Normal(d) /\ ~(d.changed \/ always_make)
           sourcesdup_len == AtLeastOne(SumOver(ds, Where(Normal), FALSE))
           orderonly_len  == AtLeastOne(SumOver(ds, Where(OrderOnly), FALSE))
           newsources_len == sourcesdup_len + 1 - SumOver(ds, Where(Stale), TRUE)
           up          == Upgrade(ds)
           Item(k)     == ~up[k].skip /\ HashItem(up, k) = k
           plus        == NamesWhere(ds, Where(Normal))
           caret       == NamesWhere(up, {k \in DOMAIN up : Item(k) /\ ~up[k].oo})
           query       == NamesWhere(up, {k \in DOMAIN up : Item(k) /\ ~up[k].oo
                                                          /\ (up[k].changed \/ always_make)})
           bar         == NamesWhere(up, {k \in DOMAIN up : Item(k) /\ up[k].oo})
       IN  /\ given' = ds /\ deps' = up
           /\ sourcesdup_max' = BiggerOf(sourcesdup_max, sourcesdup_len)
           /\ newsources_max' = BiggerOf(newsources_max, newsources_len)
           /\ orderonly_max' = BiggerOf(orderonly_max, orderonly_len)
           /\ auto' = [at |-> vtarget, pct |-> vmember, star |-> vstem, lt |-> vsource,
                       plus |-> plus, caret |-> caret, query |-> query, bar |-> bar]
           /\ used' = [dup |-> Bytes(plus), src |-> Bytes(caret),
                       new |-> Bytes(query), oo |-> Bytes(bar)]
  /\ calls' = calls + 1
  /\ UNCHANGED always_make

Next == set_file_variables

Spec == Init /\ [][Next]_vars

-----------------------------------------------------------------------------
(* The $+ and $^ values written into the sourcesdup buffer, and $| into    *)
(* the orderonly buffer, fit the sizes the first pass gave them, after the *)
(* hash table has dropped duplicates and the upgrade has moved order-only  *)
(* names into $^.                                                          *)
SourcesFit ==
  used # NULL =>
    /\ used.dup <= sourcesdup_max /\ used.src <= sourcesdup_max
    /\ used.oo <= orderonly_max

(* $? fits the newsources buffer: its size was bounded in the first pass   *)
(* by taking the unchanged normal prerequisites off the size of $+.        *)
NewSourcesFit == used # NULL => used.new <= newsources_max

(* The comment before the hash loops: no name is repeated in $^ and $|,    *)
(* none is in both, a name is in $^ exactly when one of its entries is a   *)
(* normal prerequisite, and $? lists only names of $^.                     *)
ListsPartition ==
  auto # NULL =>
    LET counted == {given[k].name : k \in {j \in DOMAIN given : ~given[j].skip}}
        normal  == {given[k].name : k \in {j \in DOMAIN given : Normal(given[j])}}
    IN  /\ IsInjective(auto.caret) /\ IsInjective(auto.bar)
        /\ Range(auto.caret) = normal
        /\ Range(auto.bar) = counted \ normal
        /\ Range(auto.query) \subseteq Range(auto.caret)
=============================================================================
