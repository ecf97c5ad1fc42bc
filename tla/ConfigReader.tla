---------------------------- MODULE ConfigReader ----------------------------
(***************************************************************************)
(* read_config and clear_config (src/default.c): where the configuration  *)
(* file is looked for, how its physical lines are read into the fixed      *)
(* line buffer and joined into the list of text lines the built-in rules   *)
(* and variables are taken from.                                           *)
(*                                                                         *)
(* The candidate files are places, not path strings: the given path, the   *)
(* make.conf in the given directory, in the current directory, in $HOME    *)
(* and /etc/make.conf (the POSIX build).  The file is a sequence of        *)
(* one-character strings; a blank stands for every character <= ' '       *)
(* other than the newline.                                                 *)
(***************************************************************************)
EXTENDS Naturals, Sequences, SequencesExt

CONSTANTS
  Chars,       \* the characters of a configuration file
  MaxFile,     \* bound on the length of the file
  LINELENGTH,  \* size of the line buffer (2048 in the code)
  NULL

ASSUME LINELENGTH \in Nat /\ LINELENGTH >= 3

Blank   == " "
BSlash  == "\\"
Hash    == "#"
Newline == "\n"

\* The places a configuration file may be, and the empty name.
Place == {"path", "pathdir", "cwd", "home", "etc"}
Empty == ""

-----------------------------------------------------------------------------
(* striptrailing: every trailing character <= ' ' is removed.             *)
RECURSIVE StripTrailing(_)
StripTrailing(l) ==
  IF l # <<>> /\ Last(l) \in {Blank, Newline} THEN StripTrailing(Front(l)) ELSE l

(* fgets(buf, n): at most n - 1 characters from offset pos, up to and      *)
(* including the first newline.                                            *)
Fgets(f, pos, n) ==
  LET rest == SubSeq(f, pos, Len(f))
      nls  == {k \in DOMAIN rest : rest[k] = Newline}
      upto == IF nls = {} THEN Len(rest) ELSE Min(nls)
  IN  SubSeq(rest, 1, IF upto < n - 1 THEN upto ELSE n - 1)

(* The first '#' ends the line, unless a backslash precedes it: then the   *)
(* backslash is deleted and the '#' kept.                                  *)
Comment(l) ==
  LET hs == {k \in DOMAIN l : l[k] = Hash}
  IN  IF hs = {} THEN l
      ELSE LET k == Min(hs)
           IN  IF k = 1 \/ l[k - 1] # BSlash THEN SubSeq(l, 1, k - 1)
               ELSE SubSeq(l, 1, k - 2) \o SubSeq(l, k, Len(l))

(* One pass of the do-while body over the buffer: strip, then a single    *)
(* trailing backslash (not a doubled one) is erased and asks for the next  *)
(* line, the blanks before it stripped; then the comment.                  *)
EndsInBSlash(l) == l # <<>> /\ Last(l) = BSlash

Continues(l) ==
  LET t == StripTrailing(l)
  IN  EndsInBSlash(t) /\ ~EndsInBSlash(Front(t))

PassLine(l) ==
  LET t == StripTrailing(l)
      u == IF EndsInBSlash(t) THEN Front(t) ELSE t
  IN  Comment(IF Continues(l) THEN StripTrailing(u) ELSE u)

-----------------------------------------------------------------------------
\* Mutant: $HOME replaces the name without testing it first.
LookupHomeAlways(path, exclusive, exists, cwd_ok, home_set) ==
  LET c0 == IF ~path THEN Empty ELSE IF exclusive THEN "path" ELSE "pathdir"
      c1 == IF c0 \notin exists /\ cwd_ok THEN "cwd" ELSE c0
      c2 == IF home_set THEN "home" ELSE c1
  IN  IF c2 \notin exists THEN "etc" ELSE c2

(* The lookup: the given place (the file itself when exclusive, else its   *)
(* make.conf), then, each only while the current name does not exist, the *)
(* current directory (when getcwd succeeds), $HOME (when set) and /etc.    *)
Lookup(path, exclusive, exists, cwd_ok, home_set) ==
  LET c0 == IF ~path THEN Empty ELSE IF exclusive THEN "path" ELSE "pathdir"
      c1 == IF c0 \notin exists /\ cwd_ok THEN "cwd" ELSE c0
      c2 == IF c1 \notin exists /\ home_set THEN "home" ELSE c1
  IN  IF c2 \notin exists THEN "etc" ELSE c2

-----------------------------------------------------------------------------
(* The environment of one call: whether a path is given and is exclusive,  *)
(* which places exist, whether getcwd succeeds and $HOME is set.           *)
Envs == [path: BOOLEAN, exclusive: BOOLEAN, exists: SUBSET Place,
         cwd_ok: BOOLEAN, home_set: BOOLEAN]

CONSTANT EnvSet   \* the environments checked, a subset of Envs

ASSUME EnvSet \subseteq Envs

VARIABLES
  env,       \* the environment of the call
  cfgfile,   \* the static cfgfile buffer: a place or the empty name
  file,      \* the text of the opened file
  pos,       \* the offset fgets reads from next
  line,      \* the line buffer
  textroot,  \* the list of text lines (textroot.next ...)
  pc,        \* "lookup", "read", "pass", "done", "cleared"
  result     \* what read_config returned: the place, or NULL

vars == <<env, cfgfile, file, pos, line, textroot, pc, result>>

Files == UNION {[1..n -> Chars] : n \in 0..MaxFile}

Init ==
  /\ env \in EnvSet
  /\ cfgfile = Empty /\ file = <<>> /\ pos = 1 /\ line = <<>>
  /\ textroot = <<>> /\ pc = "lookup" /\ result = NULL

(* From the start of read_config to fopen: a place that does not exist    *)
(* after the cascade, or a file fopen cannot open, returns NULL.           *)
OpenConfig ==
  /\ pc = "lookup"
  /\ cfgfile' = Lookup(env.path, env.exclusive, env.exists, env.cwd_ok, env.home_set)
  /\ \/ /\ cfgfile' \notin env.exists
        /\ result' = NULL /\ pc' = "done" /\ UNCHANGED file
     \/ /\ cfgfile' \in env.exists             \* fopen fails (unreadable)
        /\ result' = NULL /\ pc' = "done" /\ UNCHANGED file
     \/ /\ cfgfile' \in env.exists
        /\ file' \in Files /\ pc' = "read" /\ UNCHANGED result
  /\ UNCHANGED <<env, pos, line, textroot>>

\* Mutant: the loop does not stop when fgets returns NULL at the end.
ReadLineNoEof ==
  /\ pc = "read" /\ pos <= Len(file)
  /\ line' = Fgets(file, pos, LINELENGTH)
  /\ pos' = pos + Len(line') /\ pc' = "pass"
  /\ UNCHANGED <<env, cfgfile, file, textroot, result>>

(* The while (fgets (line, LINELENGTH, fcfg)) test: at the end of the     *)
(* file the loop ends, the file is closed and cfgfile returned.            *)
ReadLine ==
  /\ pc = "read"
  /\ \/ /\ pos > Len(file)
        /\ pc' = "done" /\ result' = cfgfile /\ UNCHANGED <<line, pos>>
     \/ /\ pos <= Len(file)
        /\ line' = Fgets(file, pos, LINELENGTH)
        /\ pos' = pos + Len(line') /\ pc' = "pass" /\ UNCHANGED result
  /\ UNCHANGED <<env, cfgfile, file, textroot>>

\* Mutant: the continuation reads a whole buffer's worth after the text.
PassFullBuffer ==
  /\ pc = "pass"
  /\ LET w == PassLine(line) IN
       \/ /\ Continues(line) /\ pos <= Len(file)
          /\ line' = w \o Fgets(file, pos, LINELENGTH)
          /\ pos' = pos + Len(line') - Len(w)
          /\ UNCHANGED <<textroot, pc>>
       \/ /\ ~(Continues(line) /\ pos <= Len(file))
          /\ line' = w
          /\ textroot' = IF w # <<>> THEN Append(textroot, w) ELSE textroot
          /\ pc' = "read" /\ UNCHANGED pos
  /\ UNCHANGED <<env, cfgfile, file, result>>

(* One pass of the do-while: a continued line reads the next physical line *)
(* into the rest of the buffer and passes again over the joined line;      *)
(* otherwise (or at the end of the file) a non-empty line is appended to   *)
(* the list.                                                               *)
Pass ==
  /\ pc = "pass"
  /\ LET w == PassLine(line) IN
       \/ /\ Continues(line) /\ pos <= Len(file)
          /\ line' = w \o Fgets(file, pos, LINELENGTH - Len(w))
          /\ pos' = pos + Len(line') - Len(w)
          /\ UNCHANGED <<textroot, pc>>
       \/ /\ ~(Continues(line) /\ pos <= Len(file))
          /\ line' = w
          /\ textroot' = IF w # <<>> THEN Append(textroot, w) ELSE textroot
          /\ pc' = "read" /\ UNCHANGED pos
  /\ UNCHANGED <<env, cfgfile, file, result>>

(* clear_config: every text line unlinked and freed; the list is not used *)
(* again.                                                                   *)
clear_config ==
  /\ pc = "done"
  /\ textroot' = <<>> /\ pc' = "cleared"
  /\ UNCHANGED <<env, cfgfile, file, pos, line, result>>

Next == OpenConfig \/ ReadLine \/ Pass \/ clear_config

(* read_config runs to its return in make's main thread.                  *)
Spec == Init /\ [][Next]_vars /\ WF_vars(Next)

TypeOK ==
  /\ env \in EnvSet /\ cfgfile \in Place \cup {Empty}
  /\ file \in Files /\ pos \in 1..MaxFile + 1
  /\ line \in Seq(Chars) /\ textroot \in Seq(Seq(Chars))
  /\ pc \in {"lookup", "read", "pass", "done", "cleared"} /\ result \in Place \cup {NULL}

-----------------------------------------------------------------------------
(* The places the lookup tries, in order.                                  *)
Candidates(e) ==
  (IF e.path THEN <<IF e.exclusive THEN "path" ELSE "pathdir">> ELSE <<>>)
  \o (IF e.cwd_ok THEN <<"cwd">> ELSE <<>>)
  \o (IF e.home_set THEN <<"home">> ELSE <<>>)
  \o <<"etc">>

(* The cascade finds the first existing configuration file in the order    *)
(* given place, current directory, home, /etc, although a step that cannot *)
(* run (getcwd fails, $HOME unset) leaves the previous name in the static  *)
(* buffer for the next access test; when no place exists, the call returns *)
(* NULL.                                                                   *)
CascadeFirstExisting ==
  pc \notin {"lookup"} =>
    LET found == SelectSeq(Candidates(env), LAMBDA c : c \in env.exists)
    IN  IF found = <<>> THEN result = NULL ELSE cfgfile = Head(found)

(* The comment above the lookup: an exclusive path is used alone; a        *)
(* missing exclusive file only draws a warning, never a fallback.          *)
ExclusiveUsesOnlyPath ==
  pc \notin {"lookup"} /\ env.path /\ env.exclusive => result \in {"path", NULL}

(* The continuation fgets (line + length, LINELENGTH - length) never       *)
(* writes past the line buffer, whatever the lengths of the joined lines.  *)
ContinuationFits == Len(line) <= LINELENGTH - 1

(* Reading the file ends: every pass of the do-while either consumes input *)
(* or leaves the loop.                                                     *)
ReadTerminates == <>(pc \in {"done", "cleared"})

(* The physical lines of a file, without their newlines.                  *)
PhysLines(f) ==
  LET cuts  == {k \in DOMAIN f : f[k] = Newline}
      bound == <<0>> \o SetToSortSeq(cuts, <)
                     \o (IF Len(f) \in cuts THEN <<>> ELSE <<Len(f) + 1>>)
  IN  IF f = <<>> THEN <<>>
      ELSE [k \in 1..Len(bound) - 1 |-> SubSeq(f, bound[k] + 1, bound[k + 1] - 1)]

(* The reference reader: each physical line is treated on its own by the   *)
(* line rules (strip, continuation backslash, comment), and a continued    *)
(* line is joined with the treated text of the next.                       *)
RECURSIVE JoinLines(_, _, _)
JoinLines(ls, acc, out) ==
  IF ls = <<>> THEN out
  ELSE LET w == acc \o PassLine(Head(ls))
       IN  IF Continues(Head(ls)) /\ Tail(ls) # <<>>
             THEN JoinLines(Tail(ls), w, out)
             ELSE JoinLines(Tail(ls), <<>>, IF w # <<>> THEN Append(out, w) ELSE out)

RefLines(f) == JoinLines(PhysLines(f), <<>>, <<>>)

(* A file that fits the line buffer is read as the reference reads it: the *)
(* "\#" escape and the doubled-backslash rule mean the same in the second *)
(* physical line of a logical line as in the first.                        *)
JoinedLinesMatchReference ==
  pc = "done" /\ result # NULL /\ Len(file) <= LINELENGTH - 2 =>
    textroot = RefLines(file)
=============================================================================
