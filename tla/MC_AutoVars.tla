---------------------------- MODULE MC_AutoVars ----------------------------
(* Prerequisite lists of up to MaxDeps entries over three names: a plain   *)
(* one, one with a blank (escaped, so one byte longer) and an archive      *)
(* member reference; two targets, one of them an archive member.           *)
EXTENDS AutoVars

MCNames   == {<<"a">>, <<"a", " ", "b">>, <<"l", "(", "a", ")">>}
MCTargets == {<<"a", ".", "c">>, <<"l", "(", "a", ".", "c", ")">>}
MCStems   == {NULL, <<"s">>}
MCSuffixList == << <<"c">>, <<".", "c">> >>
=============================================================================
