---------------------------- MODULE MC_VPathHost ----------------------------
(* Native lists of up to MaxLen characters.                                *)
EXTENDS VPathHost

\* Lists of names that may end in a backslash: no double quotes.
MCPlainChars == {"a", " ", ";", "\\"}

=============================================================================
