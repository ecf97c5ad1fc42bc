-------------------------- MODULE MC_DefaultRules --------------------------
(* Configurations of up to NLines lines over the characters the line tests *)
(* branch on; "S" is the keyword .SUFFIXES.                                *)
EXTENDS DefaultRules

\* The characters the rule, suffix and variable tests branch on.
MCChars == {".", ":", "%", "=", " ", "S", "\t"}

\* Lines for the variable names: a letter, ':', '=' and a blank.
MCVarChars == {"a", ":", "=", " "}

MCAllFlags  == [rules: BOOLEAN, variables: BOOLEAN]
MCNoFlags   == {[rules |-> FALSE, variables |-> FALSE]}
=============================================================================
