-------------------------- MODULE MC_ConfigReader --------------------------
(* Every environment of the lookup, with every file over the characters    *)
(* the read loop branches on.                                              *)
EXTENDS ConfigReader

MCChars == {"a", " ", "\\", "#", "\n"}

\* The characters of the continuation test: a letter, blank, '\' and newline.
MCLineChars == {"a", " ", "\\", "\n"}

\* One environment: only /etc/make.conf exists.
MCEtcOnly == {[path |-> FALSE, exclusive |-> FALSE, exists |-> {"etc"},
               cwd_ok |-> TRUE, home_set |-> TRUE]}
=============================================================================
