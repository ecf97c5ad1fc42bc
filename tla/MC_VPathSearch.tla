--------------------------- MODULE MC_VPathSearch ---------------------------
(* Two directories, a pattern that matches the file and one that does not, *)
(* at most two selective lists, each list one or two directories long.    *)
EXTENDS VPathSearch

CONSTANTS d1, d2, pm, po

MCDirs     == {d1, d2}
MCPatterns == {pm, po}
MCMatching == {pm}
MCDirSeqs  == {<<d1, d2>>, <<d2>>}
MCDbMtimes == {"old", "stamp"}
=============================================================================
