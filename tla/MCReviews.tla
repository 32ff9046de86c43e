----------------------------- MODULE MCReviews -----------------------------
(* A runbook that is extracted with one step and again with two. *)
EXTENDS Reviews, TLC
CONSTANTS t1, t2, i1, i2
MCThreads == {t1, t2}
MCIds == {i1, i2}
MCTexts == {"restart", "scale"}
MCExtractions == {<<"restart">>, <<"restart", "scale">>}
MCSymmetry == Permutations(MCThreads) \union Permutations(MCIds)
=============================================================================
