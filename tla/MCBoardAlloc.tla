--------------------------- MODULE MCBoardAlloc ----------------------------
(* Bounds for model checking BoardAlloc: a board of six granules of two    *)
(* bytes, a word that is large enough for every request, and two tasks.    *)
EXTENDS BoardAlloc

MCSmall == 0..7

\* Sizes at the end of a uint32, for which the sums wrap.
MCHuge == {1, Word - 2, Word - 1}

ASSUME NoWrapSmall == \A size \in MCSmall : size + MemSize + Align < Word
=============================================================================
