---------------------------- MODULE MCVirtQueue ----------------------------
(* Request shapes for model checking VirtQueue.                            *)
EXTENDS VirtQueue

\* A single buffer, as chip_cursor_send sends, or a pair.
MCSingleOrPair == {<<1, 0>>, <<1, 1>>}
=============================================================================
