------------------------------ MODULE MCCursor ------------------------------
(* Instances of Cursor for TLC: one place of the mouse, which two panned    *)
(* origins make 2 or -1, and a queue of two, that two waits given up fill.  *)
(* MCCursorStale.cfg and MCCursorDrift.cfg state what comments in the code  *)
(* promise and TLC refutes.                                                 *)
EXTENDS Cursor

MCTasks == {Painter, Mover}
=============================================================================
