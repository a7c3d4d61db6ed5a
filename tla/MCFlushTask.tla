---------------------------- MODULE MCFlushTask ----------------------------
(* Clients for model checking FlushTask.                                   *)
EXTENDS FlushTask

CONSTANTS a, b

\* a sets up the display and waits for vblanks; b draws, switches the power
\* level and asks for the scan line.
MCMixed == [t \in Clients |-> IF t = a THEN {"display", "vsync"}
                                       ELSE {"draw", "dpms", "getY"}]

\* Both clients wait for vblanks.
MCTwoWaiters == [t \in Clients |-> IF t = a THEN {"display", "vsync"} ELSE {"vsync"}]
=============================================================================
