----------------------------- MODULE MCQueueIO -----------------------------
(* Tasks and their queues for model checking QueueIO.                      *)
EXTENDS QueueIO

CONSTANTS flush, app, mouse

\* Two tasks on the control queue and one on the cursor queue.
MCCalls == [t \in Tasks |-> IF t = mouse THEN {"curs"} ELSE {"ctrl"}]
\* The middle task sends on either queue.
MCMixedCalls == [t \in Tasks |-> IF t = mouse THEN {"curs"} ELSE IF t = app THEN Queues ELSE {"ctrl"}]
=============================================================================
