--------------------------- MODULE RequestQueue ---------------------------
(***************************************************************************)
(* What VirtQueue_AddBuf and VirtQueue_GetBuf promise their callers: a     *)
(* request that is submitted reaches the device once, in the order of      *)
(* submission and as it was submitted; the device finishes requests in any *)
(* order; and GetBuf hands back the cookie of each one once, in the order  *)
(* of completion.  A request is known by its head, which is not used again *)
(* before GetBuf has returned it.                                          *)
(***************************************************************************)
EXTENDS Naturals, Sequences

CONSTANTS
    Tickets,   \* the requests: id, cookie and list of buffers
    Stray,     \* what the device puts in the used ring by mistake
    Nothing,   \* GetBuf is not returning anything
    Limit      \* the number of descriptors

VARIABLES
    given,     \* submitted, not fetched: oldest first
    working,   \* the device reads them or works on them
    done,      \* finished, not returned: oldest first
    returned   \* what GetBuf is returning

queueVars == <<given, working, done, returned>>

Ids == {given[i].id : i \in 1..Len(given)}
         \cup {x.id : x \in working}
         \cup {done[i].id : i \in 1..Len(done)}

Init == given = <<>> /\ working = {} /\ done = <<>> /\ returned = Nothing

\* The driver is in one function at a time, so nothing is being returned.
Submit(x) ==
    /\ x.id \notin Ids
    /\ Len(given) < Limit
    /\ returned = Nothing
    /\ given' = Append(given, x)
    /\ UNCHANGED <<working, done, returned>>

Start ==
    /\ given # <<>>
    /\ given' = Tail(given)
    /\ working' = working \cup {Head(given)}
    /\ UNCHANGED <<done, returned>>

Finish(x) ==
    /\ x \in working
    /\ Len(done) < Limit
    /\ working' = working \ {x}
    /\ done' = Append(done, x)
    /\ UNCHANGED <<given, returned>>

Disturb ==
    /\ Len(done) < Limit
    /\ done' = Append(done, Stray)
    /\ UNCHANGED <<given, working, returned>>

Skip ==
    /\ done # <<>>
    /\ Head(done) = Stray
    /\ done' = Tail(done)
    /\ UNCHANGED <<given, working, returned>>

Return ==
    /\ done # <<>>
    /\ Head(done) # Stray
    /\ returned = Nothing
    /\ returned' = [id |-> Head(done).id, cookie |-> Head(done).cookie]
    /\ done' = Tail(done)
    /\ UNCHANGED <<given, working>>

Leave ==
    /\ returned # Nothing
    /\ returned' = Nothing
    /\ UNCHANGED <<given, working, done>>

Next ==
    \/ \E x \in Tickets : Submit(x) \/ Finish(x)
    \/ Start \/ Disturb \/ Skip \/ Return \/ Leave

Spec == Init /\ [][Next]_queueVars
=============================================================================
