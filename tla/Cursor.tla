------------------------------- MODULE Cursor -------------------------------
(***************************************************************************)
(* The hardware cursor: the sprite callbacks of src/chip/chip_p96.c on top *)
(* of the cursor commands of src/chip/chip_gpu_cmds.c.  One task sets the  *)
(* picture and the mode, another moves the pointer; only the cursor queue  *)
(* and its one command buffer are behind a lock (cursor_lock), the rest of *)
(* the cursor's state is not.  Positions have one coordinate.              *)
(*                                                                         *)
(* The device reads a command from the buffer when it gets to it, and the  *)
(* sender looks at one completion for each time it is woken.  Of a picture *)
(* the model keeps whether it is the one drawn last.                       *)
(***************************************************************************)
EXTENDS Integers, Sequences, SequencesExt, FiniteSets

CONSTANTS
    Tasks,      \* the picture setter and the pointer mover
    Painter,
    Mover,
    Modes,      \* widths of the modes
    Positions,  \* of the mouse
    Offsets,    \* panned origins
    MouseWidth,
    QueueNum,   \* entries of the cursor queue
    MaxGiveUp,  \* waits that end without the completion
    MaxFail,    \* allocations and control commands that fail
    None

ASSUME CursorAssumption ==
    /\ Tasks = {Painter, Mover} /\ Painter # Mover
    /\ Modes \subseteq Nat \ {0} /\ Modes # {}
    /\ Positions \subseteq Nat /\ Positions # {}
    /\ Offsets \subseteq Int /\ 0 \in Offsets
    /\ MouseWidth \in Nat \ {0} /\ QueueNum \in Nat \ {0}
    /\ MaxGiveUp \in Nat /\ MaxFail \in Nat
    /\ None \notin Tasks

VARIABLES
    bi,         \* BoardInfo: ModeInfo->Width, XOffset, MouseX
    gs,         \* cursor fields of ChipGPUState; buf: there is cursor_mem
    task,       \* [Tasks -> where its call is, with its locals]
    lock,       \* holder of cursor_lock
    irq,        \* queue bit of the ISR register
    woken,      \* the signal of the one that waits is set
    cmdbuf,     \* contents of cursor_cmd_buf
    avail,      \* published entries: the caller, and whether the buffer has
                \* held its command since
    used,       \* cookies of completed entries
    host,       \* the device: resource 2, whether the picture in it and the
                \* one shown are the one drawn last, the position shown
    gaveUp,
    failed,
    hist        \* history: the last command was dropped; the callbacks in
                \* progress have overlapped; so had those when the last
                \* position was recorded

ring == <<irq, woken, avail, used>>
vars == <<bi, gs, task, lock, cmdbuf, ring, host, gaveUp, failed, hist>>

Larger(a, b) == IF a < b THEN b ELSE a

\* "VirtIO GPU cursor positions are unsigned": negatives become 0.
Unsigned(p) == Larger(p, 0)

At(t, pc) == task[t].pc = pc
Goto(t, pc) == task' = [task EXCEPT ![t].pc = pc]

\* Back in the caller, or where the send was called from: its locals are gone.
NoCall == [pc |-> "idle", type |-> "MOVE", pos |-> 0, vx |-> 0, next |-> "idle"]
Return(t) == task' = [task EXCEPT ![t] = NoCall]
Resume(t) == task' = [task EXCEPT ![t] = [NoCall EXCEPT !.pc = task[t].next, !.vx = task[t].vx]]
-----------------------------------------------------------------------------
(* chip_cursor_send, and the device.                                       *)

\* Enter it with a command; continue at pc "next" once it is over.
Sending(t, type, pos, next) ==
    task' = [task EXCEPT ![t] = [@ EXCEPT !.pc = "lock", !.type = type, !.pos = pos, !.next = next]]

\* Take the lock and drain what has completed.
SendBegin(t) ==
    /\ At(t, "lock")
    /\ lock = None
    /\ lock' = t
    /\ used' = <<>>
    /\ Goto(t, "fill")
    /\ UNCHANGED <<bi, gs, cmdbuf, irq, woken, avail, host, gaveUp, failed, hist>>

\* Entries the device has not taken up when the buffer is filled again.
Overwritten == [i \in 1..Len(avail) |-> [avail[i] EXCEPT !.intact = FALSE]]

\* Fill in the buffer, publish it in the queue and kick; a full queue drops
\* the command.
SendSubmit(t) ==
    /\ At(t, "fill")
    /\ cmdbuf' = [type |-> task[t].type, pos |-> task[t].pos]
    /\ \/ /\ Len(avail) + Len(used) < QueueNum
          /\ avail' = Append(Overwritten, [by |-> t, intact |-> TRUE])
          /\ task' = [task EXCEPT ![t] = [NoCall EXCEPT !.pc = "arm", !.next = task[t].next, !.vx = task[t].vx]]
          /\ hist' = [hist EXCEPT !.dropped = FALSE]
          /\ UNCHANGED lock
       \/ /\ Len(avail) + Len(used) >= QueueNum
          /\ lock' = None
          /\ Resume(t)
          /\ hist' = [hist EXCEPT !.dropped = TRUE]
          /\ avail' = Overwritten
    /\ UNCHANGED <<bi, gs, irq, woken, used, host, gaveUp, failed>>

\* Mutant: the first GetBuf is after the first Wait.
FirstSleeps == "sleep"

FirstLooks == "look"

\* Clear the signal and publish the waiter; or no interrupt handler, or no
\* signal, and it polls.
SendArm(t) ==
    /\ At(t, "arm")
    /\ woken' = FALSE
    /\ Goto(t, FirstLooks) \/ Goto(t, "poll")
    /\ UNCHANGED <<bi, gs, lock, cmdbuf, irq, avail, used, host, gaveUp, failed, hist>>

\* GetBuf returns the cookie, which is the task.
Answered(t) == used # <<>> /\ Head(used) = t

SendDone(t) ==
    /\ At(t, "look") \/ At(t, "poll")
    /\ Answered(t)
    /\ used' = Tail(used)
    /\ woken' = FALSE
    /\ lock' = None
    /\ Resume(t)
    /\ UNCHANGED <<bi, gs, cmdbuf, irq, avail, host, gaveUp, failed, hist>>

\* GetBuf returns nothing, or the cookie of a call that gave up: to Wait, or
\* to the next poll.
SendMiss(t) ==
    /\ \/ At(t, "look")
       \/ At(t, "poll") /\ used # <<>>
    /\ ~Answered(t)
    /\ used' = IF used = <<>> THEN <<>> ELSE Tail(used)
    /\ Goto(t, IF At(t, "look") THEN "sleep" ELSE "poll")
    /\ UNCHANGED <<bi, gs, lock, cmdbuf, irq, woken, avail, host, gaveUp, failed, hist>>

\* Wait returns, SetSignal clears the signal again, and it looks once.  (A
\* signal in between is wiped, as it is when it comes before Wait returns.)
SendWake(t) ==
    /\ At(t, "sleep")
    /\ woken
    /\ woken' = FALSE
    /\ Goto(t, "look")
    /\ UNCHANGED <<bi, gs, lock, cmdbuf, irq, avail, used, host, gaveUp, failed, hist>>

\* The last of fifty wakeups, or of the polls, was without it; what has
\* completed by then is drained.
SendTimeout(t) ==
    /\ \/ At(t, "sleep") /\ woken
       \/ At(t, "poll") /\ ~Answered(t)
    /\ gaveUp < MaxGiveUp
    /\ gaveUp' = gaveUp + 1
    /\ used' = <<>>
    /\ woken' = FALSE
    /\ lock' = None
    /\ Resume(t)
    /\ UNCHANGED <<bi, gs, cmdbuf, irq, avail, host, failed, hist>>

\* The device takes up a command: MOVE_CURSOR sets the position,
\* UPDATE_CURSOR also copies the picture out of the resource.
DeviceCursor ==
    /\ avail # <<>>
    /\ host' = [host EXCEPT !.pos = cmdbuf.pos,
                            !.shown = IF cmdbuf.type = "UPDATE" THEN host.image ELSE @]
    /\ used' = Append(used, Head(avail).by)
    /\ avail' = Tail(avail)
    /\ irq' = TRUE
    /\ UNCHANGED <<bi, gs, task, lock, cmdbuf, woken, gaveUp, failed, hist>>

\* The control queue shares the interrupt.
DeviceControl ==
    /\ irq' = TRUE
    /\ UNCHANGED <<bi, gs, task, lock, cmdbuf, woken, avail, used, host, gaveUp, failed, hist>>

Waiting(t) == At(t, "look") \/ At(t, "sleep")

\* Reading the ISR clears it; a published waiter is signalled.
chip_InterruptHandler ==
    /\ irq
    /\ irq' = FALSE
    /\ woken' = (woken \/ \E t \in Tasks : Waiting(t))
    /\ UNCHANGED <<bi, gs, task, lock, cmdbuf, avail, used, host, gaveUp, failed, hist>>
-----------------------------------------------------------------------------
(* chip_SetSpriteImage, chip_CursorCreate and chip_CursorUpdate.           *)

\* A callback begins: from here on those in progress overlap, or it is alone.
Overlaps(other) == hist' = [hist EXCEPT !.overlap = ~At(other, "idle")]

SetSpriteImage ==
    /\ At(Painter, "idle")
    /\ Goto(Painter, IF gs.created THEN "draw" ELSE "create")
    /\ Overlaps(Mover)
    /\ UNCHANGED <<bi, gs, lock, cmdbuf, ring, host, gaveUp, failed>>

\* Mutant: the buffer is kept when the device refuses the backing.
FreedOnRefusalKeeps(buf) == TRUE

FreedOnRefusal(buf) == FALSE

\* The device refuses a resource that exists.
CreateRefused == host.res # "none"

chip_CursorCreate ==
    /\ At(Painter, "create")
    /\ \/ /\ ~CreateRefused
          /\ gs' = [gs EXCEPT !.buf = TRUE, !.created = TRUE]
          /\ host' = [host EXCEPT !.res = "backed"]
          /\ Goto(Painter, "draw")
          /\ UNCHANGED failed
       \/ /\ CreateRefused
          /\ Return(Painter)
          /\ UNCHANGED <<gs, host, failed>>
       \/ /\ failed < MaxFail
          /\ failed' = failed + 1
          /\ Return(Painter)
          /\ \/ UNCHANGED <<gs, host>>           \* no memory, no list, no resource
             \/ /\ ~CreateRefused                \* no backing
                /\ host' = [host EXCEPT !.res = "bare"]
                /\ gs' = [gs EXCEPT !.buf = FreedOnRefusal(@)]
    /\ UNCHANGED <<bi, lock, cmdbuf, ring, gaveUp, hist>>

\* The buffer is cleared, then drawn if there is a picture; the position is
\* that of the mouse on the panned screen, not clamped.
Draw ==
    /\ At(Painter, "draw")
    /\ \/ /\ Return(Painter)                     \* MouseWidth 0 or no MouseImage
          /\ UNCHANGED <<gs, host>>
       \/ /\ gs' = [gs EXCEPT !.x = bi.mouse - bi.xoff]
          /\ host' = [host EXCEPT !.image = "old", !.shown = "old"]
          /\ Goto(Painter, "update")
    /\ UNCHANGED <<bi, lock, cmdbuf, ring, gaveUp, failed, hist>>

Transferred == "last"

\* The position is read here and the picture transferred; a failure of the
\* transfer is not noticed.
chip_CursorUpdate ==
    /\ At(Painter, "update")
    /\ Sending(Painter, "UPDATE", Unsigned(gs.x), "record")
    /\ \/ /\ host' = [host EXCEPT !.image = Transferred]
          /\ UNCHANGED failed
       \/ /\ failed < MaxFail
          /\ failed' = failed + 1
          /\ UNCHANGED host
    /\ UNCHANGED <<bi, gs, lock, cmdbuf, ring, gaveUp, hist>>

\* cursor_last_sent is read from cursor_x again, after the command.
CursorUpdateRecord ==
    /\ At(Painter, "record")
    /\ gs' = [gs EXCEPT !.last_sent = gs.x]
    /\ hist' = [hist EXCEPT !.drift = hist.overlap]
    /\ Return(Painter)
    /\ UNCHANGED <<bi, lock, cmdbuf, ring, host, gaveUp, failed>>

\* chip_SetGC to a mode of another size; the mouse still has its old place.
SetGC ==
    /\ At(Painter, "idle")
    /\ \E w \in Modes \ {bi.width} : bi' = [bi EXCEPT !.width = w]
    /\ gs' = [gs EXCEPT !.needs_refresh = TRUE]
    /\ UNCHANGED <<task, lock, cmdbuf, ring, host, gaveUp, failed, hist>>

SetPanning ==
    /\ At(Painter, "idle")
    /\ \E o \in Offsets : bi' = [bi EXCEPT !.xoff = o]
    /\ UNCHANGED <<gs, task, lock, cmdbuf, ring, host, gaveUp, failed, hist>>
-----------------------------------------------------------------------------
(* chip_SetSpritePosition and chip_CursorMove.                             *)

\* Not beyond the mode, and the sprite not wholly off the left edge.
Clamp(p) == Larger(IF p > bi.width THEN bi.width ELSE p, 1 - MouseWidth)

MustMove(p) == gs.needs_refresh /\ gs.created /\ p # gs.last_sent

SetSpritePosition ==
    /\ At(Mover, "idle")
    /\ \E x \in Positions :
         LET vx == Clamp(x - bi.xoff)
         IN /\ bi' = [bi EXCEPT !.mouse = x]
            /\ gs' = [gs EXCEPT !.x = vx]
            /\ IF MustMove(vx)
               THEN task' = [task EXCEPT ![Mover].pc = "move", ![Mover].vx = vx]
               ELSE UNCHANGED task
    /\ Overlaps(Painter)
    /\ UNCHANGED <<lock, cmdbuf, ring, host, gaveUp, failed>>

chip_CursorMove ==
    /\ At(Mover, "move")
    /\ gs' = [gs EXCEPT !.x = task[Mover].vx]
    /\ Sending(Mover, "MOVE", Unsigned(task[Mover].vx), "moved")
    /\ UNCHANGED <<bi, lock, cmdbuf, ring, host, gaveUp, failed, hist>>

\* Mutant: what was sent is not recorded.
RecordedNot == gs.last_sent

Recorded == task[Mover].vx

\* The position, a local of the call, is recorded and the request is met.
Moved ==
    /\ At(Mover, "moved")
    /\ gs' = [gs EXCEPT !.last_sent = Recorded, !.needs_refresh = FALSE]
    /\ hist' = [hist EXCEPT !.drift = hist.overlap]
    /\ Return(Mover)
    /\ UNCHANGED <<bi, lock, cmdbuf, ring, host, gaveUp, failed>>
-----------------------------------------------------------------------------
Init ==
    /\ \E w \in Modes, x \in Positions : bi = [width |-> w, xoff |-> 0, mouse |-> x]
    /\ gs = [created |-> FALSE, buf |-> FALSE, x |-> -1, last_sent |-> 0, needs_refresh |-> FALSE]
    /\ task = [t \in Tasks |-> NoCall]
    /\ lock = None
    /\ cmdbuf = [type |-> "MOVE", pos |-> 0]
    /\ avail = <<>> /\ used = <<>> /\ irq = FALSE /\ woken = FALSE
    /\ host = [res |-> "none", image |-> "last", pos |-> 0, shown |-> "last"]
    /\ gaveUp = 0 /\ failed = 0
    /\ hist = [dropped |-> FALSE, overlap |-> FALSE, drift |-> FALSE]

Send(t) ==
    \/ SendBegin(t) \/ SendSubmit(t) \/ SendArm(t)
    \/ SendDone(t) \/ SendMiss(t) \/ SendWake(t) \/ SendTimeout(t)

InCall(t) ==
    \/ Send(t)
    \/ /\ t = Painter
       /\ chip_CursorCreate \/ Draw \/ chip_CursorUpdate \/ CursorUpdateRecord
    \/ /\ t = Mover
       /\ chip_CursorMove \/ Moved

Next ==
    \/ \E t \in Tasks : InCall(t)
    \/ SetSpriteImage \/ SetGC \/ SetPanning
    \/ SetSpritePosition
    \/ DeviceCursor \/ DeviceControl \/ chip_InterruptHandler

Spec == Init /\ [][Next]_vars

\* Calls that have begun go on; a task that is refused the lock gets it if it
\* is released again and again (the mutex queues its waiters); the device
\* takes up commands and its interrupts are served.  Nothing is assumed of the
\* control queue's interrupts.
FairSpec ==
    /\ Spec
    /\ \A t \in Tasks : SF_vars(SendBegin(t)) /\ WF_vars(InCall(t))
    /\ WF_vars(DeviceCursor) /\ WF_vars(chip_InterruptHandler)
-----------------------------------------------------------------------------
(* Properties.                                                             *)

\* The state is well-typed, and the queue holds no more than it has entries.
TypeOK ==
    /\ bi \in [width : Modes, xoff : Offsets, mouse : Positions]
    /\ \A p \in {gs.x, gs.last_sent} : p \in Int
    /\ \A t \in Tasks : task[t].pc \in {"idle", "create", "draw", "update", "record", "move",
                                         "moved", "lock", "fill", "arm", "look", "sleep", "poll"}
    /\ lock \in Tasks \cup {None}
    /\ \A t \in Tasks : lock = t <=> task[t].pc \in {"fill", "arm", "look", "sleep", "poll"}
    /\ Len(avail) <= QueueNum
    /\ cmdbuf.pos \in Nat
    /\ host.res \in {"none", "bare", "backed"}
    /\ {host.image, host.shown} \subseteq {"last", "old"}

\* Driver and device agree on the cursor resource after every outcome of
\* chip_CursorCreate: a cursor that counts as created has memory and a
\* resource backed by it, and one that does not has neither.
CreatedMeansBacked ==
    /\ gs.created <=> host.res = "backed"
    /\ gs.created <=> gs.buf

\* "Rapid MOVE_CURSOR calls can overwrite cursor_cmd_buf while the GPU is
\* still reading the previous command": unless a wait was given up, the buffer
\* has held the command of every entry the device has still to take up.
CommandIntact ==
    gaveUp = 0 => \A i \in 1..Len(avail) : avail[i].intact

\* The driver knows what the device has and what it may still read.
CursorKnown == TypeOK /\ CreatedMeansBacked /\ CommandIntact

Quiet == avail = <<>> /\ \A t \in Tasks : At(t, "idle")

\* When no callback is in progress and nothing is left to take up, the device
\* shows the cursor where the last command said, in every interleaving and
\* whatever was given up (late entries read the newest command), unless that
\* command was dropped.  That is where cursor_last_sent says, which is what
\* spares the refresh after a mode change, unless callbacks overlapped when
\* it was recorded (sending and recording are not one step); the next
\* callback that is alone sets it right.  The picture shown is the one drawn
\* last if no wait was given up and no transfer failed.
ShowsLast ==
    (Quiet /\ ~hist.dropped) =>
    /\ host.pos = cmdbuf.pos
    /\ ~hist.drift => host.pos = Unsigned(gs.last_sent)
    /\ gaveUp = 0 /\ failed = 0 => host.shown = "last"

\* "... drifted from what the GPU is showing": cursor_last_sent is where the
\* device shows the cursor, overlapping callbacks or not.
LastSentShown == (Quiet /\ ~hist.dropped) => host.pos = Unsigned(gs.last_sent)

\* Its answer is in the ring and nothing is going to wake it.
Stranded(t) == At(t, "sleep") /\ Contains(used, t) /\ ~woken /\ ~irq

\* Every sprite callback returns: no completion is missed between the last
\* look and Wait, the lock is released on every way out, and neither task
\* keeps the other waiting.  The one exception comes after a wait was given
\* up: its completion wakes a later sender, which takes one entry off the ring
\* and sleeps on, its own answer behind it.
CallsReturn ==
    \/ \A t \in Tasks : []<>At(t, "idle")
    \/ <>[](gaveUp > 0 /\ \E t \in Tasks : Stranded(t))

\* "Drain any stale responses on timeout to keep the queue healthy": every
\* callback returns after a wait was given up, too.
CallsAlwaysReturn == \A t \in Tasks : []<>At(t, "idle")
=============================================================================
