------------------------------ MODULE QueueIO ------------------------------
(***************************************************************************)
(* Synchronous commands over the two virtqueues: chip_do_io and            *)
(* chip_wait_ctrlq on the control queue, chip_cursor_send on the cursor    *)
(* queue, and the interrupt handler chip_InterruptHandler that serves both *)
(* (chip_gpu_cmds.c, chip_irq.c).  A queue is abstracted to the requests   *)
(* in it; VirtQueue models its descriptors.                                *)
(*                                                                         *)
(* Every command of a queue is built in the same buffer and answered in    *)
(* the same buffer, the cookie of a request is the calling task, and a     *)
(* call may give up before the device has answered.                        *)
(***************************************************************************)
EXTENDS Integers, Sequences

CONSTANTS
    Tasks,
    Calls,          \* Calls[t]: the queues task t sends commands on
    MaxCmds,        \* bound: commands per task
    Attempts,       \* Wait bursts before a timeout (50)
    PollLimit,      \* polls before a timeout (1000000 / 50000)
    Capacity,       \* requests that fit in a queue
    Irq,            \* gs->irq_installed
    SignalMayFail,  \* AllocSignal(-1) may return -1
    None

Queues == {"ctrl", "curs"}

ASSUME QueueIOAssumption ==
    /\ Calls \in [Tasks -> SUBSET Queues]
    /\ MaxCmds \in Nat
    /\ Attempts \in Nat \ {0}
    /\ PollLimit \in Nat \ {0}
    /\ Capacity \in Nat \ {0}
    /\ Irq \in BOOLEAN
    /\ SignalMayFail \in BOOLEAN
    /\ None \notin Tasks

VARIABLES
    lock,        \* io_lock and cursor_lock
    cmd_buf,     \* cmd_buf and cursor_cmd_buf: the command they hold
    resp_buf,    \* the command the response in resp_buf answers
    avail,       \* requests the device has not started
    used,        \* requests it has finished and GetBuf has not taken
    dev,         \* the request it is working on, and the command it read
    isr,         \* queue bit of the ISR register
    wait_task,   \* ctrlq_wait_task, cursorq_wait_task
    wait_mask,   \* ctrlq_wait_mask, cursorq_wait_mask: whose bit, or None
    sigbit,      \* tasks that have a signal bit allocated
    signalled,   \* tasks whose bit is set
    pc, call,    \* control and locals of each task
    executed,    \* history: how often the device carried out each command
    stray        \* history: a Signal went to a bit its task had freed

buffers == <<cmd_buf, resp_buf>>
rings == <<avail, used, dev>>
waiting == <<wait_task, wait_mask, sigbit, signalled>>
vars == <<lock, buffers, rings, isr, waiting, pc, call, executed, stray>>
-----------------------------------------------------------------------------
Commands == Tasks \X (1..MaxCmds)

\* A request: the task as cookie, and the command it was submitted for.
Request(t) == [cookie |-> t, cmd |-> <<t, call[t].n>>]

NoWork == [req |-> None, cmd |-> None]
Outstanding(q) ==
    Len(avail[q]) + Len(used[q]) + (IF dev[q] = NoWork THEN 0 ELSE 1)

Goto(t, l) == pc' = [pc EXCEPT ![t] = l]

Init ==
    /\ lock = [q \in Queues |-> None]
    /\ cmd_buf = [q \in Queues |-> None]
    /\ resp_buf = None
    /\ avail = [q \in Queues |-> <<>>]
    /\ used = [q \in Queues |-> <<>>]
    /\ dev = [q \in Queues |-> NoWork]
    /\ isr = FALSE
    /\ wait_task = [q \in Queues |-> None]
    /\ wait_mask = [q \in Queues |-> None]
    /\ sigbit = {}
    /\ signalled = {}
    /\ pc = [t \in Tasks |-> "idle"]
    /\ call = [t \in Tasks |-> [q |-> "ctrl", n |-> 0, left |-> 0, ok |-> FALSE]]
    /\ executed = [c \in Queues \X Commands |-> 0]
    /\ stray = FALSE
-----------------------------------------------------------------------------
(* The caller: lock, fill the buffer, AddBuf and notify.                   *)

Begin(t, q) ==
    /\ pc[t] = "idle"
    /\ q \in Calls[t]
    /\ call[t].n < MaxCmds
    /\ call' = [call EXCEPT ![t] = [q |-> q, n |-> @.n + 1, left |-> 0, ok |-> FALSE]]
    /\ Goto(t, "lock")
    /\ UNCHANGED <<lock, buffers, rings, isr, waiting, executed, stray>>

\* Mutant: the mutex is not waited for.
LockIgnored(q) == TRUE

LockFree(q) == lock[q] = None

Obtain(t) ==
    LET q == call[t].q IN
    /\ pc[t] = "lock"
    /\ LockFree(q)
    /\ lock' = [lock EXCEPT ![q] = t]
    /\ Goto(t, IF q = "curs" THEN "predrain" ELSE "fill")
    /\ UNCHANGED <<buffers, rings, isr, waiting, call, executed, stray>>

\* chip_cursor_send takes old completions off the ring before it starts.
PreDrain(t) ==
    LET q == call[t].q IN
    /\ pc[t] = "predrain"
    /\ \/ /\ used[q] # <<>>
          /\ used' = [used EXCEPT ![q] = Tail(@)]
          /\ pc' = pc
       \/ /\ used[q] = <<>>
          /\ Goto(t, "fill")
          /\ used' = used
    /\ UNCHANGED <<lock, buffers, avail, dev, isr, waiting, call, executed, stray>>

Fill(t) ==
    LET q == call[t].q IN
    /\ pc[t] = "fill"
    /\ cmd_buf' = [cmd_buf EXCEPT ![q] = <<t, call[t].n>>]
    /\ resp_buf' = IF q = "ctrl" THEN None ELSE resp_buf
    /\ Goto(t, "submit")
    /\ UNCHANGED <<lock, rings, isr, waiting, call, executed, stray>>

\* Mutant: a cursor command is sent without waiting for the device.
AfterSubmitNoWait(q) == IF q = "curs" THEN "reply" ELSE "arm"

AfterSubmit(q) == "arm"

\* VirtQueue_AddBuf; a full queue ends the call with an error.
Submit(t) ==
    LET q == call[t].q IN
    /\ pc[t] = "submit"
    /\ IF Outstanding(q) < Capacity
       THEN /\ avail' = [avail EXCEPT ![q] = Append(@, Request(t))]
            /\ Goto(t, AfterSubmit(q))
       ELSE /\ Goto(t, "reply")
            /\ avail' = avail
    /\ UNCHANGED <<lock, buffers, used, dev, isr, waiting, call, executed, stray>>
-----------------------------------------------------------------------------
(* chip_wait_ctrlq, and the same protocol in chip_cursor_send.             *)

\* AllocSignal and SetSignal(0, mask).
Arm(t) ==
    /\ pc[t] = "arm"
    /\ Irq
    /\ sigbit' = sigbit \cup {t}
    /\ signalled' = signalled \ {t}
    /\ Goto(t, "pubTask")
    /\ UNCHANGED <<lock, buffers, rings, isr, wait_task, wait_mask, call, executed,
                   stray>>

\* Publish the waiter: the task first, then the mask.
PublishTask(t) ==
    /\ pc[t] = "pubTask"
    /\ wait_task' = [wait_task EXCEPT ![call[t].q] = t]
    /\ Goto(t, "pubMask")
    /\ UNCHANGED <<lock, buffers, rings, isr, wait_mask, sigbit, signalled, call,
                   executed, stray>>

PublishMask(t) ==
    /\ pc[t] = "pubMask"
    /\ wait_mask' = [wait_mask EXCEPT ![call[t].q] = t]
    /\ call' = [call EXCEPT ![t].left = Attempts]
    /\ Goto(t, "loop")
    /\ UNCHANGED <<lock, buffers, rings, isr, wait_task, sigbit, signalled, executed,
                   stray>>

\* One GetBuf: TRUE with the request taken, or nothing there.
GetBuf(q) ==
    used' = IF used[q] = <<>> THEN used ELSE [used EXCEPT ![q] = Tail(@)]
Mine(t, q) == used[q] # <<>> /\ Head(used[q]).cookie = t

\* Mutant: an attempt costs nothing.
SpentNothing(left) == left

Exhausted(left) == left = 0
Spent(left) == left - 1

\* while (wait_attempts-- > 0): GetBuf, then Wait unless it was ours.
Loop(t) ==
    LET q == call[t].q IN
    /\ pc[t] = "loop"
    /\ IF Exhausted(call[t].left)
       THEN /\ Goto(t, "retractMask")
            /\ UNCHANGED <<used, call>>
       ELSE /\ GetBuf(q)
            /\ call' = [call EXCEPT ![t].left = Spent(@), ![t].ok = Mine(t, q)]
            /\ Goto(t, IF Mine(t, q) THEN "retractMask" ELSE "sleep")
    /\ UNCHANGED <<lock, buffers, avail, dev, isr, waiting, executed, stray>>

\* Wait(sig_mask) returns and takes the signal.
Wake(t) ==
    /\ pc[t] = "sleep"
    /\ t \in signalled
    /\ signalled' = signalled \ {t}
    /\ Goto(t, "clear")
    /\ UNCHANGED <<lock, buffers, rings, isr, wait_task, wait_mask, sigbit, call,
                   executed, stray>>

\* SetSignal(0, sig_mask), which wipes a signal that came in since.
ClearSignal(t) ==
    /\ pc[t] = "clear"
    /\ signalled' = signalled \ {t}
    /\ Goto(t, "loop")
    /\ UNCHANGED <<lock, buffers, rings, isr, wait_task, wait_mask, sigbit, call,
                   executed, stray>>

\* Retract the waiter: the mask first, then the task; then FreeSignal.
RetractMask(t) ==
    /\ pc[t] = "retractMask"
    /\ wait_mask' = [wait_mask EXCEPT ![call[t].q] = None]
    /\ Goto(t, "retractTask")
    /\ UNCHANGED <<lock, buffers, rings, isr, wait_task, sigbit, signalled, call,
                   executed, stray>>

Retracted(t) == [wait_task EXCEPT ![call[t].q] = None]

RetractTask(t) ==
    /\ pc[t] = "retractTask"
    /\ wait_task' = Retracted(t)
    /\ sigbit' = sigbit \ {t}
    /\ signalled' = signalled \ {t}
    /\ Goto(t, IF call[t].ok THEN "reply" ELSE "drain")
    /\ UNCHANGED <<lock, buffers, rings, isr, wait_mask, call, executed, stray>>

\* No interrupt handler, or no signal bit: poll.
ArmPoll(t) ==
    /\ pc[t] = "arm"
    /\ ~Irq \/ SignalMayFail
    /\ call' = [call EXCEPT ![t].left = PollLimit]
    /\ Goto(t, "poll")
    /\ UNCHANGED <<lock, buffers, rings, isr, waiting, executed, stray>>

Poll(t) ==
    LET q == call[t].q IN
    /\ pc[t] = "poll"
    /\ IF Exhausted(call[t].left)
       THEN /\ Goto(t, "drain")
            /\ UNCHANGED <<used, call>>
       ELSE /\ GetBuf(q)
            /\ call' = [call EXCEPT ![t].left = Spent(@), ![t].ok = Mine(t, q)]
            /\ Goto(t, IF Mine(t, q) THEN "reply" ELSE "poll")
    /\ UNCHANGED <<lock, buffers, avail, dev, isr, waiting, executed, stray>>

\* After a timeout: take every completion that is there.  The limit of 257
\* is above the capacity of the ring.
Drain(t) ==
    LET q == call[t].q IN
    /\ pc[t] = "drain"
    /\ \/ /\ used[q] # <<>>
          /\ used' = [used EXCEPT ![q] = Tail(@)]
          /\ pc' = pc
       \/ /\ used[q] = <<>>
          /\ Goto(t, "reply")
          /\ used' = used
    /\ UNCHANGED <<lock, buffers, avail, dev, isr, waiting, call, executed, stray>>

\* The caller looks at resp_buf and releases the lock.
Reply(t) ==
    /\ pc[t] = "reply"
    /\ lock' = [lock EXCEPT ![call[t].q] = None]
    /\ Goto(t, "idle")
    /\ UNCHANGED <<buffers, rings, isr, waiting, call, executed, stray>>
-----------------------------------------------------------------------------
(* The device (external) reads the command buffer when it gets to the      *)
(* request, carries the command out and answers in the response buffer.    *)
DevStart(q) ==
    /\ dev[q] = NoWork
    /\ avail[q] # <<>>
    /\ dev' = [dev EXCEPT ![q] = [req |-> Head(avail[q]), cmd |-> cmd_buf[q]]]
    /\ avail' = [avail EXCEPT ![q] = Tail(@)]
    /\ UNCHANGED <<lock, buffers, used, isr, waiting, pc, call, executed, stray>>

DevFinish(q) ==
    /\ dev[q] # NoWork
    /\ resp_buf' = IF q = "ctrl" THEN dev[q].cmd ELSE resp_buf
    /\ used' = [used EXCEPT ![q] = Append(@, dev[q].req)]
    /\ dev' = [dev EXCEPT ![q] = NoWork]
    /\ executed' = [executed EXCEPT ![<<q, dev[q].cmd>>] = @ + 1]
    /\ isr' = TRUE
    /\ UNCHANGED <<lock, cmd_buf, avail, waiting, pc, call, stray>>

\* Mutants: the mask is not looked at; the cursor queue is forgotten.
HitsTask(q) == wait_task[q] # None
HitsControl(q) == q = "ctrl" /\ wait_task[q] # None /\ wait_mask[q] # None

\* The handler finds a waiter with a task and a mask.
Hits(q) == wait_task[q] # None /\ wait_mask[q] # None

(* chip_InterruptHandler: reading the ISR clears it; the waiter of each    *)
(* queue is signalled, whichever queue the interrupt was for.  Interrupts  *)
(* preempt the one processor, so the handler is one step.                  *)
InterruptHandler ==
    LET hit == {q \in Queues : Hits(q)}
        woken == {wait_task[q] : q \in hit}
    IN /\ isr
       /\ isr' = FALSE
       /\ signalled' = signalled \cup woken
       /\ stray' = (stray \/ \E q \in hit : \/ wait_mask[q] # wait_task[q]
                                            \/ wait_task[q] \notin sigbit)
       /\ UNCHANGED <<lock, buffers, rings, wait_task, wait_mask, sigbit, pc, call,
                      executed>>
-----------------------------------------------------------------------------
Step(t) ==
    \/ PreDrain(t) \/ Fill(t) \/ Submit(t) \/ Arm(t) \/ ArmPoll(t)
    \/ PublishTask(t) \/ PublishMask(t) \/ Loop(t) \/ Wake(t) \/ ClearSignal(t)
    \/ RetractMask(t) \/ RetractTask(t) \/ Poll(t) \/ Drain(t) \/ Reply(t)

Device == \E q \in Queues : DevStart(q) \/ DevFinish(q)

Next ==
    \/ \E t \in Tasks : (\E q \in Queues : Begin(t, q)) \/ Obtain(t) \/ Step(t)
    \/ Device
    \/ InterruptHandler

Spec == Init /\ [][Next]_vars

\* Tasks run, mutexes are handed over fairly, the interrupt line is served,
\* and the device answers every request.
TaskFairness == \A t \in Tasks : WF_vars(Step(t)) /\ SF_vars(Obtain(t))
DeviceFairness ==
    /\ \A q \in Queues : WF_vars(DevStart(q) \/ DevFinish(q))
    /\ WF_vars(InterruptHandler)
FairSpec == Spec /\ TaskFairness /\ DeviceFairness

\* The same with a device that may stop answering at any time.
StallSpec == Spec /\ TaskFairness
-----------------------------------------------------------------------------
(* Properties.                                                             *)

TypeOK ==
    /\ lock \in [Queues -> Tasks \cup {None}]
    /\ cmd_buf \in [Queues -> Commands \cup {None}]
    /\ resp_buf \in Commands \cup {None}
    /\ \A q \in Queues : \A i \in 1..Len(used[q]) :
          used[q][i] \in [cookie : Tasks, cmd : Commands]
    /\ isr \in BOOLEAN
    /\ wait_task \in [Queues -> Tasks \cup {None}]
    /\ wait_mask \in [Queues -> Tasks \cup {None}]
    /\ signalled \subseteq sigbit
    /\ call \in [Tasks -> [q : Queues, n : 0..MaxCmds, ok : BOOLEAN,
                           left : 0..Attempts \cup 0..PollLimit]]

\* A call that reports success returns the device's answer to its own
\* command, and that command has been carried out exactly once.
Answered(t) == pc[t] = "reply" /\ call[t].ok
ResponseMatches ==
    \A t \in Tasks : Answered(t) =>
        LET c == <<t, call[t].n>> IN
        /\ call[t].q = "ctrl" => resp_buf = c
        /\ executed[<<call[t].q, c>>] = 1

\* The device carries out the command a request was submitted for: nobody
\* rewrites a command buffer the device has yet to read.
BufferStable ==
    \A q \in Queues :
        /\ \A i \in 1..Len(avail[q]) : cmd_buf[q] = avail[q][i].cmd
        /\ dev[q] # NoWork => dev[q].cmd = dev[q].req.cmd

\* No lost wake-up: a task asleep whose completion is in the ring has its
\* signal set, or an interrupt pending that will find it published.
NoLostWakeup ==
    \A t \in Tasks : LET q == call[t].q IN
        pc[t] = "sleep" /\ (\E i \in 1..Len(used[q]) : used[q][i].cookie = t) =>
            t \in signalled \/ isr

\* While a command is under way its buffer is left alone and its completion
\* is not missed.
ExchangeSound == BufferStable /\ NoLostWakeup

\* The store order of publish and retract keeps the handler from signalling
\* a task on a bit it does not own (any more).
SignalsOwned == ~stray

\* Between calls no waiter is published: the next call of any task starts
\* from a clean slate also after a timeout.
WaiterRetracted ==
    \A q \in Queues : lock[q] = None => wait_task[q] = None /\ wait_mask[q] = None

\* The waiter is published and retracted cleanly, also around a timeout: the
\* handler neither signals a bit nobody owns nor finds the waiter of a call
\* that is over.
WaitersClean == TypeOK /\ SignalsOwned /\ WaiterRetracted


\* Every call returns.
CallsReturn == \A t \in Tasks : (pc[t] # "idle") ~> (pc[t] = "idle")

\* A caller that polls, for want of a signal bit or of an interrupt handler,
\* releases its lock and returns even if the device never answers.
PollersReturn == \A t \in Tasks : (pc[t] = "poll") ~> (pc[t] = "idle")
=============================================================================
