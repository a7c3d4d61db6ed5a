--------------------------- MODULE QueueIOProofs ---------------------------
(***************************************************************************)
(* Proofs about QueueIO, for any set of tasks, any number of commands, any *)
(* retry limits and any capacity of the queues.                            *)
(*                                                                         *)
(* Waiters: whatever the device does, and however often a call times out,  *)
(* the interrupt handler never signals a bit its task does not own.        *)
(* Exchange: as long as no call has timed out, at most one request of each *)
(* queue is outstanding, and it is the one of the task that holds the      *)
(* lock; from that follow the integrity of the buffers, the pairing of     *)
(* answers with calls, and that no completion is slept through.            *)
(***************************************************************************)
EXTENDS QueueIO, SequenceTheorems, TLAPS

Requests == [cookie : Tasks, cmd : Commands]
Work == [req : Requests, cmd : Commands]
Frame == [q : Queues, n : 0..MaxCmds, ok : BOOLEAN,
          left : 0..Attempts \cup 0..PollLimit]

\* The labels of a task that holds the lock of its queue, by what it has done.
Preparing == {"predrain", "fill", "submit"}
Published == {"loop", "sleep", "clear", "retractMask"}
Armed == Published \cup {"pubTask", "pubMask", "retractTask"}
Waiting == Armed \cup {"arm", "poll"}
Holding == Preparing \cup Waiting \cup {"drain", "reply"}
Labels == Holding \cup {"idle", "lock"}
-----------------------------------------------------------------------------
(* The inductive invariant of the waiters.                                 *)

\* Types of the control state and of the data.
Control ==
    /\ lock \in [Queues -> Tasks \cup {None}]
    /\ isr \in BOOLEAN
    /\ wait_task \in [Queues -> Tasks \cup {None}]
    /\ wait_mask \in [Queues -> Tasks \cup {None}]
    /\ sigbit \subseteq Tasks
    /\ signalled \subseteq sigbit
    /\ pc \in [Tasks -> Labels]
    /\ call \in [Tasks -> Frame]

Data ==
    /\ cmd_buf \in [Queues -> Commands \cup {None}]
    /\ resp_buf \in Commands \cup {None}
    /\ avail \in [Queues -> Seq(Requests)]
    /\ used \in [Queues -> Seq(Requests)]
    /\ dev \in [Queues -> Work \cup {NoWork}]
    /\ executed \in [Queues \X Commands -> Nat]

\* A request in a queue was built in the buffer of the queue.
Built ==
    /\ \A t \in Tasks : pc[t] # "idle" => call[t].n # 0
    /\ \A t \in Tasks : pc[t] = "submit" => cmd_buf[call[t].q] \in Commands
    /\ \A q \in Queues : avail[q] # <<>> => cmd_buf[q] \in Commands

\* The lock of a queue belongs to the one task that is past Obtain on it.
Mutex ==
    /\ \A t \in Tasks : pc[t] \in Holding => lock[call[t].q] = t
    /\ \A q \in Queues : lock[q] # None =>
          pc[lock[q]] \in Holding /\ call[lock[q]].q = q

\* Only a task that owns its signal bit is published, from PublishTask to
\* RetractTask with its task and from PublishMask to RetractMask with its bit.
Waiters ==
    /\ \A t \in Tasks : pc[t] \in Armed => t \in sigbit
    /\ \A t \in Tasks : pc[t] = "pubMask" => wait_task[call[t].q] = t
    /\ \A t \in Tasks : pc[t] \in Published =>
          wait_task[call[t].q] = t /\ wait_mask[call[t].q] = t
    /\ \A q \in Queues : wait_task[q] # None =>
          /\ pc[wait_task[q]] \in Armed
          /\ call[wait_task[q]].q = q
    /\ \A q \in Queues : wait_mask[q] # None =>
          /\ pc[wait_mask[q]] \in Published
          /\ call[wait_mask[q]].q = q

IInv == Control /\ Data /\ Built /\ Mutex /\ Waiters /\ ~stray
-----------------------------------------------------------------------------
(* The inductive invariant of the exchange.                                *)

NoTimeout == \A t \in Tasks : pc[t] # "drain"

Quiet(q) == avail[q] = <<>> /\ used[q] = <<>> /\ dev[q] = NoWork

Current(t) == <<t, call[t].n>>
Times(t) == executed[<<call[t].q, Current(t)>>]

\* The device has carried the command of t out, and answered it.
Done(t) == Times(t) = 1 /\ (call[t].q = "ctrl" => resp_buf = Current(t))

\* The request of t is the only one of its queue: with the device still to
\* come, with the device at work, or finished.
Queued(t) ==
    LET q == call[t].q IN
    /\ avail[q] = <<Request(t)>> /\ used[q] = <<>> /\ dev[q] = NoWork
    /\ Times(t) = 0
Working(t) ==
    LET q == call[t].q IN
    /\ avail[q] = <<>> /\ used[q] = <<>>
    /\ dev[q] = [req |-> Request(t), cmd |-> Current(t)]
    /\ Times(t) = 0
Finished(t) ==
    LET q == call[t].q IN
    /\ avail[q] = <<>> /\ used[q] = <<Request(t)>> /\ dev[q] = NoWork
    /\ Done(t)
    /\ pc[t] = "sleep" => isr \/ t \in signalled

\* Commands that no task has come to are not carried out.
Unused ==
    \A t \in Tasks : \A n \in 1..MaxCmds : \A q \in Queues :
        n > call[t].n => executed[<<q, <<t, n>> >>] = 0

Exchange(t) ==
    /\ pc[t] \in {"lock"} \cup Preparing => Times(t) = 0 /\ ~call[t].ok
    /\ pc[t] \in Preparing => Quiet(call[t].q)
    /\ pc[t] = "submit" => cmd_buf[call[t].q] = Current(t)
    /\ pc[t] \in Waiting \ {"retractMask", "retractTask"} => ~call[t].ok
    /\ pc[t] \in Waiting /\ ~call[t].ok =>
          /\ cmd_buf[call[t].q] = Current(t)
          /\ Queued(t) \/ Working(t) \/ Finished(t)
    /\ pc[t] \in Waiting /\ call[t].ok => Quiet(call[t].q) /\ Done(t)
    /\ pc[t] = "reply" => Quiet(call[t].q) /\ Done(t)

\* A queue nobody holds is empty.
FreeQuiet == \A q \in Queues : lock[q] = None => Quiet(q)
Exchanges == \A t \in Tasks : Exchange(t)

XInv == FreeQuiet /\ Exchanges /\ Unused
-----------------------------------------------------------------------------

USE QueueIOAssumption
USE DEF Goto

\* Everything is empty and free to start with.
LEMMA InitIInv == Init => IInv
<1> SUFFICES ASSUME Init PROVE IInv
  OBVIOUS
<1> USE DEF Init, Labels, Holding, Waiting, Armed, Published, Preparing
<1>1. Control
  <2>1. [q |-> "ctrl", n |-> 0, left |-> 0, ok |-> FALSE] \in Frame
    BY DEF Frame, Queues
  <2> QED BY <2>1 DEF Control
<1>2. Data
  <2>1. <<>> \in Seq(Requests)
    OBVIOUS
  <2> QED BY <2>1 DEF Data
<1>3. Built /\ Mutex /\ Waiters /\ ~stray
  BY DEF Built, Mutex, Waiters
<1> QED BY <1>1, <1>2, <1>3 DEF IInv

\* Taking a completion off a ring leaves a ring.
LEMMA RingTail ==
    ASSUME Data, NEW q \in Queues, used[q] # <<>>
    PROVE  /\ [used EXCEPT ![q] = Tail(@)] \in [Queues -> Seq(Requests)]
           /\ Head(used[q]) \in Requests
<1>1. used[q] \in Seq(Requests)
  BY DEF Data
<1>2. Tail(used[q]) \in Seq(Requests) /\ Head(used[q]) \in Requests
  BY <1>1, HeadTailProperties
<1> QED BY <1>2 DEF Data

\* A step that does not move a task between these classes, changes no queue and
\* leaves the locks and the waiters alone.
Alike(u) ==
    /\ call'[u].q = call[u].q
    /\ pc'[u] \in Holding <=> pc[u] \in Holding
    /\ pc'[u] \in Armed <=> pc[u] \in Armed
    /\ pc'[u] \in Published <=> pc[u] \in Published
    /\ pc'[u] = "pubMask" <=> pc[u] = "pubMask"

\* Such a step keeps mutual exclusion.
LEMMA MutexKept ==
    ASSUME IInv, \A u \in Tasks : Alike(u), lock' = lock
    PROVE  Mutex'
BY DEF IInv, Control, Mutex, Alike

\* Such a step keeps the waiters.
LEMMA WaitersKept ==
    ASSUME IInv, \A u \in Tasks : Alike(u),
           UNCHANGED <<wait_task, wait_mask, sigbit>>
    PROVE  Waiters'
BY DEF IInv, Control, Waiters, Alike

\* One turn of the wait loop or of the poll loop, as far as control goes.
LEMMA TurnEffect ==
    ASSUME IInv, NEW t \in Tasks, Loop(t) \/ Poll(t)
    PROVE  /\ \A u \in Tasks : /\ Alike(u)
                               /\ call'[u].n = call[u].n
                               /\ pc'[u] = "submit" <=> pc[u] = "submit"
                               /\ pc'[u] = "idle" <=> pc[u] = "idle"
           /\ pc' \in [Tasks -> Labels] /\ call' \in [Tasks -> Frame]
           /\ used' \in [Queues -> Seq(Requests)]
           /\ UNCHANGED <<lock, cmd_buf, resp_buf, avail, dev, isr, wait_task,
                          wait_mask, sigbit, signalled, executed, stray>>
<1> USE DEF Labels, Holding, Waiting, Armed, Published, Preparing
<1> DEFINE q == call[t].q
           spent == [call EXCEPT ![t].left = Spent(@), ![t].ok = Mine(t, q)]
<1>1. q \in Queues /\ call \in [Tasks -> Frame] /\ pc \in [Tasks -> Labels]
  BY DEF IInv, Control, Frame
<1>2. ASSUME ~Exhausted(call[t].left)
      PROVE  /\ spent[t] \in Frame /\ spent[t].q = q /\ spent[t].n = call[t].n
             /\ spent = [call EXCEPT ![t] = spent[t]]
  <2>1. call[t].left \in Int /\ Mine(t, q) \in BOOLEAN
    BY <1>1 DEF Frame, Mine
  <2>2. Spent(call[t].left) \in 0..Attempts \cup 0..PollLimit
    BY <1>1, <1>2 DEF Frame, Exhausted, Spent
  <2>3. spent[t] = [call[t] EXCEPT !.left = Spent(@), !.ok = Mine(t, q)]
    BY <1>1
  <2>4. \A c \in Frame, l \in 0..Attempts \cup 0..PollLimit, o \in BOOLEAN :
           LET d == [c EXCEPT !.left = l, !.ok = o]
           IN d \in Frame /\ d.q = c.q /\ d.n = c.n
    BY DEF Frame
  <2>5. spent[t] \in Frame /\ spent[t].q = q /\ spent[t].n = call[t].n
    <3>1. spent[t] = [call[t] EXCEPT !.left = Spent(call[t].left), !.ok = Mine(t, q)]
      BY <2>3
    <3>2. call[t] \in Frame
      BY <1>1
    <3> DEFINE l == Spent(call[t].left)
               o == Mine(t, q)
    <3>3. l \in 0..Attempts \cup 0..PollLimit /\ o \in BOOLEAN
      BY <2>1, <2>2
    <3>4. spent[t] = [call[t] EXCEPT !.left = l, !.ok = o]
      BY <3>1
    <3> DEFINE d == [call[t] EXCEPT !.left = l, !.ok = o]
    <3> HIDE DEF spent, l, o
    <3>5. d \in Frame /\ d.q = call[t].q /\ d.n = call[t].n
      BY <2>4, <3>2, <3>3, ZenonT(60)
    <3> HIDE DEF d
    <3>6. spent[t] = d
      BY <3>4 DEF d
    <3> QED BY <3>5, <3>6
  <2> QED BY <1>1, <2>3, <2>5
<1>3. ASSUME GetBuf(q) PROVE used' \in [Queues -> Seq(Requests)]
  BY <1>1, <1>3, RingTail DEF GetBuf, IInv, Data
<1>4. CASE Exhausted(call[t].left)
  <2>1. /\ UNCHANGED <<lock, buffers, avail, dev, isr, waiting, executed, stray>>
        /\ UNCHANGED <<used, call>>
        /\ \/ pc[t] = "loop" /\ pc' = [pc EXCEPT ![t] = "retractMask"]
           \/ pc[t] = "poll" /\ pc' = [pc EXCEPT ![t] = "drain"]
    BY <1>4 DEF Loop, Poll
  <2> QED BY <1>1, <2>1 DEF buffers, waiting, IInv, Data, Alike
<1>5. CASE ~Exhausted(call[t].left)
  <2>1. /\ call' = spent
        /\ GetBuf(call[t].q)
        /\ UNCHANGED <<lock, buffers, avail, dev, isr, waiting, executed, stray>>
    BY <1>5 DEF Loop, Poll
  <2>2. \/ pc[t] = "loop"
           /\ \E l \in {"retractMask", "sleep"} : pc' = [pc EXCEPT ![t] = l]
        \/ pc[t] = "poll" /\ \E l \in {"reply", "poll"} : pc' = [pc EXCEPT ![t] = l]
    BY <1>5 DEF Loop, Poll
  <2>3. \A u \in Tasks : /\ call'[u] \in Frame
                         /\ call'[u].q = call[u].q /\ call'[u].n = call[u].n
    BY <1>1, <1>2, <1>5, <2>1
  <2>4. call' \in [Tasks -> Frame] /\ used' \in [Queues -> Seq(Requests)]
    BY <1>1, <1>2, <1>3, <1>5, <2>1
  <2> HIDE DEF spent, q
  <2>5. \A u \in Tasks : /\ Alike(u)
                         /\ pc'[u] = "submit" <=> pc[u] = "submit"
                         /\ pc'[u] = "idle" <=> pc[u] = "idle"
    BY <1>1, <2>2, <2>3 DEF Alike
  <2>6. pc' \in [Tasks -> Labels]
    BY <1>1, <2>2
  <2> QED BY <2>1, <2>3, <2>4, <2>5, <2>6 DEF buffers, waiting
<1> QED BY <1>4, <1>5

\* So it keeps every part of the invariant.
LEMMA TurnKeeps ==
    ASSUME IInv, NEW t \in Tasks, Loop(t) \/ Poll(t)
    PROVE  Control' /\ Data' /\ Built' /\ Mutex' /\ Waiters'
<1>1. Control' /\ Data'
  BY TurnEffect DEF IInv, Control, Data
<1>2. Built'
  BY TurnEffect DEF IInv, Control, Built, Alike
<1>3. Mutex' /\ Waiters'
  BY TurnEffect, MutexKept, WaitersKept
<1> QED BY <1>1, <1>2, <1>3

USE DEF Labels, Holding, Waiting, Armed, Published, Preparing

\* Every step keeps the types of the control state.
LEMMA ControlNext ==
    ASSUME IInv, [Next]_vars
    PROVE  Control'
<1> USE DEF IInv, Control, Frame, buffers, rings, waiting
<1>1. ASSUME NEW t \in Tasks, NEW q \in Queues, Begin(t, q) PROVE Control'
  BY <1>1 DEF Begin
<1>2. ASSUME NEW t \in Tasks, Obtain(t) PROVE Control'
  BY <1>2 DEF Obtain, LockFree
<1>3. ASSUME NEW t \in Tasks, PreDrain(t) PROVE Control'
  BY <1>3 DEF PreDrain
<1>4. ASSUME NEW t \in Tasks, Fill(t) PROVE Control'
  BY <1>4 DEF Fill
<1>5. ASSUME NEW t \in Tasks, Submit(t) PROVE Control'
  BY <1>5 DEF Submit, AfterSubmit
<1>6. ASSUME NEW t \in Tasks, Arm(t) PROVE Control'
  BY <1>6 DEF Arm
<1>7. ASSUME NEW t \in Tasks, ArmPoll(t) PROVE Control'
  BY <1>7 DEF ArmPoll
<1>8. ASSUME NEW t \in Tasks, PublishTask(t) PROVE Control'
  BY <1>8 DEF PublishTask
<1>9. ASSUME NEW t \in Tasks, PublishMask(t) PROVE Control'
  BY <1>9 DEF PublishMask
<1>10. ASSUME NEW t \in Tasks, Loop(t) PROVE Control'
  BY <1>10, TurnKeeps
<1>11. ASSUME NEW t \in Tasks, Wake(t) PROVE Control'
  BY <1>11 DEF Wake
<1>12. ASSUME NEW t \in Tasks, ClearSignal(t) PROVE Control'
  BY <1>12 DEF ClearSignal
<1>13. ASSUME NEW t \in Tasks, RetractMask(t) PROVE Control'
  BY <1>13 DEF RetractMask
<1>14. ASSUME NEW t \in Tasks, RetractTask(t) PROVE Control'
  BY <1>14 DEF RetractTask, Retracted
<1>15. ASSUME NEW t \in Tasks, Poll(t) PROVE Control'
  BY <1>15, TurnKeeps
<1>16. ASSUME NEW t \in Tasks, Drain(t) PROVE Control'
  BY <1>16 DEF Drain
<1>17. ASSUME NEW t \in Tasks, Reply(t) PROVE Control'
  BY <1>17 DEF Reply
<1>18. ASSUME NEW q \in Queues, DevStart(q) PROVE Control'
  BY <1>18 DEF DevStart
<1>19. ASSUME NEW q \in Queues, DevFinish(q) PROVE Control'
  BY <1>19 DEF DevFinish
<1>20. ASSUME InterruptHandler PROVE Control'
  <2>1. \A q \in Queues : Hits(q) => wait_task[q] \in sigbit
    BY DEF Hits, Waiters
  <2>2. signalled' \subseteq sigbit
    BY <1>20, <2>1 DEF InterruptHandler
  <2> QED BY <1>20, <2>2 DEF InterruptHandler
<1>21. ASSUME UNCHANGED vars PROVE Control'
  BY <1>21 DEF vars
<1> QED BY <1>1, <1>2, <1>3, <1>4, <1>5, <1>6, <1>7, <1>8, <1>9, <1>10, <1>11,
        <1>12, <1>13, <1>14, <1>15, <1>16, <1>17, <1>18, <1>19, <1>20, <1>21 DEF
        Next, Step, Device

\* Every step keeps the types of the data, the requests in the rings included.
LEMMA DataNext ==
    ASSUME IInv, [Next]_vars
    PROVE  Data'
<1> USE DEF IInv, Data, buffers, rings, waiting
<1>1. ASSUME NEW t \in Tasks, NEW q \in Queues, Begin(t, q) PROVE Data'
  BY <1>1 DEF Begin
<1>2. ASSUME NEW t \in Tasks, Obtain(t) PROVE Data'
  BY <1>2 DEF Obtain, LockFree
<1>3. ASSUME NEW t \in Tasks, PreDrain(t) PROVE Data'
  <2>1. used' \in [Queues -> Seq(Requests)]
    <3>1. call[t].q \in Queues
      BY DEF Control, Frame
    <3>2. CASE used[call[t].q] = <<>>
      BY <1>3, <3>2 DEF PreDrain
    <3>3. CASE used[call[t].q] # <<>>
      <4>1. used' = [used EXCEPT ![call[t].q] = Tail(@)]
        BY <1>3, <3>3 DEF PreDrain
      <4> QED BY <3>1, <3>3, <4>1, RingTail
    <3> QED BY <3>2, <3>3
  <2> QED BY <1>3, <2>1 DEF PreDrain
<1>4. ASSUME NEW t \in Tasks, Fill(t) PROVE Data'
  BY <1>4 DEF Fill, Control, Frame, Built, Commands
<1>5. ASSUME NEW t \in Tasks, Submit(t) PROVE Data'
  <2>1. call[t].q \in Queues /\ call[t].n \in 1..MaxCmds
    BY <1>5 DEF Submit, Control, Frame, Built
  <2>2. Request(t) \in Requests
    BY <2>1 DEF Request, Requests, Commands
  <2>3. Append(avail[call[t].q], Request(t)) \in Seq(Requests)
    BY <2>1, <2>2, AppendProperties
  <2>4. avail' \in [Queues -> Seq(Requests)]
    BY <1>5, <2>1, <2>3 DEF Submit
  <2> QED BY <1>5, <2>4 DEF Submit
<1>6. ASSUME NEW t \in Tasks, Arm(t) PROVE Data'
  BY <1>6 DEF Arm
<1>7. ASSUME NEW t \in Tasks, ArmPoll(t) PROVE Data'
  BY <1>7 DEF ArmPoll
<1>8. ASSUME NEW t \in Tasks, PublishTask(t) PROVE Data'
  BY <1>8 DEF PublishTask
<1>9. ASSUME NEW t \in Tasks, PublishMask(t) PROVE Data'
  BY <1>9 DEF PublishMask
<1>10. ASSUME NEW t \in Tasks, Loop(t) PROVE Data'
  BY <1>10, TurnKeeps
<1>11. ASSUME NEW t \in Tasks, Wake(t) PROVE Data'
  BY <1>11 DEF Wake
<1>12. ASSUME NEW t \in Tasks, ClearSignal(t) PROVE Data'
  BY <1>12 DEF ClearSignal
<1>13. ASSUME NEW t \in Tasks, RetractMask(t) PROVE Data'
  BY <1>13 DEF RetractMask
<1>14. ASSUME NEW t \in Tasks, RetractTask(t) PROVE Data'
  BY <1>14 DEF RetractTask, Retracted
<1>15. ASSUME NEW t \in Tasks, Poll(t) PROVE Data'
  BY <1>15, TurnKeeps
<1>16. ASSUME NEW t \in Tasks, Drain(t) PROVE Data'
  <2>1. used' \in [Queues -> Seq(Requests)]
    <3>1. call[t].q \in Queues
      BY DEF Control, Frame
    <3>2. CASE used[call[t].q] = <<>>
      BY <1>16, <3>2 DEF Drain
    <3>3. CASE used[call[t].q] # <<>>
      <4>1. used' = [used EXCEPT ![call[t].q] = Tail(@)]
        BY <1>16, <3>3 DEF Drain
      <4> QED BY <3>1, <3>3, <4>1, RingTail
    <3> QED BY <3>2, <3>3
  <2> QED BY <1>16, <2>1 DEF Drain
<1>17. ASSUME NEW t \in Tasks, Reply(t) PROVE Data'
  BY <1>17 DEF Reply
<1>18. ASSUME NEW q \in Queues, DevStart(q) PROVE Data'
  <2>1. Tail(avail[q]) \in Seq(Requests) /\ Head(avail[q]) \in Requests
    BY <1>18, HeadTailProperties DEF DevStart
  <2>2. [req |-> Head(avail[q]), cmd |-> cmd_buf[q]] \in Work
    BY <1>18, <2>1 DEF DevStart, Built, Work
  <2> QED BY <1>18, <2>1, <2>2 DEF DevStart
<1>19. ASSUME NEW q \in Queues, DevFinish(q) PROVE Data'
  BY <1>19 DEF DevFinish, Work, NoWork
<1>20. ASSUME InterruptHandler PROVE Data'
  BY <1>20 DEF InterruptHandler, Hits
<1>21. ASSUME UNCHANGED vars PROVE Data'
  BY <1>21 DEF vars
<1> QED BY <1>1, <1>2, <1>3, <1>4, <1>5, <1>6, <1>7, <1>8, <1>9, <1>10, <1>11,
        <1>12, <1>13, <1>14, <1>15, <1>16, <1>17, <1>18, <1>19, <1>20, <1>21 DEF
        Next, Step, Device

\* What the device will read is a command: Fill comes before Submit.
LEMMA BuiltNext ==
    ASSUME IInv, [Next]_vars
    PROVE  Built'
<1> USE DEF IInv, Built, Control, Frame, buffers, rings, waiting
<1>1. ASSUME NEW t \in Tasks, NEW q \in Queues, Begin(t, q) PROVE Built'
  BY <1>1 DEF Begin
<1>2. ASSUME NEW t \in Tasks, Obtain(t) PROVE Built'
  BY <1>2 DEF Obtain, LockFree
<1>3. ASSUME NEW t \in Tasks, PreDrain(t) PROVE Built'
  BY <1>3 DEF PreDrain
<1>4. ASSUME NEW t \in Tasks, Fill(t) PROVE Built'
  BY <1>4 DEF Fill, Commands, Data
<1>5. ASSUME NEW t \in Tasks, Submit(t) PROVE Built'
  BY <1>5 DEF Submit, AfterSubmit, Data
<1>6. ASSUME NEW t \in Tasks, Arm(t) PROVE Built'
  BY <1>6 DEF Arm
<1>7. ASSUME NEW t \in Tasks, ArmPoll(t) PROVE Built'
  BY <1>7 DEF ArmPoll
<1>8. ASSUME NEW t \in Tasks, PublishTask(t) PROVE Built'
  BY <1>8 DEF PublishTask
<1>9. ASSUME NEW t \in Tasks, PublishMask(t) PROVE Built'
  BY <1>9 DEF PublishMask
<1>10. ASSUME NEW t \in Tasks, Loop(t) PROVE Built'
  BY <1>10, TurnKeeps
<1>11. ASSUME NEW t \in Tasks, Wake(t) PROVE Built'
  BY <1>11 DEF Wake
<1>12. ASSUME NEW t \in Tasks, ClearSignal(t) PROVE Built'
  BY <1>12 DEF ClearSignal
<1>13. ASSUME NEW t \in Tasks, RetractMask(t) PROVE Built'
  BY <1>13 DEF RetractMask
<1>14. ASSUME NEW t \in Tasks, RetractTask(t) PROVE Built'
  BY <1>14 DEF RetractTask, Retracted
<1>15. ASSUME NEW t \in Tasks, Poll(t) PROVE Built'
  BY <1>15, TurnKeeps
<1>16. ASSUME NEW t \in Tasks, Drain(t) PROVE Built'
  BY <1>16 DEF Drain
<1>17. ASSUME NEW t \in Tasks, Reply(t) PROVE Built'
  BY <1>17 DEF Reply
<1>18. ASSUME NEW q \in Queues, DevStart(q) PROVE Built'
  BY <1>18 DEF DevStart, Data
<1>19. ASSUME NEW q \in Queues, DevFinish(q) PROVE Built'
  BY <1>19 DEF DevFinish
<1>20. ASSUME InterruptHandler PROVE Built'
  BY <1>20 DEF InterruptHandler, Hits
<1>21. ASSUME UNCHANGED vars PROVE Built'
  BY <1>21 DEF vars
<1> QED BY <1>1, <1>2, <1>3, <1>4, <1>5, <1>6, <1>7, <1>8, <1>9, <1>10, <1>11,
        <1>12, <1>13, <1>14, <1>15, <1>16, <1>17, <1>18, <1>19, <1>20, <1>21 DEF
        Next, Step, Device

\* Only Obtain takes a lock, from nobody, and only Reply gives it back.
LEMMA MutexNext ==
    ASSUME IInv, [Next]_vars
    PROVE  Mutex'
<1> USE DEF IInv, Mutex, Control, Frame, buffers, rings, waiting
<1>1. ASSUME NEW t \in Tasks, NEW q \in Queues, Begin(t, q) PROVE Mutex'
  BY <1>1 DEF Begin
<1>2. ASSUME NEW t \in Tasks, Obtain(t) PROVE Mutex'
  BY <1>2 DEF Obtain, LockFree
<1>3. ASSUME NEW t \in Tasks, PreDrain(t) PROVE Mutex'
  BY <1>3 DEF PreDrain
<1>4. ASSUME NEW t \in Tasks, Fill(t) PROVE Mutex'
  BY <1>4 DEF Fill
<1>5. ASSUME NEW t \in Tasks, Submit(t) PROVE Mutex'
  BY <1>5 DEF Submit, AfterSubmit
<1>6. ASSUME NEW t \in Tasks, Arm(t) PROVE Mutex'
  BY <1>6 DEF Arm
<1>7. ASSUME NEW t \in Tasks, ArmPoll(t) PROVE Mutex'
  BY <1>7 DEF ArmPoll
<1>8. ASSUME NEW t \in Tasks, PublishTask(t) PROVE Mutex'
  BY <1>8 DEF PublishTask
<1>9. ASSUME NEW t \in Tasks, PublishMask(t) PROVE Mutex'
  BY <1>9 DEF PublishMask
<1>10. ASSUME NEW t \in Tasks, Loop(t) PROVE Mutex'
  BY <1>10, TurnKeeps
<1>11. ASSUME NEW t \in Tasks, Wake(t) PROVE Mutex'
  BY <1>11 DEF Wake
<1>12. ASSUME NEW t \in Tasks, ClearSignal(t) PROVE Mutex'
  BY <1>12 DEF ClearSignal
<1>13. ASSUME NEW t \in Tasks, RetractMask(t) PROVE Mutex'
  BY <1>13 DEF RetractMask
<1>14. ASSUME NEW t \in Tasks, RetractTask(t) PROVE Mutex'
  BY <1>14 DEF RetractTask, Retracted
<1>15. ASSUME NEW t \in Tasks, Poll(t) PROVE Mutex'
  BY <1>15, TurnKeeps
<1>16. ASSUME NEW t \in Tasks, Drain(t) PROVE Mutex'
  BY <1>16 DEF Drain
<1>17. ASSUME NEW t \in Tasks, Reply(t) PROVE Mutex'
  BY <1>17 DEF Reply
<1>18. ASSUME NEW q \in Queues, DevStart(q) PROVE Mutex'
  BY <1>18 DEF DevStart
<1>19. ASSUME NEW q \in Queues, DevFinish(q) PROVE Mutex'
  BY <1>19 DEF DevFinish
<1>20. ASSUME InterruptHandler PROVE Mutex'
  BY <1>20 DEF InterruptHandler, Hits
<1>21. ASSUME UNCHANGED vars PROVE Mutex'
  BY <1>21 DEF vars
<1> QED BY <1>1, <1>2, <1>3, <1>4, <1>5, <1>6, <1>7, <1>8, <1>9, <1>10, <1>11,
        <1>12, <1>13, <1>14, <1>15, <1>16, <1>17, <1>18, <1>19, <1>20, <1>21 DEF
        Next, Step, Device

\* The store order of publishing and retracting keeps Waiters at every step.
LEMMA WaitersNext ==
    ASSUME IInv, [Next]_vars
    PROVE  Waiters'
<1> USE DEF IInv, Waiters, Control, Mutex, Frame, buffers, rings, waiting
<1>1. ASSUME NEW t \in Tasks, NEW q \in Queues, Begin(t, q) PROVE Waiters'
  BY <1>1 DEF Begin
<1>2. ASSUME NEW t \in Tasks, Obtain(t) PROVE Waiters'
  BY <1>2 DEF Obtain, LockFree
<1>3. ASSUME NEW t \in Tasks, PreDrain(t) PROVE Waiters'
  BY <1>3, WaitersKept DEF Alike, PreDrain
<1>4. ASSUME NEW t \in Tasks, Fill(t) PROVE Waiters'
  BY <1>4 DEF Fill
<1>5. ASSUME NEW t \in Tasks, Submit(t) PROVE Waiters'
  BY <1>5, WaitersKept DEF Alike, Submit, AfterSubmit
<1>6. ASSUME NEW t \in Tasks, Arm(t) PROVE Waiters'
  BY <1>6 DEF Arm
<1>7. ASSUME NEW t \in Tasks, ArmPoll(t) PROVE Waiters'
  BY <1>7 DEF ArmPoll
<1>8. ASSUME NEW t \in Tasks, PublishTask(t) PROVE Waiters'
  BY <1>8 DEF PublishTask
<1>9. ASSUME NEW t \in Tasks, PublishMask(t) PROVE Waiters'
  <2>1. \A u \in Tasks : call'[u].q = call[u].q
    BY <1>9 DEF PublishMask
  <2>2. call[t].q \in Queues /\ lock[call[t].q] = t
    BY <1>9 DEF PublishMask
  <2>3. wait_mask' = [wait_mask EXCEPT ![call[t].q] = t]
        /\ pc' = [pc EXCEPT ![t] = "loop"]
    BY <1>9 DEF PublishMask
  <2>4. wait_task[call[t].q] = t
    BY <1>9 DEF PublishMask
  <2> QED BY <1>9, <2>1, <2>2, <2>3, <2>4 DEF PublishMask
<1>10. ASSUME NEW t \in Tasks, Loop(t) PROVE Waiters'
  BY <1>10, TurnKeeps
<1>11. ASSUME NEW t \in Tasks, Wake(t) PROVE Waiters'
  BY <1>11 DEF Wake
<1>12. ASSUME NEW t \in Tasks, ClearSignal(t) PROVE Waiters'
  BY <1>12 DEF ClearSignal
<1>13. ASSUME NEW t \in Tasks, RetractMask(t) PROVE Waiters'
  BY <1>13 DEF RetractMask
<1>14. ASSUME NEW t \in Tasks, RetractTask(t) PROVE Waiters'
  BY <1>14 DEF RetractTask, Retracted
<1>15. ASSUME NEW t \in Tasks, Poll(t) PROVE Waiters'
  BY <1>15, TurnKeeps
<1>16. ASSUME NEW t \in Tasks, Drain(t) PROVE Waiters'
  BY <1>16, WaitersKept DEF Alike, Drain
<1>17. ASSUME NEW t \in Tasks, Reply(t) PROVE Waiters'
  BY <1>17 DEF Reply
<1>18. ASSUME NEW q \in Queues, DevStart(q) PROVE Waiters'
  BY <1>18 DEF DevStart
<1>19. ASSUME NEW q \in Queues, DevFinish(q) PROVE Waiters'
  BY <1>19 DEF DevFinish
<1>20. ASSUME InterruptHandler PROVE Waiters'
  BY <1>20 DEF InterruptHandler, Hits
<1>21. ASSUME UNCHANGED vars PROVE Waiters'
  BY <1>21, ZenonT(60) DEF vars
<1> QED BY <1>1, <1>2, <1>3, <1>4, <1>5, <1>6, <1>7, <1>8, <1>9, <1>10, <1>11,
        <1>12, <1>13, <1>14, <1>15, <1>16, <1>17, <1>18, <1>19, <1>20, <1>21 DEF
        Next, Step, Device
\* The handler finds a bit only together with the task that owns it: both
\* entries of a queue name the holder of its lock.
LEMMA StrayNext ==
    ASSUME IInv, [Next]_vars
    PROVE  ~stray'
<1> USE DEF IInv
<1>1. CASE InterruptHandler
  <2>1. ASSUME NEW q \in Queues, Hits(q)
        PROVE  wait_mask[q] = wait_task[q] /\ wait_task[q] \in sigbit
    BY <2>1 DEF Hits, Waiters, Mutex, Control
  <2>2. ~ \E q \in {r \in Queues : Hits(r)} : \/ wait_mask[q] # wait_task[q]
                                              \/ wait_task[q] \notin sigbit
    BY <2>1
  <2> QED BY <1>1, <2>2, Zenon DEF InterruptHandler
<1>2. CASE stray' = stray
  BY <1>2
<1> QED BY <1>1, <1>2 DEF Next, Step, Device, vars, Begin, Obtain, PreDrain, Fill,
        Submit, Arm, ArmPoll, PublishTask, PublishMask, Loop, Wake, ClearSignal,
        RetractMask, RetractTask, Poll, Drain, Reply, DevStart, DevFinish

\* The invariant of the waiters is inductive.
LEMMA NextIInv == IInv /\ [Next]_vars => IInv'
BY ControlNext, DataNext, BuiltNext, MutexNext, WaitersNext, StrayNext DEF IInv

\* It implies the three parts of WaitersClean.
LEMMA IInvClean == IInv => WaitersClean
<1> SUFFICES ASSUME IInv PROVE WaitersClean
  OBVIOUS
<1> USE DEF IInv
<1>1. TypeOK
  <2>1. \A q \in Queues : \A i \in 1..Len(used[q]) : used[q][i] \in Requests
    BY DEF Data
  <2> QED BY <2>1 DEF TypeOK, Control, Data, Frame, Requests
<1>2. WaiterRetracted
  BY DEF WaiterRetracted, Control, Waiters, Mutex
<1> QED BY <1>1, <1>2 DEF WaitersClean, SignalsOwned

\* So it holds throughout, timeouts or not.
LEMMA IInvAlways == Spec => []IInv
BY InitIInv, NextIInv, PTL DEF Spec

\* Whatever the device does, and also around timeouts, the interrupt handler
\* signals no bit its task does not own, and no waiter is left published when
\* its call is over.
THEOREM QueueWaitersClean == Spec => []WaitersClean
BY IInvAlways, IInvClean, PTL
-----------------------------------------------------------------------------
(* The exchange, as long as no call has timed out.                         *)

\* Nothing is outstanding to start with.
LEMMA InitXInv == Init => XInv
<1> SUFFICES ASSUME Init PROVE XInv
  OBVIOUS
<1>1. \A q \in Queues : Quiet(q)
  BY DEF Init, Quiet
<1>2. \A t \in Tasks : Exchange(t)
  BY DEF Init, Exchange
<1>3. Unused
  BY DEF Init, Unused, Commands
<1> QED BY <1>1, <1>2, <1>3 DEF XInv, FreeQuiet, Exchanges

\* A queue with something in it is held by a task that waits for just that.
LEMMA Holder ==
    ASSUME IInv, XInv, NoTimeout, NEW q \in Queues, ~Quiet(q)
    PROVE  \E h \in Tasks : /\ lock[q] = h /\ call[h].q = q
                            /\ pc[h] \in Waiting /\ ~call[h].ok
                            /\ cmd_buf[q] = Current(h)
                            /\ Queued(h) \/ Working(h) \/ Finished(h)
<1>1. lock[q] \in Tasks
  BY DEF XInv, FreeQuiet, IInv, Control
<1>2. pc[lock[q]] \in Holding /\ call[lock[q]].q = q
  BY <1>1 DEF IInv, Mutex
<1>3. Exchange(lock[q]) /\ pc[lock[q]] # "drain"
  BY <1>1 DEF XInv, Exchanges, NoTimeout
<1>4. pc[lock[q]] \in Waiting /\ ~call[lock[q]].ok
  BY <1>2, <1>3 DEF Exchange
<1> QED BY <1>1, <1>2, <1>3, <1>4 DEF Exchange

\* A step of one task, or of the device on its queue, does not touch another.
LEMMA OthersKept ==
    ASSUME IInv, XInv, NEW t \in Tasks, NEW u \in Tasks, u # t,
           pc'[u] = pc[u], call'[u] = call[u],
           \A q \in Queues \ {call[t].q} :
              /\ avail'[q] = avail[q] /\ used'[q] = used[q] /\ dev'[q] = dev[q]
              /\ cmd_buf'[q] = cmd_buf[q],
           call[t].q = "ctrl" \/ resp_buf' = resp_buf,
           pc[t] \in Holding \/ UNCHANGED <<avail, used, dev, cmd_buf, resp_buf>>,
           \A n \in 1..MaxCmds, q \in Queues :
              executed'[<<q, <<u, n>> >>] = executed[<<q, <<u, n>> >>],
           isr => isr' \/ u \in signalled',
           u \in signalled => u \in signalled'
    PROVE  Exchange(u)'
<1>1. call[u].q \in Queues /\ call[t].q \in Queues /\ call[u] \in Frame
  BY DEF IInv, Control, Frame
<1>2. Exchange(u)
  BY DEF XInv, Exchanges
<1>3. pc[u] # "idle" => call[u].n \in 1..MaxCmds
  BY <1>1 DEF IInv, Built, Frame
<1>4. pc[u] # "idle" => Times(u)' = Times(u)
  BY <1>1, <1>3 DEF Times, Current
<1>5. CASE pc[u] \notin Holding
  BY <1>2, <1>4, <1>5 DEF Exchange
<1>6. CASE pc[u] \in Holding
  <2>1. call[t].q = call[u].q => UNCHANGED <<avail, used, dev, cmd_buf, resp_buf>>
    BY <1>6 DEF IInv, Mutex
  <2>2. /\ avail'[call[u].q] = avail[call[u].q] /\ used'[call[u].q] = used[call[u].q]
        /\ dev'[call[u].q] = dev[call[u].q]
        /\ cmd_buf'[call[u].q] = cmd_buf[call[u].q]
        /\ call[u].q = "ctrl" => resp_buf' = resp_buf
    BY <1>1, <2>1
  <2>3. Current(u)' = Current(u) /\ Request(u)' = Request(u) /\ Times(u)' = Times(u)
    BY <1>4, <1>6 DEF Current, Request
  <2>4. Done(u) => Done(u)'
    BY <2>2, <2>3 DEF Done
  <2>5. /\ Quiet(call[u].q) => Quiet(call[u].q)'
        /\ Queued(u) => Queued(u)'
        /\ Working(u) => Working(u)'
        /\ Finished(u) => Finished(u)'
    BY <2>2, <2>3, <2>4 DEF Quiet, Queued, Working, Finished
  <2> QED BY <1>2, <2>2, <2>3, <2>4, <2>5 DEF Exchange
<1> QED BY <1>5, <1>6

\* A task that holds the lock of its queue only works on that queue.
LEMMA FreeKept ==
    ASSUME IInv, XInv, NEW t \in Tasks, pc[t] \in Holding, lock' = lock,
           \A q \in Queues \ {call[t].q} :
              avail'[q] = avail[q] /\ used'[q] = used[q] /\ dev'[q] = dev[q]
    PROVE  FreeQuiet'
BY QueueIOAssumption, SMTT(60) DEF IInv, XInv, FreeQuiet, Control, Frame, Mutex, Quiet

\* The device at work on a queue carries out the command of its holder.
LEMMA AtWork ==
    ASSUME IInv, XInv, NoTimeout, NEW q \in Queues, dev[q] # NoWork
    PROVE  \E h \in Tasks : /\ lock[q] = h /\ call[h].q = q
                            /\ pc[h] \in Waiting /\ ~call[h].ok
                            /\ cmd_buf[q] = Current(h)
                            /\ Working(h)
BY Holder DEF Quiet, Queued, Finished

\* A free queue is empty: Reply leaves nothing behind.
LEMMA FreeNext ==
    ASSUME IInv, XInv, NoTimeout, NoTimeout', [Next]_vars
    PROVE  FreeQuiet'
<1> USE DEF IInv, XInv, FreeQuiet, Control, Data, Frame, Quiet, Mutex,
           buffers, rings, waiting
<1>1. ASSUME NEW t \in Tasks, Obtain(t) PROVE FreeQuiet'
  BY <1>1 DEF Obtain, LockFree
<1>2. ASSUME NEW t \in Tasks, PreDrain(t) PROVE FreeQuiet'
  <2>1. \A q \in Queues \ {call[t].q} : used'[q] = used[q] /\ avail'[q] = avail[q]
    BY <1>2 DEF PreDrain, GetBuf
  <2> QED BY <1>2, <2>1, FreeKept DEF PreDrain
<1>3. ASSUME NEW t \in Tasks, Submit(t) PROVE FreeQuiet'
  <2>1. \A q \in Queues \ {call[t].q} : used'[q] = used[q] /\ avail'[q] = avail[q]
    BY <1>3 DEF Submit, GetBuf
  <2> QED BY <1>3, <2>1, FreeKept DEF Submit
<1>4. ASSUME NEW t \in Tasks, Loop(t) PROVE FreeQuiet'
  <2>1. \A q \in Queues \ {call[t].q} : used'[q] = used[q] /\ avail'[q] = avail[q]
    BY <1>4 DEF Loop, GetBuf
  <2> QED BY <1>4, <2>1, FreeKept DEF Loop
<1>5. ASSUME NEW t \in Tasks, Poll(t) PROVE FreeQuiet'
  <2>1. \A q \in Queues \ {call[t].q} : used'[q] = used[q] /\ avail'[q] = avail[q]
    BY <1>5 DEF Poll, GetBuf
  <2> QED BY <1>5, <2>1, FreeKept DEF Poll
<1>6. ASSUME NEW t \in Tasks, Drain(t) PROVE FreeQuiet'
  <2>1. \A q \in Queues \ {call[t].q} : used'[q] = used[q] /\ avail'[q] = avail[q]
    BY <1>6 DEF Drain, GetBuf
  <2> QED BY <1>6, <2>1, FreeKept DEF Drain
<1>7. ASSUME NEW t \in Tasks, Reply(t) PROVE FreeQuiet'
  BY <1>7 DEF Reply, Exchanges, Exchange
<1>8. ASSUME NEW q \in Queues, DevStart(q) PROVE FreeQuiet'
  BY <1>8 DEF DevStart
<1>9. ASSUME NEW q \in Queues, DevFinish(q) PROVE FreeQuiet'
  BY <1>9 DEF DevFinish
<1>10. ASSUME UNCHANGED <<lock, avail, used, dev>> PROVE FreeQuiet'
  BY <1>10, ZenonT(60)
<1> QED BY <1>1, <1>2, <1>3, <1>4, <1>5, <1>6, <1>7, <1>8, <1>9, <1>10 DEF Next,
        Step, Device, vars, Begin, Fill, Arm, ArmPoll, PublishTask, PublishMask,
        Wake, ClearSignal, RetractMask, RetractTask, InterruptHandler

\* The device carries out no command before its time: it works for the holder.
LEMMA UnusedNext ==
    ASSUME IInv, XInv, NoTimeout, NoTimeout', [Next]_vars
    PROVE  Unused'
<1> USE DEF IInv, XInv, Unused, Control, Frame, buffers, rings, waiting
<1>1. ASSUME NEW t \in Tasks, NEW q \in Queues, Begin(t, q) PROVE Unused'
  BY <1>1 DEF Begin
<1>2. ASSUME NEW t \in Tasks, ArmPoll(t) PROVE Unused'
  BY <1>2 DEF ArmPoll
<1>3. ASSUME NEW t \in Tasks, PublishMask(t) PROVE Unused'
  BY <1>3 DEF PublishMask
<1>4. ASSUME NEW t \in Tasks, Loop(t) PROVE Unused'
  <2>1. executed' = executed /\ \A u \in Tasks : call'[u].n = call[u].n
    BY <1>4, TurnEffect
  <2> QED BY <2>1
<1>5. ASSUME NEW t \in Tasks, Poll(t) PROVE Unused'
  <2>1. executed' = executed /\ \A u \in Tasks : call'[u].n = call[u].n
    BY <1>5, TurnEffect
  <2> QED BY <2>1
<1>6. ASSUME NEW q \in Queues, DevFinish(q) PROVE Unused'
  <2>1. PICK h \in Tasks : call[h].q = q /\ Working(h)
    BY <1>6, AtWork DEF DevFinish
  <2>2. dev[q].cmd = Current(h)
    BY <2>1 DEF Working
  <2>3. Current(h) \in Commands
    BY <2>2, <1>6 DEF DevFinish, Data, Work, NoWork
  <2> QED BY <1>6, <2>2, <2>3, SMTT(60) DEF DevFinish, Current, Commands, Data
<1>7. ASSUME UNCHANGED <<call, executed>> PROVE Unused'
  BY <1>7
<1> QED BY <1>1, <1>2, <1>3, <1>4, <1>5, <1>6, <1>7 DEF Next, Step, Device, vars,
        Obtain, PreDrain, Fill, Submit, Arm, PublishTask, Wake, ClearSignal,
        RetractMask, RetractTask, Drain, Reply, DevStart, InterruptHandler

\* A step of a task that leaves its request alone.
LEMMA OwnKept ==
    ASSUME NEW t \in Tasks,
           UNCHANGED <<avail, used, dev, cmd_buf, resp_buf, executed>>,
           call'[t].q = call[t].q, call'[t].n = call[t].n
    PROVE  /\ Quiet(call[t].q) => Quiet(call[t].q)'
           /\ Current(t)' = Current(t) /\ Times(t)' = Times(t)
           /\ cmd_buf'[call'[t].q] = cmd_buf[call[t].q]
           /\ Queued(t) => Queued(t)'
           /\ Working(t) => Working(t)'
           /\ Done(t) => Done(t)'
           /\ Finished(t) /\ pc'[t] # "sleep" => Finished(t)'
BY DEF Quiet, Current, Times, Queued, Working, Done, Finished, Request

\* A stuttering step changes nothing.
LEMMA StutterKeeps ==
    ASSUME NEW u \in Tasks, Exchange(u), UNCHANGED vars
    PROVE  Exchange(u)'
BY DEF vars, buffers, rings, waiting, Exchange, Quiet, Queued, Working, Finished,
        Done,
       Times, Current, Request

\* The device starts on the one request of the queue.
LEMMA StartKeeps ==
    ASSUME IInv, XInv, NoTimeout, NEW q \in Queues, DevStart(q)
    PROVE  \A u \in Tasks : Exchange(u)'
<1>1. PICK h \in Tasks : /\ lock[q] = h /\ call[h].q = q /\ pc[h] \in Waiting
                         /\ ~call[h].ok /\ cmd_buf[q] = Current(h)
                         /\ Queued(h) \/ Working(h) \/ Finished(h)
  BY Holder DEF DevStart, Quiet
<1>2. Queued(h)
  BY <1>1 DEF DevStart, Working, Finished
<1>3. /\ avail'[q] = <<>> /\ used' = used
      /\ dev'[q] = [req |-> Request(h), cmd |-> Current(h)]
      /\ UNCHANGED <<pc, call, cmd_buf, executed>>
  BY <1>1, <1>2 DEF DevStart, Queued, IInv, Data, buffers
<1>4. Working(h)'
  BY <1>1, <1>2, <1>3 DEF Queued, Working, Times, Current, Request
<1>5. Exchange(h)'
  BY <1>1, <1>3, <1>4 DEF Exchange, Current
<1>6. ASSUME NEW u \in Tasks, u # h PROVE Exchange(u)'
  <2>1. \A r \in Queues \ {q} : /\ used'[r] = used[r] /\ avail'[r] = avail[r]
                                /\ dev'[r] = dev[r]
    BY DEF DevStart, IInv, Data
  <2> QED BY <1>1, <1>6, <2>1, OthersKept DEF DevStart, buffers, waiting
<1> QED BY <1>5, <1>6

\* The device answers the one request of the queue.
LEMMA FinishKeeps ==
    ASSUME IInv, XInv, NoTimeout, NEW q \in Queues, DevFinish(q)
    PROVE  \A u \in Tasks : Exchange(u)'
<1>1. PICK h \in Tasks : /\ lock[q] = h /\ call[h].q = q /\ pc[h] \in Waiting
                         /\ ~call[h].ok /\ cmd_buf[q] = Current(h)
                         /\ Working(h)
  BY AtWork DEF DevFinish
<1>2. <<q, Current(h)>> \in Queues \X Commands
  BY <1>1 DEF IInv, Control, Frame, Built, Current, Commands
<1>3. dev[q] = [req |-> Request(h), cmd |-> Current(h)] /\ used[q] = <<>>
  BY <1>1 DEF Working
<1>4. executed' = [executed EXCEPT ![<<q, Current(h)>>] = @ + 1]
  BY <1>3 DEF DevFinish
<1>5. /\ avail'[q] = <<>> /\ used'[q] = <<Request(h)>> /\ dev'[q] = NoWork
      /\ UNCHANGED <<pc, call, cmd_buf>> /\ isr'
      /\ q = "ctrl" => resp_buf' = Current(h)
  BY <1>1, <1>3 DEF DevFinish, Working, IInv, Data
<1>6. Times(h) = 0
  BY <1>1 DEF Working
<1>7. Times(h)' = 1
  <2>1. /\ Times(h) = executed[<<q, Current(h)>>]
        /\ Times(h)' = executed'[<<q, Current(h)>>]
    BY <1>1, <1>5 DEF Times, Current
  <2> QED BY <1>2, <1>4, <1>6, <2>1 DEF IInv, Data
<1>8. Finished(h)'
  BY <1>1, <1>5, <1>7 DEF Finished, Done, Current, Request
<1>9. Exchange(h)'
  BY <1>1, <1>5, <1>8 DEF Exchange, Current
<1>10. ASSUME NEW u \in Tasks, u # h PROVE Exchange(u)'
  <2>1. \A r \in Queues \ {q} : /\ used'[r] = used[r] /\ avail'[r] = avail[r]
                                /\ dev'[r] = dev[r]
    BY DEF DevFinish, IInv, Data
  <2>2. \A n \in 1..MaxCmds, r \in Queues :
           executed'[<<r, <<u, n>> >>] = executed[<<r, <<u, n>> >>]
    BY <1>4, <1>10 DEF IInv, Data, Commands, Current
  <2> QED BY <1>1, <1>10, <2>1, <2>2, OthersKept DEF DevFinish, waiting
<1> QED BY <1>9, <1>10

\* Every step of a task, of the device and of the handler keeps the exchange of
\* the task it is about, and leaves the exchanges of the others alone.
LEMMA ExchangeNext ==
    ASSUME IInv, XInv, NoTimeout, NoTimeout', [Next]_vars
    PROVE  Exchanges'
<1> USE DEF IInv, XInv, Exchanges, Control, Frame, buffers, rings, waiting
<1>1. ASSUME NEW t \in Tasks, NEW q \in Queues, Begin(t, q) PROVE Exchanges'
  <2>1. Exchange(t)'
    <3>1. /\ call'[t].q = q /\ call'[t].n = call[t].n + 1 /\ call'[t].n \in 1..MaxCmds
          /\ ~call'[t].ok /\ pc'[t] = "lock" /\ executed' = executed
      BY <1>1 DEF Begin
    <3>2. Times(t)' = 0
      BY <3>1 DEF Times, Current, Unused
    <3> QED BY <3>1, <3>2 DEF Exchange
  <2>2. ASSUME NEW u \in Tasks, u # t PROVE Exchange(u)'
    BY <1>1, <2>2, OthersKept DEF Begin
  <2> QED BY <2>1, <2>2
<1>2. ASSUME NEW t \in Tasks, Obtain(t) PROVE Exchanges'
  <2>1. Exchange(t)'
    BY <1>2 DEF Obtain, LockFree, FreeQuiet, Exchange, Quiet, Queued, Working,
            Finished, Done, Times, Current, Request
  <2>2. ASSUME NEW u \in Tasks, u # t PROVE Exchange(u)'
    BY <1>2, <2>2, OthersKept DEF Obtain, LockFree
  <2> QED BY <2>1, <2>2
<1>3. ASSUME NEW t \in Tasks, PreDrain(t) PROVE Exchanges'
  <2>1. Exchange(t)'
    <3>1. Times(t) = 0 /\ ~call[t].ok /\ Quiet(call[t].q)
      BY <1>3 DEF PreDrain, Exchange
    <3>2. pc'[t] = "fill" /\ UNCHANGED <<call, rings, executed>>
      BY <1>3, <3>1 DEF PreDrain, Quiet
    <3> QED BY <3>1, <3>2 DEF Exchange, Quiet, Times, Current
  <2>2. ASSUME NEW u \in Tasks, u # t PROVE Exchange(u)'
    <3>1. \A q \in Queues \ {call[t].q} : used'[q] = used[q] /\ avail'[q] = avail[q]
      BY <1>3 DEF PreDrain, GetBuf, Data
    <3>2. call'[u] = call[u] /\ pc'[u] = pc[u]
      BY <1>3, <2>2 DEF PreDrain, AfterSubmit
    <3> QED BY <1>3, <2>2, <3>1, <3>2, OthersKept DEF PreDrain
  <2> QED BY <2>1, <2>2
<1>4. ASSUME NEW t \in Tasks, Fill(t) PROVE Exchanges'
  <2>1. Exchange(t)'
    <3>1. /\ pc[t] = "fill" /\ pc'[t] = "submit" /\ call' = call
          /\ cmd_buf'[call[t].q] = Current(t)
          /\ UNCHANGED <<avail, used, dev, executed>>
      BY <1>4 DEF Fill, Data, Current
    <3>2. Times(t) = 0 /\ ~call[t].ok /\ Quiet(call[t].q)
      BY <3>1 DEF Exchange
    <3> QED BY <3>1, <3>2 DEF Exchange, Quiet, Times, Current
  <2>2. ASSUME NEW u \in Tasks, u # t PROVE Exchange(u)'
    BY <1>4, <2>2, OthersKept DEF Fill
  <2> QED BY <2>1, <2>2
<1>5. ASSUME NEW t \in Tasks, Submit(t) PROVE Exchanges'
  <2>1. Exchange(t)'
    <3>1. /\ pc[t] = "submit" /\ Times(t) = 0 /\ ~call[t].ok /\ Quiet(call[t].q)
          /\ cmd_buf[call[t].q] = Current(t)
      BY <1>5 DEF Submit, Exchange
    <3>2. Outstanding(call[t].q) = 0
      BY <3>1 DEF Outstanding, Quiet
    <3>3. /\ avail' = [avail EXCEPT ![call[t].q] = Append(@, Request(t))]
          /\ pc'[t] = "arm"
          /\ UNCHANGED <<call, used, dev, cmd_buf, executed>>
      BY <1>5, <3>2 DEF Submit, AfterSubmit
    <3>4. avail'[call[t].q] = <<Request(t)>>
      BY <3>1, <3>3 DEF Data, Quiet
    <3>5. Queued(t)'
      BY <3>1, <3>3, <3>4 DEF Queued, Quiet, Times, Current, Request
    <3> QED BY <3>1, <3>3, <3>5 DEF Exchange, Times, Current
  <2>2. ASSUME NEW u \in Tasks, u # t PROVE Exchange(u)'
    <3>1. \A q \in Queues \ {call[t].q} : used'[q] = used[q] /\ avail'[q] = avail[q]
      BY <1>5 DEF Submit, GetBuf, Data
    <3>2. call'[u] = call[u] /\ pc'[u] = pc[u]
      BY <1>5, <2>2 DEF Submit, AfterSubmit
    <3> QED BY <1>5, <2>2, <3>1, <3>2, OthersKept DEF Submit
  <2> QED BY <2>1, <2>2
<1>6. ASSUME NEW t \in Tasks, Arm(t) PROVE Exchanges'
  <2>1. Exchange(t)'
    BY <1>6 DEF Arm, Exchange, Quiet, Queued, Working, Finished, Done, Times,
            Current, Request
  <2>2. ASSUME NEW u \in Tasks, u # t PROVE Exchange(u)'
    BY <1>6, <2>2, OthersKept DEF Arm
  <2> QED BY <2>1, <2>2
<1>7. ASSUME NEW t \in Tasks, ArmPoll(t) PROVE Exchanges'
  <2>1. Exchange(t)'
    <3>1. /\ UNCHANGED <<avail, used, dev, cmd_buf, resp_buf, executed>>
          /\ call'[t].q = call[t].q /\ call'[t].n = call[t].n
          /\ call'[t].ok = call[t].ok
          /\ pc[t] = "arm" /\ pc'[t] = "poll"
      BY <1>7 DEF ArmPoll
    <3> QED BY <3>1, OwnKept DEF Exchange
  <2>2. ASSUME NEW u \in Tasks, u # t PROVE Exchange(u)'
    BY <1>7, <2>2, OthersKept DEF ArmPoll
  <2> QED BY <2>1, <2>2
<1>8. ASSUME NEW t \in Tasks, PublishTask(t) PROVE Exchanges'
  <2>1. Exchange(t)'
    BY <1>8 DEF PublishTask, Exchange, Quiet, Queued, Working, Finished, Done,
            Times, Current, Request
  <2>2. ASSUME NEW u \in Tasks, u # t PROVE Exchange(u)'
    BY <1>8, <2>2, OthersKept DEF PublishTask
  <2> QED BY <2>1, <2>2
<1>9. ASSUME NEW t \in Tasks, PublishMask(t) PROVE Exchanges'
  <2>1. Exchange(t)'
    <3>1. /\ UNCHANGED <<avail, used, dev, cmd_buf, resp_buf, executed>>
          /\ call'[t].q = call[t].q /\ call'[t].n = call[t].n
          /\ call'[t].ok = call[t].ok
          /\ pc[t] = "pubMask" /\ pc'[t] = "loop"
      BY <1>9 DEF PublishMask
    <3> QED BY <3>1, OwnKept DEF Exchange
  <2>2. ASSUME NEW u \in Tasks, u # t PROVE Exchange(u)'
    BY <1>9, <2>2, OthersKept DEF PublishMask
  <2> QED BY <2>1, <2>2
<1>10. ASSUME NEW t \in Tasks, Loop(t) PROVE Exchanges'
  <2>1. Exchange(t)'
    <3>1. pc[t] = "loop" /\ ~call[t].ok
      BY <1>10 DEF Loop, Exchange
    <3>2. CASE Exhausted(call[t].left)
      <4>1. /\ UNCHANGED <<avail, used, dev, cmd_buf, resp_buf, executed, call>>
            /\ pc'[t] = "retractMask"
        BY <1>10, <3>2 DEF Loop
      <4> QED BY <3>1, <4>1, OwnKept DEF Exchange, NoTimeout
    <3>3. CASE ~Exhausted(call[t].left) /\ used[call[t].q] = <<>>
      <4>1. /\ UNCHANGED <<avail, used, dev, cmd_buf, resp_buf, executed>>
            /\ call'[t].q = call[t].q /\ call'[t].n = call[t].n /\ ~call'[t].ok
            /\ pc'[t] = "sleep"
        BY <1>10, <3>3 DEF Loop, GetBuf, Mine
      <4>2. ~Finished(t)
        BY <3>3 DEF Finished
      <4> QED BY <3>1, <4>1, <4>2, OwnKept DEF Exchange
    <3>4. CASE ~Exhausted(call[t].left) /\ used[call[t].q] # <<>>
      <4>1. Finished(t)
        BY <3>1, <3>4 DEF Exchange, Queued, Working
      <4>2. Mine(t, call[t].q)
        BY <3>4, <4>1 DEF Finished, Mine, Request
      <4>3. /\ UNCHANGED <<avail, dev, cmd_buf, resp_buf, executed>>
            /\ used' = [used EXCEPT ![call[t].q] = Tail(@)]
            /\ call'[t].q = call[t].q /\ call'[t].n = call[t].n /\ call'[t].ok
            /\ pc'[t] = "retractMask"
        BY <1>10, <3>4, <4>2 DEF Loop, GetBuf
      <4>4. Quiet(call[t].q)' /\ Done(t)'
        BY <4>1, <4>3 DEF Finished, Quiet, Data, Done, Times, Current
      <4> QED BY <3>1, <4>3, <4>4 DEF Exchange
    <3> QED BY <3>2, <3>3, <3>4
  <2>2. ASSUME NEW u \in Tasks, u # t PROVE Exchange(u)'
    <3>1. \A q \in Queues \ {call[t].q} : used'[q] = used[q] /\ avail'[q] = avail[q]
      BY <1>10 DEF Loop, GetBuf, Data
    <3>2. call'[u] = call[u] /\ pc'[u] = pc[u]
      BY <1>10, <2>2 DEF Loop, AfterSubmit
    <3> QED BY <1>10, <2>2, <3>1, <3>2, OthersKept DEF Loop
  <2> QED BY <2>1, <2>2
<1>11. ASSUME NEW t \in Tasks, Wake(t) PROVE Exchanges'
  <2>1. Exchange(t)'
    BY <1>11 DEF Wake, Exchange, Quiet, Queued, Working, Finished, Done, Times,
            Current, Request
  <2>2. ASSUME NEW u \in Tasks, u # t PROVE Exchange(u)'
    BY <1>11, <2>2, OthersKept DEF Wake
  <2> QED BY <2>1, <2>2
<1>12. ASSUME NEW t \in Tasks, ClearSignal(t) PROVE Exchanges'
  <2>1. Exchange(t)'
    BY <1>12 DEF ClearSignal, Exchange, Quiet, Queued, Working, Finished, Done,
            Times, Current, Request
  <2>2. ASSUME NEW u \in Tasks, u # t PROVE Exchange(u)'
    BY <1>12, <2>2, OthersKept DEF ClearSignal
  <2> QED BY <2>1, <2>2
<1>13. ASSUME NEW t \in Tasks, RetractMask(t) PROVE Exchanges'
  <2>1. Exchange(t)'
    BY <1>13 DEF RetractMask, Exchange, Quiet, Queued, Working, Finished, Done,
            Times, Current, Request
  <2>2. ASSUME NEW u \in Tasks, u # t PROVE Exchange(u)'
    BY <1>13, <2>2, OthersKept DEF RetractMask
  <2> QED BY <2>1, <2>2
<1>14. ASSUME NEW t \in Tasks, RetractTask(t) PROVE Exchanges'
  <2>1. Exchange(t)'
    BY <1>14 DEF RetractTask, Retracted, Exchange, Quiet, Queued, Working, Finished,
            Done, Times, Current, Request
  <2>2. ASSUME NEW u \in Tasks, u # t PROVE Exchange(u)'
    BY <1>14, <2>2, OthersKept DEF RetractTask, Retracted
  <2> QED BY <2>1, <2>2
<1>15. ASSUME NEW t \in Tasks, Poll(t) PROVE Exchanges'
  <2>1. Exchange(t)'
    <3>1. pc[t] = "poll" /\ ~call[t].ok
      BY <1>15 DEF Poll, Exchange
    <3>2. CASE Exhausted(call[t].left)
      <4>1. /\ UNCHANGED <<avail, used, dev, cmd_buf, resp_buf, executed, call>>
            /\ pc'[t] = "drain"
        BY <1>15, <3>2 DEF Poll
      <4> QED BY <3>1, <4>1, OwnKept DEF Exchange, NoTimeout
    <3>3. CASE ~Exhausted(call[t].left) /\ used[call[t].q] = <<>>
      <4>1. /\ UNCHANGED <<avail, used, dev, cmd_buf, resp_buf, executed>>
            /\ call'[t].q = call[t].q /\ call'[t].n = call[t].n /\ ~call'[t].ok
            /\ pc'[t] = "poll"
        BY <1>15, <3>3 DEF Poll, GetBuf, Mine
      <4>2. ~Finished(t)
        BY <3>3 DEF Finished
      <4> QED BY <3>1, <4>1, <4>2, OwnKept DEF Exchange
    <3>4. CASE ~Exhausted(call[t].left) /\ used[call[t].q] # <<>>
      <4>1. Finished(t)
        BY <3>1, <3>4 DEF Exchange, Queued, Working
      <4>2. Mine(t, call[t].q)
        BY <3>4, <4>1 DEF Finished, Mine, Request
      <4>3. /\ UNCHANGED <<avail, dev, cmd_buf, resp_buf, executed>>
            /\ used' = [used EXCEPT ![call[t].q] = Tail(@)]
            /\ call'[t].q = call[t].q /\ call'[t].n = call[t].n /\ call'[t].ok
            /\ pc'[t] = "reply"
        BY <1>15, <3>4, <4>2 DEF Poll, GetBuf
      <4>4. Quiet(call[t].q)' /\ Done(t)'
        BY <4>1, <4>3 DEF Finished, Quiet, Data, Done, Times, Current
      <4> QED BY <3>1, <4>3, <4>4 DEF Exchange
    <3> QED BY <3>2, <3>3, <3>4
  <2>2. ASSUME NEW u \in Tasks, u # t PROVE Exchange(u)'
    <3>1. \A q \in Queues \ {call[t].q} : used'[q] = used[q] /\ avail'[q] = avail[q]
      BY <1>15 DEF Poll, GetBuf, Data
    <3>2. call'[u] = call[u] /\ pc'[u] = pc[u]
      BY <1>15, <2>2 DEF Poll, AfterSubmit
    <3> QED BY <1>15, <2>2, <3>1, <3>2, OthersKept DEF Poll
  <2> QED BY <2>1, <2>2
<1>16. ASSUME NEW t \in Tasks, Drain(t) PROVE Exchanges'
  BY <1>16 DEF Drain, NoTimeout
<1>17. ASSUME NEW t \in Tasks, Reply(t) PROVE Exchanges'
  <2>1. Exchange(t)'
    BY <1>17 DEF Reply, Exchange, Quiet, Queued, Working, Finished, Done, Times,
            Current, Request
  <2>2. ASSUME NEW u \in Tasks, u # t PROVE Exchange(u)'
    BY <1>17, <2>2, OthersKept DEF Reply
  <2> QED BY <2>1, <2>2
<1>18. ASSUME NEW q \in Queues, DevStart(q) PROVE Exchanges'
  BY <1>18, StartKeeps
<1>19. ASSUME NEW q \in Queues, DevFinish(q) PROVE Exchanges'
  BY <1>19, FinishKeeps
<1>20. ASSUME InterruptHandler PROVE Exchanges'
  <2>1. ASSUME NEW u \in Tasks PROVE Exchange(u)'
    <3>1. pc[u] = "sleep" => u \in signalled'
      BY <1>20, <2>1 DEF InterruptHandler, Hits, Waiters
    <3> QED BY <1>20, <2>1, <3>1 DEF InterruptHandler, Exchange, Quiet, Queued,
            Working, Finished, Done, Times, Current, Request
  <2> QED BY <2>1
<1>21. ASSUME UNCHANGED vars PROVE Exchanges'
  BY <1>21, StutterKeeps DEF XInv
<1> QED BY <1>1, <1>2, <1>3, <1>4, <1>5, <1>6, <1>7, <1>8, <1>9, <1>10, <1>11,
        <1>12, <1>13, <1>14, <1>15, <1>16, <1>17, <1>18, <1>19, <1>20, <1>21 DEF
        Next, Step, Device

\* Up to a timeout the invariant of the exchange is inductive.
LEMMA NextXInv ==
    ASSUME IInv, XInv, NoTimeout, NoTimeout', [Next]_vars
    PROVE  XInv'
BY FreeNext, UnusedNext, ExchangeNext DEF XInv

\* So it holds as long as no call times out.
LEMMA XInvAlways == Spec /\ []NoTimeout => []XInv
BY InitXInv, NextXInv, IInvAlways, PTL DEF Spec

\* It implies that buffers are stable and no completion is slept through.
LEMMA XInvSound ==
    ASSUME IInv, XInv, NoTimeout
    PROVE  ExchangeSound
<1>1. BufferStable
  <2> SUFFICES ASSUME NEW q \in Queues, ~Quiet(q)
               PROVE  /\ \A i \in 1..Len(avail[q]) : cmd_buf[q] = avail[q][i].cmd
                      /\ dev[q] # NoWork => dev[q].cmd = dev[q].req.cmd
    BY DEF BufferStable, Quiet
  <2>1. PICK h \in Tasks : /\ call[h].q = q /\ cmd_buf[q] = Current(h)
                           /\ Queued(h) \/ Working(h) \/ Finished(h)
    BY Holder
  <2>2. Request(h).cmd = Current(h)
    BY DEF Request, Current
  <2> QED BY <2>1, <2>2 DEF Queued, Working, Finished
<1>2. NoLostWakeup
  <2> SUFFICES ASSUME NEW t \in Tasks, pc[t] = "sleep", used[call[t].q] # <<>>
               PROVE  t \in signalled \/ isr
    BY DEF NoLostWakeup
  <2>1. Finished(t)
    BY DEF XInv, Exchanges, Exchange, Queued, Working
  <2> QED BY <2>1 DEF Finished
<1> QED BY <1>1, <1>2 DEF ExchangeSound

\* It implies that answers and calls are paired.
LEMMA XInvMatches ==
    ASSUME IInv, XInv, NoTimeout
    PROVE  ResponseMatches
BY DEF XInv, Exchanges, Exchange, ResponseMatches, Answered, Done, Times, Current

\* Until a call gives up, no command buffer is rewritten before the device has
\* read it, and no task sleeps through its completion.
THEOREM QueueExchangeSound == Spec /\ []NoTimeout => []ExchangeSound
BY XInvAlways, IInvAlways, XInvSound, PTL

\* Until a call gives up, every answer is the one to the caller's own command,
\* which the device has carried out exactly once.
THEOREM QueueResponseMatches == Spec /\ []NoTimeout => []ResponseMatches
BY XInvAlways, IInvAlways, XInvMatches, PTL
=============================================================================
