-------------------------- MODULE FlushTaskProofs --------------------------
(***************************************************************************)
(* Proofs about FlushTask, for any number of clients and of calls.         *)
(*                                                                         *)
(* The flush task may sleep because every signal it wiped belongs to a     *)
(* drawing it still carries with it: from FlushWait to FlushConvert it is  *)
(* on its way to read the pixels, and until FlushTransfer it has read all  *)
(* that was announced.  A waiter is tracked only if it is alone: the slot  *)
(* holds one task, and the code does not keep a second one out (OneWaiter).*)
(***************************************************************************)
EXTENDS FlushTask, TLAPS

Signals == {"timer", "flush", "break"}
Before == {"none", "start", "publish"}
Carrying == {"clear", "dpms", "claim", "signal", "flush"}
Running == {"arm", "wait", "transfer"} \cup Carrying
FPcs == Before \cup Running \cup {"shutdown", "retract", "exited"}
VsyncPcs == {"vsyncEnter", "vsyncMask", "vsyncWait"}
Pcs == {"idle", "notify", "signal", "getY"} \cup VsyncPcs

\* At most one client waits for vblanks.
OneWaiter == \A t, u \in Clients : "vsync" \in Ops[t] /\ "vsync" \in Ops[u] => t = u

Types ==
    /\ flush_running \in BOOLEAN /\ flush_task \in BOOLEAN /\ flush_sig_mask \in BOOLEAN
    /\ timer_pending \in BOOLEAN /\ ITimer \in BOOLEAN
    /\ got \subseteq Signals /\ sigs \subseteq Signals
    /\ dpms_level \in 0 .. 3 /\ vsync_phase \in 0 .. 1
    /\ vsync_mutex \in Clients \cup {None} /\ claim \in Clients \cup {None}
    /\ wait_vsync_task \in Clients \cup {None} /\ wait_vsync_mask \in Clients \cup {None}
    /\ woken \subseteq Clients
    /\ pc \in [Clients -> Pcs]

Versions ==
    /\ drawn \in 0 .. MaxDraws
    /\ version \in [Clients -> Nat]
    /\ \A t \in Clients : version[t] <= drawn
    /\ announced \in Nat /\ announced <= drawn
    /\ shown \in Nat /\ taken \in Nat /\ shown <= taken /\ taken <= drawn

\* What the flush task has published, by where it is; it starts once.  Nobody
\* signals or reads the timer before.
Published ==
    /\ fpc \in FPcs
    /\ flush_running <=> fpc # "none"
    /\ flush_task <=> fpc \in {"publish", "shutdown", "retract"} \cup Running
    /\ flush_sig_mask <=> fpc \in {"shutdown"} \cup Running
    /\ ITimer => fpc \in {"shutdown", "retract"} \cup Running
    /\ fpc \in Before => announced = 0 /\ \A t \in Clients : pc[t] # "signal"
    /\ \A t \in Clients : pc[t] = "getY" => ITimer \/ fpc = "exited"
    /\ misfire # {} => fpc = "exited"

\* What was announced and is not shown is carried by the task or signalled.
Activity ==
    fpc \in Running /\ dpms_level = 0 /\ ~PoweringUp /\ announced > shown =>
        \/ "flush" \in sigs
        \/ fpc \in Carrying
        \/ fpc = "transfer" /\ taken >= announced

IInv == Types /\ Versions /\ Published /\ Activity

\* The only waiter is in the slot with its mask before it lets the mutex go,
\* and the task holds a claim only until it has signalled it.
Waiters ==
    /\ \A t \in Clients : pc[t] \in VsyncPcs => "vsync" \in Ops[t]
    /\ \A t \in Clients : pc[t] = "vsyncMask" => wait_vsync_task = t /\ vsync_mutex = t
    /\ \A t \in Clients : pc[t] = "vsyncWait" /\ wait_vsync_task = t =>
          wait_vsync_mask # None
    /\ claim # None => fpc = "signal"

WInv == Waiters /\ WaiterTracked
-----------------------------------------------------------------------------

LEMMA NoneNoClient == None \notin Clients
BY FlushTaskAssumption

USE NoneNoClient

\* Nothing is drawn, and there is no task yet.
LEMMA InitIInv == Init => IInv /\ WInv
<1> SUFFICES ASSUME Init PROVE IInv /\ WInv
  OBVIOUS
<1> USE DEF Init
<1>1. Types
  <2>1. pc \in [Clients -> Pcs]
    BY DEF Pcs
  <2>2. dpms_level \in 0 .. 3 /\ vsync_phase \in 0 .. 1
    OBVIOUS
  <2> QED BY <2>1, <2>2, Zenon DEF Types
<1>2. Versions
  BY FlushTaskAssumption DEF Versions
<1>5. Published
  BY DEF Published, FPcs, Before, Running, Carrying
<1>3. Activity
  BY DEF Activity
<1>4. WInv
  BY DEF WInv, Waiters, WaiterTracked, VsyncPcs
<1> QED BY <1>1, <1>2, <1>3, <1>4, <1>5 DEF IInv

\* Every variable keeps its range.
LEMMA TypesNext ==
    ASSUME IInv, Next
    PROVE  Types'
<1> USE DEF IInv, Types, Signals, Pcs, VsyncPcs, Published, flushVars,
            vsyncVars, pixelVars, clientVars
<1>1. ASSUME FlushStart PROVE Types'
  BY <1>1 DEF FlushStart, FGoto
<1>2. ASSUME FlushStartFails PROVE Types'
  BY <1>2 DEF FlushStartFails, FGoto
<1>3. ASSUME FlushPublish PROVE Types'
  BY <1>3 DEF FlushPublish, FGoto
<1>4. ASSUME FlushArm PROVE Types'
  BY <1>4 DEF FlushArm, SendTimer, FGoto
<1>5. ASSUME FlushWait PROVE Types'
  BY <1>5 DEF FlushWait, FGoto
<1>6. ASSUME FlushClear PROVE Types'
  BY <1>6 DEF FlushClear, FGoto
<1>7. ASSUME FlushSkip PROVE Types'
  BY <1>7 DEF FlushSkip, FGoto
<1>8. ASSUME FlushPhase PROVE Types'
  BY <1>8 DEF FlushPhase, PhaseFlipped, FGoto
<1>9. ASSUME FlushClaim PROVE Types'
  BY <1>9 DEF FlushClaim, VsyncFree, FGoto
<1>10. ASSUME FlushSignal PROVE Types'
  BY <1>10 DEF FlushSignal, FGoto
<1>11. ASSUME FlushConvert PROVE Types'
  BY <1>11 DEF FlushConvert, FGoto
<1>12. ASSUME FlushTransfer PROVE Types'
  BY <1>12 DEF FlushTransfer, FGoto
<1>13. ASSUME FlushShutdown PROVE Types'
  BY <1>13 DEF FlushShutdown, FGoto
<1>14. ASSUME FlushRetract PROVE Types'
  BY <1>14 DEF FlushRetract, FGoto
<1>15. ASSUME TimerFires PROVE Types'
  BY <1>15 DEF TimerFires
<1>16. ASSUME Break PROVE Types'
  BY <1>16 DEF Break, Alive
<1>17. ASSUME NEW t \in Clients, Draw(t) PROVE Types'
  BY <1>17 DEF Draw, Goto
<1>18. ASSUME NEW t \in Clients, NotifyCheck(t)
     PROVE  Types'
  BY <1>18 DEF NotifyCheck, MayNotify, Goto
<1>19. ASSUME NEW t \in Clients, NotifySignal(t)
     PROVE  Types'
  BY <1>19 DEF NotifySignal, Alive, Goto
<1>20. ASSUME NEW t \in Clients, VsyncCall(t)
     PROVE  Types'
  BY <1>20 DEF VsyncCall, Goto
<1>21. ASSUME NEW t \in Clients, VsyncEnter(t)
     PROVE  Types'
  BY <1>21 DEF VsyncEnter, VsyncFree, Goto
<1>22. ASSUME NEW t \in Clients, VsyncMask(t)
     PROVE  Types'
  BY <1>22 DEF VsyncMask, Goto
<1>23. ASSUME NEW t \in Clients, VsyncReturn(t)
     PROVE  Types'
  BY <1>23 DEF VsyncReturn, VsyncFree, Goto
<1>24. ASSUME NEW t \in Clients, GetYLoad(t) PROVE Types'
  BY <1>24 DEF GetYLoad, Goto
<1>25. ASSUME NEW t \in Clients, GetYUse(t) PROVE Types'
  BY <1>25 DEF GetYUse, Goto
<1>26. ASSUME NEW t \in Clients, SetDisplay(t)
     PROVE  Types'
  BY <1>26 DEF SetDisplay, Goto
<1>27. ASSUME NEW t \in Clients, NEW level \in {0, 3}, SetDPMSLevel(t, level)
     PROVE  Types'
  BY <1>27 DEF SetDPMSLevel, AfterDpms, Goto
<1>28. CASE UNCHANGED vars
  BY <1>28 DEF vars
<1> QED BY <1>1, <1>2, <1>3, <1>4, <1>5, <1>6, <1>7, <1>8, <1>9, <1>10, <1>11,
           <1>12, <1>13, <1>14, <1>15, <1>16, <1>17, <1>18, <1>19, <1>20,
           <1>21, <1>22, <1>23, <1>24, <1>25, <1>26, <1>27, <1>28
    DEF Next, Flush, Client

\* Versions only grow, and in order.
LEMMA VersionsNext ==
    ASSUME IInv, Next
    PROVE  Versions'
<1> USE DEF IInv, Types, Versions, pixelVars, clientVars
<1>1. ASSUME FlushConvert PROVE Versions'
  BY <1>1 DEF FlushConvert, FGoto
<1>2. ASSUME FlushTransfer PROVE Versions'
  BY <1>2 DEF FlushTransfer, FGoto
<1>3. ASSUME NEW t \in Clients, Draw(t) PROVE Versions'
  <2>1. drawn' = drawn + 1 /\ drawn < MaxDraws /\ UNCHANGED <<announced, taken, shown>>
    BY <1>3 DEF Draw
  <2>2. version' = [version EXCEPT ![t] = drawn + 1]
    BY <1>3 DEF Draw
  <2>3. MaxDraws \in Nat /\ drawn \in Nat
    BY FlushTaskAssumption
  <2>4. version' \in [Clients -> Nat] /\ \A u \in Clients : version'[u] <= drawn'
    BY <2>1, <2>2, <2>3
  <2> QED BY <2>1, <2>3, <2>4
<1>4. ASSUME NEW t \in Clients, NotifySignal(t)
     PROVE  Versions'
  BY <1>4 DEF NotifySignal, Alive, Goto
<1>5. ASSUME UNCHANGED <<pixelVars, version>> PROVE Versions'
  BY <1>5
<1> QED BY <1>1, <1>2, <1>3, <1>4, <1>5
    DEF Next, Flush, Client, vars, flushVars, vsyncVars, pixelVars, clientVars,
        AfterDpms, Alive, Break, FGoto, FlushArm, FlushClaim, FlushClear,
        FlushPhase, FlushPublish, FlushRetract, FlushShutdown, FlushSignal,
        FlushSkip, FlushStart, FlushStartFails, FlushWait, GetYLoad, GetYUse,
        Goto, MayNotify, NotifyCheck, PhaseFlipped, SendTimer, SetDPMSLevel,
        SetDisplay, TimerFires, VsyncCall, VsyncEnter, VsyncFree, VsyncMask,
        VsyncReturn

\* The task publishes itself before anybody can use what it publishes.
LEMMA PublishedNext ==
    ASSUME IInv, Next
    PROVE  Published'
<1> USE DEF IInv, Types, Published, FPcs, Before, Running, Carrying, flushVars,
            vsyncVars, pixelVars, clientVars
<1>1. ASSUME FlushStart PROVE Published'
  BY <1>1 DEF FlushStart, FGoto
<1>2. ASSUME FlushStartFails PROVE Published'
  BY <1>2 DEF FlushStartFails, FGoto
<1>3. ASSUME FlushPublish PROVE Published'
  BY <1>3 DEF FlushPublish, FGoto
<1>4. ASSUME FlushArm PROVE Published'
  BY <1>4 DEF FlushArm, SendTimer, FGoto
<1>5. ASSUME FlushWait PROVE Published'
  BY <1>5 DEF FlushWait, FGoto
<1>6. ASSUME FlushClear PROVE Published'
  BY <1>6 DEF FlushClear, FGoto
<1>7. ASSUME FlushSkip PROVE Published'
  BY <1>7 DEF FlushSkip, FGoto
<1>8. ASSUME FlushPhase PROVE Published'
  BY <1>8 DEF FlushPhase, PhaseFlipped, FGoto
<1>9. ASSUME FlushClaim PROVE Published'
  BY <1>9 DEF FlushClaim, VsyncFree, FGoto
<1>10. ASSUME FlushSignal PROVE Published'
  BY <1>10 DEF FlushSignal, FGoto
<1>11. ASSUME FlushConvert PROVE Published'
  BY <1>11 DEF FlushConvert, FGoto
<1>12. ASSUME FlushTransfer PROVE Published'
  BY <1>12 DEF FlushTransfer, FGoto
<1>13. ASSUME FlushShutdown PROVE Published'
  BY <1>13 DEF FlushShutdown, FGoto
<1>14. ASSUME FlushRetract PROVE Published'
  BY <1>14 DEF FlushRetract, FGoto
<1>15. ASSUME TimerFires PROVE Published'
  BY <1>15 DEF TimerFires
<1>16. ASSUME Break PROVE Published'
  BY <1>16 DEF Break, Alive
<1>17. ASSUME NEW t \in Clients, Draw(t) PROVE Published'
  BY <1>17 DEF Draw, Goto
<1>18. ASSUME NEW t \in Clients, NotifyCheck(t)
     PROVE  Published'
  BY <1>18 DEF NotifyCheck, MayNotify, Goto
<1>19. ASSUME NEW t \in Clients, NotifySignal(t)
     PROVE  Published'
  BY <1>19 DEF NotifySignal, Alive, Goto
<1>20. ASSUME NEW t \in Clients, VsyncCall(t)
     PROVE  Published'
  BY <1>20 DEF VsyncCall, Goto
<1>21. ASSUME NEW t \in Clients, VsyncEnter(t)
     PROVE  Published'
  BY <1>21 DEF VsyncEnter, VsyncFree, Goto
<1>22. ASSUME NEW t \in Clients, VsyncMask(t)
     PROVE  Published'
  BY <1>22 DEF VsyncMask, Goto
<1>23. ASSUME NEW t \in Clients, VsyncReturn(t)
     PROVE  Published'
  BY <1>23 DEF VsyncReturn, VsyncFree, Goto
<1>24. ASSUME NEW t \in Clients, GetYLoad(t) PROVE Published'
  BY <1>24 DEF GetYLoad, Goto
<1>25. ASSUME NEW t \in Clients, GetYUse(t) PROVE Published'
  BY <1>25 DEF GetYUse, Goto
<1>26. ASSUME NEW t \in Clients, SetDisplay(t)
     PROVE  Published'
  BY <1>26 DEF SetDisplay, Goto
<1>27. ASSUME NEW t \in Clients, NEW level \in {0, 3}, SetDPMSLevel(t, level)
     PROVE  Published'
  BY <1>27 DEF SetDPMSLevel, AfterDpms, Goto
<1>28. CASE UNCHANGED vars
  BY <1>28 DEF vars
<1> QED BY <1>1, <1>2, <1>3, <1>4, <1>5, <1>6, <1>7, <1>8, <1>9, <1>10, <1>11,
           <1>12, <1>13, <1>14, <1>15, <1>16, <1>17, <1>18, <1>19, <1>20,
           <1>21, <1>22, <1>23, <1>24, <1>25, <1>26, <1>27, <1>28
    DEF Next, Flush, Client

\* A signal is wiped only on the way to a flush.
LEMMA ActivityNext ==
    ASSUME IInv, Next
    PROVE  Activity'
<1> USE DEF IInv, Types, Versions, Published, Activity, PoweringUp, Running,
            Carrying, Before, flushVars, vsyncVars, pixelVars, clientVars
<1>1. ASSUME FlushStart PROVE Activity'
  BY <1>1 DEF FlushStart, FGoto
<1>2. ASSUME FlushStartFails PROVE Activity'
  BY <1>2 DEF FlushStartFails, FGoto
<1>3. ASSUME FlushPublish PROVE Activity'
  BY <1>3 DEF FlushPublish, FGoto
<1>4. ASSUME FlushArm PROVE Activity'
  BY <1>4 DEF FlushArm, SendTimer, FGoto
<1>5. ASSUME FlushWait PROVE Activity'
  BY <1>5 DEF FlushWait, FGoto
<1>6. ASSUME FlushClear PROVE Activity'
  BY <1>6 DEF FlushClear, FGoto
<1>7. ASSUME FlushSkip PROVE Activity'
  BY <1>7 DEF FlushSkip, FGoto
<1>8. ASSUME FlushPhase PROVE Activity'
  BY <1>8 DEF FlushPhase, PhaseFlipped, FGoto
<1>9. ASSUME FlushClaim PROVE Activity'
  BY <1>9 DEF FlushClaim, VsyncFree, FGoto
<1>10. ASSUME FlushSignal PROVE Activity'
  BY <1>10 DEF FlushSignal, FGoto
<1>11. ASSUME FlushConvert PROVE Activity'
  BY <1>11 DEF FlushConvert, FGoto
<1>12. ASSUME FlushTransfer PROVE Activity'
  BY <1>12 DEF FlushTransfer, FGoto
<1>13. ASSUME FlushShutdown PROVE Activity'
  BY <1>13 DEF FlushShutdown, FGoto
<1>14. ASSUME FlushRetract PROVE Activity'
  BY <1>14 DEF FlushRetract, FGoto
<1>15. ASSUME TimerFires PROVE Activity'
  BY <1>15 DEF TimerFires
<1>16. ASSUME Break PROVE Activity'
  BY <1>16 DEF Break, Alive
<1>17. ASSUME NEW t \in Clients, Draw(t) PROVE Activity'
  BY <1>17 DEF Draw, Goto
<1>18. ASSUME NEW t \in Clients, NotifyCheck(t)
     PROVE  Activity'
  BY <1>18 DEF NotifyCheck, MayNotify, Goto
<1>19. ASSUME NEW t \in Clients, NotifySignal(t)
     PROVE  Activity'
  BY <1>19 DEF NotifySignal, Alive, Goto
<1>20. ASSUME NEW t \in Clients, VsyncCall(t)
     PROVE  Activity'
  BY <1>20 DEF VsyncCall, Goto
<1>21. ASSUME NEW t \in Clients, VsyncEnter(t)
     PROVE  Activity'
  BY <1>21 DEF VsyncEnter, VsyncFree, Goto
<1>22. ASSUME NEW t \in Clients, VsyncMask(t)
     PROVE  Activity'
  BY <1>22 DEF VsyncMask, Goto
<1>23. ASSUME NEW t \in Clients, VsyncReturn(t)
     PROVE  Activity'
  BY <1>23 DEF VsyncReturn, VsyncFree, Goto
<1>24. ASSUME NEW t \in Clients, GetYLoad(t) PROVE Activity'
  BY <1>24 DEF GetYLoad, Goto
<1>25. ASSUME NEW t \in Clients, GetYUse(t) PROVE Activity'
  BY <1>25 DEF GetYUse, Goto
<1>26. ASSUME NEW t \in Clients, SetDisplay(t)
     PROVE  Activity'
  BY <1>26 DEF SetDisplay, Goto
<1>27. ASSUME NEW t \in Clients, NEW level \in {0, 3}, SetDPMSLevel(t, level)
     PROVE  Activity'
  BY <1>27 DEF SetDPMSLevel, AfterDpms, Goto
<1>28. CASE UNCHANGED vars
  BY <1>28 DEF vars
<1> QED BY <1>1, <1>2, <1>3, <1>4, <1>5, <1>6, <1>7, <1>8, <1>9, <1>10, <1>11,
           <1>12, <1>13, <1>14, <1>15, <1>16, <1>17, <1>18, <1>19, <1>20,
           <1>21, <1>22, <1>23, <1>24, <1>25, <1>26, <1>27, <1>28
    DEF Next, Flush, Client

\* The waiter is taken off the slot only into a claim, and the claim only into
\* a signal.
LEMMA WaitersNext ==
    ASSUME OneWaiter, IInv, WInv, Next
    PROVE  WInv'
<1> USE DEF IInv, Types, WInv, Waiters, WaiterTracked, OneWaiter, VsyncPcs,
            flushVars, vsyncVars, pixelVars, clientVars
<1>1. ASSUME FlushStart PROVE WInv'
  BY <1>1 DEF FlushStart, FGoto
<1>2. ASSUME FlushStartFails PROVE WInv'
  BY <1>2 DEF FlushStartFails, FGoto
<1>3. ASSUME FlushPublish PROVE WInv'
  BY <1>3 DEF FlushPublish, FGoto
<1>4. ASSUME FlushArm PROVE WInv'
  BY <1>4 DEF FlushArm, SendTimer, FGoto
<1>5. ASSUME FlushWait PROVE WInv'
  BY <1>5 DEF FlushWait, FGoto
<1>6. ASSUME FlushClear PROVE WInv'
  BY <1>6 DEF FlushClear, FGoto
<1>7. ASSUME FlushSkip PROVE WInv'
  BY <1>7 DEF FlushSkip, FGoto
<1>8. ASSUME FlushPhase PROVE WInv'
  BY <1>8 DEF FlushPhase, PhaseFlipped, FGoto
<1>9. ASSUME FlushClaim PROVE WInv'
  BY <1>9 DEF FlushClaim, VsyncFree, FGoto
<1>10. ASSUME FlushSignal PROVE WInv'
  BY <1>10 DEF FlushSignal, FGoto
<1>11. ASSUME FlushConvert PROVE WInv'
  BY <1>11 DEF FlushConvert, FGoto
<1>12. ASSUME FlushTransfer PROVE WInv'
  BY <1>12 DEF FlushTransfer, FGoto
<1>13. ASSUME FlushShutdown PROVE WInv'
  BY <1>13 DEF FlushShutdown, FGoto
<1>14. ASSUME FlushRetract PROVE WInv'
  BY <1>14 DEF FlushRetract, FGoto
<1>15. ASSUME TimerFires PROVE WInv'
  BY <1>15 DEF TimerFires
<1>16. ASSUME Break PROVE WInv'
  BY <1>16 DEF Break, Alive
<1>17. ASSUME NEW t \in Clients, Draw(t) PROVE WInv'
  BY <1>17 DEF Draw, Goto
<1>18. ASSUME NEW t \in Clients, NotifyCheck(t)
     PROVE  WInv'
  BY <1>18 DEF NotifyCheck, MayNotify, Goto
<1>19. ASSUME NEW t \in Clients, NotifySignal(t)
     PROVE  WInv'
  BY <1>19 DEF NotifySignal, Alive, Goto
<1>20. ASSUME NEW t \in Clients, VsyncCall(t)
     PROVE  WInv'
  BY <1>20 DEF VsyncCall, Goto
<1>21. ASSUME NEW t \in Clients, VsyncEnter(t)
     PROVE  WInv'
  BY <1>21 DEF VsyncEnter, VsyncFree, Goto
<1>22. ASSUME NEW t \in Clients, VsyncMask(t)
     PROVE  WInv'
  BY <1>22 DEF VsyncMask, Goto
<1>23. ASSUME NEW t \in Clients, VsyncReturn(t)
     PROVE  WInv'
  BY <1>23 DEF VsyncReturn, VsyncFree, Goto
<1>24. ASSUME NEW t \in Clients, GetYLoad(t) PROVE WInv'
  BY <1>24 DEF GetYLoad, Goto
<1>25. ASSUME NEW t \in Clients, GetYUse(t) PROVE WInv'
  BY <1>25 DEF GetYUse, Goto
<1>26. ASSUME NEW t \in Clients, SetDisplay(t)
     PROVE  WInv'
  <2>1. pc[t] = "idle" /\ pc' = [pc EXCEPT ![t] = "notify"] /\ UNCHANGED <<vsyncVars>>
    BY <1>26 DEF SetDisplay, Goto
  <2>2. claim = None \/ fpc' = "signal"
    BY <1>26 DEF SetDisplay, Published
  <2> QED BY <2>1, <2>2
<1>27. ASSUME NEW t \in Clients, NEW level \in {0, 3}, SetDPMSLevel(t, level)
     PROVE  WInv'
  BY <1>27 DEF SetDPMSLevel, AfterDpms, Goto
<1>28. CASE UNCHANGED vars
  BY <1>28 DEF vars
<1> QED BY <1>1, <1>2, <1>3, <1>4, <1>5, <1>6, <1>7, <1>8, <1>9, <1>10, <1>11,
           <1>12, <1>13, <1>14, <1>15, <1>16, <1>17, <1>18, <1>19, <1>20,
           <1>21, <1>22, <1>23, <1>24, <1>25, <1>26, <1>27, <1>28
    DEF Next, Flush, Client

LEMMA NextIInv == IInv /\ [Next]_vars => IInv'
<1>1. ASSUME IInv, Next PROVE IInv'
  BY <1>1, TypesNext, VersionsNext, PublishedNext, ActivityNext DEF IInv
<1>2. ASSUME IInv, UNCHANGED vars PROVE IInv'
  BY <1>2 DEF vars, flushVars, vsyncVars, pixelVars, clientVars, IInv, Types, Versions,
              Published, Activity, PoweringUp
<1> QED BY <1>1, <1>2

LEMMA NextWInv == OneWaiter /\ IInv /\ WInv /\ [Next]_vars => WInv'
<1>1. ASSUME WInv, UNCHANGED vars PROVE WInv'
  BY <1>1 DEF vars, flushVars, vsyncVars, pixelVars, clientVars, WInv, Waiters,
              WaiterTracked
<1> QED BY <1>1, WaitersNext

LEMMA IInvAlways == Spec => []IInv
<1>1. Init => IInv
  BY InitIInv
<1> QED BY <1>1, NextIInv, PTL DEF Spec

LEMMA WInvAlways ==
    ASSUME OneWaiter
    PROVE  Spec => []WInv
<1>1. Init => WInv
  BY InitIInv
<1>2. IInv /\ WInv /\ [Next]_vars => WInv'
  BY NextWInv
<1> QED BY <1>1, <1>2, IInvAlways, PTL DEF Spec

\* With the display on, the task sleeps only over what is shown or signalled.
LEMMA IInvKeeps == IInv => TypeOK /\ NoLostActivity /\ StaleOnlyAfterExit
<1> SUFFICES ASSUME IInv PROVE TypeOK /\ NoLostActivity /\ StaleOnlyAfterExit
  OBVIOUS
<1>1. TypeOK
  BY DEF IInv, Types, Versions, TypeOK, Signals
<1>2. NoLostActivity
  BY DEF IInv, Activity, NoLostActivity, Running, Carrying
<1>3. StaleOnlyAfterExit
  BY DEF IInv, Published, StaleOnlyAfterExit
<1> QED BY <1>1, <1>2, <1>3

\* However many tasks draw, wait and switch the power: no announced drawing is
\* slept over with the display on, and no pointer to the flush task is used
\* before it has published itself.
THEOREM FlushLosesNoActivity ==
    Spec => [](TypeOK /\ NoLostActivity /\ StaleOnlyAfterExit)
BY IInvAlways, IInvKeeps, PTL

\* If one task at most waits for vblanks, it is never forgotten either.
THEOREM FlushNothingForgotten ==
    ASSUME OneWaiter
    PROVE  Spec => []NothingForgotten
<1>1. IInv /\ WInv => NothingForgotten
  BY IInvKeeps DEF NothingForgotten, WInv
<1> QED BY <1>1, IInvAlways, WInvAlways, PTL

=============================================================================
