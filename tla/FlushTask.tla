----------------------------- MODULE FlushTask -----------------------------
(***************************************************************************)
(* The flush task of src/chip/chip_flush.c (chip_flush_task_entry) and the *)
(* driver callbacks that talk to it: drawing (chip_flush_signal_activity), *)
(* chip_WaitVerticalSync, chip_SetDPMSLevel, chip_GetCurrentY, and         *)
(* chip_SetDisplay / chip_SetSwitch, which create it (chip_p96.c).         *)
(*                                                                         *)
(* What a flush does is reduced to "the pixels drawn so far reach the      *)
(* host", and what SetDPMSLevel sends to the device is left out.  The      *)
(* clients are tasks that run any of the callbacks, one at a time,         *)
(* preempted anywhere.                                                     *)
(***************************************************************************)
EXTENDS Integers

CONSTANTS
    Clients,        \* tasks calling into the driver
    Ops,            \* Ops[t]: the callbacks client t uses
    MaxDraws,       \* bound: pixels drawn
    MaxDpms,        \* bound: SetDPMSLevel calls
    MayBreak,       \* the task may get a CTRL_C
    StartMayFail,   \* the task may fail to get its resources
    None

ASSUME FlushTaskAssumption ==
    /\ Ops \in [Clients -> SUBSET {"draw", "vsync", "dpms", "getY", "display"}]
    /\ MaxDraws \in Nat
    /\ MaxDpms \in Nat
    /\ MayBreak \in BOOLEAN
    /\ StartMayFail \in BOOLEAN
    /\ None \notin Clients

VARIABLES
    flush_running,      \* a creator believes the task exists
    flush_task,         \* gs->flush_task and gs->flush_sig_mask are set
    flush_sig_mask,
    fpc,                \* where the flush task is
    got,                \* the signals its last Wait returned
    sigs,               \* its pending signals
    timer_pending,      \* the pacing timer is armed and not collected
    ITimer,             \* gs->ITimer: published and not dropped
    dpms_level,         \* 0 is DPMS_ON
    vsync_phase,
    vsync_mutex,
    wait_vsync_task, wait_vsync_mask,
    claim,              \* the waiter the flush task took off the slot
    woken,              \* clients whose vsync signal is set
    pc,                 \* control of the clients
    version,            \* version[t]: what client t last drew
    drawn,              \* pixels drawn, as a version number
    announced,          \* the latest version whose drawing call has signalled
    taken, shown,       \* versions the current and the last flush carried
    dpmsCalls,
    misfire             \* history: a pointer was used after it was retracted

flushVars == <<flush_running, flush_task, flush_sig_mask, fpc, got, timer_pending,
               ITimer>>
vsyncVars == <<vsync_phase, vsync_mutex, wait_vsync_task, wait_vsync_mask, claim,
               woken>>
pixelVars == <<drawn, announced, taken, shown>>
clientVars == <<pc, version>>
vars == <<flushVars, sigs, dpms_level, vsyncVars, clientVars, pixelVars, dpmsCalls,
          misfire>>
-----------------------------------------------------------------------------
Init ==
    /\ flush_running = FALSE
    /\ flush_task = FALSE
    /\ flush_sig_mask = FALSE
    /\ fpc = "none"
    /\ got = {}
    /\ sigs = {}
    /\ timer_pending = FALSE
    /\ ITimer = FALSE
    /\ dpms_level = 0
    /\ vsync_phase = 0
    /\ vsync_mutex = None
    /\ wait_vsync_task = None
    /\ wait_vsync_mask = None
    /\ claim = None
    /\ woken = {}
    /\ pc = [t \in Clients |-> "idle"]
    /\ version = [t \in Clients |-> 0]
    /\ drawn = 0
    /\ announced = 0
    /\ taken = 0
    /\ shown = 0
    /\ dpmsCalls = 0
    /\ misfire = {}

Goto(t, l) == pc' = [pc EXCEPT ![t] = l]
FGoto(l) == fpc' = l

\* The task is running: it can receive signals.
Alive == fpc \notin {"none", "exited"}
-----------------------------------------------------------------------------
(* The flush task.                                                         *)

\* Port, timer.device, ITimer and the activity signal; any of them may be
\* refused, and then the task is gone.
FlushStart ==
    /\ fpc = "start"
    /\ FGoto("publish")
    /\ flush_task' = TRUE
    /\ UNCHANGED <<flush_running, flush_sig_mask, got, timer_pending, ITimer, sigs,
                   dpms_level, vsyncVars, clientVars, pixelVars, dpmsCalls, misfire>>

FlushStartFails ==
    /\ fpc = "start"
    /\ StartMayFail
    /\ FGoto("exited")
    /\ UNCHANGED <<flush_running, flush_task, flush_sig_mask, got, timer_pending,
                   ITimer, sigs, dpms_level, vsyncVars, clientVars, pixelVars,
                   dpmsCalls, misfire>>

FlushPublish ==
    /\ fpc = "publish"
    /\ FGoto("arm")
    /\ flush_sig_mask' = TRUE
    /\ ITimer' \in IF StartMayFail THEN BOOLEAN ELSE {TRUE}
    /\ UNCHANGED <<flush_running, flush_task, got, timer_pending, sigs, dpms_level,
                   vsyncVars, clientVars, pixelVars, dpmsCalls, misfire>>

\* Mutant: the request is not sent.
SendNoTimer == UNCHANGED timer_pending

SendTimer == timer_pending' = TRUE

\* Top of the loop: arm the pacing timer unless it is still running.
FlushArm ==
    /\ fpc = "arm"
    /\ SendTimer
    /\ FGoto("wait")
    /\ UNCHANGED <<flush_running, flush_task, flush_sig_mask, got, ITimer, sigs,
                   dpms_level, vsyncVars, clientVars, pixelVars, dpmsCalls, misfire>>

\* Wait returns, and clears, every signal that is set.
FlushWait ==
    /\ fpc = "wait"
    /\ sigs # {}
    /\ got' = sigs
    /\ sigs' = {}
    /\ FGoto(IF "break" \in sigs THEN "shutdown" ELSE "clear")
    /\ UNCHANGED <<flush_running, flush_task, flush_sig_mask, timer_pending, ITimer,
                   dpms_level, vsyncVars, clientVars, pixelVars, dpmsCalls, misfire>>

\* GetMsg for the timer; SetSignal(0, flush_sig), which also wipes a signal
\* that came in since Wait returned.
FlushClear ==
    /\ fpc = "clear"
    /\ timer_pending' = (timer_pending /\ "timer" \notin got)
    /\ sigs' = IF "flush" \in got THEN sigs \ {"flush"} ELSE sigs
    /\ got' = {}
    /\ FGoto("dpms")
    /\ UNCHANGED <<flush_running, flush_task, flush_sig_mask, ITimer, dpms_level,
                   vsyncVars, clientVars, pixelVars, dpmsCalls, misfire>>

\* With the display powered off: continue, without touching anything else.
FlushSkip ==
    /\ fpc = "dpms"
    /\ dpms_level # 0
    /\ FGoto("arm")
    /\ UNCHANGED <<flush_running, flush_task, flush_sig_mask, got, timer_pending,
                   ITimer, sigs, dpms_level, vsyncVars, clientVars, pixelVars,
                   dpmsCalls, misfire>>

PhaseFlipped(p) == 1 - p

\* Otherwise a synthetic vblank: flip the phase, look at the waiter's slot.
FlushPhase ==
    /\ fpc = "dpms"
    /\ dpms_level = 0
    /\ vsync_phase' = PhaseFlipped(vsync_phase)
    /\ FGoto(IF wait_vsync_task # None THEN "claim" ELSE "flush")
    /\ UNCHANGED <<flush_running, flush_task, flush_sig_mask, got, timer_pending,
                   ITimer, sigs, dpms_level, vsync_mutex, wait_vsync_task,
                   wait_vsync_mask, claim, woken, clientVars, pixelVars, dpmsCalls,
                   misfire>>

\* Mutant: the slot is used without the mutex.
VsyncIgnored == TRUE

VsyncFree == vsync_mutex = None

\* Take and clear the slot under vsync_mutex.
FlushClaim ==
    /\ fpc = "claim"
    /\ VsyncFree
    /\ claim' = IF wait_vsync_mask # None THEN wait_vsync_task ELSE None
    /\ wait_vsync_task' = None
    /\ wait_vsync_mask' = None
    /\ FGoto("signal")
    /\ UNCHANGED <<flush_running, flush_task, flush_sig_mask, got, timer_pending,
                   ITimer, sigs, dpms_level, vsync_phase, vsync_mutex, woken,
                   clientVars, pixelVars, dpmsCalls, misfire>>

\* Signal the waiter outside the mutex, if both fields were set.
FlushSignal ==
    /\ fpc = "signal"
    /\ woken' = IF claim = None THEN woken ELSE woken \cup {claim}
    /\ claim' = None
    /\ FGoto("flush")
    /\ UNCHANGED <<flush_running, flush_task, flush_sig_mask, got, timer_pending,
                   ITimer, sigs, dpms_level, vsync_phase, vsync_mutex,
                   wait_vsync_task, wait_vsync_mask, clientVars, pixelVars, dpmsCalls,
                   misfire>>

\* chip_flush_all: the pixels are read first and reach the host later.
FlushConvert ==
    /\ fpc = "flush"
    /\ taken' = drawn
    /\ FGoto("transfer")
    /\ UNCHANGED <<flush_running, flush_task, flush_sig_mask, got, timer_pending,
                   ITimer, sigs, dpms_level, vsyncVars, clientVars, drawn, announced,
                   shown, dpmsCalls, misfire>>

FlushTransfer ==
    /\ fpc = "transfer"
    /\ shown' = taken
    /\ FGoto("arm")
    /\ UNCHANGED <<flush_running, flush_task, flush_sig_mask, got, timer_pending,
                   ITimer, sigs, dpms_level, vsyncVars, clientVars, drawn, announced,
                   taken, dpmsCalls, misfire>>

\* CTRL_C: WaitIO for the timer, then retract the mask, the task and ITimer,
\* in this order, and leave.
FlushShutdown ==
    /\ fpc = "shutdown"
    /\ timer_pending => "timer" \in sigs \cup got
    /\ timer_pending' = FALSE
    /\ flush_sig_mask' = FALSE
    /\ FGoto("retract")
    /\ UNCHANGED <<flush_running, flush_task, got, ITimer, sigs, dpms_level, vsyncVars,
                   clientVars, pixelVars, dpmsCalls, misfire>>

FlushRetract ==
    /\ fpc = "retract"
    /\ flush_task' = FALSE
    /\ ITimer' = FALSE
    /\ sigs' = {}
    /\ got' = {}
    /\ FGoto("exited")
    /\ UNCHANGED <<flush_running, flush_sig_mask, timer_pending, dpms_level, vsyncVars,
                   clientVars, pixelVars, dpmsCalls, misfire>>

Flush == \/ FlushStart \/ FlushStartFails \/ FlushPublish \/ FlushArm \/ FlushWait
         \/ FlushClear \/ FlushSkip \/ FlushPhase \/ FlushClaim \/ FlushSignal
         \/ FlushConvert \/ FlushTransfer \/ FlushShutdown \/ FlushRetract

(* timer.device and the user (external).                                   *)
TimerFires ==
    /\ timer_pending
    /\ "timer" \notin sigs \cup got
    /\ sigs' = sigs \cup {"timer"}
    /\ UNCHANGED <<flushVars, dpms_level, vsyncVars, clientVars, pixelVars, dpmsCalls,
                   misfire>>

Break ==
    /\ MayBreak
    /\ Alive
    /\ fpc \notin {"shutdown", "retract"}
    /\ sigs' = sigs \cup {"break"}
    /\ UNCHANGED <<flushVars, dpms_level, vsyncVars, clientVars, pixelVars, dpmsCalls,
                   misfire>>
-----------------------------------------------------------------------------
(* chip_flush_signal_activity, the tail of every drawing callback.         *)

Draw(t) ==
    /\ pc[t] = "idle"
    /\ "draw" \in Ops[t]
    /\ drawn < MaxDraws
    /\ drawn' = drawn + 1
    /\ version' = [version EXCEPT ![t] = drawn + 1]
    /\ Goto(t, "notify")
    /\ UNCHANGED <<flushVars, sigs, dpms_level, vsyncVars, announced, taken,
                   shown, dpmsCalls, misfire>>

\* There is a task to signal.
MayNotify == flush_task /\ flush_sig_mask

NotifyCheck(t) ==
    /\ pc[t] = "notify"
    /\ Goto(t, IF MayNotify THEN "signal" ELSE "idle")
    /\ UNCHANGED <<flushVars, sigs, dpms_level, vsyncVars, version, pixelVars,
                   dpmsCalls, misfire>>

\* Signal(flush_task, flush_sig_mask), by which time they may be gone.
NotifySignal(t) ==
    /\ pc[t] = "signal"
    /\ IF Alive
       THEN /\ sigs' = IF flush_sig_mask THEN sigs \cup {"flush"} ELSE sigs
            /\ misfire' = misfire
       ELSE /\ misfire' = misfire \cup {"signal"}
            /\ sigs' = sigs
    /\ announced' = IF version[t] > announced THEN version[t] ELSE announced
    /\ Goto(t, "idle")
    /\ UNCHANGED <<flushVars, dpms_level, vsyncVars, version, drawn, taken, shown,
                   dpmsCalls>>

(* chip_WaitVerticalSync: without a flush task, or a signal bit, it        *)
(* returns at once.                                                        *)
VsyncCall(t) ==
    /\ pc[t] = "idle"
    /\ "vsync" \in Ops[t]
    /\ flush_task
    /\ Goto(t, "vsyncEnter")
    /\ UNCHANGED <<flushVars, sigs, dpms_level, vsyncVars, version, pixelVars,
                   dpmsCalls, misfire>>

\* Publish the task, then the mask, under vsync_mutex.
VsyncEnter(t) ==
    /\ pc[t] = "vsyncEnter"
    /\ VsyncFree
    /\ vsync_mutex' = t
    /\ wait_vsync_task' = t
    /\ Goto(t, "vsyncMask")
    /\ UNCHANGED <<flushVars, sigs, dpms_level, vsync_phase, wait_vsync_mask, claim,
                   woken, version, pixelVars, dpmsCalls, misfire>>

VsyncMask(t) ==
    /\ pc[t] = "vsyncMask"
    /\ wait_vsync_mask' = t
    /\ vsync_mutex' = None
    /\ Goto(t, "vsyncWait")
    /\ UNCHANGED <<flushVars, sigs, dpms_level, vsync_phase, wait_vsync_task, claim,
                   woken, version, pixelVars, dpmsCalls, misfire>>

\* Wait returns; the slot is retracted if it is still ours; FreeSignal.
VsyncReturn(t) ==
    /\ pc[t] = "vsyncWait"
    /\ t \in woken
    /\ VsyncFree
    /\ woken' = woken \ {t}
    /\ wait_vsync_task' = IF wait_vsync_task = t THEN None ELSE wait_vsync_task
    /\ wait_vsync_mask' = IF wait_vsync_task = t THEN None ELSE wait_vsync_mask
    /\ Goto(t, "idle")
    /\ UNCHANGED <<flushVars, sigs, dpms_level, vsync_phase, vsync_mutex, claim, version,
                   pixelVars, dpmsCalls, misfire>>

\* Mutant: powering up does not wake the flush task.
AfterDpmsSilent(level) == "idle"

AfterDpms(level) == IF level = 0 THEN "notify" ELSE "idle"

(* chip_SetDPMSLevel: the level, and on power-up the activity signal.      *)
SetDPMSLevel(t, level) ==
    /\ pc[t] = "idle"
    /\ "dpms" \in Ops[t]
    /\ dpmsCalls < MaxDpms
    /\ dpmsCalls' = dpmsCalls + 1
    /\ dpms_level' = level
    /\ Goto(t, AfterDpms(level))
    /\ UNCHANGED <<flushVars, sigs, vsyncVars, version, pixelVars, misfire>>

(* chip_GetCurrentY: gs->ITimer is copied, then used.                      *)
GetYLoad(t) ==
    /\ pc[t] = "idle"
    /\ "getY" \in Ops[t]
    /\ ITimer
    /\ Goto(t, "getY")
    /\ UNCHANGED <<flushVars, sigs, dpms_level, vsyncVars, version, pixelVars, dpmsCalls,
                   misfire>>

GetYUse(t) ==
    /\ pc[t] = "getY"
    /\ misfire' = IF ITimer THEN misfire ELSE misfire \cup {"ITimer"}
    /\ Goto(t, "idle")
    /\ UNCHANGED <<flushVars, sigs, dpms_level, vsyncVars, version, pixelVars, dpmsCalls>>

(* chip_SetDisplay(TRUE), and the same in chip_SetSwitch(TRUE): create the *)
(* task unless flush_running, then signal activity.                        *)
SetDisplay(t) ==
    /\ pc[t] = "idle"
    /\ "display" \in Ops[t]
    /\ IF flush_running
       THEN UNCHANGED <<flush_running, fpc>>
       ELSE \/ flush_running' = TRUE /\ fpc' = "start"
            \/ StartMayFail /\ UNCHANGED <<flush_running, fpc>>
    /\ Goto(t, "notify")
    /\ UNCHANGED <<flush_task, flush_sig_mask, got, timer_pending, ITimer, sigs,
                   dpms_level, vsyncVars, version, pixelVars, dpmsCalls, misfire>>
-----------------------------------------------------------------------------
Client(t) ==
    \/ NotifyCheck(t) \/ NotifySignal(t)
    \/ VsyncEnter(t) \/ VsyncMask(t) \/ VsyncReturn(t)
    \/ GetYUse(t)

Next ==
    \/ Flush
    \/ TimerFires
    \/ Break
    \/ \E t \in Clients :
          \/ Draw(t) \/ VsyncCall(t) \/ GetYLoad(t) \/ SetDisplay(t) \/ Client(t)
          \/ \E level \in {0, 3} : SetDPMSLevel(t, level)

Spec == Init /\ [][Next]_vars

\* The flush task has the highest priority of the tasks involved, the timer
\* goes off, and a client that entered a callback keeps running.
FairSpec ==
    /\ Spec
    /\ WF_vars(Flush)
    /\ WF_vars(TimerFires)
    /\ \A t \in Clients : WF_vars(Client(t))
-----------------------------------------------------------------------------
(* Properties.                                                             *)

TypeOK ==
    /\ {flush_running, flush_task, flush_sig_mask, timer_pending, ITimer} \subseteq BOOLEAN
    /\ got \cup sigs \subseteq {"timer", "flush", "break"}
    /\ dpms_level \in 0..3
    /\ vsync_phase \in 0..1
    /\ {vsync_mutex, wait_vsync_task, wait_vsync_mask, claim} \subseteq Clients \cup {None}
    /\ woken \subseteq Clients
    /\ {shown, taken, announced} \subseteq 0..drawn
    /\ drawn \in 0..MaxDraws

\* A client between the power-up of SetDPMSLevel and its activity signal.
PoweringUp == \E t \in Clients : "dpms" \in Ops[t] /\ pc[t] \in {"notify", "signal"}

\* No drawing is forgotten: when the flush task goes to sleep with the display
\* on, whatever was drawn and signalled is on the screen or its signal is
\* still pending.  The SetSignal that wipes a fresh signal, and the signals
\* eaten while the display is off, must not lose an update.
NoLostActivity ==
    fpc = "wait" /\ dpms_level = 0 /\ ~PoweringUp /\ announced > shown =>
        "flush" \in sigs

\* A task in WaitVerticalSync is in the slot, in the flush task's hands or
\* signalled.
WaiterTracked ==
    \A t \in Clients : pc[t] = "vsyncWait" =>
        t \in woken \cup {wait_vsync_task, claim}

\* No Signal is sent to the flush task, and ITimer is not used, before the
\* task has published itself, whatever fails at its start: what can go wrong
\* with the two pointers can only go wrong after a shutdown.
StaleOnlyAfterExit == misfire # {} => fpc = "exited"

\* What was asked of the flush task stays known until it is done: drawing, a
\* task that waits for the vblank, and the task's own address.
NothingForgotten ==
    TypeOK /\ NoLostActivity /\ WaiterTracked /\ StaleOnlyAfterExit

\* What is drawn reaches the host, with or without a signal, unless the
\* display is switched off or the task leaves.
PixelsShown ==
    \A v \in 1..MaxDraws :
        (drawn >= v /\ Alive) ~> (shown >= v \/ dpms_level # 0 \/ ~Alive)

\* "The flush task will wake [us] within at most one refresh interval": a
\* task that calls WaitVerticalSync comes back, unless the display is off or
\* the task has left.
WaitersWake ==
    \A t \in Clients :
        (pc[t] = "vsyncWait") ~> (pc[t] # "vsyncWait" \/ dpms_level # 0 \/ ~Alive)
=============================================================================
