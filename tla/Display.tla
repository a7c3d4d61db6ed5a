------------------------------ MODULE Display ------------------------------
(***************************************************************************)
(* Mode setting against presentation.  One task of rtg.library runs        *)
(* chip_SetGC with chip_resize_fb_to_mode, chip_SetPanning,                *)
(* chip_SetDPMSLevel and chip_CursorCreate, while the flush task runs      *)
(* chip_flush_all.  They share the fields of ChipGPUState without a lock;  *)
(* io_lock only covers single commands, and the whole of a flush.          *)
(*                                                                         *)
(* This is the single-buffer path without virgl (chip_init.c turns double  *)
(* buffering off).  A command is one step here: QueueIO has its            *)
(* submission and its wait.  Pixels are reduced to which surface they were *)
(* converted from, in which format and for which rectangle; sizes are in   *)
(* pixels of four bytes.                                                   *)
(***************************************************************************)
EXTENDS Integers, Sequences

CONSTANTS
    Modes,          \* what SetGC may ask for: records of w, h, fmt
    InitMode,       \* the mode chip_InitCard_C found in the EDID
    Surfaces,       \* what SetPanning may show: records of mem, fmt
    Ops,            \* the callbacks rtg.library uses
    HasVirgl,       \* virgl was negotiated
    HasBlob,        \* the first framebuffer may be a BLOB_MEM_GUEST resource
    MayFail,        \* memory may run out and the device may refuse a command
    MayTimeout,     \* a command may be answered after chip_do_io gave up
    MaxCalls,       \* bound: callbacks called
    MaxLate,        \* bound: commands given up on and still in the queue
    None

ASSUME DisplayAssumption ==
    /\ InitMode \in Modes
    /\ \A m \in Modes : m.w \in Nat \ {0} /\ m.h \in Nat \ {0}
    /\ Ops \subseteq {"SetGC", "SetPanning", "SetDPMSLevel", "CursorCreate"}
    /\ {HasVirgl, HasBlob, MayFail, MayTimeout} \subseteq BOOLEAN
    /\ MaxCalls \in Nat
    /\ MaxLate \in Nat
    /\ None \notin Nat \cup {"rtg", "flush"}

VARIABLES
    gs,         \* the fields of ChipGPUState both tasks use
    mem,        \* allocated buffers: their size and what was drawn into them
    host,       \* the device: its resources, its scanout and the picture
    late,       \* commands given up on: those not yet carried out, and
                \* whether there was one ever
    io_lock,
    rtg,        \* control and locals of the mode setting task; failed is a
                \* history: the steps that ever failed
    fl,         \* control and locals of the flush task; at is a history: the
                \* callbacks returned when the flush began, -1 if one ran
    calls,      \* callbacks called so far; names the buffer a call allocates
    overrun     \* history: a conversion wrote past the end of its buffer

vars == <<gs, mem, host, late, io_lock, rtg, fl, calls, overrun>>

Smaller(a, b) == IF a < b THEN a ELSE b

\* Pixels nothing was converted into.
Blank == <<>>
-----------------------------------------------------------------------------
(* The device carries out control commands one after the other.            *)

Fits(r, c) == c.w <= r.w /\ c.h <= r.h

Accepts(h, c) ==
    LET known == c.id \in DOMAIN h.res IN
    CASE c.op = "create"   -> c.id # 0 /\ ~known
      [] c.op = "attach"   -> known /\ h.res[c.id].backing = None
      [] c.op = "scanout"  -> c.id = 0 \/ (known /\ Fits(h.res[c.id], c))
      [] c.op = "transfer" -> /\ known
                              /\ Fits(h.res[c.id], c)
                              /\ h.res[c.id].backing # None
      [] c.op = "flush"    -> known /\ Fits(h.res[c.id], c)
      [] c.op = "unref"    -> known

Drawn(r) == IF r.backing \in DOMAIN mem THEN mem[r.backing].pixels ELSE Blank

\* What a resource looks like: the guest's own pages if it is a blob.
Picture(r) == IF r.blob THEN Drawn(r) ELSE r.pixels

Execute(h, c) ==
    CASE c.op = "create" ->
           [h EXCEPT !.res = [i \in DOMAIN @ \cup {c.id} |->
               IF i = c.id THEN [w |-> c.w, h |-> c.h, blob |-> FALSE,
                                 backing |-> None, pixels |-> Blank]
                           ELSE @[i]]]
      [] c.op = "attach" -> [h EXCEPT !.res[c.id].backing = c.buf]
      [] c.op = "scanout" ->
           [h EXCEPT !.scanout = c.id,
                     !.shown = IF c.id = 0 THEN Blank ELSE Picture(h.res[c.id])]
      [] c.op = "transfer" -> [h EXCEPT !.res[c.id].pixels = Drawn(h.res[c.id])]
      [] c.op = "flush" ->
           IF h.scanout = c.id THEN [h EXCEPT !.shown = Picture(h.res[c.id])] ELSE h
      [] c.op = "unref" ->
           [h EXCEPT !.res = [i \in DOMAIN @ \ {c.id} |-> @[i]],
                     !.scanout = IF @ = c.id THEN 0 ELSE @,
                     !.shown = IF h.scanout = c.id THEN Blank ELSE @]

DeviceDoes(c) == IF Accepts(host, c) THEN Execute(host, c) ELSE host

\* The device catches up with a command nobody waits for any more.
DevLate ==
    /\ late.queue # <<>>
    /\ host' = DeviceDoes(Head(late.queue))
    /\ late' = [late EXCEPT !.queue = Tail(@)]
    /\ UNCHANGED <<gs, mem, io_lock, rtg, fl, calls, overrun>>

Refusable == {"create", "attach", "scanout"}

\* The ways chip_gpu_send can end for a task that may enter io_lock: the
\* answer is OK, or it is an error or none came in time.
SendOk(t, c) ==
    /\ io_lock \in {None, t}
    /\ late.queue = <<>>
    /\ Accepts(host, c)
    /\ host' = Execute(host, c)
    /\ late' = late

SendFails(t, c) ==
    /\ io_lock \in {None, t}
    /\ \/ /\ late.queue = <<>>
          /\ ~Accepts(host, c) \/ (MayFail /\ c.op \in Refusable)
          /\ late' = late
       \/ /\ MayTimeout
          /\ Len(late.queue) < MaxLate
          /\ late' = [queue |-> Append(late.queue, c), ever |-> TRUE]
    /\ host' = host

Command(op, id, w, h) == [op |-> op, id |-> id, w |-> w, h |-> h, buf |-> None]
-----------------------------------------------------------------------------
(* chip_SetGC and chip_resize_fb_to_mode.                                  *)

RGoto(l) == rtg' = [rtg EXCEPT !.pc = l]

Return == RGoto("idle")

Call(op) == op \in Ops /\ rtg.pc = "idle" /\ calls < MaxCalls /\ calls' = calls + 1

\* Mutant: the height is not looked at.
SameModeNoHeight(m) == gs.active_width = m.w /\ gs.active_format = m.fmt

SameMode(m) ==
    gs.active_width = m.w /\ gs.active_height = m.h /\ gs.active_format = m.fmt

SetGCNoOp(m) ==
    /\ Call("SetGC")
    /\ SameMode(m)
    /\ rtg' = [rtg EXCEPT !.mode = m]
    /\ UNCHANGED <<gs, mem, host, late, io_lock, fl, overrun>>

SetGC(m) ==
    /\ Call("SetGC")
    /\ ~SameMode(m)
    /\ rtg' = [rtg EXCEPT !.pc = "width", !.mode = m,
                          !.dims_changed = <<m.w, m.h>> # <<gs.active_width, gs.active_height>>]
    /\ gs' = [gs EXCEPT !.active_format = m.fmt]
    /\ UNCHANGED <<mem, host, late, io_lock, fl, overrun>>

SetGCWidth ==
    /\ rtg.pc = "width"
    /\ RGoto("height")
    /\ gs' = [gs EXCEPT !.active_width = rtg.mode.w]
    /\ UNCHANGED <<mem, host, late, io_lock, fl, calls, overrun>>

SetGCHeight ==
    /\ rtg.pc = "height"
    /\ RGoto(IF rtg.dims_changed THEN "resize" ELSE "idle")
    /\ gs' = [gs EXCEPT !.active_height = rtg.mode.h]
    /\ UNCHANGED <<mem, host, late, io_lock, fl, calls, overrun>>

\* The new mode has the framebuffer's size already.
ResizeNothing ==
    /\ rtg.pc = "resize"
    /\ <<gs.fb_width, gs.fb_height>> = <<gs.active_width, gs.active_height>>
    /\ Return
    /\ UNCHANGED <<gs, mem, host, late, io_lock, fl, calls, overrun>>

Buffer(w, h) == [size |-> w * h, pixels |-> Blank]

WithBuffer(b, w, h) == [i \in DOMAIN mem \cup {b} |-> IF i = b THEN Buffer(w, h) ELSE mem[i]]

WithoutBuffer(b) == [i \in DOMAIN mem \ {b} |-> mem[i]]

\* chip_alloc_resource_id: the next number that is not one of the reserved.
Reserved == {gs.fb_resource_id, 0, gs.cursor_resource_id}
chip_alloc_resource_id ==
    CHOOSE i \in gs.next_resource_id .. gs.next_resource_id + 3 :
        /\ i \notin Reserved
        /\ \A j \in gs.next_resource_id .. i - 1 : j \in Reserved

ResizeAlloc ==
    /\ rtg.pc = "resize"
    /\ <<gs.fb_width, gs.fb_height>> # <<gs.active_width, gs.active_height>>
    /\ mem' = WithBuffer(calls, gs.active_width, gs.active_height)
    /\ gs' = [gs EXCEPT !.next_resource_id = chip_alloc_resource_id + 1]
    /\ rtg' = [rtg EXCEPT !.pc = "create", !.id = chip_alloc_resource_id, !.buf = calls]
    /\ UNCHANGED <<host, late, io_lock, fl, calls, overrun>>

ResizeNoMemory ==
    /\ rtg.pc = "resize"
    /\ <<gs.fb_width, gs.fb_height>> # <<gs.active_width, gs.active_height>>
    /\ MayFail
    /\ rtg' = [rtg EXCEPT !.pc = "idle", !.failed = @ \cup {"resize"}]
    /\ UNCHANGED <<gs, mem, host, late, io_lock, fl, calls, overrun>>

\* A command of the resize or of CursorCreate, and where it goes from there.
ModeSend(l, c, ok, fails) ==
    /\ rtg.pc = l
    /\ \/ SendOk("rtg", c) /\ rtg' = [rtg EXCEPT !.pc = ok, !.attempt = 0]
       \/ SendFails("rtg", c) /\ rtg' = [rtg EXCEPT !.pc = fails, !.failed = @ \cup {l}]
    /\ UNCHANGED <<gs, mem, io_lock, fl, calls, overrun>>

\* Mutant: the memory of a resource that could not be created is kept.
AfterCreateFailsLeaks == "idle"

\* A resource the device would not create only leaves memory to free.
AfterCreateFails == "free_new"

ResizeCreate ==
    ModeSend("create", Command("create", rtg.id, gs.active_width, gs.active_height),
             "attach", AfterCreateFails)

ResizeAttach ==
    ModeSend("attach", [Command("attach", rtg.id, 0, 0) EXCEPT !.buf = rtg.buf],
             "scanout", "unref_new")

\* chip_SetScanout tries three times; each try enters io_lock anew.
TriesAgain == rtg.attempt < 2

Retry(l, c, fails) ==
    /\ rtg.pc = l
    /\ SendFails("rtg", c)
    /\ rtg' = IF TriesAgain THEN [rtg EXCEPT !.attempt = @ + 1]
              ELSE [rtg EXCEPT !.pc = fails, !.attempt = 0, !.failed = @ \cup {l}]
    /\ UNCHANGED <<gs, mem, io_lock, fl, calls, overrun>>

Scanned(l, c, ok) ==
    /\ rtg.pc = l
    /\ SendOk("rtg", c)
    /\ rtg' = [rtg EXCEPT !.pc = ok, !.attempt = 0]
    /\ UNCHANGED <<gs, mem, io_lock, fl, calls, overrun>>

\* A resource that could not be shown has to go before its memory.
AfterScanoutFails == "unref_new"

ResizeScanout ==
    LET c == Command("scanout", rtg.id, gs.active_width, gs.active_height) IN
    Scanned("scanout", c, "assign") \/ Retry("scanout", c, AfterScanoutFails)

ResizeUnrefNew ==
    ModeSend("unref_new", Command("unref", rtg.id, 0, 0), "free_new", "free_new")

ResizeFreeNew ==
    /\ rtg.pc = "free_new"
    /\ Return
    /\ mem' = WithoutBuffer(rtg.buf)
    /\ UNCHANGED <<gs, host, late, io_lock, fl, calls, overrun>>

\* Mutant: the resource number of the framebuffer is forgotten.
AssignmentsNoFbId == <<"fb_mem", "fb_width", "fb_height", "fb_stride", "resource_id">>

\* The fields of the new framebuffer, in the order they are assigned.
Assignments == <<"fb_mem", "fb_width", "fb_height", "fb_stride", "resource_id",
                 "fb_resource_id">>

Assigned(f) ==
    CASE f = "fb_mem" -> rtg.buf
      [] f \in {"fb_width", "fb_stride"} -> gs.active_width
      [] f = "fb_height" -> gs.active_height
      [] OTHER -> rtg.id

\* The old resource goes before its memory, behind io_lock.
AfterAssign == "unref_old"

ResizeAssign ==
    /\ rtg.pc = "assign"
    /\ LET f == Assignments[rtg.field]
           last == rtg.field = Len(Assignments)
       IN  /\ gs' = [gs EXCEPT ![f] = Assigned(f)]
           /\ rtg' = [rtg EXCEPT !.pc = IF last THEN AfterAssign ELSE "assign",
                                 !.field = IF last THEN 1 ELSE @ + 1,
                                 !.old_mem = IF rtg.field = 1 THEN gs.fb_mem ELSE @,
                                 !.old_res = IF rtg.field = 1 THEN gs.fb_resource_id ELSE @]
    /\ UNCHANGED <<mem, host, late, io_lock, fl, calls, overrun>>

ResizeUnrefOld ==
    ModeSend("unref_old", Command("unref", rtg.old_res, 0, 0), "free_old", "free_old")

ResizeFreeOld ==
    /\ rtg.pc = "free_old"
    /\ Return
    /\ mem' = WithoutBuffer(rtg.old_mem)
    /\ UNCHANGED <<gs, host, late, io_lock, fl, calls, overrun>>
-----------------------------------------------------------------------------
(* The other callbacks of the mode setting task.                           *)

SetPanning(s) ==
    /\ Call("SetPanning")
    /\ rtg' = [rtg EXCEPT !.pc = "panning", !.surface = s]
    /\ gs' = [gs EXCEPT !.panning_mem = s.mem]
    /\ UNCHANGED <<mem, host, late, io_lock, fl, overrun>>

SetPanningFormat ==
    /\ rtg.pc = "panning"
    /\ Return
    /\ gs' = [gs EXCEPT !.active_format = rtg.surface.fmt]
    /\ UNCHANGED <<mem, host, late, io_lock, fl, calls, overrun>>

SetDPMSLevel(level) ==
    /\ Call("SetDPMSLevel")
    /\ RGoto("dpms")
    /\ gs' = [gs EXCEPT !.dpms_level = level]
    /\ UNCHANGED <<mem, host, late, io_lock, fl, overrun>>

\* Mutant: DPMS_ON, which is 0, is taken for off.
DPMSScanoutInverted ==
    IF gs.dpms_level # 0
    THEN Command("scanout", gs.resource_id, Smaller(gs.active_width, gs.fb_width),
                 Smaller(gs.active_height, gs.fb_height))
    ELSE Command("scanout", 0, 0, 0)

\* The scanout the power level asks for.
DPMSScanout ==
    IF gs.dpms_level = 0
    THEN Command("scanout", gs.resource_id, Smaller(gs.active_width, gs.fb_width),
                 Smaller(gs.active_height, gs.fb_height))
    ELSE Command("scanout", 0, 0, 0)

SetDPMSLevelSend ==
    Scanned("dpms", DPMSScanout, "idle") \/ Retry("dpms", DPMSScanout, "idle")

CursorId == 2

\* Memory may run out before the device is asked for anything.
CursorCreate ==
    /\ Call("CursorCreate")
    /\ ~gs.cursor_created
    /\ \/ /\ mem' = WithBuffer(calls', 1, 1)
          /\ gs' = [gs EXCEPT !.cursor_mem = calls', !.cursor_resource_id = CursorId]
          /\ RGoto("cursor_create")
       \/ /\ MayFail
          /\ UNCHANGED <<gs, mem, rtg>>
    /\ UNCHANGED <<host, late, io_lock, fl, overrun>>

CursorCreate2D ==
    ModeSend("cursor_create", Command("create", CursorId, 1, 1), "cursor_attach",
             "cursor_fail")

CursorAttach ==
    ModeSend("cursor_attach",
             [Command("attach", CursorId, 0, 0) EXCEPT !.buf = gs.cursor_mem],
             "cursor_done", "cursor_fail")

CursorDone ==
    /\ rtg.pc = "cursor_done"
    /\ Return
    /\ gs' = [gs EXCEPT !.cursor_created = TRUE]
    /\ UNCHANGED <<mem, host, late, io_lock, fl, calls, overrun>>

CursorFail ==
    /\ rtg.pc = "cursor_fail"
    /\ Return
    /\ mem' = WithoutBuffer(gs.cursor_mem)
    /\ gs' = [gs EXCEPT !.cursor_mem = None]
    /\ UNCHANGED <<host, late, io_lock, fl, calls, overrun>>
-----------------------------------------------------------------------------
(* chip_flush_all, as the flush task runs it: it looks at the power level, *)
(* then at the dimensions, and only then enters io_lock.                   *)

FlushWidth ==
    /\ fl.pc = "idle"
    /\ gs.dpms_level = 0
    /\ fl' = [fl EXCEPT !.pc = "height", !.w = Smaller(gs.active_width, gs.fb_width),
                        !.at = IF rtg.pc = "idle" THEN calls ELSE -1]
    /\ UNCHANGED <<gs, mem, host, late, io_lock, rtg, calls, overrun>>

FlushHeight ==
    /\ fl.pc = "height"
    /\ fl' = [fl EXCEPT !.pc = "obtain", !.h = Smaller(gs.active_height, gs.fb_height)]
    /\ UNCHANGED <<gs, mem, host, late, io_lock, rtg, calls, overrun>>

FlushObtain ==
    /\ fl.pc = "obtain"
    /\ io_lock = None
    /\ io_lock' = "flush"
    /\ fl' = [fl EXCEPT !.pc = "convert", !.dst = gs.fb_mem]
    /\ UNCHANGED <<gs, mem, host, late, rtg, calls, overrun>>

\* chip_convert_rect: where from, in which format, with which stride.
ConvertStart ==
    /\ fl.pc = "convert"
    /\ fl' = [fl EXCEPT !.pc = "clamp", !.src = gs.panning_mem,
                        !.fmt = gs.active_format, !.stride = gs.fb_stride]
    /\ UNCHANGED <<gs, mem, host, late, io_lock, rtg, calls, overrun>>

ConvertClamp ==
    /\ fl.pc = "clamp"
    /\ fl' = [fl EXCEPT !.pc = "rows",
                        !.cw = Smaller(fl.w, Smaller(gs.active_width, gs.fb_width)),
                        !.ch = Smaller(fl.h, Smaller(gs.active_height, gs.fb_height))]
    /\ UNCHANGED <<gs, mem, host, late, io_lock, rtg, calls, overrun>>

Pixels(src, fmt, w, h) == <<src, fmt, w, h>>

\* One past the last pixel the rows reach.
LastPixel == (fl.ch - 1) * fl.stride + fl.cw

ConvertRows ==
    /\ fl.pc = "rows"
    /\ fl' = [fl EXCEPT !.pc = "transfer"]
    /\ mem' = [b \in DOMAIN mem |->
                  IF b = fl.dst
                  THEN [mem[b] EXCEPT !.pixels = Pixels(fl.src, fl.fmt, fl.cw, fl.ch)]
                  ELSE mem[b]]
    /\ overrun' = (overrun \/ (fl.dst \in DOMAIN mem /\ LastPixel > mem[fl.dst].size))
    /\ UNCHANGED <<gs, host, late, io_lock, rtg, calls>>

FlushSend(l, c, ok, fails) ==
    /\ fl.pc = l
    /\ \/ SendOk("flush", c) /\ fl' = [fl EXCEPT !.pc = ok]
       \/ SendFails("flush", c) /\ fl' = [fl EXCEPT !.pc = fails]
    /\ UNCHANGED <<gs, mem, io_lock, rtg, calls, overrun>>

\* chip_TransferToHost2D has nothing to do for a blob framebuffer.
TransferSkipped ==
    /\ fl.pc = "transfer"
    /\ gs.fb_is_blob
    /\ fl' = [fl EXCEPT !.pc = "flush"]
    /\ UNCHANGED <<gs, mem, host, late, io_lock, rtg, calls, overrun>>

TransferToHost2D ==
    /\ ~gs.fb_is_blob
    /\ FlushSend("transfer", Command("transfer", gs.fb_resource_id, fl.w, fl.h),
                 "flush", "release")

ResourceFlush ==
    FlushSend("flush", Command("flush", gs.fb_resource_id, fl.w, fl.h),
              "release", "release")

FlushRelease ==
    /\ fl.pc = "release"
    /\ fl' = [fl EXCEPT !.pc = "idle"]
    /\ io_lock' = None
    /\ UNCHANGED <<gs, mem, host, late, rtg, calls, overrun>>
-----------------------------------------------------------------------------
\* The state chip_InitCard_C leaves: framebuffer resource 1 is shown, a
\* blob if the device offers them and took it.
Init == \E blob \in {FALSE, HasBlob} :
    /\ gs = [active_width |-> InitMode.w, active_height |-> InitMode.h,
             active_format |-> InitMode.fmt, panning_mem |-> "board_mem",
             fb_mem |-> 0, fb_width |-> InitMode.w, fb_height |-> InitMode.h,
             fb_stride |-> InitMode.w, resource_id |-> 1, fb_resource_id |-> 1,
             fb_is_blob |-> blob, dpms_level |-> 0,
             next_resource_id |-> IF HasVirgl THEN 3 ELSE 0,
             cursor_resource_id |-> 0, cursor_mem |-> None, cursor_created |-> FALSE]
    /\ mem = [b \in {0} |-> Buffer(InitMode.w, InitMode.h)]
    /\ host = [res |-> [i \in {1} |-> [w |-> InitMode.w, h |-> InitMode.h,
                                       blob |-> blob, backing |-> 0,
                                       pixels |-> Blank]],
               scanout |-> 1, shown |-> Blank]
    /\ late = [queue |-> <<>>, ever |-> FALSE]
    /\ io_lock = None
    /\ rtg = [pc |-> "idle", mode |-> InitMode, surface |-> None, dims_changed |-> FALSE,
              id |-> 0, buf |-> 0, attempt |-> 0, field |-> 1, old_mem |-> 0,
              old_res |-> 0, failed |-> {}]
    /\ fl = [pc |-> "idle", w |-> 0, h |-> 0, dst |-> 0, src |-> None, fmt |-> None,
             stride |-> 0, cw |-> 0, ch |-> 0, at |-> -1]
    /\ calls = 0
    /\ overrun = FALSE

ModeLocal ==
    \/ SetGCWidth \/ SetGCHeight \/ ResizeNothing \/ ResizeAlloc \/ ResizeNoMemory
    \/ ResizeFreeNew \/ ResizeAssign \/ ResizeFreeOld
    \/ SetPanningFormat \/ CursorDone \/ CursorFail

ModeCommand ==
    \/ ResizeCreate \/ ResizeAttach \/ ResizeScanout \/ ResizeUnrefNew \/ ResizeUnrefOld
    \/ SetDPMSLevelSend \/ CursorCreate2D \/ CursorAttach

ModeCall ==
    \/ \E m \in Modes : SetGCNoOp(m) \/ SetGC(m)
    \/ \E s \in Surfaces : SetPanning(s)
    \/ \E level \in {0, 3} : SetDPMSLevel(level)
    \/ CursorCreate

Flush ==
    \/ FlushWidth \/ FlushHeight \/ FlushObtain \/ ConvertStart \/ ConvertClamp
    \/ ConvertRows \/ TransferSkipped \/ TransferToHost2D \/ ResourceFlush \/ FlushRelease

Next == ModeCall \/ ModeLocal \/ ModeCommand \/ Flush \/ DevLate

Spec == Init /\ [][Next]_vars
-----------------------------------------------------------------------------
(* Properties.                                                             *)

\* TypeOK: every pointer and identifier of ChipGPUState is one that was
\* handed out, and io_lock is held exactly by a flush under way.
TypeOK ==
    /\ gs.fb_mem \in 0..MaxCalls
    /\ gs.cursor_mem \in {None} \cup 1..MaxCalls
    /\ gs.dpms_level \in {0, 3}
    /\ gs.next_resource_id \in 0..MaxCalls + 3
    /\ \A i \in {gs.fb_resource_id, gs.resource_id} : 0 < i /\ i <= MaxCalls + 3
    /\ DOMAIN mem \subseteq 0..MaxCalls
    /\ DOMAIN host.res \subseteq 1..MaxCalls + 3
    /\ host.scanout \in {0} \cup DOMAIN host.res
    /\ rtg.attempt \in 0..2
    /\ rtg.field \in 1..Len(Assignments)
    /\ (io_lock = "flush") <=>
         (fl.pc \in {"convert", "clamp", "rows", "transfer", "flush", "release"})

\* ConvertTargetAlive: the buffer chip_convert_rect writes into is not freed
\* under it, although chip_resize_fb_to_mode frees the old framebuffer
\* without holding io_lock.
ConvertTargetAlive ==
    fl.pc \in {"convert", "clamp", "rows"} => fl.dst \in DOMAIN mem

\* CommandsNameResources: the commands of a flush and the scanout of
\* SetDPMSLevel name a resource the device has ("a flush task running
\* concurrently never sees a stale resource_id", chip_init.c).
CommandsNameResources ==
    /\ fl.pc \in {"transfer", "flush"} => gs.fb_resource_id \in DOMAIN host.res
    /\ rtg.pc = "dpms" => gs.resource_id \in DOMAIN host.res

\* BackingAlive: unless a command was given up on, no resource of the device
\* is backed by memory the driver has given back to exec.
BackingAlive ==
    ~late.ever => \A i \in DOMAIN host.res : host.res[i].backing \in DOMAIN mem \cup {None}

\* NothingDangling: at every step of a resize that a flush interleaves with,
\* what either side names is there.
NothingDangling ==
    TypeOK /\ ConvertTargetAlive /\ CommandsNameResources /\ BackingAlive

\* NothingLeaked: between callbacks, whatever failed, the driver owns exactly
\* the framebuffer and the cursor image, and the device, unless a command was
\* given up on, at most their two resources.
NothingLeaked ==
    rtg.pc = "idle" =>
        /\ DOMAIN mem = {gs.fb_mem, gs.cursor_mem} \ {None}
        /\ ~late.ever => DOMAIN host.res \subseteq {gs.fb_resource_id, gs.cursor_resource_id}

\* KeepsDisplaying: between callbacks the device scans out the framebuffer
\* the driver draws into, also after a resize that was refused at any step.
\* (Not after one that was given up on, see ResizeUnrefNew, nor after a
\* SetDPMSLevel that was refused, which leaves the screen as it was.)
KeepsDisplaying ==
    rtg.pc = "idle" /\ ~late.ever /\ gs.dpms_level = 0 /\ "dpms" \notin rtg.failed =>
        host.scanout = gs.fb_resource_id

\* NoOverrun: a conversion stays inside its destination buffer.
NoOverrun == ~overrun

\* ModeApplied: as long as no step of a callback has failed, the framebuffer
\* has the size of the mode the last SetGC asked for when it returns.
ModeApplied ==
    rtg.pc = "idle" /\ rtg.failed = {} =>
        <<gs.fb_width, gs.fb_height>> = <<rtg.mode.w, rtg.mode.h>>

\* ModeKept: a SetGC leaves the mode that was asked for, or one that is still
\* displayed.
ModeKept == KeepsDisplaying /\ ModeApplied

\* What the user should see.
CurrentPicture ==
    Pixels(gs.panning_mem, gs.active_format, Smaller(gs.active_width, gs.fb_width),
           Smaller(gs.active_height, gs.fb_height))

\* PictureSettles: one flush that began after the last callback returned is
\* enough for the screen to show the panned surface in its format, whatever
\* earlier flushes read halfway through a mode change and also after a resize
\* that was refused.  (Not after a command that was given up on, a SetScanout
\* of SetDPMSLevel that was refused, or the replacement of a blob: fb_is_blob
\* stays set and nothing is transferred any more.)
PictureSettles ==
    /\ fl.pc = "idle" /\ fl.at = calls
    /\ gs.dpms_level = 0 /\ "dpms" \notin rtg.failed /\ ~late.ever
    /\ gs.fb_is_blob => gs.fb_resource_id = 1
    => host.shown = CurrentPicture
=============================================================================
