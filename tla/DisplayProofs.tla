---------------------------- MODULE DisplayProofs ----------------------------
(***************************************************************************)
(* Proofs about Display, for every set of modes and surfaces, any number   *)
(* of callbacks, refused commands and commands given up on.                *)
(*                                                                         *)
(* Three parts hold whatever the device does: which buffers the driver     *)
(* owns, which numbers it has given to resources, and where a flush under  *)
(* way writes.  The others hold until a command has been given up on.      *)
(***************************************************************************)
EXTENDS Display, SequenceTheorems, TLAPS

Formats == {m.fmt : m \in Modes} \cup {s.fmt : s \in Surfaces}
Drawables == {"board_mem"} \cup {s.mem : s \in Surfaces}
Buffers == Nat
Pictures == {Blank} \cup ((Drawables \cup {None}) \X (Formats \cup {None}) \X Nat \X Nat)

\* The labels of a resize, by what has been made: the new buffer, the new
\* resource; and the labels at which the old framebuffer is still to go.
Building == {"create", "attach", "scanout", "unref_new", "free_new"}
Made == {"attach", "scanout", "unref_new"}
Wanted == {"create", "attach", "scanout", "assign"}
Replacing == {"unref_old", "free_old"}
Starting == {"width", "height", "resize"}
Cursoring == {"cursor_create", "cursor_attach", "cursor_done", "cursor_fail"}
RPcs == {"idle", "panning", "dpms", "assign"} \cup Starting \cup Building \cup Replacing
           \cup Cursoring
Holding == {"convert", "clamp", "rows", "transfer", "flush", "release"}
FPcs == {"idle", "height", "obtain"} \cup Holding

States ==
    [active_width : Nat, active_height : Nat, active_format : Formats,
     panning_mem : Drawables, fb_mem : Nat, fb_width : Nat, fb_height : Nat,
     fb_stride : Nat, resource_id : Nat \ {0}, fb_resource_id : Nat \ {0},
     fb_is_blob : BOOLEAN, dpms_level : {0, 3}, next_resource_id : Nat,
     cursor_resource_id : {0, CursorId}, cursor_mem : Nat \cup {None},
     cursor_created : BOOLEAN]
Bufs == [size : Nat, pixels : Pictures]
Resources == [w : Nat, h : Nat, blob : BOOLEAN, backing : Nat \cup {None}, pixels : Pictures]
Commands == [op : Refusable \cup {"transfer", "flush", "unref"}, id : Nat, w : Nat, h : Nat,
             buf : Nat \cup {None}]
RFrames ==
    [pc : RPcs, mode : Modes, surface : Surfaces \cup {None}, dims_changed : BOOLEAN,
     id : Nat, buf : Nat, attempt : 0 .. 2, field : 1 .. 6, old_mem : Nat, old_res : Nat,
     failed : SUBSET RPcs]
FFrames ==
    [pc : FPcs, w : Nat, h : Nat, dst : Nat, src : Drawables \cup {None},
     fmt : Formats \cup {None}, stride : Nat, cw : Nat, ch : Nat, at : Int]

DeviceType(h) ==
    /\ h = [res |-> h.res, scanout |-> h.scanout, shown |-> h.shown]
    /\ h.res = [i \in DOMAIN h.res |-> h.res[i]]
    /\ DOMAIN h.res \subseteq Nat \ {0}
    /\ \A i \in DOMAIN h.res : h.res[i] \in Resources
    /\ h.scanout \in {0} \cup DOMAIN h.res
    /\ h.shown \in Pictures

MemoryType ==
    /\ mem = [b \in DOMAIN mem |-> mem[b]]
    /\ DOMAIN mem \subseteq Nat
    /\ \A b \in DOMAIN mem : mem[b] \in Bufs

Types ==
    /\ gs \in States
    /\ MemoryType
    /\ DeviceType(host)
    /\ late \in [queue : Seq(Commands), ever : BOOLEAN]
    /\ late.queue # <<>> => late.ever
    /\ io_lock \in {None, "flush"}
    /\ rtg \in RFrames
    /\ rtg.pc = "panning" => rtg.surface \in Surfaces
    /\ fl \in FFrames
    /\ calls \in 0 .. MaxCalls

Locked == io_lock = "flush" <=> fl.pc \in Holding

\* Past the first assignment the old framebuffer is only known to the resize.
Half == rtg.pc = "assign" /\ rtg.field > 1

Between ==
    IF rtg.pc \in Building \/ (rtg.pc = "assign" /\ ~Half) THEN {rtg.buf}
    ELSE IF Half \/ rtg.pc \in Replacing THEN {rtg.old_mem}
    ELSE {}

\* The buffers the driver has are the framebuffer, the cursor image and what a
\* resize has in its hands; a callback names the buffer it allocates.
Owned ==
    /\ DOMAIN mem = ({gs.fb_mem, gs.cursor_mem} \ {None}) \cup Between
    /\ gs.fb_mem # gs.cursor_mem /\ gs.cursor_mem # 0
    /\ {gs.fb_mem, gs.cursor_mem} \cap Between = {}
    /\ \A b \in DOMAIN mem : b <= calls
    /\ rtg.pc \in Starting => calls \notin DOMAIN mem
    /\ rtg.pc # "assign" => rtg.field = 1
    /\ gs.cursor_created => gs.cursor_mem # None
    /\ rtg.pc \in Cursoring => gs.cursor_mem # None /\ ~gs.cursor_created
    /\ rtg.pc \notin Cursoring /\ ~gs.cursor_created => gs.cursor_mem = None
    /\ Half \/ rtg.pc \in Replacing => gs.fb_mem = rtg.buf

\* A flush writes into the framebuffer, or into the old one while the resize
\* waits for io_lock.
Target ==
    fl.pc \in {"convert", "clamp", "rows"} =>
        \/ fl.dst = gs.fb_mem
        \/ (Half \/ rtg.pc = "unref_old") /\ fl.dst = rtg.old_mem

\* Numbers handed out so far, and what the device has or may yet make of them.
Numbers ==
    LET n == gs.next_resource_id IN
    /\ n = 0 \/ n >= 3
    /\ n <= calls + 3
    /\ rtg.pc \in Starting => n <= calls + 2
    /\ gs.fb_resource_id < n \/ (n = 0 /\ gs.fb_resource_id = 1)
    /\ gs.resource_id < n \/ (n = 0 /\ gs.resource_id = 1)
    /\ rtg.pc \in Building \cup Replacing \cup {"assign"} =>
          rtg.id >= 2 /\ rtg.id < n /\ n >= 3
    /\ rtg.pc \in Building \cup {"assign"} => rtg.id # gs.cursor_resource_id
    /\ Half \/ rtg.pc = "unref_old" => rtg.old_res < n

Created ==
    LET n == gs.next_resource_id IN
    /\ \A i \in DOMAIN host.res : i < n \/ i \in {gs.fb_resource_id, CursorId}
    /\ \A k \in 1 .. Len(late.queue) : late.queue[k].op = "create" =>
          late.queue[k].id < n \/ late.queue[k].id = CursorId

Fresh == Numbers /\ Created

\* Whose number is whose.
Names ==
    /\ rtg.pc \in Replacing => gs.fb_resource_id = rtg.id
    /\ rtg.pc \in Building => rtg.id # gs.fb_resource_id
    /\ rtg.pc = "assign" => rtg.id # gs.fb_resource_id
    /\ rtg.pc # "assign" => gs.resource_id = gs.fb_resource_id
    /\ rtg.pc = "assign" => gs.resource_id = IF rtg.field = 6 THEN rtg.id ELSE gs.fb_resource_id
    /\ Half => rtg.old_res = gs.fb_resource_id
    /\ rtg.pc = "unref_old" => rtg.old_res # gs.fb_resource_id
    /\ rtg.pc \in {"cursor_attach", "cursor_done"} \/ gs.cursor_created =>
          gs.fb_resource_id # CursorId /\ gs.cursor_resource_id = CursorId
    /\ rtg.pc \in Cursoring => gs.cursor_resource_id = CursorId

\* The resources of the framebuffer are there and nothing takes them away.
Present ==
    /\ {gs.fb_resource_id, gs.resource_id} \subseteq DOMAIN host.res
    /\ rtg.pc = "assign" => rtg.id \in DOMAIN host.res
    /\ \A k \in 1 .. Len(late.queue) : late.queue[k].op = "unref" =>
          /\ late.queue[k].id \notin {gs.fb_resource_id, gs.resource_id}
          /\ rtg.pc \in Wanted => late.queue[k].id # rtg.id
          /\ late.queue[k].id < gs.next_resource_id

Named == Names /\ Present

\* Until a command is given up on: the resources are the framebuffer's, the
\* cursor's and what a resize has in its hands, each with its own memory.
Held ==
    {gs.fb_resource_id, gs.cursor_resource_id}
      \cup (IF rtg.pc \in Made \cup {"assign"} THEN {rtg.id} ELSE {})
      \cup (IF rtg.pc = "unref_old" THEN {rtg.old_res} ELSE {})

Backed ==
    LET res == host.res IN
    /\ DOMAIN res \subseteq Held
    /\ res[gs.fb_resource_id].backing = IF Half THEN rtg.old_mem ELSE gs.fb_mem
    /\ \A i \in DOMAIN res :
          /\ rtg.pc = "attach" /\ i = rtg.id => res[i].backing = None
          /\ rtg.pc \in {"scanout", "assign"} /\ i = rtg.id => res[i].backing = rtg.buf
          /\ rtg.pc = "unref_new" /\ i = rtg.id => res[i].backing \in {None, rtg.buf}
          /\ rtg.pc = "unref_old" /\ i = rtg.old_res => res[i].backing = rtg.old_mem
          /\ /\ i = CursorId /\ gs.cursor_resource_id = CursorId
             /\ i # gs.fb_resource_id
             /\ rtg.pc = "unref_old" => i # rtg.old_res
             => res[i].backing = IF gs.cursor_created \/ rtg.pc = "cursor_done"
                                 THEN gs.cursor_mem ELSE None

\* The sizes the driver and the device have of the framebuffer, and its kind.
Sized ==
    LET res == host.res IN
    /\ \A i \in DOMAIN res : res[i].blob = (gs.fb_is_blob /\ i = 1)
    /\ rtg.pc \in {"attach", "scanout", "assign"} =>
          /\ rtg.id \in DOMAIN res
          /\ res[rtg.id].w = gs.active_width /\ res[rtg.id].h = gs.active_height
    /\ rtg.pc # "assign" => /\ res[gs.fb_resource_id].w = gs.fb_width
                            /\ res[gs.fb_resource_id].h = gs.fb_height
    /\ rtg.pc = "assign" /\ rtg.field > 2 => gs.fb_width = gs.active_width
    /\ rtg.pc = "assign" /\ rtg.field > 3 => gs.fb_height = gs.active_height

\* What the device scans out; a new power level is pending while SetDPMSLevel runs.
Scanning ==
    gs.dpms_level = 0 /\ "dpms" \notin rtg.failed /\ rtg.pc # "dpms" =>
        host.scanout = IF rtg.pc = "assign" THEN rtg.id ELSE gs.fb_resource_id

Sound == ~late.ever => Backed /\ Sized /\ Scanning

\* How far the mode that was asked for has got.
Applied ==
    rtg.failed = {} =>
        LET fb == <<gs.fb_width, gs.fb_height>>
            active == <<gs.active_width, gs.active_height>>
            asked == <<rtg.mode.w, rtg.mode.h>>
        IN  /\ rtg.pc \notin {"unref_new", "free_new"}
            /\ rtg.pc \in {"idle", "panning", "dpms"} \cup Replacing \cup Cursoring =>
                  fb = asked /\ active = asked
            /\ rtg.pc \in {"resize", "assign"} \cup Building => active = asked
            /\ rtg.pc = "width" => active = fb /\ rtg.dims_changed = (asked # active)
            /\ rtg.pc = "height" =>
                  /\ gs.active_width = rtg.mode.w
                  /\ ~rtg.dims_changed => fb = asked
            /\ rtg.pc = "assign" /\ rtg.field > 2 => gs.fb_width = rtg.mode.w
            /\ rtg.pc = "assign" /\ rtg.field > 3 => gs.fb_height = rtg.mode.h

\* A flush that has not been overtaken by a callback.
Undisturbed == fl.at = calls

NowWidth == Smaller(gs.active_width, gs.fb_width)
NowHeight == Smaller(gs.active_height, gs.fb_height)

\* What an undisturbed flush has read and carried over is what there is.
Read ==
    /\ rtg.pc = "idle" /\ gs.dpms_level = 0
    /\ fl.pc # "idle" => fl.w = NowWidth
    /\ fl.pc \notin {"idle", "height"} => fl.h = NowHeight
    /\ fl.pc \in {"convert", "clamp", "rows"} => fl.dst = gs.fb_mem
    /\ fl.pc \in {"clamp", "rows"} => /\ fl.src = gs.panning_mem
                                       /\ fl.fmt = gs.active_format
    /\ fl.pc = "rows" => fl.cw = NowWidth /\ fl.ch = NowHeight
    /\ fl.pc \in {"transfer", "flush"} => mem[gs.fb_mem].pixels = CurrentPicture

Clean ==
    /\ ~late.ever /\ "dpms" \notin rtg.failed
    /\ gs.fb_is_blob => gs.fb_resource_id = 1

Seen ==
    Clean => /\ fl.pc = "flush" => Picture(host.res[gs.fb_resource_id]) = CurrentPicture
             /\ fl.pc \in {"release", "idle"} => host.shown = CurrentPicture

Carried == Read /\ Seen

Settling == fl.at <= calls /\ (Undisturbed => Carried)

IInv ==
    /\ Types /\ Locked /\ Owned /\ Target /\ Fresh /\ Named
    /\ Sound /\ Applied /\ Settling
-----------------------------------------------------------------------------

(* The assignments of a resize, field by field.                            *)

Assigning(n, g, l, field, old_mem, old_res) ==
    /\ rtg.pc = "assign" /\ rtg.field = n
    /\ gs' = g
    /\ rtg' = [rtg EXCEPT !.pc = l, !.field = field, !.old_mem = old_mem,
                          !.old_res = old_res]
    /\ UNCHANGED <<mem, host, late, io_lock, fl, calls, overrun>>

AssignMem == Assigning(1, [gs EXCEPT !.fb_mem = rtg.buf], "assign", 2,
                       gs.fb_mem, gs.fb_resource_id)
AssignWidth == Assigning(2, [gs EXCEPT !.fb_width = gs.active_width], "assign", 3,
                         rtg.old_mem, rtg.old_res)
AssignHeight == Assigning(3, [gs EXCEPT !.fb_height = gs.active_height], "assign", 4,
                          rtg.old_mem, rtg.old_res)
AssignStride == Assigning(4, [gs EXCEPT !.fb_stride = gs.active_width], "assign", 5,
                          rtg.old_mem, rtg.old_res)
AssignResource == Assigning(5, [gs EXCEPT !.resource_id = rtg.id], "assign", 6,
                            rtg.old_mem, rtg.old_res)
AssignFb == Assigning(6, [gs EXCEPT !.fb_resource_id = rtg.id], "unref_old", 1,
                      rtg.old_mem, rtg.old_res)

LEMMA AssignCases ==
    ASSUME Types, ResizeAssign
    PROVE  \/ AssignMem \/ AssignWidth \/ AssignHeight
           \/ AssignStride \/ AssignResource \/ AssignFb
<1>1. rtg.field \in 1 .. 6
  BY DEF Types, RFrames
<1>2. Len(Assignments) = 6
  BY DEF Assignments
<1>3. /\ rtg.pc = "assign"
      /\ gs' = [gs EXCEPT ![Assignments[rtg.field]] = Assigned(Assignments[rtg.field])]
      /\ rtg' = [rtg EXCEPT !.pc = IF rtg.field = 6 THEN AfterAssign ELSE "assign",
                            !.field = IF rtg.field = 6 THEN 1 ELSE @ + 1,
                            !.old_mem = IF rtg.field = 1 THEN gs.fb_mem ELSE @,
                            !.old_res = IF rtg.field = 1 THEN gs.fb_resource_id ELSE @]
      /\ UNCHANGED <<mem, host, late, io_lock, fl, calls, overrun>>
  BY <1>2 DEF ResizeAssign
<1>4. CASE rtg.field = 1
  <2>1. Assignments[1] = "fb_mem"
    BY DEF Assignments
  <2>2. Assigned("fb_mem") = rtg.buf
    BY DEF Assigned
  <2>3. gs' = [gs EXCEPT ![Assignments[1]] = Assigned("fb_mem")]
    BY <1>3, <1>4, <2>1
  <2>4. gs' = [gs EXCEPT !.fb_mem = rtg.buf]
    BY <2>1, <2>2, <2>3
  <2>5. rtg.field + 1 = 2
    BY <1>4
  <2>6. rtg' = [rtg EXCEPT !.pc = "assign", !.field = 2,
                          !.old_mem = gs.fb_mem, !.old_res = gs.fb_resource_id]
    BY <1>3, <1>4, <2>5 DEF AfterAssign
  <2> QED BY <1>3, <1>4, <2>4, <2>6 DEF AssignMem, Assigning
<1>5. CASE rtg.field = 2
  <2>1. Assignments[2] = "fb_width"
    BY DEF Assignments
  <2>2. Assigned("fb_width") = gs.active_width
    BY DEF Assigned
  <2>3. gs' = [gs EXCEPT ![Assignments[2]] = Assigned("fb_width")]
    BY <1>3, <1>5, <2>1
  <2>4. gs' = [gs EXCEPT !.fb_width = gs.active_width]
    BY <2>1, <2>2, <2>3
  <2>5. rtg.field + 1 = 3
    BY <1>5
  <2>6. rtg' = [rtg EXCEPT !.pc = "assign", !.field = 3,
                          !.old_mem = rtg.old_mem, !.old_res = rtg.old_res]
    BY <1>3, <1>5, <2>5 DEF AfterAssign
  <2> QED BY <1>3, <1>5, <2>4, <2>6 DEF AssignWidth, Assigning
<1>6. CASE rtg.field = 3
  <2>1. Assignments[3] = "fb_height"
    BY DEF Assignments
  <2>2. Assigned("fb_height") = gs.active_height
    BY DEF Assigned
  <2>3. gs' = [gs EXCEPT ![Assignments[3]] = Assigned("fb_height")]
    BY <1>3, <1>6, <2>1
  <2>4. gs' = [gs EXCEPT !.fb_height = gs.active_height]
    BY <2>1, <2>2, <2>3
  <2>5. rtg.field + 1 = 4
    BY <1>6
  <2>6. rtg' = [rtg EXCEPT !.pc = "assign", !.field = 4,
                          !.old_mem = rtg.old_mem, !.old_res = rtg.old_res]
    BY <1>3, <1>6, <2>5 DEF AfterAssign
  <2> QED BY <1>3, <1>6, <2>4, <2>6 DEF AssignHeight, Assigning
<1>7. CASE rtg.field = 4
  <2>1. Assignments[4] = "fb_stride"
    BY DEF Assignments
  <2>2. Assigned("fb_stride") = gs.active_width
    BY DEF Assigned
  <2>3. gs' = [gs EXCEPT ![Assignments[4]] = Assigned("fb_stride")]
    BY <1>3, <1>7, <2>1
  <2>4. gs' = [gs EXCEPT !.fb_stride = gs.active_width]
    BY <2>1, <2>2, <2>3
  <2>5. rtg.field + 1 = 5
    BY <1>7
  <2>6. rtg' = [rtg EXCEPT !.pc = "assign", !.field = 5,
                          !.old_mem = rtg.old_mem, !.old_res = rtg.old_res]
    BY <1>3, <1>7, <2>5 DEF AfterAssign
  <2> QED BY <1>3, <1>7, <2>4, <2>6 DEF AssignStride, Assigning
<1>8. CASE rtg.field = 5
  <2>1. Assignments[5] = "resource_id"
    BY DEF Assignments
  <2>2. Assigned("resource_id") = rtg.id
    BY DEF Assigned
  <2>3. gs' = [gs EXCEPT ![Assignments[5]] = Assigned("resource_id")]
    BY <1>3, <1>8, <2>1
  <2>4. gs' = [gs EXCEPT !.resource_id = rtg.id]
    BY <2>1, <2>2, <2>3
  <2>5. rtg.field + 1 = 6
    BY <1>8
  <2>6. rtg' = [rtg EXCEPT !.pc = "assign", !.field = 6,
                          !.old_mem = rtg.old_mem, !.old_res = rtg.old_res]
    BY <1>3, <1>8, <2>5 DEF AfterAssign
  <2> QED BY <1>3, <1>8, <2>4, <2>6 DEF AssignResource, Assigning
<1>9. CASE rtg.field = 6
  <2>1. Assignments[6] = "fb_resource_id"
    BY DEF Assignments
  <2>2. Assigned("fb_resource_id") = rtg.id
    BY DEF Assigned
  <2>3. gs' = [gs EXCEPT ![Assignments[6]] = Assigned("fb_resource_id")]
    BY <1>3, <1>9, <2>1
  <2>4. gs' = [gs EXCEPT !.fb_resource_id = rtg.id]
    BY <2>1, <2>2, <2>3
  <2>5. rtg.field + 1 = 7
    BY <1>9
  <2>6. rtg' = [rtg EXCEPT !.pc = "unref_old", !.field = 1,
                          !.old_mem = rtg.old_mem, !.old_res = rtg.old_res]
    BY <1>3, <1>9, <2>5 DEF AfterAssign
  <2> QED BY <1>3, <1>9, <2>4, <2>6 DEF AssignFb, Assigning
<1> QED BY <1>1, <1>4, <1>5, <1>6, <1>7, <1>8, <1>9

-----------------------------------------------------------------------------
(* What a command does to the device.                                      *)

LEMMA Constants ==
    /\ None \notin Nat /\ MaxCalls \in Nat /\ MaxLate \in Nat
    /\ None # "rtg" /\ None # "flush"
BY DisplayAssumption

LEMMA ModeSizes ==
    ASSUME NEW m \in Modes
    PROVE  m.w \in Nat /\ m.h \in Nat /\ m.fmt \in Formats
BY DisplayAssumption DEF Formats

LEMMA SmallerSize ==
    ASSUME NEW a \in Nat, NEW b \in Nat
    PROVE  Smaller(a, b) \in Nat /\ Smaller(a, b) <= a /\ Smaller(a, b) <= b
BY DEF Smaller

LEMMA PictureType ==
    ASSUME Types, NEW r \in Resources
    PROVE  Drawn(r) \in Pictures /\ Picture(r) \in Pictures
BY DEF Types, MemoryType, Drawn, Picture, Resources, Bufs, Pictures

LEMMA ExecCreate ==
    ASSUME DeviceType(host), NEW c, c.op = "create"
    PROVE  LET h == Execute(host, c) IN
           /\ Accepts(host, c) => c.id # 0 /\ c.id \notin DOMAIN host.res
           /\ h.res = [i \in DOMAIN host.res \cup {c.id} |->
                         IF i = c.id
                         THEN [w |-> c.w, h |-> c.h, blob |-> FALSE,
                               backing |-> None, pixels |-> Blank]
                         ELSE host.res[i]]
           /\ h = [res |-> h.res, scanout |-> host.scanout, shown |-> host.shown]
BY DEF Execute, Accepts, DeviceType

LEMMA ExecAttach ==
    ASSUME DeviceType(host), NEW c, c.op = "attach", Accepts(host, c)
    PROVE  LET h == Execute(host, c) IN
           /\ c.id \in DOMAIN host.res
           /\ h.res = [host.res EXCEPT ![c.id] = [@ EXCEPT !.backing = c.buf]]
           /\ h = [res |-> h.res, scanout |-> host.scanout, shown |-> host.shown]
BY DEF Execute, Accepts, DeviceType

LEMMA ExecScanout ==
    ASSUME DeviceType(host), NEW c, c.op = "scanout", Accepts(host, c)
    PROVE  LET h == Execute(host, c) IN
           /\ c.id = 0 \/ c.id \in DOMAIN host.res
           /\ h = [res |-> host.res, scanout |-> c.id,
                   shown |-> IF c.id = 0 THEN Blank ELSE Picture(host.res[c.id])]
BY DEF Execute, Accepts, DeviceType

LEMMA ExecTransfer ==
    ASSUME DeviceType(host), NEW c, c.op = "transfer", Accepts(host, c)
    PROVE  LET h == Execute(host, c) IN
           /\ c.id \in DOMAIN host.res
           /\ h.res = [host.res EXCEPT ![c.id] = [@ EXCEPT !.pixels = Drawn(host.res[c.id])]]
           /\ h = [res |-> h.res, scanout |-> host.scanout, shown |-> host.shown]
BY DEF Execute, Accepts, DeviceType

LEMMA ExecFlush ==
    ASSUME DeviceType(host), NEW c, c.op = "flush", Accepts(host, c)
    PROVE  LET h == Execute(host, c) IN
           /\ c.id \in DOMAIN host.res
           /\ h = [res |-> host.res, scanout |-> host.scanout,
                   shown |-> IF host.scanout = c.id THEN Picture(host.res[c.id])
                             ELSE host.shown]
BY DEF Execute, Accepts, DeviceType

LEMMA ExecUnref ==
    ASSUME DeviceType(host), NEW c, c.op = "unref", Accepts(host, c)
    PROVE  LET h == Execute(host, c) IN
           /\ c.id \in DOMAIN host.res
           /\ h.res = [i \in DOMAIN host.res \ {c.id} |-> host.res[i]]
           /\ h = [res |-> h.res,
                   scanout |-> IF host.scanout = c.id THEN 0 ELSE host.scanout,
                   shown |-> IF host.scanout = c.id THEN Blank ELSE host.shown]
BY DEF Execute, Accepts, DeviceType

\* What a command leaves of the resources.
LEMMA Executed ==
    ASSUME Types, NEW c \in Commands, Accepts(host, c)
    PROVE  /\ DeviceType(Execute(host, c))
           /\ c.op # "unref" => DOMAIN host.res \subseteq DOMAIN Execute(host, c).res
           /\ c.op = "unref" => DOMAIN Execute(host, c).res = DOMAIN host.res \ {c.id}
           /\ DOMAIN Execute(host, c).res \subseteq
                 DOMAIN host.res \cup (IF c.op = "create" THEN {c.id} ELSE {})
<1> DEFINE h == Execute(host, c)
<1>1. DeviceType(host)
  BY DEF Types
<1>2. c.id \in Nat /\ c.w \in Nat /\ c.h \in Nat /\ c.buf \in Nat \cup {None}
  BY DEF Commands
<1>3. Blank \in Pictures
  BY DEF Pictures
<1> HIDE DEF h
<1>4. CASE c.op = "create"
  <2>1. /\ c.id # 0
        /\ h.res = [i \in DOMAIN host.res \cup {c.id} |->
                      IF i = c.id
                      THEN [w |-> c.w, h |-> c.h, blob |-> FALSE,
                            backing |-> None, pixels |-> Blank]
                      ELSE host.res[i]]
        /\ h = [res |-> h.res, scanout |-> host.scanout, shown |-> host.shown]
    BY <1>1, <1>4, ExecCreate DEF h
  <2>2. [w |-> c.w, h |-> c.h, blob |-> FALSE, backing |-> None, pixels |-> Blank]
           \in Resources
    BY <1>2, <1>3 DEF Resources
  <2> QED BY <1>1, <1>2, <1>4, <2>1, <2>2 DEF DeviceType, h
<1>5. CASE c.op = "attach"
  <2>1. /\ c.id \in DOMAIN host.res
        /\ h.res = [host.res EXCEPT ![c.id] = [@ EXCEPT !.backing = c.buf]]
        /\ h = [res |-> h.res, scanout |-> host.scanout, shown |-> host.shown]
    BY <1>1, <1>5, ExecAttach DEF h
  <2>2. [host.res[c.id] EXCEPT !.backing = c.buf] \in Resources
    BY <1>1, <1>2, <2>1 DEF DeviceType, Resources
  <2> QED BY <1>1, <1>5, <2>1, <2>2 DEF DeviceType, h
<1>6. CASE c.op = "scanout"
  <2>1. /\ c.id = 0 \/ c.id \in DOMAIN host.res
        /\ h = [res |-> host.res, scanout |-> c.id,
                shown |-> IF c.id = 0 THEN Blank ELSE Picture(host.res[c.id])]
    BY <1>1, <1>6, ExecScanout DEF h
  <2>2. h.shown \in Pictures
    BY <1>1, <1>3, <2>1, PictureType DEF DeviceType
  <2> QED BY <1>1, <1>6, <2>1, <2>2 DEF DeviceType, h
<1>7. CASE c.op = "transfer"
  <2>1. /\ c.id \in DOMAIN host.res
        /\ h.res = [host.res EXCEPT ![c.id] = [@ EXCEPT !.pixels = Drawn(host.res[c.id])]]
        /\ h = [res |-> h.res, scanout |-> host.scanout, shown |-> host.shown]
    BY <1>1, <1>7, ExecTransfer DEF h
  <2>2. host.res[c.id] \in Resources
    BY <1>1, <2>1 DEF DeviceType
  <2>3. Drawn(host.res[c.id]) \in Pictures
    BY <2>2, PictureType
  <2>4. [host.res[c.id] EXCEPT !.pixels = Drawn(host.res[c.id])] \in Resources
    BY <2>2, <2>3 DEF Resources
  <2> QED BY <1>1, <1>7, <2>1, <2>4 DEF DeviceType, h
<1>8. CASE c.op = "flush"
  <2>1. /\ c.id \in DOMAIN host.res
        /\ h = [res |-> host.res, scanout |-> host.scanout,
                shown |-> IF host.scanout = c.id THEN Picture(host.res[c.id])
                          ELSE host.shown]
    BY <1>1, <1>8, ExecFlush DEF h
  <2>2. h.shown \in Pictures
    BY <1>1, <2>1, PictureType DEF DeviceType
  <2> QED BY <1>1, <1>8, <2>1, <2>2 DEF DeviceType, h
<1>9. CASE c.op = "unref"
  <2>1. /\ c.id \in DOMAIN host.res
        /\ h.res = [i \in DOMAIN host.res \ {c.id} |-> host.res[i]]
        /\ h = [res |-> h.res,
                scanout |-> IF host.scanout = c.id THEN 0 ELSE host.scanout,
                shown |-> IF host.scanout = c.id THEN Blank ELSE host.shown]
    BY <1>1, <1>9, ExecUnref DEF h
  <2> QED BY <1>1, <1>3, <1>9, <2>1 DEF DeviceType, h
<1> QED BY <1>4, <1>5, <1>6, <1>7, <1>8, <1>9 DEF Commands, Refusable

\* A command of either task: it is carried out, or the device is as it was and
\* the command lost or late.
LEMMA Sent ==
    ASSUME Types, NEW t \in {"rtg", "flush"}, NEW c \in Commands,
           SendOk(t, c) \/ SendFails(t, c)
    PROVE  /\ io_lock \in {None, t}
           /\ \/ /\ late.queue = <<>> /\ Accepts(host, c)
                 /\ host' = Execute(host, c) /\ late' = late
              \/ host' = host /\ late' = late
              \/ host' = host /\ late' = [queue |-> Append(late.queue, c), ever |-> TRUE]
           /\ DeviceType(host')
           /\ late' \in [queue : Seq(Commands), ever : BOOLEAN]
           /\ late'.queue # <<>> => late'.ever
           /\ late.ever => late'.ever
<1>1. DeviceType(host) /\ late \in [queue : Seq(Commands), ever : BOOLEAN]
      /\ (late.queue # <<>> => late.ever)
  BY DEF Types
<1>2. CASE SendOk(t, c)
  BY <1>1, <1>2, Executed DEF SendOk
<1>3. CASE SendFails(t, c) /\ late' = late
  BY <1>1, <1>3 DEF SendFails
<1>4. CASE SendFails(t, c) /\ late' = [queue |-> Append(late.queue, c), ever |-> TRUE]
  <2>1. late.queue \in Seq(Commands)
    BY <1>1
  <2>2. Append(late.queue, c) \in Seq(Commands)
    BY <2>1, AppendProperties
  <2> QED BY <1>1, <1>4, <2>2 DEF SendFails
<1> QED BY <1>2, <1>3, <1>4 DEF SendFails

\* The device comes to a command nobody waits for.
LEMMA Later ==
    ASSUME Types, DevLate
    PROVE  /\ late.ever /\ late'.ever
           /\ late.queue # <<>> /\ late.queue \in Seq(Commands)
           /\ Head(late.queue) \in Commands
           /\ late'.queue = Tail(late.queue)
           /\ late' \in [queue : Seq(Commands), ever : BOOLEAN]
           /\ DeviceType(host')
           /\ \/ host' = host
              \/ Accepts(host, Head(late.queue)) /\ host' = Execute(host, Head(late.queue))
<1>1. /\ DeviceType(host) /\ late \in [queue : Seq(Commands), ever : BOOLEAN]
      /\ late.queue # <<>> /\ late.ever
      /\ late' = [late EXCEPT !.queue = Tail(@)]
  BY DEF DevLate, Types
<1>2. late.queue \in Seq(Commands)
  BY <1>1
<1>3. Head(late.queue) \in Commands /\ Tail(late.queue) \in Seq(Commands)
  BY <1>1, <1>2, HeadTailProperties
<1>4. \/ host' = host
      \/ Accepts(host, Head(late.queue)) /\ host' = Execute(host, Head(late.queue))
  BY DEF DevLate, DeviceDoes
<1>5. DeviceType(host')
  BY <1>1, <1>3, <1>4, Executed
<1> QED BY <1>1, <1>2, <1>3, <1>4, <1>5

-----------------------------------------------------------------------------
(* Types.                                                                  *)

\* chip_alloc_resource_id: the next number, or the first that is not reserved.
LEMMA AllocId ==
    ASSUME Types, Fresh
    PROVE  LET i == chip_alloc_resource_id
               n == gs.next_resource_id
           IN  /\ i \in Nat /\ i >= 2 /\ i >= n
               /\ i \notin Reserved
               /\ n >= 3 => i = n
               /\ n = 0 => i <= 3
<1> DEFINE n == gs.next_resource_id
           Free(i) == /\ i \notin Reserved
                      /\ \A j \in n .. i - 1 : j \in Reserved
           id == chip_alloc_resource_id
<1>1. /\ n \in Nat /\ gs.fb_resource_id \in Nat \ {0}
      /\ gs.cursor_resource_id \in {0, 2}
      /\ n = 0 \/ n >= 3
      /\ gs.fb_resource_id < n \/ (n = 0 /\ gs.fb_resource_id = 1)
  BY DEF Types, States, Fresh, Numbers, CursorId
<1>2. \E i \in n .. n + 3 : Free(i)
  <2>1. CASE n >= 3
    <3>1. n \in n .. n + 3 /\ Free(n)
      BY <1>1, <2>1 DEF Reserved
    <3> QED BY <3>1
  <2>2. CASE n = 0 /\ gs.cursor_resource_id = 0
    <3>1. 2 \in n .. n + 3 /\ Free(2)
      BY <1>1, <2>2 DEF Reserved
    <3> QED BY <3>1
  <2>3. CASE n = 0 /\ gs.cursor_resource_id = 2
    <3>1. 3 \in n .. n + 3 /\ Free(3)
      BY <1>1, <2>3 DEF Reserved
    <3> QED BY <3>1
  <2> QED BY <1>1, <2>1, <2>2, <2>3
<1>3. id \in n .. n + 3 /\ Free(id)
  <2>1. id = CHOOSE i \in n .. n + 3 : Free(i)
    BY DEF chip_alloc_resource_id
  <2> HIDE DEF Free, id
  <2> QED BY <1>2, <2>1
<1> HIDE DEF id
<1>4. id \in Nat /\ id >= n /\ id <= n + 3
  BY <1>1, <1>3
<1>5. n >= 3 => id = n
  <2> SUFFICES ASSUME n >= 3, id > n PROVE FALSE
    BY <1>4, <1>1
  <2>1. n \in n .. id - 1
    BY <1>1, <1>4
  <2>2. n \in Reserved
    BY <2>1, <1>3
  <2> QED BY <1>1, <2>2 DEF Reserved
<1>6. n = 0 => id >= 2 /\ id <= 3
  BY <1>1, <1>3, <1>4 DEF Reserved
<1> QED BY <1>1, <1>3, <1>4, <1>5, <1>6 DEF id

LEMMA Commandable ==
    ASSUME NEW op \in {"create", "attach", "scanout", "transfer", "flush", "unref"},
           NEW id \in Nat, NEW w \in Nat, NEW h \in Nat
    PROVE  /\ Command(op, id, w, h) \in Commands
           /\ \A b \in Nat : [Command(op, id, w, h) EXCEPT !.buf = b] \in Commands
BY DEF Command, Commands, Refusable

\* The fields of ChipGPUState.
LEMMA GsType ==
    ASSUME Types, Fresh, Next
    PROVE  gs' \in States
<1> USE DEF Types, States, RFrames
<1>1. ASSUME NEW m \in Modes, SetGC(m) PROVE gs' \in States
  BY <1>1, ModeSizes DEF SetGC
<1>2. ASSUME NEW sf \in Surfaces, SetPanning(sf) PROVE gs' \in States
  BY <1>2 DEF SetPanning, Drawables
<1>3. ASSUME NEW level \in {0, 3}, SetDPMSLevel(level)
     PROVE  gs' \in States
  BY <1>3 DEF SetDPMSLevel, Call, RGoto
<1>4. ASSUME CursorCreate PROVE gs' \in States
  <2>1. calls' \in Nat
    BY <1>4, Constants, SMTT(60) DEF CursorCreate, Call
  <2> QED BY <1>4, <2>1, ZenonT(60) DEF CursorCreate, CursorId
<1>5. ASSUME SetGCWidth PROVE gs' \in States
  BY <1>5, ModeSizes DEF SetGCWidth, RGoto
<1>6. ASSUME SetGCHeight PROVE gs' \in States
  BY <1>6, ModeSizes DEF SetGCHeight, RGoto
<1>7. ASSUME ResizeAlloc PROVE gs' \in States
  <2>1. chip_alloc_resource_id \in Nat
    BY AllocId
  <2>2. chip_alloc_resource_id + 1 \in Nat
    BY <2>1
  <2> QED BY <1>7, <2>2 DEF ResizeAlloc
<1>8. ASSUME AssignMem PROVE gs' \in States
  BY <1>8 DEF AssignMem, Assigning
<1>9. ASSUME AssignWidth PROVE gs' \in States
  BY <1>9 DEF AssignWidth, Assigning
<1>10. ASSUME AssignHeight PROVE gs' \in States
  BY <1>10 DEF AssignHeight, Assigning
<1>11. ASSUME AssignStride PROVE gs' \in States
  BY <1>11 DEF AssignStride, Assigning
<1>12. ASSUME AssignResource PROVE gs' \in States
  <2>1. rtg.id \in Nat \ {0}
    BY <1>12 DEF AssignResource, Assigning, Fresh, Numbers
  <2> QED BY <1>12, <2>1 DEF AssignResource, Assigning
<1>13. ASSUME AssignFb PROVE gs' \in States
  <2>1. rtg.id \in Nat \ {0}
    BY <1>13 DEF AssignFb, Assigning, Fresh, Numbers
  <2> QED BY <1>13, <2>1 DEF AssignFb, Assigning
<1>14. ASSUME SetPanningFormat PROVE gs' \in States
  BY <1>14 DEF SetPanningFormat, Formats
<1>15. ASSUME CursorDone PROVE gs' \in States
  BY <1>15 DEF CursorDone, Return, RGoto
<1>16. ASSUME CursorFail PROVE gs' \in States
  BY <1>16 DEF CursorFail
<1>17. ASSUME UNCHANGED gs PROVE gs' \in States
  BY <1>17
<1>18. ASSUME ModeCall PROVE gs' \in States
  BY <1>18, <1>1, <1>2, <1>3, <1>4, <1>17
     DEF ModeCall, SetGCNoOp, Call
<1>19. ASSUME ModeLocal PROVE gs' \in States
  BY AssignCases, <1>19, <1>5, <1>6, <1>7, <1>8, <1>9, <1>10, <1>11, <1>12,
     <1>13, <1>14, <1>15, <1>16, <1>17
     DEF ModeLocal, ResizeNothing, Return, RGoto, ResizeNoMemory,
         ResizeFreeNew, ResizeFreeOld
<1>20. ASSUME ModeCommand PROVE gs' \in States
  BY <1>20, <1>17
     DEF ModeCommand, ResizeCreate, ModeSend, Command, AfterCreateFails,
         ResizeAttach, ResizeScanout, Scanned, Retry, TriesAgain,
         AfterScanoutFails, ResizeUnrefNew, ResizeUnrefOld, SetDPMSLevelSend,
         DPMSScanout, CursorCreate2D, CursorAttach
<1>21. ASSUME Flush PROVE gs' \in States
  BY <1>21, <1>17
     DEF Flush, FlushWidth, FlushHeight, FlushObtain, ConvertStart,
         ConvertClamp, ConvertRows, TransferSkipped, TransferToHost2D,
         FlushSend, Command, ResourceFlush, FlushRelease
<1>22. ASSUME DevLate PROVE gs' \in States
  BY <1>22, <1>17
     DEF DevLate
<1> QED BY <1>18, <1>19, <1>20, <1>21, <1>22 DEF Next


\* Buffers come and go whole.
LEMMA WithType ==
    ASSUME Types, NEW b \in Nat, NEW w \in Nat, NEW h \in Nat, mem' = WithBuffer(b, w, h)
    PROVE  MemoryType' /\ DOMAIN mem' = DOMAIN mem \cup {b}
<1>1. Buffer(w, h) \in Bufs
  <2>1. w * h \in Nat
    OBVIOUS
  <2> QED BY <2>1 DEF Buffer, Bufs, Pictures
<1> QED BY <1>1 DEF Types, MemoryType, WithBuffer

LEMMA WithoutType ==
    ASSUME Types, NEW b, mem' = WithoutBuffer(b)
    PROVE  /\ MemoryType'
           /\ DOMAIN mem' = DOMAIN mem \ {b}
           /\ \A i \in DOMAIN mem' : mem'[i] = mem[i]
BY DEF Types, MemoryType, WithoutBuffer

\* The buffers of the driver.
LEMMA MemType ==
    ASSUME Types, Next
    PROVE  MemoryType'
<1>1. ASSUME CursorCreate PROVE MemoryType'
  <2>1. CASE mem' = WithBuffer(calls', 1, 1)
    <3>1. calls' \in Nat
      BY <1>1, Constants DEF Types, CursorCreate, Call
    <3> QED BY <2>1, <3>1, WithType
  <2>2. CASE UNCHANGED mem
    BY <2>2 DEF Types, MemoryType
  <2> QED BY <1>1, <2>1, <2>2 DEF CursorCreate
<1>2. ASSUME ResizeAlloc PROVE MemoryType'
  <2>1. calls \in Nat /\ gs.active_width \in Nat /\ gs.active_height \in Nat
    BY Constants DEF Types, States
  <2> QED BY <1>2, <2>1, WithType DEF ResizeAlloc
<1>3. ASSUME ResizeFreeNew PROVE MemoryType'
  BY <1>3, WithoutType DEF ResizeFreeNew
<1>4. ASSUME ResizeFreeOld PROVE MemoryType'
  BY <1>4, WithoutType DEF ResizeFreeOld
<1>5. ASSUME CursorFail PROVE MemoryType'
  BY <1>5, WithoutType DEF CursorFail
<1>6. ASSUME ConvertRows PROVE MemoryType'
  <2>1. MemoryType /\ fl \in FFrames /\ fl.pc = "rows"
    BY <1>6 DEF Types, ConvertRows
  <2>2. mem' = [b \in DOMAIN mem |->
                  IF b = fl.dst
                  THEN [mem[b] EXCEPT !.pixels = Pixels(fl.src, fl.fmt, fl.cw, fl.ch)]
                  ELSE mem[b]]
    BY <1>6 DEF ConvertRows
  <2>3. Pixels(fl.src, fl.fmt, fl.cw, fl.ch) \in Pictures
    BY <2>1 DEF Pixels, Pictures, FFrames
  <2>4. ASSUME NEW b \in DOMAIN mem
        PROVE  [mem[b] EXCEPT !.pixels = Pixels(fl.src, fl.fmt, fl.cw, fl.ch)] \in Bufs
    BY <2>1, <2>3 DEF MemoryType, Bufs
  <2> QED BY <2>1, <2>2, <2>4 DEF MemoryType
<1>7. ASSUME UNCHANGED mem PROVE MemoryType'
  <2>1. MemoryType
    BY DEF Types
  <2> QED BY <1>7, <2>1 DEF MemoryType
<1>8. ASSUME ModeCall PROVE MemoryType'
  BY <1>8, <1>1, <1>7
     DEF ModeCall, SetGCNoOp, Call, SetGC, SetPanning, SetDPMSLevel, RGoto
<1>9. ASSUME ModeLocal PROVE MemoryType'
  BY <1>9, <1>2, <1>3, <1>4, <1>5, <1>7
     DEF ModeLocal, SetGCWidth, RGoto, SetGCHeight, ResizeNothing, Return,
         ResizeNoMemory, ResizeAssign, SetPanningFormat, CursorDone
<1>10. ASSUME ModeCommand PROVE MemoryType'
  BY <1>10, <1>7
     DEF ModeCommand, ResizeCreate, ModeSend, Command, AfterCreateFails,
         ResizeAttach, ResizeScanout, Scanned, Retry, TriesAgain,
         AfterScanoutFails, ResizeUnrefNew, ResizeUnrefOld, SetDPMSLevelSend,
         DPMSScanout, CursorCreate2D, CursorAttach
<1>11. ASSUME Flush PROVE MemoryType'
  BY <1>11, <1>6, <1>7
     DEF Flush, FlushWidth, FlushHeight, FlushObtain, ConvertStart,
         ConvertClamp, TransferSkipped, TransferToHost2D, FlushSend, Command,
         ResourceFlush, FlushRelease
<1>12. ASSUME DevLate PROVE MemoryType'
  BY <1>12, <1>7
     DEF DevLate
<1> QED BY <1>8, <1>9, <1>10, <1>11, <1>12 DEF Next

-----------------------------------------------------------------------------
(* What the steps that send a command do.                                  *)

\* A step of the mode setting task that sends c at label l, and where it goes.
Sends(l, c, ok, fails) ==
    /\ rtg.pc = l
    /\ io_lock = None
    /\ UNCHANGED <<gs, mem, io_lock, fl, calls>>
    /\ DeviceType(host')
    /\ late' \in [queue : Seq(Commands), ever : BOOLEAN]
    /\ late'.queue # <<>> => late'.ever
    /\ late.ever => late'.ever
    /\ \/ /\ late.queue = <<>> /\ Accepts(host, c)
          /\ host' = Execute(host, c) /\ late' = late
          /\ rtg' = [rtg EXCEPT !.pc = ok, !.attempt = 0]
       \/ /\ host' = host
          /\ \/ late' = late /\ (~Accepts(host, c) \/ c.op \in Refusable)
             \/ late' = [queue |-> Append(late.queue, c), ever |-> TRUE]
          /\ \/ rtg' = [rtg EXCEPT !.pc = fails, !.failed = @ \cup {l}]
             \/ /\ l \in {"scanout", "dpms"} /\ rtg.attempt < 2
                /\ rtg' = [rtg EXCEPT !.attempt = @ + 1]
             \/ rtg' = [rtg EXCEPT !.pc = fails, !.attempt = 0, !.failed = @ \cup {l}]

LEMMA ModeSent ==
    ASSUME Types, NEW l, NEW c \in Commands, NEW ok, NEW fails,
           \/ ModeSend(l, c, ok, fails)
           \/ l \in {"scanout", "dpms"} /\ (Scanned(l, c, ok) \/ Retry(l, c, fails))
    PROVE  Sends(l, c, ok, fails)
<1>1. SendOk("rtg", c) \/ SendFails("rtg", c)
  BY DEF ModeSend, Scanned, Retry
<1>2. /\ io_lock = None
      /\ DeviceType(host')
      /\ late' \in [queue : Seq(Commands), ever : BOOLEAN]
      /\ late'.queue # <<>> => late'.ever
      /\ late.ever => late'.ever
  BY <1>1, Sent, Constants DEF Types
<1>3. rtg.pc = l /\ UNCHANGED <<gs, mem, io_lock, fl, calls>>
  BY DEF ModeSend, Scanned, Retry
<1>4. CASE SendOk("rtg", c) /\ rtg' = [rtg EXCEPT !.pc = ok, !.attempt = 0]
  BY <1>2, <1>3, <1>4 DEF Sends, SendOk
<1>5. ASSUME SendFails("rtg", c)
      PROVE  /\ host' = host
             /\ \/ late' = late /\ (~Accepts(host, c) \/ c.op \in Refusable)
                \/ late' = [queue |-> Append(late.queue, c), ever |-> TRUE]
  BY <1>5 DEF SendFails
<1>6. CASE SendFails("rtg", c) /\ rtg' = [rtg EXCEPT !.pc = fails, !.failed = @ \cup {l}]
  BY <1>2, <1>3, <1>5, <1>6 DEF Sends
<1>7. CASE /\ SendFails("rtg", c) /\ l \in {"scanout", "dpms"}
           /\ TriesAgain /\ rtg' = [rtg EXCEPT !.attempt = @ + 1]
  BY <1>2, <1>3, <1>5, <1>7 DEF Sends, TriesAgain
<1>8. CASE /\ SendFails("rtg", c)
           /\ rtg' = [rtg EXCEPT !.pc = fails, !.attempt = 0, !.failed = @ \cup {l}]
  BY <1>2, <1>3, <1>5, <1>8 DEF Sends
<1> QED BY <1>4, <1>6, <1>7, <1>8 DEF ModeSend, Scanned, Retry

\* A step of the flush task that sends c at label l.
FlushSends(l, c, ok, fails) ==
    /\ fl.pc = l
    /\ UNCHANGED <<gs, mem, io_lock, rtg, calls>>
    /\ DeviceType(host')
    /\ late' \in [queue : Seq(Commands), ever : BOOLEAN]
    /\ late'.queue # <<>> => late'.ever
    /\ late.ever => late'.ever
    /\ \/ /\ late.queue = <<>> /\ Accepts(host, c)
          /\ host' = Execute(host, c) /\ late' = late
          /\ fl' = [fl EXCEPT !.pc = ok]
       \/ /\ host' = host
          /\ \/ late' = late /\ (~Accepts(host, c) \/ c.op \in Refusable)
             \/ late' = [queue |-> Append(late.queue, c), ever |-> TRUE]
          /\ fl' = [fl EXCEPT !.pc = fails]

LEMMA FlushSent ==
    ASSUME Types, NEW l, NEW c \in Commands, NEW ok, NEW fails,
           FlushSend(l, c, ok, fails)
    PROVE  FlushSends(l, c, ok, fails)
<1>1. SendOk("flush", c) \/ SendFails("flush", c)
  BY DEF FlushSend
<1>2. /\ DeviceType(host')
      /\ late' \in [queue : Seq(Commands), ever : BOOLEAN]
      /\ late'.queue # <<>> => late'.ever
      /\ late.ever => late'.ever
  BY <1>1, Sent
<1>3. CASE SendOk("flush", c) /\ fl' = [fl EXCEPT !.pc = ok]
  BY <1>2, <1>3 DEF FlushSends, FlushSend, SendOk
<1>4. CASE SendFails("flush", c) /\ fl' = [fl EXCEPT !.pc = fails]
  BY <1>2, <1>4 DEF FlushSends, FlushSend, SendFails
<1> QED BY <1>3, <1>4 DEF FlushSend

\* The commands are well formed, and each action is such a step.
LEMMA ResizeCreateSends ==
    ASSUME Types, ResizeCreate
    PROVE  Sends("create", Command("create", rtg.id, gs.active_width, gs.active_height),
                 "attach", "free_new")
<1>1. Command("create", rtg.id, gs.active_width, gs.active_height) \in Commands
  BY Commandable DEF Types, States, RFrames, FFrames, CursorId
<1> QED BY <1>1, ModeSent DEF ResizeCreate, AfterCreateFails

LEMMA ResizeAttachSends ==
    ASSUME Types, ResizeAttach
    PROVE  Sends("attach", [Command("attach", rtg.id, 0, 0) EXCEPT !.buf = rtg.buf],
                 "scanout", "unref_new")
<1>1. [Command("attach", rtg.id, 0, 0) EXCEPT !.buf = rtg.buf] \in Commands
  BY Commandable DEF Types, States, RFrames, FFrames, CursorId
<1> QED BY <1>1, ModeSent DEF ResizeAttach

LEMMA ResizeScanoutSends ==
    ASSUME Types, ResizeScanout
    PROVE  Sends("scanout", Command("scanout", rtg.id, gs.active_width, gs.active_height),
                 "assign", "unref_new")
<1>1. Command("scanout", rtg.id, gs.active_width, gs.active_height) \in Commands
  BY Commandable DEF Types, States, RFrames, FFrames, CursorId
<1> QED BY <1>1, ModeSent DEF ResizeScanout, AfterScanoutFails

LEMMA ResizeUnrefNewSends ==
    ASSUME Types, ResizeUnrefNew
    PROVE  Sends("unref_new", Command("unref", rtg.id, 0, 0),
                 "free_new", "free_new")
<1>1. Command("unref", rtg.id, 0, 0) \in Commands
  BY Commandable DEF Types, States, RFrames, FFrames, CursorId
<1> QED BY <1>1, ModeSent DEF ResizeUnrefNew

LEMMA ResizeUnrefOldSends ==
    ASSUME Types, ResizeUnrefOld
    PROVE  Sends("unref_old", Command("unref", rtg.old_res, 0, 0),
                 "free_old", "free_old")
<1>1. Command("unref", rtg.old_res, 0, 0) \in Commands
  BY Commandable DEF Types, States, RFrames, FFrames, CursorId
<1> QED BY <1>1, ModeSent DEF ResizeUnrefOld

LEMMA SetDPMSLevelSendSends ==
    ASSUME Types, SetDPMSLevelSend
    PROVE  Sends("dpms", DPMSScanout, "idle", "idle")
<1>1. DPMSScanout \in Commands
  <2>1. /\ gs.resource_id \in Nat
        /\ Smaller(gs.active_width, gs.fb_width) \in Nat
        /\ Smaller(gs.active_height, gs.fb_height) \in Nat
    BY SmallerSize DEF Types, States
  <2> QED BY <2>1, Commandable DEF DPMSScanout
<1> QED BY <1>1, ModeSent DEF SetDPMSLevelSend

LEMMA CursorCreate2DSends ==
    ASSUME Types, CursorCreate2D
    PROVE  Sends("cursor_create", Command("create", CursorId, 1, 1),
                 "cursor_attach", "cursor_fail")
<1>1. Command("create", CursorId, 1, 1) \in Commands
  BY Commandable DEF Types, States, RFrames, FFrames, CursorId
<1> QED BY <1>1, ModeSent DEF CursorCreate2D

LEMMA CursorAttachSends ==
    ASSUME Types, CursorAttach, Owned
    PROVE  Sends("cursor_attach", [Command("attach", CursorId, 0, 0) EXCEPT !.buf = gs.cursor_mem],
                 "cursor_done", "cursor_fail")
<1>1. gs.cursor_mem \in Nat
  BY DEF Owned, Types, States, CursorAttach, ModeSend, Cursoring
<1>2. [Command("attach", CursorId, 0, 0) EXCEPT !.buf = gs.cursor_mem] \in Commands
  BY <1>1, Commandable DEF CursorId
<1> QED BY <1>2, ModeSent DEF CursorAttach

LEMMA TransferToHost2DSends ==
    ASSUME Types, TransferToHost2D
    PROVE  FlushSends("transfer", Command("transfer", gs.fb_resource_id, fl.w, fl.h),
                      "flush", "release")
<1>1. Command("transfer", gs.fb_resource_id, fl.w, fl.h) \in Commands
  BY Commandable DEF Types, States, RFrames, FFrames, CursorId
<1> QED BY <1>1, FlushSent DEF TransferToHost2D

LEMMA ResourceFlushSends ==
    ASSUME Types, ResourceFlush
    PROVE  FlushSends("flush", Command("flush", gs.fb_resource_id, fl.w, fl.h),
                      "release", "release")
<1>1. Command("flush", gs.fb_resource_id, fl.w, fl.h) \in Commands
  BY Commandable DEF Types, States, RFrames, FFrames, CursorId
<1> QED BY <1>1, FlushSent DEF ResourceFlush

-----------------------------------------------------------------------------
(* Types, continued: what remains of Types', and Types itself.             *)

DeviceTypes ==
    /\ DeviceType(host)
    /\ late \in [queue : Seq(Commands), ever : BOOLEAN]
    /\ late.queue # <<>> => late.ever

\* The device and the commands given up on.
LEMMA DeviceTyped ==
    ASSUME Types, Owned, Next
    PROVE  DeviceTypes'
<1>1. ASSUME ResizeCreate PROVE DeviceTypes'
  BY <1>1, ResizeCreateSends DEF Sends, DeviceTypes
<1>2. ASSUME ResizeAttach PROVE DeviceTypes'
  BY <1>2, ResizeAttachSends DEF Sends, DeviceTypes
<1>3. ASSUME ResizeScanout PROVE DeviceTypes'
  BY <1>3, ResizeScanoutSends DEF Sends, DeviceTypes
<1>4. ASSUME ResizeUnrefNew PROVE DeviceTypes'
  BY <1>4, ResizeUnrefNewSends DEF Sends, DeviceTypes
<1>5. ASSUME ResizeUnrefOld PROVE DeviceTypes'
  BY <1>5, ResizeUnrefOldSends DEF Sends, DeviceTypes
<1>6. ASSUME SetDPMSLevelSend PROVE DeviceTypes'
  BY <1>6, SetDPMSLevelSendSends DEF Sends, DeviceTypes
<1>7. ASSUME CursorCreate2D PROVE DeviceTypes'
  BY <1>7, CursorCreate2DSends DEF Sends, DeviceTypes
<1>8. ASSUME CursorAttach PROVE DeviceTypes'
  BY <1>8, CursorAttachSends DEF Sends, DeviceTypes
<1>9. ASSUME TransferToHost2D PROVE DeviceTypes'
  BY <1>9, TransferToHost2DSends DEF FlushSends, DeviceTypes
<1>10. ASSUME ResourceFlush PROVE DeviceTypes'
  BY <1>10, ResourceFlushSends DEF FlushSends, DeviceTypes
<1>11. ASSUME DevLate PROVE DeviceTypes'
  BY <1>11, Later DEF DeviceTypes
<1>12. ASSUME UNCHANGED <<host, late>> PROVE DeviceTypes'
  <2>1. DeviceTypes
    BY DEF DeviceTypes, Types
  <2> QED BY <1>12, <2>1 DEF DeviceTypes, DeviceType
<1>13. ASSUME ModeCall PROVE DeviceTypes'
  BY <1>13, <1>12
     DEF ModeCall, SetGCNoOp, Call, SetGC, SetPanning, SetDPMSLevel, RGoto,
         CursorCreate
<1>14. ASSUME ModeLocal PROVE DeviceTypes'
  BY <1>14, <1>12
     DEF ModeLocal, SetGCWidth, RGoto, SetGCHeight, ResizeNothing, Return,
         ResizeAlloc, ResizeNoMemory, ResizeFreeNew, ResizeAssign,
         ResizeFreeOld, SetPanningFormat, CursorDone, CursorFail
<1>15. ASSUME ModeCommand PROVE DeviceTypes'
  BY <1>15, <1>1, <1>2, <1>3, <1>4, <1>5, <1>6, <1>7, <1>8
     DEF ModeCommand
<1>16. ASSUME Flush PROVE DeviceTypes'
  BY <1>16, <1>9, <1>10, <1>12
     DEF Flush, FlushWidth, FlushHeight, FlushObtain, ConvertStart,
         ConvertClamp, ConvertRows, TransferSkipped, FlushRelease
<1> QED BY <1>13, <1>14, <1>15, <1>16, <1>11 DEF Next

RtgTypes ==
    /\ rtg \in RFrames
    /\ rtg.pc = "panning" => rtg.surface \in Surfaces

\* A step of the mode setting task that only moves on.
LEMMA RtgGoes ==
    ASSUME Types, NEW l \in RPcs \ {"panning"}, rtg' = [rtg EXCEPT !.pc = l]
    PROVE  RtgTypes'
<1>1. rtg \in RFrames
  BY DEF Types
<1> QED BY <1>1 DEF RFrames, RtgTypes

LEMMA RtgMoves ==
    ASSUME Types, NEW l \in RPcs \ {"panning"}, NEW n \in 0 .. 2, NEW f \in SUBSET RPcs,
           \/ rtg' = [rtg EXCEPT !.pc = l, !.attempt = n]
           \/ rtg' = [rtg EXCEPT !.pc = l, !.failed = f]
           \/ rtg' = [rtg EXCEPT !.pc = l, !.attempt = n, !.failed = f]
    PROVE  RtgTypes'
<1>1. rtg \in RFrames
  BY DEF Types
<1>2. CASE rtg' = [rtg EXCEPT !.pc = l, !.attempt = n]
  BY <1>1, <1>2 DEF RFrames, RtgTypes
<1>3. CASE rtg' = [rtg EXCEPT !.pc = l, !.failed = f]
  BY <1>1, <1>3 DEF RFrames, RtgTypes
<1>4. CASE rtg' = [rtg EXCEPT !.pc = l, !.attempt = n, !.failed = f]
  BY <1>1, <1>4 DEF RFrames, RtgTypes
<1> QED BY <1>2, <1>3, <1>4

LEMMA RtgAssigns ==
    ASSUME Types, NEW l \in RPcs \ {"panning"}, NEW n \in 1 .. 6, NEW b \in Nat, NEW r \in Nat,
           rtg' = [rtg EXCEPT !.pc = l, !.field = n, !.old_mem = b, !.old_res = r]
    PROVE  RtgTypes'
<1>1. rtg \in RFrames
  BY DEF Types
<1>2. rtg' \in RFrames
  BY <1>1 DEF RFrames
<1>3. rtg'.pc = l
  BY <1>1 DEF RFrames
<1> QED BY <1>2, <1>3 DEF RtgTypes

\* Sending touches the label, the count of attempts and what has failed.
LEMMA SendsMoves ==
    ASSUME Types, NEW l, NEW c, NEW ok, NEW fails, Sends(l, c, ok, fails)
    PROVE  /\ rtg.pc = l
           /\ rtg'.pc \in {ok, fails} \/ (rtg'.pc = l /\ l \in {"scanout", "dpms"})
           /\ rtg'.mode = rtg.mode /\ rtg'.surface = rtg.surface
           /\ rtg'.dims_changed = rtg.dims_changed
           /\ rtg'.id = rtg.id /\ rtg'.buf = rtg.buf /\ rtg'.field = rtg.field
           /\ rtg'.old_mem = rtg.old_mem /\ rtg'.old_res = rtg.old_res
<1>1. rtg \in RFrames /\ rtg.pc = l
  BY DEF Types, Sends
<1> DEFINE Kept ==
        /\ rtg'.mode = rtg.mode /\ rtg'.surface = rtg.surface
        /\ rtg'.dims_changed = rtg.dims_changed
        /\ rtg'.id = rtg.id /\ rtg'.buf = rtg.buf /\ rtg'.field = rtg.field
        /\ rtg'.old_mem = rtg.old_mem /\ rtg'.old_res = rtg.old_res
<1>2. CASE rtg' = [rtg EXCEPT !.pc = ok, !.attempt = 0]
  BY <1>1, <1>2 DEF RFrames
<1>3. CASE rtg' = [rtg EXCEPT !.pc = fails, !.failed = @ \cup {l}]
  BY <1>1, <1>3 DEF RFrames
<1>4. CASE rtg' = [rtg EXCEPT !.attempt = @ + 1] /\ l \in {"scanout", "dpms"}
  BY <1>1, <1>4 DEF RFrames
<1>5. CASE rtg' = [rtg EXCEPT !.pc = fails, !.attempt = 0, !.failed = @ \cup {l}]
  BY <1>1, <1>5, ZenonT(60) DEF RFrames
<1> QED BY <1>1, <1>2, <1>3, <1>4, <1>5 DEF Sends

LEMMA SendsTypes ==
    ASSUME Types, NEW l \in RPcs \ {"panning"}, NEW c, NEW ok \in RPcs \ {"panning"},
           NEW fails \in RPcs \ {"panning"}, Sends(l, c, ok, fails)
    PROVE  RtgTypes'
<1>1. rtg \in RFrames /\ rtg.pc = l
  BY DEF Types, Sends
<1>2. rtg.failed \cup {l} \in SUBSET RPcs
  BY <1>1 DEF RFrames
<1>3. CASE rtg.attempt < 2 /\ rtg' = [rtg EXCEPT !.attempt = @ + 1]
  <2>1. rtg.attempt + 1 \in 0 .. 2
    BY <1>1, <1>3 DEF RFrames
  <2> QED BY <1>1, <1>3, <2>1 DEF RFrames, RtgTypes
<1>4. 0 \in 0 .. 2
  OBVIOUS
<1> QED BY <1>1, <1>2, <1>3, <1>4, RtgMoves DEF Sends

\* The mode setting task.
LEMMA RtgTyped ==
    ASSUME Types, Fresh, Owned, Next
    PROVE  RtgTypes'
<1>1. ASSUME NEW m \in Modes, SetGCNoOp(m) PROVE RtgTypes'
  BY <1>1 DEF SetGCNoOp, Types, RFrames, RtgTypes, Call
<1>2. ASSUME NEW m \in Modes, SetGC(m) PROVE RtgTypes'
  <2>1. "width" \in RPcs
    BY DEF RPcs, Starting
  <2>2. PICK d \in BOOLEAN :
           rtg' = [rtg EXCEPT !.pc = "width", !.mode = m, !.dims_changed = d]
    BY <1>2 DEF SetGC
  <2> QED BY <2>1, <2>2 DEF Types, RFrames, RtgTypes
<1>3. ASSUME NEW sf \in Surfaces, SetPanning(sf) PROVE RtgTypes'
  <2>1. "panning" \in RPcs
    BY DEF RPcs
  <2> QED BY <1>3, <2>1 DEF SetPanning, Types, RFrames, RtgTypes
<1>4. ASSUME NEW level \in {0, 3}, SetDPMSLevel(level) PROVE RtgTypes'
  <2>1. "dpms" \in RPcs \ {"panning"}
    BY DEF RPcs, Starting, Building, Replacing, Cursoring
  <2>2. rtg' = [rtg EXCEPT !.pc = "dpms"]
    BY <1>4 DEF SetDPMSLevel, RGoto, Return
  <2> QED BY <2>1, <2>2, RtgGoes
<1>5. ASSUME CursorCreate PROVE RtgTypes'
  <2>1. CASE UNCHANGED rtg
    BY <2>1 DEF Types, RtgTypes
  <2>2. CASE rtg' = [rtg EXCEPT !.pc = "cursor_create"]
    <3>1. "cursor_create" \in RPcs \ {"panning"}
      BY DEF RPcs, Cursoring
    <3> QED BY <2>2, <3>1, RtgGoes
  <2> QED BY <1>5, <2>1, <2>2 DEF CursorCreate, RGoto
<1>6. ASSUME SetGCWidth PROVE RtgTypes'
  <2>1. "height" \in RPcs \ {"panning"}
    BY DEF RPcs, Starting, Building, Replacing, Cursoring
  <2>2. rtg' = [rtg EXCEPT !.pc = "height"]
    BY <1>6 DEF SetGCWidth, RGoto, Return
  <2> QED BY <2>1, <2>2, RtgGoes
<1>7. ASSUME SetGCHeight PROVE RtgTypes'
  <2>1. {"resize", "idle"} \subseteq RPcs \ {"panning"}
    BY DEF RPcs, Starting
  <2>2. \/ rtg' = [rtg EXCEPT !.pc = "resize"]
        \/ rtg' = [rtg EXCEPT !.pc = "idle"]
    BY <1>7 DEF SetGCHeight, RGoto
  <2> QED BY <2>1, <2>2, RtgGoes
<1>8. ASSUME ResizeNothing PROVE RtgTypes'
  <2>1. "idle" \in RPcs \ {"panning"}
    BY DEF RPcs, Starting, Building, Replacing, Cursoring
  <2>2. rtg' = [rtg EXCEPT !.pc = "idle"]
    BY <1>8 DEF ResizeNothing, RGoto, Return
  <2> QED BY <2>1, <2>2, RtgGoes
<1>9. ASSUME ResizeAlloc PROVE RtgTypes'
  <2>1. "create" \in RPcs
    BY DEF RPcs, Building
  <2>2. chip_alloc_resource_id \in Nat /\ calls \in Nat
    BY AllocId, Constants DEF Types
  <2> QED BY <1>9, <2>1, <2>2 DEF ResizeAlloc, Types, RFrames, RtgTypes
<1>10. ASSUME ResizeNoMemory PROVE RtgTypes'
  <2>1. rtg.failed \cup {"resize"} \in SUBSET RPcs /\ "idle" \in RPcs
    BY DEF Types, RFrames, RPcs, Starting
  <2> QED BY <1>10, <2>1 DEF ResizeNoMemory, Types, RFrames, RtgTypes
<1>11. ASSUME ResizeFreeNew PROVE RtgTypes'
  <2>1. "idle" \in RPcs \ {"panning"}
    BY DEF RPcs, Starting, Building, Replacing, Cursoring
  <2>2. rtg' = [rtg EXCEPT !.pc = "idle"]
    BY <1>11 DEF ResizeFreeNew, RGoto, Return
  <2> QED BY <2>1, <2>2, RtgGoes
<1>12. ASSUME AssignMem PROVE RtgTypes'
  <2>1. /\ "assign" \in RPcs \ {"panning"} /\ 2 \in 1 .. 6
        /\ gs.fb_mem \in Nat /\ gs.fb_resource_id \in Nat
    BY DEF Types, States, RFrames, RPcs, Replacing
  <2>2. rtg' = [rtg EXCEPT !.pc = "assign", !.field = 2, !.old_mem = gs.fb_mem,
                          !.old_res = gs.fb_resource_id]
    BY <1>12 DEF AssignMem, Assigning
  <2> QED BY <2>1, <2>2, RtgAssigns
<1>13. ASSUME AssignWidth PROVE RtgTypes'
  <2>1. /\ "assign" \in RPcs \ {"panning"} /\ 3 \in 1 .. 6
        /\ rtg.old_mem \in Nat /\ rtg.old_res \in Nat
    BY DEF Types, States, RFrames, RPcs, Replacing
  <2>2. rtg' = [rtg EXCEPT !.pc = "assign", !.field = 3, !.old_mem = rtg.old_mem,
                          !.old_res = rtg.old_res]
    BY <1>13 DEF AssignWidth, Assigning
  <2> QED BY <2>1, <2>2, RtgAssigns
<1>14. ASSUME AssignHeight PROVE RtgTypes'
  <2>1. /\ "assign" \in RPcs \ {"panning"} /\ 4 \in 1 .. 6
        /\ rtg.old_mem \in Nat /\ rtg.old_res \in Nat
    BY DEF Types, States, RFrames, RPcs, Replacing
  <2>2. rtg' = [rtg EXCEPT !.pc = "assign", !.field = 4, !.old_mem = rtg.old_mem,
                          !.old_res = rtg.old_res]
    BY <1>14 DEF AssignHeight, Assigning
  <2> QED BY <2>1, <2>2, RtgAssigns
<1>15. ASSUME AssignStride PROVE RtgTypes'
  <2>1. /\ "assign" \in RPcs \ {"panning"} /\ 5 \in 1 .. 6
        /\ rtg.old_mem \in Nat /\ rtg.old_res \in Nat
    BY DEF Types, States, RFrames, RPcs, Replacing
  <2>2. rtg' = [rtg EXCEPT !.pc = "assign", !.field = 5, !.old_mem = rtg.old_mem,
                          !.old_res = rtg.old_res]
    BY <1>15 DEF AssignStride, Assigning
  <2> QED BY <2>1, <2>2, RtgAssigns
<1>16. ASSUME AssignResource PROVE RtgTypes'
  <2>1. /\ "assign" \in RPcs \ {"panning"} /\ 6 \in 1 .. 6
        /\ rtg.old_mem \in Nat /\ rtg.old_res \in Nat
    BY DEF Types, States, RFrames, RPcs, Replacing
  <2>2. rtg' = [rtg EXCEPT !.pc = "assign", !.field = 6, !.old_mem = rtg.old_mem,
                          !.old_res = rtg.old_res]
    BY <1>16 DEF AssignResource, Assigning
  <2> QED BY <2>1, <2>2, RtgAssigns
<1>17. ASSUME AssignFb PROVE RtgTypes'
  <2>1. /\ "unref_old" \in RPcs \ {"panning"} /\ 1 \in 1 .. 6
        /\ rtg.old_mem \in Nat /\ rtg.old_res \in Nat
    BY DEF Types, States, RFrames, RPcs, Replacing
  <2>2. rtg' = [rtg EXCEPT !.pc = "unref_old", !.field = 1, !.old_mem = rtg.old_mem,
                          !.old_res = rtg.old_res]
    BY <1>17 DEF AssignFb, Assigning
  <2> QED BY <2>1, <2>2, RtgAssigns
<1>18. ASSUME ResizeFreeOld PROVE RtgTypes'
  <2>1. "idle" \in RPcs \ {"panning"}
    BY DEF RPcs, Starting, Building, Replacing, Cursoring
  <2>2. rtg' = [rtg EXCEPT !.pc = "idle"]
    BY <1>18 DEF ResizeFreeOld, RGoto, Return
  <2> QED BY <2>1, <2>2, RtgGoes
<1>19. ASSUME SetPanningFormat PROVE RtgTypes'
  <2>1. "idle" \in RPcs \ {"panning"}
    BY DEF RPcs, Starting, Building, Replacing, Cursoring
  <2>2. rtg' = [rtg EXCEPT !.pc = "idle"]
    BY <1>19 DEF SetPanningFormat, RGoto, Return
  <2> QED BY <2>1, <2>2, RtgGoes
<1>20. ASSUME CursorDone PROVE RtgTypes'
  <2>1. "idle" \in RPcs \ {"panning"}
    BY DEF RPcs, Starting, Building, Replacing, Cursoring
  <2>2. rtg' = [rtg EXCEPT !.pc = "idle"]
    BY <1>20 DEF CursorDone, RGoto, Return
  <2> QED BY <2>1, <2>2, RtgGoes
<1>21. ASSUME CursorFail PROVE RtgTypes'
  <2>1. "idle" \in RPcs \ {"panning"}
    BY DEF RPcs, Starting, Building, Replacing, Cursoring
  <2>2. rtg' = [rtg EXCEPT !.pc = "idle"]
    BY <1>21 DEF CursorFail, RGoto, Return
  <2> QED BY <2>1, <2>2, RtgGoes
<1>22. ASSUME ResizeCreate PROVE RtgTypes'
  <2>1. {"create", "attach", "free_new"} \subseteq RPcs \ {"panning"}
    BY DEF RPcs, Starting, Building, Replacing, Cursoring
  <2>2. Sends("create", Command("create", rtg.id, gs.active_width, gs.active_height),
              "attach", "free_new")
    BY <1>22, ResizeCreateSends
  <2> QED BY <2>1, <2>2, SendsTypes
<1>23. ASSUME ResizeAttach PROVE RtgTypes'
  <2>1. {"attach", "scanout", "unref_new"} \subseteq RPcs \ {"panning"}
    BY DEF RPcs, Starting, Building, Replacing, Cursoring
  <2>2. Sends("attach", [Command("attach", rtg.id, 0, 0) EXCEPT !.buf = rtg.buf],
              "scanout", "unref_new")
    BY <1>23, ResizeAttachSends
  <2> QED BY <2>1, <2>2, SendsTypes
<1>24. ASSUME ResizeScanout PROVE RtgTypes'
  <2>1. {"scanout", "assign", "unref_new"} \subseteq RPcs \ {"panning"}
    BY DEF RPcs, Starting, Building, Replacing, Cursoring
  <2>2. Sends("scanout", Command("scanout", rtg.id, gs.active_width, gs.active_height),
              "assign", "unref_new")
    BY <1>24, ResizeScanoutSends
  <2> QED BY <2>1, <2>2, SendsTypes
<1>25. ASSUME ResizeUnrefNew PROVE RtgTypes'
  <2>1. {"unref_new", "free_new", "free_new"} \subseteq RPcs \ {"panning"}
    BY DEF RPcs, Starting, Building, Replacing, Cursoring
  <2>2. Sends("unref_new", Command("unref", rtg.id, 0, 0),
              "free_new", "free_new")
    BY <1>25, ResizeUnrefNewSends
  <2> QED BY <2>1, <2>2, SendsTypes
<1>26. ASSUME ResizeUnrefOld PROVE RtgTypes'
  <2>1. {"unref_old", "free_old", "free_old"} \subseteq RPcs \ {"panning"}
    BY DEF RPcs, Starting, Building, Replacing, Cursoring
  <2>2. Sends("unref_old", Command("unref", rtg.old_res, 0, 0),
              "free_old", "free_old")
    BY <1>26, ResizeUnrefOldSends
  <2> QED BY <2>1, <2>2, SendsTypes
<1>27. ASSUME SetDPMSLevelSend PROVE RtgTypes'
  <2>1. {"dpms", "idle", "idle"} \subseteq RPcs \ {"panning"}
    BY DEF RPcs, Starting, Building, Replacing, Cursoring
  <2>2. Sends("dpms", DPMSScanout, "idle", "idle")
    BY <1>27, SetDPMSLevelSendSends
  <2> QED BY <2>1, <2>2, SendsTypes
<1>28. ASSUME CursorCreate2D PROVE RtgTypes'
  <2>1. {"cursor_create", "cursor_attach", "cursor_fail"} \subseteq RPcs \ {"panning"}
    BY DEF RPcs, Starting, Building, Replacing, Cursoring
  <2>2. Sends("cursor_create", Command("create", CursorId, 1, 1),
              "cursor_attach", "cursor_fail")
    BY <1>28, CursorCreate2DSends
  <2> QED BY <2>1, <2>2, SendsTypes
<1>29. ASSUME CursorAttach PROVE RtgTypes'
  <2>1. {"cursor_attach", "cursor_done", "cursor_fail"} \subseteq RPcs \ {"panning"}
    BY DEF RPcs, Starting, Building, Replacing, Cursoring
  <2>2. Sends("cursor_attach", [Command("attach", CursorId, 0, 0) EXCEPT !.buf = gs.cursor_mem],
              "cursor_done", "cursor_fail")
    BY <1>29, CursorAttachSends
  <2> QED BY <2>1, <2>2, SendsTypes
<1>30. ASSUME UNCHANGED rtg PROVE RtgTypes'
  BY <1>30 DEF Types, RtgTypes
<1>31. ASSUME ModeCall PROVE RtgTypes'
  BY <1>31, <1>1, <1>2, <1>3, <1>4, <1>5
     DEF ModeCall
<1>32. ASSUME ModeLocal PROVE RtgTypes'
  BY AssignCases, <1>32, <1>6, <1>7, <1>8, <1>9, <1>10, <1>11, <1>12, <1>13,
     <1>14, <1>15, <1>16, <1>17, <1>18, <1>19, <1>20, <1>21
     DEF ModeLocal
<1>33. ASSUME ModeCommand PROVE RtgTypes'
  BY <1>33, <1>22, <1>23, <1>24, <1>25, <1>26, <1>27, <1>28, <1>29
     DEF ModeCommand
<1>34. ASSUME Flush PROVE RtgTypes'
  BY <1>34, <1>30
     DEF Flush, FlushWidth, FlushHeight, FlushObtain, ConvertStart,
         ConvertClamp, ConvertRows, TransferSkipped, TransferToHost2D,
         FlushSend, Command, ResourceFlush, FlushRelease
<1>35. ASSUME DevLate PROVE RtgTypes'
  BY <1>35, <1>30
     DEF DevLate
<1> QED BY <1>31, <1>32, <1>33, <1>34, <1>35 DEF Next

\* The flush task.
LEMMA FlushTyped ==
    ASSUME Types, Next
    PROVE  fl' \in FFrames
<1>1. ASSUME FlushWidth PROVE fl' \in FFrames
  <2>1. Smaller(gs.active_width, gs.fb_width) \in Nat
    BY SmallerSize DEF Types, States
  <2>2. (IF rtg.pc = "idle" THEN calls ELSE -1) \in Int
    BY Constants DEF Types
  <2>3. PICK t \in Int : fl' = [fl EXCEPT !.pc = "height", !.at = t,
                                       !.w = Smaller(gs.active_width, gs.fb_width)]
    BY <1>1, <2>2 DEF FlushWidth
  <2> QED BY <2>1, <2>3 DEF Types, FFrames, FPcs
<1>2. ASSUME FlushHeight PROVE fl' \in FFrames
  <2>1. Smaller(gs.active_height, gs.fb_height) \in Nat
    BY SmallerSize DEF Types, States
  <2> QED BY <1>2, <2>1 DEF FlushHeight, Types, FFrames, FPcs
<1>3. ASSUME FlushObtain PROVE fl' \in FFrames
  BY <1>3 DEF FlushObtain, Types, States, FFrames, FPcs, Holding
<1>4. ASSUME ConvertStart PROVE fl' \in FFrames
  <2>1. gs.panning_mem \in Drawables /\ gs.active_format \in Formats /\ gs.fb_stride \in Nat
    BY DEF Types, States
  <2> QED BY <1>4, <2>1 DEF ConvertStart, Types, FFrames, FPcs, Holding
<1>5. ASSUME ConvertClamp PROVE fl' \in FFrames
  <2>1. /\ Smaller(gs.active_width, gs.fb_width) \in Nat
        /\ Smaller(gs.active_height, gs.fb_height) \in Nat
        /\ fl.w \in Nat /\ fl.h \in Nat
    BY SmallerSize DEF Types, States, FFrames
  <2>2. /\ Smaller(fl.w, Smaller(gs.active_width, gs.fb_width)) \in Nat
        /\ Smaller(fl.h, Smaller(gs.active_height, gs.fb_height)) \in Nat
    BY <2>1, SmallerSize
  <2> QED BY <1>5, <2>2 DEF ConvertClamp, Types, FFrames, FPcs, Holding
<1>6. ASSUME ConvertRows PROVE fl' \in FFrames
  BY <1>6 DEF ConvertRows, Types, FFrames, FPcs, Holding
<1>7. ASSUME TransferSkipped PROVE fl' \in FFrames
  BY <1>7 DEF TransferSkipped, Types, FFrames, FPcs, Holding
<1>8. ASSUME TransferToHost2D PROVE fl' \in FFrames
  BY <1>8, TransferToHost2DSends, SMTT(60) DEF FlushSends, Types, FFrames, FPcs, Holding
<1>9. ASSUME ResourceFlush PROVE fl' \in FFrames
  BY <1>9, ResourceFlushSends DEF FlushSends, Types, FFrames, FPcs, Holding
<1>10. ASSUME FlushRelease PROVE fl' \in FFrames
  BY <1>10 DEF FlushRelease, Types, FFrames, FPcs, Holding
<1>11. ASSUME UNCHANGED fl PROVE fl' \in FFrames
  BY <1>11 DEF Types
<1>12. ASSUME ModeCall PROVE fl' \in FFrames
  BY <1>12, <1>11
     DEF ModeCall, SetGCNoOp, Call, SetGC, SetPanning, SetDPMSLevel, RGoto,
         CursorCreate
<1>13. ASSUME ModeLocal PROVE fl' \in FFrames
  BY <1>13, <1>11
     DEF ModeLocal, SetGCWidth, RGoto, SetGCHeight, ResizeNothing, Return,
         ResizeAlloc, ResizeNoMemory, ResizeFreeNew, ResizeAssign,
         ResizeFreeOld, SetPanningFormat, CursorDone, CursorFail
<1>14. ASSUME ModeCommand PROVE fl' \in FFrames
  BY <1>14, <1>11
     DEF ModeCommand, ResizeCreate, ModeSend, Command, AfterCreateFails,
         ResizeAttach, ResizeScanout, Scanned, Retry, TriesAgain,
         AfterScanoutFails, ResizeUnrefNew, ResizeUnrefOld, SetDPMSLevelSend,
         DPMSScanout, CursorCreate2D, CursorAttach
<1>15. ASSUME Flush PROVE fl' \in FFrames
  BY <1>15, <1>1, <1>2, <1>3, <1>4, <1>5, <1>6, <1>7, <1>8, <1>9, <1>10
     DEF Flush
<1>16. ASSUME DevLate PROVE fl' \in FFrames
  BY <1>16, <1>11
     DEF DevLate
<1> QED BY <1>12, <1>13, <1>14, <1>15, <1>16 DEF Next

\* The callbacks called.
LEMMA CallsTyped ==
    ASSUME Types, Next
    PROVE  calls' \in 0 .. MaxCalls
<1>1. ASSUME NEW m \in Modes, SetGCNoOp(m)
     PROVE  calls' \in 0 .. MaxCalls
  BY <1>1, Constants DEF SetGCNoOp, Call, Types
<1>2. ASSUME NEW m \in Modes, SetGC(m) PROVE calls' \in 0 .. MaxCalls
  BY <1>2, Constants DEF SetGC, Call, Types
<1>3. ASSUME NEW sf \in Surfaces, SetPanning(sf)
     PROVE  calls' \in 0 .. MaxCalls
  BY <1>3, Constants DEF SetPanning, Call, Types
<1>4. ASSUME NEW level \in {0, 3}, SetDPMSLevel(level)
     PROVE  calls' \in 0 .. MaxCalls
  BY <1>4, Constants DEF SetDPMSLevel, Call, Types
<1>5. ASSUME CursorCreate PROVE calls' \in 0 .. MaxCalls
  BY <1>5, Constants DEF CursorCreate, Call, Types
<1>6. ASSUME UNCHANGED calls PROVE calls' \in 0 .. MaxCalls
  BY <1>6 DEF Types
<1>7. ASSUME ModeCall PROVE calls' \in 0 .. MaxCalls
  BY <1>7, <1>1, <1>2, <1>3, <1>4, <1>5
     DEF ModeCall
<1>8. ASSUME ModeLocal PROVE calls' \in 0 .. MaxCalls
  BY <1>8, <1>6
     DEF ModeLocal, SetGCWidth, RGoto, SetGCHeight, ResizeNothing, Return,
         ResizeAlloc, ResizeNoMemory, ResizeFreeNew, ResizeAssign,
         ResizeFreeOld, SetPanningFormat, CursorDone, CursorFail
<1>9. ASSUME ModeCommand PROVE calls' \in 0 .. MaxCalls
  BY <1>9, <1>6
     DEF ModeCommand, ResizeCreate, ModeSend, Command, AfterCreateFails,
         ResizeAttach, ResizeScanout, Scanned, Retry, TriesAgain,
         AfterScanoutFails, ResizeUnrefNew, ResizeUnrefOld, SetDPMSLevelSend,
         DPMSScanout, CursorCreate2D, CursorAttach
<1>10. ASSUME Flush PROVE calls' \in 0 .. MaxCalls
  BY <1>10, <1>6
     DEF Flush, FlushWidth, FlushHeight, FlushObtain, ConvertStart,
         ConvertClamp, ConvertRows, TransferSkipped, TransferToHost2D,
         FlushSend, Command, ResourceFlush, FlushRelease
<1>11. ASSUME DevLate PROVE calls' \in 0 .. MaxCalls
  BY <1>11, <1>6
     DEF DevLate
<1> QED BY <1>7, <1>8, <1>9, <1>10, <1>11 DEF Next

\* io_lock is held exactly by the part of a flush that follows FlushObtain.
LEMMA LockKept ==
    ASSUME Types, Locked, Next
    PROVE  Locked' /\ io_lock' \in {None, "flush"}
<1>1. ASSUME FlushWidth PROVE Locked' /\ io_lock' \in {None, "flush"}
  BY <1>1, Constants DEF FlushWidth, Types, FFrames, Locked, Holding
<1>2. ASSUME FlushHeight PROVE Locked' /\ io_lock' \in {None, "flush"}
  BY <1>2, Constants DEF FlushHeight, Types, FFrames, Locked, Holding
<1>3. ASSUME FlushObtain PROVE Locked' /\ io_lock' \in {None, "flush"}
  BY <1>3, Constants DEF FlushObtain, Types, FFrames, Locked, Holding
<1>4. ASSUME ConvertStart
     PROVE  Locked' /\ io_lock' \in {None, "flush"}
  BY <1>4, Constants DEF ConvertStart, Types, FFrames, Locked, Holding
<1>5. ASSUME ConvertClamp
     PROVE  Locked' /\ io_lock' \in {None, "flush"}
  BY <1>5, Constants DEF ConvertClamp, Types, FFrames, Locked, Holding
<1>6. ASSUME ConvertRows PROVE Locked' /\ io_lock' \in {None, "flush"}
  BY <1>6, Constants DEF ConvertRows, Types, FFrames, Locked, Holding
<1>7. ASSUME TransferSkipped
     PROVE  Locked' /\ io_lock' \in {None, "flush"}
  BY <1>7, Constants DEF TransferSkipped, Types, FFrames, Locked, Holding
<1>8. ASSUME TransferToHost2D
     PROVE  Locked' /\ io_lock' \in {None, "flush"}
  BY <1>8, TransferToHost2DSends, Constants
      DEF FlushSends, Types, FFrames, Locked, Holding
<1>9. ASSUME ResourceFlush
     PROVE  Locked' /\ io_lock' \in {None, "flush"}
  BY <1>9, ResourceFlushSends, Constants
      DEF FlushSends, Types, FFrames, Locked, Holding
<1>10. ASSUME FlushRelease
     PROVE  Locked' /\ io_lock' \in {None, "flush"}
  BY <1>10, Constants DEF FlushRelease, Types, FFrames, Locked, Holding
<1>11. ASSUME UNCHANGED <<io_lock, fl>> PROVE Locked' /\ io_lock' \in {None, "flush"}
  BY <1>11 DEF Types, Locked
<1>12. ASSUME ModeCall PROVE Locked' /\ io_lock' \in {None, "flush"}
  BY <1>12, <1>11
     DEF ModeCall, SetGCNoOp, Call, SetGC, SetPanning, SetDPMSLevel, RGoto,
         CursorCreate
<1>13. ASSUME ModeLocal PROVE Locked' /\ io_lock' \in {None, "flush"}
  BY <1>13, <1>11
     DEF ModeLocal, SetGCWidth, RGoto, SetGCHeight, ResizeNothing, Return,
         ResizeAlloc, ResizeNoMemory, ResizeFreeNew, ResizeAssign,
         ResizeFreeOld, SetPanningFormat, CursorDone, CursorFail
<1>14. ASSUME ModeCommand PROVE Locked' /\ io_lock' \in {None, "flush"}
  BY <1>14, <1>11
     DEF ModeCommand, ResizeCreate, ModeSend, Command, AfterCreateFails,
         ResizeAttach, ResizeScanout, Scanned, Retry, TriesAgain,
         AfterScanoutFails, ResizeUnrefNew, ResizeUnrefOld, SetDPMSLevelSend,
         DPMSScanout, CursorCreate2D, CursorAttach
<1>15. ASSUME Flush PROVE Locked' /\ io_lock' \in {None, "flush"}
  BY <1>15, <1>1, <1>2, <1>3, <1>4, <1>5, <1>6, <1>7, <1>8, <1>9, <1>10
     DEF Flush
<1>16. ASSUME DevLate PROVE Locked' /\ io_lock' \in {None, "flush"}
  BY <1>16, <1>11
     DEF DevLate
<1> QED BY <1>12, <1>13, <1>14, <1>15, <1>16 DEF Next

LEMMA TypesStep ==
    ASSUME Types, Fresh, Owned, Locked, Next
    PROVE  Types'
BY GsType, MemType, DeviceTyped, LockKept, RtgTyped, FlushTyped, CallsTyped
   DEF Types, DeviceTypes, RtgTypes

-----------------------------------------------------------------------------
(* Who owns which buffer.                                                  *)

\* While the task stays within one part of a callback, and while it is called
\* or returns, nothing changes hands.
Making == Building \cup {"assign"}
Calm == {"idle", "panning", "dpms"}
Parts == {Making, Replacing, Cursoring, Calm}

LEMMA OwnedKept ==
    ASSUME Types, Owned, NEW S \in Parts, rtg.pc \in S, rtg'.pc \in S, rtg.pc # "assign",
           rtg'.field = rtg.field, rtg'.buf = rtg.buf, rtg'.old_mem = rtg.old_mem,
           gs'.fb_mem = gs.fb_mem, gs'.cursor_mem = gs.cursor_mem,
           gs'.cursor_created = gs.cursor_created, DOMAIN mem' = DOMAIN mem,
           calls' \in {calls, calls + 1}
    PROVE  Owned'
<1>1. /\ calls \in Nat /\ \A b \in DOMAIN mem : b \in Nat
  BY Constants DEF Types, MemoryType
<1>2. rtg.field = 1 /\ ~Half /\ ~Half'
  BY DEF Owned, Half
<1>3. /\ Between' = Between
      /\ rtg.pc \notin Starting /\ rtg'.pc \notin Starting
      /\ rtg.pc \in Cursoring <=> rtg'.pc \in Cursoring
      /\ rtg.pc \in Replacing <=> rtg'.pc \in Replacing
  <2>1. CASE S = Making
    BY <1>2, <2>1 DEF Making, Between, Building, Replacing, Starting, Cursoring
  <2>2. CASE S = Replacing
    BY <1>2, <2>2 DEF Between, Building, Replacing, Starting, Cursoring
  <2>3. CASE S = Cursoring
    BY <1>2, <2>3 DEF Between, Building, Replacing, Starting, Cursoring
  <2>4. CASE S = Calm
    BY <1>2, <2>4 DEF Calm, Between, Building, Replacing, Starting, Cursoring
  <2> QED BY <2>1, <2>2, <2>3, <2>4 DEF Parts
<1> QED BY <1>1, <1>2, <1>3 DEF Owned

LEMMA OwnedSends ==
    ASSUME Types, Owned, NEW l, NEW c, NEW ok, NEW fails, Sends(l, c, ok, fails),
           NEW S \in Parts, {l, ok, fails} \subseteq S, l # "assign", ok = "assign" => ok # fails
    PROVE  Owned'
<1>1. /\ rtg.pc = l /\ rtg'.pc \in {l, ok, fails}
      /\ rtg'.field = rtg.field /\ rtg'.buf = rtg.buf /\ rtg'.old_mem = rtg.old_mem
  BY SendsMoves
<1>2. UNCHANGED <<gs, mem, calls>>
  BY DEF Sends
<1> QED BY <1>1, <1>2, OwnedKept

\* Owned is kept.
LEMMA OwnedStep ==
    ASSUME Types, Owned, Next
    PROVE  Owned'
<1>t. /\ gs \in States /\ rtg \in RFrames /\ fl \in FFrames /\ calls \in Nat
      /\ None \notin Nat
  BY Constants DEF Types
<1>1. ASSUME NEW m \in Modes, SetGCNoOp(m) PROVE Owned'
  <2>1. /\ rtg.pc \in Calm /\ rtg'.pc \in Calm /\ Calm \in Parts
        /\ rtg.pc # "assign" /\ rtg'.field = rtg.field
        /\ rtg'.buf = rtg.buf /\ rtg'.old_mem = rtg.old_mem
        /\ gs'.fb_mem = gs.fb_mem /\ gs'.cursor_mem = gs.cursor_mem
        /\ gs'.cursor_created = gs.cursor_created /\ UNCHANGED mem
        /\ calls' \in {calls, calls + 1}
    BY <1>1, <1>t DEF SetGCNoOp, Call, Parts, Calm, States, RFrames
  <2> QED BY <2>1, OwnedKept
<1>2. ASSUME NEW m \in Modes, SetGC(m) PROVE Owned'
  BY <1>2, <1>t DEF SetGC, Call, Owned, Between, Half, Building, Replacing,
       Starting, Cursoring, States, RFrames
<1>3. ASSUME NEW sf \in Surfaces, SetPanning(sf) PROVE Owned'
  <2>1. /\ rtg.pc \in Calm /\ rtg'.pc \in Calm /\ Calm \in Parts
        /\ rtg.pc # "assign" /\ rtg'.field = rtg.field
        /\ rtg'.buf = rtg.buf /\ rtg'.old_mem = rtg.old_mem
        /\ gs'.fb_mem = gs.fb_mem /\ gs'.cursor_mem = gs.cursor_mem
        /\ gs'.cursor_created = gs.cursor_created /\ UNCHANGED mem
        /\ calls' \in {calls, calls + 1}
    BY <1>3, <1>t DEF SetPanning, Call, Parts, Calm, States, RFrames
  <2> QED BY <2>1, OwnedKept
<1>4. ASSUME NEW level \in {0, 3}, SetDPMSLevel(level) PROVE Owned'
  <2>1. /\ rtg.pc \in Calm /\ rtg'.pc \in Calm /\ Calm \in Parts
        /\ rtg.pc # "assign" /\ rtg'.field = rtg.field
        /\ rtg'.buf = rtg.buf /\ rtg'.old_mem = rtg.old_mem
        /\ gs'.fb_mem = gs.fb_mem /\ gs'.cursor_mem = gs.cursor_mem
        /\ gs'.cursor_created = gs.cursor_created /\ UNCHANGED mem
        /\ calls' \in {calls, calls + 1}
    BY <1>4, <1>t DEF SetDPMSLevel, Call, RGoto, Parts, Calm, States, RFrames
  <2> QED BY <2>1, OwnedKept
<1>5. ASSUME CursorCreate PROVE Owned'
  <2>1. CASE UNCHANGED <<gs, mem, rtg>>
    <3>1. Calm \in Parts /\ rtg.pc = "idle" /\ "idle" \in Calm /\ calls' = calls + 1
      BY <1>5 DEF Parts, Calm, CursorCreate, Call
    <3> QED BY <2>1, <3>1, OwnedKept
  <2>2. CASE /\ mem' = WithBuffer(calls', 1, 1)
             /\ gs' = [gs EXCEPT !.cursor_mem = calls', !.cursor_resource_id = CursorId]
             /\ rtg' = [rtg EXCEPT !.pc = "cursor_create"]
    <3>1. rtg.pc = "idle" /\ ~gs.cursor_created /\ calls' = calls + 1 /\ calls' \in Nat
      BY <1>5, <1>t DEF CursorCreate, Call
    <3>2. DOMAIN mem' = DOMAIN mem \cup {calls'}
      BY <2>2, <3>1, WithType
    <3>3. gs.cursor_mem = None /\ Between = {} /\ DOMAIN mem \subseteq 0 .. calls
      BY <1>t, <3>1
          DEF Types, MemoryType, Owned, Between, Half, Building, Replacing,
              Starting, Cursoring, States, RFrames
    <3>4. /\ gs'.cursor_mem = calls' /\ gs'.fb_mem = gs.fb_mem
          /\ gs'.cursor_created = gs.cursor_created
          /\ rtg'.pc = "cursor_create" /\ rtg'.field = rtg.field
      BY <1>t, <2>2 DEF States, RFrames
    <3> QED BY <1>t, <3>1, <3>2, <3>3, <3>4
                DEF Owned, Between, Half, Building, Replacing, Starting,
                    Cursoring, States, RFrames
  <2> QED BY <1>5, <2>1, <2>2 DEF CursorCreate, RGoto
<1>6. ASSUME SetGCWidth PROVE Owned'
  BY <1>6, <1>t DEF SetGCWidth, RGoto, Return, Owned, Between, Half, Building,
       Replacing, Starting, Cursoring, States, RFrames
<1>7. ASSUME SetGCHeight PROVE Owned'
  BY <1>7, <1>t DEF SetGCHeight, RGoto, Return, Owned, Between, Half, Building,
       Replacing, Starting, Cursoring, States, RFrames
<1>8. ASSUME ResizeNothing PROVE Owned'
  BY <1>8, <1>t
      DEF ResizeNothing, RGoto, Return, Owned, Between, Half, Building,
       Replacing, Starting, Cursoring, States, RFrames
<1>9. ASSUME ResizeAlloc PROVE Owned'
  <2>1. gs.active_width \in Nat /\ gs.active_height \in Nat
    BY <1>t DEF States
  <2>2. DOMAIN mem' = DOMAIN mem \cup {calls}
    BY <1>9, <1>t, <2>1, WithType DEF ResizeAlloc
  <2> QED BY <1>9, <1>t, <2>2
              DEF ResizeAlloc, Owned, Between, Half, Building, Replacing,
                  Starting, Cursoring, States, RFrames
<1>10. ASSUME ResizeNoMemory PROVE Owned'
  BY <1>10, <1>t DEF ResizeNoMemory, Owned, Between, Half, Building, Replacing,
       Starting, Cursoring, States, RFrames
<1>11. ASSUME ResizeFreeNew PROVE Owned'
  <2>1. /\ rtg.pc = "free_new" /\ rtg'.pc = "idle" /\ rtg'.field = rtg.field
        /\ gs'.fb_mem = gs.fb_mem /\ gs'.cursor_mem = gs.cursor_mem
        /\ gs'.cursor_created = gs.cursor_created /\ calls' = calls
    BY <1>11, <1>t DEF ResizeFreeNew, RGoto, Return, States, RFrames
  <2>2. DOMAIN mem' = DOMAIN mem \ {rtg.buf}
    BY <1>11, WithoutType DEF ResizeFreeNew
  <2>3. Between = {rtg.buf} /\ Between' = {} /\ ~Half /\ ~Half'
        /\ gs.fb_mem # None
    BY <1>t, <2>1
        DEF Between, Owned, Half, Building, Replacing, Cursoring, States
  <2> QED BY <1>t, <2>1, <2>2, <2>3
              DEF Owned, Half, Building, Replacing, Starting, Cursoring
<1>12. ASSUME AssignMem PROVE Owned'
  <2>1. /\ rtg.pc = "assign" /\ rtg.field = 1 /\ UNCHANGED <<mem, calls>>
        /\ rtg'.pc = "assign" /\ rtg'.field = 2 /\ rtg'.buf = rtg.buf
        /\ rtg'.old_mem = gs.fb_mem /\ gs'.fb_mem = rtg.buf
        /\ gs'.cursor_mem = gs.cursor_mem /\ gs'.cursor_created = gs.cursor_created
    BY <1>12, <1>t DEF AssignMem, Assigning, States, RFrames
  <2>2. Between = {rtg.buf} /\ Between' = {gs.fb_mem} /\ gs.fb_mem # None
        /\ rtg.buf # None
    BY <1>t, <2>1 DEF Between, Half, Building, States, RFrames
  <2> QED BY <2>1, <2>2 DEF Owned, Half, Starting, Cursoring, Replacing
<1>13. ASSUME AssignWidth PROVE Owned'
  BY <1>13, <1>t DEF AssignWidth, Assigning, Owned, Between, Half, Building,
       Replacing, Starting, Cursoring, States, RFrames
<1>14. ASSUME AssignHeight PROVE Owned'
  BY <1>14, <1>t DEF AssignHeight, Assigning, Owned, Between, Half, Building,
       Replacing, Starting, Cursoring, States, RFrames
<1>15. ASSUME AssignStride PROVE Owned'
  BY <1>15, <1>t DEF AssignStride, Assigning, Owned, Between, Half, Building,
       Replacing, Starting, Cursoring, States, RFrames
<1>16. ASSUME AssignResource PROVE Owned'
  BY <1>16, <1>t DEF AssignResource, Assigning, Owned, Between, Half, Building,
       Replacing, Starting, Cursoring, States, RFrames
<1>17. ASSUME AssignFb PROVE Owned'
  BY <1>17, <1>t DEF AssignFb, Assigning, Owned, Between, Half, Building,
       Replacing, Starting, Cursoring, States, RFrames
<1>18. ASSUME ResizeFreeOld PROVE Owned'
  <2>1. /\ rtg.pc = "free_old" /\ rtg'.pc = "idle" /\ rtg'.field = rtg.field
        /\ gs'.fb_mem = gs.fb_mem /\ gs'.cursor_mem = gs.cursor_mem
        /\ gs'.cursor_created = gs.cursor_created /\ calls' = calls
    BY <1>18, <1>t DEF ResizeFreeOld, RGoto, Return, States, RFrames
  <2>2. DOMAIN mem' = DOMAIN mem \ {rtg.old_mem}
    BY <1>18, WithoutType DEF ResizeFreeOld
  <2>3. Between = {rtg.old_mem} /\ Between' = {} /\ ~Half /\ ~Half'
        /\ gs.fb_mem # None
    BY <1>t, <2>1
        DEF Between, Owned, Half, Building, Replacing, Cursoring, States
  <2> QED BY <1>t, <2>1, <2>2, <2>3
              DEF Owned, Half, Building, Replacing, Starting, Cursoring
<1>19. ASSUME SetPanningFormat PROVE Owned'
  <2>1. /\ rtg.pc \in Calm /\ rtg'.pc \in Calm /\ Calm \in Parts
        /\ rtg.pc # "assign" /\ rtg'.field = rtg.field
        /\ rtg'.buf = rtg.buf /\ rtg'.old_mem = rtg.old_mem
        /\ gs'.fb_mem = gs.fb_mem /\ gs'.cursor_mem = gs.cursor_mem
        /\ gs'.cursor_created = gs.cursor_created /\ UNCHANGED mem
        /\ calls' \in {calls, calls + 1}
    BY <1>19, <1>t
        DEF SetPanningFormat, RGoto, Return, Parts, Calm, States, RFrames
  <2> QED BY <2>1, OwnedKept
<1>20. ASSUME CursorDone PROVE Owned'
  BY <1>20, <1>t DEF CursorDone, RGoto, Return, Owned, Between, Half, Building,
       Replacing, Starting, Cursoring, States, RFrames
<1>21. ASSUME CursorFail PROVE Owned'
  <2>1. /\ rtg.pc = "cursor_fail" /\ rtg'.pc = "idle" /\ rtg'.field = rtg.field
        /\ gs'.fb_mem = gs.fb_mem /\ gs'.cursor_mem = None
        /\ gs'.cursor_created = gs.cursor_created /\ calls' = calls
    BY <1>21, <1>t DEF CursorFail, RGoto, Return, States, RFrames
  <2>2. DOMAIN mem' = DOMAIN mem \ {gs.cursor_mem}
    BY <1>21, WithoutType DEF CursorFail
  <2>3. Between = {} /\ Between' = {} /\ ~Half /\ ~Half'
        /\ gs.fb_mem # None
    BY <1>t, <2>1
        DEF Between, Owned, Half, Building, Replacing, Cursoring, States
  <2> QED BY <1>t, <2>1, <2>2, <2>3
              DEF Owned, Half, Building, Replacing, Starting, Cursoring
<1>22. ASSUME ResizeCreate PROVE Owned'
  <2>1. Making \in Parts /\ {"create", "attach", "free_new"} \subseteq Making
    BY DEF Parts, Making, Calm, Building, Replacing, Cursoring
  <2>2. Sends("create", Command("create", rtg.id, gs.active_width, gs.active_height),
              "attach", "free_new")
    BY <1>22, ResizeCreateSends
  <2> QED BY <2>1, <2>2, OwnedSends
<1>23. ASSUME ResizeAttach PROVE Owned'
  <2>1. Making \in Parts /\ {"attach", "scanout", "unref_new"} \subseteq Making
    BY DEF Parts, Making, Calm, Building, Replacing, Cursoring
  <2>2. Sends("attach", [Command("attach", rtg.id, 0, 0) EXCEPT !.buf = rtg.buf],
              "scanout", "unref_new")
    BY <1>23, ResizeAttachSends
  <2> QED BY <2>1, <2>2, OwnedSends
<1>24. ASSUME ResizeScanout PROVE Owned'
  <2>1. Making \in Parts /\ {"scanout", "assign", "unref_new"} \subseteq Making
    BY DEF Parts, Making, Calm, Building, Replacing, Cursoring
  <2>2. Sends("scanout", Command("scanout", rtg.id, gs.active_width, gs.active_height),
              "assign", "unref_new")
    BY <1>24, ResizeScanoutSends
  <2> QED BY <2>1, <2>2, OwnedSends
<1>25. ASSUME ResizeUnrefNew PROVE Owned'
  <2>1. Making \in Parts /\ {"unref_new", "free_new", "free_new"} \subseteq Making
    BY DEF Parts, Making, Calm, Building, Replacing, Cursoring
  <2>2. Sends("unref_new", Command("unref", rtg.id, 0, 0),
              "free_new", "free_new")
    BY <1>25, ResizeUnrefNewSends
  <2> QED BY <2>1, <2>2, OwnedSends
<1>26. ASSUME ResizeUnrefOld PROVE Owned'
  <2>1. Replacing \in Parts /\ {"unref_old", "free_old", "free_old"} \subseteq Replacing
    BY DEF Parts, Making, Calm, Building, Replacing, Cursoring
  <2>2. Sends("unref_old", Command("unref", rtg.old_res, 0, 0),
              "free_old", "free_old")
    BY <1>26, ResizeUnrefOldSends
  <2> QED BY <2>1, <2>2, OwnedSends
<1>27. ASSUME SetDPMSLevelSend PROVE Owned'
  <2>1. Calm \in Parts /\ {"dpms", "idle", "idle"} \subseteq Calm
    BY DEF Parts, Making, Calm, Building, Replacing, Cursoring
  <2>2. Sends("dpms", DPMSScanout, "idle", "idle")
    BY <1>27, SetDPMSLevelSendSends
  <2> QED BY <2>1, <2>2, OwnedSends
<1>28. ASSUME CursorCreate2D PROVE Owned'
  <2>1. Cursoring \in Parts /\ {"cursor_create", "cursor_attach", "cursor_fail"} \subseteq Cursoring
    BY DEF Parts, Making, Calm, Building, Replacing, Cursoring
  <2>2. Sends("cursor_create", Command("create", CursorId, 1, 1),
              "cursor_attach", "cursor_fail")
    BY <1>28, CursorCreate2DSends
  <2> QED BY <2>1, <2>2, OwnedSends
<1>29. ASSUME CursorAttach PROVE Owned'
  <2>1. Cursoring \in Parts /\ {"cursor_attach", "cursor_done", "cursor_fail"} \subseteq Cursoring
    BY DEF Parts, Making, Calm, Building, Replacing, Cursoring
  <2>2. Sends("cursor_attach", [Command("attach", CursorId, 0, 0) EXCEPT !.buf = gs.cursor_mem],
              "cursor_done", "cursor_fail")
    BY <1>29, CursorAttachSends
  <2> QED BY <2>1, <2>2, OwnedSends
<1>30. ASSUME ConvertRows PROVE Owned'
  BY <1>30
      DEF ConvertRows, Owned, Between, Half, Building, Replacing, Starting,
          Cursoring, States, RFrames
<1>31. ASSUME UNCHANGED <<gs, mem, rtg, calls>> PROVE Owned'
  BY <1>31
      DEF Owned, Between, Half, Building, Replacing, Starting, Cursoring,
          States, RFrames
<1>32. ASSUME ModeCall PROVE Owned'
  BY <1>32, <1>1, <1>2, <1>3, <1>4, <1>5
     DEF ModeCall
<1>33. ASSUME ModeLocal PROVE Owned'
  BY AssignCases, <1>33, <1>6, <1>7, <1>8, <1>9, <1>10, <1>11, <1>12, <1>13,
     <1>14, <1>15, <1>16, <1>17, <1>18, <1>19, <1>20, <1>21
     DEF ModeLocal
<1>34. ASSUME ModeCommand PROVE Owned'
  BY <1>34, <1>22, <1>23, <1>24, <1>25, <1>26, <1>27, <1>28, <1>29
     DEF ModeCommand
<1>35. ASSUME Flush PROVE Owned'
  BY <1>35, <1>30, <1>31
     DEF Flush, FlushWidth, FlushHeight, FlushObtain, ConvertStart,
         ConvertClamp, TransferSkipped, TransferToHost2D, FlushSend, Command,
         ResourceFlush, FlushRelease
<1>36. ASSUME DevLate PROVE Owned'
  BY <1>36, <1>31
     DEF DevLate
<1> QED BY <1>32, <1>33, <1>34, <1>35, <1>36 DEF Next

-----------------------------------------------------------------------------
(* Where a flush writes: no command of the resize gets past a flush that   *)
(* holds io_lock, so the old framebuffer is not freed under it.            *)

\* Target is kept.
LEMMA TargetStep ==
    ASSUME Types, Locked, Owned, Target, Next
    PROVE  Target'
<1>t. /\ gs \in States /\ rtg \in RFrames /\ fl \in FFrames /\ calls \in Nat
      /\ None \notin Nat
  BY Constants DEF Types
<1>1. ASSUME NEW m \in Modes, SetGCNoOp(m) PROVE Target'
  BY <1>1, <1>t DEF SetGCNoOp, Call, Target, Half, Locked, Holding, States,
       RFrames
<1>2. ASSUME NEW m \in Modes, SetGC(m) PROVE Target'
  BY <1>2, <1>t DEF SetGC, Call, Target, Half, Locked, Holding, States, RFrames
<1>3. ASSUME NEW sf \in Surfaces, SetPanning(sf) PROVE Target'
  BY <1>3, <1>t DEF SetPanning, Call, Target, Half, Locked, Holding, States,
       RFrames
<1>4. ASSUME NEW level \in {0, 3}, SetDPMSLevel(level) PROVE Target'
  BY <1>4, <1>t DEF SetDPMSLevel, Call, RGoto, Target, Half, Locked, Holding,
       States, RFrames
<1>5. ASSUME CursorCreate PROVE Target'
  BY <1>5, <1>t DEF CursorCreate, Call, RGoto, Target, Half, Locked, Holding,
       States, RFrames
<1>6. ASSUME SetGCWidth PROVE Target'
  BY <1>6, <1>t DEF SetGCWidth, RGoto, Target, Half, Locked, Holding, States,
       RFrames
<1>7. ASSUME SetGCHeight PROVE Target'
  BY <1>7, <1>t DEF SetGCHeight, RGoto, Target, Half, Locked, Holding, States,
       RFrames
<1>8. ASSUME ResizeNothing PROVE Target'
  BY <1>8, <1>t
      DEF ResizeNothing, Return, RGoto, Target, Half, Locked, Holding,
       States, RFrames
<1>9. ASSUME ResizeAlloc PROVE Target'
  BY <1>9, <1>t DEF ResizeAlloc, Target, Half, Locked, Holding, States, RFrames
<1>10. ASSUME ResizeNoMemory PROVE Target'
  BY <1>10, <1>t
      DEF ResizeNoMemory, Target, Half, Locked, Holding, States, RFrames
<1>11. ASSUME ResizeFreeNew PROVE Target'
  BY <1>11, <1>t
      DEF ResizeFreeNew, Return, RGoto, Target, Half, Locked, Holding,
       States, RFrames
<1>12. ASSUME AssignMem PROVE Target'
  BY <1>12, <1>t
      DEF AssignMem, Assigning, Target, Half, Locked, Holding, States,
       RFrames
<1>13. ASSUME AssignWidth PROVE Target'
  BY <1>13, <1>t
      DEF AssignWidth, Assigning, Target, Half, Locked, Holding, States,
       RFrames
<1>14. ASSUME AssignHeight PROVE Target'
  BY <1>14, <1>t DEF AssignHeight, Assigning, Target, Half, Locked, Holding,
       States, RFrames
<1>15. ASSUME AssignStride PROVE Target'
  BY <1>15, <1>t DEF AssignStride, Assigning, Target, Half, Locked, Holding,
       States, RFrames
<1>16. ASSUME AssignResource PROVE Target'
  BY <1>16, <1>t DEF AssignResource, Assigning, Target, Half, Locked, Holding,
       States, RFrames
<1>17. ASSUME AssignFb PROVE Target'
  BY <1>17, <1>t
      DEF AssignFb, Assigning, Target, Half, Locked, Holding, States,
       RFrames
<1>18. ASSUME ResizeFreeOld PROVE Target'
  BY <1>18, <1>t
      DEF ResizeFreeOld, Return, RGoto, Target, Half, Locked, Holding,
       States, RFrames
<1>19. ASSUME SetPanningFormat PROVE Target'
  BY <1>19, <1>t DEF SetPanningFormat, Return, RGoto, Target, Half, Locked,
       Holding, States, RFrames
<1>20. ASSUME CursorDone PROVE Target'
  BY <1>20, <1>t DEF CursorDone, Return, RGoto, Target, Half, Locked, Holding,
       States, RFrames
<1>21. ASSUME CursorFail PROVE Target'
  BY <1>21, <1>t DEF CursorFail, Return, RGoto, Target, Half, Locked, Holding,
       States, RFrames
<1>22. ASSUME ResizeCreate PROVE Target'
  BY <1>22, <1>t, ResizeCreateSends, Constants
      DEF Sends, Target, Half, Locked, Holding
<1>23. ASSUME ResizeAttach PROVE Target'
  BY <1>23, <1>t, ResizeAttachSends, Constants
      DEF Sends, Target, Half, Locked, Holding
<1>24. ASSUME ResizeScanout PROVE Target'
  BY <1>24, <1>t, ResizeScanoutSends, Constants
      DEF Sends, Target, Half, Locked, Holding
<1>25. ASSUME ResizeUnrefNew PROVE Target'
  BY <1>25, <1>t, ResizeUnrefNewSends, Constants
      DEF Sends, Target, Half, Locked, Holding
<1>26. ASSUME ResizeUnrefOld PROVE Target'
  BY <1>26, <1>t, ResizeUnrefOldSends, Constants
      DEF Sends, Target, Half, Locked, Holding
<1>27. ASSUME SetDPMSLevelSend PROVE Target'
  BY <1>27, <1>t, SetDPMSLevelSendSends, Constants
      DEF Sends, Target, Half, Locked, Holding
<1>28. ASSUME CursorCreate2D PROVE Target'
  BY <1>28, <1>t, CursorCreate2DSends, Constants
      DEF Sends, Target, Half, Locked, Holding
<1>29. ASSUME CursorAttach PROVE Target'
  BY <1>29, <1>t, CursorAttachSends, Constants
      DEF Sends, Target, Half, Locked, Holding
<1>30. ASSUME FlushWidth PROVE Target'
  BY <1>30, <1>t DEF FlushWidth, Target, Half, Locked, Holding, FFrames
<1>31. ASSUME FlushHeight PROVE Target'
  BY <1>31, <1>t DEF FlushHeight, Target, Half, Locked, Holding, FFrames
<1>32. ASSUME FlushObtain PROVE Target'
  BY <1>32, <1>t DEF FlushObtain, Target, Half, Locked, Holding, FFrames
<1>33. ASSUME ConvertStart PROVE Target'
  BY <1>33, <1>t DEF ConvertStart, Target, Half, Locked, Holding, FFrames
<1>34. ASSUME ConvertClamp PROVE Target'
  BY <1>34, <1>t DEF ConvertClamp, Target, Half, Locked, Holding, FFrames
<1>35. ASSUME ConvertRows PROVE Target'
  BY <1>35, <1>t DEF ConvertRows, Target, Half, Locked, Holding, FFrames
<1>36. ASSUME TransferSkipped PROVE Target'
  BY <1>36, <1>t DEF TransferSkipped, Target, Half, Locked, Holding, FFrames
<1>37. ASSUME TransferToHost2D PROVE Target'
  BY <1>37, <1>t, TransferToHost2DSends
      DEF FlushSends, Target, Half, Locked, Holding, FFrames
<1>38. ASSUME ResourceFlush PROVE Target'
  BY <1>38, <1>t, ResourceFlushSends
      DEF FlushSends, Target, Half, Locked, Holding, FFrames
<1>39. ASSUME FlushRelease PROVE Target'
  BY <1>39, <1>t DEF FlushRelease, Target, Half, Locked, Holding, FFrames
<1>40. ASSUME UNCHANGED <<gs, rtg, fl>> PROVE Target'
  BY <1>40 DEF Target, Half
<1>41. ASSUME ModeCall PROVE Target'
  BY <1>41, <1>1, <1>2, <1>3, <1>4, <1>5
     DEF ModeCall
<1>42. ASSUME ModeLocal PROVE Target'
  BY AssignCases, <1>42, <1>6, <1>7, <1>8, <1>9, <1>10, <1>11, <1>12, <1>13,
     <1>14, <1>15, <1>16, <1>17, <1>18, <1>19, <1>20, <1>21
     DEF ModeLocal
<1>43. ASSUME ModeCommand PROVE Target'
  BY <1>43, <1>22, <1>23, <1>24, <1>25, <1>26, <1>27, <1>28, <1>29
     DEF ModeCommand
<1>44. ASSUME Flush PROVE Target'
  BY <1>44, <1>30, <1>31, <1>32, <1>33, <1>34, <1>35, <1>36, <1>37, <1>38,
     <1>39
     DEF Flush
<1>45. ASSUME DevLate PROVE Target'
  BY <1>45, <1>40
     DEF DevLate
<1> QED BY <1>41, <1>42, <1>43, <1>44, <1>45 DEF Next

-----------------------------------------------------------------------------
(* Numbers of resources.                                                   *)

\* Numbers is kept.
LEMMA NumbersStep ==
    ASSUME Types, Owned, Fresh, Names, Next
    PROVE  Numbers'
<1>t. /\ gs \in States /\ rtg \in RFrames /\ fl \in FFrames /\ calls \in Nat
      /\ None \notin Nat
  BY Constants DEF Types
<1>n. Numbers
  BY DEF Fresh
<1>1. ASSUME NEW m \in Modes, SetGCNoOp(m) PROVE Numbers'
  BY <1>1, <1>t, <1>n
      DEF SetGCNoOp, Call, Numbers, Half, Building, Replacing, Starting,
       States, RFrames
<1>2. ASSUME NEW m \in Modes, SetGC(m) PROVE Numbers'
  BY <1>2, <1>t, <1>n
      DEF SetGC, Call, Numbers, Half, Building, Replacing, Starting,
       States, RFrames
<1>3. ASSUME NEW sf \in Surfaces, SetPanning(sf) PROVE Numbers'
  BY <1>3, <1>t, <1>n DEF SetPanning, Call, Numbers, Half, Building, Replacing,
       Starting, States, RFrames
<1>4. ASSUME NEW level \in {0, 3}, SetDPMSLevel(level) PROVE Numbers'
  BY <1>4, <1>t, <1>n
      DEF SetDPMSLevel, Call, RGoto, Numbers, Half, Building, Replacing,
       Starting, States, RFrames
<1>5. ASSUME CursorCreate PROVE Numbers'
  <2>1. rtg.pc = "idle" /\ calls' = calls + 1
    BY <1>5 DEF CursorCreate, Call
  <2>2. CASE UNCHANGED <<gs, rtg>>
    BY <1>t, <1>n, <2>1, <2>2
        DEF Numbers, Half, Building, Replacing, Starting, States
  <2>3. CASE /\ gs' = [gs EXCEPT !.cursor_mem = calls', !.cursor_resource_id = CursorId]
             /\ rtg' = [rtg EXCEPT !.pc = "cursor_create"]
    BY <1>t, <1>n, <2>1, <2>3
        DEF Numbers, Half, Building, Replacing, Starting, States, RFrames
  <2> QED BY <1>5, <2>2, <2>3 DEF CursorCreate, RGoto
<1>6. ASSUME SetGCWidth PROVE Numbers'
  BY <1>6, <1>t, <1>n
      DEF SetGCWidth, RGoto, Numbers, Half, Building, Replacing,
       Starting, States, RFrames
<1>7. ASSUME SetGCHeight PROVE Numbers'
  BY <1>7, <1>t, <1>n
      DEF SetGCHeight, RGoto, Numbers, Half, Building, Replacing,
       Starting, States, RFrames
<1>8. ASSUME ResizeNothing PROVE Numbers'
  BY <1>8, <1>t, <1>n
      DEF ResizeNothing, Return, RGoto, Numbers, Half, Building,
       Replacing, Starting, States, RFrames
<1>9. ASSUME ResizeAlloc PROVE Numbers'
  <2>1. /\ gs' = [gs EXCEPT !.next_resource_id = chip_alloc_resource_id + 1]
        /\ rtg' = [rtg EXCEPT !.pc = "create", !.id = chip_alloc_resource_id, !.buf = calls]
        /\ rtg.pc = "resize" /\ UNCHANGED calls
    BY <1>9 DEF ResizeAlloc
  <2>2. PICK i \in Nat : i = chip_alloc_resource_id
    BY AllocId
  <2>3. /\ i >= 2 /\ i >= gs.next_resource_id /\ i \notin Reserved
        /\ gs.next_resource_id >= 3 => i = gs.next_resource_id
        /\ gs.next_resource_id = 0 => i <= 3
    BY <2>2, AllocId
  <2>4. /\ gs'.next_resource_id = i + 1
        /\ gs'.fb_resource_id = gs.fb_resource_id /\ gs'.resource_id = gs.resource_id
        /\ gs'.cursor_resource_id = gs.cursor_resource_id
        /\ rtg'.pc = "create" /\ rtg'.id = i
    BY <1>t, <1>n, <2>1, <2>2 DEF States, RFrames
  <2>5. gs.fb_mem \in DOMAIN mem /\ gs.fb_mem \in Nat /\ calls \notin DOMAIN mem
    BY <1>t, <1>n, <2>1 DEF Owned, States, Starting
  <2>6. calls >= 1
    BY <1>t, <1>n, <2>5 DEF Owned
  <2> QED BY <1>t, <1>n, <2>1, <2>3, <2>4, <2>6
              DEF Numbers, Half, Building, Replacing, Starting, Reserved,
                  States
<1>10. ASSUME ResizeNoMemory PROVE Numbers'
  BY <1>10, <1>t, <1>n
      DEF ResizeNoMemory, Numbers, Half, Building, Replacing, Starting,
       States, RFrames
<1>11. ASSUME ResizeFreeNew PROVE Numbers'
  BY <1>11, <1>t, <1>n
      DEF ResizeFreeNew, Return, RGoto, Numbers, Half, Building,
       Replacing, Starting, States, RFrames
<1>12. ASSUME AssignMem PROVE Numbers'
  BY <1>12, <1>t, <1>n
      DEF AssignMem, Assigning, Numbers, Half, Building, Replacing,
       Starting, States, RFrames
<1>13. ASSUME AssignWidth PROVE Numbers'
  BY <1>13, <1>t, <1>n
      DEF AssignWidth, Assigning, Numbers, Half, Building, Replacing,
       Starting, States, RFrames
<1>14. ASSUME AssignHeight PROVE Numbers'
  BY <1>14, <1>t, <1>n
      DEF AssignHeight, Assigning, Numbers, Half, Building, Replacing,
       Starting, States, RFrames
<1>15. ASSUME AssignStride PROVE Numbers'
  BY <1>15, <1>t, <1>n
      DEF AssignStride, Assigning, Numbers, Half, Building, Replacing,
       Starting, States, RFrames
<1>16. ASSUME AssignResource PROVE Numbers'
  BY <1>16, <1>t, <1>n
      DEF AssignResource, Assigning, Numbers, Half, Building, Replacing,
       Starting, States, RFrames
<1>17. ASSUME AssignFb PROVE Numbers'
  BY <1>17, <1>t, <1>n
      DEF AssignFb, Assigning, Numbers, Half, Building, Replacing,
       Starting, States, RFrames
<1>18. ASSUME ResizeFreeOld PROVE Numbers'
  BY <1>18, <1>t, <1>n
      DEF ResizeFreeOld, Return, RGoto, Numbers, Half, Building,
       Replacing, Starting, States, RFrames
<1>19. ASSUME SetPanningFormat PROVE Numbers'
  BY <1>19, <1>t, <1>n
      DEF SetPanningFormat, Return, RGoto, Numbers, Half, Building,
       Replacing, Starting, States, RFrames
<1>20. ASSUME CursorDone PROVE Numbers'
  BY <1>20, <1>t, <1>n
      DEF CursorDone, Return, RGoto, Numbers, Half, Building, Replacing,
       Starting, States, RFrames
<1>21. ASSUME CursorFail PROVE Numbers'
  BY <1>21, <1>t, <1>n
      DEF CursorFail, Return, RGoto, Numbers, Half, Building, Replacing,
       Starting, States, RFrames
<1>22. ASSUME ResizeCreate PROVE Numbers'
  <2>1. Sends("create", Command("create", rtg.id, gs.active_width, gs.active_height),
              "attach", "free_new")
    BY <1>22, ResizeCreateSends
  <2>2. /\ rtg.pc = "create" /\ rtg'.pc \in {"create", "attach", "free_new"}
        /\ rtg'.id = rtg.id /\ rtg'.old_res = rtg.old_res /\ rtg'.field = rtg.field
    BY <2>1, SendsMoves
  <2>3. UNCHANGED <<gs, calls>>
    BY <2>1 DEF Sends
  <2>4. rtg.field = 1
    BY <2>2 DEF Owned
  <2> QED BY <1>t, <1>n, <2>2, <2>3, <2>4
              DEF Numbers, Half, Building, Replacing, Starting, States
<1>23. ASSUME ResizeAttach PROVE Numbers'
  <2>1. Sends("attach", [Command("attach", rtg.id, 0, 0) EXCEPT !.buf = rtg.buf],
              "scanout", "unref_new")
    BY <1>23, ResizeAttachSends
  <2>2. /\ rtg.pc = "attach" /\ rtg'.pc \in {"attach", "scanout", "unref_new"}
        /\ rtg'.id = rtg.id /\ rtg'.old_res = rtg.old_res /\ rtg'.field = rtg.field
    BY <2>1, SendsMoves
  <2>3. UNCHANGED <<gs, calls>>
    BY <2>1 DEF Sends
  <2>4. rtg.field = 1
    BY <2>2 DEF Owned
  <2> QED BY <1>t, <1>n, <2>2, <2>3, <2>4
              DEF Numbers, Half, Building, Replacing, Starting, States
<1>24. ASSUME ResizeScanout PROVE Numbers'
  <2>1. Sends("scanout", Command("scanout", rtg.id, gs.active_width, gs.active_height),
              "assign", "unref_new")
    BY <1>24, ResizeScanoutSends
  <2>2. /\ rtg.pc = "scanout" /\ rtg'.pc \in {"scanout", "assign", "unref_new"}
        /\ rtg'.id = rtg.id /\ rtg'.old_res = rtg.old_res /\ rtg'.field = rtg.field
    BY <2>1, SendsMoves
  <2>3. UNCHANGED <<gs, calls>>
    BY <2>1 DEF Sends
  <2>4. rtg.field = 1
    BY <2>2 DEF Owned
  <2> QED BY <1>t, <1>n, <2>2, <2>3, <2>4
              DEF Numbers, Half, Building, Replacing, Starting, States
<1>25. ASSUME ResizeUnrefNew PROVE Numbers'
  <2>1. Sends("unref_new", Command("unref", rtg.id, 0, 0),
              "free_new", "free_new")
    BY <1>25, ResizeUnrefNewSends
  <2>2. /\ rtg.pc = "unref_new" /\ rtg'.pc \in {"unref_new", "free_new", "free_new"}
        /\ rtg'.id = rtg.id /\ rtg'.old_res = rtg.old_res /\ rtg'.field = rtg.field
    BY <2>1, SendsMoves
  <2>3. UNCHANGED <<gs, calls>>
    BY <2>1 DEF Sends
  <2>4. rtg.field = 1
    BY <2>2 DEF Owned
  <2> QED BY <1>t, <1>n, <2>2, <2>3, <2>4
              DEF Numbers, Half, Building, Replacing, Starting, States
<1>26. ASSUME ResizeUnrefOld PROVE Numbers'
  <2>1. Sends("unref_old", Command("unref", rtg.old_res, 0, 0),
              "free_old", "free_old")
    BY <1>26, ResizeUnrefOldSends
  <2>2. /\ rtg.pc = "unref_old" /\ rtg'.pc \in {"unref_old", "free_old", "free_old"}
        /\ rtg'.id = rtg.id /\ rtg'.old_res = rtg.old_res /\ rtg'.field = rtg.field
    BY <2>1, SendsMoves
  <2>3. UNCHANGED <<gs, calls>>
    BY <2>1 DEF Sends
  <2>4. rtg.field = 1
    BY <2>2 DEF Owned
  <2> QED BY <1>t, <1>n, <2>2, <2>3, <2>4
              DEF Numbers, Half, Building, Replacing, Starting, States
<1>27. ASSUME SetDPMSLevelSend PROVE Numbers'
  <2>1. Sends("dpms", DPMSScanout, "idle", "idle")
    BY <1>27, SetDPMSLevelSendSends
  <2>2. /\ rtg.pc = "dpms" /\ rtg'.pc \in {"dpms", "idle", "idle"}
        /\ rtg'.id = rtg.id /\ rtg'.old_res = rtg.old_res /\ rtg'.field = rtg.field
    BY <2>1, SendsMoves
  <2>3. UNCHANGED <<gs, calls>>
    BY <2>1 DEF Sends
  <2>4. rtg.field = 1
    BY <2>2 DEF Owned
  <2> QED BY <1>t, <1>n, <2>2, <2>3, <2>4
              DEF Numbers, Half, Building, Replacing, Starting, States
<1>28. ASSUME CursorCreate2D PROVE Numbers'
  <2>1. Sends("cursor_create", Command("create", CursorId, 1, 1),
              "cursor_attach", "cursor_fail")
    BY <1>28, CursorCreate2DSends
  <2>2. /\ rtg.pc = "cursor_create" /\ rtg'.pc \in {"cursor_create", "cursor_attach", "cursor_fail"}
        /\ rtg'.id = rtg.id /\ rtg'.old_res = rtg.old_res /\ rtg'.field = rtg.field
    BY <2>1, SendsMoves
  <2>3. UNCHANGED <<gs, calls>>
    BY <2>1 DEF Sends
  <2>4. rtg.field = 1
    BY <2>2 DEF Owned
  <2> QED BY <1>t, <1>n, <2>2, <2>3, <2>4
              DEF Numbers, Half, Building, Replacing, Starting, States
<1>29. ASSUME CursorAttach PROVE Numbers'
  <2>1. Sends("cursor_attach", [Command("attach", CursorId, 0, 0) EXCEPT !.buf = gs.cursor_mem],
              "cursor_done", "cursor_fail")
    BY <1>29, CursorAttachSends
  <2>2. /\ rtg.pc = "cursor_attach" /\ rtg'.pc \in {"cursor_attach", "cursor_done", "cursor_fail"}
        /\ rtg'.id = rtg.id /\ rtg'.old_res = rtg.old_res /\ rtg'.field = rtg.field
    BY <2>1, SendsMoves
  <2>3. UNCHANGED <<gs, calls>>
    BY <2>1 DEF Sends
  <2>4. rtg.field = 1
    BY <2>2 DEF Owned
  <2> QED BY <1>t, <1>n, <2>2, <2>3, <2>4
              DEF Numbers, Half, Building, Replacing, Starting, States
<1>30. ASSUME UNCHANGED <<gs, rtg, calls>> PROVE Numbers'
  BY <1>30, <1>n DEF Numbers, Half
<1>31. ASSUME ModeCall PROVE Numbers'
  BY <1>31, <1>1, <1>2, <1>3, <1>4, <1>5
     DEF ModeCall
<1>32. ASSUME ModeLocal PROVE Numbers'
  BY AssignCases, <1>32, <1>6, <1>7, <1>8, <1>9, <1>10, <1>11, <1>12, <1>13,
     <1>14, <1>15, <1>16, <1>17, <1>18, <1>19, <1>20, <1>21
     DEF ModeLocal
<1>33. ASSUME ModeCommand PROVE Numbers'
  BY <1>33, <1>22, <1>23, <1>24, <1>25, <1>26, <1>27, <1>28, <1>29
     DEF ModeCommand
<1>34. ASSUME Flush PROVE Numbers'
  BY <1>34, <1>30
     DEF Flush, FlushWidth, FlushHeight, FlushObtain, ConvertStart,
         ConvertClamp, ConvertRows, TransferSkipped, TransferToHost2D,
         FlushSend, Command, ResourceFlush, FlushRelease
<1>35. ASSUME DevLate PROVE Numbers'
  BY <1>35, <1>30
     DEF DevLate
<1> QED BY <1>31, <1>32, <1>33, <1>34, <1>35 DEF Next

\* What a command, sent or come to late, leaves of what the device has and of
\* what it may yet do.
DeviceStep(c) ==
    /\ DOMAIN host'.res \subseteq DOMAIN host.res \cup (IF c.op = "create" THEN {c.id} ELSE {})
    /\ DOMAIN host.res \subseteq DOMAIN host'.res \cup (IF c.op = "unref" THEN {c.id} ELSE {})
    /\ \A k \in 1 .. Len(late'.queue) :
          \/ late'.queue[k] = c
          \/ \E j \in 1 .. Len(late.queue) : late'.queue[k] = late.queue[j]

LEMMA DeviceSteps ==
    ASSUME Types, NEW c \in Commands,
           \/ /\ Accepts(host, c) /\ host' = Execute(host, c) /\ late' = late
           \/ /\ host' = host
              /\ late' = late \/ late' = [queue |-> Append(late.queue, c), ever |-> TRUE]
    PROVE  DeviceStep(c)
<1>1. late.queue \in Seq(Commands)
  BY DEF Types
<1>2. CASE Accepts(host, c) /\ host' = Execute(host, c) /\ late' = late
  BY <1>1, <1>2, Executed DEF DeviceStep
<1>3. CASE host' = host /\ late' = late
  BY <1>3 DEF DeviceStep
<1>4. CASE host' = host /\ late' = [queue |-> Append(late.queue, c), ever |-> TRUE]
  <2>1. ASSUME NEW k \in 1 .. Len(late'.queue)
        PROVE  \/ late'.queue[k] = c
               \/ \E j \in 1 .. Len(late.queue) : late'.queue[k] = late.queue[j]
    BY <1>1, <1>4, <2>1, AppendProperties
  <2> QED BY <1>4, <2>1 DEF DeviceStep
<1> QED BY <1>2, <1>3, <1>4

LEMMA LateStep ==
    ASSUME Types, DevLate
    PROVE  /\ DeviceStep(Head(late.queue))
           /\ 1 \in 1 .. Len(late.queue) /\ Head(late.queue) = late.queue[1]
<1>1. late.queue \in Seq(Commands) /\ late.queue # <<>> /\ late'.queue = Tail(late.queue)
  BY Later
<1>2. /\ Head(late.queue) = late.queue[1] /\ Len(late.queue) >= 1
      /\ Len(Tail(late.queue)) = Len(late.queue) - 1
      /\ \A k \in 1 .. Len(Tail(late.queue)) : Tail(late.queue)[k] = late.queue[k + 1]
  BY <1>1, HeadTailProperties, EmptySeq, LenProperties
<1>3. ASSUME NEW k \in 1 .. Len(late'.queue)
      PROVE  \E j \in 1 .. Len(late.queue) : late'.queue[k] = late.queue[j]
  <2>1. k + 1 \in 1 .. Len(late.queue)
    BY <1>1, <1>2, <1>3, LenProperties
  <2> QED BY <1>1, <1>2, <1>3, <2>1
<1>4. \/ host' = host
      \/ Accepts(host, Head(late.queue)) /\ host' = Execute(host, Head(late.queue))
  BY Later
<1>5. Head(late.queue) \in Commands
  BY Later
<1>6. 1 \in 1 .. Len(late.queue)
  BY <1>1, <1>2, LenProperties
<1>7. PICK c \in Commands : c = Head(late.queue)
  BY <1>5
<1>a. ASSUME NEW k \in 1 .. Len(late'.queue)
      PROVE  \/ late'.queue[k] = c
             \/ \E j \in 1 .. Len(late.queue) : late'.queue[k] = late.queue[j]
  BY <1>3
<1>8. ASSUME host' = host PROVE DeviceStep(c)
  BY <1>a, <1>8 DEF DeviceStep
<1>9. ASSUME Accepts(host, c), host' = Execute(host, c) PROVE DeviceStep(c)
  <2>1. /\ DOMAIN host'.res \subseteq DOMAIN host.res \cup (IF c.op = "create" THEN {c.id} ELSE {})
        /\ DOMAIN host.res \subseteq DOMAIN host'.res \cup (IF c.op = "unref" THEN {c.id} ELSE {})
    BY <1>9, Executed
  <2> QED BY <1>a, <2>1 DEF DeviceStep
<1>10. DeviceStep(c)
  BY <1>4, <1>7, <1>8, <1>9
<1> QED BY <1>2, <1>6, <1>7, <1>10

LEMMA ResizeCreateDevice ==
    ASSUME Types, ResizeCreate
    PROVE  DeviceStep(Command("create", rtg.id, gs.active_width, gs.active_height))
<1>1. Command("create", rtg.id, gs.active_width, gs.active_height) \in Commands
  BY Commandable DEF Types, States, RFrames, FFrames, CursorId
<1>2. Sends("create", Command("create", rtg.id, gs.active_width, gs.active_height),
            "attach", "free_new")
  BY ResizeCreateSends
<1> QED BY <1>1, <1>2, DeviceSteps DEF Sends

LEMMA ResizeAttachDevice ==
    ASSUME Types, ResizeAttach
    PROVE  DeviceStep([Command("attach", rtg.id, 0, 0) EXCEPT !.buf = rtg.buf])
<1>1. [Command("attach", rtg.id, 0, 0) EXCEPT !.buf = rtg.buf] \in Commands
  BY Commandable DEF Types, States, RFrames, FFrames, CursorId
<1>2. Sends("attach", [Command("attach", rtg.id, 0, 0) EXCEPT !.buf = rtg.buf],
            "scanout", "unref_new")
  BY ResizeAttachSends
<1> QED BY <1>1, <1>2, DeviceSteps DEF Sends

LEMMA ResizeScanoutDevice ==
    ASSUME Types, ResizeScanout
    PROVE  DeviceStep(Command("scanout", rtg.id, gs.active_width, gs.active_height))
<1>1. Command("scanout", rtg.id, gs.active_width, gs.active_height) \in Commands
  BY Commandable DEF Types, States, RFrames, FFrames, CursorId
<1>2. Sends("scanout", Command("scanout", rtg.id, gs.active_width, gs.active_height),
            "assign", "unref_new")
  BY ResizeScanoutSends
<1> QED BY <1>1, <1>2, DeviceSteps DEF Sends

LEMMA ResizeUnrefNewDevice ==
    ASSUME Types, ResizeUnrefNew
    PROVE  DeviceStep(Command("unref", rtg.id, 0, 0))
<1>1. Command("unref", rtg.id, 0, 0) \in Commands
  BY Commandable DEF Types, States, RFrames, FFrames, CursorId
<1>2. Sends("unref_new", Command("unref", rtg.id, 0, 0),
            "free_new", "free_new")
  BY ResizeUnrefNewSends
<1> QED BY <1>1, <1>2, DeviceSteps DEF Sends

LEMMA ResizeUnrefOldDevice ==
    ASSUME Types, ResizeUnrefOld
    PROVE  DeviceStep(Command("unref", rtg.old_res, 0, 0))
<1>1. Command("unref", rtg.old_res, 0, 0) \in Commands
  BY Commandable DEF Types, States, RFrames, FFrames, CursorId
<1>2. Sends("unref_old", Command("unref", rtg.old_res, 0, 0),
            "free_old", "free_old")
  BY ResizeUnrefOldSends
<1> QED BY <1>1, <1>2, DeviceSteps DEF Sends

LEMMA SetDPMSLevelSendDevice ==
    ASSUME Types, SetDPMSLevelSend
    PROVE  DeviceStep(DPMSScanout)
<1>1. DPMSScanout \in Commands
  <2>1. /\ gs.resource_id \in Nat
        /\ Smaller(gs.active_width, gs.fb_width) \in Nat
        /\ Smaller(gs.active_height, gs.fb_height) \in Nat
    BY SmallerSize DEF Types, States
  <2> QED BY <2>1, Commandable DEF DPMSScanout
<1>2. Sends("dpms", DPMSScanout, "idle", "idle")
  BY SetDPMSLevelSendSends
<1> QED BY <1>1, <1>2, DeviceSteps DEF Sends

LEMMA CursorCreate2DDevice ==
    ASSUME Types, CursorCreate2D
    PROVE  DeviceStep(Command("create", CursorId, 1, 1))
<1>1. Command("create", CursorId, 1, 1) \in Commands
  BY Commandable DEF Types, States, RFrames, FFrames, CursorId
<1>2. Sends("cursor_create", Command("create", CursorId, 1, 1),
            "cursor_attach", "cursor_fail")
  BY CursorCreate2DSends
<1> QED BY <1>1, <1>2, DeviceSteps DEF Sends

LEMMA CursorAttachDevice ==
    ASSUME Types, CursorAttach, Owned
    PROVE  DeviceStep([Command("attach", CursorId, 0, 0) EXCEPT !.buf = gs.cursor_mem])
<1>0. gs.cursor_mem \in Nat
  BY DEF Owned, Types, States, CursorAttach, ModeSend, Cursoring
<1>1. [Command("attach", CursorId, 0, 0) EXCEPT !.buf = gs.cursor_mem] \in Commands
  BY <1>0, Commandable DEF CursorId
<1>2. Sends("cursor_attach", [Command("attach", CursorId, 0, 0) EXCEPT !.buf = gs.cursor_mem],
            "cursor_done", "cursor_fail")
  BY CursorAttachSends
<1> QED BY <1>1, <1>2, DeviceSteps DEF Sends

LEMMA TransferToHost2DDevice ==
    ASSUME Types, TransferToHost2D
    PROVE  DeviceStep(Command("transfer", gs.fb_resource_id, fl.w, fl.h))
<1>1. Command("transfer", gs.fb_resource_id, fl.w, fl.h) \in Commands
  BY Commandable DEF Types, States, RFrames, FFrames, CursorId
<1>2. FlushSends("transfer", Command("transfer", gs.fb_resource_id, fl.w, fl.h),
                 "flush", "release")
  BY TransferToHost2DSends
<1> QED BY <1>1, <1>2, DeviceSteps DEF FlushSends

LEMMA ResourceFlushDevice ==
    ASSUME Types, ResourceFlush
    PROVE  DeviceStep(Command("flush", gs.fb_resource_id, fl.w, fl.h))
<1>1. Command("flush", gs.fb_resource_id, fl.w, fl.h) \in Commands
  BY Commandable DEF Types, States, RFrames, FFrames, CursorId
<1>2. FlushSends("flush", Command("flush", gs.fb_resource_id, fl.w, fl.h),
                 "release", "release")
  BY ResourceFlushSends
<1> QED BY <1>1, <1>2, DeviceSteps DEF FlushSends

\* Created and Present, when a command that names c.id is sent or comes late.
LEMMA CreatedDevice ==
    ASSUME Created, NEW c, DeviceStep(c), gs' = gs,
           c.op = "create" => c.id < gs.next_resource_id \/ c.id = CursorId
    PROVE  Created'
BY DEF Created, DeviceStep

LEMMA PresentDevice ==
    ASSUME Present, NEW c, DeviceStep(c), gs' = gs, rtg'.id = rtg.id,
           rtg.pc # "assign",
           rtg'.pc = "assign" => rtg.id \in DOMAIN host'.res,
           rtg'.pc \in Wanted => rtg.pc \in Wanted /\ c.op # "unref",
           c.op = "unref" => /\ c.id \notin {gs.fb_resource_id, gs.resource_id}
                             /\ c.id < gs.next_resource_id
    PROVE  Present'
BY DEF Present, DeviceStep, Wanted

LEMMA PresentFlush ==
    ASSUME Present, NEW c, DeviceStep(c), gs' = gs, rtg' = rtg,
           c.op = "unref" => /\ c.id \notin {gs.fb_resource_id, gs.resource_id}
                             /\ rtg.pc \in Wanted => c.id # rtg.id
                             /\ c.id < gs.next_resource_id
    PROVE  Present'
BY DEF Present, DeviceStep, Wanted

\* Created is kept.
LEMMA CreatedStep ==
    ASSUME Types, Owned, Fresh, Next
    PROVE  Created'
<1>t. /\ gs \in States /\ rtg \in RFrames /\ fl \in FFrames /\ calls \in Nat
      /\ None \notin Nat
  BY Constants DEF Types
<1>n. Numbers /\ Created
  BY DEF Fresh
<1>1. ASSUME NEW m \in Modes, SetGC(m) PROVE Created'
  BY <1>n, <1>t, <1>1 DEF SetGC, Call, Created, States
<1>2. ASSUME NEW sf \in Surfaces, SetPanning(sf) PROVE Created'
  BY <1>n, <1>t, <1>2 DEF SetPanning, Call, Created, States
<1>3. ASSUME NEW level \in {0, 3}, SetDPMSLevel(level) PROVE Created'
  BY <1>n, <1>t, <1>3 DEF SetDPMSLevel, Call, RGoto, Created, States
<1>4. ASSUME CursorCreate PROVE Created'
  BY <1>n, <1>t, <1>4 DEF CursorCreate, Call, RGoto, Created, States
<1>5. ASSUME SetGCWidth PROVE Created'
  BY <1>n, <1>t, <1>5 DEF SetGCWidth, RGoto, Created, States
<1>6. ASSUME SetGCHeight PROVE Created'
  BY <1>n, <1>t, <1>6 DEF SetGCHeight, RGoto, Created, States
<1>7. ASSUME ResizeAlloc PROVE Created'
  <2>1. PICK i \in Nat : i = chip_alloc_resource_id
    BY AllocId
  <2>2. i >= 2 /\ i >= gs.next_resource_id
    BY <2>1, AllocId
  <2>3. /\ gs'.next_resource_id = i + 1 /\ gs'.fb_resource_id = gs.fb_resource_id
        /\ UNCHANGED <<host, late>>
    BY <1>t, <1>7, <2>1 DEF ResizeAlloc, States
  <2>4. late \in [queue : Seq(Commands), ever : BOOLEAN] /\ DeviceType(host)
    BY DEF Types
  <2>5. \A k \in 1 .. Len(late.queue) : late.queue[k].id \in Nat
    <3>1. ASSUME NEW k \in 1 .. Len(late.queue) PROVE late.queue[k] \in Commands
      BY <2>4, ElementOfSeq
    <3> QED BY <3>1 DEF Commands
  <2>6. gs.next_resource_id \in Nat /\ DOMAIN host.res \subseteq Nat
    BY <1>t, <2>4 DEF States, DeviceType
  <2>7. /\ \A j \in DOMAIN host.res : j < gs.next_resource_id => j < i + 1
        /\ \A k \in 1 .. Len(late.queue) :
              late.queue[k].id < gs.next_resource_id => late.queue[k].id < i + 1
    BY <2>2, <2>5, <2>6
  <2> QED BY <1>n, <2>3, <2>7 DEF Created
<1>8. ASSUME AssignMem PROVE Created'
  BY <1>n, <1>t, <1>8 DEF AssignMem, Assigning, Created, States
<1>9. ASSUME AssignWidth PROVE Created'
  BY <1>n, <1>t, <1>9 DEF AssignWidth, Assigning, Created, States
<1>10. ASSUME AssignHeight PROVE Created'
  BY <1>n, <1>t, <1>10 DEF AssignHeight, Assigning, Created, States
<1>11. ASSUME AssignStride PROVE Created'
  BY <1>n, <1>t, <1>11 DEF AssignStride, Assigning, Created, States
<1>12. ASSUME AssignResource PROVE Created'
  BY <1>n, <1>t, <1>12 DEF AssignResource, Assigning, Created, States
<1>13. ASSUME AssignFb PROVE Created'
  <2>1. /\ gs'.next_resource_id = gs.next_resource_id /\ gs'.fb_resource_id = rtg.id
        /\ UNCHANGED <<host, late>> /\ rtg.pc = "assign"
    BY <1>t, <1>13 DEF AssignFb, Assigning, States
  <2>2. gs.fb_resource_id < gs.next_resource_id
    BY <1>n, <2>1 DEF Numbers
  <2> QED BY <1>n, <2>1, <2>2 DEF Created
<1>14. ASSUME SetPanningFormat PROVE Created'
  BY <1>n, <1>t, <1>14 DEF SetPanningFormat, Return, RGoto, Created, States
<1>15. ASSUME CursorDone PROVE Created'
  BY <1>n, <1>t, <1>15 DEF CursorDone, Return, RGoto, Created, States
<1>16. ASSUME CursorFail PROVE Created'
  BY <1>n, <1>t, <1>16 DEF CursorFail, Return, RGoto, Created, States
<1>17. ASSUME ResizeCreate PROVE Created'
  <2>1. rtg.pc = "create" /\ gs' = gs
    BY <1>17, ResizeCreateSends DEF Sends
  <2>2. rtg.id < gs.next_resource_id
    BY <1>n, <2>1 DEF Numbers, Building
  <2> QED BY <1>n, <2>1, <2>2, <1>17, ResizeCreateDevice, CreatedDevice
              DEF Command
<1>18. ASSUME ResizeAttach PROVE Created'
  <2>1. gs' = gs
    BY <1>18, ResizeAttachSends DEF Sends
  <2> QED BY <1>n, <2>1, <1>18, ResizeAttachDevice, CreatedDevice DEF Command
<1>19. ASSUME ResizeScanout PROVE Created'
  <2>1. gs' = gs
    BY <1>19, ResizeScanoutSends DEF Sends
  <2> QED BY <1>n, <2>1, <1>19, ResizeScanoutDevice, CreatedDevice DEF Command
<1>20. ASSUME ResizeUnrefNew PROVE Created'
  <2>1. gs' = gs
    BY <1>20, ResizeUnrefNewSends DEF Sends
  <2> QED BY <1>n, <2>1, <1>20, ResizeUnrefNewDevice, CreatedDevice DEF Command
<1>21. ASSUME ResizeUnrefOld PROVE Created'
  <2>1. gs' = gs
    BY <1>21, ResizeUnrefOldSends DEF Sends
  <2> QED BY <1>n, <2>1, <1>21, ResizeUnrefOldDevice, CreatedDevice DEF Command
<1>22. ASSUME SetDPMSLevelSend PROVE Created'
  <2>1. gs' = gs
    BY <1>22, SetDPMSLevelSendSends DEF Sends
  <2> QED BY <1>n, <2>1, <1>22, SetDPMSLevelSendDevice, CreatedDevice
              DEF Command, DPMSScanout
<1>23. ASSUME CursorCreate2D PROVE Created'
  <2>1. gs' = gs
    BY <1>23, CursorCreate2DSends DEF Sends
  <2> QED BY <1>n, <2>1, <1>23, CursorCreate2DDevice, CreatedDevice DEF Command
<1>24. ASSUME CursorAttach PROVE Created'
  <2>1. gs' = gs
    BY <1>24, CursorAttachSends DEF Sends
  <2> QED BY <1>n, <2>1, <1>24, CursorAttachDevice, CreatedDevice DEF Command
<1>25. ASSUME TransferToHost2D PROVE Created'
  <2>1. gs' = gs
    BY <1>25, TransferToHost2DSends DEF FlushSends
  <2> QED BY <1>n, <2>1, <1>25, TransferToHost2DDevice, CreatedDevice
              DEF Command
<1>26. ASSUME ResourceFlush PROVE Created'
  <2>1. gs' = gs
    BY <1>26, ResourceFlushSends DEF FlushSends
  <2> QED BY <1>n, <2>1, <1>26, ResourceFlushDevice, CreatedDevice DEF Command
<1>27. ASSUME DevLate PROVE Created'
  <2>1. gs' = gs
    BY <1>27 DEF DevLate
  <2>2. PICK c : c = Head(late.queue)
    OBVIOUS
  <2>3. DeviceStep(c) /\ c = late.queue[1] /\ 1 \in 1 .. Len(late.queue)
    BY <1>27, <2>2, LateStep
  <2>4. c.op = "create" => c.id < gs.next_resource_id \/ c.id = CursorId
    BY <1>n, <2>3 DEF Created
  <2> QED BY <1>n, <2>1, <2>3, <2>4, CreatedDevice
<1>28. ASSUME UNCHANGED <<gs, host, late>> PROVE Created'
  BY <1>n, <1>28 DEF Created
<1>29. ASSUME ModeCall PROVE Created'
  BY <1>29, <1>1, <1>2, <1>3, <1>4, <1>28
     DEF ModeCall, SetGCNoOp, Call
<1>30. ASSUME ModeLocal PROVE Created'
  BY AssignCases, <1>30, <1>5, <1>6, <1>7, <1>8, <1>9, <1>10, <1>11, <1>12,
     <1>13, <1>14, <1>15, <1>16, <1>28
     DEF ModeLocal, ResizeNothing, Return, RGoto, ResizeNoMemory,
         ResizeFreeNew, ResizeFreeOld
<1>31. ASSUME ModeCommand PROVE Created'
  BY <1>31, <1>17, <1>18, <1>19, <1>20, <1>21, <1>22, <1>23, <1>24
     DEF ModeCommand
<1>32. ASSUME Flush PROVE Created'
  BY <1>32, <1>25, <1>26, <1>28
     DEF Flush, FlushWidth, FlushHeight, FlushObtain, ConvertStart,
         ConvertClamp, ConvertRows, TransferSkipped, FlushRelease
<1> QED BY <1>29, <1>30, <1>31, <1>32, <1>27 DEF Next

\* Names is kept.
LEMMA NamesStep ==
    ASSUME Types, Owned, Fresh, Named, Next
    PROVE  Names'
<1>t. /\ gs \in States /\ rtg \in RFrames /\ fl \in FFrames /\ calls \in Nat
      /\ None \notin Nat
  BY Constants DEF Types
<1>n. Names /\ Present
  BY DEF Named
<1>1. ASSUME NEW m \in Modes, SetGCNoOp(m) PROVE Names'
  BY <1>1, <1>t, <1>n DEF SetGCNoOp, Call, Names, Half, Building, Replacing,
       Cursoring, States, RFrames
<1>2. ASSUME NEW m \in Modes, SetGC(m) PROVE Names'
  BY <1>2, <1>t, <1>n DEF SetGC, Call, Names, Half, Building, Replacing,
       Cursoring, States, RFrames
<1>3. ASSUME NEW sf \in Surfaces, SetPanning(sf) PROVE Names'
  BY <1>3, <1>t, <1>n DEF SetPanning, Call, Names, Half, Building, Replacing,
       Cursoring, States, RFrames
<1>4. ASSUME NEW level \in {0, 3}, SetDPMSLevel(level) PROVE Names'
  BY <1>4, <1>t, <1>n DEF SetDPMSLevel, Call, RGoto, Names, Half, Building,
       Replacing, Cursoring, States, RFrames
<1>5. ASSUME CursorCreate PROVE Names'
  BY <1>5, <1>t, <1>n, ZenonT(60) DEF CursorCreate, Call, RGoto, Names, Half, Building,
       Replacing, Cursoring, States, RFrames
<1>6. ASSUME SetGCWidth PROVE Names'
  BY <1>6, <1>t, <1>n DEF SetGCWidth, RGoto, Names, Half, Building, Replacing,
       Cursoring, States, RFrames
<1>7. ASSUME SetGCHeight PROVE Names'
  BY <1>7, <1>t, <1>n DEF SetGCHeight, RGoto, Names, Half, Building, Replacing,
       Cursoring, States, RFrames
<1>8. ASSUME ResizeNothing PROVE Names'
  BY <1>8, <1>t, <1>n DEF ResizeNothing, Return, RGoto, Names, Half, Building,
       Replacing, Cursoring, States, RFrames
<1>9. ASSUME ResizeAlloc PROVE Names'
  <2>1. PICK i \in Nat : i = chip_alloc_resource_id
    BY AllocId
  <2>2. /\ gs'.fb_resource_id = gs.fb_resource_id /\ gs'.resource_id = gs.resource_id
        /\ gs'.cursor_resource_id = gs.cursor_resource_id
        /\ gs'.cursor_created = gs.cursor_created
        /\ rtg.pc = "resize" /\ rtg'.pc = "create" /\ rtg'.id = i /\ rtg'.field = rtg.field
    BY <1>9, <1>t, <2>1 DEF ResizeAlloc, States, RFrames
  <2>3. i \notin Reserved
    BY <2>1, AllocId
  <2> QED BY <1>n, <2>2, <2>3
              DEF Reserved, Names, Half, Building, Replacing, Cursoring
<1>10. ASSUME ResizeNoMemory PROVE Names'
  BY <1>10, <1>t, <1>n DEF ResizeNoMemory, Names, Half, Building, Replacing,
       Cursoring, States, RFrames
<1>11. ASSUME ResizeFreeNew PROVE Names'
  BY <1>11, <1>t, <1>n DEF ResizeFreeNew, Return, RGoto, Names, Half, Building,
       Replacing, Cursoring, States, RFrames
<1>12. ASSUME AssignMem PROVE Names'
  BY <1>12, <1>t, <1>n
      DEF AssignMem, Assigning, Names, Half, Building, Replacing,
       Cursoring, States, RFrames
<1>13. ASSUME AssignWidth PROVE Names'
  BY <1>13, <1>t, <1>n DEF AssignWidth, Assigning, Names, Half, Building,
       Replacing, Cursoring, States, RFrames
<1>14. ASSUME AssignHeight PROVE Names'
  BY <1>14, <1>t, <1>n DEF AssignHeight, Assigning, Names, Half, Building,
       Replacing, Cursoring, States, RFrames
<1>15. ASSUME AssignStride PROVE Names'
  BY <1>15, <1>t, <1>n DEF AssignStride, Assigning, Names, Half, Building,
       Replacing, Cursoring, States, RFrames
<1>16. ASSUME AssignResource PROVE Names'
  <2>1. /\ rtg.pc = "assign" /\ rtg.field = 5 /\ rtg'.pc = "assign" /\ rtg'.field = 6
        /\ rtg'.id = rtg.id /\ rtg'.old_res = rtg.old_res
        /\ gs'.fb_resource_id = gs.fb_resource_id /\ gs'.resource_id = rtg.id
        /\ gs'.cursor_resource_id = gs.cursor_resource_id
        /\ gs'.cursor_created = gs.cursor_created
    BY <1>16, <1>t DEF AssignResource, Assigning, States, RFrames
  <2> QED BY <1>n, <2>1 DEF Names, Half, Building, Replacing, Cursoring
<1>17. ASSUME AssignFb PROVE Names'
  <2>1. /\ rtg.pc = "assign" /\ rtg.field = 6 /\ rtg'.pc = "unref_old" /\ rtg'.field = 1
        /\ rtg'.id = rtg.id /\ rtg'.old_res = rtg.old_res
        /\ gs'.fb_resource_id = rtg.id /\ gs'.resource_id = gs.resource_id
        /\ gs'.cursor_resource_id = gs.cursor_resource_id
        /\ gs'.cursor_created = gs.cursor_created
    BY <1>17, <1>t DEF AssignFb, Assigning, States, RFrames
  <2>2. rtg.id # gs.cursor_resource_id
    BY <2>1 DEF Fresh, Numbers
  <2> QED BY <1>n, <2>1, <2>2 DEF Names, Half, Building, Replacing, Cursoring
<1>18. ASSUME ResizeFreeOld PROVE Names'
  BY <1>18, <1>t, <1>n DEF ResizeFreeOld, Return, RGoto, Names, Half, Building,
       Replacing, Cursoring, States, RFrames
<1>19. ASSUME SetPanningFormat PROVE Names'
  BY <1>19, <1>t, <1>n
      DEF SetPanningFormat, Return, RGoto, Names, Half, Building,
       Replacing, Cursoring, States, RFrames
<1>20. ASSUME CursorDone PROVE Names'
  BY <1>20, <1>t, <1>n DEF CursorDone, Return, RGoto, Names, Half, Building,
       Replacing, Cursoring, States, RFrames
<1>21. ASSUME CursorFail PROVE Names'
  BY <1>21, <1>t, <1>n DEF CursorFail, Return, RGoto, Names, Half, Building,
       Replacing, Cursoring, States, RFrames
<1>22. ASSUME ResizeCreate PROVE Names'
  <2>1. Sends("create", Command("create", rtg.id, gs.active_width, gs.active_height),
              "attach", "free_new")
    BY <1>22, ResizeCreateSends
  <2>2. /\ rtg.pc = "create" /\ rtg'.pc \in {"create", "attach", "free_new"}
        /\ rtg'.id = rtg.id /\ rtg'.old_res = rtg.old_res /\ rtg'.field = rtg.field
    BY <2>1, SendsMoves
  <2>3. gs' = gs
    BY <2>1 DEF Sends
  <2>4. rtg.field = 1
    BY <2>2 DEF Owned
  <2> QED BY <1>n, <2>2, <2>3, <2>4
              DEF Names, Half, Building, Replacing, Cursoring
<1>23. ASSUME ResizeAttach PROVE Names'
  <2>1. Sends("attach", [Command("attach", rtg.id, 0, 0) EXCEPT !.buf = rtg.buf],
              "scanout", "unref_new")
    BY <1>23, ResizeAttachSends
  <2>2. /\ rtg.pc = "attach" /\ rtg'.pc \in {"attach", "scanout", "unref_new"}
        /\ rtg'.id = rtg.id /\ rtg'.old_res = rtg.old_res /\ rtg'.field = rtg.field
    BY <2>1, SendsMoves
  <2>3. gs' = gs
    BY <2>1 DEF Sends
  <2>4. rtg.field = 1
    BY <2>2 DEF Owned
  <2> QED BY <1>n, <2>2, <2>3, <2>4
              DEF Names, Half, Building, Replacing, Cursoring
<1>24. ASSUME ResizeScanout PROVE Names'
  <2>1. Sends("scanout", Command("scanout", rtg.id, gs.active_width, gs.active_height),
              "assign", "unref_new")
    BY <1>24, ResizeScanoutSends
  <2>2. /\ rtg.pc = "scanout" /\ rtg'.pc \in {"scanout", "assign", "unref_new"}
        /\ rtg'.id = rtg.id /\ rtg'.old_res = rtg.old_res /\ rtg'.field = rtg.field
    BY <2>1, SendsMoves
  <2>3. gs' = gs
    BY <2>1 DEF Sends
  <2>4. rtg.field = 1
    BY <2>2 DEF Owned
  <2> QED BY <1>n, <2>2, <2>3, <2>4
              DEF Names, Half, Building, Replacing, Cursoring
<1>25. ASSUME ResizeUnrefNew PROVE Names'
  <2>1. Sends("unref_new", Command("unref", rtg.id, 0, 0),
              "free_new", "free_new")
    BY <1>25, ResizeUnrefNewSends
  <2>2. /\ rtg.pc = "unref_new" /\ rtg'.pc \in {"unref_new", "free_new", "free_new"}
        /\ rtg'.id = rtg.id /\ rtg'.old_res = rtg.old_res /\ rtg'.field = rtg.field
    BY <2>1, SendsMoves
  <2>3. gs' = gs
    BY <2>1 DEF Sends
  <2>4. rtg.field = 1
    BY <2>2 DEF Owned
  <2> QED BY <1>n, <2>2, <2>3, <2>4
              DEF Names, Half, Building, Replacing, Cursoring
<1>26. ASSUME ResizeUnrefOld PROVE Names'
  <2>1. Sends("unref_old", Command("unref", rtg.old_res, 0, 0),
              "free_old", "free_old")
    BY <1>26, ResizeUnrefOldSends
  <2>2. /\ rtg.pc = "unref_old" /\ rtg'.pc \in {"unref_old", "free_old", "free_old"}
        /\ rtg'.id = rtg.id /\ rtg'.old_res = rtg.old_res /\ rtg'.field = rtg.field
    BY <2>1, SendsMoves
  <2>3. gs' = gs
    BY <2>1 DEF Sends
  <2>4. rtg.field = 1
    BY <2>2 DEF Owned
  <2> QED BY <1>n, <2>2, <2>3, <2>4
              DEF Names, Half, Building, Replacing, Cursoring
<1>27. ASSUME SetDPMSLevelSend PROVE Names'
  <2>1. Sends("dpms", DPMSScanout, "idle", "idle")
    BY <1>27, SetDPMSLevelSendSends
  <2>2. /\ rtg.pc = "dpms" /\ rtg'.pc \in {"dpms", "idle", "idle"}
        /\ rtg'.id = rtg.id /\ rtg'.old_res = rtg.old_res /\ rtg'.field = rtg.field
    BY <2>1, SendsMoves
  <2>3. gs' = gs
    BY <2>1 DEF Sends
  <2>4. rtg.field = 1
    BY <2>2 DEF Owned
  <2> QED BY <1>n, <2>2, <2>3, <2>4
              DEF Names, Half, Building, Replacing, Cursoring
<1>28. ASSUME CursorCreate2D PROVE Names'
  <2>1. Sends("cursor_create", Command("create", CursorId, 1, 1),
              "cursor_attach", "cursor_fail")
    BY <1>28, CursorCreate2DSends
  <2>2. /\ rtg.pc = "cursor_create" /\ rtg'.pc \in {"cursor_create", "cursor_attach", "cursor_fail"}
        /\ rtg'.id = rtg.id /\ rtg'.old_res = rtg.old_res /\ rtg'.field = rtg.field
    BY <2>1, SendsMoves
  <2>3. gs' = gs
    BY <2>1 DEF Sends
  <2>4. rtg.field = 1
    BY <2>2 DEF Owned
  <2>5. CASE rtg'.pc = "cursor_attach"
    <3>1. Accepts(host, Command("create", CursorId, 1, 1))
      BY <1>t, <2>1, <2>2, <2>5 DEF Sends, RFrames
    <3>2. CursorId \notin DOMAIN host.res
      BY <3>1 DEF Accepts, Command
    <3>3. gs.fb_resource_id # CursorId
      BY <1>n, <3>2 DEF Present
    <3> QED BY <1>n, <2>2, <2>3, <2>4, <2>5, <3>3
                DEF Names, Half, Building, Replacing, Cursoring
  <2>6. CASE rtg'.pc # "cursor_attach"
    BY <1>n, <2>2, <2>3, <2>4, <2>6
        DEF Names, Half, Building, Replacing, Cursoring
  <2> QED BY <2>5, <2>6
<1>29. ASSUME CursorAttach PROVE Names'
  <2>1. Sends("cursor_attach", [Command("attach", CursorId, 0, 0) EXCEPT !.buf = gs.cursor_mem],
              "cursor_done", "cursor_fail")
    BY <1>29, CursorAttachSends
  <2>2. /\ rtg.pc = "cursor_attach" /\ rtg'.pc \in {"cursor_attach", "cursor_done", "cursor_fail"}
        /\ rtg'.id = rtg.id /\ rtg'.old_res = rtg.old_res /\ rtg'.field = rtg.field
    BY <2>1, SendsMoves
  <2>3. gs' = gs
    BY <2>1 DEF Sends
  <2>4. rtg.field = 1
    BY <2>2 DEF Owned
  <2> QED BY <1>n, <2>2, <2>3, <2>4
              DEF Names, Half, Building, Replacing, Cursoring
<1>30. ASSUME UNCHANGED <<gs, rtg>> PROVE Names'
  BY <1>n, <1>30 DEF Names, Half
<1>31. ASSUME ModeCall PROVE Names'
  BY <1>31, <1>1, <1>2, <1>3, <1>4, <1>5
     DEF ModeCall
<1>32. ASSUME ModeLocal PROVE Names'
  BY AssignCases, <1>32, <1>6, <1>7, <1>8, <1>9, <1>10, <1>11, <1>12, <1>13,
     <1>14, <1>15, <1>16, <1>17, <1>18, <1>19, <1>20, <1>21
     DEF ModeLocal
<1>33. ASSUME ModeCommand PROVE Names'
  BY <1>33, <1>22, <1>23, <1>24, <1>25, <1>26, <1>27, <1>28, <1>29
     DEF ModeCommand
<1>34. ASSUME Flush PROVE Names'
  BY <1>34, <1>30
     DEF Flush, FlushWidth, FlushHeight, FlushObtain, ConvertStart,
         ConvertClamp, ConvertRows, TransferSkipped, TransferToHost2D,
         FlushSend, Command, ResourceFlush, FlushRelease
<1>35. ASSUME DevLate PROVE Names'
  BY <1>35, <1>30
     DEF DevLate
<1> QED BY <1>31, <1>32, <1>33, <1>34, <1>35 DEF Next

\* Present is kept.
LEMMA PresentStep ==
    ASSUME Types, Owned, Fresh, Named, Next
    PROVE  Present'
<1>t. /\ gs \in States /\ rtg \in RFrames /\ fl \in FFrames /\ calls \in Nat
      /\ None \notin Nat
  BY Constants DEF Types
<1>n. Names /\ Present /\ Numbers
  BY DEF Named, Fresh
<1>1. ASSUME NEW m \in Modes, SetGCNoOp(m) PROVE Present'
  BY <1>1, <1>t, <1>n DEF SetGCNoOp, Call, Present, Wanted, States, RFrames
<1>2. ASSUME NEW m \in Modes, SetGC(m) PROVE Present'
  BY <1>2, <1>t, <1>n DEF SetGC, Call, Present, Wanted, States, RFrames
<1>3. ASSUME NEW sf \in Surfaces, SetPanning(sf) PROVE Present'
  BY <1>3, <1>t, <1>n DEF SetPanning, Call, Present, Wanted, States, RFrames
<1>4. ASSUME NEW level \in {0, 3}, SetDPMSLevel(level) PROVE Present'
  BY <1>4, <1>t, <1>n DEF SetDPMSLevel, Call, RGoto, Present, Wanted, States,
       RFrames
<1>5. ASSUME CursorCreate PROVE Present'
  <2>1. CASE UNCHANGED <<gs, rtg>>
    BY <1>5, <1>n, <2>1 DEF CursorCreate, Present
  <2>2. CASE /\ gs' = [gs EXCEPT !.cursor_mem = calls', !.cursor_resource_id = CursorId]
             /\ rtg' = [rtg EXCEPT !.pc = "cursor_create"]
    BY <1>5, <1>n, <1>t, <2>2
        DEF CursorCreate, Present, Wanted, States, RFrames
  <2> QED BY <1>5, <2>1, <2>2 DEF CursorCreate, RGoto
<1>6. ASSUME SetGCWidth PROVE Present'
  BY <1>6, <1>t, <1>n DEF SetGCWidth, RGoto, Present, Wanted, States, RFrames
<1>7. ASSUME SetGCHeight PROVE Present'
  BY <1>7, <1>t, <1>n DEF SetGCHeight, RGoto, Present, Wanted, States, RFrames
<1>8. ASSUME ResizeNothing PROVE Present'
  BY <1>8, <1>t, <1>n
      DEF ResizeNothing, Return, RGoto, Present, Wanted, States,
       RFrames
<1>9. ASSUME ResizeAlloc PROVE Present'
  <2>1. PICK i \in Nat : i = chip_alloc_resource_id
    BY AllocId
  <2>2. /\ gs'.fb_resource_id = gs.fb_resource_id /\ gs'.resource_id = gs.resource_id
        /\ gs'.next_resource_id = i + 1
        /\ rtg.pc = "resize" /\ rtg'.pc = "create" /\ rtg'.id = i /\ UNCHANGED <<host, late>>
    BY <1>9, <1>t, <2>1 DEF ResizeAlloc, States, RFrames
  <2>3. i >= gs.next_resource_id
    BY <2>1, AllocId
  <2>4. late.queue \in Seq(Commands)
    BY DEF Types
  <2>5. ASSUME NEW k \in 1 .. Len(late.queue), late.queue[k].op = "unref"
        PROVE  late.queue[k].id # i /\ late.queue[k].id < i + 1
    <3>1. late.queue[k] \in Commands
      BY <2>4, ElementOfSeq
    <3>2. late.queue[k].id \in Nat /\ late.queue[k].id < gs.next_resource_id
      BY <1>n, <2>5, <3>1 DEF Present, Commands
    <3> QED BY <1>t, <2>3, <3>2, SMTT(60) DEF States
  <2> QED BY <1>n, <2>2, <2>5 DEF Present
<1>10. ASSUME ResizeNoMemory PROVE Present'
  BY <1>10, <1>t, <1>n DEF ResizeNoMemory, Present, Wanted, States, RFrames
<1>11. ASSUME ResizeFreeNew PROVE Present'
  BY <1>11, <1>t, <1>n
      DEF ResizeFreeNew, Return, RGoto, Present, Wanted, States,
       RFrames
<1>12. ASSUME AssignMem PROVE Present'
  BY <1>12, <1>t, <1>n
      DEF AssignMem, Assigning, Present, Wanted, States, RFrames
<1>13. ASSUME AssignWidth PROVE Present'
  BY <1>13, <1>t, <1>n
      DEF AssignWidth, Assigning, Present, Wanted, States, RFrames
<1>14. ASSUME AssignHeight PROVE Present'
  BY <1>14, <1>t, <1>n DEF AssignHeight, Assigning, Present, Wanted, States,
       RFrames
<1>15. ASSUME AssignStride PROVE Present'
  BY <1>15, <1>t, <1>n DEF AssignStride, Assigning, Present, Wanted, States,
       RFrames
<1>16. ASSUME AssignResource PROVE Present'
  <2>1. /\ rtg.pc = "assign" /\ rtg'.pc = "assign"
        /\ rtg'.id = rtg.id /\ UNCHANGED <<host, late>>
        /\ gs'.next_resource_id = gs.next_resource_id
        /\ gs'.fb_resource_id \in {gs.fb_resource_id, rtg.id}
        /\ gs'.resource_id \in {gs.resource_id, rtg.id}
    BY <1>16, <1>t DEF AssignResource, Assigning, States, RFrames
  <2> QED BY <1>n, <2>1 DEF Present, Wanted
<1>17. ASSUME AssignFb PROVE Present'
  <2>1. /\ rtg.pc = "assign" /\ rtg'.pc = "unref_old"
        /\ rtg'.id = rtg.id /\ UNCHANGED <<host, late>>
        /\ gs'.next_resource_id = gs.next_resource_id
        /\ gs'.fb_resource_id \in {gs.fb_resource_id, rtg.id}
        /\ gs'.resource_id \in {gs.resource_id, rtg.id}
    BY <1>17, <1>t DEF AssignFb, Assigning, States, RFrames
  <2> QED BY <1>n, <2>1 DEF Present, Wanted
<1>18. ASSUME ResizeFreeOld PROVE Present'
  BY <1>18, <1>t, <1>n
      DEF ResizeFreeOld, Return, RGoto, Present, Wanted, States,
       RFrames
<1>19. ASSUME SetPanningFormat PROVE Present'
  BY <1>19, <1>t, <1>n DEF SetPanningFormat, Return, RGoto, Present, Wanted,
       States, RFrames
<1>20. ASSUME CursorDone PROVE Present'
  BY <1>20, <1>t, <1>n DEF CursorDone, Return, RGoto, Present, Wanted, States,
       RFrames
<1>21. ASSUME CursorFail PROVE Present'
  BY <1>21, <1>t, <1>n DEF CursorFail, Return, RGoto, Present, Wanted, States,
       RFrames
<1>22. ASSUME ResizeCreate PROVE Present'
  <2>1. Sends("create", Command("create", rtg.id, gs.active_width, gs.active_height),
              "attach", "free_new")
    BY <1>22, ResizeCreateSends
  <2>2. /\ rtg.pc = "create" /\ rtg'.pc \in {"create", "attach", "free_new"}
        /\ rtg'.id = rtg.id
    BY <2>1, SendsMoves
  <2>3. gs' = gs
    BY <2>1 DEF Sends
  <2>4. PICK c : c = Command("create", rtg.id, gs.active_width, gs.active_height)
    OBVIOUS
  <2>5. DeviceStep(c)
    BY <1>22, <2>4, ResizeCreateDevice
  <2>6. c.op = "create" /\ c.id = rtg.id
    BY <2>4 DEF Command
  <2> QED BY <1>n, <2>2, <2>3, <2>5, <2>6, PresentDevice DEF Wanted
<1>23. ASSUME ResizeAttach PROVE Present'
  <2>1. Sends("attach", [Command("attach", rtg.id, 0, 0) EXCEPT !.buf = rtg.buf],
              "scanout", "unref_new")
    BY <1>23, ResizeAttachSends
  <2>2. /\ rtg.pc = "attach" /\ rtg'.pc \in {"attach", "scanout", "unref_new"}
        /\ rtg'.id = rtg.id
    BY <2>1, SendsMoves
  <2>3. gs' = gs
    BY <2>1 DEF Sends
  <2>4. PICK c : c = [Command("attach", rtg.id, 0, 0) EXCEPT !.buf = rtg.buf]
    OBVIOUS
  <2>5. DeviceStep(c)
    BY <1>23, <2>4, ResizeAttachDevice
  <2>6. c.op = "attach" /\ c.id = rtg.id
    BY <2>4 DEF Command
  <2> QED BY <1>n, <2>2, <2>3, <2>5, <2>6, PresentDevice DEF Wanted
<1>24. ASSUME ResizeScanout PROVE Present'
  <2>1. Sends("scanout", Command("scanout", rtg.id, gs.active_width, gs.active_height),
              "assign", "unref_new")
    BY <1>24, ResizeScanoutSends
  <2>2. /\ rtg.pc = "scanout" /\ rtg'.pc \in {"scanout", "assign", "unref_new"}
        /\ rtg'.id = rtg.id
    BY <2>1, SendsMoves
  <2>3. gs' = gs
    BY <2>1 DEF Sends
  <2>4. PICK c : c = Command("scanout", rtg.id, gs.active_width, gs.active_height)
    OBVIOUS
  <2>5. DeviceStep(c)
    BY <1>24, <2>4, ResizeScanoutDevice
  <2>6. c.op = "scanout" /\ c.id = rtg.id
    BY <2>4 DEF Command
  <2>7. ASSUME rtg'.pc = "assign" PROVE rtg.id \in DOMAIN host'.res
    <3>1. Accepts(host, c)
      BY <1>t, <2>1, <2>2, <2>4, <2>7 DEF Sends, RFrames
    <3>2. rtg.id # 0
      BY <1>n, <2>2 DEF Numbers, Building
    <3>3. rtg.id \in DOMAIN host.res
      BY <2>6, <3>1, <3>2 DEF Accepts
    <3> QED BY <2>5, <2>6, <3>3 DEF DeviceStep
  <2> QED BY <1>n, <2>2, <2>3, <2>5, <2>6, <2>7, PresentDevice DEF Wanted
<1>25. ASSUME ResizeUnrefNew PROVE Present'
  <2>1. Sends("unref_new", Command("unref", rtg.id, 0, 0),
              "free_new", "free_new")
    BY <1>25, ResizeUnrefNewSends
  <2>2. /\ rtg.pc = "unref_new" /\ rtg'.pc \in {"unref_new", "free_new", "free_new"}
        /\ rtg'.id = rtg.id
    BY <2>1, SendsMoves
  <2>3. gs' = gs
    BY <2>1 DEF Sends
  <2>4. PICK c : c = Command("unref", rtg.id, 0, 0)
    OBVIOUS
  <2>5. DeviceStep(c)
    BY <1>25, <2>4, ResizeUnrefNewDevice
  <2>6. c.op = "unref" /\ c.id = rtg.id
    BY <2>4 DEF Command
  <2>7. c.id \notin {gs.fb_resource_id, gs.resource_id} /\ c.id < gs.next_resource_id
    BY <1>n, <2>2, <2>6 DEF Names, Numbers, Building, Replacing
  <2> QED BY <1>n, <2>2, <2>3, <2>5, <2>6, <2>7, PresentDevice DEF Wanted
<1>26. ASSUME ResizeUnrefOld PROVE Present'
  <2>1. Sends("unref_old", Command("unref", rtg.old_res, 0, 0),
              "free_old", "free_old")
    BY <1>26, ResizeUnrefOldSends
  <2>2. /\ rtg.pc = "unref_old" /\ rtg'.pc \in {"unref_old", "free_old", "free_old"}
        /\ rtg'.id = rtg.id
    BY <2>1, SendsMoves
  <2>3. gs' = gs
    BY <2>1 DEF Sends
  <2>4. PICK c : c = Command("unref", rtg.old_res, 0, 0)
    OBVIOUS
  <2>5. DeviceStep(c)
    BY <1>26, <2>4, ResizeUnrefOldDevice
  <2>6. c.op = "unref" /\ c.id = rtg.old_res
    BY <2>4 DEF Command
  <2>7. c.id \notin {gs.fb_resource_id, gs.resource_id} /\ c.id < gs.next_resource_id
    BY <1>n, <2>2, <2>6 DEF Names, Numbers, Building, Replacing
  <2> QED BY <1>n, <2>2, <2>3, <2>5, <2>6, <2>7, PresentDevice DEF Wanted
<1>27. ASSUME SetDPMSLevelSend PROVE Present'
  <2>1. Sends("dpms", DPMSScanout, "idle", "idle")
    BY <1>27, SetDPMSLevelSendSends
  <2>2. /\ rtg.pc = "dpms" /\ rtg'.pc \in {"dpms", "idle", "idle"}
        /\ rtg'.id = rtg.id
    BY <2>1, SendsMoves
  <2>3. gs' = gs
    BY <2>1 DEF Sends
  <2>4. PICK c : c = DPMSScanout
    OBVIOUS
  <2>5. DeviceStep(c)
    BY <1>27, <2>4, SetDPMSLevelSendDevice
  <2>6. c.op = "scanout"
    BY <2>4 DEF Command, DPMSScanout
  <2> QED BY <1>n, <2>2, <2>3, <2>5, <2>6, PresentDevice DEF Wanted
<1>28. ASSUME CursorCreate2D PROVE Present'
  <2>1. Sends("cursor_create", Command("create", CursorId, 1, 1),
              "cursor_attach", "cursor_fail")
    BY <1>28, CursorCreate2DSends
  <2>2. /\ rtg.pc = "cursor_create" /\ rtg'.pc \in {"cursor_create", "cursor_attach", "cursor_fail"}
        /\ rtg'.id = rtg.id
    BY <2>1, SendsMoves
  <2>3. gs' = gs
    BY <2>1 DEF Sends
  <2>4. PICK c : c = Command("create", CursorId, 1, 1)
    OBVIOUS
  <2>5. DeviceStep(c)
    BY <1>28, <2>4, CursorCreate2DDevice
  <2>6. c.op = "create" /\ c.id = CursorId
    BY <2>4 DEF Command
  <2> QED BY <1>n, <2>2, <2>3, <2>5, <2>6, PresentDevice DEF Wanted
<1>29. ASSUME CursorAttach PROVE Present'
  <2>1. Sends("cursor_attach", [Command("attach", CursorId, 0, 0) EXCEPT !.buf = gs.cursor_mem],
              "cursor_done", "cursor_fail")
    BY <1>29, CursorAttachSends
  <2>2. /\ rtg.pc = "cursor_attach" /\ rtg'.pc \in {"cursor_attach", "cursor_done", "cursor_fail"}
        /\ rtg'.id = rtg.id
    BY <2>1, SendsMoves
  <2>3. gs' = gs
    BY <2>1 DEF Sends
  <2>4. PICK c : c = [Command("attach", CursorId, 0, 0) EXCEPT !.buf = gs.cursor_mem]
    OBVIOUS
  <2>5. DeviceStep(c)
    BY <1>29, <2>4, CursorAttachDevice
  <2>6. c.op = "attach" /\ c.id = CursorId
    BY <2>4 DEF Command
  <2> QED BY <1>n, <2>2, <2>3, <2>5, <2>6, PresentDevice DEF Wanted
<1>30. ASSUME TransferToHost2D PROVE Present'
  <2>1. gs' = gs /\ rtg' = rtg
    BY <1>30, TransferToHost2DSends DEF FlushSends
  <2>2. PICK c : c = Command("transfer", gs.fb_resource_id, fl.w, fl.h)
    OBVIOUS
  <2>3. DeviceStep(c) /\ c.op = "transfer"
    BY <1>30, <2>2, TransferToHost2DDevice DEF Command
  <2> QED BY <1>n, <2>1, <2>3, PresentFlush
<1>31. ASSUME ResourceFlush PROVE Present'
  <2>1. gs' = gs /\ rtg' = rtg
    BY <1>31, ResourceFlushSends DEF FlushSends
  <2>2. PICK c : c = Command("flush", gs.fb_resource_id, fl.w, fl.h)
    OBVIOUS
  <2>3. DeviceStep(c) /\ c.op = "flush"
    BY <1>31, <2>2, ResourceFlushDevice DEF Command
  <2> QED BY <1>n, <2>1, <2>3, PresentFlush
<1>32. ASSUME DevLate PROVE Present'
  <2>1. gs' = gs /\ rtg' = rtg
    BY <1>32 DEF DevLate
  <2>2. PICK c : c = Head(late.queue)
    OBVIOUS
  <2>3. DeviceStep(c) /\ c = late.queue[1] /\ 1 \in 1 .. Len(late.queue)
    BY <1>32, <2>2, LateStep
  <2>4. c.op = "unref" => /\ c.id \notin {gs.fb_resource_id, gs.resource_id}
                          /\ rtg.pc \in Wanted => c.id # rtg.id
                          /\ c.id < gs.next_resource_id
    BY <1>n, <2>3 DEF Present
  <2> QED BY <1>n, <2>1, <2>3, <2>4, PresentFlush
<1>33. ASSUME UNCHANGED <<gs, rtg, host, late>> PROVE Present'
  BY <1>n, <1>33 DEF Present
<1>34. ASSUME ModeCall PROVE Present'
  BY <1>34, <1>1, <1>2, <1>3, <1>4, <1>5
     DEF ModeCall
<1>35. ASSUME ModeLocal PROVE Present'
  BY AssignCases, <1>35, <1>6, <1>7, <1>8, <1>9, <1>10, <1>11, <1>12, <1>13,
     <1>14, <1>15, <1>16, <1>17, <1>18, <1>19, <1>20, <1>21
     DEF ModeLocal
<1>36. ASSUME ModeCommand PROVE Present'
  BY <1>36, <1>22, <1>23, <1>24, <1>25, <1>26, <1>27, <1>28, <1>29
     DEF ModeCommand
<1>37. ASSUME Flush PROVE Present'
  BY <1>37, <1>30, <1>31, <1>33
     DEF Flush, FlushWidth, FlushHeight, FlushObtain, ConvertStart,
         ConvertClamp, ConvertRows, TransferSkipped, FlushRelease
<1> QED BY <1>34, <1>35, <1>36, <1>37, <1>32 DEF Next

-----------------------------------------------------------------------------
(* Until a command has been given up on: what the device has.              *)

LEMMA Creates ==
    ASSUME Types, NEW id, NEW w, NEW h,
           Accepts(host, Command("create", id, w, h)),
           host' = Execute(host, Command("create", id, w, h))
    PROVE  /\ id # 0 /\ id \notin DOMAIN host.res
           /\ DOMAIN host'.res = DOMAIN host.res \cup {id}
           /\ \A i \in DOMAIN host.res : host'.res[i] = host.res[i]
           /\ host'.res[id].w = w /\ host'.res[id].h = h
           /\ host'.res[id].blob = FALSE /\ host'.res[id].backing = None
           /\ host'.scanout = host.scanout /\ host'.shown = host.shown
<1>1. PICK c : c = Command("create", id, w, h)
  OBVIOUS
<1>2. c.op = "create" /\ c.id = id /\ c.w = w /\ c.h = h
  BY <1>1 DEF Command
<1>3. DeviceType(host) /\ Accepts(host, c) /\ host' = Execute(host, c)
  BY <1>1 DEF Types
<1>4. /\ id # 0 /\ id \notin DOMAIN host.res
      /\ host'.res = [i \in DOMAIN host.res \cup {id} |->
                        IF i = id
                        THEN [w |-> w, h |-> h, blob |-> FALSE,
                              backing |-> None, pixels |-> Blank]
                        ELSE host.res[i]]
      /\ host' = [res |-> host'.res, scanout |-> host.scanout, shown |-> host.shown]
  BY <1>2, <1>3, ExecCreate
<1> QED BY <1>4

LEMMA Attaches ==
    ASSUME Types, NEW id, NEW b \in Nat, NEW c,
           c = [Command("attach", id, 0, 0) EXCEPT !.buf = b],
           Accepts(host, c), host' = Execute(host, c)
    PROVE  /\ id \in DOMAIN host.res /\ host.res[id].backing = None
           /\ DOMAIN host'.res = DOMAIN host.res
           /\ \A i \in DOMAIN host.res : /\ i # id => host'.res[i] = host.res[i]
                                         /\ host'.res[i].w = host.res[i].w
                                         /\ host'.res[i].h = host.res[i].h
                                         /\ host'.res[i].blob = host.res[i].blob
           /\ host'.res[id].backing = b
           /\ host'.scanout = host.scanout /\ host'.shown = host.shown
<1>1. c.op = "attach" /\ c.id = id /\ c.buf = b
  BY DEF Command
<1>2. DeviceType(host)
  BY DEF Types
<1>3. /\ id \in DOMAIN host.res
      /\ host'.res = [host.res EXCEPT ![id] = [@ EXCEPT !.backing = b]]
      /\ host' = [res |-> host'.res, scanout |-> host.scanout, shown |-> host.shown]
  BY <1>1, <1>2, ExecAttach, ZenonT(60)
<1>4. host.res[id] \in Resources
  BY <1>2, <1>3 DEF DeviceType
<1>5. host.res[id].backing = None
  BY <1>1 DEF Accepts
<1> QED BY <1>2, <1>3, <1>4, <1>5 DEF DeviceType, Resources

LEMMA Scans ==
    ASSUME Types, NEW id, NEW w, NEW h,
           Accepts(host, Command("scanout", id, w, h)),
           host' = Execute(host, Command("scanout", id, w, h))
    PROVE  /\ host'.res = host.res /\ host'.scanout = id
           /\ host'.shown = IF id = 0 THEN Blank ELSE Picture(host.res[id])
<1>1. PICK c : c = Command("scanout", id, w, h)
  OBVIOUS
<1>2. c.op = "scanout" /\ c.id = id
  BY <1>1 DEF Command
<1>3. DeviceType(host) /\ Accepts(host, c) /\ host' = Execute(host, c)
  BY <1>1 DEF Types
<1> QED BY <1>2, <1>3, ExecScanout

LEMMA Transfers ==
    ASSUME Types, NEW id, NEW w, NEW h,
           Accepts(host, Command("transfer", id, w, h)),
           host' = Execute(host, Command("transfer", id, w, h))
    PROVE  /\ id \in DOMAIN host.res
           /\ DOMAIN host'.res = DOMAIN host.res
           /\ \A i \in DOMAIN host.res : /\ i # id => host'.res[i] = host.res[i]
                                         /\ host'.res[i].w = host.res[i].w
                                         /\ host'.res[i].h = host.res[i].h
                                         /\ host'.res[i].blob = host.res[i].blob
                                         /\ host'.res[i].backing = host.res[i].backing
           /\ host'.res[id].pixels = Drawn(host.res[id])
           /\ host'.scanout = host.scanout /\ host'.shown = host.shown
<1>1. PICK c : c = Command("transfer", id, w, h)
  OBVIOUS
<1>2. c.op = "transfer" /\ c.id = id
  BY <1>1 DEF Command
<1>3. DeviceType(host) /\ Accepts(host, c) /\ host' = Execute(host, c)
  BY <1>1 DEF Types
<1>4. /\ id \in DOMAIN host.res
      /\ host'.res = [host.res EXCEPT ![id] = [@ EXCEPT !.pixels = Drawn(host.res[id])]]
      /\ host' = [res |-> host'.res, scanout |-> host.scanout, shown |-> host.shown]
  BY <1>2, <1>3, ExecTransfer
<1>5. host.res[id] \in Resources
  BY <1>3, <1>4 DEF DeviceType
<1> QED BY <1>3, <1>4, <1>5 DEF DeviceType, Resources

LEMMA Flushes ==
    ASSUME Types, NEW id, NEW w, NEW h,
           Accepts(host, Command("flush", id, w, h)),
           host' = Execute(host, Command("flush", id, w, h))
    PROVE  /\ host'.res = host.res /\ host'.scanout = host.scanout
           /\ host'.shown = IF host.scanout = id THEN Picture(host.res[id]) ELSE host.shown
<1>1. PICK c : c = Command("flush", id, w, h)
  OBVIOUS
<1>2. c.op = "flush" /\ c.id = id
  BY <1>1 DEF Command
<1>3. DeviceType(host) /\ Accepts(host, c) /\ host' = Execute(host, c)
  BY <1>1 DEF Types
<1> QED BY <1>2, <1>3, ExecFlush

LEMMA Unrefs ==
    ASSUME Types, NEW id,
           Accepts(host, Command("unref", id, 0, 0)),
           host' = Execute(host, Command("unref", id, 0, 0))
    PROVE  /\ DOMAIN host'.res = DOMAIN host.res \ {id}
           /\ \A i \in DOMAIN host'.res : host'.res[i] = host.res[i]
           /\ host.scanout # id => /\ host'.scanout = host.scanout
                                   /\ host'.shown = host.shown
<1>1. PICK c : c = Command("unref", id, 0, 0)
  OBVIOUS
<1>2. c.op = "unref" /\ c.id = id
  BY <1>1 DEF Command
<1>3. DeviceType(host) /\ Accepts(host, c) /\ host' = Execute(host, c)
  BY <1>1 DEF Types
<1>4. /\ host'.res = [i \in DOMAIN host.res \ {id} |-> host.res[i]]
      /\ host' = [res |-> host'.res,
                  scanout |-> IF host.scanout = id THEN 0 ELSE host.scanout,
                  shown |-> IF host.scanout = id THEN Blank ELSE host.shown]
  BY <1>2, <1>3, ExecUnref
<1>5. /\ host'.scanout = IF host.scanout = id THEN 0 ELSE host.scanout
      /\ host'.shown = IF host.scanout = id THEN Blank ELSE host.shown
  BY <1>4
<1> QED BY <1>4, <1>5

\* How a command nobody gives up on can end.
Taken(c, ok) ==
    /\ Accepts(host, c) /\ host' = Execute(host, c)
    /\ rtg'.pc = ok /\ rtg'.failed = rtg.failed

Refused(l, c, fails) ==
    /\ host' = host
    /\ ~Accepts(host, c) \/ c.op \in Refusable
    /\ rtg.failed \subseteq rtg'.failed
    /\ \/ rtg'.pc = fails /\ l \in rtg'.failed
       \/ rtg'.pc = l /\ l \in {"scanout", "dpms"}

LEMMA SendsQuiet ==
    ASSUME Types, NEW l, NEW c, NEW ok, NEW fails, Sends(l, c, ok, fails), ~late'.ever
    PROVE  ~late.ever /\ (Taken(c, ok) \/ Refused(l, c, fails))
<1>1. rtg \in RFrames /\ rtg.pc = l
  BY DEF Types, Sends
<1>2. ~late.ever
  BY DEF Sends
<1>3. CASE /\ Accepts(host, c) /\ host' = Execute(host, c)
           /\ rtg' = [rtg EXCEPT !.pc = ok, !.attempt = 0]
  BY <1>1, <1>2, <1>3 DEF RFrames, Taken
<1> DEFINE Not == host' = host /\ (~Accepts(host, c) \/ c.op \in Refusable)
<1>4. CASE Not /\ rtg' = [rtg EXCEPT !.pc = fails, !.failed = @ \cup {l}]
  BY <1>1, <1>2, <1>4 DEF RFrames, Refused
<1>5. CASE Not /\ rtg' = [rtg EXCEPT !.attempt = @ + 1] /\ l \in {"scanout", "dpms"}
  BY <1>1, <1>2, <1>5 DEF RFrames, Refused
<1>6. CASE Not /\ rtg' = [rtg EXCEPT !.pc = fails, !.attempt = 0, !.failed = @ \cup {l}]
  BY <1>1, <1>2, <1>6 DEF RFrames, Refused
<1> QED BY <1>3, <1>4, <1>5, <1>6 DEF Sends

\* What a step of the resize that sends leaves of the driver's fields.
LEMMA SendsState ==
    ASSUME Types, NEW l, NEW c, NEW ok, NEW fails, Sends(l, c, ok, fails)
    PROVE  gs' = gs /\ mem' = mem /\ fl' = fl /\ calls' = calls /\ io_lock = None
BY DEF Sends

\* Backed is kept.
LEMMA BackedStep ==
    ASSUME Types, Owned, Fresh, Named, Backed, ~late'.ever, Next
    PROVE  Backed'
<1>t. /\ gs \in States /\ rtg \in RFrames /\ fl \in FFrames /\ calls \in Nat
      /\ None \notin Nat
  BY Constants DEF Types
<1>n. Names /\ Present /\ Numbers
  BY DEF Named, Fresh
<1>h. DeviceType(host)
  BY DEF Types
<1>1. ASSUME NEW m \in Modes, SetGCNoOp(m) PROVE Backed'
  BY <1>1, <1>t, <1>n DEF SetGCNoOp, Call, Backed, Held, Half, Made, Names,
       Present, Owned, Building, Replacing, Cursoring, States, RFrames
<1>2. ASSUME NEW m \in Modes, SetGC(m) PROVE Backed'
  BY <1>2, <1>t, <1>n
      DEF SetGC, Call, Backed, Held, Half, Made, Names, Present,
       Owned, Building, Replacing, Cursoring, States, RFrames
<1>3. ASSUME NEW sf \in Surfaces, SetPanning(sf) PROVE Backed'
  BY <1>3, <1>t, <1>n DEF SetPanning, Call, Backed, Held, Half, Made, Names,
       Present, Owned, Building, Replacing, Cursoring, States, RFrames
<1>4. ASSUME NEW level \in {0, 3}, SetDPMSLevel(level) PROVE Backed'
  BY <1>4, <1>t, <1>n DEF SetDPMSLevel, Call, RGoto, Backed, Held, Half, Made,
       Names, Present, Owned, Building, Replacing, Cursoring, States, RFrames
<1>5. ASSUME CursorCreate PROVE Backed'
  <2>1. rtg.pc = "idle" /\ ~gs.cursor_created /\ host' = host
    BY <1>5 DEF CursorCreate, Call
  <2>2. CASE UNCHANGED <<gs, rtg>>
    BY <2>1, <2>2 DEF Backed, Held, Half, Made
  <2>3. CASE /\ gs' = [gs EXCEPT !.cursor_mem = calls', !.cursor_resource_id = CursorId]
             /\ rtg' = [rtg EXCEPT !.pc = "cursor_create"]
    <3>1. /\ gs'.fb_resource_id = gs.fb_resource_id /\ gs'.fb_mem = gs.fb_mem
          /\ gs'.cursor_resource_id = CursorId /\ gs'.cursor_created = gs.cursor_created
          /\ rtg'.pc = "cursor_create" /\ rtg'.id = rtg.id /\ rtg'.field = rtg.field
          /\ gs.cursor_resource_id \in {0, CursorId}
      BY <1>t, <2>3 DEF States, RFrames
    <3>2. 0 \notin DOMAIN host.res
      BY <1>h DEF DeviceType
    <3> QED BY <1>n, <2>1, <3>1, <3>2 DEF Backed, Held, Half, Made, Present
  <2> QED BY <1>5, <2>2, <2>3 DEF CursorCreate, RGoto
<1>6. ASSUME SetGCWidth PROVE Backed'
  BY <1>6, <1>t, <1>n DEF SetGCWidth, RGoto, Backed, Held, Half, Made, Names,
       Present, Owned, Building, Replacing, Cursoring, States, RFrames
<1>7. ASSUME SetGCHeight PROVE Backed'
  BY <1>7, <1>t, <1>n DEF SetGCHeight, RGoto, Backed, Held, Half, Made, Names,
       Present, Owned, Building, Replacing, Cursoring, States, RFrames
<1>8. ASSUME ResizeNothing PROVE Backed'
  BY <1>8, <1>t, <1>n
      DEF ResizeNothing, Return, RGoto, Backed, Held, Half, Made,
       Names, Present, Owned, Building, Replacing, Cursoring, States, RFrames
<1>9. ASSUME ResizeAlloc PROVE Backed'
  BY <1>9, <1>t, <1>n
      DEF ResizeAlloc, Backed, Held, Half, Made, Names, Present,
       Owned, Building, Replacing, Cursoring, States, RFrames
<1>10. ASSUME ResizeNoMemory PROVE Backed'
  BY <1>10, <1>t, <1>n DEF ResizeNoMemory, Backed, Held, Half, Made, Names,
       Present, Owned, Building, Replacing, Cursoring, States, RFrames
<1>11. ASSUME ResizeFreeNew PROVE Backed'
  BY <1>11, <1>t, <1>n
      DEF ResizeFreeNew, Return, RGoto, Backed, Held, Half, Made,
       Names, Present, Owned, Building, Replacing, Cursoring, States, RFrames
<1>12. ASSUME AssignMem PROVE Backed'
  BY <1>12, <1>t, <1>n
      DEF AssignMem, Assigning, Backed, Held, Half, Made, Names,
       Present, Owned, Building, Replacing, Cursoring, States, RFrames
<1>13. ASSUME AssignWidth PROVE Backed'
  BY <1>13, <1>t, <1>n
      DEF AssignWidth, Assigning, Backed, Held, Half, Made, Names,
       Present, Owned, Building, Replacing, Cursoring, States, RFrames
<1>14. ASSUME AssignHeight PROVE Backed'
  BY <1>14, <1>t, <1>n DEF AssignHeight, Assigning, Backed, Held, Half, Made,
       Names, Present, Owned, Building, Replacing, Cursoring, States, RFrames
<1>15. ASSUME AssignStride PROVE Backed'
  BY <1>15, <1>t, <1>n DEF AssignStride, Assigning, Backed, Held, Half, Made,
       Names, Present, Owned, Building, Replacing, Cursoring, States, RFrames
<1>16. ASSUME AssignResource PROVE Backed'
  BY <1>16, <1>t, <1>n DEF AssignResource, Assigning, Backed, Held, Half, Made,
       Names, Present, Owned, Building, Replacing, Cursoring, States, RFrames
<1>17. ASSUME AssignFb PROVE Backed'
  BY <1>17, <1>t, <1>n
      DEF AssignFb, Assigning, Backed, Held, Half, Made, Names,
       Present, Owned, Building, Replacing, Cursoring, States, RFrames
<1>18. ASSUME ResizeFreeOld PROVE Backed'
  BY <1>18, <1>t, <1>n
      DEF ResizeFreeOld, Return, RGoto, Backed, Held, Half, Made,
       Names, Present, Owned, Building, Replacing, Cursoring, States, RFrames
<1>19. ASSUME SetPanningFormat PROVE Backed'
  BY <1>19, <1>t, <1>n DEF SetPanningFormat, Return, RGoto, Backed, Held, Half,
       Made, Names, Present, Owned, Building, Replacing, Cursoring, States,
       RFrames
<1>20. ASSUME CursorDone PROVE Backed'
  BY <1>20, <1>t, <1>n DEF CursorDone, Return, RGoto, Backed, Held, Half, Made,
       Names, Present, Owned, Building, Replacing, Cursoring, States, RFrames
<1>21. ASSUME CursorFail PROVE Backed'
  BY <1>21, <1>t, <1>n DEF CursorFail, Return, RGoto, Backed, Held, Half, Made,
       Names, Present, Owned, Building, Replacing, Cursoring, States, RFrames
<1>22. ASSUME ResizeCreate PROVE Backed'
  <2>1. Sends("create", Command("create", rtg.id, gs.active_width, gs.active_height),
              "attach", "free_new")
    BY <1>22, ResizeCreateSends
  <2>2. /\ rtg.pc = "create" /\ rtg'.id = rtg.id /\ rtg'.buf = rtg.buf /\ rtg'.field = rtg.field
        /\ rtg'.old_mem = rtg.old_mem /\ rtg'.old_res = rtg.old_res /\ rtg.field = 1
    BY <2>1, SendsMoves DEF Owned
  <2>3. gs' = gs
    BY <2>1, SendsState
  <2>4. PICK c : c = Command("create", rtg.id, gs.active_width, gs.active_height)
    OBVIOUS
  <2>5. CASE Taken(c, "attach")
    <3>0. /\ Accepts(host, Command("create", rtg.id, gs.active_width, gs.active_height))
          /\ host' = Execute(host, Command("create", rtg.id, gs.active_width, gs.active_height))
      BY <2>4, <2>5 DEF Taken
    <3>1. /\ rtg.id # 0 /\ rtg.id \notin DOMAIN host.res
          /\ DOMAIN host'.res = DOMAIN host.res \cup {rtg.id}
          /\ \A i \in DOMAIN host.res : host'.res[i] = host.res[i]
          /\ host'.res[rtg.id].w = gs.active_width /\ host'.res[rtg.id].h = gs.active_height
          /\ host'.res[rtg.id].blob = FALSE /\ host'.res[rtg.id].backing = None
          /\ host'.scanout = host.scanout
      BY <3>0, Creates, ZenonT(60)
    <3>2. rtg.id # gs.cursor_resource_id
      BY <1>n, <2>2 DEF Numbers, Building
    <3> QED BY <2>5, <3>1, <1>n, <1>h, <2>2, <2>3, <3>2
                DEF Taken, Backed, Held, Half, Made, Names, Present, Building,
                    Replacing, Cursoring
  <2>6. CASE Refused("create", c, "free_new")
    BY <1>n, <1>h, <2>2, <2>3, <2>6
        DEF Refused, Backed, Held, Half, Made, Names, Present, Building,
            Replacing, Cursoring
  <2> QED BY <2>1, <2>4, <2>5, <2>6, SendsQuiet
<1>23. ASSUME ResizeAttach PROVE Backed'
  <2>1. Sends("attach", [Command("attach", rtg.id, 0, 0) EXCEPT !.buf = rtg.buf],
              "scanout", "unref_new")
    BY <1>23, ResizeAttachSends
  <2>2. /\ rtg.pc = "attach" /\ rtg'.id = rtg.id /\ rtg'.buf = rtg.buf /\ rtg'.field = rtg.field
        /\ rtg'.old_mem = rtg.old_mem /\ rtg'.old_res = rtg.old_res /\ rtg.field = 1
    BY <2>1, SendsMoves DEF Owned
  <2>3. gs' = gs
    BY <2>1, SendsState
  <2>4. PICK c : c = [Command("attach", rtg.id, 0, 0) EXCEPT !.buf = rtg.buf]
    OBVIOUS
  <2>5. CASE Taken(c, "scanout")
    <3>0. rtg.buf \in Nat
      BY <1>t DEF RFrames
    <3>1. /\ rtg.id \in DOMAIN host.res /\ host.res[rtg.id].backing = None
          /\ DOMAIN host'.res = DOMAIN host.res
          /\ \A i \in DOMAIN host.res : /\ i # rtg.id => host'.res[i] = host.res[i]
                                        /\ host'.res[i].w = host.res[i].w
                                        /\ host'.res[i].h = host.res[i].h
                                        /\ host'.res[i].blob = host.res[i].blob
          /\ host'.res[rtg.id].backing = rtg.buf
          /\ host'.scanout = host.scanout
      BY <3>0, <2>4, <2>5, Attaches DEF Taken
    <3>2. rtg.id # gs.cursor_resource_id
      BY <1>n, <2>2 DEF Numbers, Building
    <3> QED BY <2>5, <3>1, <1>n, <1>h, <2>2, <2>3, <3>2
                DEF Taken, Backed, Held, Half, Made, Names, Present, Building,
                    Replacing, Cursoring
  <2>6. CASE Refused("attach", c, "unref_new")
    BY <1>n, <1>h, <2>2, <2>3, <2>6
        DEF Refused, Backed, Held, Half, Made, Names, Present, Building,
            Replacing, Cursoring
  <2> QED BY <2>1, <2>4, <2>5, <2>6, SendsQuiet
<1>24. ASSUME ResizeScanout PROVE Backed'
  <2>1. Sends("scanout", Command("scanout", rtg.id, gs.active_width, gs.active_height),
              "assign", "unref_new")
    BY <1>24, ResizeScanoutSends
  <2>2. /\ rtg.pc = "scanout" /\ rtg'.id = rtg.id /\ rtg'.buf = rtg.buf /\ rtg'.field = rtg.field
        /\ rtg'.old_mem = rtg.old_mem /\ rtg'.old_res = rtg.old_res /\ rtg.field = 1
    BY <2>1, SendsMoves DEF Owned
  <2>3. gs' = gs
    BY <2>1, SendsState
  <2>4. PICK c : c = Command("scanout", rtg.id, gs.active_width, gs.active_height)
    OBVIOUS
  <2>5. CASE Taken(c, "assign")
    <3>1. host'.res = host.res /\ host'.scanout = rtg.id
      BY <2>4, <2>5, Scans DEF Taken
    <3> QED BY <2>5, <3>1, <1>n, <1>h, <2>2, <2>3
                DEF Taken, Backed, Held, Half, Made, Names, Present, Building,
                    Replacing, Cursoring
  <2>6. CASE Refused("scanout", c, "unref_new")
    BY <1>n, <1>h, <2>2, <2>3, <2>6
        DEF Refused, Backed, Held, Half, Made, Names, Present, Building,
            Replacing, Cursoring
  <2> QED BY <2>1, <2>4, <2>5, <2>6, SendsQuiet
<1>25. ASSUME ResizeUnrefNew PROVE Backed'
  <2>1. Sends("unref_new", Command("unref", rtg.id, 0, 0),
              "free_new", "free_new")
    BY <1>25, ResizeUnrefNewSends
  <2>2. /\ rtg.pc = "unref_new" /\ rtg'.id = rtg.id /\ rtg'.buf = rtg.buf /\ rtg'.field = rtg.field
        /\ rtg'.old_mem = rtg.old_mem /\ rtg'.old_res = rtg.old_res /\ rtg.field = 1
    BY <2>1, SendsMoves DEF Owned
  <2>3. gs' = gs
    BY <2>1, SendsState
  <2>4. PICK c : c = Command("unref", rtg.id, 0, 0)
    OBVIOUS
  <2>5. CASE Taken(c, "free_new")
    <3>1. /\ DOMAIN host'.res = DOMAIN host.res \ {rtg.id}
          /\ \A i \in DOMAIN host'.res : host'.res[i] = host.res[i]
          /\ host.scanout # rtg.id => host'.scanout = host.scanout
      BY <2>4, <2>5, Unrefs DEF Taken
    <3> QED BY <2>5, <3>1, <1>n, <1>h, <2>2, <2>3
                DEF Taken, Backed, Held, Half, Made, Names, Present, Building,
                    Replacing, Cursoring
  <2>6. CASE Refused("unref_new", c, "free_new")
    <3>1. rtg.id \notin DOMAIN host.res
      BY <2>4, <2>6 DEF Refused, Accepts, Command, Refusable
    <3> QED BY <1>n, <1>h, <2>2, <2>3, <2>6, <3>1
                DEF Refused, Backed, Held, Half, Made, Names, Present,
                    Building, Replacing, Cursoring
  <2> QED BY <2>1, <2>4, <2>5, <2>6, SendsQuiet
<1>26. ASSUME ResizeUnrefOld PROVE Backed'
  <2>1. Sends("unref_old", Command("unref", rtg.old_res, 0, 0),
              "free_old", "free_old")
    BY <1>26, ResizeUnrefOldSends
  <2>2. /\ rtg.pc = "unref_old" /\ rtg'.id = rtg.id /\ rtg'.buf = rtg.buf /\ rtg'.field = rtg.field
        /\ rtg'.old_mem = rtg.old_mem /\ rtg'.old_res = rtg.old_res /\ rtg.field = 1
    BY <2>1, SendsMoves DEF Owned
  <2>3. gs' = gs
    BY <2>1, SendsState
  <2>4. PICK c : c = Command("unref", rtg.old_res, 0, 0)
    OBVIOUS
  <2>5. CASE Taken(c, "free_old")
    <3>1. /\ DOMAIN host'.res = DOMAIN host.res \ {rtg.old_res}
          /\ \A i \in DOMAIN host'.res : host'.res[i] = host.res[i]
          /\ host.scanout # rtg.old_res => host'.scanout = host.scanout
      BY <2>4, <2>5, Unrefs DEF Taken
    <3> QED BY <2>5, <3>1, <1>n, <1>h, <2>2, <2>3
                DEF Taken, Backed, Held, Half, Made, Names, Present, Building,
                    Replacing, Cursoring
  <2>6. CASE Refused("unref_old", c, "free_old")
    <3>1. rtg.old_res \notin DOMAIN host.res
      BY <2>4, <2>6 DEF Refused, Accepts, Command, Refusable
    <3> QED BY <1>n, <1>h, <2>2, <2>3, <2>6, <3>1
                DEF Refused, Backed, Held, Half, Made, Names, Present,
                    Building, Replacing, Cursoring
  <2> QED BY <2>1, <2>4, <2>5, <2>6, SendsQuiet
<1>27. ASSUME SetDPMSLevelSend PROVE Backed'
  <2>1. Sends("dpms", DPMSScanout, "idle", "idle")
    BY <1>27, SetDPMSLevelSendSends
  <2>2. /\ rtg.pc = "dpms" /\ rtg'.id = rtg.id /\ rtg'.buf = rtg.buf /\ rtg'.field = rtg.field
        /\ rtg'.old_mem = rtg.old_mem /\ rtg'.old_res = rtg.old_res /\ rtg.field = 1
    BY <2>1, SendsMoves DEF Owned
  <2>3. gs' = gs
    BY <2>1, SendsState
  <2>4. PICK c : c = DPMSScanout
    OBVIOUS
  <2>5. CASE Taken(c, "idle")
    <3>1. /\ host'.res = host.res
          /\ gs.dpms_level = 0 => host'.scanout = gs.resource_id
      BY <2>4, <2>5, Scans DEF Taken, DPMSScanout
    <3> QED BY <2>5, <3>1, <1>n, <1>h, <2>2, <2>3
                DEF Taken, Backed, Held, Half, Made, Names, Present, Building,
                    Replacing, Cursoring
  <2>6. CASE Refused("dpms", c, "idle")
    BY <1>n, <1>h, <2>2, <2>3, <2>6
        DEF Refused, Backed, Held, Half, Made, Names, Present, Building,
            Replacing, Cursoring
  <2> QED BY <2>1, <2>4, <2>5, <2>6, SendsQuiet
<1>28. ASSUME CursorCreate2D PROVE Backed'
  <2>1. Sends("cursor_create", Command("create", CursorId, 1, 1),
              "cursor_attach", "cursor_fail")
    BY <1>28, CursorCreate2DSends
  <2>2. /\ rtg.pc = "cursor_create" /\ rtg'.id = rtg.id /\ rtg'.buf = rtg.buf /\ rtg'.field = rtg.field
        /\ rtg'.old_mem = rtg.old_mem /\ rtg'.old_res = rtg.old_res /\ rtg.field = 1
    BY <2>1, SendsMoves DEF Owned
  <2>3. gs' = gs
    BY <2>1, SendsState
  <2>4. PICK c : c = Command("create", CursorId, 1, 1)
    OBVIOUS
  <2>5. CASE Taken(c, "cursor_attach")
    <3>1. /\ CursorId \notin DOMAIN host.res
          /\ DOMAIN host'.res = DOMAIN host.res \cup {CursorId}
          /\ \A i \in DOMAIN host.res : host'.res[i] = host.res[i]
          /\ host'.res[CursorId].blob = FALSE /\ host'.res[CursorId].backing = None
          /\ host'.scanout = host.scanout
      BY <2>4, <2>5, Creates DEF Taken
    <3>2. ~gs.cursor_created /\ gs.cursor_resource_id = CursorId
      BY <1>n, <2>2 DEF Owned, Names, Cursoring
    <3> QED BY <2>5, <3>1, <1>n, <1>h, <2>2, <2>3, <3>2
                DEF Taken, Backed, Held, Half, Made, Names, Present, Building,
                    Replacing, Cursoring
  <2>6. CASE Refused("cursor_create", c, "cursor_fail")
    BY <1>n, <1>h, <2>2, <2>3, <2>6
        DEF Refused, Backed, Held, Half, Made, Names, Present, Building,
            Replacing, Cursoring
  <2> QED BY <2>1, <2>4, <2>5, <2>6, SendsQuiet
<1>29. ASSUME CursorAttach PROVE Backed'
  <2>1. Sends("cursor_attach", [Command("attach", CursorId, 0, 0) EXCEPT !.buf = gs.cursor_mem],
              "cursor_done", "cursor_fail")
    BY <1>29, CursorAttachSends
  <2>2. /\ rtg.pc = "cursor_attach" /\ rtg'.id = rtg.id /\ rtg'.buf = rtg.buf /\ rtg'.field = rtg.field
        /\ rtg'.old_mem = rtg.old_mem /\ rtg'.old_res = rtg.old_res /\ rtg.field = 1
    BY <2>1, SendsMoves DEF Owned
  <2>3. gs' = gs
    BY <2>1, SendsState
  <2>4. PICK c : c = [Command("attach", CursorId, 0, 0) EXCEPT !.buf = gs.cursor_mem]
    OBVIOUS
  <2>5. CASE Taken(c, "cursor_done")
    <3>0. gs.cursor_mem \in Nat
      BY <1>t, <2>2 DEF Owned, States, Cursoring
    <3>1. /\ CursorId \in DOMAIN host.res /\ host.res[CursorId].backing = None
          /\ DOMAIN host'.res = DOMAIN host.res
          /\ \A i \in DOMAIN host.res : /\ i # CursorId => host'.res[i] = host.res[i]
                                        /\ host'.res[i].w = host.res[i].w
                                        /\ host'.res[i].h = host.res[i].h
                                        /\ host'.res[i].blob = host.res[i].blob
          /\ host'.res[CursorId].backing = gs.cursor_mem
          /\ host'.scanout = host.scanout
      BY <3>0, <2>4, <2>5, Attaches DEF Taken
    <3> QED BY <2>5, <3>1, <1>n, <1>h, <2>2, <2>3
                DEF Taken, Backed, Held, Half, Made, Names, Present, Building,
                    Replacing, Cursoring
  <2>6. CASE Refused("cursor_attach", c, "cursor_fail")
    BY <1>n, <1>h, <2>2, <2>3, <2>6
        DEF Refused, Backed, Held, Half, Made, Names, Present, Building,
            Replacing, Cursoring
  <2> QED BY <2>1, <2>4, <2>5, <2>6, SendsQuiet
<1>30. ASSUME TransferToHost2D PROVE Backed'
  <2>1. FlushSends("transfer", Command("transfer", gs.fb_resource_id, fl.w, fl.h),
                    "flush", "release")
    BY <1>30, TransferToHost2DSends
  <2>2. gs' = gs /\ rtg' = rtg
    BY <2>1 DEF FlushSends
  <2>3. CASE host' = host
    BY <2>2, <2>3 DEF Backed, Held, Half, Made
  <2>4. CASE /\ Accepts(host, Command("transfer", gs.fb_resource_id, fl.w, fl.h))
             /\ host' = Execute(host, Command("transfer", gs.fb_resource_id, fl.w, fl.h))
    <3>1. /\ DOMAIN host'.res = DOMAIN host.res
          /\ \A i \in DOMAIN host.res : host'.res[i].backing = host.res[i].backing
      BY <2>4, Transfers
    <3> QED BY <1>n, <2>2, <3>1 DEF Present, Backed, Held, Half, Made
  <2> QED BY <2>1, <2>3, <2>4 DEF FlushSends
<1>31. ASSUME ResourceFlush PROVE Backed'
  <2>1. FlushSends("flush", Command("flush", gs.fb_resource_id, fl.w, fl.h),
                    "release", "release")
    BY <1>31, ResourceFlushSends
  <2>2. gs' = gs /\ rtg' = rtg
    BY <2>1 DEF FlushSends
  <2>3. host'.res = host.res
    BY <2>1, Flushes DEF FlushSends
  <2> QED BY <2>2, <2>3 DEF Backed, Held, Half, Made
<1>32. ASSUME DevLate PROVE Backed'
  BY <1>32, Later
<1>33. ASSUME UNCHANGED <<gs, rtg, host>> PROVE Backed'
  BY <1>33 DEF Backed, Held, Half, Made
<1>34. ASSUME ModeCall PROVE Backed'
  BY <1>34, <1>1, <1>2, <1>3, <1>4, <1>5
     DEF ModeCall
<1>35. ASSUME ModeLocal PROVE Backed'
  BY AssignCases, <1>35, <1>6, <1>7, <1>8, <1>9, <1>10, <1>11, <1>12, <1>13,
     <1>14, <1>15, <1>16, <1>17, <1>18, <1>19, <1>20, <1>21
     DEF ModeLocal
<1>36. ASSUME ModeCommand PROVE Backed'
  BY <1>36, <1>22, <1>23, <1>24, <1>25, <1>26, <1>27, <1>28, <1>29
     DEF ModeCommand
<1>37. ASSUME Flush PROVE Backed'
  BY <1>37, <1>30, <1>31, <1>33
     DEF Flush, FlushWidth, FlushHeight, FlushObtain, ConvertStart,
         ConvertClamp, ConvertRows, TransferSkipped, FlushRelease
<1> QED BY <1>34, <1>35, <1>36, <1>37, <1>32 DEF Next

\* Sized is kept.
LEMMA SizedStep ==
    ASSUME Types, Owned, Fresh, Named, Sized, ~late'.ever, Next
    PROVE  Sized'
<1>t. /\ gs \in States /\ rtg \in RFrames /\ fl \in FFrames /\ calls \in Nat
      /\ None \notin Nat
  BY Constants DEF Types
<1>n. Names /\ Present /\ Numbers
  BY DEF Named, Fresh
<1>h. DeviceType(host)
  BY DEF Types
<1>1. ASSUME NEW m \in Modes, SetGCNoOp(m) PROVE Sized'
  BY <1>1, <1>t, <1>n DEF SetGCNoOp, Call, Sized, Half, Names, Present, Owned,
       Building, Replacing, Cursoring, States, RFrames
<1>2. ASSUME NEW m \in Modes, SetGC(m) PROVE Sized'
  BY <1>2, <1>t, <1>n DEF SetGC, Call, Sized, Half, Names, Present, Owned,
       Building, Replacing, Cursoring, States, RFrames
<1>3. ASSUME NEW sf \in Surfaces, SetPanning(sf) PROVE Sized'
  BY <1>3, <1>t, <1>n DEF SetPanning, Call, Sized, Half, Names, Present, Owned,
       Building, Replacing, Cursoring, States, RFrames
<1>4. ASSUME NEW level \in {0, 3}, SetDPMSLevel(level) PROVE Sized'
  BY <1>4, <1>t, <1>n
      DEF SetDPMSLevel, Call, RGoto, Sized, Half, Names, Present,
       Owned, Building, Replacing, Cursoring, States, RFrames
<1>5. ASSUME CursorCreate PROVE Sized'
  <2>1. rtg.pc = "idle" /\ host' = host
    BY <1>5 DEF CursorCreate, Call
  <2>2. CASE UNCHANGED <<gs, rtg>>
    BY <2>1, <2>2 DEF Sized, Half
  <2>3. CASE /\ gs' = [gs EXCEPT !.cursor_mem = calls', !.cursor_resource_id = CursorId]
             /\ rtg' = [rtg EXCEPT !.pc = "cursor_create"]
    BY <1>t, <2>1, <2>3 DEF Sized, Half, States, RFrames
  <2> QED BY <1>5, <2>2, <2>3 DEF CursorCreate, RGoto
<1>6. ASSUME SetGCWidth PROVE Sized'
  BY <1>6, <1>t, <1>n
      DEF SetGCWidth, RGoto, Sized, Half, Names, Present, Owned,
       Building, Replacing, Cursoring, States, RFrames
<1>7. ASSUME SetGCHeight PROVE Sized'
  BY <1>7, <1>t, <1>n
      DEF SetGCHeight, RGoto, Sized, Half, Names, Present, Owned,
       Building, Replacing, Cursoring, States, RFrames
<1>8. ASSUME ResizeNothing PROVE Sized'
  BY <1>8, <1>t, <1>n DEF ResizeNothing, Return, RGoto, Sized, Half, Names,
       Present, Owned, Building, Replacing, Cursoring, States, RFrames
<1>9. ASSUME ResizeAlloc PROVE Sized'
  BY <1>9, <1>t, <1>n DEF ResizeAlloc, Sized, Half, Names, Present, Owned,
       Building, Replacing, Cursoring, States, RFrames
<1>10. ASSUME ResizeNoMemory PROVE Sized'
  BY <1>10, <1>t, <1>n DEF ResizeNoMemory, Sized, Half, Names, Present, Owned,
       Building, Replacing, Cursoring, States, RFrames
<1>11. ASSUME ResizeFreeNew PROVE Sized'
  BY <1>11, <1>t, <1>n DEF ResizeFreeNew, Return, RGoto, Sized, Half, Names,
       Present, Owned, Building, Replacing, Cursoring, States, RFrames
<1>12. ASSUME AssignMem PROVE Sized'
  BY <1>12, <1>t, <1>n DEF AssignMem, Assigning, Sized, Half, Names, Present,
       Owned, Building, Replacing, Cursoring, States, RFrames
<1>13. ASSUME AssignWidth PROVE Sized'
  BY <1>13, <1>t, <1>n DEF AssignWidth, Assigning, Sized, Half, Names, Present,
       Owned, Building, Replacing, Cursoring, States, RFrames
<1>14. ASSUME AssignHeight PROVE Sized'
  BY <1>14, <1>t, <1>n
      DEF AssignHeight, Assigning, Sized, Half, Names, Present,
       Owned, Building, Replacing, Cursoring, States, RFrames
<1>15. ASSUME AssignStride PROVE Sized'
  BY <1>15, <1>t, <1>n
      DEF AssignStride, Assigning, Sized, Half, Names, Present,
       Owned, Building, Replacing, Cursoring, States, RFrames
<1>16. ASSUME AssignResource PROVE Sized'
  BY <1>16, <1>t, <1>n
      DEF AssignResource, Assigning, Sized, Half, Names, Present,
       Owned, Building, Replacing, Cursoring, States, RFrames
<1>17. ASSUME AssignFb PROVE Sized'
  BY <1>17, <1>t, <1>n
      DEF AssignFb, Assigning, Sized, Half, Names, Present, Owned,
       Building, Replacing, Cursoring, States, RFrames
<1>18. ASSUME ResizeFreeOld PROVE Sized'
  BY <1>18, <1>t, <1>n DEF ResizeFreeOld, Return, RGoto, Sized, Half, Names,
       Present, Owned, Building, Replacing, Cursoring, States, RFrames
<1>19. ASSUME SetPanningFormat PROVE Sized'
  BY <1>19, <1>t, <1>n DEF SetPanningFormat, Return, RGoto, Sized, Half, Names,
       Present, Owned, Building, Replacing, Cursoring, States, RFrames
<1>20. ASSUME CursorDone PROVE Sized'
  BY <1>20, <1>t, <1>n
      DEF CursorDone, Return, RGoto, Sized, Half, Names, Present,
       Owned, Building, Replacing, Cursoring, States, RFrames
<1>21. ASSUME CursorFail PROVE Sized'
  BY <1>21, <1>t, <1>n
      DEF CursorFail, Return, RGoto, Sized, Half, Names, Present,
       Owned, Building, Replacing, Cursoring, States, RFrames
<1>22. ASSUME ResizeCreate PROVE Sized'
  <2>1. Sends("create", Command("create", rtg.id, gs.active_width, gs.active_height),
              "attach", "free_new")
    BY <1>22, ResizeCreateSends
  <2>2. /\ rtg.pc = "create" /\ rtg'.id = rtg.id /\ rtg'.buf = rtg.buf /\ rtg'.field = rtg.field
        /\ rtg'.old_mem = rtg.old_mem /\ rtg'.old_res = rtg.old_res /\ rtg.field = 1
    BY <2>1, SendsMoves DEF Owned
  <2>3. gs' = gs
    BY <2>1, SendsState
  <2>4. PICK c : c = Command("create", rtg.id, gs.active_width, gs.active_height)
    OBVIOUS
  <2>5. CASE Taken(c, "attach")
    <3>0. /\ Accepts(host, Command("create", rtg.id, gs.active_width, gs.active_height))
          /\ host' = Execute(host, Command("create", rtg.id, gs.active_width, gs.active_height))
      BY <2>4, <2>5 DEF Taken
    <3>1. /\ rtg.id # 0 /\ rtg.id \notin DOMAIN host.res
          /\ DOMAIN host'.res = DOMAIN host.res \cup {rtg.id}
          /\ \A i \in DOMAIN host.res : host'.res[i] = host.res[i]
          /\ host'.res[rtg.id].w = gs.active_width /\ host'.res[rtg.id].h = gs.active_height
          /\ host'.res[rtg.id].blob = FALSE /\ host'.res[rtg.id].backing = None
          /\ host'.scanout = host.scanout
      BY <3>0, Creates, ZenonT(60)
    <3>2. rtg.id # 1
      BY <1>n, <1>t, <2>2 DEF Numbers, Building, RFrames
    <3>3. \A i \in DOMAIN host'.res : host'.res[i].blob = (gs'.fb_is_blob /\ i = 1)
      BY <2>3, <3>1, <3>2 DEF Sized
    <3>4. rtg'.pc = "attach" /\ rtg.pc = "create" /\ gs.fb_resource_id \in DOMAIN host.res
      BY <1>n, <2>2, <2>5 DEF Taken, Present
    <3> QED BY <2>2, <2>3, <3>1, <3>3, <3>4 DEF Sized, Half
  <2>6. CASE Refused("create", c, "free_new")
    BY <1>n, <1>h, <2>2, <2>3, <2>6
        DEF Refused, Sized, Half, Names, Present, Building, Replacing,
            Cursoring
  <2> QED BY <2>1, <2>4, <2>5, <2>6, SendsQuiet
<1>23. ASSUME ResizeAttach PROVE Sized'
  <2>1. Sends("attach", [Command("attach", rtg.id, 0, 0) EXCEPT !.buf = rtg.buf],
              "scanout", "unref_new")
    BY <1>23, ResizeAttachSends
  <2>2. /\ rtg.pc = "attach" /\ rtg'.id = rtg.id /\ rtg'.buf = rtg.buf /\ rtg'.field = rtg.field
        /\ rtg'.old_mem = rtg.old_mem /\ rtg'.old_res = rtg.old_res /\ rtg.field = 1
    BY <2>1, SendsMoves DEF Owned
  <2>3. gs' = gs
    BY <2>1, SendsState
  <2>4. PICK c : c = [Command("attach", rtg.id, 0, 0) EXCEPT !.buf = rtg.buf]
    OBVIOUS
  <2>5. CASE Taken(c, "scanout")
    <3>0. rtg.buf \in Nat
      BY <1>t DEF RFrames
    <3>1. /\ rtg.id \in DOMAIN host.res /\ host.res[rtg.id].backing = None
          /\ DOMAIN host'.res = DOMAIN host.res
          /\ \A i \in DOMAIN host.res : /\ i # rtg.id => host'.res[i] = host.res[i]
                                        /\ host'.res[i].w = host.res[i].w
                                        /\ host'.res[i].h = host.res[i].h
                                        /\ host'.res[i].blob = host.res[i].blob
          /\ host'.res[rtg.id].backing = rtg.buf
          /\ host'.scanout = host.scanout
      BY <3>0, <2>4, <2>5, Attaches DEF Taken
    <3> QED BY <2>5, <3>1, <1>n, <1>h, <2>2, <2>3
                DEF Taken, Sized, Half, Names, Present, Building, Replacing,
                    Cursoring
  <2>6. CASE Refused("attach", c, "unref_new")
    BY <1>n, <1>h, <2>2, <2>3, <2>6
        DEF Refused, Sized, Half, Names, Present, Building, Replacing,
            Cursoring
  <2> QED BY <2>1, <2>4, <2>5, <2>6, SendsQuiet
<1>24. ASSUME ResizeScanout PROVE Sized'
  <2>1. Sends("scanout", Command("scanout", rtg.id, gs.active_width, gs.active_height),
              "assign", "unref_new")
    BY <1>24, ResizeScanoutSends
  <2>2. /\ rtg.pc = "scanout" /\ rtg'.id = rtg.id /\ rtg'.buf = rtg.buf /\ rtg'.field = rtg.field
        /\ rtg'.old_mem = rtg.old_mem /\ rtg'.old_res = rtg.old_res /\ rtg.field = 1
    BY <2>1, SendsMoves DEF Owned
  <2>3. gs' = gs
    BY <2>1, SendsState
  <2>4. PICK c : c = Command("scanout", rtg.id, gs.active_width, gs.active_height)
    OBVIOUS
  <2>5. CASE Taken(c, "assign")
    <3>1. host'.res = host.res /\ host'.scanout = rtg.id
      BY <2>4, <2>5, Scans DEF Taken
    <3> QED BY <2>5, <3>1, <1>n, <1>h, <2>2, <2>3
                DEF Taken, Sized, Half, Names, Present, Building, Replacing,
                    Cursoring
  <2>6. CASE Refused("scanout", c, "unref_new")
    BY <1>n, <1>h, <2>2, <2>3, <2>6
        DEF Refused, Sized, Half, Names, Present, Building, Replacing,
            Cursoring
  <2> QED BY <2>1, <2>4, <2>5, <2>6, SendsQuiet
<1>25. ASSUME ResizeUnrefNew PROVE Sized'
  <2>1. Sends("unref_new", Command("unref", rtg.id, 0, 0),
              "free_new", "free_new")
    BY <1>25, ResizeUnrefNewSends
  <2>2. /\ rtg.pc = "unref_new" /\ rtg'.id = rtg.id /\ rtg'.buf = rtg.buf /\ rtg'.field = rtg.field
        /\ rtg'.old_mem = rtg.old_mem /\ rtg'.old_res = rtg.old_res /\ rtg.field = 1
    BY <2>1, SendsMoves DEF Owned
  <2>3. gs' = gs
    BY <2>1, SendsState
  <2>4. PICK c : c = Command("unref", rtg.id, 0, 0)
    OBVIOUS
  <2>5. CASE Taken(c, "free_new")
    <3>1. /\ DOMAIN host'.res = DOMAIN host.res \ {rtg.id}
          /\ \A i \in DOMAIN host'.res : host'.res[i] = host.res[i]
          /\ host.scanout # rtg.id => host'.scanout = host.scanout
      BY <2>4, <2>5, Unrefs DEF Taken
    <3> QED BY <2>5, <3>1, <1>n, <1>h, <2>2, <2>3
                DEF Taken, Sized, Half, Names, Present, Building, Replacing,
                    Cursoring
  <2>6. CASE Refused("unref_new", c, "free_new")
    BY <1>n, <1>h, <2>2, <2>3, <2>6
        DEF Refused, Sized, Half, Names, Present, Building, Replacing,
            Cursoring
  <2> QED BY <2>1, <2>4, <2>5, <2>6, SendsQuiet
<1>26. ASSUME ResizeUnrefOld PROVE Sized'
  <2>1. Sends("unref_old", Command("unref", rtg.old_res, 0, 0),
              "free_old", "free_old")
    BY <1>26, ResizeUnrefOldSends
  <2>2. /\ rtg.pc = "unref_old" /\ rtg'.id = rtg.id /\ rtg'.buf = rtg.buf /\ rtg'.field = rtg.field
        /\ rtg'.old_mem = rtg.old_mem /\ rtg'.old_res = rtg.old_res /\ rtg.field = 1
    BY <2>1, SendsMoves DEF Owned
  <2>3. gs' = gs
    BY <2>1, SendsState
  <2>4. PICK c : c = Command("unref", rtg.old_res, 0, 0)
    OBVIOUS
  <2>5. CASE Taken(c, "free_old")
    <3>1. /\ DOMAIN host'.res = DOMAIN host.res \ {rtg.old_res}
          /\ \A i \in DOMAIN host'.res : host'.res[i] = host.res[i]
          /\ host.scanout # rtg.old_res => host'.scanout = host.scanout
      BY <2>4, <2>5, Unrefs DEF Taken
    <3> QED BY <2>5, <3>1, <1>n, <1>h, <2>2, <2>3
                DEF Taken, Sized, Half, Names, Present, Building, Replacing,
                    Cursoring
  <2>6. CASE Refused("unref_old", c, "free_old")
    BY <1>n, <1>h, <2>2, <2>3, <2>6
        DEF Refused, Sized, Half, Names, Present, Building, Replacing,
            Cursoring
  <2> QED BY <2>1, <2>4, <2>5, <2>6, SendsQuiet
<1>27. ASSUME SetDPMSLevelSend PROVE Sized'
  <2>1. Sends("dpms", DPMSScanout, "idle", "idle")
    BY <1>27, SetDPMSLevelSendSends
  <2>2. /\ rtg.pc = "dpms" /\ rtg'.id = rtg.id /\ rtg'.buf = rtg.buf /\ rtg'.field = rtg.field
        /\ rtg'.old_mem = rtg.old_mem /\ rtg'.old_res = rtg.old_res /\ rtg.field = 1
    BY <2>1, SendsMoves DEF Owned
  <2>3. gs' = gs
    BY <2>1, SendsState
  <2>4. PICK c : c = DPMSScanout
    OBVIOUS
  <2>5. CASE Taken(c, "idle")
    <3>1. /\ host'.res = host.res
          /\ gs.dpms_level = 0 => host'.scanout = gs.resource_id
      BY <2>4, <2>5, Scans DEF Taken, DPMSScanout
    <3> QED BY <2>5, <3>1, <1>n, <1>h, <2>2, <2>3
                DEF Taken, Sized, Half, Names, Present, Building, Replacing,
                    Cursoring
  <2>6. CASE Refused("dpms", c, "idle")
    BY <1>n, <1>h, <2>2, <2>3, <2>6
        DEF Refused, Sized, Half, Names, Present, Building, Replacing,
            Cursoring
  <2> QED BY <2>1, <2>4, <2>5, <2>6, SendsQuiet
<1>28. ASSUME CursorCreate2D PROVE Sized'
  <2>1. Sends("cursor_create", Command("create", CursorId, 1, 1),
              "cursor_attach", "cursor_fail")
    BY <1>28, CursorCreate2DSends
  <2>2. /\ rtg.pc = "cursor_create" /\ rtg'.id = rtg.id /\ rtg'.buf = rtg.buf /\ rtg'.field = rtg.field
        /\ rtg'.old_mem = rtg.old_mem /\ rtg'.old_res = rtg.old_res /\ rtg.field = 1
    BY <2>1, SendsMoves DEF Owned
  <2>3. gs' = gs
    BY <2>1, SendsState
  <2>4. PICK c : c = Command("create", CursorId, 1, 1)
    OBVIOUS
  <2>5. CASE Taken(c, "cursor_attach")
    <3>1. /\ CursorId \notin DOMAIN host.res
          /\ DOMAIN host'.res = DOMAIN host.res \cup {CursorId}
          /\ \A i \in DOMAIN host.res : host'.res[i] = host.res[i]
          /\ host'.res[CursorId].blob = FALSE /\ host'.res[CursorId].backing = None
          /\ host'.scanout = host.scanout
      BY <2>4, <2>5, Creates DEF Taken
    <3>2. CursorId # 1
      BY DEF CursorId
    <3> QED BY <2>5, <3>1, <3>2, <1>n, <1>h, <2>2, <2>3
                DEF Taken, Sized, Half, Names, Present, Building, Replacing,
                    Cursoring
  <2>6. CASE Refused("cursor_create", c, "cursor_fail")
    BY <1>n, <1>h, <2>2, <2>3, <2>6
        DEF Refused, Sized, Half, Names, Present, Building, Replacing,
            Cursoring
  <2> QED BY <2>1, <2>4, <2>5, <2>6, SendsQuiet
<1>29. ASSUME CursorAttach PROVE Sized'
  <2>1. Sends("cursor_attach", [Command("attach", CursorId, 0, 0) EXCEPT !.buf = gs.cursor_mem],
              "cursor_done", "cursor_fail")
    BY <1>29, CursorAttachSends
  <2>2. /\ rtg.pc = "cursor_attach" /\ rtg'.id = rtg.id /\ rtg'.buf = rtg.buf /\ rtg'.field = rtg.field
        /\ rtg'.old_mem = rtg.old_mem /\ rtg'.old_res = rtg.old_res /\ rtg.field = 1
    BY <2>1, SendsMoves DEF Owned
  <2>3. gs' = gs
    BY <2>1, SendsState
  <2>4. PICK c : c = [Command("attach", CursorId, 0, 0) EXCEPT !.buf = gs.cursor_mem]
    OBVIOUS
  <2>5. CASE Taken(c, "cursor_done")
    <3>0. gs.cursor_mem \in Nat
      BY <1>t, <2>2 DEF Owned, States, Cursoring
    <3>1. /\ CursorId \in DOMAIN host.res /\ host.res[CursorId].backing = None
          /\ DOMAIN host'.res = DOMAIN host.res
          /\ \A i \in DOMAIN host.res : /\ i # CursorId => host'.res[i] = host.res[i]
                                        /\ host'.res[i].w = host.res[i].w
                                        /\ host'.res[i].h = host.res[i].h
                                        /\ host'.res[i].blob = host.res[i].blob
          /\ host'.res[CursorId].backing = gs.cursor_mem
          /\ host'.scanout = host.scanout
      BY <3>0, <2>4, <2>5, Attaches DEF Taken
    <3> QED BY <2>5, <3>1, <1>n, <1>h, <2>2, <2>3
                DEF Taken, Sized, Half, Names, Present, Building, Replacing,
                    Cursoring
  <2>6. CASE Refused("cursor_attach", c, "cursor_fail")
    BY <1>n, <1>h, <2>2, <2>3, <2>6
        DEF Refused, Sized, Half, Names, Present, Building, Replacing,
            Cursoring
  <2> QED BY <2>1, <2>4, <2>5, <2>6, SendsQuiet
<1>30. ASSUME TransferToHost2D PROVE Sized'
  <2>1. FlushSends("transfer", Command("transfer", gs.fb_resource_id, fl.w, fl.h),
                    "flush", "release")
    BY <1>30, TransferToHost2DSends
  <2>2. gs' = gs /\ rtg' = rtg
    BY <2>1 DEF FlushSends
  <2>3. CASE host' = host
    BY <2>2, <2>3 DEF Sized, Half
  <2>4. CASE /\ Accepts(host, Command("transfer", gs.fb_resource_id, fl.w, fl.h))
             /\ host' = Execute(host, Command("transfer", gs.fb_resource_id, fl.w, fl.h))
    <3>1. /\ DOMAIN host'.res = DOMAIN host.res
          /\ \A i \in DOMAIN host.res : /\ host'.res[i].w = host.res[i].w
                                         /\ host'.res[i].h = host.res[i].h
                                         /\ host'.res[i].blob = host.res[i].blob
      BY <2>4, Transfers
    <3> QED BY <1>n, <2>2, <3>1 DEF Present, Sized, Half
  <2> QED BY <2>1, <2>3, <2>4 DEF FlushSends
<1>31. ASSUME ResourceFlush PROVE Sized'
  <2>1. FlushSends("flush", Command("flush", gs.fb_resource_id, fl.w, fl.h),
                    "release", "release")
    BY <1>31, ResourceFlushSends
  <2>2. gs' = gs /\ rtg' = rtg
    BY <2>1 DEF FlushSends
  <2>3. host'.res = host.res
    BY <2>1, Flushes DEF FlushSends
  <2> QED BY <2>2, <2>3 DEF Sized, Half
<1>32. ASSUME DevLate PROVE Sized'
  BY <1>32, Later
<1>33. ASSUME UNCHANGED <<gs, rtg, host>> PROVE Sized'
  BY <1>33 DEF Sized, Half
<1>34. ASSUME ModeCall PROVE Sized'
  BY <1>34, <1>1, <1>2, <1>3, <1>4, <1>5
     DEF ModeCall
<1>35. ASSUME ModeLocal PROVE Sized'
  BY AssignCases, <1>35, <1>6, <1>7, <1>8, <1>9, <1>10, <1>11, <1>12, <1>13,
     <1>14, <1>15, <1>16, <1>17, <1>18, <1>19, <1>20, <1>21
     DEF ModeLocal
<1>36. ASSUME ModeCommand PROVE Sized'
  BY <1>36, <1>22, <1>23, <1>24, <1>25, <1>26, <1>27, <1>28, <1>29
     DEF ModeCommand
<1>37. ASSUME Flush PROVE Sized'
  BY <1>37, <1>30, <1>31, <1>33
     DEF Flush, FlushWidth, FlushHeight, FlushObtain, ConvertStart,
         ConvertClamp, ConvertRows, TransferSkipped, FlushRelease
<1> QED BY <1>34, <1>35, <1>36, <1>37, <1>32 DEF Next

\* Scanning is kept.
LEMMA ScanningStep ==
    ASSUME Types, Owned, Fresh, Named, Scanning, ~late'.ever, Next
    PROVE  Scanning'
<1>t. /\ gs \in States /\ rtg \in RFrames /\ fl \in FFrames /\ calls \in Nat
      /\ None \notin Nat
  BY Constants DEF Types
<1>n. Names /\ Present /\ Numbers
  BY DEF Named, Fresh
<1>h. DeviceType(host)
  BY DEF Types
<1>1. ASSUME NEW m \in Modes, SetGCNoOp(m) PROVE Scanning'
  BY <1>1, <1>t, <1>n DEF SetGCNoOp, Call, Scanning, Names, Owned, Building,
       Replacing, Cursoring, States, RFrames
<1>2. ASSUME NEW m \in Modes, SetGC(m) PROVE Scanning'
  BY <1>2, <1>t, <1>n DEF SetGC, Call, Scanning, Names, Owned, Building,
       Replacing, Cursoring, States, RFrames
<1>3. ASSUME NEW sf \in Surfaces, SetPanning(sf) PROVE Scanning'
  BY <1>3, <1>t, <1>n DEF SetPanning, Call, Scanning, Names, Owned, Building,
       Replacing, Cursoring, States, RFrames
<1>4. ASSUME NEW level \in {0, 3}, SetDPMSLevel(level) PROVE Scanning'
  BY <1>4, <1>t, <1>n DEF SetDPMSLevel, Call, RGoto, Scanning, Names, Owned,
       Building, Replacing, Cursoring, States, RFrames
<1>5. ASSUME CursorCreate PROVE Scanning'
  BY <1>5, <1>t, <1>n, ZenonT(60) DEF CursorCreate, Call, RGoto, Scanning, Names, Owned,
       Building, Replacing, Cursoring, States, RFrames
<1>6. ASSUME SetGCWidth PROVE Scanning'
  BY <1>6, <1>t, <1>n DEF SetGCWidth, RGoto, Scanning, Names, Owned, Building,
       Replacing, Cursoring, States, RFrames
<1>7. ASSUME SetGCHeight PROVE Scanning'
  BY <1>7, <1>t, <1>n DEF SetGCHeight, RGoto, Scanning, Names, Owned, Building,
       Replacing, Cursoring, States, RFrames
<1>8. ASSUME ResizeNothing PROVE Scanning'
  BY <1>8, <1>t, <1>n DEF ResizeNothing, Return, RGoto, Scanning, Names, Owned,
       Building, Replacing, Cursoring, States, RFrames
<1>9. ASSUME ResizeAlloc PROVE Scanning'
  BY <1>9, <1>t, <1>n DEF ResizeAlloc, Scanning, Names, Owned, Building,
       Replacing, Cursoring, States, RFrames
<1>10. ASSUME ResizeNoMemory PROVE Scanning'
  BY <1>10, <1>t, <1>n DEF ResizeNoMemory, Scanning, Names, Owned, Building,
       Replacing, Cursoring, States, RFrames
<1>11. ASSUME ResizeFreeNew PROVE Scanning'
  BY <1>11, <1>t, <1>n
      DEF ResizeFreeNew, Return, RGoto, Scanning, Names, Owned,
       Building, Replacing, Cursoring, States, RFrames
<1>12. ASSUME AssignMem PROVE Scanning'
  BY <1>12, <1>t, <1>n
      DEF AssignMem, Assigning, Scanning, Names, Owned, Building,
       Replacing, Cursoring, States, RFrames
<1>13. ASSUME AssignWidth PROVE Scanning'
  BY <1>13, <1>t, <1>n DEF AssignWidth, Assigning, Scanning, Names, Owned,
       Building, Replacing, Cursoring, States, RFrames
<1>14. ASSUME AssignHeight PROVE Scanning'
  BY <1>14, <1>t, <1>n DEF AssignHeight, Assigning, Scanning, Names, Owned,
       Building, Replacing, Cursoring, States, RFrames
<1>15. ASSUME AssignStride PROVE Scanning'
  BY <1>15, <1>t, <1>n DEF AssignStride, Assigning, Scanning, Names, Owned,
       Building, Replacing, Cursoring, States, RFrames
<1>16. ASSUME AssignResource PROVE Scanning'
  BY <1>16, <1>t, <1>n DEF AssignResource, Assigning, Scanning, Names, Owned,
       Building, Replacing, Cursoring, States, RFrames
<1>17. ASSUME AssignFb PROVE Scanning'
  BY <1>17, <1>t, <1>n
      DEF AssignFb, Assigning, Scanning, Names, Owned, Building,
       Replacing, Cursoring, States, RFrames
<1>18. ASSUME ResizeFreeOld PROVE Scanning'
  BY <1>18, <1>t, <1>n
      DEF ResizeFreeOld, Return, RGoto, Scanning, Names, Owned,
       Building, Replacing, Cursoring, States, RFrames
<1>19. ASSUME SetPanningFormat PROVE Scanning'
  BY <1>19, <1>t, <1>n
      DEF SetPanningFormat, Return, RGoto, Scanning, Names, Owned,
       Building, Replacing, Cursoring, States, RFrames
<1>20. ASSUME CursorDone PROVE Scanning'
  BY <1>20, <1>t, <1>n DEF CursorDone, Return, RGoto, Scanning, Names, Owned,
       Building, Replacing, Cursoring, States, RFrames
<1>21. ASSUME CursorFail PROVE Scanning'
  BY <1>21, <1>t, <1>n DEF CursorFail, Return, RGoto, Scanning, Names, Owned,
       Building, Replacing, Cursoring, States, RFrames
<1>22. ASSUME ResizeCreate PROVE Scanning'
  <2>1. Sends("create", Command("create", rtg.id, gs.active_width, gs.active_height),
              "attach", "free_new")
    BY <1>22, ResizeCreateSends
  <2>2. /\ rtg.pc = "create" /\ rtg'.id = rtg.id /\ rtg'.buf = rtg.buf /\ rtg'.field = rtg.field
        /\ rtg'.old_mem = rtg.old_mem /\ rtg'.old_res = rtg.old_res /\ rtg.field = 1
    BY <2>1, SendsMoves DEF Owned
  <2>3. gs' = gs
    BY <2>1, SendsState
  <2>4. PICK c : c = Command("create", rtg.id, gs.active_width, gs.active_height)
    OBVIOUS
  <2>5. CASE Taken(c, "attach")
    <3>0. /\ Accepts(host, Command("create", rtg.id, gs.active_width, gs.active_height))
          /\ host' = Execute(host, Command("create", rtg.id, gs.active_width, gs.active_height))
      BY <2>4, <2>5 DEF Taken
    <3>1. /\ rtg.id # 0 /\ rtg.id \notin DOMAIN host.res
          /\ DOMAIN host'.res = DOMAIN host.res \cup {rtg.id}
          /\ \A i \in DOMAIN host.res : host'.res[i] = host.res[i]
          /\ host'.res[rtg.id].w = gs.active_width /\ host'.res[rtg.id].h = gs.active_height
          /\ host'.res[rtg.id].blob = FALSE /\ host'.res[rtg.id].backing = None
          /\ host'.scanout = host.scanout
      BY <3>0, Creates, ZenonT(60)
    <3> QED BY <2>5, <3>1, <1>n, <1>h, <2>2, <2>3
                DEF Taken, Scanning, Names, Present, Building, Replacing,
                    Cursoring
  <2>6. CASE Refused("create", c, "free_new")
    BY <1>n, <1>h, <2>2, <2>3, <2>6
        DEF Refused, Scanning, Names, Present, Building, Replacing, Cursoring
  <2> QED BY <2>1, <2>4, <2>5, <2>6, SendsQuiet
<1>23. ASSUME ResizeAttach PROVE Scanning'
  <2>1. Sends("attach", [Command("attach", rtg.id, 0, 0) EXCEPT !.buf = rtg.buf],
              "scanout", "unref_new")
    BY <1>23, ResizeAttachSends
  <2>2. /\ rtg.pc = "attach" /\ rtg'.id = rtg.id /\ rtg'.buf = rtg.buf /\ rtg'.field = rtg.field
        /\ rtg'.old_mem = rtg.old_mem /\ rtg'.old_res = rtg.old_res /\ rtg.field = 1
    BY <2>1, SendsMoves DEF Owned
  <2>3. gs' = gs
    BY <2>1, SendsState
  <2>4. PICK c : c = [Command("attach", rtg.id, 0, 0) EXCEPT !.buf = rtg.buf]
    OBVIOUS
  <2>5. CASE Taken(c, "scanout")
    <3>0. rtg.buf \in Nat
      BY <1>t DEF RFrames
    <3>1. /\ rtg.id \in DOMAIN host.res /\ host.res[rtg.id].backing = None
          /\ DOMAIN host'.res = DOMAIN host.res
          /\ \A i \in DOMAIN host.res : /\ i # rtg.id => host'.res[i] = host.res[i]
                                        /\ host'.res[i].w = host.res[i].w
                                        /\ host'.res[i].h = host.res[i].h
                                        /\ host'.res[i].blob = host.res[i].blob
          /\ host'.res[rtg.id].backing = rtg.buf
          /\ host'.scanout = host.scanout
      BY <3>0, <2>4, <2>5, Attaches DEF Taken
    <3> QED BY <2>5, <3>1, <1>n, <1>h, <2>2, <2>3
                DEF Taken, Scanning, Names, Present, Building, Replacing,
                    Cursoring
  <2>6. CASE Refused("attach", c, "unref_new")
    BY <1>n, <1>h, <2>2, <2>3, <2>6
        DEF Refused, Scanning, Names, Present, Building, Replacing, Cursoring
  <2> QED BY <2>1, <2>4, <2>5, <2>6, SendsQuiet
<1>24. ASSUME ResizeScanout PROVE Scanning'
  <2>1. Sends("scanout", Command("scanout", rtg.id, gs.active_width, gs.active_height),
              "assign", "unref_new")
    BY <1>24, ResizeScanoutSends
  <2>2. /\ rtg.pc = "scanout" /\ rtg'.id = rtg.id /\ rtg'.buf = rtg.buf /\ rtg'.field = rtg.field
        /\ rtg'.old_mem = rtg.old_mem /\ rtg'.old_res = rtg.old_res /\ rtg.field = 1
    BY <2>1, SendsMoves DEF Owned
  <2>3. gs' = gs
    BY <2>1, SendsState
  <2>4. PICK c : c = Command("scanout", rtg.id, gs.active_width, gs.active_height)
    OBVIOUS
  <2>5. CASE Taken(c, "assign")
    <3>1. host'.res = host.res /\ host'.scanout = rtg.id
      BY <2>4, <2>5, Scans DEF Taken
    <3> QED BY <2>5, <3>1, <1>n, <1>h, <2>2, <2>3
                DEF Taken, Scanning, Names, Present, Building, Replacing,
                    Cursoring
  <2>6. CASE Refused("scanout", c, "unref_new")
    BY <1>n, <1>h, <2>2, <2>3, <2>6
        DEF Refused, Scanning, Names, Present, Building, Replacing, Cursoring
  <2> QED BY <2>1, <2>4, <2>5, <2>6, SendsQuiet
<1>25. ASSUME ResizeUnrefNew PROVE Scanning'
  <2>1. Sends("unref_new", Command("unref", rtg.id, 0, 0),
              "free_new", "free_new")
    BY <1>25, ResizeUnrefNewSends
  <2>2. /\ rtg.pc = "unref_new" /\ rtg'.id = rtg.id /\ rtg'.buf = rtg.buf /\ rtg'.field = rtg.field
        /\ rtg'.old_mem = rtg.old_mem /\ rtg'.old_res = rtg.old_res /\ rtg.field = 1
    BY <2>1, SendsMoves DEF Owned
  <2>3. gs' = gs
    BY <2>1, SendsState
  <2>4. PICK c : c = Command("unref", rtg.id, 0, 0)
    OBVIOUS
  <2>5. CASE Taken(c, "free_new")
    <3>1. /\ DOMAIN host'.res = DOMAIN host.res \ {rtg.id}
          /\ \A i \in DOMAIN host'.res : host'.res[i] = host.res[i]
          /\ host.scanout # rtg.id => host'.scanout = host.scanout
      BY <2>4, <2>5, Unrefs DEF Taken
    <3> QED BY <2>5, <3>1, <1>n, <1>h, <2>2, <2>3
                DEF Taken, Scanning, Names, Present, Building, Replacing,
                    Cursoring
  <2>6. CASE Refused("unref_new", c, "free_new")
    BY <1>n, <1>h, <2>2, <2>3, <2>6
        DEF Refused, Scanning, Names, Present, Building, Replacing, Cursoring
  <2> QED BY <2>1, <2>4, <2>5, <2>6, SendsQuiet
<1>26. ASSUME ResizeUnrefOld PROVE Scanning'
  <2>1. Sends("unref_old", Command("unref", rtg.old_res, 0, 0),
              "free_old", "free_old")
    BY <1>26, ResizeUnrefOldSends
  <2>2. /\ rtg.pc = "unref_old" /\ rtg'.id = rtg.id /\ rtg'.buf = rtg.buf /\ rtg'.field = rtg.field
        /\ rtg'.old_mem = rtg.old_mem /\ rtg'.old_res = rtg.old_res /\ rtg.field = 1
    BY <2>1, SendsMoves DEF Owned
  <2>3. gs' = gs
    BY <2>1, SendsState
  <2>4. PICK c : c = Command("unref", rtg.old_res, 0, 0)
    OBVIOUS
  <2>5. CASE Taken(c, "free_old")
    <3>1. /\ DOMAIN host'.res = DOMAIN host.res \ {rtg.old_res}
          /\ \A i \in DOMAIN host'.res : host'.res[i] = host.res[i]
          /\ host.scanout # rtg.old_res => host'.scanout = host.scanout
      BY <2>4, <2>5, Unrefs DEF Taken
    <3> QED BY <2>5, <3>1, <1>n, <1>h, <2>2, <2>3
                DEF Taken, Scanning, Names, Present, Building, Replacing,
                    Cursoring
  <2>6. CASE Refused("unref_old", c, "free_old")
    BY <1>n, <1>h, <2>2, <2>3, <2>6
        DEF Refused, Scanning, Names, Present, Building, Replacing, Cursoring
  <2> QED BY <2>1, <2>4, <2>5, <2>6, SendsQuiet
<1>27. ASSUME SetDPMSLevelSend PROVE Scanning'
  <2>1. Sends("dpms", DPMSScanout, "idle", "idle")
    BY <1>27, SetDPMSLevelSendSends
  <2>2. /\ rtg.pc = "dpms" /\ rtg'.id = rtg.id /\ rtg'.buf = rtg.buf /\ rtg'.field = rtg.field
        /\ rtg'.old_mem = rtg.old_mem /\ rtg'.old_res = rtg.old_res /\ rtg.field = 1
    BY <2>1, SendsMoves DEF Owned
  <2>3. gs' = gs
    BY <2>1, SendsState
  <2>4. PICK c : c = DPMSScanout
    OBVIOUS
  <2>5. CASE Taken(c, "idle")
    <3>1. /\ host'.res = host.res
          /\ gs.dpms_level = 0 => host'.scanout = gs.resource_id
      BY <2>4, <2>5, Scans DEF Taken, DPMSScanout
    <3> QED BY <2>5, <3>1, <1>n, <1>h, <2>2, <2>3
                DEF Taken, Scanning, Names, Present, Building, Replacing,
                    Cursoring
  <2>6. CASE Refused("dpms", c, "idle")
    BY <1>n, <1>h, <2>2, <2>3, <2>6
        DEF Refused, Scanning, Names, Present, Building, Replacing, Cursoring
  <2> QED BY <2>1, <2>4, <2>5, <2>6, SendsQuiet
<1>28. ASSUME CursorCreate2D PROVE Scanning'
  <2>1. Sends("cursor_create", Command("create", CursorId, 1, 1),
              "cursor_attach", "cursor_fail")
    BY <1>28, CursorCreate2DSends
  <2>2. /\ rtg.pc = "cursor_create" /\ rtg'.id = rtg.id /\ rtg'.buf = rtg.buf /\ rtg'.field = rtg.field
        /\ rtg'.old_mem = rtg.old_mem /\ rtg'.old_res = rtg.old_res /\ rtg.field = 1
    BY <2>1, SendsMoves DEF Owned
  <2>3. gs' = gs
    BY <2>1, SendsState
  <2>4. PICK c : c = Command("create", CursorId, 1, 1)
    OBVIOUS
  <2>5. CASE Taken(c, "cursor_attach")
    <3>1. /\ CursorId \notin DOMAIN host.res
          /\ DOMAIN host'.res = DOMAIN host.res \cup {CursorId}
          /\ \A i \in DOMAIN host.res : host'.res[i] = host.res[i]
          /\ host'.res[CursorId].blob = FALSE /\ host'.res[CursorId].backing = None
          /\ host'.scanout = host.scanout
      BY <2>4, <2>5, Creates DEF Taken
    <3> QED BY <2>5, <3>1, <1>n, <1>h, <2>2, <2>3
                DEF Taken, Scanning, Names, Present, Building, Replacing,
                    Cursoring
  <2>6. CASE Refused("cursor_create", c, "cursor_fail")
    BY <1>n, <1>h, <2>2, <2>3, <2>6
        DEF Refused, Scanning, Names, Present, Building, Replacing, Cursoring
  <2> QED BY <2>1, <2>4, <2>5, <2>6, SendsQuiet
<1>29. ASSUME CursorAttach PROVE Scanning'
  <2>1. Sends("cursor_attach", [Command("attach", CursorId, 0, 0) EXCEPT !.buf = gs.cursor_mem],
              "cursor_done", "cursor_fail")
    BY <1>29, CursorAttachSends
  <2>2. /\ rtg.pc = "cursor_attach" /\ rtg'.id = rtg.id /\ rtg'.buf = rtg.buf /\ rtg'.field = rtg.field
        /\ rtg'.old_mem = rtg.old_mem /\ rtg'.old_res = rtg.old_res /\ rtg.field = 1
    BY <2>1, SendsMoves DEF Owned
  <2>3. gs' = gs
    BY <2>1, SendsState
  <2>4. PICK c : c = [Command("attach", CursorId, 0, 0) EXCEPT !.buf = gs.cursor_mem]
    OBVIOUS
  <2>5. CASE Taken(c, "cursor_done")
    <3>0. gs.cursor_mem \in Nat
      BY <1>t, <2>2 DEF Owned, States, Cursoring
    <3>1. /\ CursorId \in DOMAIN host.res /\ host.res[CursorId].backing = None
          /\ DOMAIN host'.res = DOMAIN host.res
          /\ \A i \in DOMAIN host.res : /\ i # CursorId => host'.res[i] = host.res[i]
                                        /\ host'.res[i].w = host.res[i].w
                                        /\ host'.res[i].h = host.res[i].h
                                        /\ host'.res[i].blob = host.res[i].blob
          /\ host'.res[CursorId].backing = gs.cursor_mem
          /\ host'.scanout = host.scanout
      BY <3>0, <2>4, <2>5, Attaches DEF Taken
    <3> QED BY <2>5, <3>1, <1>n, <1>h, <2>2, <2>3
                DEF Taken, Scanning, Names, Present, Building, Replacing,
                    Cursoring
  <2>6. CASE Refused("cursor_attach", c, "cursor_fail")
    BY <1>n, <1>h, <2>2, <2>3, <2>6
        DEF Refused, Scanning, Names, Present, Building, Replacing, Cursoring
  <2> QED BY <2>1, <2>4, <2>5, <2>6, SendsQuiet
<1>30. ASSUME TransferToHost2D PROVE Scanning'
  <2>1. FlushSends("transfer", Command("transfer", gs.fb_resource_id, fl.w, fl.h),
                    "flush", "release")
    BY <1>30, TransferToHost2DSends
  <2>2. gs' = gs /\ rtg' = rtg
    BY <2>1 DEF FlushSends
  <2>3. CASE host' = host
    BY <2>2, <2>3 DEF Scanning
  <2>4. CASE /\ Accepts(host, Command("transfer", gs.fb_resource_id, fl.w, fl.h))
             /\ host' = Execute(host, Command("transfer", gs.fb_resource_id, fl.w, fl.h))
    <3>1. host'.scanout = host.scanout
      BY <2>4, Transfers
    <3> QED BY <1>n, <2>2, <3>1 DEF Present, Scanning
  <2> QED BY <2>1, <2>3, <2>4 DEF FlushSends
<1>31. ASSUME ResourceFlush PROVE Scanning'
  <2>1. FlushSends("flush", Command("flush", gs.fb_resource_id, fl.w, fl.h),
                    "release", "release")
    BY <1>31, ResourceFlushSends
  <2>2. gs' = gs /\ rtg' = rtg
    BY <2>1 DEF FlushSends
  <2>3. host'.scanout = host.scanout
    BY <2>1, Flushes DEF FlushSends
  <2> QED BY <2>2, <2>3 DEF Scanning
<1>32. ASSUME DevLate PROVE Scanning'
  BY <1>32, Later
<1>33. ASSUME UNCHANGED <<gs, rtg, host>> PROVE Scanning'
  BY <1>33 DEF Scanning
<1>34. ASSUME ModeCall PROVE Scanning'
  BY <1>34, <1>1, <1>2, <1>3, <1>4, <1>5
     DEF ModeCall
<1>35. ASSUME ModeLocal PROVE Scanning'
  BY AssignCases, <1>35, <1>6, <1>7, <1>8, <1>9, <1>10, <1>11, <1>12, <1>13,
     <1>14, <1>15, <1>16, <1>17, <1>18, <1>19, <1>20, <1>21
     DEF ModeLocal
<1>36. ASSUME ModeCommand PROVE Scanning'
  BY <1>36, <1>22, <1>23, <1>24, <1>25, <1>26, <1>27, <1>28, <1>29
     DEF ModeCommand
<1>37. ASSUME Flush PROVE Scanning'
  BY <1>37, <1>30, <1>31, <1>33
     DEF Flush, FlushWidth, FlushHeight, FlushObtain, ConvertStart,
         ConvertClamp, ConvertRows, TransferSkipped, FlushRelease
<1> QED BY <1>34, <1>35, <1>36, <1>37, <1>32 DEF Next

-----------------------------------------------------------------------------
(* How far a mode has got.                                                 *)

LEMMA SendsClean ==
    ASSUME Types, NEW l, NEW c, NEW ok, NEW fails, Sends(l, c, ok, fails), rtg'.failed = {}
    PROVE  rtg.failed = {} /\ rtg.pc = l /\ rtg'.pc \in {ok, l} /\ rtg'.mode = rtg.mode
<1>1. rtg \in RFrames /\ rtg.pc = l
  BY DEF Types, Sends
<1>2. CASE rtg' = [rtg EXCEPT !.pc = ok, !.attempt = 0]
  BY <1>1, <1>2 DEF RFrames
<1>3. CASE rtg' = [rtg EXCEPT !.pc = fails, !.failed = @ \cup {l}]
  BY <1>1, <1>3 DEF RFrames
<1>4. CASE rtg' = [rtg EXCEPT !.attempt = @ + 1]
  BY <1>1, <1>4 DEF RFrames
<1>5. CASE rtg' = [rtg EXCEPT !.pc = fails, !.attempt = 0, !.failed = @ \cup {l}]
  BY <1>1, <1>5 DEF RFrames
<1> QED BY <1>2, <1>3, <1>4, <1>5 DEF Sends

\* Applied is kept.
LEMMA AppliedStep ==
    ASSUME Types, Owned, Applied, Next
    PROVE  Applied'
<1>t. /\ gs \in States /\ rtg \in RFrames /\ fl \in FFrames /\ calls \in Nat
      /\ None \notin Nat
  BY Constants DEF Types
<1>1. ASSUME NEW m \in Modes, SetGCNoOp(m) PROVE Applied'
  BY <1>1, <1>t
      DEF SetGCNoOp, SameMode, Call, Applied, Building, Replacing, Cursoring,
       Owned, States, RFrames
<1>2. ASSUME NEW m \in Modes, SetGC(m) PROVE Applied'
  BY <1>2, <1>t
      DEF SetGC, Call, Applied, Building, Replacing, Cursoring, Owned,
       States, RFrames
<1>3. ASSUME NEW sf \in Surfaces, SetPanning(sf) PROVE Applied'
  BY <1>3, <1>t DEF SetPanning, Call, Applied, Building, Replacing, Cursoring,
       Owned, States, RFrames
<1>4. ASSUME NEW level \in {0, 3}, SetDPMSLevel(level) PROVE Applied'
  BY <1>4, <1>t DEF SetDPMSLevel, Call, RGoto, Applied, Building, Replacing,
       Cursoring, Owned, States, RFrames
<1>5. ASSUME CursorCreate PROVE Applied'
  BY <1>5, <1>t, ZenonT(60) DEF CursorCreate, Call, RGoto, Applied, Building, Replacing,
       Cursoring, Owned, States, RFrames
<1>6. ASSUME SetGCWidth PROVE Applied'
  BY <1>6, <1>t DEF SetGCWidth, RGoto, Applied, Building, Replacing, Cursoring,
       Owned, States, RFrames
<1>7. ASSUME SetGCHeight PROVE Applied'
  BY <1>7, <1>t
      DEF SetGCHeight, RGoto, Applied, Building, Replacing, Cursoring,
       Owned, States, RFrames
<1>8. ASSUME ResizeNothing PROVE Applied'
  BY <1>8, <1>t DEF ResizeNothing, Return, RGoto, Applied, Building, Replacing,
       Cursoring, Owned, States, RFrames
<1>9. ASSUME ResizeAlloc PROVE Applied'
  BY <1>9, <1>t
      DEF ResizeAlloc, Applied, Building, Replacing, Cursoring, Owned,
       States, RFrames
<1>10. ASSUME ResizeNoMemory PROVE Applied'
  BY <1>10, <1>t DEF ResizeNoMemory, Applied, Building, Replacing, Cursoring,
       Owned, States, RFrames
<1>11. ASSUME ResizeFreeNew PROVE Applied'
  BY <1>11, <1>t
      DEF ResizeFreeNew, Return, RGoto, Applied, Building, Replacing,
       Cursoring, Owned, States, RFrames
<1>12. ASSUME AssignMem PROVE Applied'
  BY <1>12, <1>t
      DEF AssignMem, Assigning, Applied, Building, Replacing, Cursoring,
       Owned, States, RFrames
<1>13. ASSUME AssignWidth PROVE Applied'
  BY <1>13, <1>t DEF AssignWidth, Assigning, Applied, Building, Replacing,
       Cursoring, Owned, States, RFrames
<1>14. ASSUME AssignHeight PROVE Applied'
  BY <1>14, <1>t DEF AssignHeight, Assigning, Applied, Building, Replacing,
       Cursoring, Owned, States, RFrames
<1>15. ASSUME AssignStride PROVE Applied'
  BY <1>15, <1>t DEF AssignStride, Assigning, Applied, Building, Replacing,
       Cursoring, Owned, States, RFrames
<1>16. ASSUME AssignResource PROVE Applied'
  BY <1>16, <1>t DEF AssignResource, Assigning, Applied, Building, Replacing,
       Cursoring, Owned, States, RFrames
<1>17. ASSUME AssignFb PROVE Applied'
  BY <1>17, <1>t
      DEF AssignFb, Assigning, Applied, Building, Replacing, Cursoring,
       Owned, States, RFrames
<1>18. ASSUME ResizeFreeOld PROVE Applied'
  BY <1>18, <1>t
      DEF ResizeFreeOld, Return, RGoto, Applied, Building, Replacing,
       Cursoring, Owned, States, RFrames
<1>19. ASSUME SetPanningFormat PROVE Applied'
  BY <1>19, <1>t
      DEF SetPanningFormat, Return, RGoto, Applied, Building, Replacing,
       Cursoring, Owned, States, RFrames
<1>20. ASSUME CursorDone PROVE Applied'
  BY <1>20, <1>t DEF CursorDone, Return, RGoto, Applied, Building, Replacing,
       Cursoring, Owned, States, RFrames
<1>21. ASSUME CursorFail PROVE Applied'
  BY <1>21, <1>t DEF CursorFail, Return, RGoto, Applied, Building, Replacing,
       Cursoring, Owned, States, RFrames
<1>22. ASSUME ResizeCreate PROVE Applied'
  <2>1. Sends("create", Command("create", rtg.id, gs.active_width, gs.active_height),
              "attach", "free_new")
    BY <1>22, ResizeCreateSends
  <2>2. gs' = gs /\ rtg'.field = rtg.field
    BY <2>1, SendsState, SendsMoves
  <2>3. ASSUME rtg'.failed = {}
        PROVE  /\ rtg.failed = {} /\ rtg.pc = "create"
               /\ rtg'.pc \in {"create", "attach"} /\ rtg'.mode = rtg.mode
    BY <2>1, <2>3, SendsClean
  <2>4. rtg.pc = "create" => rtg.field = 1
    BY DEF Owned
  <2> QED BY <2>2, <2>3, <2>4 DEF Applied, Building, Replacing, Cursoring
<1>23. ASSUME ResizeAttach PROVE Applied'
  <2>1. Sends("attach", [Command("attach", rtg.id, 0, 0) EXCEPT !.buf = rtg.buf],
              "scanout", "unref_new")
    BY <1>23, ResizeAttachSends
  <2>2. gs' = gs /\ rtg'.field = rtg.field
    BY <2>1, SendsState, SendsMoves
  <2>3. ASSUME rtg'.failed = {}
        PROVE  /\ rtg.failed = {} /\ rtg.pc = "attach"
               /\ rtg'.pc \in {"attach", "scanout"} /\ rtg'.mode = rtg.mode
    BY <2>1, <2>3, SendsClean
  <2>4. rtg.pc = "attach" => rtg.field = 1
    BY DEF Owned
  <2> QED BY <2>2, <2>3, <2>4 DEF Applied, Building, Replacing, Cursoring
<1>24. ASSUME ResizeScanout PROVE Applied'
  <2>1. Sends("scanout", Command("scanout", rtg.id, gs.active_width, gs.active_height),
              "assign", "unref_new")
    BY <1>24, ResizeScanoutSends
  <2>2. gs' = gs /\ rtg'.field = rtg.field
    BY <2>1, SendsState, SendsMoves
  <2>3. ASSUME rtg'.failed = {}
        PROVE  /\ rtg.failed = {} /\ rtg.pc = "scanout"
               /\ rtg'.pc \in {"scanout", "assign"} /\ rtg'.mode = rtg.mode
    BY <2>1, <2>3, SendsClean
  <2>4. rtg.pc = "scanout" => rtg.field = 1
    BY DEF Owned
  <2> QED BY <2>2, <2>3, <2>4 DEF Applied, Building, Replacing, Cursoring
<1>25. ASSUME ResizeUnrefNew PROVE Applied'
  <2>1. Sends("unref_new", Command("unref", rtg.id, 0, 0),
              "free_new", "free_new")
    BY <1>25, ResizeUnrefNewSends
  <2>2. gs' = gs /\ rtg'.field = rtg.field
    BY <2>1, SendsState, SendsMoves
  <2>3. ASSUME rtg'.failed = {}
        PROVE  /\ rtg.failed = {} /\ rtg.pc = "unref_new"
               /\ rtg'.pc \in {"unref_new", "free_new"} /\ rtg'.mode = rtg.mode
    BY <2>1, <2>3, SendsClean
  <2>4. rtg.pc = "unref_new" => rtg.field = 1
    BY DEF Owned
  <2> QED BY <2>2, <2>3, <2>4 DEF Applied, Building, Replacing, Cursoring
<1>26. ASSUME ResizeUnrefOld PROVE Applied'
  <2>1. Sends("unref_old", Command("unref", rtg.old_res, 0, 0),
              "free_old", "free_old")
    BY <1>26, ResizeUnrefOldSends
  <2>2. gs' = gs /\ rtg'.field = rtg.field
    BY <2>1, SendsState, SendsMoves
  <2>3. ASSUME rtg'.failed = {}
        PROVE  /\ rtg.failed = {} /\ rtg.pc = "unref_old"
               /\ rtg'.pc \in {"unref_old", "free_old"} /\ rtg'.mode = rtg.mode
    BY <2>1, <2>3, SendsClean
  <2>4. rtg.pc = "unref_old" => rtg.field = 1
    BY DEF Owned
  <2> QED BY <2>2, <2>3, <2>4 DEF Applied, Building, Replacing, Cursoring
<1>27. ASSUME SetDPMSLevelSend PROVE Applied'
  <2>1. Sends("dpms", DPMSScanout, "idle", "idle")
    BY <1>27, SetDPMSLevelSendSends
  <2>2. gs' = gs /\ rtg'.field = rtg.field
    BY <2>1, SendsState, SendsMoves
  <2>3. ASSUME rtg'.failed = {}
        PROVE  /\ rtg.failed = {} /\ rtg.pc = "dpms"
               /\ rtg'.pc \in {"dpms", "idle"} /\ rtg'.mode = rtg.mode
    BY <2>1, <2>3, SendsClean
  <2>4. rtg.pc = "dpms" => rtg.field = 1
    BY DEF Owned
  <2> QED BY <2>2, <2>3, <2>4 DEF Applied, Building, Replacing, Cursoring
<1>28. ASSUME CursorCreate2D PROVE Applied'
  <2>1. Sends("cursor_create", Command("create", CursorId, 1, 1),
              "cursor_attach", "cursor_fail")
    BY <1>28, CursorCreate2DSends
  <2>2. gs' = gs /\ rtg'.field = rtg.field
    BY <2>1, SendsState, SendsMoves
  <2>3. ASSUME rtg'.failed = {}
        PROVE  /\ rtg.failed = {} /\ rtg.pc = "cursor_create"
               /\ rtg'.pc \in {"cursor_create", "cursor_attach"} /\ rtg'.mode = rtg.mode
    BY <2>1, <2>3, SendsClean
  <2>4. rtg.pc = "cursor_create" => rtg.field = 1
    BY DEF Owned
  <2> QED BY <2>2, <2>3, <2>4 DEF Applied, Building, Replacing, Cursoring
<1>29. ASSUME CursorAttach PROVE Applied'
  <2>1. Sends("cursor_attach", [Command("attach", CursorId, 0, 0) EXCEPT !.buf = gs.cursor_mem],
              "cursor_done", "cursor_fail")
    BY <1>29, CursorAttachSends
  <2>2. gs' = gs /\ rtg'.field = rtg.field
    BY <2>1, SendsState, SendsMoves
  <2>3. ASSUME rtg'.failed = {}
        PROVE  /\ rtg.failed = {} /\ rtg.pc = "cursor_attach"
               /\ rtg'.pc \in {"cursor_attach", "cursor_done"} /\ rtg'.mode = rtg.mode
    BY <2>1, <2>3, SendsClean
  <2>4. rtg.pc = "cursor_attach" => rtg.field = 1
    BY DEF Owned
  <2> QED BY <2>2, <2>3, <2>4 DEF Applied, Building, Replacing, Cursoring
<1>30. ASSUME UNCHANGED <<gs, rtg>> PROVE Applied'
  BY <1>30 DEF Applied
<1>31. ASSUME ModeCall PROVE Applied'
  BY <1>31, <1>1, <1>2, <1>3, <1>4, <1>5
     DEF ModeCall
<1>32. ASSUME ModeLocal PROVE Applied'
  BY AssignCases, <1>32, <1>6, <1>7, <1>8, <1>9, <1>10, <1>11, <1>12, <1>13,
     <1>14, <1>15, <1>16, <1>17, <1>18, <1>19, <1>20, <1>21
     DEF ModeLocal
<1>33. ASSUME ModeCommand PROVE Applied'
  BY <1>33, <1>22, <1>23, <1>24, <1>25, <1>26, <1>27, <1>28, <1>29
     DEF ModeCommand
<1>34. ASSUME Flush PROVE Applied'
  BY <1>34, <1>30
     DEF Flush, FlushWidth, FlushHeight, FlushObtain, ConvertStart,
         ConvertClamp, ConvertRows, TransferSkipped, TransferToHost2D,
         FlushSend, Command, ResourceFlush, FlushRelease
<1>35. ASSUME DevLate PROVE Applied'
  BY <1>35, <1>30
     DEF DevLate
<1> QED BY <1>31, <1>32, <1>33, <1>34, <1>35 DEF Next

-----------------------------------------------------------------------------
(* A flush that nothing disturbs.                                          *)

\* A callback, and a step of one, disturbs: the first is counted, the second
\* is only taken while no flush counts as undisturbed.
LEMMA Disturbed ==
    ASSUME Types, Settling, fl' = fl,
           \/ calls' = calls + 1
           \/ calls' = calls /\ rtg.pc # "idle"
    PROVE  Settling'
<1>1. calls \in Nat /\ fl.at \in Int
  BY Constants DEF Types, FFrames
<1>2. fl'.at = fl.at /\ fl.at <= calls
  BY DEF Settling
<1>3. ~Undisturbed' /\ fl'.at <= calls'
  <2>1. CASE calls' = calls + 1
    BY <1>1, <1>2, <2>1 DEF Undisturbed
  <2>2. CASE calls' = calls /\ rtg.pc # "idle"
    BY <1>1, <1>2, <2>2 DEF Undisturbed, Settling, Carried, Read
  <2> QED BY <2>1, <2>2
<1> QED BY <1>3 DEF Settling

LEMMA Unmoved ==
    ASSUME gs' = gs
    PROVE  NowWidth' = NowWidth /\ NowHeight' = NowHeight /\ CurrentPicture' = CurrentPicture
BY DEF NowWidth, NowHeight, CurrentPicture

LEMMA NowIs ==
    ASSUME Types
    PROVE  /\ NowWidth \in Nat /\ NowWidth <= gs.fb_width
           /\ NowHeight \in Nat /\ NowHeight <= gs.fb_height
           /\ CurrentPicture = Pixels(gs.panning_mem, gs.active_format, NowWidth, NowHeight)
           /\ Smaller(NowWidth, NowWidth) = NowWidth
           /\ Smaller(NowHeight, NowHeight) = NowHeight
<1>1. /\ gs.active_width \in Nat /\ gs.fb_width \in Nat
      /\ gs.active_height \in Nat /\ gs.fb_height \in Nat
  BY DEF Types, States
<1>2. NowWidth \in Nat /\ NowWidth <= gs.fb_width
  BY <1>1, SmallerSize DEF NowWidth
<1>3. NowHeight \in Nat /\ NowHeight <= gs.fb_height
  BY <1>1, SmallerSize DEF NowHeight
<1>4. CurrentPicture = Pixels(gs.panning_mem, gs.active_format, NowWidth, NowHeight)
  BY DEF CurrentPicture, NowWidth, NowHeight
<1>5. \A n \in Nat : Smaller(n, n) = n
  BY DEF Smaller
<1> QED BY <1>2, <1>3, <1>4, <1>5

\* Between callbacks, until a command has been given up on, the framebuffer's
\* resource is as large as the framebuffer, and backed by it.
LEMMA FramebufferResource ==
    ASSUME Types, Owned, Named, Sound, ~late.ever, rtg.pc = "idle"
    PROVE  LET r == host.res[gs.fb_resource_id] IN
           /\ gs.fb_resource_id \in DOMAIN host.res
           /\ r.w = gs.fb_width /\ r.h = gs.fb_height
           /\ r.backing = gs.fb_mem /\ gs.fb_mem \in DOMAIN mem
           /\ gs.fb_mem # None
           /\ r.blob = (gs.fb_is_blob /\ gs.fb_resource_id = 1)
           /\ Drawn(r) = mem[gs.fb_mem].pixels
           /\ gs.dpms_level = 0 /\ "dpms" \notin rtg.failed =>
                 host.scanout = gs.fb_resource_id
<1>1. Present /\ Backed /\ Sized /\ Scanning
  BY DEF Named, Sound
<1>2. gs.fb_mem \in Nat /\ None \notin Nat
  BY Constants DEF Types, States
<1>3. gs.fb_mem \in DOMAIN mem
  BY <1>2 DEF Owned
<1>4. gs.fb_resource_id \in DOMAIN host.res /\ ~Half
  BY <1>1 DEF Present, Half
<1>5. host.res[gs.fb_resource_id].backing = gs.fb_mem
  BY <1>1, <1>4 DEF Backed
<1>6. /\ host.res[gs.fb_resource_id].w = gs.fb_width
      /\ host.res[gs.fb_resource_id].h = gs.fb_height
      /\ host.res[gs.fb_resource_id].blob = (gs.fb_is_blob /\ gs.fb_resource_id = 1)
  BY <1>1, <1>4 DEF Sized
<1>7. gs.dpms_level = 0 /\ "dpms" \notin rtg.failed => host.scanout = gs.fb_resource_id
  BY <1>1 DEF Scanning
<1>8. Drawn(host.res[gs.fb_resource_id]) = mem[gs.fb_mem].pixels
  BY <1>3, <1>5 DEF Drawn
<1> QED BY <1>2, <1>3, <1>4, <1>5, <1>6, <1>7, <1>8

\* The commands of an undisturbed flush are such that the device takes them.
LEMMA FlushAccepted ==
    ASSUME Types, Owned, Named, Sound, ~late.ever, rtg.pc = "idle",
           fl.w = NowWidth, fl.h = NowHeight
    PROVE  /\ Accepts(host, Command("transfer", gs.fb_resource_id, fl.w, fl.h))
           /\ Accepts(host, Command("flush", gs.fb_resource_id, fl.w, fl.h))
<1>1. /\ gs.fb_resource_id \in DOMAIN host.res
      /\ host.res[gs.fb_resource_id].w = gs.fb_width
      /\ host.res[gs.fb_resource_id].h = gs.fb_height
      /\ host.res[gs.fb_resource_id].backing # None
  BY FramebufferResource
<1>2. fl.w <= gs.fb_width /\ fl.h <= gs.fb_height
  BY NowIs
<1>3. ASSUME NEW c, c.id = gs.fb_resource_id, c.w = fl.w, c.h = fl.h
      PROVE  c.op \in {"transfer", "flush"} => Accepts(host, c)
  BY <1>1, <1>2, <1>3 DEF Accepts, Fits
<1> QED BY <1>3 DEF Command

\* Settling is kept.
LEMMA SettlingStep ==
    ASSUME Types, Owned, Named, Sound, Settling, Next
    PROVE  Settling'
<1>t. /\ gs \in States /\ rtg \in RFrames /\ fl \in FFrames /\ calls \in Nat
      /\ None \notin Nat
  BY Constants DEF Types
<1>s. Settling
  OBVIOUS
<1>1. ASSUME NEW m \in Modes, SetGCNoOp(m) PROVE Settling'
  BY <1>1, Disturbed DEF SetGCNoOp, Call
<1>2. ASSUME NEW m \in Modes, SetGC(m) PROVE Settling'
  BY <1>2, Disturbed DEF SetGC, Call
<1>3. ASSUME NEW sf \in Surfaces, SetPanning(sf) PROVE Settling'
  BY <1>3, Disturbed DEF SetPanning, Call
<1>4. ASSUME NEW level \in {0, 3}, SetDPMSLevel(level) PROVE Settling'
  BY <1>4, Disturbed DEF SetDPMSLevel, Call
<1>5. ASSUME CursorCreate PROVE Settling'
  BY <1>5, Disturbed DEF CursorCreate, Call
<1>6. ASSUME SetGCWidth PROVE Settling'
  BY <1>6, Disturbed DEF SetGCWidth
<1>7. ASSUME SetGCHeight PROVE Settling'
  BY <1>7, Disturbed DEF SetGCHeight
<1>8. ASSUME ResizeNothing PROVE Settling'
  BY <1>8, Disturbed DEF ResizeNothing
<1>9. ASSUME ResizeAlloc PROVE Settling'
  BY <1>9, Disturbed DEF ResizeAlloc
<1>10. ASSUME ResizeNoMemory PROVE Settling'
  BY <1>10, Disturbed DEF ResizeNoMemory
<1>11. ASSUME ResizeFreeNew PROVE Settling'
  BY <1>11, Disturbed DEF ResizeFreeNew
<1>12. ASSUME AssignMem PROVE Settling'
  BY <1>12, Disturbed DEF AssignMem, Assigning
<1>13. ASSUME AssignWidth PROVE Settling'
  BY <1>13, Disturbed DEF AssignWidth, Assigning
<1>14. ASSUME AssignHeight PROVE Settling'
  BY <1>14, Disturbed DEF AssignHeight, Assigning
<1>15. ASSUME AssignStride PROVE Settling'
  BY <1>15, Disturbed DEF AssignStride, Assigning
<1>16. ASSUME AssignResource PROVE Settling'
  BY <1>16, Disturbed DEF AssignResource, Assigning
<1>17. ASSUME AssignFb PROVE Settling'
  BY <1>17, Disturbed DEF AssignFb, Assigning
<1>18. ASSUME ResizeFreeOld PROVE Settling'
  BY <1>18, Disturbed DEF ResizeFreeOld
<1>19. ASSUME SetPanningFormat PROVE Settling'
  BY <1>19, Disturbed DEF SetPanningFormat
<1>20. ASSUME CursorDone PROVE Settling'
  BY <1>20, Disturbed DEF CursorDone
<1>21. ASSUME CursorFail PROVE Settling'
  BY <1>21, Disturbed DEF CursorFail
<1>22. ASSUME ResizeCreate PROVE Settling'
  BY <1>22, ResizeCreateSends, Disturbed DEF Sends
<1>23. ASSUME ResizeAttach PROVE Settling'
  BY <1>23, ResizeAttachSends, Disturbed DEF Sends
<1>24. ASSUME ResizeScanout PROVE Settling'
  BY <1>24, ResizeScanoutSends, Disturbed DEF Sends
<1>25. ASSUME ResizeUnrefNew PROVE Settling'
  BY <1>25, ResizeUnrefNewSends, Disturbed DEF Sends
<1>26. ASSUME ResizeUnrefOld PROVE Settling'
  BY <1>26, ResizeUnrefOldSends, Disturbed DEF Sends
<1>27. ASSUME SetDPMSLevelSend PROVE Settling'
  BY <1>27, SetDPMSLevelSendSends, Disturbed DEF Sends
<1>28. ASSUME CursorCreate2D PROVE Settling'
  BY <1>28, CursorCreate2DSends, Disturbed DEF Sends
<1>29. ASSUME CursorAttach PROVE Settling'
  BY <1>29, CursorAttachSends, Disturbed DEF Sends
<1>30. ASSUME FlushWidth PROVE Settling'
  <2>1. /\ gs' = gs /\ rtg' = rtg /\ calls' = calls /\ gs.dpms_level = 0
        /\ fl'.pc = "height" /\ fl'.w = NowWidth
        /\ fl'.at = IF rtg.pc = "idle" THEN calls ELSE -1
    BY <1>30, <1>t DEF FlushWidth, FFrames, NowWidth
  <2>2. fl'.at <= calls' /\ (Undisturbed' => rtg.pc = "idle")
    BY <1>t, <2>1 DEF Undisturbed
  <2>3. NowWidth' = NowWidth
    BY <2>1, Unmoved
  <2> QED BY <2>1, <2>2, <2>3 DEF Settling, Read, Seen, Clean, Carried
<1>31. ASSUME FlushHeight PROVE Settling'
  <2>1. /\ gs' = gs /\ rtg' = rtg /\ calls' = calls /\ fl'.at = fl.at
    BY <1>31, <1>t DEF FlushHeight, FFrames
  <2>2. SUFFICES ASSUME Undisturbed' PROVE Carried'
    BY <1>s, <1>t, <2>1 DEF Settling
  <2>3. Read /\ Seen
    BY <1>s, <2>1, <2>2 DEF Settling, Undisturbed, Carried
  <2>4. NowWidth' = NowWidth /\ NowHeight' = NowHeight /\ CurrentPicture' = CurrentPicture
    BY <2>1, Unmoved
  <2>5. fl.pc = "height" /\ fl'.pc = "obtain" /\ fl'.w = fl.w /\ fl'.h = NowHeight
    BY <1>31, <1>t DEF FlushHeight, FFrames, NowHeight
  <2> QED BY <2>1, <2>3, <2>4, <2>5 DEF Read, Seen, Clean, Carried
<1>32. ASSUME FlushObtain PROVE Settling'
  <2>1. /\ gs' = gs /\ rtg' = rtg /\ calls' = calls /\ fl'.at = fl.at
    BY <1>32, <1>t DEF FlushObtain, FFrames
  <2>2. SUFFICES ASSUME Undisturbed' PROVE Carried'
    BY <1>s, <1>t, <2>1 DEF Settling
  <2>3. Read /\ Seen
    BY <1>s, <2>1, <2>2 DEF Settling, Undisturbed, Carried
  <2>4. NowWidth' = NowWidth /\ NowHeight' = NowHeight /\ CurrentPicture' = CurrentPicture
    BY <2>1, Unmoved
  <2>5. /\ fl.pc = "obtain" /\ fl'.pc = "convert" /\ fl'.w = fl.w /\ fl'.h = fl.h
        /\ fl'.dst = gs.fb_mem
    BY <1>32, <1>t DEF FlushObtain, FFrames
  <2> QED BY <2>1, <2>3, <2>4, <2>5 DEF Read, Seen, Clean, Carried
<1>33. ASSUME ConvertStart PROVE Settling'
  <2>1. /\ gs' = gs /\ rtg' = rtg /\ calls' = calls /\ fl'.at = fl.at
    BY <1>33, <1>t DEF ConvertStart, FFrames
  <2>2. SUFFICES ASSUME Undisturbed' PROVE Carried'
    BY <1>s, <1>t, <2>1 DEF Settling
  <2>3. Read /\ Seen
    BY <1>s, <2>1, <2>2 DEF Settling, Undisturbed, Carried
  <2>4. NowWidth' = NowWidth /\ NowHeight' = NowHeight /\ CurrentPicture' = CurrentPicture
    BY <2>1, Unmoved
  <2>5. /\ fl.pc = "convert" /\ fl'.pc = "clamp" /\ fl'.w = fl.w /\ fl'.h = fl.h
        /\ fl'.dst = fl.dst /\ fl'.src = gs.panning_mem /\ fl'.fmt = gs.active_format
    BY <1>33, <1>t DEF ConvertStart, FFrames
  <2> QED BY <2>1, <2>3, <2>4, <2>5 DEF Read, Seen, Clean, Carried
<1>34. ASSUME ConvertClamp PROVE Settling'
  <2>1. /\ gs' = gs /\ rtg' = rtg /\ calls' = calls /\ fl'.at = fl.at
    BY <1>34, <1>t DEF ConvertClamp, FFrames
  <2>2. SUFFICES ASSUME Undisturbed' PROVE Carried'
    BY <1>s, <1>t, <2>1 DEF Settling
  <2>3. Read /\ Seen
    BY <1>s, <2>1, <2>2 DEF Settling, Undisturbed, Carried
  <2>4. NowWidth' = NowWidth /\ NowHeight' = NowHeight /\ CurrentPicture' = CurrentPicture
    BY <2>1, Unmoved
  <2>5. /\ fl.pc = "clamp" /\ fl'.pc = "rows" /\ fl'.w = fl.w /\ fl'.h = fl.h
        /\ fl'.dst = fl.dst /\ fl'.src = fl.src /\ fl'.fmt = fl.fmt
        /\ fl'.cw = Smaller(fl.w, NowWidth) /\ fl'.ch = Smaller(fl.h, NowHeight)
    BY <1>34, <1>t DEF ConvertClamp, FFrames, NowWidth, NowHeight
  <2>6. fl.w = NowWidth /\ fl.h = NowHeight
    BY <2>3, <2>5 DEF Read
  <2>7. fl'.cw = NowWidth /\ fl'.ch = NowHeight
    BY <2>5, <2>6, NowIs
  <2> QED BY <2>1, <2>3, <2>4, <2>5, <2>7 DEF Read, Seen, Clean, Carried
<1>35. ASSUME ConvertRows PROVE Settling'
  <2>1. /\ gs' = gs /\ rtg' = rtg /\ calls' = calls /\ fl'.at = fl.at
    BY <1>35, <1>t DEF ConvertRows, FFrames
  <2>2. SUFFICES ASSUME Undisturbed' PROVE Carried'
    BY <1>s, <1>t, <2>1 DEF Settling
  <2>3. Read /\ Seen
    BY <1>s, <2>1, <2>2 DEF Settling, Undisturbed, Carried
  <2>4. NowWidth' = NowWidth /\ NowHeight' = NowHeight /\ CurrentPicture' = CurrentPicture
    BY <2>1, Unmoved
  <2>5. /\ fl.pc = "rows" /\ fl'.pc = "transfer" /\ fl'.w = fl.w /\ fl'.h = fl.h
    BY <1>35, <1>t DEF ConvertRows, FFrames
  <2>6. /\ fl.dst = gs.fb_mem /\ gs.fb_mem \in DOMAIN mem
        /\ Pixels(fl.src, fl.fmt, fl.cw, fl.ch) = CurrentPicture
    <3>1. /\ fl.dst = gs.fb_mem /\ fl.src = gs.panning_mem /\ fl.fmt = gs.active_format
          /\ fl.cw = NowWidth /\ fl.ch = NowHeight
      BY <2>3, <2>5 DEF Read
    <3>2. gs.fb_mem \in DOMAIN mem
      BY <1>t DEF Owned, States
    <3> QED BY <3>1, <3>2, NowIs
  <2>7. mem'[gs.fb_mem] = [mem[gs.fb_mem] EXCEPT !.pixels = CurrentPicture]
    BY <1>35, <2>6 DEF ConvertRows
  <2>8. mem[gs.fb_mem] \in Bufs
    BY <2>6 DEF Types, MemoryType
  <2>9. mem'[gs.fb_mem].pixels = CurrentPicture
    BY <2>7, <2>8 DEF Bufs
  <2> QED BY <2>1, <2>3, <2>4, <2>5, <2>9 DEF Read, Seen, Clean, Carried
<1>36. ASSUME TransferSkipped PROVE Settling'
  <2>1. /\ gs' = gs /\ rtg' = rtg /\ calls' = calls /\ fl'.at = fl.at
    BY <1>36, <1>t DEF TransferSkipped, FFrames
  <2>2. SUFFICES ASSUME Undisturbed' PROVE Carried'
    BY <1>s, <1>t, <2>1 DEF Settling
  <2>3. Read /\ Seen
    BY <1>s, <2>1, <2>2 DEF Settling, Undisturbed, Carried
  <2>4. NowWidth' = NowWidth /\ NowHeight' = NowHeight /\ CurrentPicture' = CurrentPicture
    BY <2>1, Unmoved
  <2>5. /\ fl.pc = "transfer" /\ fl'.pc = "flush" /\ fl'.w = fl.w /\ fl'.h = fl.h
        /\ gs.fb_is_blob /\ mem' = mem /\ host' = host /\ late' = late
    BY <1>36, <1>t DEF TransferSkipped, FFrames
  <2>6. ASSUME Clean PROVE Picture(host.res[gs.fb_resource_id]) = CurrentPicture
    <3>1. /\ host.res[gs.fb_resource_id].blob = (gs.fb_is_blob /\ gs.fb_resource_id = 1)
          /\ Drawn(host.res[gs.fb_resource_id]) = mem[gs.fb_mem].pixels
      BY <2>3, <2>6, FramebufferResource DEF Read, Clean
    <3>2. host.res[gs.fb_resource_id].blob
      BY <2>5, <2>6, <3>1 DEF Clean
    <3>3. mem[gs.fb_mem].pixels = CurrentPicture
      BY <2>3, <2>5 DEF Read
    <3> QED BY <3>1, <3>2, <3>3 DEF Picture
  <2>7. Picture(host.res[gs.fb_resource_id])' = Picture(host.res[gs.fb_resource_id])
    BY <2>1, <2>5 DEF Picture, Drawn
  <2> QED BY <2>1, <2>3, <2>4, <2>5, <2>6, <2>7 DEF Read, Seen, Clean, Carried
<1>37. ASSUME TransferToHost2D PROVE Settling'
  <2>1. /\ gs' = gs /\ rtg' = rtg /\ calls' = calls /\ fl'.at = fl.at
    BY <1>37, TransferToHost2DSends, <1>t DEF FlushSends, FFrames
  <2>2. SUFFICES ASSUME Undisturbed' PROVE Carried'
    BY <1>s, <1>t, <2>1 DEF Settling
  <2>3. Read /\ Seen
    BY <1>s, <2>1, <2>2 DEF Settling, Undisturbed, Carried
  <2>4. NowWidth' = NowWidth /\ NowHeight' = NowHeight /\ CurrentPicture' = CurrentPicture
    BY <2>1, Unmoved
  <2>5. /\ ~gs.fb_is_blob
        /\ FlushSends("transfer", Command("transfer", gs.fb_resource_id, fl.w, fl.h),
                      "flush", "release")
    BY <1>37, TransferToHost2DSends DEF TransferToHost2D
  <2>6. /\ fl.pc = "transfer" /\ fl'.pc \in {"flush", "release"} /\ mem' = mem
        /\ fl'.w = fl.w /\ fl'.h = fl.h /\ (late.ever => late'.ever)
    BY <1>t, <2>5 DEF FlushSends, FFrames
  <2>7. Read'
    BY <2>1, <2>3, <2>4, <2>6 DEF Read
  <2>8. ASSUME Clean' PROVE fl'.pc = "flush" /\ Picture(host.res[gs.fb_resource_id])' = CurrentPicture
    <3>1. ~late.ever /\ ~late'.ever /\ fl.w = NowWidth /\ fl.h = NowHeight /\ rtg.pc = "idle"
      BY <2>3, <2>6, <2>8 DEF Clean, Read
    <3>2. Accepts(host, Command("transfer", gs.fb_resource_id, fl.w, fl.h))
      BY <3>1, FlushAccepted
    <3>3. /\ host' = Execute(host, Command("transfer", gs.fb_resource_id, fl.w, fl.h))
          /\ fl'.pc = "flush"
      <4>1. Command("transfer", gs.fb_resource_id, fl.w, fl.h).op \notin Refusable
        BY DEF Command, Refusable
      <4> QED BY <1>t, <2>5, <3>1, <3>2, <4>1 DEF FlushSends, FFrames
    <3>4. /\ host'.res[gs.fb_resource_id].pixels = Drawn(host.res[gs.fb_resource_id])
          /\ host'.res[gs.fb_resource_id].blob = host.res[gs.fb_resource_id].blob
      BY <3>2, <3>3, Transfers
    <3>5. /\ host.res[gs.fb_resource_id].blob = (gs.fb_is_blob /\ gs.fb_resource_id = 1)
          /\ Drawn(host.res[gs.fb_resource_id]) = mem[gs.fb_mem].pixels
      BY <3>1, FramebufferResource
    <3>6. mem[gs.fb_mem].pixels = CurrentPicture
      BY <2>3, <2>6 DEF Read
    <3>7. ~host'.res[gs.fb_resource_id].blob
      BY <2>5, <3>4, <3>5
    <3> QED BY <2>1, <3>3, <3>4, <3>5, <3>6, <3>7 DEF Picture
  <2> QED BY <2>4, <2>7, <2>8 DEF Seen, Carried
<1>38. ASSUME ResourceFlush PROVE Settling'
  <2>1. /\ gs' = gs /\ rtg' = rtg /\ calls' = calls /\ fl'.at = fl.at
    BY <1>38, ResourceFlushSends, <1>t DEF FlushSends, FFrames
  <2>2. SUFFICES ASSUME Undisturbed' PROVE Carried'
    BY <1>s, <1>t, <2>1 DEF Settling
  <2>3. Read /\ Seen
    BY <1>s, <2>1, <2>2 DEF Settling, Undisturbed, Carried
  <2>4. NowWidth' = NowWidth /\ NowHeight' = NowHeight /\ CurrentPicture' = CurrentPicture
    BY <2>1, Unmoved
  <2>5. FlushSends("flush", Command("flush", gs.fb_resource_id, fl.w, fl.h),
                    "release", "release")
    BY <1>38, ResourceFlushSends
  <2>6. /\ fl.pc = "flush" /\ fl'.pc = "release" /\ mem' = mem
        /\ fl'.w = fl.w /\ fl'.h = fl.h /\ (late.ever => late'.ever)
    BY <1>t, <2>5 DEF FlushSends, FFrames
  <2>7. Read'
    BY <2>1, <2>3, <2>4, <2>6 DEF Read
  <2>8. ASSUME Clean' PROVE host'.shown = CurrentPicture
    <3>1. /\ ~late.ever /\ ~late'.ever /\ fl.w = NowWidth /\ fl.h = NowHeight
          /\ rtg.pc = "idle" /\ gs.dpms_level = 0 /\ Clean /\ "dpms" \notin rtg.failed
      BY <2>1, <2>3, <2>6, <2>8 DEF Clean, Read
    <3>2. Accepts(host, Command("flush", gs.fb_resource_id, fl.w, fl.h))
      BY <3>1, FlushAccepted
    <3>3. host' = Execute(host, Command("flush", gs.fb_resource_id, fl.w, fl.h))
      <4>1. Command("flush", gs.fb_resource_id, fl.w, fl.h).op \notin Refusable
        BY DEF Command, Refusable
      <4> QED BY <1>t, <2>5, <3>1, <3>2, <4>1 DEF FlushSends, FFrames
    <3>4. host.scanout = gs.fb_resource_id
      BY <3>1, FramebufferResource
    <3>5. host'.shown = Picture(host.res[gs.fb_resource_id])
      BY <3>2, <3>3, <3>4, Flushes
    <3> QED BY <2>3, <2>6, <3>1, <3>5 DEF Seen
  <2> QED BY <2>4, <2>6, <2>7, <2>8 DEF Seen, Carried
<1>39. ASSUME FlushRelease PROVE Settling'
  <2>1. /\ gs' = gs /\ rtg' = rtg /\ calls' = calls /\ fl'.at = fl.at
    BY <1>39, <1>t DEF FlushRelease, FFrames
  <2>2. SUFFICES ASSUME Undisturbed' PROVE Carried'
    BY <1>s, <1>t, <2>1 DEF Settling
  <2>3. Read /\ Seen
    BY <1>s, <2>1, <2>2 DEF Settling, Undisturbed, Carried
  <2>4. NowWidth' = NowWidth /\ NowHeight' = NowHeight /\ CurrentPicture' = CurrentPicture
    BY <2>1, Unmoved
  <2>5. /\ fl.pc = "release" /\ fl'.pc = "idle" /\ mem' = mem /\ host' = host /\ late' = late
    BY <1>39, <1>t DEF FlushRelease, FFrames
  <2> QED BY <2>1, <2>3, <2>4, <2>5 DEF Read, Seen, Clean, Carried
<1>40. ASSUME DevLate PROVE Settling'
  <2>1. gs' = gs /\ rtg' = rtg /\ calls' = calls /\ fl' = fl /\ mem' = mem
    BY <1>40 DEF DevLate
  <2>2. late'.ever
    BY <1>40, Later
  <2>3. NowWidth' = NowWidth /\ NowHeight' = NowHeight /\ CurrentPicture' = CurrentPicture
    BY <2>1, Unmoved
  <2> QED BY <1>s, <2>1, <2>2, <2>3
              DEF Settling, Undisturbed, Read, Seen, Clean, Carried
<1>41. ASSUME ModeCall PROVE Settling'
  BY <1>41, <1>1, <1>2, <1>3, <1>4, <1>5
     DEF ModeCall
<1>42. ASSUME ModeLocal PROVE Settling'
  BY AssignCases, <1>42, <1>6, <1>7, <1>8, <1>9, <1>10, <1>11, <1>12, <1>13,
     <1>14, <1>15, <1>16, <1>17, <1>18, <1>19, <1>20, <1>21
     DEF ModeLocal
<1>43. ASSUME ModeCommand PROVE Settling'
  BY <1>43, <1>22, <1>23, <1>24, <1>25, <1>26, <1>27, <1>28, <1>29
     DEF ModeCommand
<1>44. ASSUME Flush PROVE Settling'
  BY <1>44, <1>30, <1>31, <1>32, <1>33, <1>34, <1>35, <1>36, <1>37, <1>38,
     <1>39
     DEF Flush
<1> QED BY <1>41, <1>42, <1>43, <1>44, <1>40 DEF Next

-----------------------------------------------------------------------------
(* The inductive invariant.                                                *)

\* A command that was given up on is never forgotten.
LEMMA EverStays ==
    ASSUME Types, Owned, Next, late.ever
    PROVE  late'.ever
<1>1. ASSUME ResizeCreate PROVE late'.ever
  BY <1>1, ResizeCreateSends DEF Sends
<1>2. ASSUME ResizeAttach PROVE late'.ever
  BY <1>2, ResizeAttachSends DEF Sends
<1>3. ASSUME ResizeScanout PROVE late'.ever
  BY <1>3, ResizeScanoutSends DEF Sends
<1>4. ASSUME ResizeUnrefNew PROVE late'.ever
  BY <1>4, ResizeUnrefNewSends DEF Sends
<1>5. ASSUME ResizeUnrefOld PROVE late'.ever
  BY <1>5, ResizeUnrefOldSends DEF Sends
<1>6. ASSUME SetDPMSLevelSend PROVE late'.ever
  BY <1>6, SetDPMSLevelSendSends DEF Sends
<1>7. ASSUME CursorCreate2D PROVE late'.ever
  BY <1>7, CursorCreate2DSends DEF Sends
<1>8. ASSUME CursorAttach PROVE late'.ever
  BY <1>8, CursorAttachSends DEF Sends
<1>9. ASSUME TransferToHost2D PROVE late'.ever
  BY <1>9, TransferToHost2DSends DEF FlushSends
<1>10. ASSUME ResourceFlush PROVE late'.ever
  BY <1>10, ResourceFlushSends DEF FlushSends
<1>11. ASSUME DevLate PROVE late'.ever
  BY <1>11, Later
<1>12. ASSUME UNCHANGED late PROVE late'.ever
  BY <1>12
<1>13. ASSUME ModeCall PROVE late'.ever
  BY <1>13, <1>12
     DEF ModeCall, SetGCNoOp, Call, SetGC, SetPanning, SetDPMSLevel, RGoto,
         CursorCreate
<1>14. ASSUME ModeLocal PROVE late'.ever
  BY <1>14, <1>12
     DEF ModeLocal, SetGCWidth, RGoto, SetGCHeight, ResizeNothing, Return,
         ResizeAlloc, ResizeNoMemory, ResizeFreeNew, ResizeAssign,
         ResizeFreeOld, SetPanningFormat, CursorDone, CursorFail
<1>15. ASSUME ModeCommand PROVE late'.ever
  BY <1>15, <1>1, <1>2, <1>3, <1>4, <1>5, <1>6, <1>7, <1>8
     DEF ModeCommand
<1>16. ASSUME Flush PROVE late'.ever
  BY <1>16, <1>9, <1>10, <1>12
     DEF Flush, FlushWidth, FlushHeight, FlushObtain, ConvertStart,
         ConvertClamp, ConvertRows, TransferSkipped, FlushRelease
<1> QED BY <1>13, <1>14, <1>15, <1>16, <1>11 DEF Next

LEMMA SoundStep ==
    ASSUME Types, Owned, Fresh, Named, Sound, Next
    PROVE  Sound'
<1>1. SUFFICES ASSUME ~late'.ever PROVE Backed' /\ Sized' /\ Scanning'
  BY DEF Sound
<1>2. ~late.ever
  BY <1>1, EverStays
<1>3. Backed /\ Sized /\ Scanning
  BY <1>2 DEF Sound
<1> QED BY <1>1, <1>3, BackedStep, SizedStep, ScanningStep

\* The state chip_InitCard_C leaves satisfies the invariant.
LEMMA InitInv == Init => IInv
<1> SUFFICES ASSUME Init PROVE IInv
  OBVIOUS
<1>0. PICK blob \in {FALSE, HasBlob} :
         /\ gs = [active_width |-> InitMode.w, active_height |-> InitMode.h,
                  active_format |-> InitMode.fmt, panning_mem |-> "board_mem",
                  fb_mem |-> 0, fb_width |-> InitMode.w, fb_height |-> InitMode.h,
                  fb_stride |-> InitMode.w, resource_id |-> 1, fb_resource_id |-> 1,
                  fb_is_blob |-> blob, dpms_level |-> 0,
                  next_resource_id |-> IF HasVirgl THEN 3 ELSE 0,
                  cursor_resource_id |-> 0, cursor_mem |-> None, cursor_created |-> FALSE]
         /\ mem = [b \in {0} |-> Buffer(InitMode.w, InitMode.h)]
         /\ host = [res |-> [i \in {1} |-> [w |-> InitMode.w, h |-> InitMode.h,
                                            blob |-> blob, backing |-> 0,
                                            pixels |-> Blank]],
                    scanout |-> 1, shown |-> Blank]
  BY DEF Init
<1>1. /\ InitMode \in Modes /\ InitMode.w \in Nat /\ InitMode.h \in Nat
      /\ InitMode.fmt \in Formats /\ blob \in BOOLEAN /\ None \notin Nat /\ MaxCalls \in Nat
  BY DisplayAssumption, ModeSizes
<1>2. Blank \in Pictures /\ Buffer(InitMode.w, InitMode.h) \in Bufs
  <2>1. InitMode.w * InitMode.h \in Nat
    BY <1>1
  <2> QED BY <2>1 DEF Buffer, Bufs, Pictures
<1>3. /\ late = [queue |-> <<>>, ever |-> FALSE]
      /\ io_lock = None
      /\ rtg = [pc |-> "idle", mode |-> InitMode, surface |-> None, dims_changed |-> FALSE,
                id |-> 0, buf |-> 0, attempt |-> 0, field |-> 1, old_mem |-> 0,
                old_res |-> 0, failed |-> {}]
      /\ fl = [pc |-> "idle", w |-> 0, h |-> 0, dst |-> 0, src |-> None, fmt |-> None,
               stride |-> 0, cw |-> 0, ch |-> 0, at |-> -1]
      /\ calls = 0
  BY DEF Init
<1>4. gs \in States
  BY <1>0, <1>1 DEF States, Drawables
<1>5. MemoryType
  BY <1>0, <1>2 DEF MemoryType
<1>6. DeviceType(host)
  BY <1>0, <1>1, <1>2 DEF DeviceType, Resources
<1>7. late \in [queue : Seq(Commands), ever : BOOLEAN] /\ late.queue = <<>> /\ ~late.ever
  <2>1. <<>> \in Seq(Commands)
    BY EmptySeq
  <2> QED BY <1>3, <2>1
<1>8. rtg \in RFrames /\ fl \in FFrames
  BY <1>1, <1>3 DEF RFrames, FFrames, RPcs, FPcs
<1>9. Types
  BY <1>1, <1>3, <1>4, <1>5, <1>6, <1>7, <1>8 DEF Types
<1>10. Locked /\ Target
  BY <1>1, <1>3, Constants DEF Locked, Target, Holding
<1>11. Owned
  <2>1. /\ gs.fb_mem = 0 /\ gs.cursor_mem = None /\ ~gs.cursor_created /\ DOMAIN mem = {0}
        /\ rtg.pc = "idle" /\ rtg.field = 1 /\ calls = 0
    BY <1>0, <1>3
  <2> QED BY <1>1, <2>1
              DEF Owned, Between, Half, Building, Replacing, Starting,
                  Cursoring
<1>12. Fresh /\ Named
  <2>1. /\ gs.fb_resource_id = 1 /\ gs.resource_id = 1 /\ gs.cursor_resource_id = 0
        /\ gs.next_resource_id \in {0, 3} /\ ~gs.cursor_created
        /\ DOMAIN host.res = {1} /\ rtg.pc = "idle" /\ calls = 0
    BY <1>0, <1>3
  <2>2. 1 .. Len(late.queue) = {}
    BY <1>7, EmptySeq
  <2>3. Numbers /\ Names
    BY <2>1 DEF Numbers, Names, Half, Building, Replacing, Starting, Cursoring
  <2>4. Created /\ Present
    BY <2>1, <2>2 DEF Created, Present, Wanted
  <2> QED BY <2>3, <2>4 DEF Fresh, Named
<1>13. Sound
  <2>1. /\ gs.fb_resource_id = 1 /\ gs.fb_mem = 0 /\ gs.cursor_resource_id = 0
        /\ gs.fb_width = InitMode.w /\ gs.fb_height = InitMode.h /\ gs.fb_is_blob = blob
        /\ DOMAIN host.res = {1} /\ host.res[1].backing = 0 /\ host.res[1].blob = blob
        /\ host.res[1].w = InitMode.w /\ host.res[1].h = InitMode.h /\ host.scanout = 1
        /\ rtg.pc = "idle"
    BY <1>0, <1>3
  <2>2. Backed
    BY <2>1 DEF Backed, Held, Half, Made, CursorId
  <2>3. Sized
    BY <1>1, <2>1 DEF Sized, Half
  <2>4. Scanning
    BY <2>1 DEF Scanning
  <2> QED BY <2>2, <2>3, <2>4 DEF Sound
<1>14. Applied
  <2>1. /\ gs.fb_width = InitMode.w /\ gs.fb_height = InitMode.h
        /\ gs.active_width = InitMode.w /\ gs.active_height = InitMode.h
        /\ rtg.pc = "idle" /\ rtg.mode = InitMode
    BY <1>0, <1>3
  <2> QED BY <2>1 DEF Applied, Building
<1>15. Settling
  BY <1>3 DEF Settling, Undisturbed
<1> QED BY <1>9, <1>10, <1>11, <1>12, <1>13, <1>14, <1>15 DEF IInv

\* A step that changes nothing.
LEMMA StutterInv ==
    ASSUME IInv, UNCHANGED vars
    PROVE  IInv'
<1>1. Types'
  BY DEF vars, IInv, Types, MemoryType, DeviceType
<1>2. Locked' /\ Owned' /\ Target'
  BY DEF vars, IInv, Locked, Owned, Target, Half, Between
<1>3. Fresh' /\ Named'
  BY DEF vars, IInv, Fresh, Numbers, Created, Named, Names, Present, Half
<1>4. Sound'
  BY DEF vars, IInv, Sound, Backed, Sized, Scanning, Held, Half
<1>5. Applied'
  BY DEF vars, IInv, Applied
<1>6. Settling'
  <2>1. NowWidth' = NowWidth /\ NowHeight' = NowHeight /\ CurrentPicture' = CurrentPicture
    BY Unmoved DEF vars
  <2>2. Picture(host.res[gs.fb_resource_id])' = Picture(host.res[gs.fb_resource_id])
    BY DEF vars, Picture, Drawn
  <2> QED BY <2>1, <2>2
              DEF vars, IInv, Settling, Undisturbed, Carried, Read, Seen, Clean
<1> QED BY <1>1, <1>2, <1>3, <1>4, <1>5, <1>6 DEF IInv

LEMMA NextInv == IInv /\ [Next]_vars => IInv'
<1>1. ASSUME IInv, Next PROVE IInv'
  BY <1>1, TypesStep, LockKept, OwnedStep, TargetStep, NumbersStep,
     CreatedStep, NamesStep,
     PresentStep, SoundStep, AppliedStep, SettlingStep DEF IInv, Fresh, Named
<1> QED BY <1>1, StutterInv

LEMMA Invariance == Spec => []IInv
BY InitInv, NextInv, PTL DEF Spec
-----------------------------------------------------------------------------
(* The properties.                                                         *)

LEMMA InvTypeOK ==
    ASSUME IInv
    PROVE  TypeOK
<1>1. Types /\ Locked /\ Owned /\ Numbers /\ Created
  BY DEF IInv, Fresh
<1>2. /\ calls \in Nat /\ calls <= MaxCalls /\ MaxCalls \in Nat /\ None \notin Nat
      /\ gs \in States /\ MemoryType /\ DeviceType(host) /\ rtg \in RFrames
      /\ io_lock \in {None, "flush"} /\ None # "flush"
  BY <1>1, Constants DEF Types
<1>3. /\ gs.fb_mem \in DOMAIN mem /\ gs.cursor_mem \in DOMAIN mem \cup {None}
      /\ gs.cursor_mem # 0
      /\ \A b \in DOMAIN mem : b \in Nat /\ b <= MaxCalls
  <2>1. \A b \in DOMAIN mem : b \in Nat /\ b <= calls
    BY <1>1, <1>2 DEF Owned, MemoryType
  <2>2. /\ gs.fb_mem \in DOMAIN mem /\ gs.cursor_mem \in DOMAIN mem \cup {None}
        /\ gs.cursor_mem # 0
    BY <1>1, <1>2 DEF Owned, States
  <2> QED BY <1>2, <2>1, <2>2
<1>4. /\ gs.next_resource_id \in 0 .. MaxCalls + 3
      /\ \A i \in {gs.fb_resource_id, gs.resource_id} : 0 < i /\ i <= MaxCalls + 3
  BY <1>1, <1>2 DEF Numbers, States
<1>5. DOMAIN host.res \subseteq 1 .. MaxCalls + 3
  <2>1. ASSUME NEW i \in DOMAIN host.res PROVE i \in 1 .. MaxCalls + 3
    <3>1. i \in Nat \ {0}
      BY <1>2 DEF DeviceType
    <3>2. i < gs.next_resource_id \/ i \in {gs.fb_resource_id, 2}
      BY <1>1 DEF Created, CursorId
    <3> QED BY <1>2, <1>4, <3>1, <3>2
  <2> QED BY <2>1
<1>6. Len(Assignments) = 6
  BY DEF Assignments
<1>7. rtg.attempt \in 0 .. 2 /\ rtg.field \in 1 .. Len(Assignments) /\ gs.dpms_level \in {0, 3}
  BY <1>2, <1>6 DEF RFrames, States
<1>8. host.scanout \in {0} \cup DOMAIN host.res
  BY <1>2 DEF DeviceType
<1>9. (io_lock = "flush") <=>
        (fl.pc \in {"convert", "clamp", "rows", "transfer", "flush", "release"})
  BY <1>1 DEF Locked, Holding
<1> QED BY <1>3, <1>4, <1>5, <1>7, <1>8, <1>9 DEF TypeOK

LEMMA InvNothingDangling ==
    ASSUME IInv
    PROVE  NothingDangling
<1>1. Types /\ Owned /\ Target /\ Names /\ Present /\ Sound
  BY DEF IInv, Named
<1>2. gs \in States /\ None \notin Nat
  BY <1>1, Constants DEF Types
<1>3. gs.fb_mem \in DOMAIN mem /\ (gs.cursor_mem # None => gs.cursor_mem \in DOMAIN mem)
      /\ Between \subseteq DOMAIN mem
  BY <1>1, <1>2 DEF Owned, States
<1>4. ConvertTargetAlive
  <2>1. (Half \/ rtg.pc = "unref_old") => rtg.old_mem \in DOMAIN mem
    BY <1>3 DEF Between, Half, Building, Replacing
  <2> QED BY <1>1, <1>3, <2>1 DEF ConvertTargetAlive, Target
<1>5. CommandsNameResources
  BY <1>1 DEF CommandsNameResources, Present
<1>6. BackingAlive
  <2> SUFFICES ASSUME ~late.ever, NEW i \in DOMAIN host.res
               PROVE  host.res[i].backing \in DOMAIN mem \cup {None}
    BY DEF BackingAlive
  <2>1. Backed /\ i \in Held
    BY <1>1 DEF Sound, Backed
  <2>2. i # 0
    BY <1>1 DEF Types, DeviceType
  <2>3. CASE i = gs.fb_resource_id
    <3>1. Half => rtg.old_mem \in DOMAIN mem
      BY <1>3 DEF Between, Half, Building
    <3> QED BY <1>3, <2>1, <2>3, <3>1 DEF Backed
  <2>4. CASE rtg.pc \in Made \cup {"assign"} /\ i = rtg.id
    <3>1. rtg.pc \in Made => rtg.buf \in DOMAIN mem
      BY <1>3 DEF Between, Half, Building, Made
    <3>2. rtg.pc = "assign" => rtg.buf \in DOMAIN mem
      BY <1>1, <1>3 DEF Between, Half, Owned
    <3> QED BY <2>1, <2>4, <3>1, <3>2 DEF Backed, Made
  <2>5. CASE rtg.pc = "unref_old" /\ i = rtg.old_res
    <3>1. rtg.old_mem \in DOMAIN mem
      BY <1>3, <2>5 DEF Between, Half, Building, Replacing
    <3> QED BY <2>1, <2>5, <3>1 DEF Backed
  <2>6. CASE /\ i = gs.cursor_resource_id /\ i # gs.fb_resource_id
             /\ rtg.pc = "unref_old" => i # rtg.old_res
    <3>1. i = CursorId
      BY <1>2, <2>2, <2>6 DEF States
    <3>2. gs.cursor_created \/ rtg.pc = "cursor_done" => gs.cursor_mem \in DOMAIN mem
      BY <1>1, <1>3 DEF Owned, Cursoring
    <3> QED BY <2>1, <2>6, <3>1, <3>2 DEF Backed
  <2> QED BY <2>1, <2>3, <2>4, <2>5, <2>6 DEF Held
<1> QED BY <1>4, <1>5, <1>6, InvTypeOK DEF NothingDangling

\* NothingDangling: at every step of a resize that a flush interleaves with,
\* the buffer a conversion writes into is allocated, the resources the commands
\* name are there, and no resource is backed by memory given back to exec.
THEOREM DisplayNothingDangling == Spec => []NothingDangling
<1>1. IInv => NothingDangling
  BY InvNothingDangling
<1> QED BY <1>1, Invariance, PTL

\* NothingLeaked: between callbacks, whatever failed, the driver owns exactly
\* the framebuffer and the cursor image, and the device at most their two
\* resources (chip_resize_fb_to_mode's ladder of failures).
THEOREM DisplayNothingLeaked == Spec => []NothingLeaked
<1>1. IInv => NothingLeaked
  BY DEF IInv, NothingLeaked, Owned, Between, Half, Building, Replacing, Sound,
         Backed,
         Held, Made
<1> QED BY <1>1, Invariance, PTL

\* ModeKept: when a SetGC returns, the mode that was asked for is set, or one
\* is displayed still.
THEOREM DisplayModeKept == Spec => []ModeKept
<1>1. ASSUME IInv PROVE KeepsDisplaying
  BY <1>1 DEF IInv, KeepsDisplaying, Sound, Scanning
<1>2. ASSUME IInv PROVE ModeApplied
  BY <1>2 DEF IInv, ModeApplied, Applied
<1>3. IInv => ModeKept
  BY <1>1, <1>2 DEF ModeKept
<1> QED BY <1>3, Invariance, PTL

\* PictureSettles: one flush that began after the last callback returned is
\* enough for the screen to show the panned surface.
THEOREM DisplayPictureSettles == Spec => []PictureSettles
<1>1. IInv => PictureSettles
  BY DEF IInv, PictureSettles, Settling, Undisturbed, Carried, Read, Seen,
         Clean
<1> QED BY <1>1, Invariance, PTL
=============================================================================
