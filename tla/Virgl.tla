------------------------------- MODULE Virgl -------------------------------
(***************************************************************************)
(* The virgl 2D context and the CompositeTagList hook that draws with it.  *)
(* The flush task runs chip_virgl_init_2d, chip_flush_all and, once a      *)
(* command stream was refused, chip_virgl_recover_2d; any task may call    *)
(* the hook; the task of rtg.library may resize the framebuffer.  Single   *)
(* commands are serialised by io_lock; the hook holds it for a whole       *)
(* composite, recovery and resize do not.                                  *)
(*                                                                         *)
(* chip_init.c keeps the context switched off in this version: the module  *)
(* is about the code from a call of chip_virgl_init_2d on.  The debug      *)
(* overlay (virgl_test_quad) and double buffering are off, as there.  A    *)
(* command is one step (QueueIO has its wait).  A resource is its number,  *)
(* a command stream only whether the device accepts it.                    *)
(***************************************************************************)
EXTENDS Integers, FiniteSets

CONSTANTS
    Strips,     \* INLINE_WRITEs a source bitmap takes
    Operators,  \* blend objects chip_comp_init_blends creates
    MaxFail,    \* bound: commands the device refuses
    MaxCalls,   \* bound: composites
    MaxResizes, \* bound: framebuffer changes
    None

ASSUME VirglAssumption ==
    /\ {Strips, Operators} \subseteq Nat \ {0}
    /\ {MaxFail, MaxCalls, MaxResizes} \subseteq Nat
    /\ None \notin {"fl", "comp", "rtg"}

VARIABLES
    gs,         \* the fields of ChipGPUState the tasks share; 0 is no resource
    host,       \* the device: contexts, those in error, resources, which
                \* resource is attached to which context, the scanout
    io_lock,    \* its owner; ASOMUTEX_Recursive
    fl, comp, rtg,  \* control and locals of the three tasks
    fails,      \* commands refused so far
    stray       \* history: a stream was submitted to a context that is gone

vars == <<gs, host, io_lock, fl, comp, rtg, fails, stray>>

CursorRes == 2
-----------------------------------------------------------------------------
(* Commands.  A task may enter io_lock again while it owns it.             *)

MayEnter(t) == io_lock \in {None, t}

Done(t, h) == MayEnter(t) /\ host' = h /\ UNCHANGED <<fails, stray>>

Refused(t) ==
    /\ MayEnter(t)
    /\ fails < MaxFail
    /\ fails' = fails + 1
    /\ UNCHANGED <<host, stray>>

Without(h, r) ==
    [h EXCEPT !.res = @ \ {r},
              !.attached = {a \in @ : a[2] # r},
              !.scanout = IF @ = r THEN 0 ELSE @]

Attached(h, c, r) == [h EXCEPT !.attached = @ \cup {<<c, r>>}]

chip_ResourceCreate3D(t, r) ==
    r \notin host.res /\ Done(t, [host EXCEPT !.res = @ \cup {r}])

CreateRefused(t, r) ==
    \/ Refused(t)
    \/ r \in host.res /\ Done(t, host)

chip_CTXCreate(t, c) == Done(t, [host EXCEPT !.ctxs = @ \cup {c}])

chip_CTXDestroy(t, c) ==
    Done(t, [host EXCEPT !.ctxs = @ \ {c},
                         !.bad = @ \ {c},
                         !.attached = {a \in @ : a[1] # c}])

chip_CTXAttachResource(t, c, r) == Done(t, Attached(host, c, r))

chip_SetScanout(t, r) == Done(t, [host EXCEPT !.scanout = r])

\* SUBMIT_3D as the device carries it out: one refused stream puts the
\* context in error for good.
chip_Submit3D(c, ok) ==
    IF c \notin host.ctxs
      THEN ~ok /\ stray' = TRUE /\ UNCHANGED <<host, fails>>
      ELSE /\ stray' = stray
           /\ \/ ok /\ c \notin host.bad /\ UNCHANGED <<host, fails>>
              \/ ~ok /\ c \in host.bad /\ UNCHANGED <<host, fails>>
              \/ /\ ~ok
                 /\ c \notin host.bad
                 /\ fails < MaxFail
                 /\ fails' = fails + 1
                 /\ host' = [host EXCEPT !.bad = @ \cup {c}]

\* virgl_submit: nothing is sent while the context is known to be poisoned.
virgl_submit(t, c, ok) ==
    \/ ~ok /\ gs.ctx_error /\ UNCHANGED <<host, fails, stray>>
    \/ ~gs.ctx_error /\ MayEnter(t) /\ chip_Submit3D(c, ok)

\* What a submit leaves in gs when nothing else is assigned.
Poison(ok) == gs' = IF ok THEN gs ELSE [gs EXCEPT !.ctx_error = TRUE]

chip_alloc_resource_id(g) ==
    LET reserved == {g.fb_resource_id, CursorRes} IN
    CHOOSE i \in g.next_res .. g.next_res + 2 :
        /\ i \notin reserved
        /\ \A j \in g.next_res .. i - 1 : j \in reserved
-----------------------------------------------------------------------------
(* chip_virgl_init_2d, run by the flush task.                              *)

FlGoto(l) == fl' = [fl EXCEPT !.pc = l]

FlAt(l) == fl.pc = l /\ UNCHANGED <<io_lock, comp, rtg>>

\* return FALSE or TRUE; every refusal after CTX_CREATE destroys the context.
Return == fl' = [fl EXCEPT !.pc = "cycle", !.res = 0]

InitCTXCreate ==
    /\ FlAt("ctx")
    /\ gs' = [gs EXCEPT !.ready = FALSE, !.ctx = gs.next_ctx, !.next_ctx = @ + 1]
    /\ \/ chip_CTXCreate("fl", gs.next_ctx) /\ FlGoto("sub_ctx")
       \/ Refused("fl") /\ Return

InitSubCtx ==
    /\ FlAt("sub_ctx")
    /\ \E ok \in BOOLEAN :
         /\ virgl_submit("fl", gs.ctx, ok)
         /\ Poison(ok)
         /\ FlGoto(IF ok THEN "create" ELSE "destroy")

InitCreate3D ==
    LET id == chip_alloc_resource_id(gs) IN
    /\ FlAt("create")
    /\ gs' = [gs EXCEPT !.next_res = id + 1]
    /\ \/ /\ chip_ResourceCreate3D("fl", id)
          /\ fl' = [fl EXCEPT !.pc = "attach", !.res = id]
       \/ CreateRefused("fl", id) /\ FlGoto("destroy")

InitAttachBacking ==
    /\ FlAt("attach")
    /\ gs' = gs
    /\ \/ Done("fl", host) /\ FlGoto("scanout")
       \/ Refused("fl") /\ FlGoto("destroy")

InitSetScanout ==
    /\ FlAt("scanout")
    /\ gs' = gs
    /\ \/ chip_SetScanout("fl", fl.res) /\ FlGoto("publish")
       \/ Refused("fl") /\ FlGoto("destroy")

\* The new resource replaces the framebuffer's and joins the context.
InitPublish ==
    /\ FlAt("publish")
    /\ gs' = [gs EXCEPT !.resource = fl.res, !.resource_id = fl.res]
    /\ chip_CTXAttachResource("fl", gs.ctx, fl.res)
    /\ FlGoto("pipeline")

InitPipeline ==
    /\ FlAt("pipeline")
    /\ \E ok \in BOOLEAN :
         /\ virgl_submit("fl", gs.ctx, ok)
         /\ Poison(ok)
         /\ fl' = [fl EXCEPT !.pc = IF ok THEN "shaders" ELSE "destroy", !.n = 1]

\* The vertex shader and the two fragment shaders, a stream each; after one
\* is refused the samplers, the vertex elements and the buffer are left out.
InitShaders ==
    /\ FlAt("shaders")
    /\ \E ok \in BOOLEAN :
         /\ virgl_submit("fl", gs.ctx, ok)
         /\ gs' = [gs EXCEPT !.shaders = ok, !.ctx_error = @ \/ ~ok]
         /\ fl' = [fl EXCEPT !.pc = CASE ~ok           -> "surface"
                                      [] ok /\ fl.n < 3 -> "shaders"
                                      [] OTHER          -> "samplers",
                             !.n = IF ok /\ fl.n < 3 THEN fl.n + 1 ELSE 0]

InitSamplers ==
    /\ FlAt("samplers")
    /\ \E ok \in BOOLEAN :
         /\ virgl_submit("fl", gs.ctx, ok)
         /\ Poison(ok)
         /\ FlGoto("elements")

InitVertexElements ==
    /\ FlAt("elements")
    /\ \E ok \in BOOLEAN :
         /\ virgl_submit("fl", gs.ctx, ok)
         /\ gs' = [gs EXCEPT !.ve = ok, !.ctx_error = @ \/ ~ok]
         /\ FlGoto(IF ok THEN "vbuf" ELSE "surface")

\* The vertex buffer is created and attached; its absence is tolerated.
InitVertexBuffer ==
    LET id == chip_alloc_resource_id(gs) IN
    /\ FlAt("vbuf")
    /\ FlGoto("surface")
    /\ \/ /\ id \notin host.res
          /\ Done("fl", Attached([host EXCEPT !.res = @ \cup {id}], gs.ctx, id))
          /\ gs' = [gs EXCEPT !.next_res = id + 1, !.vbuf = id]
       \/ /\ CreateRefused("fl", id)
          /\ gs' = [gs EXCEPT !.next_res = id + 1, !.vbuf = 0]

InitSurface ==
    /\ FlAt("surface")
    /\ \E ok \in BOOLEAN :
         /\ virgl_submit("fl", gs.ctx, ok)
         /\ Poison(ok)
         /\ FlGoto(IF ok THEN "transfer" ELSE "destroy")

\* The first TRANSFER_TO_HOST_3D and RESOURCE_FLUSH: nobody looks at them.
InitTransfer ==
    /\ FlAt("transfer")
    /\ Done("fl", host)
    /\ gs' = [gs EXCEPT !.ready = TRUE]
    /\ fl' = [fl EXCEPT !.pc = "blends", !.n = 1, !.res = 0]

\* chip_comp_init_blends: one stream per Porter-Duff operator.
chip_comp_init_blends ==
    /\ FlAt("blends")
    /\ \E ok \in BOOLEAN :
         /\ virgl_submit("fl", gs.ctx, ok)
         /\ gs' = [gs EXCEPT !.blends = IF ok THEN @ \cup {fl.n} ELSE @,
                             !.ctx_error = @ \/ ~ok]
         /\ fl' = IF ok /\ fl.n < Operators
                    THEN [fl EXCEPT !.n = @ + 1]
                    ELSE [fl EXCEPT !.pc = "cycle", !.n = 0]

InitDestroy ==
    /\ FlAt("destroy")
    /\ chip_CTXDestroy("fl", gs.ctx)
    /\ gs' = gs
    /\ fl' = [fl EXCEPT !.pc = "cycle", !.res = 0, !.n = 0]

Init2D ==
    \/ InitCTXCreate \/ InitSubCtx \/ InitCreate3D \/ InitAttachBacking
    \/ InitSetScanout \/ InitPublish \/ InitPipeline \/ InitShaders
    \/ InitSamplers \/ InitVertexElements \/ InitVertexBuffer \/ InitSurface
    \/ InitTransfer \/ chip_comp_init_blends \/ InitDestroy
-----------------------------------------------------------------------------
(* A cycle of the flush task.                                              *)

\* Mutant: only a context that was ready is recreated.
PoisonedReady == gs.ctx_error /\ gs.ready

Poisoned == gs.ctx_error

\* chip_virgl_recover_2d, without io_lock.
Recover ==
    /\ FlAt("cycle")
    /\ Poisoned
    /\ gs' = [gs EXCEPT !.ready = FALSE, !.ctx_error = FALSE]
    /\ FlGoto("disable")
    /\ UNCHANGED <<host, fails, stray>>

RecoverScanout ==
    /\ FlAt("disable")
    /\ chip_SetScanout("fl", 0) \/ Refused("fl")
    /\ gs' = [gs EXCEPT !.resource_id = gs.fb_resource_id]
    /\ FlGoto("old_ctx")

RecoverDestroy ==
    /\ FlAt("old_ctx")
    /\ chip_CTXDestroy("fl", gs.ctx)
    /\ gs' = gs
    /\ FlGoto("old_res")

RecoverUnref ==
    /\ FlAt("old_res")
    /\ \/ /\ gs.resource # 0
          /\ Done("fl", Without(host, gs.resource))
          /\ gs' = [gs EXCEPT !.resource = 0]
          /\ fl' = fl
       \/ /\ gs.resource = 0
          /\ gs.vbuf # 0
          /\ Done("fl", Without(host, gs.vbuf))
          /\ gs' = [gs EXCEPT !.vbuf = 0]
          /\ fl' = fl
       \/ /\ gs.resource = 0
          /\ gs.vbuf = 0
          /\ UNCHANGED <<host, fails, stray>>
          /\ gs' = [gs EXCEPT !.tex = 0, !.blends = {}, !.ve = FALSE,
                              !.shaders = FALSE, !.ctx_error = FALSE,
                              !.resource_id = gs.fb_resource_id]
          /\ FlGoto("ctx")

SkipRecovery ==
    /\ FlAt("cycle")
    /\ ~Poisoned
    /\ FlGoto("obtain")
    /\ UNCHANGED <<gs, host, fails, stray>>

\* chip_flush_all, single buffer: the frame is converted under io_lock ...
FlushBegin ==
    /\ fl.pc = "obtain"
    /\ MayEnter("fl")
    /\ io_lock' = "fl"
    /\ FlGoto("flush")
    /\ UNCHANGED <<gs, host, comp, rtg, fails, stray>>

\* ... and sent through the context if there is one.  A transfer that fails
\* marks it poisoned and the frame goes to the 2D resource instead.
FlushTransfer ==
    /\ FlAt("flush")
    /\ FlGoto("release")
    /\ \/ /\ ~gs.ready \/ gs.ctx_error
          /\ Done("fl", host)
          /\ gs' = gs
       \/ /\ gs.ready /\ ~gs.ctx_error
          /\ \/ /\ <<gs.ctx, gs.resource_id>> \in host.attached
                /\ Done("fl", host)
                /\ gs' = gs
             \/ /\ \/ Refused("fl")
                   \/ /\ <<gs.ctx, gs.resource_id>> \notin host.attached
                      /\ Done("fl", host)
                /\ gs' = [gs EXCEPT !.ctx_error = TRUE]

\* Mutant: the flush returns without its MutexRelease.
AfterFlushHeld == "fl"

AfterFlush == None

FlushEnd ==
    /\ fl.pc = "release"
    /\ io_lock' = AfterFlush
    /\ FlGoto("cycle")
    /\ UNCHANGED <<gs, host, comp, rtg, fails, stray>>

Recover2D == Recover \/ RecoverScanout \/ RecoverDestroy \/ RecoverUnref

FlushTask ==
    Init2D \/ Recover2D \/ SkipRecovery \/ FlushBegin \/ FlushTransfer \/ FlushEnd
-----------------------------------------------------------------------------
(* hook_CompositeTagList and chip_virgl_composite.  Formats, sizes, flags  *)
(* and tags the hardware path does not take are a choice.                  *)

CompGoto(l) == comp' = [comp EXCEPT !.pc = l]

CompAt(l) == comp.pc = l /\ UNCHANGED <<io_lock, fl, rtg>>

\* The hook runs the software version and returns at once.
CompSoftware ==
    /\ CompAt("idle")
    /\ comp.calls < MaxCalls
    /\ comp' = [comp EXCEPT !.calls = @ + 1]
    /\ UNCHANGED <<gs, host, fails, stray>>

hook_CompositeTagList ==
    /\ CompAt("idle")
    /\ comp.calls < MaxCalls
    /\ gs.ready
    /\ comp' = [comp EXCEPT !.calls = @ + 1, !.pc = "obtain"]
    /\ UNCHANGED <<gs, host, fails, stray>>

CompObtain ==
    /\ comp.pc = "obtain"
    /\ io_lock = None
    /\ io_lock' = "comp"
    /\ CompGoto("validate")
    /\ UNCHANGED <<gs, host, fl, rtg, fails, stray>>

\* Mutant: that the hook saw the context ready is taken to hold still.
CompReadySeen == TRUE

CompReady == gs.ready /\ gs.shaders /\ gs.blends # {}

CompValidate ==
    /\ CompAt("validate")
    /\ comp' = [comp EXCEPT !.pc = IF CompReady THEN "bind" ELSE "unlock",
                            !.ctx = gs.ctx]
    /\ UNCHANGED <<gs, host, fails, stray>>

\* The operator's blend object, then a quad of one colour or a texture; an
\* unfit source leaves through the software fallback.
CompBind ==
    /\ CompAt("bind")
    /\ \E ok \in BOOLEAN :
         /\ virgl_submit("comp", comp.ctx, ok)
         /\ Poison(ok)
         /\ \E l \in IF ok THEN {"quad", "texture", "unlock"} ELSE {"unlock"} :
              CompGoto(l)

\* chip_virgl_draw_colored_quad; its RESOURCE_FLUSH changes nothing here.
CompQuad ==
    /\ CompAt("quad")
    /\ CompGoto("restore")
    /\ \/ /\ gs.ready /\ gs.shaders /\ gs.vbuf # 0 /\ gs.ve
          /\ \E ok \in BOOLEAN : virgl_submit("comp", gs.ctx, ok) /\ Poison(ok)
       \/ /\ ~(gs.ready /\ gs.shaders /\ gs.vbuf # 0 /\ gs.ve)
          /\ UNCHANGED <<gs, host, fails, stray>>

\* chip_comp_upload_bitmap: the texture, created and attached ...
CompUpload ==
    LET id == chip_alloc_resource_id(gs) IN
    /\ CompAt("texture")
    /\ \/ /\ UNCHANGED <<gs, host, fails, stray>>
          /\ CompGoto("unlock")
       \/ /\ gs.ready /\ gs.shaders
          /\ gs' = [gs EXCEPT !.next_res = id + 1]
          /\ \/ /\ id \notin host.res
                /\ Done("comp", Attached([host EXCEPT !.res = @ \cup {id}], gs.ctx, id))
                /\ comp' = [comp EXCEPT !.pc = "strips", !.res = id, !.rows = 0]
             \/ CreateRefused("comp", id) /\ CompGoto("unlock")

\* ... its pixels strip by strip, unless memory for the stream runs out ...
CompStrip ==
    /\ CompAt("strips")
    /\ \/ /\ comp.rows = 0
          /\ UNCHANGED <<gs, host, fails, stray>>
          /\ CompGoto("abandon")
       \/ \E ok \in BOOLEAN :
            /\ virgl_submit("comp", gs.ctx, ok)
            /\ Poison(ok)
            /\ LET n == comp.rows + 1 IN
               comp' = [comp EXCEPT !.rows = n,
                                    !.pc = CASE ~ok        -> "abandon"
                                             [] ok /\ n < Strips -> "strips"
                                             [] OTHER      -> "view"]

\* ... and the sampler view; only then is it recorded in gs.
CompView ==
    /\ CompAt("view")
    /\ \E ok \in BOOLEAN :
         /\ virgl_submit("comp", gs.ctx, ok)
         /\ gs' = IF ok THEN [gs EXCEPT !.tex = comp.res]
                        ELSE [gs EXCEPT !.ctx_error = TRUE]
         /\ CompGoto(IF ok THEN "draw" ELSE "abandon")

\* Mutant: the texture is only detached.
AbandonedKeeps(h, r) == [h EXCEPT !.attached = {a \in @ : a[2] # r}]

Abandoned(h, r) == Without(h, r)

CompAbandon ==
    /\ CompAt("abandon")
    /\ Done("comp", Abandoned(host, comp.res))
    /\ gs' = gs
    /\ comp' = [comp EXCEPT !.pc = "unlock", !.res = 0]

\* chip_comp_draw_textured_quad: the quad, then the colour shader again.
CompDraw ==
    /\ CompAt("draw")
    /\ \/ /\ gs.ready /\ gs.shaders /\ gs.vbuf # 0
          /\ \E ok \in BOOLEAN : virgl_submit("comp", gs.ctx, ok) /\ Poison(ok)
          /\ CompGoto("color")
       \/ /\ ~(gs.ready /\ gs.shaders /\ gs.vbuf # 0)
          /\ UNCHANGED <<gs, host, fails, stray>>
          /\ CompGoto("free")

CompRestoreShader ==
    /\ CompAt("color")
    /\ \E ok \in BOOLEAN : virgl_submit("comp", gs.ctx, ok) /\ Poison(ok)
    /\ CompGoto("free")

\* chip_comp_free_texture: the view, then the resource.
CompFreeView ==
    /\ CompAt("free")
    /\ \E ok \in BOOLEAN : virgl_submit("comp", gs.ctx, ok) /\ Poison(ok)
    /\ CompGoto("unref")

CompFreeTexture ==
    /\ CompAt("unref")
    /\ Done("comp", Without(host, gs.tex))
    /\ gs' = [gs EXCEPT !.tex = 0]
    /\ comp' = [comp EXCEPT !.pc = "restore", !.res = 0]

CompRestoreBlend ==
    /\ CompAt("restore")
    /\ \E ok \in BOOLEAN : virgl_submit("comp", comp.ctx, ok) /\ Poison(ok)
    /\ CompGoto("unlock")

CompRelease ==
    /\ comp.pc = "unlock"
    /\ io_lock' = None
    /\ comp' = [comp EXCEPT !.pc = "idle", !.ctx = 0, !.rows = 0]
    /\ UNCHANGED <<gs, host, fl, rtg, fails, stray>>

Composite ==
    \/ CompObtain \/ CompValidate \/ CompBind \/ CompQuad \/ CompUpload
    \/ CompStrip \/ CompView \/ CompAbandon \/ CompDraw \/ CompRestoreShader
    \/ CompFreeView \/ CompFreeTexture \/ CompRestoreBlend \/ CompRelease
-----------------------------------------------------------------------------
(* chip_resize_fb_to_mode, as far as it touches what the others use; the   *)
(* rest of it is in Display.  The number is read and stored in two steps:  *)
(* next_resource_id has no lock.                                           *)

RtgAt(l) == rtg.pc = l /\ UNCHANGED <<io_lock, fl, comp>>

ResizeBegin ==
    /\ RtgAt("idle")
    /\ rtg.resizes < MaxResizes
    /\ rtg' = [rtg EXCEPT !.pc = "create", !.res = chip_alloc_resource_id(gs),
                          !.resizes = @ + 1]
    /\ UNCHANGED <<gs, host, fails, stray>>

ResizeStore ==
    /\ RtgAt("create")
    /\ gs' = [gs EXCEPT !.next_res = rtg.res + 1]
    /\ \/ /\ chip_ResourceCreate3D("rtg", rtg.res)
          /\ rtg' = [rtg EXCEPT !.pc = "show"]
       \/ /\ CreateRefused("rtg", rtg.res)
          /\ rtg' = [rtg EXCEPT !.pc = "idle", !.res = 0]

ResizeScanout ==
    /\ RtgAt("show")
    /\ gs' = gs
    /\ \/ chip_SetScanout("rtg", rtg.res) /\ rtg' = [rtg EXCEPT !.pc = "publish"]
       \/ Refused("rtg") /\ rtg' = [rtg EXCEPT !.pc = "unref"]

ResizePublish ==
    /\ RtgAt("publish")
    /\ gs' = [gs EXCEPT !.fb_resource_id = rtg.res, !.resource_id = rtg.res]
    /\ rtg' = [rtg EXCEPT !.pc = "unref", !.res = gs.fb_resource_id]
    /\ UNCHANGED <<host, fails, stray>>

ResizeUnref ==
    /\ RtgAt("unref")
    /\ Done("rtg", Without(host, rtg.res))
    /\ gs' = gs
    /\ rtg' = [rtg EXCEPT !.pc = "idle", !.res = 0]

Resize == ResizeStore \/ ResizeScanout \/ ResizePublish \/ ResizeUnref
-----------------------------------------------------------------------------
Init ==
    /\ gs = [ready |-> FALSE, ctx_error |-> FALSE, ctx |-> 0, next_ctx |-> 1,
             next_res |-> 3, resource |-> 0, vbuf |-> 0, tex |-> 0,
             resource_id |-> 1, fb_resource_id |-> 1,
             shaders |-> FALSE, ve |-> FALSE, blends |-> {}]
    /\ host = [ctxs |-> {}, bad |-> {}, res |-> {1, CursorRes},
               attached |-> {}, scanout |-> 1]
    /\ io_lock = None
    /\ fl = [pc |-> "ctx", res |-> 0, n |-> 0]
    /\ comp = [pc |-> "idle", ctx |-> 0, res |-> 0, rows |-> 0, calls |-> 0]
    /\ rtg = [pc |-> "idle", res |-> 0, resizes |-> 0]
    /\ fails = 0
    /\ stray = FALSE

Next ==
    \/ FlushTask
    \/ CompSoftware \/ hook_CompositeTagList \/ Composite
    \/ ResizeBegin \/ Resize

Spec == Init /\ [][Next]_vars

\* The flush task and a task in a call keep running; calls need not come.  A
\* task that waits for io_lock gets it: the mutex queues its waiters, and the
\* flush task sleeps for a frame between two cycles.
FairSpec ==
    /\ Spec
    /\ WF_vars(FlushTask) /\ WF_vars(Composite) /\ WF_vars(Resize)
    /\ SF_vars(CompObtain)
-----------------------------------------------------------------------------
InitPcs == {"ctx", "sub_ctx", "create", "attach", "scanout", "publish",
            "pipeline", "shaders", "samplers", "elements", "vbuf", "surface",
            "transfer", "blends", "destroy"}

CyclePcs == {"cycle", "obtain", "flush", "release"}

TypeOK ==
    /\ gs.blends \subseteq 1 .. Operators
    /\ {gs.ready, gs.ctx_error, gs.shaders, gs.ve, stray} \subseteq BOOLEAN
    /\ {gs.ctx, gs.next_ctx, gs.next_res, gs.resource, gs.vbuf, gs.tex,
        gs.resource_id, gs.fb_resource_id, fl.res, fl.n, comp.ctx, comp.res,
        host.scanout, rtg.res} \subseteq Nat
    /\ fl.pc \in InitPcs \cup CyclePcs \cup {"disable", "old_ctx", "old_res"}
    /\ io_lock \in {None, "fl", "comp"}
    /\ (io_lock = "comp") = (comp.pc \notin {"idle", "obtain"})
    /\ (io_lock = "fl") = (fl.pc \in {"flush", "release"})
    /\ comp.rows \in 0 .. Strips
    /\ fails \in 0 .. MaxFail

\* chip_virgl_init_2d gave up without a poisoned context: nothing will try
\* again.
GivenUp == fl.pc \in CyclePcs /\ ~gs.ready /\ ~gs.ctx_error

\* No stream is submitted to a context that recovery destroyed: the hook
\* looks at virgl_2d_ready again under io_lock and keeps the lock for the
\* whole composite, and only then may the flush task destroy the context.
SubmitsLive == ~stray

\* What the device holds is known to the driver, whatever was refused and
\* whenever the context was recreated; the exception is the resource of a
\* chip_virgl_init_2d that was refused its backing or its scanout and gave
\* up for good, and there is never a second one.
Untracked ==
    host.res \ {gs.fb_resource_id, CursorRes, gs.resource, gs.vbuf, gs.tex,
                fl.res, comp.res, rtg.res}

ResourcesTracked ==
    TypeOK /\ (Untracked # {} => GivenUp /\ Cardinality(Untracked) = 1)

\* Once the device stops refusing, a poisoned context is replaced by one
\* that works, unless initialisation gave up: a refused stream at any step
\* of chip_virgl_init_2d is tried again by the flush task.  This is what
\* chip_virgl_recover_2d says of itself ("destroys the old context and
\* recreates everything from scratch"); TwoDForTheSession is the other comment.
Reacquired == []<>((gs.ready /\ ~gs.ctx_error) \/ GivenUp)

\* "There is no documented way to un-poison a context ... so we simply run in
\* 2D mode for the rest of the session": after an error no context is used
\* any more.
TwoDForTheSession == [](gs.ctx_error => [](gs.ready => gs.ctx_error))

\* A composite that took the hardware path returns, whatever is refused.
HookReturns == comp.pc # "idle" ~> comp.pc = "idle"

\* chip_virgl_recover_2d: "FAILED -- falling back to 2D-only mode": then
\* the framebuffer's own resource would be shown.
FallbackShows ==
    (GivenUp /\ rtg.pc = "idle") => host.scanout = gs.fb_resource_id
=============================================================================
