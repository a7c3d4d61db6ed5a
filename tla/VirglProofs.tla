---------------------------- MODULE VirglProofs ----------------------------
(***************************************************************************)
(* Proofs about Virgl, for any number of strips, blend operators, refused  *)
(* commands, composites and resizes.                                       *)
(*                                                                         *)
(* Both properties rest on one fact: a composite that has validated the    *)
(* context keeps io_lock until it is done, so the flush task may get as    *)
(* far as the destruction of the context, and no further.                  *)
(***************************************************************************)
EXTENDS Virgl, FiniteSetTheorems, TLAPS

\* The labels of chip_virgl_init_2d by what has been published, and those of
\* a composite by what it has uploaded.
BeforePublish == {"ctx", "sub_ctx", "create", "attach", "scanout", "publish"}
AfterPublish == {"pipeline", "shaders", "samplers", "elements", "vbuf",
                 "surface", "transfer"}
BeforeVbuf ==
    BeforePublish \cup {"pipeline", "shaders", "samplers", "elements", "vbuf"}
RecoverPcs == {"disable", "old_ctx", "old_res"}
Pcs == InitPcs \cup CyclePcs \cup RecoverPcs

Textured == {"draw", "color", "free", "unref"}
Uploaded == {"strips", "view", "abandon"} \cup Textured
Drawing == {"bind", "quad", "texture", "restore"} \cup Uploaded
CompPcs == {"idle", "obtain", "validate", "unlock"} \cup Drawing
Resizing == {"show", "publish", "unref"}

\* Labels at which a context that is published may be in use.
InUse == {"blends"} \cup CyclePcs

Positive == Nat \ {0}

States == [ready : BOOLEAN, ctx_error : BOOLEAN, ctx : Nat, next_ctx : Nat,
           next_res : Positive, resource : Nat, vbuf : Nat, tex : Nat,
           resource_id : Nat, fb_resource_id : Nat, shaders : BOOLEAN,
           ve : BOOLEAN, blends : SUBSET (1 .. Operators)]
Devices == [ctxs : SUBSET Nat, bad : SUBSET Nat, res : SUBSET Positive,
            attached : SUBSET (Nat \X Nat), scanout : Nat]
FlFrames == [pc : Pcs, res : Nat, n : Nat]
CompFrames == [pc : CompPcs, ctx : Nat, res : Nat, rows : 0 .. Strips, calls : Nat]
RtgFrames == [pc : {"idle", "create"} \cup Resizing, res : Nat, resizes : Nat]

Records ==
    /\ gs \in States /\ host \in Devices
    /\ fl \in FlFrames /\ comp \in CompFrames /\ rtg \in RtgFrames
    /\ fails \in 0 .. MaxFail

\* The lock, and the loop counters.
Control ==
    /\ io_lock \in {None, "fl", "comp"}
    /\ io_lock = "comp" <=> comp.pc \notin {"idle", "obtain"}
    /\ io_lock = "fl" <=> fl.pc \in {"flush", "release"}
    /\ fl.pc = "blends" => fl.n \in 1 .. Operators
    /\ comp.pc = "strips" => comp.rows < Strips
    /\ rtg.pc = "create" => rtg.res \in Positive

\* A composite that draws uses the context of gs; recovery may have begun, but
\* has not destroyed it.
Contexts ==
    /\ gs.ready => fl.pc \in InUse
    /\ comp.pc \in Drawing =>
          /\ comp.ctx = gs.ctx
          /\ fl.pc \in InUse \cup {"disable", "old_ctx"}
          /\ fl.pc \in InUse => gs.ready
    /\ comp.pc \in Drawing \/ gs.ready \/ fl.pc \in InitPcs \ {"ctx"} =>
          gs.ctx \in host.ctxs

\* Who remembers which resource at which label.
Owners ==
    /\ comp.res # 0 => comp.pc \in Uploaded
    /\ gs.tex = IF comp.pc \in Textured THEN comp.res ELSE 0
    /\ fl.res # 0 => fl.pc \in {"attach", "scanout", "publish", "destroy"} \cup AfterPublish
    /\ fl.pc \in BeforePublish => gs.resource = 0
    /\ fl.pc \in AfterPublish => gs.resource = fl.res
    /\ fl.pc \in BeforeVbuf => gs.vbuf = 0
    /\ fl.pc \in {"create", "attach", "scanout", "publish"} => ~gs.ctx_error
    /\ fl.pc = "destroy" /\ fl.res # 0 => fl.res = gs.resource \/ ~gs.ctx_error

\* What the device holds and nobody remembers.  A resize remembers a number only
\* once its CREATE succeeded.
Lost ==
    host.res \ {gs.fb_resource_id, CursorRes, gs.resource, gs.vbuf, gs.tex, fl.res,
                comp.res, IF rtg.pc \in Resizing THEN rtg.res ELSE 0}

Tracked == Lost # {} => GivenUp /\ \E r \in Nat : Lost \subseteq {r}

IInv == Records /\ Control /\ Contexts /\ Owners /\ Tracked /\ stray = FALSE
-----------------------------------------------------------------------------

\* The constants are numbers.
LEMMA ConstantNumbers ==
    /\ Strips \in Positive /\ Operators \in Positive
    /\ MaxFail \in Nat /\ MaxCalls \in Nat /\ MaxResizes \in Nat
BY VirglAssumption DEF Positive

LEMMA LockOwners == None # "fl" /\ None # "comp"
BY VirglAssumption

USE LockOwners

\* At most two numbers are reserved, so one of three in a row is free.
LEMMA NextResource ==
    ASSUME NEW g \in States
    PROVE  /\ chip_alloc_resource_id(g) \in Positive
           /\ chip_alloc_resource_id(g) \notin {g.fb_resource_id, CursorRes}
<1> DEFINE n == g.next_res
           reserved == {g.fb_resource_id, CursorRes}
           Free(i) == /\ i \notin reserved
                      /\ \A j \in n .. i - 1 : j \in reserved
<1>1. n \in Nat /\ n > 0
  BY DEF States, Positive
<1>2. \E i \in n .. n + 2 : Free(i)
  <2>1. CASE n \notin reserved
    BY <1>1, <2>1
  <2>2. CASE n \in reserved /\ n + 1 \notin reserved
    BY <1>1, <2>2
  <2>3. CASE n \in reserved /\ n + 1 \in reserved
    BY <1>1, <2>3
  <2> QED BY <2>1, <2>2, <2>3
<1>3. chip_alloc_resource_id(g) = CHOOSE i \in n .. n + 2 : Free(i)
  BY DEF chip_alloc_resource_id
<1> HIDE DEF Free
<1>4. chip_alloc_resource_id(g) \in n .. n + 2 /\ Free(chip_alloc_resource_id(g))
  BY <1>2, <1>3
<1> QED BY <1>1, <1>4 DEF Free, Positive

\* The flush task starts with an empty device but for the two resources of 2D.
LEMMA InitIInv == Init => IInv
<1> SUFFICES ASSUME Init PROVE IInv
  OBVIOUS
<1> USE DEF Init
<1>1. Records
  BY ConstantNumbers
     DEF Records, States, Devices, FlFrames, CompFrames, RtgFrames, Positive, Pcs,
         InitPcs, CompPcs, CursorRes
<1>2. Control /\ Contexts /\ Owners
  BY DEF Control, Contexts, Owners, InitPcs, CyclePcs, InUse, Drawing, Uploaded,
         Textured, BeforePublish, AfterPublish, BeforeVbuf
<1>3. Tracked
  BY DEF Tracked, Lost, CursorRes
<1> QED BY <1>1, <1>2, <1>3 DEF IInv

\* What a submitted stream does to the device: contexts and resources stay.
LEMMA SubmitEffect ==
    ASSUME Records, NEW t, NEW c \in Nat, NEW ok \in BOOLEAN, virgl_submit(t, c, ok)
    PROVE  /\ host' \in Devices /\ fails' \in 0 .. MaxFail
           /\ host'.ctxs = host.ctxs /\ host'.res = host.res
<1>1. CASE UNCHANGED <<host, fails, stray>>
  BY <1>1 DEF Records
<1>2. CASE /\ host' = [host EXCEPT !.bad = @ \cup {c}]
           /\ fails < MaxFail /\ fails' = fails + 1 /\ stray' = stray
  <2>1. host.bad \cup {c} \in SUBSET Nat
    BY DEF Records, Devices
  <2> QED BY <1>2, <2>1, ConstantNumbers DEF Records, Devices
<1>3. CASE UNCHANGED <<host, fails>> /\ c \notin host.ctxs
  BY <1>3 DEF Records
<1> QED BY <1>1, <1>2, <1>3 DEF virgl_submit, chip_Submit3D

\* A refusal is counted, and nothing else.
LEMMA RefusedEffect ==
    ASSUME Records, NEW t, Refused(t)
    PROVE  UNCHANGED <<host, stray>> /\ fails' \in 0 .. MaxFail
BY ConstantNumbers DEF Records, Refused

LEMMA CreateRefusedEffect ==
    ASSUME Records, NEW t, NEW r, CreateRefused(t, r)
    PROVE  UNCHANGED <<host, stray>> /\ fails' \in 0 .. MaxFail
BY RefusedEffect DEF Records, CreateRefused, Done

\* The commands about resources keep the contexts, and the device a device.
LEMMA WithoutEffect ==
    ASSUME NEW h \in Devices, NEW r
    PROVE  /\ Without(h, r) \in Devices
           /\ Without(h, r).ctxs = h.ctxs
           /\ Without(h, r).res = h.res \ {r}
<1>1. /\ h.res \ {r} \in SUBSET Positive
      /\ {a \in h.attached : a[2] # r} \in SUBSET (Nat \X Nat)
      /\ (IF h.scanout = r THEN 0 ELSE h.scanout) \in Nat
  BY DEF Devices
<1> QED BY <1>1 DEF Without, Devices

LEMMA AttachedEffect ==
    ASSUME NEW h \in Devices, NEW c \in Nat, NEW r \in Nat
    PROVE  /\ Attached(h, c, r) \in Devices
           /\ Attached(h, c, r).ctxs = h.ctxs
           /\ Attached(h, c, r).res = h.res
<1>1. h.attached \cup {<<c, r>>} \in SUBSET (Nat \X Nat)
  BY DEF Devices
<1> QED BY <1>1 DEF Attached, Devices

LEMMA CreatedEffect ==
    ASSUME NEW h \in Devices, NEW r \in Positive
    PROVE  /\ [h EXCEPT !.res = @ \cup {r}] \in Devices
           /\ [h EXCEPT !.res = @ \cup {r}].ctxs = h.ctxs
           /\ [h EXCEPT !.res = @ \cup {r}].res = h.res \cup {r}
<1>1. h.res \cup {r} \in SUBSET Positive
  BY DEF Devices
<1> QED BY <1>1 DEF Devices

\* The locals of the flush task.
LEMMA FlNext ==
    ASSUME IInv, Next
    PROVE  fl' \in FlFrames
<1> USE DEF IInv, Records, FlFrames, Pcs, InitPcs, CyclePcs, RecoverPcs
<1>1. ASSUME InitCTXCreate PROVE fl' \in FlFrames
  <2>1. CASE fl' = [fl EXCEPT !.pc = "sub_ctx"]
    BY <2>1
  <2>2. CASE fl' = [fl EXCEPT !.pc = "cycle", !.res = 0]
    BY <2>2
  <2> QED BY <1>1, <2>1, <2>2 DEF InitCTXCreate, FlGoto, Return
<1>2. ASSUME InitSubCtx PROVE fl' \in FlFrames
  BY <1>2 DEF InitSubCtx, FlAt, FlGoto
<1>3. ASSUME InitCreate3D PROVE fl' \in FlFrames
  <2>1. chip_alloc_resource_id(gs) \in Positive
    BY NextResource
  <2> QED BY <1>3, <2>1 DEF InitCreate3D, FlAt, FlGoto, Positive
<1>4. ASSUME InitAttachBacking PROVE fl' \in FlFrames
  BY <1>4 DEF InitAttachBacking, FlAt, FlGoto
<1>5. ASSUME InitSetScanout PROVE fl' \in FlFrames
  BY <1>5 DEF InitSetScanout, FlAt, FlGoto
<1>6. ASSUME InitPublish PROVE fl' \in FlFrames
  BY <1>6 DEF InitPublish, FlAt, FlGoto, chip_CTXAttachResource, Attached, Done
<1>7. ASSUME InitPipeline PROVE fl' \in FlFrames
  <2>1. PICK l \in {"shaders", "destroy"} : fl' = [fl EXCEPT !.pc = l, !.n = 1]
    BY <1>7 DEF InitPipeline
  <2> QED BY <2>1
<1>8. ASSUME InitShaders PROVE fl' \in FlFrames
  <2>1. fl.n + 1 \in Nat
    OBVIOUS
  <2>2. PICK l \in {"surface", "shaders", "samplers"}, n \in {0, fl.n + 1} :
          fl' = [fl EXCEPT !.pc = l, !.n = n]
    BY <1>8 DEF InitShaders
  <2>3. l \in Pcs /\ n \in Nat
    BY <2>1
  <2> QED BY <2>2, <2>3
<1>9. ASSUME InitSamplers PROVE fl' \in FlFrames
  BY <1>9 DEF InitSamplers, FlAt, FlGoto
<1>10. ASSUME InitVertexElements PROVE fl' \in FlFrames
  BY <1>10 DEF InitVertexElements, FlAt, FlGoto
<1>11. ASSUME InitVertexBuffer PROVE fl' \in FlFrames
  BY <1>11 DEF InitVertexBuffer, FlAt, FlGoto
<1>12. ASSUME InitSurface PROVE fl' \in FlFrames
  BY <1>12 DEF InitSurface, FlAt, FlGoto
<1>13. ASSUME InitTransfer PROVE fl' \in FlFrames
  BY <1>13 DEF InitTransfer, FlAt, Done
<1>14. ASSUME chip_comp_init_blends PROVE fl' \in FlFrames
  <2>1. fl.n + 1 \in Nat
    OBVIOUS
  <2>2. CASE fl' = [fl EXCEPT !.n = fl.n + 1]
    BY <2>1, <2>2
  <2>3. CASE fl' = [fl EXCEPT !.pc = "cycle", !.n = 0]
    BY <2>3
  <2> QED BY <1>14, <2>2, <2>3 DEF chip_comp_init_blends
<1>15. ASSUME InitDestroy PROVE fl' \in FlFrames
  BY <1>15 DEF InitDestroy, FlAt, chip_CTXDestroy, Done
<1>16. ASSUME Recover PROVE fl' \in FlFrames
  BY <1>16 DEF Recover, FlAt, FlGoto, Poisoned
<1>17. ASSUME RecoverScanout PROVE fl' \in FlFrames
  BY <1>17 DEF RecoverScanout, FlAt, FlGoto, chip_SetScanout, Done, Refused
<1>18. ASSUME RecoverDestroy PROVE fl' \in FlFrames
  BY <1>18 DEF RecoverDestroy, FlAt, FlGoto, chip_CTXDestroy, Done
<1>19. ASSUME RecoverUnref PROVE fl' \in FlFrames
  BY <1>19 DEF RecoverUnref, FlAt, FlGoto, Without, Done
<1>20. ASSUME SkipRecovery PROVE fl' \in FlFrames
  BY <1>20 DEF SkipRecovery, FlAt, FlGoto
<1>21. ASSUME FlushBegin PROVE fl' \in FlFrames
  BY <1>21 DEF FlushBegin, FlGoto
<1>22. ASSUME FlushTransfer PROVE fl' \in FlFrames
  BY <1>22 DEF FlushTransfer, FlAt, FlGoto
<1>23. ASSUME FlushEnd PROVE fl' \in FlFrames
  BY <1>23 DEF FlushEnd, FlGoto, AfterFlush
<1>24. ASSUME UNCHANGED fl PROVE fl' \in FlFrames
  BY <1>24
<1> QED BY <1>1, <1>2, <1>3, <1>4, <1>5, <1>6, <1>7, <1>8, <1>9, <1>10, <1>11,
           <1>12, <1>13, <1>14, <1>15, <1>16, <1>17, <1>18, <1>19, <1>20,
           <1>21, <1>22, <1>23, <1>24
    DEF Next, FlushTask, Init2D, Recover2D, Composite, Resize, vars,
        CompAbandon, CompAt, CompBind, CompDraw, CompFreeTexture, CompFreeView,
        CompObtain, CompQuad, CompRelease, CompRestoreBlend, CompRestoreShader,
        CompSoftware, CompStrip, CompUpload, CompValidate, CompView,
        ResizeBegin, ResizePublish, ResizeScanout, ResizeStore, ResizeUnref,
        RtgAt, hook_CompositeTagList

\* The locals of a composite.
LEMMA CompNext ==
    ASSUME IInv, Next
    PROVE  comp' \in CompFrames
<1> USE DEF IInv, Records, Control, CompFrames, CompPcs, Drawing, Uploaded,
            Textured
<1>1. ASSUME CompSoftware PROVE comp' \in CompFrames
  <2>1. comp.calls + 1 \in Nat
    OBVIOUS
  <2> QED BY <1>1, <2>1 DEF CompSoftware
<1>2. ASSUME hook_CompositeTagList PROVE comp' \in CompFrames
  <2>1. comp.calls + 1 \in Nat
    OBVIOUS
  <2> QED BY <1>2, <2>1 DEF hook_CompositeTagList
<1>3. ASSUME CompObtain PROVE comp' \in CompFrames
  BY <1>3 DEF CompObtain, CompGoto
<1>4. ASSUME CompValidate PROVE comp' \in CompFrames
  <2>1. gs.ctx \in Nat
    BY DEF States
  <2> QED BY <1>4, <2>1 DEF CompValidate
<1>5. ASSUME CompBind PROVE comp' \in CompFrames
  BY <1>5 DEF CompBind, CompAt, CompGoto, virgl_submit, chip_Submit3D, Poison
<1>6. ASSUME CompQuad PROVE comp' \in CompFrames
  BY <1>6 DEF CompQuad, CompAt, CompGoto, virgl_submit, chip_Submit3D, Poison
<1>7. ASSUME CompUpload PROVE comp' \in CompFrames
  <2>1. chip_alloc_resource_id(gs) \in Nat /\ 0 \in 0 .. Strips
    BY NextResource, ConstantNumbers DEF Positive
  <2> QED BY <1>7, <2>1 DEF CompUpload, CompGoto
<1>8. ASSUME CompStrip PROVE comp' \in CompFrames
  <2>1. Strips \in Nat /\ comp.rows \in 0 .. Strips /\ comp.rows < Strips
    BY <1>8, ConstantNumbers DEF CompStrip, CompAt, Positive
  <2>2. comp.rows + 1 \in 0 .. Strips
    BY <2>1
  <2> QED BY <1>8, <2>2 DEF CompStrip, CompGoto
<1>9. ASSUME CompView PROVE comp' \in CompFrames
  BY <1>9 DEF CompView, CompAt, CompGoto, virgl_submit, chip_Submit3D
<1>10. ASSUME CompAbandon PROVE comp' \in CompFrames
  BY <1>10 DEF CompAbandon, CompAt, Abandoned, Without, Done
<1>11. ASSUME CompDraw PROVE comp' \in CompFrames
  BY <1>11 DEF CompDraw, CompAt, CompGoto, virgl_submit, chip_Submit3D, Poison
<1>12. ASSUME CompRestoreShader PROVE comp' \in CompFrames
  BY <1>12 DEF CompRestoreShader, CompAt, CompGoto, virgl_submit,
       chip_Submit3D, Poison
<1>13. ASSUME CompFreeView PROVE comp' \in CompFrames
  BY <1>13 DEF CompFreeView, CompAt, CompGoto, virgl_submit, chip_Submit3D,
       Poison
<1>14. ASSUME CompFreeTexture PROVE comp' \in CompFrames
  BY <1>14 DEF CompFreeTexture, CompAt, Without, Done
<1>15. ASSUME CompRestoreBlend PROVE comp' \in CompFrames
  BY <1>15 DEF CompRestoreBlend, CompAt, CompGoto, virgl_submit, chip_Submit3D,
       Poison
<1>16. ASSUME CompRelease PROVE comp' \in CompFrames
  <2>1. 0 \in 0 .. Strips
    BY ConstantNumbers DEF Positive
  <2> QED BY <1>16, <2>1 DEF CompRelease
<1>17. ASSUME UNCHANGED comp PROVE comp' \in CompFrames
  BY <1>17
<1> QED BY <1>1, <1>2, <1>3, <1>4, <1>5, <1>6, <1>7, <1>8, <1>9, <1>10, <1>11,
           <1>12, <1>13, <1>14, <1>15, <1>16, <1>17
    DEF Next, FlushTask, Init2D, Recover2D, Composite, Resize, vars, FlAt,
        FlushBegin, FlushEnd, FlushTransfer, InitAttachBacking, InitCTXCreate,
        InitCreate3D, InitDestroy, InitPipeline, InitPublish, InitSamplers,
        InitSetScanout, InitShaders, InitSubCtx, InitSurface, InitTransfer,
        InitVertexBuffer, InitVertexElements, Recover, RecoverDestroy,
        RecoverScanout, RecoverUnref, ResizeBegin, ResizePublish,
        ResizeScanout, ResizeStore, ResizeUnref, RtgAt, SkipRecovery,
        chip_comp_init_blends

\* The locals of a resize.
LEMMA RtgNext ==
    ASSUME IInv, Next
    PROVE  rtg' \in RtgFrames
<1> USE DEF IInv, Records, RtgFrames, Resizing
<1>1. ASSUME ResizeBegin PROVE rtg' \in RtgFrames
  <2>1. chip_alloc_resource_id(gs) \in Nat /\ rtg.resizes + 1 \in Nat
    BY NextResource DEF Positive
  <2> QED BY <1>1, <2>1 DEF ResizeBegin, RtgAt
<1>2. ASSUME ResizeStore PROVE rtg' \in RtgFrames
  <2>1. CASE rtg' = [rtg EXCEPT !.pc = "show"]
    BY <2>1
  <2>2. CASE rtg' = [rtg EXCEPT !.pc = "idle", !.res = 0]
    BY <2>2
  <2> QED BY <1>2, <2>1, <2>2 DEF ResizeStore
<1>3. ASSUME ResizeScanout PROVE rtg' \in RtgFrames
  BY <1>3 DEF ResizeScanout, RtgAt, chip_SetScanout, Done, Refused
<1>4. ASSUME ResizePublish PROVE rtg' \in RtgFrames
  <2>1. gs.fb_resource_id \in Nat
    BY DEF States
  <2> QED BY <1>4, <2>1 DEF ResizePublish
<1>5. ASSUME ResizeUnref PROVE rtg' \in RtgFrames
  BY <1>5 DEF ResizeUnref, RtgAt, Without, Done
<1>6. ASSUME UNCHANGED rtg PROVE rtg' \in RtgFrames
  BY <1>6
<1> QED BY <1>1, <1>2, <1>3, <1>4, <1>5, <1>6
    DEF Next, FlushTask, Init2D, Recover2D, Composite, Resize, vars,
        CompAbandon, CompAt, CompBind, CompDraw, CompFreeTexture, CompFreeView,
        CompObtain, CompQuad, CompRelease, CompRestoreBlend, CompRestoreShader,
        CompSoftware, CompStrip, CompUpload, CompValidate, CompView, FlAt,
        FlushBegin, FlushEnd, FlushTransfer, InitAttachBacking, InitCTXCreate,
        InitCreate3D, InitDestroy, InitPipeline, InitPublish, InitSamplers,
        InitSetScanout, InitShaders, InitSubCtx, InitSurface, InitTransfer,
        InitVertexBuffer, InitVertexElements, Recover, RecoverDestroy,
        RecoverScanout, RecoverUnref, SkipRecovery, chip_comp_init_blends,
        hook_CompositeTagList

\* The fields of ChipGPUState.
LEMMA GsNext ==
    ASSUME IInv, Next
    PROVE  gs' \in States
<1> USE DEF IInv, Records, Control, States
<1>1. ASSUME InitCTXCreate PROVE gs' \in States
  <2>1. gs.next_ctx + 1 \in Nat
    OBVIOUS
  <2> QED BY <1>1, <2>1 DEF InitCTXCreate
<1>2. ASSUME InitSubCtx PROVE gs' \in States
  BY <1>2 DEF InitSubCtx, Poison
<1>3. ASSUME InitCreate3D PROVE gs' \in States
  <2>1. chip_alloc_resource_id(gs) + 1 \in Positive
    BY NextResource DEF Positive
  <2> QED BY <1>3, <2>1 DEF InitCreate3D
<1>4. ASSUME InitAttachBacking PROVE gs' \in States
  BY <1>4 DEF InitAttachBacking
<1>5. ASSUME InitSetScanout PROVE gs' \in States
  BY <1>5 DEF InitSetScanout
<1>6. ASSUME InitPublish PROVE gs' \in States
  <2>1. fl.res \in Nat
    BY DEF FlFrames
  <2> QED BY <1>6, <2>1 DEF InitPublish
<1>7. ASSUME InitPipeline PROVE gs' \in States
  BY <1>7, ZenonT(60) DEF InitPipeline, Poison
<1>8. ASSUME InitShaders PROVE gs' \in States
  BY <1>8 DEF InitShaders
<1>9. ASSUME InitSamplers PROVE gs' \in States
  BY <1>9 DEF InitSamplers, Poison
<1>10. ASSUME InitVertexElements PROVE gs' \in States
  BY <1>10 DEF InitVertexElements
<1>11. ASSUME InitVertexBuffer PROVE gs' \in States
  <2> DEFINE id == chip_alloc_resource_id(gs)
  <2>1. id \in Nat /\ id + 1 \in Positive
    BY NextResource DEF Positive
  <2>2. CASE gs' = [gs EXCEPT !.next_res = id + 1, !.vbuf = id]
    BY <2>1, <2>2
  <2>3. CASE gs' = [gs EXCEPT !.next_res = id + 1, !.vbuf = 0]
    BY <2>1, <2>3
  <2> QED BY <1>11, <2>2, <2>3 DEF InitVertexBuffer
<1>12. ASSUME InitSurface PROVE gs' \in States
  BY <1>12 DEF InitSurface, Poison
<1>13. ASSUME InitTransfer PROVE gs' \in States
  BY <1>13 DEF InitTransfer
<1>14. ASSUME chip_comp_init_blends PROVE gs' \in States
  <2>1. fl.n \in 1 .. Operators
    BY <1>14 DEF chip_comp_init_blends, FlAt
  <2>2. PICK ok \in BOOLEAN :
          gs' = [gs EXCEPT !.blends = IF ok THEN gs.blends \cup {fl.n} ELSE gs.blends,
                           !.ctx_error = gs.ctx_error \/ ~ok]
    BY <1>14 DEF chip_comp_init_blends
  <2>3. (IF ok THEN gs.blends \cup {fl.n} ELSE gs.blends) \in SUBSET (1 .. Operators)
    BY <2>1
  <2> QED BY <2>2, <2>3
<1>15. ASSUME InitDestroy PROVE gs' \in States
  BY <1>15 DEF InitDestroy
<1>16. ASSUME Recover PROVE gs' \in States
  BY <1>16 DEF Recover
<1>17. ASSUME RecoverScanout PROVE gs' \in States
  BY <1>17 DEF RecoverScanout
<1>18. ASSUME RecoverDestroy PROVE gs' \in States
  BY <1>18 DEF RecoverDestroy
<1>19. ASSUME RecoverUnref PROVE gs' \in States
  <2>1. CASE gs' = [gs EXCEPT !.resource = 0] \/ gs' = [gs EXCEPT !.vbuf = 0]
    BY <2>1
  <2>2. CASE gs' = [gs EXCEPT !.tex = 0, !.blends = {}, !.ve = FALSE,
                              !.shaders = FALSE, !.ctx_error = FALSE,
                              !.resource_id = gs.fb_resource_id]
    BY <2>2
  <2> QED BY <1>19, <2>1, <2>2 DEF RecoverUnref
<1>20. ASSUME SkipRecovery PROVE gs' \in States
  BY <1>20 DEF SkipRecovery, FlAt, FlGoto
<1>21. ASSUME FlushBegin PROVE gs' \in States
  BY <1>21 DEF FlushBegin, FlGoto
<1>22. ASSUME FlushTransfer PROVE gs' \in States
  BY <1>22 DEF FlushTransfer
<1>23. ASSUME FlushEnd PROVE gs' \in States
  BY <1>23 DEF FlushEnd, FlGoto, AfterFlush
<1>24. ASSUME CompSoftware PROVE gs' \in States
  BY <1>24 DEF CompSoftware, CompAt
<1>25. ASSUME hook_CompositeTagList PROVE gs' \in States
  BY <1>25 DEF hook_CompositeTagList, CompAt
<1>26. ASSUME CompObtain PROVE gs' \in States
  BY <1>26 DEF CompObtain, CompGoto
<1>27. ASSUME CompValidate PROVE gs' \in States
  BY <1>27 DEF CompValidate, CompAt, CompReady
<1>28. ASSUME CompBind PROVE gs' \in States
  BY <1>28 DEF CompBind, Poison
<1>29. ASSUME CompQuad PROVE gs' \in States
  BY <1>29, ZenonT(60) DEF CompQuad, Poison
<1>30. ASSUME CompUpload PROVE gs' \in States
  <2>1. chip_alloc_resource_id(gs) + 1 \in Positive
    BY NextResource DEF Positive
  <2> QED BY <1>30, <2>1 DEF CompUpload
<1>31. ASSUME CompStrip PROVE gs' \in States
  BY <1>31, ZenonT(60) DEF CompStrip, Poison
<1>32. ASSUME CompView PROVE gs' \in States
  <2>1. comp.res \in Nat
    BY DEF CompFrames
  <2> QED BY <1>32, <2>1, ZenonT(60) DEF CompView
<1>33. ASSUME CompAbandon PROVE gs' \in States
  BY <1>33 DEF CompAbandon
<1>34. ASSUME CompDraw PROVE gs' \in States
  BY <1>34, ZenonT(60) DEF CompDraw, Poison
<1>35. ASSUME CompRestoreShader PROVE gs' \in States
  BY <1>35 DEF CompRestoreShader, Poison
<1>36. ASSUME CompFreeView PROVE gs' \in States
  BY <1>36 DEF CompFreeView, Poison
<1>37. ASSUME CompFreeTexture PROVE gs' \in States
  BY <1>37 DEF CompFreeTexture
<1>38. ASSUME CompRestoreBlend PROVE gs' \in States
  BY <1>38 DEF CompRestoreBlend, Poison
<1>39. ASSUME CompRelease PROVE gs' \in States
  BY <1>39 DEF CompRelease
<1>40. ASSUME ResizeBegin PROVE gs' \in States
  BY <1>40 DEF ResizeBegin, RtgAt
<1>41. ASSUME ResizeStore PROVE gs' \in States
  <2>1. rtg.res + 1 \in Positive
    BY DEF RtgFrames, Positive
  <2> QED BY <1>41, <2>1 DEF ResizeStore
<1>42. ASSUME ResizeScanout PROVE gs' \in States
  BY <1>42 DEF ResizeScanout
<1>43. ASSUME ResizePublish PROVE gs' \in States
  <2>1. rtg.res \in Nat
    BY DEF RtgFrames
  <2> QED BY <1>43, <2>1 DEF ResizePublish
<1>44. ASSUME ResizeUnref PROVE gs' \in States
  BY <1>44 DEF ResizeUnref
<1>45. CASE UNCHANGED vars
  BY <1>45 DEF vars
<1> QED BY <1>1, <1>2, <1>3, <1>4, <1>5, <1>6, <1>7, <1>8, <1>9, <1>10, <1>11,
           <1>12, <1>13, <1>14, <1>15, <1>16, <1>17, <1>18, <1>19, <1>20,
           <1>21, <1>22, <1>23, <1>24, <1>25, <1>26, <1>27, <1>28, <1>29,
           <1>30, <1>31, <1>32, <1>33, <1>34, <1>35, <1>36, <1>37, <1>38,
           <1>39, <1>40, <1>41, <1>42, <1>43, <1>44, <1>45
    DEF Next, FlushTask, Init2D, Recover2D, Composite, Resize

\* Destroying a context takes it, its error and its resources off the device.
LEMMA DestroyEffect ==
    ASSUME Records, NEW t, NEW c, chip_CTXDestroy(t, c)
    PROVE  /\ host' \in Devices /\ fails' = fails /\ stray' = stray
           /\ host'.ctxs = host.ctxs \ {c} /\ host'.res = host.res
           /\ io_lock \in {None, t}
<1>1. /\ host.ctxs \ {c} \in SUBSET Nat /\ host.bad \ {c} \in SUBSET Nat
      /\ {a \in host.attached : a[1] # c} \in SUBSET (Nat \X Nat)
  BY DEF Records, Devices
<1> QED BY <1>1 DEF Records, Devices, chip_CTXDestroy, Done, MayEnter

\* The same for a resource that is created and attached.
LEMMA NewAttachedEffect ==
    ASSUME NEW h \in Devices, NEW c \in Nat, NEW r \in Positive
    PROVE  /\ Attached([h EXCEPT !.res = @ \cup {r}], c, r) \in Devices
           /\ Attached([h EXCEPT !.res = @ \cup {r}], c, r).ctxs = h.ctxs
           /\ Attached([h EXCEPT !.res = @ \cup {r}], c, r).res = h.res \cup {r}
<1> DEFINE g == [h EXCEPT !.res = @ \cup {r}]
<1>1. r \in Nat
  BY DEF Positive
<1>2. g \in Devices /\ g.ctxs = h.ctxs /\ g.res = h.res \cup {r}
  BY CreatedEffect
<1>3. /\ Attached(g, c, r) \in Devices /\ Attached(g, c, r).ctxs = g.ctxs
      /\ Attached(g, c, r).res = g.res
  <2> HIDE DEF g
  <2> QED BY <1>1, <1>2, AttachedEffect
<1> QED BY <1>2, <1>3

\* The device.
LEMMA HostNext ==
    ASSUME IInv, Next
    PROVE  host' \in Devices /\ fails' \in 0 .. MaxFail
<1> USE DEF IInv, Records, States, Devices
<1>1. ASSUME InitCTXCreate PROVE host' \in Devices /\ fails' \in 0 .. MaxFail
  <2>1. host.ctxs \cup {gs.next_ctx} \in SUBSET Nat
    OBVIOUS
  <2>2. CASE Refused("fl")
    BY <2>2, RefusedEffect
  <2>3. CASE chip_CTXCreate("fl", gs.next_ctx)
    BY <2>1, <2>3 DEF chip_CTXCreate, Done
  <2> QED BY <1>1, <2>2, <2>3 DEF InitCTXCreate
<1>2. ASSUME InitSubCtx PROVE host' \in Devices /\ fails' \in 0 .. MaxFail
  BY <1>2, SubmitEffect DEF InitSubCtx, CompFrames
<1>3. ASSUME InitCreate3D PROVE host' \in Devices /\ fails' \in 0 .. MaxFail
  <2>1. chip_alloc_resource_id(gs) \in Positive
    BY NextResource
  <2> QED BY <1>3, <2>1, CreatedEffect, CreateRefusedEffect
      DEF InitCreate3D, chip_ResourceCreate3D, Done
<1>4. ASSUME InitAttachBacking PROVE host' \in Devices /\ fails' \in 0 .. MaxFail
  BY <1>4, RefusedEffect DEF InitAttachBacking, Done
<1>5. ASSUME InitSetScanout PROVE host' \in Devices /\ fails' \in 0 .. MaxFail
  BY <1>5, RefusedEffect DEF InitSetScanout, chip_SetScanout, Done, FlFrames
<1>6. ASSUME InitPublish PROVE host' \in Devices /\ fails' \in 0 .. MaxFail
  BY <1>6, AttachedEffect DEF InitPublish, chip_CTXAttachResource, Done, FlFrames
<1>7. ASSUME InitPipeline PROVE host' \in Devices /\ fails' \in 0 .. MaxFail
  BY <1>7, SubmitEffect DEF InitPipeline, CompFrames
<1>8. ASSUME InitShaders PROVE host' \in Devices /\ fails' \in 0 .. MaxFail
  BY <1>8, SubmitEffect DEF InitShaders, CompFrames
<1>9. ASSUME InitSamplers PROVE host' \in Devices /\ fails' \in 0 .. MaxFail
  BY <1>9, SubmitEffect, SMTT(60) DEF InitSamplers, CompFrames
<1>10. ASSUME InitVertexElements PROVE host' \in Devices /\ fails' \in 0 .. MaxFail
  BY <1>10, SubmitEffect DEF InitVertexElements, CompFrames
<1>11. ASSUME InitVertexBuffer PROVE host' \in Devices /\ fails' \in 0 .. MaxFail
  <2> DEFINE id == chip_alloc_resource_id(gs)
  <2>1. id \in Positive
    BY NextResource
  <2>3. CASE Done("fl", Attached([host EXCEPT !.res = @ \cup {id}], gs.ctx, id))
    BY <2>1, <2>3, NewAttachedEffect DEF Done
  <2>4. CASE CreateRefused("fl", id)
    BY <2>4, CreateRefusedEffect
  <2> QED BY <1>11, <2>3, <2>4 DEF InitVertexBuffer
<1>12. ASSUME InitSurface PROVE host' \in Devices /\ fails' \in 0 .. MaxFail
  BY <1>12, SubmitEffect DEF InitSurface, CompFrames
<1>13. ASSUME InitTransfer PROVE host' \in Devices /\ fails' \in 0 .. MaxFail
  BY <1>13 DEF InitTransfer, FlAt, Done
<1>14. ASSUME chip_comp_init_blends PROVE host' \in Devices /\ fails' \in 0 .. MaxFail
  BY <1>14, SubmitEffect DEF chip_comp_init_blends, CompFrames
<1>15. ASSUME InitDestroy PROVE host' \in Devices /\ fails' \in 0 .. MaxFail
  BY <1>15, DestroyEffect DEF InitDestroy
<1>16. ASSUME Recover PROVE host' \in Devices /\ fails' \in 0 .. MaxFail
  BY <1>16 DEF Recover, FlAt, FlGoto, Poisoned
<1>17. ASSUME RecoverScanout PROVE host' \in Devices /\ fails' \in 0 .. MaxFail
  BY <1>17, RefusedEffect DEF RecoverScanout, chip_SetScanout, Done
<1>18. ASSUME RecoverDestroy PROVE host' \in Devices /\ fails' \in 0 .. MaxFail
  BY <1>18, DestroyEffect DEF RecoverDestroy
<1>19. ASSUME RecoverUnref PROVE host' \in Devices /\ fails' \in 0 .. MaxFail
  BY <1>19, WithoutEffect DEF RecoverUnref, Done
<1>20. ASSUME SkipRecovery PROVE host' \in Devices /\ fails' \in 0 .. MaxFail
  BY <1>20 DEF SkipRecovery, FlAt, FlGoto
<1>21. ASSUME FlushBegin PROVE host' \in Devices /\ fails' \in 0 .. MaxFail
  BY <1>21 DEF FlushBegin, FlGoto
<1>22. ASSUME FlushTransfer PROVE host' \in Devices /\ fails' \in 0 .. MaxFail
  BY <1>22, RefusedEffect DEF FlushTransfer, Done
<1>23. ASSUME FlushEnd PROVE host' \in Devices /\ fails' \in 0 .. MaxFail
  BY <1>23 DEF FlushEnd, FlGoto, AfterFlush
<1>24. ASSUME CompSoftware PROVE host' \in Devices /\ fails' \in 0 .. MaxFail
  BY <1>24 DEF CompSoftware, CompAt
<1>25. ASSUME hook_CompositeTagList PROVE host' \in Devices /\ fails' \in 0 .. MaxFail
  BY <1>25 DEF hook_CompositeTagList, CompAt
<1>26. ASSUME CompObtain PROVE host' \in Devices /\ fails' \in 0 .. MaxFail
  BY <1>26 DEF CompObtain, CompGoto
<1>27. ASSUME CompValidate PROVE host' \in Devices /\ fails' \in 0 .. MaxFail
  BY <1>27 DEF CompValidate, CompAt, CompReady
<1>28. ASSUME CompBind PROVE host' \in Devices /\ fails' \in 0 .. MaxFail
  BY <1>28, SubmitEffect, SMTT(60) DEF CompBind, CompFrames
<1>29. ASSUME CompQuad PROVE host' \in Devices /\ fails' \in 0 .. MaxFail
  <2>1. CASE \E ok \in BOOLEAN : virgl_submit("comp", gs.ctx, ok)
    BY <2>1, SubmitEffect
  <2>2. CASE UNCHANGED <<host, fails, stray>>
    BY <2>2
  <2> QED BY <1>29, <2>1, <2>2 DEF CompQuad
<1>30. ASSUME CompUpload PROVE host' \in Devices /\ fails' \in 0 .. MaxFail
  <2> DEFINE id == chip_alloc_resource_id(gs)
  <2>1. id \in Positive
    BY NextResource
  <2>3. CASE Done("comp", Attached([host EXCEPT !.res = @ \cup {id}], gs.ctx, id))
    BY <2>1, <2>3, NewAttachedEffect DEF Done
  <2>4. CASE CreateRefused("comp", id)
    BY <2>4, CreateRefusedEffect
  <2> QED BY <1>30, <2>3, <2>4 DEF CompUpload
<1>31. ASSUME CompStrip PROVE host' \in Devices /\ fails' \in 0 .. MaxFail
  <2>1. CASE \E ok \in BOOLEAN : virgl_submit("comp", gs.ctx, ok)
    BY <2>1, SubmitEffect
  <2>2. CASE UNCHANGED <<host, fails, stray>>
    BY <2>2
  <2> QED BY <1>31, <2>1, <2>2 DEF CompStrip
<1>32. ASSUME CompView PROVE host' \in Devices /\ fails' \in 0 .. MaxFail
  BY <1>32, SubmitEffect DEF CompView, CompFrames
<1>33. ASSUME CompAbandon PROVE host' \in Devices /\ fails' \in 0 .. MaxFail
  BY <1>33, WithoutEffect DEF CompAbandon, Abandoned, Done
<1>34. ASSUME CompDraw PROVE host' \in Devices /\ fails' \in 0 .. MaxFail
  <2>1. CASE \E ok \in BOOLEAN : virgl_submit("comp", gs.ctx, ok)
    BY <2>1, SubmitEffect
  <2>2. CASE UNCHANGED <<host, fails, stray>>
    BY <2>2
  <2> QED BY <1>34, <2>1, <2>2 DEF CompDraw
<1>35. ASSUME CompRestoreShader PROVE host' \in Devices /\ fails' \in 0 .. MaxFail
  BY <1>35, SubmitEffect DEF CompRestoreShader, CompFrames
<1>36. ASSUME CompFreeView PROVE host' \in Devices /\ fails' \in 0 .. MaxFail
  BY <1>36, SubmitEffect, SMTT(60) DEF CompFreeView, CompFrames
<1>37. ASSUME CompFreeTexture PROVE host' \in Devices /\ fails' \in 0 .. MaxFail
  BY <1>37, WithoutEffect DEF CompFreeTexture, Done
<1>38. ASSUME CompRestoreBlend PROVE host' \in Devices /\ fails' \in 0 .. MaxFail
  BY <1>38, SubmitEffect DEF CompRestoreBlend, CompFrames
<1>39. ASSUME CompRelease PROVE host' \in Devices /\ fails' \in 0 .. MaxFail
  BY <1>39 DEF CompRelease
<1>40. ASSUME ResizeBegin PROVE host' \in Devices /\ fails' \in 0 .. MaxFail
  BY <1>40 DEF ResizeBegin, RtgAt
<1>41. ASSUME ResizeStore PROVE host' \in Devices /\ fails' \in 0 .. MaxFail
  <2>1. CASE chip_ResourceCreate3D("rtg", rtg.res)
    <3>1. rtg.res \in Positive
      BY <1>41 DEF ResizeStore, RtgAt, Control
    <3> QED BY <2>1, <3>1, CreatedEffect DEF chip_ResourceCreate3D, Done
  <2>2. CASE CreateRefused("rtg", rtg.res)
    BY <2>2, CreateRefusedEffect
  <2> QED BY <1>41, <2>1, <2>2 DEF ResizeStore
<1>42. ASSUME ResizeScanout PROVE host' \in Devices /\ fails' \in 0 .. MaxFail
  BY <1>42, RefusedEffect DEF ResizeScanout, chip_SetScanout, Done, RtgFrames
<1>43. ASSUME ResizePublish PROVE host' \in Devices /\ fails' \in 0 .. MaxFail
  BY <1>43 DEF ResizePublish, RtgAt
<1>44. ASSUME ResizeUnref PROVE host' \in Devices /\ fails' \in 0 .. MaxFail
  BY <1>44, WithoutEffect DEF ResizeUnref, Done
<1>45. CASE UNCHANGED vars
  BY <1>45 DEF vars
<1> QED BY <1>1, <1>2, <1>3, <1>4, <1>5, <1>6, <1>7, <1>8, <1>9, <1>10, <1>11,
           <1>12, <1>13, <1>14, <1>15, <1>16, <1>17, <1>18, <1>19, <1>20,
           <1>21, <1>22, <1>23, <1>24, <1>25, <1>26, <1>27, <1>28, <1>29,
           <1>30, <1>31, <1>32, <1>33, <1>34, <1>35, <1>36, <1>37, <1>38,
           <1>39, <1>40, <1>41, <1>42, <1>43, <1>44, <1>45
    DEF Next, FlushTask, Init2D, Recover2D, Composite, Resize

\* The flush task holds the lock only around the conversion, a composite from its
\* second look at the context on.
LEMMA ControlNext ==
    ASSUME IInv, Next
    PROVE  Control'
<1> USE DEF IInv, Records, Control, FlFrames, CompFrames, RtgFrames, MayEnter,
            Pcs, InitPcs, CyclePcs, RecoverPcs, CompPcs, Drawing, Uploaded,
            Textured
<1>1. ASSUME InitCTXCreate PROVE Control'
  BY <1>1 DEF InitCTXCreate, FlAt, FlGoto, chip_CTXCreate, Done, Refused,
       Return
<1>2. ASSUME InitSubCtx PROVE Control'
  BY <1>2 DEF InitSubCtx, FlAt, FlGoto, virgl_submit, chip_Submit3D, Poison
<1>3. ASSUME InitCreate3D PROVE Control'
  BY <1>3 DEF InitCreate3D, FlAt, FlGoto, chip_ResourceCreate3D, CreateRefused,
       Done, Refused
<1>4. ASSUME InitAttachBacking PROVE Control'
  BY <1>4 DEF InitAttachBacking, FlAt, FlGoto, Done, Refused
<1>5. ASSUME InitSetScanout PROVE Control'
  BY <1>5 DEF InitSetScanout, FlAt, FlGoto, chip_SetScanout, Done, Refused
<1>6. ASSUME InitPublish PROVE Control'
  BY <1>6 DEF InitPublish, FlAt, FlGoto, chip_CTXAttachResource, Attached, Done
<1>7. ASSUME InitPipeline PROVE Control'
  BY <1>7 DEF InitPipeline, FlAt, virgl_submit, chip_Submit3D, Poison
<1>8. ASSUME InitShaders PROVE Control'
  BY <1>8 DEF InitShaders, FlAt, virgl_submit, chip_Submit3D, Poison
<1>9. ASSUME InitSamplers PROVE Control'
  BY <1>9 DEF InitSamplers, FlAt, FlGoto, virgl_submit, chip_Submit3D, Poison
<1>10. ASSUME InitVertexElements PROVE Control'
  BY <1>10 DEF InitVertexElements, FlAt, FlGoto, virgl_submit, chip_Submit3D,
       Poison
<1>11. ASSUME InitVertexBuffer PROVE Control'
  BY <1>11 DEF InitVertexBuffer, FlAt, FlGoto, Attached, CreateRefused, Done,
       Refused
<1>12. ASSUME InitSurface PROVE Control'
  BY <1>12 DEF InitSurface, FlAt, FlGoto, virgl_submit, chip_Submit3D, Poison
<1>13. ASSUME InitTransfer PROVE Control'
  BY <1>13, ConstantNumbers DEF InitTransfer, FlAt, Positive
<1>14. ASSUME chip_comp_init_blends PROVE Control'
  <2>1. fl.pc = "blends" /\ fl.n \in 1 .. Operators /\ UNCHANGED <<io_lock, comp, rtg>>
    BY <1>14 DEF chip_comp_init_blends, FlAt
  <2>2. \/ fl' = [fl EXCEPT !.n = @ + 1] /\ fl.n < Operators
        \/ fl'.pc = "cycle"
    BY <1>14 DEF chip_comp_init_blends
  <2> QED BY <2>1, <2>2, ConstantNumbers DEF Positive
<1>15. ASSUME InitDestroy PROVE Control'
  BY <1>15 DEF InitDestroy, FlAt, chip_CTXDestroy, Done
<1>16. ASSUME Recover PROVE Control'
  BY <1>16 DEF Recover, FlAt, FlGoto, Poisoned
<1>17. ASSUME RecoverScanout PROVE Control'
  BY <1>17 DEF RecoverScanout, FlAt, FlGoto, chip_SetScanout, Done, Refused
<1>18. ASSUME RecoverDestroy PROVE Control'
  BY <1>18 DEF RecoverDestroy, FlAt, FlGoto, chip_CTXDestroy, Done
<1>19. ASSUME RecoverUnref PROVE Control'
  BY <1>19 DEF RecoverUnref, FlAt, FlGoto, Without, Done
<1>20. ASSUME SkipRecovery PROVE Control'
  BY <1>20 DEF SkipRecovery, FlAt, FlGoto
<1>21. ASSUME FlushBegin PROVE Control'
  BY <1>21 DEF FlushBegin, FlGoto
<1>22. ASSUME FlushTransfer PROVE Control'
  BY <1>22 DEF FlushTransfer, FlAt, FlGoto, Done, Refused
<1>23. ASSUME FlushEnd PROVE Control'
  BY <1>23 DEF FlushEnd, FlGoto, AfterFlush
<1>24. ASSUME CompSoftware PROVE Control'
  BY <1>24 DEF CompSoftware, CompAt
<1>25. ASSUME hook_CompositeTagList PROVE Control'
  BY <1>25 DEF hook_CompositeTagList, CompAt
<1>26. ASSUME CompObtain PROVE Control'
  BY <1>26 DEF CompObtain, CompGoto
<1>27. ASSUME CompValidate PROVE Control'
  BY <1>27 DEF CompValidate, CompAt, CompReady
<1>28. ASSUME CompBind PROVE Control'
  BY <1>28 DEF CompBind, CompAt, CompGoto, virgl_submit, chip_Submit3D, Poison
<1>29. ASSUME CompQuad PROVE Control'
  BY <1>29 DEF CompQuad, CompAt, CompGoto, virgl_submit, chip_Submit3D, Poison
<1>30. ASSUME CompUpload PROVE Control'
  <2>1. comp'.pc \in {"strips", "unlock"} /\ comp'.rows \in {comp.rows, 0}
        /\ (comp'.pc = "strips" => comp'.rows = 0) /\ UNCHANGED <<io_lock, fl, rtg>>
    BY <1>30 DEF CompUpload, CompAt, CompGoto
  <2> QED BY <1>30, <2>1, ConstantNumbers DEF CompUpload, CompAt, Positive
<1>31. ASSUME CompStrip PROVE Control'
  BY <1>31 DEF CompStrip, CompAt, CompGoto, virgl_submit, chip_Submit3D, Poison
<1>32. ASSUME CompView PROVE Control'
  BY <1>32 DEF CompView, CompAt, CompGoto, virgl_submit, chip_Submit3D
<1>33. ASSUME CompAbandon PROVE Control'
  BY <1>33 DEF CompAbandon, CompAt, Abandoned, Without, Done
<1>34. ASSUME CompDraw PROVE Control'
  BY <1>34 DEF CompDraw, CompAt, CompGoto, virgl_submit, chip_Submit3D, Poison
<1>35. ASSUME CompRestoreShader PROVE Control'
  BY <1>35 DEF CompRestoreShader, CompAt, CompGoto, virgl_submit,
       chip_Submit3D, Poison
<1>36. ASSUME CompFreeView PROVE Control'
  BY <1>36 DEF CompFreeView, CompAt, CompGoto, virgl_submit, chip_Submit3D,
       Poison
<1>37. ASSUME CompFreeTexture PROVE Control'
  BY <1>37 DEF CompFreeTexture, CompAt, Without, Done
<1>38. ASSUME CompRestoreBlend PROVE Control'
  BY <1>38 DEF CompRestoreBlend, CompAt, CompGoto, virgl_submit, chip_Submit3D,
       Poison
<1>39. ASSUME CompRelease PROVE Control'
  BY <1>39 DEF CompRelease
<1>40. ASSUME ResizeBegin PROVE Control'
  BY <1>40, NextResource DEF ResizeBegin, RtgAt, Positive
<1>41. ASSUME ResizeStore PROVE Control'
  BY <1>41 DEF ResizeStore, RtgAt, chip_ResourceCreate3D, CreateRefused, Done,
       Refused
<1>42. ASSUME ResizeScanout PROVE Control'
  BY <1>42 DEF ResizeScanout, RtgAt, chip_SetScanout, Done, Refused
<1>43. ASSUME ResizePublish PROVE Control'
  BY <1>43 DEF ResizePublish, RtgAt
<1>44. ASSUME ResizeUnref PROVE Control'
  BY <1>44 DEF ResizeUnref, RtgAt, Without, Done
<1>45. CASE UNCHANGED vars
  BY <1>45, ZenonT(60) DEF vars
<1> QED BY <1>1, <1>2, <1>3, <1>4, <1>5, <1>6, <1>7, <1>8, <1>9, <1>10, <1>11,
           <1>12, <1>13, <1>14, <1>15, <1>16, <1>17, <1>18, <1>19, <1>20,
           <1>21, <1>22, <1>23, <1>24, <1>25, <1>26, <1>27, <1>28, <1>29,
           <1>30, <1>31, <1>32, <1>33, <1>34, <1>35, <1>36, <1>37, <1>38,
           <1>39, <1>40, <1>41, <1>42, <1>43, <1>44, <1>45
    DEF Next, FlushTask, Init2D, Recover2D, Composite, Resize

\* A context is destroyed only while no composite draws.
LEMMA ContextsNext ==
    ASSUME IInv, Next
    PROVE  Contexts' /\ stray' = FALSE
<1> USE DEF IInv, Records, Control, Contexts, States, Devices, FlFrames,
            CompFrames, RtgFrames, MayEnter, InUse, Pcs, InitPcs, CyclePcs,
            RecoverPcs, CompPcs, Drawing, Uploaded, Textured
<1>1. ASSUME InitCTXCreate PROVE Contexts' /\ stray' = FALSE
  <2>1. fl.pc = "ctx" /\ comp' = comp /\ stray' = stray
        /\ gs' = [gs EXCEPT !.ready = FALSE, !.ctx = gs.next_ctx,
                           !.next_ctx = gs.next_ctx + 1]
    BY <1>1 DEF InitCTXCreate, FlAt, chip_CTXCreate, Done, Refused
  <2>2. ~gs'.ready /\ gs'.ctx = gs.next_ctx /\ comp.pc \notin Drawing
    BY <2>1
  <2>3. CASE fl' = [fl EXCEPT !.pc = "sub_ctx"] /\ chip_CTXCreate("fl", gs.next_ctx)
    BY <2>1, <2>2, <2>3 DEF chip_CTXCreate, Done
  <2>4. CASE fl' = [fl EXCEPT !.pc = "cycle", !.res = 0]
    BY <2>1, <2>2, <2>4
  <2> QED BY <1>1, <2>3, <2>4 DEF InitCTXCreate, FlGoto, Return
<1>2. ASSUME InitSubCtx PROVE Contexts' /\ stray' = FALSE
  BY <1>2 DEF InitSubCtx, FlAt, FlGoto, virgl_submit, chip_Submit3D, Poison
<1>3. ASSUME InitCreate3D PROVE Contexts' /\ stray' = FALSE
  BY <1>3 DEF InitCreate3D, FlAt, FlGoto, chip_ResourceCreate3D, CreateRefused,
       Done, Refused
<1>4. ASSUME InitAttachBacking PROVE Contexts' /\ stray' = FALSE
  BY <1>4 DEF InitAttachBacking, FlAt, FlGoto, Done, Refused
<1>5. ASSUME InitSetScanout PROVE Contexts' /\ stray' = FALSE
  BY <1>5 DEF InitSetScanout, FlAt, FlGoto, chip_SetScanout, Done, Refused
<1>6. ASSUME InitPublish PROVE Contexts' /\ stray' = FALSE
  BY <1>6 DEF InitPublish, FlAt, FlGoto, chip_CTXAttachResource, Attached, Done
<1>7. ASSUME InitPipeline PROVE Contexts' /\ stray' = FALSE
  BY <1>7 DEF InitPipeline, FlAt, virgl_submit, chip_Submit3D, Poison
<1>8. ASSUME InitShaders PROVE Contexts' /\ stray' = FALSE
  BY <1>8 DEF InitShaders, FlAt, virgl_submit, chip_Submit3D, Poison
<1>9. ASSUME InitSamplers PROVE Contexts' /\ stray' = FALSE
  BY <1>9 DEF InitSamplers, FlAt, FlGoto, virgl_submit, chip_Submit3D, Poison
<1>10. ASSUME InitVertexElements PROVE Contexts' /\ stray' = FALSE
  BY <1>10 DEF InitVertexElements, FlAt, FlGoto, virgl_submit, chip_Submit3D,
       Poison
<1>11. ASSUME InitVertexBuffer PROVE Contexts' /\ stray' = FALSE
  <2>1. fl.pc = "vbuf" /\ fl' = [fl EXCEPT !.pc = "surface"] /\ comp' = comp
    BY <1>11 DEF InitVertexBuffer, FlAt, FlGoto
  <2>2. gs'.ready = gs.ready /\ gs'.ctx = gs.ctx
    BY <1>11 DEF InitVertexBuffer
  <2>3. host'.ctxs = host.ctxs /\ stray' = stray
    BY <1>11, NewAttachedEffect, CreateRefusedEffect, NextResource
       DEF InitVertexBuffer, Done
  <2> QED BY <2>1, <2>2, <2>3
<1>12. ASSUME InitSurface PROVE Contexts' /\ stray' = FALSE
  BY <1>12 DEF InitSurface, FlAt, FlGoto, virgl_submit, chip_Submit3D, Poison
<1>13. ASSUME InitTransfer PROVE Contexts' /\ stray' = FALSE
  BY <1>13 DEF InitTransfer, FlAt, Done
<1>14. ASSUME chip_comp_init_blends PROVE Contexts' /\ stray' = FALSE
  BY <1>14 DEF chip_comp_init_blends, FlAt, virgl_submit, chip_Submit3D, Poison
<1>15. ASSUME InitDestroy PROVE Contexts' /\ stray' = FALSE
  BY <1>15 DEF InitDestroy, FlAt, chip_CTXDestroy, Done
<1>16. ASSUME Recover PROVE Contexts' /\ stray' = FALSE
  BY <1>16 DEF Recover, FlAt, FlGoto, Poisoned
<1>17. ASSUME RecoverScanout PROVE Contexts' /\ stray' = FALSE
  BY <1>17 DEF RecoverScanout, FlAt, FlGoto, chip_SetScanout, Done, Refused
<1>18. ASSUME RecoverDestroy PROVE Contexts' /\ stray' = FALSE
  BY <1>18 DEF RecoverDestroy, FlAt, FlGoto, chip_CTXDestroy, Done
<1>19. ASSUME RecoverUnref PROVE Contexts' /\ stray' = FALSE
  <2>1. fl.pc = "old_res" /\ fl'.pc \in {"old_res", "ctx"} /\ comp' = comp
    BY <1>19 DEF RecoverUnref, FlAt, FlGoto
  <2>2. gs'.ready = gs.ready /\ stray' = stray
    BY <1>19 DEF RecoverUnref, Done
  <2> QED BY <2>1, <2>2
<1>20. ASSUME SkipRecovery PROVE Contexts' /\ stray' = FALSE
  BY <1>20 DEF SkipRecovery, FlAt, FlGoto
<1>21. ASSUME FlushBegin PROVE Contexts' /\ stray' = FALSE
  BY <1>21 DEF FlushBegin, FlGoto
<1>22. ASSUME FlushTransfer PROVE Contexts' /\ stray' = FALSE
  BY <1>22 DEF FlushTransfer, FlAt, FlGoto, Done, Refused
<1>23. ASSUME FlushEnd PROVE Contexts' /\ stray' = FALSE
  BY <1>23 DEF FlushEnd, FlGoto, AfterFlush
<1>24. ASSUME CompSoftware PROVE Contexts' /\ stray' = FALSE
  BY <1>24 DEF CompSoftware, CompAt
<1>25. ASSUME hook_CompositeTagList PROVE Contexts' /\ stray' = FALSE
  BY <1>25 DEF hook_CompositeTagList, CompAt
<1>26. ASSUME CompObtain PROVE Contexts' /\ stray' = FALSE
  BY <1>26 DEF CompObtain, CompGoto
<1>27. ASSUME CompValidate PROVE Contexts' /\ stray' = FALSE
  BY <1>27 DEF CompValidate, CompAt, CompReady
<1>28. ASSUME CompBind PROVE Contexts' /\ stray' = FALSE
  BY <1>28 DEF CompBind, CompAt, CompGoto, virgl_submit, chip_Submit3D, Poison
<1>29. ASSUME CompQuad PROVE Contexts' /\ stray' = FALSE
  BY <1>29 DEF CompQuad, CompAt, CompGoto, virgl_submit, chip_Submit3D, Poison
<1>30. ASSUME CompUpload PROVE Contexts' /\ stray' = FALSE
  <2>1. /\ comp.pc = "texture" /\ comp'.pc \in Drawing \cup {"unlock"}
        /\ comp'.ctx = comp.ctx /\ fl' = fl
    BY <1>30, ZenonT(60) DEF CompUpload, CompAt, CompGoto
  <2>2. gs'.ready = gs.ready /\ gs'.ctx = gs.ctx
    BY <1>30 DEF CompUpload
  <2>3. host'.ctxs = host.ctxs /\ stray' = stray
    BY <1>30, NewAttachedEffect, CreateRefusedEffect, NextResource
       DEF CompUpload, Done
  <2> QED BY <2>1, <2>2, <2>3
<1>31. ASSUME CompStrip PROVE Contexts' /\ stray' = FALSE
  <2>1. /\ comp.pc = "strips" /\ comp'.pc \in Drawing
        /\ comp'.ctx = comp.ctx /\ fl' = fl
    BY <1>31, ZenonT(60) DEF CompStrip, CompAt, CompGoto
  <2>2. gs'.ready = gs.ready /\ gs'.ctx = gs.ctx
    BY <1>31, ZenonT(60) DEF CompStrip, Poison
  <2>3. CASE \E ok \in BOOLEAN : virgl_submit("comp", gs.ctx, ok)
    BY <2>1, <2>2, <2>3 DEF virgl_submit, chip_Submit3D
  <2>4. CASE UNCHANGED <<host, fails, stray>>
    BY <2>1, <2>2, <2>4
  <2> QED BY <1>31, <2>3, <2>4 DEF CompStrip
<1>32. ASSUME CompView PROVE Contexts' /\ stray' = FALSE
  BY <1>32 DEF CompView, CompAt, CompGoto, virgl_submit, chip_Submit3D
<1>33. ASSUME CompAbandon PROVE Contexts' /\ stray' = FALSE
  BY <1>33 DEF CompAbandon, CompAt, Abandoned, Without, Done
<1>34. ASSUME CompDraw PROVE Contexts' /\ stray' = FALSE
  BY <1>34 DEF CompDraw, CompAt, CompGoto, virgl_submit, chip_Submit3D, Poison
<1>35. ASSUME CompRestoreShader PROVE Contexts' /\ stray' = FALSE
  BY <1>35 DEF CompRestoreShader, CompAt, CompGoto, virgl_submit,
       chip_Submit3D, Poison
<1>36. ASSUME CompFreeView PROVE Contexts' /\ stray' = FALSE
  BY <1>36 DEF CompFreeView, CompAt, CompGoto, virgl_submit, chip_Submit3D,
       Poison
<1>37. ASSUME CompFreeTexture PROVE Contexts' /\ stray' = FALSE
  BY <1>37 DEF CompFreeTexture, CompAt, Without, Done
<1>38. ASSUME CompRestoreBlend PROVE Contexts' /\ stray' = FALSE
  BY <1>38 DEF CompRestoreBlend, CompAt, CompGoto, virgl_submit, chip_Submit3D,
       Poison
<1>39. ASSUME CompRelease PROVE Contexts' /\ stray' = FALSE
  BY <1>39 DEF CompRelease
<1>40. ASSUME ResizeBegin PROVE Contexts' /\ stray' = FALSE
  BY <1>40 DEF ResizeBegin, RtgAt
<1>41. ASSUME ResizeStore PROVE Contexts' /\ stray' = FALSE
  BY <1>41 DEF ResizeStore, RtgAt, chip_ResourceCreate3D, CreateRefused, Done,
       Refused
<1>42. ASSUME ResizeScanout PROVE Contexts' /\ stray' = FALSE
  BY <1>42 DEF ResizeScanout, RtgAt, chip_SetScanout, Done, Refused
<1>43. ASSUME ResizePublish PROVE Contexts' /\ stray' = FALSE
  BY <1>43 DEF ResizePublish, RtgAt
<1>44. ASSUME ResizeUnref PROVE Contexts' /\ stray' = FALSE
  BY <1>44 DEF ResizeUnref, RtgAt, Without, Done
<1>45. CASE UNCHANGED vars
  BY <1>45 DEF vars
<1> QED BY <1>1, <1>2, <1>3, <1>4, <1>5, <1>6, <1>7, <1>8, <1>9, <1>10, <1>11,
           <1>12, <1>13, <1>14, <1>15, <1>16, <1>17, <1>18, <1>19, <1>20,
           <1>21, <1>22, <1>23, <1>24, <1>25, <1>26, <1>27, <1>28, <1>29,
           <1>30, <1>31, <1>32, <1>33, <1>34, <1>35, <1>36, <1>37, <1>38,
           <1>39, <1>40, <1>41, <1>42, <1>43, <1>44, <1>45
    DEF Next, FlushTask, Init2D, Recover2D, Composite, Resize

\* Each step passes on what it remembers.
LEMMA OwnersNext ==
    ASSUME IInv, Next
    PROVE  Owners'
<1> USE DEF IInv, Records, Control, Contexts, Owners, States, Devices,
            FlFrames, CompFrames, RtgFrames, MayEnter, InUse, BeforePublish,
            AfterPublish, BeforeVbuf, Pcs, InitPcs, CyclePcs, RecoverPcs,
            CompPcs, Drawing, Uploaded, Textured
<1>1. ASSUME InitCTXCreate PROVE Owners'
  <2>1. fl.pc = "ctx" /\ comp' = comp 
        /\ fl'.pc \in {"sub_ctx", "cycle"} /\ fl'.res = 0
    BY <1>1, ZenonT(60) DEF InitCTXCreate, FlAt, FlGoto, Return
  <2>2. /\ gs'.tex = gs.tex /\ gs'.resource = gs.resource /\ gs'.vbuf = gs.vbuf
        /\ gs'.ctx_error = gs.ctx_error
    BY <1>1 DEF InitCTXCreate
  <2> QED BY <2>1, <2>2
<1>2. ASSUME InitSubCtx PROVE Owners'
  BY <1>2 DEF InitSubCtx, FlAt, FlGoto, virgl_submit, chip_Submit3D, Poison
<1>3. ASSUME InitCreate3D PROVE Owners'
  BY <1>3, ZenonT(60) DEF InitCreate3D, FlAt, FlGoto, chip_ResourceCreate3D, CreateRefused,
       Done, Refused
<1>4. ASSUME InitAttachBacking PROVE Owners'
  BY <1>4 DEF InitAttachBacking, FlAt, FlGoto, Done, Refused
<1>5. ASSUME InitSetScanout PROVE Owners'
  BY <1>5 DEF InitSetScanout, FlAt, FlGoto, chip_SetScanout, Done, Refused
<1>6. ASSUME InitPublish PROVE Owners'
  BY <1>6 DEF InitPublish, FlAt, FlGoto, chip_CTXAttachResource, Attached, Done
<1>7. ASSUME InitPipeline PROVE Owners'
  BY <1>7 DEF InitPipeline, FlAt, virgl_submit, chip_Submit3D, Poison
<1>8. ASSUME InitShaders PROVE Owners'
  BY <1>8 DEF InitShaders, FlAt, virgl_submit, chip_Submit3D, Poison
<1>9. ASSUME InitSamplers PROVE Owners'
  BY <1>9 DEF InitSamplers, FlAt, FlGoto, virgl_submit, chip_Submit3D, Poison
<1>10. ASSUME InitVertexElements PROVE Owners'
  BY <1>10 DEF InitVertexElements, FlAt, FlGoto, virgl_submit, chip_Submit3D,
       Poison
<1>11. ASSUME InitVertexBuffer PROVE Owners'
  BY <1>11, ZenonT(60) DEF InitVertexBuffer, FlAt, FlGoto, Attached, CreateRefused, Done,
       Refused
<1>12. ASSUME InitSurface PROVE Owners'
  BY <1>12 DEF InitSurface, FlAt, FlGoto, virgl_submit, chip_Submit3D, Poison
<1>13. ASSUME InitTransfer PROVE Owners'
  BY <1>13 DEF InitTransfer, FlAt, Done
<1>14. ASSUME chip_comp_init_blends PROVE Owners'
  BY <1>14 DEF chip_comp_init_blends, FlAt, virgl_submit, chip_Submit3D, Poison
<1>15. ASSUME InitDestroy PROVE Owners'
  BY <1>15 DEF InitDestroy, FlAt, chip_CTXDestroy, Done
<1>16. ASSUME Recover PROVE Owners'
  BY <1>16 DEF Recover, FlAt, FlGoto, Poisoned
<1>17. ASSUME RecoverScanout PROVE Owners'
  BY <1>17 DEF RecoverScanout, FlAt, FlGoto, chip_SetScanout, Done, Refused
<1>18. ASSUME RecoverDestroy PROVE Owners'
  BY <1>18 DEF RecoverDestroy, FlAt, FlGoto, chip_CTXDestroy, Done
<1>19. ASSUME RecoverUnref PROVE Owners'
  BY <1>19, ZenonT(60) DEF RecoverUnref, FlAt, FlGoto, Without, Done
<1>20. ASSUME SkipRecovery PROVE Owners'
  BY <1>20 DEF SkipRecovery, FlAt, FlGoto
<1>21. ASSUME FlushBegin PROVE Owners'
  BY <1>21 DEF FlushBegin, FlGoto
<1>22. ASSUME FlushTransfer PROVE Owners'
  BY <1>22 DEF FlushTransfer, FlAt, FlGoto, Done, Refused
<1>23. ASSUME FlushEnd PROVE Owners'
  BY <1>23 DEF FlushEnd, FlGoto, AfterFlush
<1>24. ASSUME CompSoftware PROVE Owners'
  BY <1>24 DEF CompSoftware, CompAt
<1>25. ASSUME hook_CompositeTagList PROVE Owners'
  BY <1>25 DEF hook_CompositeTagList, CompAt
<1>26. ASSUME CompObtain PROVE Owners'
  BY <1>26 DEF CompObtain, CompGoto
<1>27. ASSUME CompValidate PROVE Owners'
  BY <1>27 DEF CompValidate, CompAt, CompReady
<1>28. ASSUME CompBind PROVE Owners'
  BY <1>28 DEF CompBind, CompAt, CompGoto, virgl_submit, chip_Submit3D, Poison
<1>29. ASSUME CompQuad PROVE Owners'
  BY <1>29 DEF CompQuad, CompAt, CompGoto, virgl_submit, chip_Submit3D, Poison
<1>30. ASSUME CompUpload PROVE Owners'
  <2>1. comp.pc = "texture" /\ fl' = fl
    BY <1>30 DEF CompUpload, CompAt
  <2>2. \/ comp'.pc = "unlock" /\ comp'.res = comp.res
        \/ comp'.pc = "strips"
    BY <1>30 DEF CompUpload, CompGoto
  <2>3. /\ gs'.tex = gs.tex /\ gs'.resource = gs.resource /\ gs'.vbuf = gs.vbuf
        /\ gs'.ctx_error = gs.ctx_error
    BY <1>30 DEF CompUpload
  <2> QED BY <2>1, <2>2, <2>3
<1>31. ASSUME CompStrip PROVE Owners'
  <2>1. /\ comp.pc = "strips" /\ comp'.pc \in {"strips", "view", "abandon"}
        /\ comp'.res = comp.res /\ fl' = fl
    BY <1>31, ZenonT(60) DEF CompStrip, CompAt, CompGoto
  <2>2. /\ gs'.tex = gs.tex /\ gs'.resource = gs.resource /\ gs'.vbuf = gs.vbuf
    BY <1>31, ZenonT(60) DEF CompStrip, Poison
  <2> QED BY <2>1, <2>2
<1>32. ASSUME CompView PROVE Owners'
  BY <1>32 DEF CompView, CompAt, CompGoto, virgl_submit, chip_Submit3D
<1>33. ASSUME CompAbandon PROVE Owners'
  BY <1>33 DEF CompAbandon, CompAt, Abandoned, Without, Done
<1>34. ASSUME CompDraw PROVE Owners'
  BY <1>34 DEF CompDraw, CompAt, CompGoto, virgl_submit, chip_Submit3D, Poison
<1>35. ASSUME CompRestoreShader PROVE Owners'
  BY <1>35 DEF CompRestoreShader, CompAt, CompGoto, virgl_submit,
       chip_Submit3D, Poison
<1>36. ASSUME CompFreeView PROVE Owners'
  BY <1>36 DEF CompFreeView, CompAt, CompGoto, virgl_submit, chip_Submit3D,
       Poison
<1>37. ASSUME CompFreeTexture PROVE Owners'
  BY <1>37 DEF CompFreeTexture, CompAt, Without, Done
<1>38. ASSUME CompRestoreBlend PROVE Owners'
  BY <1>38 DEF CompRestoreBlend, CompAt, CompGoto, virgl_submit, chip_Submit3D,
       Poison
<1>39. ASSUME CompRelease PROVE Owners'
  BY <1>39 DEF CompRelease
<1>40. ASSUME ResizeBegin PROVE Owners'
  BY <1>40 DEF ResizeBegin, RtgAt
<1>41. ASSUME ResizeStore PROVE Owners'
  BY <1>41 DEF ResizeStore, RtgAt, chip_ResourceCreate3D, CreateRefused, Done,
       Refused
<1>42. ASSUME ResizeScanout PROVE Owners'
  BY <1>42 DEF ResizeScanout, RtgAt, chip_SetScanout, Done, Refused
<1>43. ASSUME ResizePublish PROVE Owners'
  BY <1>43 DEF ResizePublish, RtgAt
<1>44. ASSUME ResizeUnref PROVE Owners'
  BY <1>44 DEF ResizeUnref, RtgAt, Without, Done
<1>45. CASE UNCHANGED vars
  BY <1>45 DEF vars
<1> QED BY <1>1, <1>2, <1>3, <1>4, <1>5, <1>6, <1>7, <1>8, <1>9, <1>10, <1>11,
           <1>12, <1>13, <1>14, <1>15, <1>16, <1>17, <1>18, <1>19, <1>20,
           <1>21, <1>22, <1>23, <1>24, <1>25, <1>26, <1>27, <1>28, <1>29,
           <1>30, <1>31, <1>32, <1>33, <1>34, <1>35, <1>36, <1>37, <1>38,
           <1>39, <1>40, <1>41, <1>42, <1>43, <1>44, <1>45
    DEF Next, FlushTask, Init2D, Recover2D, Composite, Resize

\* No resource has the number 0, which stands for none.
LEMMA NoZero == IInv => 0 \notin host.res
BY DEF IInv, Records, Devices, Positive

\* What forgets no resource keeps them tracked.
LEMMA LessLost ==
    ASSUME IInv, Lost' \subseteq Lost, GivenUp => GivenUp'
    PROVE  Tracked'
BY DEF IInv, Tracked

LEMMA StillTracked ==
    ASSUME IInv, host'.res = host.res,
           gs'.fb_resource_id = gs.fb_resource_id, gs'.resource = gs.resource,
           gs'.vbuf = gs.vbuf, gs'.tex = gs.tex,
           fl'.res = fl.res, comp'.res = comp.res,
           rtg.pc \in Resizing <=> rtg'.pc \in Resizing,
           rtg.pc \in Resizing => rtg'.res = rtg.res,
           GivenUp => GivenUp'
    PROVE  Tracked'
<1>1. Lost' = Lost
  BY DEF Lost
<1> QED BY <1>1, LessLost

\* Only giving up forgets a resource, and there is no giving up twice.
LEMMA TrackedNext ==
    ASSUME IInv, Next
    PROVE  Tracked'
<1> USE DEF IInv, Records, Control, Contexts, Owners, Tracked, GivenUp, States,
            Devices, FlFrames, CompFrames, RtgFrames, InUse, BeforePublish,
            AfterPublish, BeforeVbuf, Resizing, Pcs, InitPcs, CyclePcs,
            RecoverPcs, CompPcs, Drawing, Uploaded, Textured
<1>1. ASSUME InitCTXCreate PROVE Tracked'
  <2>1. host'.res = host.res
    BY <1>1 DEF InitCTXCreate, chip_CTXCreate, Done, Refused
  <2>2. UNCHANGED <<comp, rtg>> /\ fl'.res = 0 /\ fl.res = 0 /\ fl.pc = "ctx"
    BY <1>1 DEF InitCTXCreate, FlAt, FlGoto, Return
  <2> QED BY <1>1, <2>1, <2>2, StillTracked DEF InitCTXCreate
<1>2. ASSUME InitSubCtx PROVE Tracked'
  <2>1. host'.res = host.res
    BY <1>2, SubmitEffect DEF InitSubCtx
  <2> QED BY <1>2, <2>1, StillTracked, ZenonT(60) DEF InitSubCtx, FlAt, FlGoto, Poison
<1>3. ASSUME InitCreate3D PROVE Tracked'
  <2> DEFINE id == chip_alloc_resource_id(gs)
  <2>1. /\ fl.pc = "create" /\ fl.res = 0 /\ UNCHANGED <<comp, rtg>>
        /\ gs' = [gs EXCEPT !.next_res = id + 1]
    BY <1>3 DEF InitCreate3D, FlAt
  <2>2. CASE chip_ResourceCreate3D("fl", id) /\ fl' = [fl EXCEPT !.pc = "attach", !.res = id]
    <3>1. host'.res = host.res \cup {id} /\ fl'.res = id
      BY <2>2 DEF chip_ResourceCreate3D, Done
    <3>2. Lost' \subseteq Lost
      BY <2>1, <3>1, NoZero DEF Lost
    <3> QED BY <2>1, <3>2, LessLost
  <2>3. CASE CreateRefused("fl", id) /\ FlGoto("destroy")
    BY <2>1, <2>3, CreateRefusedEffect, StillTracked DEF FlGoto
  <2> QED BY <1>3, <2>2, <2>3 DEF InitCreate3D
<1>4. ASSUME InitAttachBacking PROVE Tracked'
  BY <1>4, StillTracked, ZenonT(60)
     DEF InitAttachBacking, FlAt, FlGoto, Done, Refused
<1>5. ASSUME InitSetScanout PROVE Tracked'
  BY <1>5, StillTracked, ZenonT(60)
     DEF InitSetScanout, FlAt, FlGoto, chip_SetScanout, Done, Refused
<1>6. ASSUME InitPublish PROVE Tracked'
  <2>1. fl.pc = "publish" /\ gs.resource = 0 /\ UNCHANGED <<comp, rtg>> /\ fl'.res = fl.res
    BY <1>6 DEF InitPublish, FlAt, FlGoto
  <2>2. host'.res = host.res
    BY <1>6 DEF InitPublish, chip_CTXAttachResource, Attached, Done
  <2>3. /\ gs'.fb_resource_id = gs.fb_resource_id /\ gs'.vbuf = gs.vbuf
        /\ gs'.tex = gs.tex
    BY <1>6 DEF InitPublish
  <2>4. Lost' \subseteq Lost
    BY <2>1, <2>2, <2>3, NoZero DEF Lost
  <2> QED BY <2>1, <2>4, LessLost
<1>7. ASSUME InitPipeline PROVE Tracked'
  <2>1. host'.res = host.res
    BY <1>7, SubmitEffect DEF InitPipeline
  <2> QED BY <1>7, <2>1, StillTracked, ZenonT(60) DEF InitPipeline, FlAt, Poison
<1>8. ASSUME InitShaders PROVE Tracked'
  <2>1. host'.res = host.res
    BY <1>8, SubmitEffect DEF InitShaders
  <2> QED BY <1>8, <2>1, StillTracked DEF InitShaders, FlAt, Poison
<1>9. ASSUME InitSamplers PROVE Tracked'
  <2>1. host'.res = host.res
    BY <1>9, SubmitEffect DEF InitSamplers
  <2> QED BY <1>9, <2>1, StillTracked, ZenonT(60) DEF InitSamplers, FlAt, FlGoto, Poison
<1>10. ASSUME InitVertexElements PROVE Tracked'
  <2>1. host'.res = host.res
    BY <1>10, SubmitEffect DEF InitVertexElements
  <2> QED BY <1>10, <2>1, StillTracked DEF InitVertexElements, FlAt, FlGoto, Poison
<1>11. ASSUME InitVertexBuffer PROVE Tracked'
  <2> DEFINE id == chip_alloc_resource_id(gs)
  <2>1. fl.pc = "vbuf" /\ gs.vbuf = 0 /\ UNCHANGED <<comp, rtg>> /\ fl'.res = fl.res
    BY <1>11 DEF InitVertexBuffer, FlAt, FlGoto
  <2>2. \/ host'.res = host.res \cup {id} /\ gs'.vbuf = id
        \/ host'.res = host.res /\ gs'.vbuf = 0
    <3>1. CASE /\ Done("fl", Attached([host EXCEPT !.res = @ \cup {id}], gs.ctx, id))
               /\ gs' = [gs EXCEPT !.next_res = id + 1, !.vbuf = id]
      BY <3>1, NewAttachedEffect, NextResource DEF Done
    <3>2. CASE /\ CreateRefused("fl", id)
               /\ gs' = [gs EXCEPT !.next_res = id + 1, !.vbuf = 0]
      BY <3>2, CreateRefusedEffect
    <3> QED BY <1>11, <3>1, <3>2 DEF InitVertexBuffer
  <2>3. /\ gs'.fb_resource_id = gs.fb_resource_id /\ gs'.resource = gs.resource
        /\ gs'.tex = gs.tex
    BY <1>11 DEF InitVertexBuffer
  <2>4. Lost' \subseteq Lost
    BY <2>1, <2>2, <2>3, NoZero DEF Lost
  <2> QED BY <2>1, <2>4, LessLost
<1>12. ASSUME InitSurface PROVE Tracked'
  <2>1. host'.res = host.res
    BY <1>12, SubmitEffect DEF InitSurface
  <2> QED BY <1>12, <2>1, StillTracked, ZenonT(60) DEF InitSurface, FlAt, FlGoto, Poison
<1>13. ASSUME InitTransfer PROVE Tracked'
  <2>1. /\ fl.pc = "transfer" /\ gs.resource = fl.res /\ fl'.res = 0
        /\ UNCHANGED <<comp, rtg, host>>
    BY <1>13 DEF InitTransfer, FlAt, Done
  <2>2. /\ gs'.fb_resource_id = gs.fb_resource_id /\ gs'.resource = gs.resource
        /\ gs'.vbuf = gs.vbuf /\ gs'.tex = gs.tex
    BY <1>13 DEF InitTransfer
  <2>3. Lost' \subseteq Lost
    BY <2>1, <2>2 DEF Lost
  <2> QED BY <2>1, <2>3, LessLost
<1>14. ASSUME chip_comp_init_blends PROVE Tracked'
  <2>1. host'.res = host.res
    BY <1>14, SubmitEffect DEF chip_comp_init_blends
  <2>2. fl.pc = "blends" /\ fl'.res = fl.res /\ UNCHANGED <<comp, rtg>>
    BY <1>14 DEF chip_comp_init_blends, FlAt
  <2>3. /\ gs'.fb_resource_id = gs.fb_resource_id /\ gs'.resource = gs.resource
        /\ gs'.vbuf = gs.vbuf /\ gs'.tex = gs.tex
    BY <1>14 DEF chip_comp_init_blends
  <2> QED BY <2>1, <2>2, <2>3, StillTracked
<1>15. ASSUME InitDestroy PROVE Tracked'
  <2>1. /\ fl.pc = "destroy" /\ UNCHANGED <<comp, rtg, gs>>
        /\ fl'.pc = "cycle" /\ fl'.res = 0
    BY <1>15 DEF InitDestroy, FlAt
  <2>2. host'.res = host.res
    BY <1>15, DestroyEffect DEF InitDestroy
  <2>3. Lost = {} /\ ~gs.ready
    BY <2>1
  <2>4. CASE fl.res \in {0, gs.resource}
    <3>1. Lost' \subseteq Lost
      BY <2>1, <2>2, <2>4, NoZero DEF Lost
    <3> QED BY <2>3, <3>1
  <2>5. CASE fl.res \notin {0, gs.resource}
    <3>1. Lost' \subseteq {fl.res}
      BY <2>1, <2>2, <2>3, NoZero DEF Lost
    <3>2. GivenUp' /\ fl.res \in Nat
      BY <2>1, <2>3, <2>5
    <3> QED BY <3>1, <3>2
  <2> QED BY <2>4, <2>5
<1>16. ASSUME Recover PROVE Tracked'
  BY <1>16, StillTracked
     DEF Recover, FlAt, FlGoto, Poisoned
<1>17. ASSUME RecoverScanout PROVE Tracked'
  BY <1>17, StillTracked
     DEF RecoverScanout, FlAt, FlGoto, chip_SetScanout, Done, Refused
<1>18. ASSUME RecoverDestroy PROVE Tracked'
  <2>1. host'.res = host.res
    BY <1>18, DestroyEffect DEF RecoverDestroy
  <2> QED BY <1>18, <2>1, StillTracked DEF RecoverDestroy, FlAt, FlGoto
<1>19. ASSUME RecoverUnref PROVE Tracked'
  <2>1. /\ fl.pc = "old_res" /\ fl'.res = fl.res /\ gs.tex = 0
        /\ UNCHANGED <<comp, rtg>>
    BY <1>19 DEF RecoverUnref, FlAt, FlGoto
  <2>2. gs'.fb_resource_id = gs.fb_resource_id /\ gs'.tex = 0
    BY <1>19, <2>1 DEF RecoverUnref
  <2>3. \/ /\ host'.res = host.res \ {gs.resource}
           /\ gs'.resource = 0 /\ gs'.vbuf = gs.vbuf
        \/ /\ host'.res = host.res \ {gs.vbuf}
           /\ gs'.resource = gs.resource /\ gs'.vbuf = 0
        \/ /\ host' = host
           /\ gs'.resource = gs.resource /\ gs'.vbuf = gs.vbuf
    <3>1. CASE Done("fl", Without(host, gs.resource)) /\ gs' = [gs EXCEPT !.resource = 0]
      BY <3>1, WithoutEffect DEF Done
    <3>2. CASE Done("fl", Without(host, gs.vbuf)) /\ gs' = [gs EXCEPT !.vbuf = 0]
      BY <3>2, WithoutEffect DEF Done
    <3>3. CASE host' = host /\ gs'.resource = gs.resource /\ gs'.vbuf = gs.vbuf
      BY <3>3
    <3> QED BY <1>19, <3>1, <3>2, <3>3 DEF RecoverUnref
  <2>4. Lost' \subseteq Lost
    BY <2>1, <2>2, <2>3 DEF Lost
  <2> QED BY <2>1, <2>4, LessLost
<1>20. ASSUME SkipRecovery PROVE Tracked'
  BY <1>20, StillTracked
     DEF SkipRecovery, FlAt, FlGoto
<1>21. ASSUME FlushBegin PROVE Tracked'
  BY <1>21, StillTracked
     DEF FlushBegin, FlGoto
<1>22. ASSUME FlushTransfer PROVE Tracked'
  BY <1>22, StillTracked, ZenonT(60)
     DEF FlushTransfer, FlAt, FlGoto, Done, Refused
<1>23. ASSUME FlushEnd PROVE Tracked'
  BY <1>23, StillTracked
     DEF FlushEnd, FlGoto
<1>24. ASSUME CompSoftware PROVE Tracked'
  BY <1>24, StillTracked
     DEF CompSoftware, CompAt
<1>25. ASSUME hook_CompositeTagList PROVE Tracked'
  BY <1>25, StillTracked
     DEF hook_CompositeTagList, CompAt
<1>26. ASSUME CompObtain PROVE Tracked'
  BY <1>26, StillTracked
     DEF CompObtain, CompGoto
<1>27. ASSUME CompValidate PROVE Tracked'
  BY <1>27, StillTracked
     DEF CompValidate, CompAt
<1>28. ASSUME CompBind PROVE Tracked'
  <2>1. host'.res = host.res
    BY <1>28, SubmitEffect DEF CompBind, CompFrames
  <2> QED BY <1>28, <2>1, StillTracked, ZenonT(60) DEF CompBind, CompAt, CompGoto, Poison
<1>29. ASSUME CompQuad PROVE Tracked'
  <2>1. CASE \E ok \in BOOLEAN : virgl_submit("comp", gs.ctx, ok)
    <3>1. host'.res = host.res
      BY <2>1, SubmitEffect
    <3> QED BY <1>29, <3>1, StillTracked, ZenonT(60) DEF CompQuad, CompAt, CompGoto, Poison
  <2>2. CASE UNCHANGED <<host, fails, stray>>
    BY <1>29, <2>2, StillTracked, ZenonT(60) DEF CompQuad, CompAt, CompGoto, Poison
  <2> QED BY <1>29, <2>1, <2>2 DEF CompQuad
<1>30. ASSUME CompUpload PROVE Tracked'
  <2> DEFINE id == chip_alloc_resource_id(gs)
  <2>1. comp.pc = "texture" /\ comp.res = 0 /\ UNCHANGED <<fl, rtg>> /\ ~GivenUp
    BY <1>30 DEF CompUpload, CompAt
  <2>2. /\ gs'.fb_resource_id = gs.fb_resource_id /\ gs'.resource = gs.resource
        /\ gs'.vbuf = gs.vbuf /\ gs'.tex = gs.tex
    BY <1>30 DEF CompUpload
  <2>3. \/ host'.res = host.res \cup {id} /\ comp'.res = id
        \/ host'.res = host.res /\ comp'.res = comp.res
    <3>1. CASE /\ Done("comp", Attached([host EXCEPT !.res = @ \cup {id}], gs.ctx, id))
               /\ comp' = [comp EXCEPT !.pc = "strips", !.res = id, !.rows = 0]
      BY <3>1, NewAttachedEffect, NextResource DEF Done
    <3>2. CASE host' = host /\ comp' = [comp EXCEPT !.pc = "unlock"]
      BY <3>2
    <3> QED BY <1>30, <3>1, <3>2, CreateRefusedEffect DEF CompUpload, CompGoto
  <2>4. Lost' \subseteq Lost
    BY <2>1, <2>2, <2>3, NoZero DEF Lost
  <2> QED BY <2>1, <2>4, LessLost
<1>31. ASSUME CompStrip PROVE Tracked'
  <2>1. CASE \E ok \in BOOLEAN : virgl_submit("comp", gs.ctx, ok)
    <3>1. host'.res = host.res
      BY <2>1, SubmitEffect
    <3> QED BY <1>31, <3>1, StillTracked, ZenonT(60) DEF CompStrip, CompAt, CompGoto, Poison
  <2>2. CASE UNCHANGED <<host, fails, stray>>
    BY <1>31, <2>2, StillTracked, ZenonT(60) DEF CompStrip, CompAt, CompGoto, Poison
  <2> QED BY <1>31, <2>1, <2>2 DEF CompStrip
<1>32. ASSUME CompView PROVE Tracked'
  <2>1. /\ comp.pc = "view" /\ gs.tex = 0 /\ comp'.res = comp.res
        /\ UNCHANGED <<fl, rtg>> /\ ~GivenUp
    BY <1>32 DEF CompView, CompAt, CompGoto
  <2>2. /\ gs'.fb_resource_id = gs.fb_resource_id /\ gs'.resource = gs.resource
        /\ gs'.vbuf = gs.vbuf /\ gs'.tex \in {gs.tex, comp.res}
    BY <1>32 DEF CompView
  <2>3. host'.res = host.res
    BY <1>32, SubmitEffect DEF CompView
  <2>4. Lost' \subseteq Lost
    BY <2>1, <2>2, <2>3, NoZero DEF Lost
  <2> QED BY <2>1, <2>4, LessLost
<1>33. ASSUME CompAbandon PROVE Tracked'
  <2>1. /\ comp.pc = "abandon" /\ comp'.res = 0
        /\ UNCHANGED <<gs, fl, rtg>> /\ ~GivenUp
    BY <1>33 DEF CompAbandon, CompAt
  <2>2. host'.res = host.res \ {comp.res}
    BY <1>33, WithoutEffect DEF CompAbandon, Abandoned, Done
  <2>3. Lost' \subseteq Lost
    BY <2>1, <2>2 DEF Lost
  <2> QED BY <2>1, <2>3, LessLost
<1>34. ASSUME CompDraw PROVE Tracked'
  <2>1. comp.pc = "draw" /\ comp'.res = comp.res /\ UNCHANGED <<fl, rtg>> /\ ~GivenUp
    BY <1>34 DEF CompDraw, CompAt, CompGoto
  <2>2. /\ gs'.fb_resource_id = gs.fb_resource_id /\ gs'.resource = gs.resource
        /\ gs'.vbuf = gs.vbuf /\ gs'.tex = gs.tex
    BY <1>34 DEF CompDraw, Poison
  <2>3. CASE \E ok \in BOOLEAN : virgl_submit("comp", gs.ctx, ok)
    <3>1. host'.res = host.res
      BY <2>3, SubmitEffect
    <3> QED BY <2>1, <2>2, <3>1, StillTracked
  <2>4. CASE UNCHANGED <<host, fails, stray>>
    BY <2>1, <2>2, <2>4, StillTracked
  <2> QED BY <1>34, <2>3, <2>4 DEF CompDraw
<1>35. ASSUME CompRestoreShader PROVE Tracked'
  <2>1. host'.res = host.res
    BY <1>35, SubmitEffect DEF CompRestoreShader, CompFrames
  <2> QED BY <1>35, <2>1, StillTracked, ZenonT(60) DEF CompRestoreShader, CompAt, CompGoto, Poison
<1>36. ASSUME CompFreeView PROVE Tracked'
  <2>1. host'.res = host.res
    BY <1>36, SubmitEffect DEF CompFreeView, CompFrames
  <2> QED BY <1>36, <2>1, StillTracked, ZenonT(60) DEF CompFreeView, CompAt, CompGoto, Poison
<1>37. ASSUME CompFreeTexture PROVE Tracked'
  <2>1. /\ comp.pc = "unref" /\ comp'.res = 0 /\ gs.tex = comp.res
        /\ UNCHANGED <<fl, rtg>> /\ ~GivenUp
    BY <1>37 DEF CompFreeTexture, CompAt
  <2>2. /\ gs'.fb_resource_id = gs.fb_resource_id /\ gs'.resource = gs.resource
        /\ gs'.vbuf = gs.vbuf /\ gs'.tex = 0
    BY <1>37 DEF CompFreeTexture
  <2>3. host'.res = host.res \ {gs.tex}
    BY <1>37, WithoutEffect DEF CompFreeTexture, Done
  <2>4. Lost' \subseteq Lost
    BY <2>1, <2>2, <2>3 DEF Lost
  <2> QED BY <2>1, <2>4, LessLost
<1>38. ASSUME CompRestoreBlend PROVE Tracked'
  <2>1. host'.res = host.res
    BY <1>38, SubmitEffect DEF CompRestoreBlend, CompFrames
  <2> QED BY <1>38, <2>1, StillTracked, ZenonT(60) DEF CompRestoreBlend, CompAt, CompGoto, Poison
<1>39. ASSUME CompRelease PROVE Tracked'
  BY <1>39, StillTracked
     DEF CompRelease
<1>40. ASSUME ResizeBegin PROVE Tracked'
  BY <1>40, StillTracked, ZenonT(60)
     DEF ResizeBegin, RtgAt
<1>41. ASSUME ResizeStore PROVE Tracked'
  <2>1. /\ rtg.pc = "create" /\ UNCHANGED <<fl, comp>>
        /\ gs' = [gs EXCEPT !.next_res = rtg.res + 1]
    BY <1>41 DEF ResizeStore, RtgAt
  <2>2. \/ /\ host'.res = host.res \cup {rtg.res}
           /\ rtg'.pc \in Resizing /\ rtg'.res = rtg.res
        \/ host'.res = host.res
    BY <1>41, CreateRefusedEffect DEF ResizeStore, chip_ResourceCreate3D, Done, Resizing
  <2>3. Lost' \subseteq Lost
    BY <2>1, <2>2, NoZero DEF Lost, Resizing
  <2> QED BY <2>1, <2>3, LessLost
<1>42. ASSUME ResizeScanout PROVE Tracked'
  BY <1>42, StillTracked, ZenonT(60)
     DEF ResizeScanout, RtgAt, chip_SetScanout, Done, Refused
<1>43. ASSUME ResizePublish PROVE Tracked'
  <2>1. /\ rtg.pc = "publish" /\ rtg'.pc = "unref" /\ rtg'.res = gs.fb_resource_id
        /\ UNCHANGED <<host, fl, comp>>
    BY <1>43 DEF ResizePublish, RtgAt
  <2>2. /\ gs' = [gs EXCEPT !.fb_resource_id = rtg.res, !.resource_id = rtg.res]
    BY <1>43 DEF ResizePublish
  <2>3. Lost' \subseteq Lost
    BY <2>1, <2>2 DEF Lost, Resizing
  <2> QED BY <2>1, <2>2, <2>3, LessLost
<1>44. ASSUME ResizeUnref PROVE Tracked'
  <2>1. /\ rtg.pc = "unref" /\ rtg'.pc = "idle" /\ UNCHANGED <<gs, fl, comp>>
    BY <1>44 DEF ResizeUnref, RtgAt
  <2>2. host'.res = host.res \ {rtg.res}
    BY <1>44, WithoutEffect DEF ResizeUnref, Done
  <2>3. Lost' \subseteq Lost
    BY <2>1, <2>2 DEF Lost, Resizing
  <2> QED BY <2>1, <2>3, LessLost
<1>45. CASE UNCHANGED vars
  BY <1>45, StillTracked DEF vars
<1> QED BY <1>1, <1>2, <1>3, <1>4, <1>5, <1>6, <1>7, <1>8, <1>9, <1>10, <1>11,
           <1>12, <1>13, <1>14, <1>15, <1>16, <1>17, <1>18, <1>19, <1>20,
           <1>21, <1>22, <1>23, <1>24, <1>25, <1>26, <1>27, <1>28, <1>29,
           <1>30, <1>31, <1>32, <1>33, <1>34, <1>35, <1>36, <1>37, <1>38,
           <1>39, <1>40, <1>41, <1>42, <1>43, <1>44, <1>45
    DEF Next, FlushTask, Init2D, Recover2D, Composite, Resize

LEMMA NextIInv == IInv /\ [Next]_vars => IInv'
<1>1. ASSUME IInv, Next PROVE IInv'
  BY <1>1, FlNext, CompNext, RtgNext, GsNext, HostNext, ControlNext, ContextsNext,
     OwnersNext, TrackedNext DEF IInv, Records
<1>2. ASSUME IInv, UNCHANGED vars PROVE IInv'
  BY <1>2 DEF vars, IInv, Records, Control, Contexts, Owners, Tracked, Lost, GivenUp
<1> QED BY <1>1, <1>2

LEMMA IInvAlways == Spec => []IInv
BY InitIInv, NextIInv, PTL DEF Spec

\* The invariant of the runs is weaker: it forgives what a resize has not
\* created yet.
LEMMA IInvTypeOK == IInv => TypeOK
<1> SUFFICES ASSUME IInv PROVE TypeOK
  OBVIOUS
<1> USE DEF IInv, Records
<1>1. /\ gs.blends \subseteq 1 .. Operators
      /\ {gs.ready, gs.ctx_error, gs.shaders, gs.ve, stray} \subseteq BOOLEAN
  BY DEF States
<1>5. {gs.ctx, gs.next_ctx, gs.next_res, gs.resource, gs.vbuf, gs.tex,
       gs.resource_id, gs.fb_resource_id} \subseteq Nat
  <2>1. gs.next_res \in Nat
    BY DEF States, Positive
  <2> QED BY <2>1 DEF States
<1>2. {fl.res, fl.n, comp.ctx, comp.res, host.scanout, rtg.res} \subseteq Nat
  BY DEF FlFrames, CompFrames, Devices, RtgFrames
<1>3. fl.pc \in InitPcs \cup CyclePcs \cup {"disable", "old_ctx", "old_res"}
  BY DEF FlFrames, Pcs, RecoverPcs
<1>4. comp.rows \in 0 .. Strips /\ fails \in 0 .. MaxFail
  BY DEF CompFrames
<1> QED BY <1>1, <1>2, <1>3, <1>4, <1>5 DEF TypeOK, Control

LEMMA IInvTracked == IInv => ResourcesTracked
<1> SUFFICES ASSUME IInv, Untracked # {}
             PROVE  GivenUp /\ Cardinality(Untracked) = 1
  BY IInvTypeOK DEF ResourcesTracked
<1>1. Untracked \subseteq Lost
  BY NoZero DEF Untracked, Lost
<1>2. GivenUp /\ \E r \in Nat : Lost \subseteq {r}
  BY <1>1 DEF IInv, Tracked
<1>3. PICK r : Untracked = {r}
  BY <1>1, <1>2
<1> QED BY <1>2, <1>3, FS_Singleton

\* No command stream goes to a context that recovery destroyed, for any number
\* of refusals, composites and resizes.
THEOREM VirglSubmitsLive == Spec => []SubmitsLive
<1>1. IInv => SubmitsLive
  BY DEF IInv, SubmitsLive
<1> QED BY <1>1, IInvAlways, PTL

\* The driver can name every resource the device holds, except for at most
\* one, left by an initialisation that gave up for good.
THEOREM VirglResourcesTracked == Spec => []ResourcesTracked
BY IInvAlways, IInvTracked, PTL

=============================================================================
