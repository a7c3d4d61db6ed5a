------------------------------ MODULE InitCard ------------------------------
(***************************************************************************)
(* Bringing the card up: board_init hooks PCIGraphics.card, the hooks lead *)
(* to chip_FindCard of virtiogpu.chip and this to chip_InitCard_C, which   *)
(* acquires everything the driver runs on, in one long sequence.  A step   *)
(* that fails either lets the driver go on with less or jumps to a label   *)
(* of the ladder at the end of the function, which gives back what was     *)
(* acquired so far.  Meanwhile the device may still be busy with a command *)
(* the driver has given up on.                                             *)
(*                                                                         *)
(* The variable pc names the step that comes next, or the label.  What a   *)
(* step acquires is in the set held, and the buffers the device may reach  *)
(* (StartDMA without EndDMA) are in mapped.                                *)
(***************************************************************************)
EXTENDS Naturals, Sequences

CONSTANTS
    Layouts,    \* what the six BAR slots may read as when the driver starts
    MaxLate     \* bound: commands given up on that the device still holds

Slots == 0..5

SlotKinds == {"io", "mem32", "mem64", "address", "ones", "zero"}

ASSUME InitCardAssumption ==
    /\ Layouts \subseteq [Slots -> SlotKinds]
    /\ MaxLate \in Nat

VARIABLES
    pc,         \* the next step of the driver
    held,       \* what was acquired and not given back
    mapped,     \* buffers mapped for DMA
    pci,        \* configuration space: the BAR slots, the COMMAND bits
    dev,        \* the device: its status, queues, framebuffer and scanout
    gs,         \* the fields of ChipGPUState the sequence depends on
    bi,         \* what of BoardInfo has been filled in
    late,       \* commands given up on that the device still holds
    why         \* history: the step that failed the bring-up

vars == <<pc, held, mapped, pci, dev, gs, bi, late, why>>

Features == {"virgl", "blob"}
Windows == {"common", "notify", "isr", "device"}
Queues == {"ctrlq", "cursorq"}
Locks == {"io_lock", "cursor_lock", "alloc_mutex"}

Goto(l) == pc' = l

\* A step the bring-up cannot do without has failed.
Fail(l) == pc' = l /\ why' = pc

\* Acquire r, or jump to the label.
Obtain(r, next, label) ==
    /\ \/ held' = held \cup {r} /\ Goto(next) /\ UNCHANGED why
       \/ held' = held /\ Fail(label)
    /\ UNCHANGED <<mapped, pci, dev, gs, bi, late>>

\* chip_dma_alloc: memory and its DMA mapping, or neither.
ObtainDMA(r, next, label) ==
    /\ \/ /\ held' = held \cup {r}
          /\ mapped' = mapped \cup {r}
          /\ Goto(next)
          /\ UNCHANGED why
       \/ held' = held /\ mapped' = mapped /\ Fail(label)
    /\ UNCHANGED <<pci, dev, gs, bi, late>>

Drop(r, l) ==
    /\ held' = held \ r
    /\ Goto(l)
    /\ UNCHANGED <<mapped, pci, dev, gs, bi, late, why>>
-----------------------------------------------------------------------------
(* board_init and the two hooks.                                           *)

BoardOpenExpansion == pc = "board" /\ Obtain("b_expansion", "b_ipci", "no_board")

BoardGetPCI == pc = "b_ipci" /\ Obtain("b_ipci", "b_device", "b_close")

\* No device: everything is given back.
BoardFindDevice ==
    /\ pc = "b_device"
    /\ \/ Goto("b_patch") /\ UNCHANGED why
       \/ Fail("b_drop")
    /\ UNCHANGED <<held, mapped, pci, dev, gs, bi, late>>

BoardAllocPatch == pc = "b_patch" /\ Obtain("patch", "b_card", "b_drop")

\* FindResident, InitResident and OpenLibrary of PCIGraphics.card.
BoardOpenCard == pc = "b_card" /\ Obtain("pcigraphics", "b_hook", "b_drop")

\* The interface is only held across SetMethod.
BoardHook ==
    /\ pc = "b_hook"
    /\ \/ Goto("FindCard") /\ UNCHANGED why
       \/ Fail("b_close_card")
    /\ UNCHANGED <<held, mapped, pci, dev, gs, bi, late>>

BoardUnwind ==
    \/ pc = "b_close_card" /\ Drop({"pcigraphics"}, "b_drop")
    \/ pc = "b_drop" /\ Drop({"b_ipci"}, "b_close")
    \/ pc = "b_close" /\ Drop({"b_expansion"}, "no_board")

\* Whatever PCIGraphics.card found, the device of the patch is put in place.
hook_FindCard ==
    /\ pc = "FindCard"
    /\ bi' = bi \cup {"pcidevice", "BoardName"}
    /\ Goto("InitBoard")
    /\ UNCHANGED <<held, mapped, pci, dev, gs, late, why>>

\* The chip library stays open even if its HardwareInit fails.
hook_InitBoard ==
    /\ pc = "InitBoard"
    /\ \/ /\ held' = held \cup {"chipLib"}
          /\ bi' = bi \cup {"CardBase", "ChipBase"}
          /\ Goto("chip_FindCard")
          /\ UNCHANGED why
       \/ /\ held' = held
          /\ bi' = bi
          /\ Fail("refused")
       \/ /\ held' = held                           \* no interface
          /\ bi' = bi \cup {"CardBase"}
          /\ Fail("refused")
    /\ UNCHANGED <<mapped, pci, dev, gs, late>>

\* PCIGraphics.card adds bi->HardInterrupt to the chain if this succeeds.
chip_FindCard ==
    /\ pc = "chip_FindCard"
    /\ "pcidevice" \in bi
    /\ bi' = bi \cup {"HardInterrupt"}
    /\ Goto("expansion")
    /\ UNCHANGED <<held, mapped, pci, dev, gs, late, why>>
-----------------------------------------------------------------------------
(* chip_InitCard_C: the PCI device and its configuration space.            *)

OpenExpansion == pc = "expansion" /\ Obtain("expansion", "ipci", "refused")

GetPCI == pc = "ipci" /\ Obtain("ipci", "lock", "fail_exp")

LockDevice == pc = "lock" /\ Obtain("pciLock", "gs", "fail_ipci")

AllocState == pc = "gs" /\ Obtain("gs", "locks", "fail_pci")

\* All three are tried before the result of any is looked at.
AllocLocks ==
    /\ pc = "locks"
    /\ \E got \in SUBSET Locks :
          /\ held' = held \cup got
          /\ \/ got = Locks /\ Goto("command") /\ UNCHANGED why
             \/ got # Locks /\ Fail("fail_gs")
    /\ UNCHANGED <<mapped, pci, dev, gs, bi, late>>

\* Slot b is not the high half of a 64-bit BAR: the walk skips those.
LowHalf(slots) ==
    LET low[b \in Slots] == b = 0 \/ ~(low[b - 1] /\ slots[b - 1] = "mem64")
    IN  low

WideAt(slots) == {b \in Slots \ {5} : LowHalf(slots)[b] /\ slots[b] = "mem64"}

\* Mutant: the walk stops one slot early.
RepairedShort(slots) ==
    [b \in Slots |-> IF b \in 1..4 /\ b - 1 \in WideAt(slots) /\ slots[b] = "ones"
                     THEN "zero" ELSE slots[b]]

\* The firmware of the AmigaOne leaves the sizing pattern in high halves.
Repaired(slots) ==
    [b \in Slots |-> IF b # 0 /\ b - 1 \in WideAt(slots) /\ slots[b] = "ones"
                     THEN "zero" ELSE slots[b]]

\* Memory and bus mastering on, INTx off until there is a handler.
EnableDevice ==
    /\ pc = "command"
    /\ pci' = [pci EXCEPT !.enabled = TRUE, !.intx = FALSE,
                          !.slots = Repaired(@)]
    /\ Goto("caps")
    /\ UNCHANGED <<held, mapped, dev, gs, bi, late, why>>

Decodes == \A b \in WideAt(pci.slots) : pci.slots[b + 1] # "ones"

\* chip_scan_bars and chip_scan_pci_caps.  A window counts if it lies in a
\* memory BAR; the probe writes STATUS and reads it back.
ScanCaps ==
    /\ pc = "caps"
    /\ \E windows \in SUBSET Windows, forwards \in BOOLEAN :
          LET probe == "common" \in windows /\ forwards /\ Decodes IN
          /\ gs' = [gs EXCEPT !.windows = windows]
          /\ dev' = IF probe THEN [dev EXCEPT !.status = "reset"] ELSE dev
          /\ \/ probe /\ Goto("cmd_buf") /\ UNCHANGED why
             \/ ~probe /\ Fail("fail_gs")
    /\ UNCHANGED <<held, mapped, pci, bi, late>>

AllocCmdBuf == pc = "cmd_buf" /\ ObtainDMA("cmd_buf", "resp_buf", "fail_gs")

\* Mutant: the label that does not free cmd_buf.
AllocRespBufFar == pc = "resp_buf" /\ ObtainDMA("resp_buf", "cursor_cmd_buf", "fail_gs")

AllocRespBuf == pc = "resp_buf" /\ ObtainDMA("resp_buf", "cursor_cmd_buf", "fail_cmd")

\* Without it there is only no hardware cursor.
AllocCursorCmdBuf ==
    /\ pc = "cursor_cmd_buf"
    /\ \E got \in SUBSET {"cursor_cmd_buf"} :
          held' = held \cup got /\ mapped' = mapped \cup got
    /\ Goto("negotiate")
    /\ UNCHANGED <<pci, dev, gs, bi, late, why>>
-----------------------------------------------------------------------------
(* chip_virtio_init.                                                       *)

Negotiate ==
    /\ pc = "negotiate"
    /\ \E offered \in SUBSET Features :
          gs' = [gs EXCEPT !.has_virgl = "virgl" \in offered,
                           !.has_blob = "blob" \in offered]
    /\ \/ /\ dev' = [dev EXCEPT !.status = "features_ok"]
          /\ Goto("ctrlq")
          /\ UNCHANGED why
       \/ /\ dev' = [dev EXCEPT !.status = "failed"]
          /\ Fail("fail_resp")
    /\ UNCHANGED <<held, mapped, pci, bi, late>>

\* The driver can do without the cursor queue.
QueueFails(q) ==
    IF q = "ctrlq" THEN Fail("fail_resp") ELSE Goto("driver_ok") /\ UNCHANGED why

\* The labels of the two steps that follow the allocation of a queue.
MapStep(q) == IF q = "ctrlq" THEN "ctrlq_map" ELSE "cursorq_map"
ListStep(q) == IF q = "ctrlq" THEN "ctrlq_list" ELSE "cursorq_list"

\* Q_SIZE of 0, or no memory.
AllocQueue(q) ==
    /\ pc = q
    /\ \/ held' = held \cup {q} /\ Goto(MapStep(q)) /\ UNCHANGED why
       \/ held' = held /\ QueueFails(q)
    /\ UNCHANGED <<mapped, pci, dev, gs, bi, late>>

MapQueue(q) ==
    /\ pc = MapStep(q)
    /\ \/ mapped' = mapped \cup {q} /\ held' = held /\ Goto(ListStep(q)) /\ UNCHANGED why
       \/ mapped' = mapped /\ held' = held \ {q} /\ QueueFails(q)
    /\ UNCHANGED <<pci, dev, gs, bi, late>>

\* Mutant: the queue is freed while it is mapped.
EnableQueueMapped(q) ==
    /\ pc = ListStep(q)
    /\ \/ /\ dev' = [dev EXCEPT !.queues = @ \cup {q}]
          /\ Goto(IF q = "ctrlq" THEN "cursorq" ELSE "driver_ok")
          /\ UNCHANGED <<held, mapped, why>>
       \/ /\ held' = held \ {q}
          /\ QueueFails(q)
          /\ UNCHANGED <<dev, mapped>>
    /\ UNCHANGED <<pci, gs, bi, late>>

\* The addresses of the ring are given to the device, or the list of its
\* fragments cannot be had and the ring is unmapped and freed.
EnableQueue(q) ==
    /\ pc = ListStep(q)
    /\ \/ /\ dev' = [dev EXCEPT !.queues = @ \cup {q}]
          /\ Goto(IF q = "ctrlq" THEN "cursorq" ELSE "driver_ok")
          /\ UNCHANGED <<held, mapped, why>>
       \/ /\ mapped' = mapped \ {q}
          /\ held' = held \ {q}
          /\ QueueFails(q)
          /\ UNCHANGED dev
    /\ UNCHANGED <<pci, gs, bi, late>>

DriverOk ==
    /\ pc = "driver_ok"
    /\ dev' = [dev EXCEPT !.status = "driver_ok"]
    /\ Goto("irq")
    /\ UNCHANGED <<held, mapped, pci, gs, bi, late, why>>
-----------------------------------------------------------------------------
(* Interrupt and 3D.                                                       *)

\* Without a handler the driver polls.
InstallIrq ==
    /\ pc = "irq"
    /\ \/ held' = held \cup {"irqServer"} /\ pci' = [pci EXCEPT !.intx = TRUE]
       \/ UNCHANGED <<held, pci>>
    /\ Goto("cmd3d")
    /\ UNCHANGED <<mapped, dev, gs, bi, late, why>>

\* Mutant: virgl stays on without its command buffer.
Setup3DKeeps ==
    /\ pc = "cmd3d"
    /\ \/ /\ gs.has_virgl /\ "device" \in gs.windows
          /\ \E capsets \in BOOLEAN, got \in {{}, {"cmd3d_buf", "cmd3d_lock"}} :
                /\ gs' = [gs EXCEPT !.capsets = capsets, !.ids = TRUE]
                /\ held' = held \cup got
                /\ mapped' = mapped \cup (got \ {"cmd3d_lock"})
       \/ ~(gs.has_virgl /\ "device" \in gs.windows) /\ UNCHANGED <<gs, held, mapped>>
    /\ Goto("edid")
    /\ UNCHANGED <<pci, dev, bi, late, why>>

\* The buffer without its lock is given back, and there is no 3D then.
Setup3D ==
    /\ pc = "cmd3d"
    /\ \/ /\ gs.has_virgl /\ "device" \in gs.windows
          /\ \E capsets \in BOOLEAN, got \in {{}, {"cmd3d_buf", "cmd3d_lock"}} :
                /\ gs' = [gs EXCEPT !.capsets = capsets, !.ids = TRUE,
                                    !.has_virgl = got # {}]
                /\ held' = held \cup got
                /\ mapped' = mapped \cup (got \ {"cmd3d_lock"})
       \/ ~(gs.has_virgl /\ "device" \in gs.windows) /\ UNCHANGED <<gs, held, mapped>>
    /\ Goto("edid")
    /\ UNCHANGED <<pci, dev, bi, late, why>>
-----------------------------------------------------------------------------
(* Commands of the bring-up, and the device that carries them out.         *)

\* The framebuffer resource has number 1 whatever kind it is.
Accepts(c) ==
    CASE c \in {"edid", "info"}  -> TRUE
      [] c \in {"blob", "create"} -> dev.fb = "none"
      [] c = "attach"            -> dev.fb = "created"
      [] c = "scanout"           -> dev.fb # "none"
      [] c = "transfer"          -> dev.fb = "backed"

Executed(c) ==
    CASE c \in {"edid", "info", "transfer"} -> dev
      [] c = "blob"    -> [dev EXCEPT !.fb = "backed"]
      [] c = "create"  -> [dev EXCEPT !.fb = "created"]
      [] c = "attach"  -> [dev EXCEPT !.fb = "backed"]
      [] c = "scanout" -> [dev EXCEPT !.scanout = TRUE]

SendOk(c) == late = <<>> /\ Accepts(c) /\ dev' = Executed(c) /\ late' = late

SendFails(c) ==
    /\ \/ late = <<>> /\ late' = late
       \/ Len(late) < MaxLate /\ late' = Append(late, c)
    /\ dev' = dev

\* The device is only reset by the next bring-up: it goes on with what it has.
DevLate ==
    /\ late # <<>>
    /\ dev' = IF Accepts(Head(late)) THEN Executed(Head(late)) ELSE dev
    /\ late' = Tail(late)
    /\ UNCHANGED <<pc, held, mapped, pci, gs, bi, why>>

\* EDID first, then GET_DISPLAY_INFO, then 1024x768.
GetResolution ==
    /\ \/ pc = "edid" /\ SendOk("edid") /\ Goto("fb_mem")
       \/ pc = "edid" /\ SendOk("edid") /\ Goto("info")     \* no timing in it
       \/ pc = "edid" /\ SendFails("edid") /\ Goto("info")
       \/ pc = "info" /\ (SendOk("info") \/ SendFails("info")) /\ Goto("fb_mem")
    /\ UNCHANGED <<held, mapped, pci, gs, bi, why>>

AllocFb == pc = "fb_mem" /\ Obtain("fb_mem", "fb_dma", "fail_vqs")

MapFb ==
    /\ pc = "fb_dma"
    /\ \/ mapped' = mapped \cup {"fb_mem"} /\ Goto("fb_dma_list") /\ UNCHANGED why
       \/ mapped' = mapped /\ Fail("fail_fb_mem")
    /\ UNCHANGED <<held, pci, dev, gs, bi, late>>

ListFb == pc = "fb_dma_list" /\ Obtain("fb_dma_list", "blob", "fail_fb_dma")

CreateBlob ==
    /\ pc = "blob"
    /\ \/ gs.has_blob /\ SendOk("blob") /\ Goto("scanout") /\ gs' = [gs EXCEPT !.fb_is_blob = TRUE]
       \/ gs.has_blob /\ SendFails("blob") /\ Goto("create") /\ UNCHANGED gs
       \/ ~gs.has_blob /\ Goto("create") /\ UNCHANGED <<gs, dev, late>>
    /\ UNCHANGED <<held, mapped, pci, bi, why>>

\* CREATE_2D, ATTACH_BACKING and SET_SCANOUT: the first that fails ends it.
MustSend(c, next) ==
    /\ pc = c
    /\ \/ SendOk(c) /\ Goto(next) /\ UNCHANGED why
       \/ SendFails(c) /\ Fail("fail_fb_dma_list")
    /\ UNCHANGED <<held, mapped, pci, gs, bi>>

CreateFb == MustSend("create", "attach")

AttachFb == MustSend("attach", "scanout")

ScanoutFb == MustSend("scanout", "flush")

\* The first transfer and flush; what becomes of them is not looked at.
FirstFlush ==
    /\ pc = "flush"
    /\ \/ gs.fb_is_blob /\ UNCHANGED <<dev, late>>
       \/ ~gs.fb_is_blob /\ (SendOk("transfer") \/ SendFails("transfer"))
    /\ Goto("board_mem")
    /\ UNCHANGED <<held, mapped, pci, gs, bi, why>>
-----------------------------------------------------------------------------
(* Publishing the card.                                                    *)

\* Without board memory the framebuffer stands in for it.
AllocBoardMem ==
    /\ pc = "board_mem"
    /\ \E got \in SUBSET {"board_mem"} :
          /\ held' = held \cup got
          /\ gs' = [gs EXCEPT !.board_mem = IF got = {} THEN "fb_mem" ELSE "board_mem"]
    /\ Goto("publish")
    /\ UNCHANGED <<mapped, pci, dev, bi, late, why>>

\* g_chip_state, through which every callback finds gs; the rendezvous of
\* WaitVerticalSync is optional.
PublishState ==
    /\ pc = "publish"
    /\ gs' = [gs EXCEPT !.published = TRUE]
    /\ \E got \in SUBSET {"vsync_mutex"} : held' = held \cup got
    /\ Goto("boardinfo")
    /\ UNCHANGED <<mapped, pci, dev, bi, late, why>>

FillBoardInfo ==
    /\ pc = "boardinfo"
    /\ bi' = bi \cup {"Memory", "Flags", "RGBFormats"}
    /\ Goto("vtable")
    /\ UNCHANGED <<held, mapped, pci, dev, gs, late, why>>

chip_fill_boardinfo_vtable ==
    /\ pc = "vtable"
    /\ bi' = bi \cup {"vtable"}
    /\ Goto("register_edid")
    /\ UNCHANGED <<held, mapped, pci, dev, gs, late, why>>

\* From here on graphics.library may call chip_ConfigureDisplay.
chip_register_edid ==
    /\ pc = "register_edid"
    /\ \/ held' = held \cup {"edid_entry"} /\ bi' = bi \cup {"edid_entry"}
       \/ UNCHANGED <<held, bi>>            \* the gate is closed, or no memory
    /\ Goto("register_modes")
    /\ UNCHANGED <<mapped, pci, dev, gs, late, why>>

RegisterModes ==
    /\ pc = "register_modes"
    /\ bi' = bi \cup {"modes"}
    /\ Goto(IF gs.has_virgl /\ gs.capsets THEN "capsets" ELSE "running")
    /\ UNCHANGED <<held, mapped, pci, dev, gs, late, why>>

\* chip_QueryCapsets asks on the control queue and ignores failures.
QueryCapsets ==
    /\ pc = "capsets"
    /\ SendOk("info") \/ SendFails("info")
    /\ Goto("running")
    /\ UNCHANGED <<held, mapped, pci, gs, bi, why>>
-----------------------------------------------------------------------------
(* The ladder.                                                             *)

Ladder == <<"fail_fb_dma_list", "fail_fb_dma", "fail_fb_mem", "fail_vqs",
            "fail_resp", "fail_cmd", "fail_gs", "fail_pci", "fail_ipci",
            "fail_exp", "refused">>

Freed(l) ==
    CASE l = "fail_fb_dma_list" -> {"vsync_mutex", "fb_dma_list"}
      [] l = "fail_fb_dma"      -> {}
      [] l = "fail_fb_mem"      -> {"fb_mem", "cmd3d_buf"}
      [] l = "fail_vqs"         -> Queues
      [] l = "fail_resp"        -> {"cursor_cmd_buf", "resp_buf"}
      [] l = "fail_cmd"         -> {"cmd_buf"}
      [] l = "fail_gs"          -> Locks \cup {"cmd3d_lock", "gs"}
      [] l = "fail_pci"         -> {"pciLock"}
      [] l = "fail_ipci"        -> {"ipci"}
      [] l = "fail_exp"         -> {"expansion"}

\* VirtQueue_Free and chip_dma_free end the mapping of what they free.
Unmapped(l) ==
    CASE l = "fail_fb_dma" -> {"fb_mem"}
      [] l = "fail_fb_mem" -> {"cmd3d_buf"}
      [] l \in {"fail_vqs", "fail_resp", "fail_cmd"} -> Freed(l)
      [] OTHER -> {}

Unwind(i) ==
    /\ pc = Ladder[i]
    /\ held' = held \ Freed(pc)
    /\ mapped' = mapped \ Unmapped(pc)
    /\ Goto(Ladder[i + 1])
    /\ UNCHANGED <<pci, dev, gs, bi, late, why>>
-----------------------------------------------------------------------------
Init ==
    /\ pc = "board"
    /\ held = {}
    /\ mapped = {}
    /\ \E s \in Layouts : pci = [slots |-> s, enabled |-> FALSE, intx |-> FALSE]
    /\ dev = [status |-> "firmware", queues |-> {}, fb |-> "none", scanout |-> FALSE]
    /\ gs = [windows |-> {}, has_virgl |-> FALSE, has_blob |-> FALSE,
             capsets |-> FALSE, ids |-> FALSE, fb_is_blob |-> FALSE,
             board_mem |-> "none", published |-> FALSE]
    /\ bi = {}
    /\ late = <<>>
    /\ why = "none"

\* The bring-up is over; anything else that cannot go on is a deadlock.
Stopped == pc \in {"running", "refused", "no_board"} /\ UNCHANGED vars

Next ==
    \/ BoardOpenExpansion \/ BoardGetPCI \/ BoardFindDevice \/ BoardAllocPatch
    \/ BoardOpenCard \/ BoardHook \/ BoardUnwind
    \/ hook_FindCard \/ hook_InitBoard \/ chip_FindCard
    \/ OpenExpansion \/ GetPCI \/ LockDevice \/ AllocState \/ AllocLocks
    \/ EnableDevice \/ ScanCaps \/ AllocCmdBuf \/ AllocRespBuf \/ AllocCursorCmdBuf
    \/ Negotiate \/ DriverOk
    \/ \E q \in Queues : AllocQueue(q) \/ MapQueue(q) \/ EnableQueue(q)
    \/ InstallIrq \/ Setup3D \/ GetResolution
    \/ AllocFb \/ MapFb \/ ListFb \/ CreateBlob \/ CreateFb \/ AttachFb
    \/ ScanoutFb \/ FirstFlush
    \/ AllocBoardMem \/ PublishState \/ FillBoardInfo
    \/ chip_fill_boardinfo_vtable \/ chip_register_edid
    \/ RegisterModes \/ QueryCapsets
    \/ \E i \in 1..(Len(Ladder) - 1) : Unwind(i)
    \/ DevLate \/ Stopped

Spec == Init /\ [][Next]_vars
-----------------------------------------------------------------------------
Resources ==
    {"b_expansion", "b_ipci", "patch", "pcigraphics", "chipLib",
     "expansion", "ipci", "pciLock", "gs", "cmd_buf", "resp_buf",
     "cursor_cmd_buf", "irqServer", "cmd3d_buf", "cmd3d_lock", "fb_mem",
     "fb_dma_list", "board_mem", "vsync_mutex", "edid_entry"} \cup Locks \cup Queues

Failing == {Ladder[i] : i \in 1..Len(Ladder)}

\* board_init, the hooks and the sequence of chip_InitCard_C.
Steps ==
    {"board", "b_ipci", "b_device", "b_patch", "b_card", "b_hook", "b_close_card",
     "b_drop", "b_close", "no_board", "FindCard", "InitBoard", "chip_FindCard",
     "expansion", "ipci", "lock", "gs", "locks", "command", "caps", "cmd_buf",
     "resp_buf", "cursor_cmd_buf", "negotiate", "ctrlq", "ctrlq_map", "ctrlq_list",
     "cursorq", "cursorq_map", "cursorq_list", "driver_ok", "irq", "cmd3d", "edid",
     "info", "fb_mem", "fb_dma", "fb_dma_list", "blob", "create", "attach",
     "scanout", "flush", "board_mem", "publish", "boardinfo", "vtable",
     "register_edid", "register_modes", "capsets", "running"}

\* The variables keep their types.
TypeOK ==
    /\ pc \in Steps \cup Failing
    /\ held \subseteq Resources
    /\ mapped \subseteq Resources
    /\ pci.slots \in [Slots -> SlotKinds]
    /\ dev.status \in {"firmware", "reset", "failed", "features_ok", "driver_ok"}
    /\ dev.queues \subseteq Queues
    /\ dev.fb \in {"none", "created", "backed"}
    /\ gs.windows \subseteq Windows
    /\ Len(late) <= MaxLate

\* What a label uses without asking whether it is there.
Touched(l) ==
    CASE l = "fail_fb_dma_list" -> {"gs", "fb_dma_list"}
      [] l \in {"fail_fb_dma", "fail_fb_mem"} -> {"gs", "fb_mem"}
      [] l \in {"fail_vqs", "fail_resp", "fail_cmd", "fail_gs"} -> {"gs"}
      [] l = "fail_pci"  -> {"pciLock"}
      [] l = "fail_ipci" -> {"ipci"}
      [] l = "fail_exp"  -> {"expansion"}
      [] OTHER -> {}

\* A failed step jumps to a label that only gives back what was acquired, in
\* an order in which no buffer is freed while the device may reach it: what
\* the labels of chip_InitCard_C use is there, a mapping is ended once and
\* before its memory goes.
UnwindSafe ==
    /\ TypeOK
    /\ Touched(pc) \subseteq held
    /\ pc = "fail_fb_dma" => "fb_mem" \in mapped
    /\ mapped \subseteq held

\* After a bring-up that failed in chip_InitCard_C nothing of the chip driver
\* is left but an interrupt server that was installed, and the 3D command
\* buffer if it was the framebuffer that could not be had.  A board_init
\* that failed leaves only the memory of its patch.
NothingLeaked ==
    /\ pc = "no_board" => held \subseteq {"patch"}
    /\ pc = "refused" =>
          held \ {"b_expansion", "b_ipci", "patch", "pcigraphics", "chipLib"}
            \subseteq {"irqServer"} \cup (IF why = "fb_mem" THEN {"cmd3d_buf"} ELSE {})

\* Once graphics.library can call the driver back (the vtable, the EDID
\* entry), the bring-up no longer fails, and what the callbacks use is in
\* place: the state, its locks and buffers, memory to draw into, a scanout.
\* A card that is handed over has the interrupt node PCIGraphics.card adds to
\* the chain, and 3D has its buffer and lock if capsets were found.
PublishedComplete ==
    /\ bi \cap {"vtable", "edid_entry"} # {} =>
          /\ pc \notin Failing
          /\ gs.published
          /\ {"gs", "cmd_buf", "resp_buf", "fb_mem", "ctrlq"} \cup Locks \subseteq held
          /\ {"ctrlq", "fb_mem"} \subseteq mapped
          /\ gs.board_mem \in held
          /\ dev.status = "driver_ok"
          /\ dev.fb = "backed" /\ dev.scanout
    /\ pc = "running" =>
          /\ {"HardInterrupt", "CardBase", "ChipBase", "vtable", "modes"} \subseteq bi
          /\ gs.has_virgl /\ gs.capsets => {"cmd3d_buf", "cmd3d_lock"} \subseteq held

\* Once the driver looks for its registers every 64-bit BAR decodes where
\* the low half says: the walk over the slots missed no sizing pattern.
BarsDecodable == pci.enabled => Decodes

\* "Each label frees resources acquired up to that point" (chip_init.c:1630):
\* a bring-up that fails after the interrupt server was installed leaves it
\* in the chain, with a data pointer to the freed gs.
FailureReleasesAll ==
    pc = "refused" =>
        held \subseteq {"b_expansion", "b_ipci", "patch", "pcigraphics", "chipLib"}
=============================================================================
