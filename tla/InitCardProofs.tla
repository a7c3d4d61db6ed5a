--------------------------- MODULE InitCardProofs ---------------------------
(***************************************************************************)
(* Proofs about InitCard, for every layout of the BARs and any number of   *)
(* commands the device may hold back.                                      *)
(*                                                                         *)
(* The bring-up is one sequence and one ladder, so what is held is a       *)
(* function of where the driver is: each resource is held from the step    *)
(* that acquires it to the label that gives it back, and not otherwise.    *)
(* The label sets From... are the rest of the sequence from a step on, the *)
(* sets Down... the ladder as far as a label.                              *)
(***************************************************************************)
EXTENDS InitCard, SequenceTheorems, TLAPS

FromRegister == {"register_edid", "register_modes", "capsets", "running"}
FromPublish == {"publish", "boardinfo", "vtable"} \cup FromRegister
FromFlush == {"flush", "board_mem"} \cup FromPublish
FromList == {"blob", "create", "attach", "scanout"} \cup FromFlush
FromMapFb == {"fb_dma_list"} \cup FromList
FromFb == {"fb_dma"} \cup FromMapFb
From3D == {"edid", "info", "fb_mem"} \cup FromFb
FromOk == {"irq", "cmd3d"} \cup From3D
FromCursorQ == {"driver_ok"} \cup FromOk
FromCtrlQ == {"cursorq", "cursorq_map", "cursorq_list"} \cup FromCursorQ
FromCursorCmd == {"negotiate", "ctrlq", "ctrlq_map", "ctrlq_list"} \cup FromCtrlQ
FromResp == {"cursor_cmd_buf"} \cup FromCursorCmd
FromCmd == {"resp_buf"} \cup FromResp
FromLocks == {"command", "caps", "cmd_buf"} \cup FromCmd
FromGs == {"locks"} \cup FromLocks
FromPciLock == {"gs"} \cup FromGs
FromIpci == {"lock"} \cup FromPciLock
FromExpansion == {"ipci"} \cup FromIpci
Sequence == {"expansion"} \cup FromExpansion

DownList == {"fail_fb_dma_list"}
DownMapFb == {"fail_fb_dma"} \cup DownList
DownFb == {"fail_fb_mem"} \cup DownMapFb
DownQueues == {"fail_vqs"} \cup DownFb
DownResp == {"fail_resp"} \cup DownQueues
DownCmd == {"fail_cmd"} \cup DownResp
DownGs == {"fail_gs"} \cup DownCmd
DownPciLock == {"fail_pci"} \cup DownGs
DownIpci == {"fail_ipci"} \cup DownPciLock
Labels == {"fail_exp"} \cup DownIpci

BoardPcs == {"board", "b_ipci", "b_device", "b_patch", "b_card", "b_hook",
             "b_close_card", "b_drop", "b_close", "no_board"}
HookPcs == {"FindCard", "InitBoard", "chip_FindCard"}
Pcs == BoardPcs \cup HookPcs \cup Sequence \cup Labels \cup {"refused"}

BoardParts == {"b_expansion", "b_ipci", "patch", "pcigraphics", "chipLib"}
Mappable == {"cmd_buf", "resp_buf", "cursor_cmd_buf", "cmd3d_buf", "fb_mem"} \cup Queues
Commands == {"edid", "info", "blob", "create", "attach", "scanout", "transfer"}

Fields == {"pcidevice", "BoardName", "CardBase", "ChipBase", "HardInterrupt",
           "Memory", "Flags", "RGBFormats", "vtable", "edid_entry", "modes"}
Pci == [slots : [Slots -> SlotKinds], enabled : BOOLEAN, intx : BOOLEAN]
Dev == [status : {"firmware", "reset", "failed", "features_ok", "driver_ok"},
        queues : SUBSET Queues, fb : {"none", "created", "backed"},
        scanout : BOOLEAN]
Gs == [windows : SUBSET Windows, has_virgl : BOOLEAN, has_blob : BOOLEAN,
       capsets : BOOLEAN, ids : BOOLEAN, fb_is_blob : BOOLEAN,
       board_mem : {"none", "fb_mem", "board_mem"}, published : BOOLEAN]

Types ==
    /\ pc \in Pcs /\ held \subseteq Resources /\ mapped \subseteq Mappable
    /\ bi \subseteq Fields
    /\ why \in Pcs \cup {"none"}
    /\ late \in Seq(Commands) /\ Len(late) <= MaxLate
    /\ pci \in Pci /\ dev \in Dev /\ gs \in Gs

\* Before the chip driver is called only the board's own parts are held, and
\* a board_init that fails gives back all but its patch.
BoardHeld ==
    /\ pc \in BoardPcs \cup HookPcs => held \subseteq BoardParts
    /\ pc = "board" => held = {}
    /\ pc = "b_ipci" => held \subseteq {"b_expansion"}
    /\ pc = "b_device" \/ pc = "b_patch" => held \subseteq {"b_expansion", "b_ipci"}
    /\ pc = "b_card" \/ pc = "b_drop" => held \subseteq {"b_expansion", "b_ipci", "patch"}
    /\ pc = "b_hook" \/ pc = "b_close_card" =>
          held \subseteq {"b_expansion", "b_ipci", "patch", "pcigraphics"}
    /\ pc = "b_close" => held \subseteq {"b_expansion", "patch"}
    /\ pc = "no_board" => held \subseteq {"patch"}

\* What the rest relies on is held exactly where it may be.
Acquired ==
    /\ "expansion" \in held <=> pc \in FromExpansion \cup Labels
    /\ "ipci" \in held <=> pc \in FromIpci \cup DownIpci
    /\ "pciLock" \in held <=> pc \in FromPciLock \cup DownPciLock
    /\ "gs" \in held <=> pc \in FromGs \cup DownGs
    /\ pc \in FromLocks \cup DownCmd => Locks \subseteq held
    /\ held \cap Locks # {} => pc \in FromLocks \cup DownGs
    /\ "cmd_buf" \in held <=> pc \in FromCmd \cup DownCmd
    /\ "resp_buf" \in held <=> pc \in FromResp \cup DownResp
    /\ "cursor_cmd_buf" \in held => pc \in FromCursorCmd \cup DownResp
    /\ "ctrlq" \in held <=>
          pc \in {"ctrlq_map", "ctrlq_list"} \cup FromCtrlQ \cup DownQueues
    /\ pc \in {"cursorq_map", "cursorq_list"} => "cursorq" \in held
    /\ "cursorq" \in held =>
          pc \in {"cursorq_map", "cursorq_list"} \cup FromCursorQ \cup DownQueues
    /\ "fb_mem" \in held <=> pc \in FromFb \cup DownFb
    /\ "fb_dma_list" \in held <=> pc \in FromList \cup DownList

\* What is optional is held at most where it may be.  The buffer for 3D is
\* freed at a label that a framebuffer that cannot be had leaves out.
Optional ==
    /\ "cmd3d_lock" \in held => pc \in From3D \cup DownGs
    /\ "cmd3d_buf" \in held =>
          \/ pc \in From3D \cup DownFb
          \/ why = "fb_mem" /\ pc \in Labels \cup {"refused"}
    /\ held \cap {"board_mem", "vsync_mutex", "edid_entry"} # {} => pc \in FromPublish

\* A buffer is mapped from one step to one label.
Reachable ==
    /\ "cmd_buf" \in held => "cmd_buf" \in mapped
    /\ "fb_mem" \in mapped <=> pc \in FromMapFb \cup DownMapFb
    /\ "ctrlq" \in mapped <=> pc \in {"ctrlq_list"} \cup FromCtrlQ \cup DownQueues
    /\ "cursorq" \in mapped => pc \in {"cursorq_list"} \cup FromCursorQ \cup DownQueues

\* What the device shows when the driver goes on; after the scanout only
\* harmless commands can be late.
Shown ==
    /\ pc = "attach" => late = <<>>
    /\ pc = "scanout" => late = <<>> /\ dev.fb = "backed"
    /\ pc \in FromFlush =>
          /\ dev.fb = "backed" /\ dev.scanout
          /\ \A i \in 1 .. Len(late) : late[i] \in {"transfer", "info"}

Ready == pc \in FromOk => dev.status = "driver_ok"

\* What of the card has been published.
Filled ==
    /\ bi \cap {"vtable", "edid_entry"} # {} => pc \in FromRegister
    /\ pc \in FromRegister => "vtable" \in bi
    /\ pc \in {"capsets", "running"} => "modes" \in bi
    /\ pc \in {"chip_FindCard"} \cup Sequence => {"CardBase", "ChipBase"} \subseteq bi
    /\ pc \in Sequence => "HardInterrupt" \in bi
    /\ pc \in {"boardinfo", "vtable"} \cup FromRegister => gs.published
    /\ pc \in FromPublish => gs.board_mem \in held \cap {"fb_mem", "board_mem"}
    /\ gs.capsets /\ gs.has_virgl /\ pc \in FromOk =>
          pc \in From3D /\ {"cmd3d_buf", "cmd3d_lock"} \subseteq held
    /\ gs.capsets => pc \in From3D \cup Labels \cup {"refused"}

IInv ==
    /\ Types /\ BoardHeld /\ Acquired /\ Optional /\ Shown /\ Ready /\ Filled
    /\ Reachable /\ mapped \subseteq held
    /\ BarsDecodable
-----------------------------------------------------------------------------
(* The ladder, label by label.                                             *)

Unwinds(l, next, freed, unmapped) ==
    /\ pc = l
    /\ held' = held \ freed
    /\ mapped' = mapped \ unmapped
    /\ pc' = next
    /\ UNCHANGED <<pci, dev, gs, bi, late, why>>

Unwinding ==
    \/ Unwinds("fail_fb_dma_list", "fail_fb_dma",
               {"vsync_mutex", "fb_dma_list"}, {})
    \/ Unwinds("fail_fb_dma", "fail_fb_mem", {}, {"fb_mem"})
    \/ Unwinds("fail_fb_mem", "fail_vqs",
               {"fb_mem", "cmd3d_buf"}, {"cmd3d_buf"})
    \/ Unwinds("fail_vqs", "fail_resp", Queues, Queues)
    \/ Unwinds("fail_resp", "fail_cmd",
               {"cursor_cmd_buf", "resp_buf"}, {"cursor_cmd_buf", "resp_buf"})
    \/ Unwinds("fail_cmd", "fail_gs", {"cmd_buf"}, {"cmd_buf"})
    \/ Unwinds("fail_gs", "fail_pci", Locks \cup {"cmd3d_lock", "gs"}, {})
    \/ Unwinds("fail_pci", "fail_ipci", {"pciLock"}, {})
    \/ Unwinds("fail_ipci", "fail_exp", {"ipci"}, {})
    \/ Unwinds("fail_exp", "refused", {"expansion"}, {})

\* A label gives back what it names and falls through to the next one.
LEMMA UnwindCases ==
    ASSUME NEW i \in 1 .. (Len(Ladder) - 1), Unwind(i)
    PROVE  Unwinding
<1>1. i \in 1 .. 10
  BY DEF Ladder
<1>2. CASE i = 1
  <2>1. Ladder[1] = "fail_fb_dma_list" /\ Ladder[1 + 1] = "fail_fb_dma"
    BY DEF Ladder
  <2>2. Freed("fail_fb_dma_list") = {"vsync_mutex", "fb_dma_list"}
    BY DEF Freed
  <2>3. Unmapped("fail_fb_dma_list") = {}
    BY DEF Unmapped, Freed
  <2> QED BY <1>2, <2>1, <2>2, <2>3 DEF Unwind, Unwinding, Unwinds, Goto
<1>3. CASE i = 2
  <2>1. Ladder[2] = "fail_fb_dma" /\ Ladder[2 + 1] = "fail_fb_mem"
    BY DEF Ladder
  <2>2. Freed("fail_fb_dma") = {}
    BY DEF Freed
  <2>3. Unmapped("fail_fb_dma") = {"fb_mem"}
    BY DEF Unmapped, Freed
  <2> QED BY <1>3, <2>1, <2>2, <2>3 DEF Unwind, Unwinding, Unwinds, Goto
<1>4. CASE i = 3
  <2>1. Ladder[3] = "fail_fb_mem" /\ Ladder[3 + 1] = "fail_vqs"
    BY DEF Ladder
  <2>2. Freed("fail_fb_mem") = {"fb_mem", "cmd3d_buf"}
    BY DEF Freed
  <2>3. Unmapped("fail_fb_mem") = {"cmd3d_buf"}
    BY DEF Unmapped, Freed
  <2> QED BY <1>4, <2>1, <2>2, <2>3 DEF Unwind, Unwinding, Unwinds, Goto
<1>5. CASE i = 4
  <2>1. Ladder[4] = "fail_vqs" /\ Ladder[4 + 1] = "fail_resp"
    BY DEF Ladder
  <2>2. Freed("fail_vqs") = Queues
    BY DEF Freed
  <2>3. Unmapped("fail_vqs") = Queues
    BY DEF Unmapped, Freed
  <2> QED BY <1>5, <2>1, <2>2, <2>3 DEF Unwind, Unwinding, Unwinds, Goto
<1>6. CASE i = 5
  <2>1. Ladder[5] = "fail_resp" /\ Ladder[5 + 1] = "fail_cmd"
    BY DEF Ladder
  <2>2. Freed("fail_resp") = {"cursor_cmd_buf", "resp_buf"}
    BY DEF Freed
  <2>3. Unmapped("fail_resp") = {"cursor_cmd_buf", "resp_buf"}
    BY DEF Unmapped, Freed
  <2> QED BY <1>6, <2>1, <2>2, <2>3 DEF Unwind, Unwinding, Unwinds, Goto
<1>7. CASE i = 6
  <2>1. Ladder[6] = "fail_cmd" /\ Ladder[6 + 1] = "fail_gs"
    BY DEF Ladder
  <2>2. Freed("fail_cmd") = {"cmd_buf"}
    BY DEF Freed
  <2>3. Unmapped("fail_cmd") = {"cmd_buf"}
    BY DEF Unmapped, Freed
  <2> QED BY <1>7, <2>1, <2>2, <2>3 DEF Unwind, Unwinding, Unwinds, Goto
<1>8. CASE i = 7
  <2>1. Ladder[7] = "fail_gs" /\ Ladder[7 + 1] = "fail_pci"
    BY DEF Ladder
  <2>2. Freed("fail_gs") = Locks \cup {"cmd3d_lock", "gs"}
    BY DEF Freed
  <2>3. Unmapped("fail_gs") = {}
    BY DEF Unmapped, Freed
  <2> QED BY <1>8, <2>1, <2>2, <2>3 DEF Unwind, Unwinding, Unwinds, Goto
<1>9. CASE i = 8
  <2>1. Ladder[8] = "fail_pci" /\ Ladder[8 + 1] = "fail_ipci"
    BY DEF Ladder
  <2>2. Freed("fail_pci") = {"pciLock"}
    BY DEF Freed
  <2>3. Unmapped("fail_pci") = {}
    BY DEF Unmapped, Freed
  <2> QED BY <1>9, <2>1, <2>2, <2>3 DEF Unwind, Unwinding, Unwinds, Goto
<1>10. CASE i = 9
  <2>1. Ladder[9] = "fail_ipci" /\ Ladder[9 + 1] = "fail_exp"
    BY DEF Ladder
  <2>2. Freed("fail_ipci") = {"ipci"}
    BY DEF Freed
  <2>3. Unmapped("fail_ipci") = {}
    BY DEF Unmapped, Freed
  <2> QED BY <1>10, <2>1, <2>2, <2>3 DEF Unwind, Unwinding, Unwinds, Goto
<1>11. CASE i = 10
  <2>1. Ladder[10] = "fail_exp" /\ Ladder[10 + 1] = "refused"
    BY DEF Ladder
  <2>2. Freed("fail_exp") = {"expansion"}
    BY DEF Freed
  <2>3. Unmapped("fail_exp") = {}
    BY ZenonT(60) DEF Unmapped, Freed
  <2> QED BY <1>11, <2>1, <2>2, <2>3 DEF Unwind, Unwinding, Unwinds, Goto
<1> QED BY <1>1, <1>2, <1>3, <1>4, <1>5, <1>6, <1>7, <1>8, <1>9, <1>10, <1>11

\* Where the driver is, and the step it failed at.
LEMMA PcsStay ==
    ASSUME Types, Next
    PROVE  pc' \in Pcs /\ why' \in Pcs \cup {"none"}
<1> USE DEF Types, Pcs, BoardPcs, HookPcs, FromRegister, FromPublish,
            FromFlush, FromList, FromMapFb, FromFb, From3D, FromOk,
            FromCursorQ, FromCtrlQ, FromCursorCmd, FromResp, FromCmd,
            FromLocks, FromGs, FromPciLock, FromIpci, FromExpansion, Sequence,
            DownList, DownMapFb, DownFb, DownQueues, DownResp, DownCmd, DownGs,
            DownPciLock, DownIpci, Labels
<1>1. ASSUME BoardOpenExpansion
     PROVE  pc' \in Pcs /\ why' \in Pcs \cup {"none"}
  BY <1>1 DEF BoardOpenExpansion, Obtain, Goto, Fail
<1>2. ASSUME BoardGetPCI
     PROVE  pc' \in Pcs /\ why' \in Pcs \cup {"none"}
  BY <1>2 DEF BoardGetPCI, Obtain, Goto, Fail
<1>3. ASSUME BoardFindDevice
     PROVE  pc' \in Pcs /\ why' \in Pcs \cup {"none"}
  BY <1>3 DEF BoardFindDevice, Goto, Fail
<1>4. ASSUME BoardAllocPatch
     PROVE  pc' \in Pcs /\ why' \in Pcs \cup {"none"}
  BY <1>4 DEF BoardAllocPatch, Obtain, Goto, Fail
<1>5. ASSUME BoardOpenCard
     PROVE  pc' \in Pcs /\ why' \in Pcs \cup {"none"}
  BY <1>5 DEF BoardOpenCard, Obtain, Goto, Fail
<1>6. ASSUME BoardHook PROVE pc' \in Pcs /\ why' \in Pcs \cup {"none"}
  BY <1>6 DEF BoardHook, Goto, Fail
<1>7. ASSUME BoardUnwind
     PROVE  pc' \in Pcs /\ why' \in Pcs \cup {"none"}
  BY <1>7 DEF BoardUnwind, Drop, Goto
<1>8. ASSUME hook_FindCard
     PROVE  pc' \in Pcs /\ why' \in Pcs \cup {"none"}
  BY <1>8 DEF hook_FindCard, Goto
<1>9. ASSUME hook_InitBoard
     PROVE  pc' \in Pcs /\ why' \in Pcs \cup {"none"}
  BY <1>9 DEF hook_InitBoard, Goto, Fail
<1>10. ASSUME chip_FindCard
     PROVE  pc' \in Pcs /\ why' \in Pcs \cup {"none"}
  BY <1>10 DEF chip_FindCard, Goto
<1>11. ASSUME OpenExpansion
     PROVE  pc' \in Pcs /\ why' \in Pcs \cup {"none"}
  BY <1>11 DEF OpenExpansion, Obtain, Goto, Fail
<1>12. ASSUME GetPCI PROVE pc' \in Pcs /\ why' \in Pcs \cup {"none"}
  BY <1>12 DEF GetPCI, Obtain, Goto, Fail
<1>13. ASSUME LockDevice
     PROVE  pc' \in Pcs /\ why' \in Pcs \cup {"none"}
  BY <1>13 DEF LockDevice, Obtain, Goto, Fail
<1>14. ASSUME AllocState
     PROVE  pc' \in Pcs /\ why' \in Pcs \cup {"none"}
  BY <1>14 DEF AllocState, Obtain, Goto, Fail
<1>15. ASSUME AllocLocks
     PROVE  pc' \in Pcs /\ why' \in Pcs \cup {"none"}
  BY <1>15 DEF AllocLocks, Goto, Fail
<1>16. ASSUME EnableDevice
     PROVE  pc' \in Pcs /\ why' \in Pcs \cup {"none"}
  BY <1>16 DEF EnableDevice, Goto
<1>17. ASSUME ScanCaps PROVE pc' \in Pcs /\ why' \in Pcs \cup {"none"}
  BY <1>17 DEF ScanCaps, Goto, Fail
<1>18. ASSUME AllocCmdBuf
     PROVE  pc' \in Pcs /\ why' \in Pcs \cup {"none"}
  BY <1>18 DEF AllocCmdBuf, ObtainDMA, Goto, Fail
<1>19. ASSUME AllocRespBuf
     PROVE  pc' \in Pcs /\ why' \in Pcs \cup {"none"}
  BY <1>19 DEF AllocRespBuf, ObtainDMA, Goto, Fail
<1>20. ASSUME AllocCursorCmdBuf
     PROVE  pc' \in Pcs /\ why' \in Pcs \cup {"none"}
  BY <1>20 DEF AllocCursorCmdBuf, Goto
<1>21. ASSUME Negotiate PROVE pc' \in Pcs /\ why' \in Pcs \cup {"none"}
  BY <1>21 DEF Negotiate, Goto, Fail
<1>22. ASSUME DriverOk PROVE pc' \in Pcs /\ why' \in Pcs \cup {"none"}
  BY <1>22 DEF DriverOk, Goto
<1>23. ASSUME NEW q \in Queues, AllocQueue(q)
     PROVE  pc' \in Pcs /\ why' \in Pcs \cup {"none"}
  BY <1>23 DEF AllocQueue, QueueFails, MapStep, ListStep, Goto, Fail, Queues
<1>24. ASSUME NEW q \in Queues, MapQueue(q)
     PROVE  pc' \in Pcs /\ why' \in Pcs \cup {"none"}
  BY <1>24 DEF MapQueue, QueueFails, MapStep, ListStep, Goto, Fail, Queues
<1>25. ASSUME NEW q \in Queues, EnableQueue(q)
     PROVE  pc' \in Pcs /\ why' \in Pcs \cup {"none"}
  BY <1>25 DEF EnableQueue, QueueFails, MapStep, ListStep, Goto, Fail, Queues
<1>26. ASSUME InstallIrq
     PROVE  pc' \in Pcs /\ why' \in Pcs \cup {"none"}
  BY <1>26, ZenonT(60) DEF InstallIrq, Goto
<1>27. ASSUME Setup3D PROVE pc' \in Pcs /\ why' \in Pcs \cup {"none"}
  BY <1>27 DEF Setup3D, Goto
<1>28. ASSUME GetResolution
     PROVE  pc' \in Pcs /\ why' \in Pcs \cup {"none"}
  BY <1>28 DEF GetResolution, Goto
<1>29. ASSUME AllocFb PROVE pc' \in Pcs /\ why' \in Pcs \cup {"none"}
  BY <1>29 DEF AllocFb, Obtain, Goto, Fail
<1>30. ASSUME MapFb PROVE pc' \in Pcs /\ why' \in Pcs \cup {"none"}
  BY <1>30 DEF MapFb, Goto, Fail
<1>31. ASSUME ListFb PROVE pc' \in Pcs /\ why' \in Pcs \cup {"none"}
  BY <1>31 DEF ListFb, Obtain, Goto, Fail
<1>32. ASSUME CreateBlob
     PROVE  pc' \in Pcs /\ why' \in Pcs \cup {"none"}
  BY <1>32 DEF CreateBlob, Goto
<1>33. ASSUME CreateFb PROVE pc' \in Pcs /\ why' \in Pcs \cup {"none"}
  BY <1>33 DEF CreateFb, MustSend, Goto, Fail
<1>34. ASSUME AttachFb PROVE pc' \in Pcs /\ why' \in Pcs \cup {"none"}
  BY <1>34 DEF AttachFb, MustSend, Goto, Fail
<1>35. ASSUME ScanoutFb PROVE pc' \in Pcs /\ why' \in Pcs \cup {"none"}
  BY <1>35 DEF ScanoutFb, MustSend, Goto, Fail
<1>36. ASSUME FirstFlush
     PROVE  pc' \in Pcs /\ why' \in Pcs \cup {"none"}
  BY <1>36 DEF FirstFlush, Goto
<1>37. ASSUME AllocBoardMem
     PROVE  pc' \in Pcs /\ why' \in Pcs \cup {"none"}
  BY <1>37 DEF AllocBoardMem, Goto
<1>38. ASSUME PublishState
     PROVE  pc' \in Pcs /\ why' \in Pcs \cup {"none"}
  BY <1>38 DEF PublishState, Goto
<1>39. ASSUME FillBoardInfo
     PROVE  pc' \in Pcs /\ why' \in Pcs \cup {"none"}
  BY <1>39 DEF FillBoardInfo, Goto
<1>40. ASSUME chip_fill_boardinfo_vtable
     PROVE  pc' \in Pcs /\ why' \in Pcs \cup {"none"}
  BY <1>40 DEF chip_fill_boardinfo_vtable, Goto
<1>41. ASSUME chip_register_edid
     PROVE  pc' \in Pcs /\ why' \in Pcs \cup {"none"}
  BY <1>41 DEF chip_register_edid, Goto
<1>42. ASSUME RegisterModes
     PROVE  pc' \in Pcs /\ why' \in Pcs \cup {"none"}
  BY <1>42 DEF RegisterModes, Goto
<1>43. ASSUME QueryCapsets
     PROVE  pc' \in Pcs /\ why' \in Pcs \cup {"none"}
  BY <1>43 DEF QueryCapsets, Goto
<1>44. ASSUME Unwinding PROVE pc' \in Pcs /\ why' \in Pcs \cup {"none"}
  BY <1>44 DEF Unwinding, Unwinds
<1>45. ASSUME DevLate PROVE pc' \in Pcs /\ why' \in Pcs \cup {"none"}
  BY <1>45 DEF DevLate
<1>46. CASE UNCHANGED vars
  BY <1>46 DEF vars
<1> QED BY UnwindCases, <1>1, <1>2, <1>3, <1>4, <1>5, <1>6, <1>7, <1>8, <1>9,
           <1>10, <1>11, <1>12, <1>13, <1>14, <1>15, <1>16, <1>17, <1>18,
           <1>19, <1>20, <1>21, <1>22, <1>23, <1>24, <1>25, <1>26, <1>27,
           <1>28, <1>29, <1>30, <1>31, <1>32, <1>33, <1>34, <1>35, <1>36,
           <1>37, <1>38, <1>39, <1>40, <1>41, <1>42, <1>43, <1>44, <1>45, <1>46
    DEF Next, Stopped

\* What is held and mapped, and what of BoardInfo is filled in.
LEMMA PartsStay ==
    ASSUME Types, Next
    PROVE  held' \subseteq Resources /\ mapped' \subseteq Mappable /\ bi' \subseteq Fields
<1> USE DEF Types, Resources, Mappable, Fields, Queues, Locks
<1>1. ASSUME BoardOpenExpansion
     PROVE  held' \subseteq Resources /\ mapped' \subseteq Mappable /\ bi' \subseteq Fields
  BY <1>1 DEF BoardOpenExpansion, Obtain, Goto, Fail
<1>2. ASSUME BoardGetPCI
     PROVE  held' \subseteq Resources /\ mapped' \subseteq Mappable /\ bi' \subseteq Fields
  BY <1>2 DEF BoardGetPCI, Obtain, Goto, Fail
<1>3. ASSUME BoardFindDevice
     PROVE  held' \subseteq Resources /\ mapped' \subseteq Mappable /\ bi' \subseteq Fields
  BY <1>3 DEF BoardFindDevice, Goto, Fail
<1>4. ASSUME BoardAllocPatch
     PROVE  held' \subseteq Resources /\ mapped' \subseteq Mappable /\ bi' \subseteq Fields
  BY <1>4 DEF BoardAllocPatch, Obtain, Goto, Fail
<1>5. ASSUME BoardOpenCard
     PROVE  held' \subseteq Resources /\ mapped' \subseteq Mappable /\ bi' \subseteq Fields
  BY <1>5 DEF BoardOpenCard, Obtain, Goto, Fail
<1>6. ASSUME BoardHook
     PROVE  held' \subseteq Resources /\ mapped' \subseteq Mappable /\ bi' \subseteq Fields
  BY <1>6 DEF BoardHook, Goto, Fail
<1>7. ASSUME BoardUnwind
     PROVE  held' \subseteq Resources /\ mapped' \subseteq Mappable /\ bi' \subseteq Fields
  BY <1>7 DEF BoardUnwind, Drop, Goto
<1>8. ASSUME hook_FindCard
     PROVE  held' \subseteq Resources /\ mapped' \subseteq Mappable /\ bi' \subseteq Fields
  BY <1>8 DEF hook_FindCard, Goto
<1>9. ASSUME hook_InitBoard
     PROVE  held' \subseteq Resources /\ mapped' \subseteq Mappable /\ bi' \subseteq Fields
  BY <1>9 DEF hook_InitBoard, Goto, Fail
<1>10. ASSUME chip_FindCard
     PROVE  held' \subseteq Resources /\ mapped' \subseteq Mappable /\ bi' \subseteq Fields
  BY <1>10 DEF chip_FindCard, Goto
<1>11. ASSUME OpenExpansion
     PROVE  held' \subseteq Resources /\ mapped' \subseteq Mappable /\ bi' \subseteq Fields
  BY <1>11 DEF OpenExpansion, Obtain, Goto, Fail
<1>12. ASSUME GetPCI
     PROVE  held' \subseteq Resources /\ mapped' \subseteq Mappable /\ bi' \subseteq Fields
  BY <1>12 DEF GetPCI, Obtain, Goto, Fail
<1>13. ASSUME LockDevice
     PROVE  held' \subseteq Resources /\ mapped' \subseteq Mappable /\ bi' \subseteq Fields
  BY <1>13 DEF LockDevice, Obtain, Goto, Fail
<1>14. ASSUME AllocState
     PROVE  held' \subseteq Resources /\ mapped' \subseteq Mappable /\ bi' \subseteq Fields
  BY <1>14 DEF AllocState, Obtain, Goto, Fail
<1>15. ASSUME AllocLocks
     PROVE  held' \subseteq Resources /\ mapped' \subseteq Mappable /\ bi' \subseteq Fields
  BY <1>15 DEF AllocLocks, Goto, Fail
<1>16. ASSUME EnableDevice
     PROVE  held' \subseteq Resources /\ mapped' \subseteq Mappable /\ bi' \subseteq Fields
  BY <1>16 DEF EnableDevice, Goto
<1>17. ASSUME ScanCaps
     PROVE  held' \subseteq Resources /\ mapped' \subseteq Mappable /\ bi' \subseteq Fields
  BY <1>17 DEF ScanCaps, Goto, Fail
<1>18. ASSUME AllocCmdBuf
     PROVE  held' \subseteq Resources /\ mapped' \subseteq Mappable /\ bi' \subseteq Fields
  BY <1>18 DEF AllocCmdBuf, ObtainDMA, Goto, Fail
<1>19. ASSUME AllocRespBuf
     PROVE  held' \subseteq Resources /\ mapped' \subseteq Mappable /\ bi' \subseteq Fields
  BY <1>19 DEF AllocRespBuf, ObtainDMA, Goto, Fail
<1>20. ASSUME AllocCursorCmdBuf
     PROVE  held' \subseteq Resources /\ mapped' \subseteq Mappable /\ bi' \subseteq Fields
  BY <1>20 DEF AllocCursorCmdBuf, Goto
<1>21. ASSUME Negotiate
     PROVE  held' \subseteq Resources /\ mapped' \subseteq Mappable /\ bi' \subseteq Fields
  BY <1>21 DEF Negotiate, Goto, Fail
<1>22. ASSUME DriverOk
     PROVE  held' \subseteq Resources /\ mapped' \subseteq Mappable /\ bi' \subseteq Fields
  BY <1>22 DEF DriverOk, Goto
<1>23. ASSUME NEW q \in Queues, AllocQueue(q)
     PROVE  held' \subseteq Resources /\ mapped' \subseteq Mappable /\ bi' \subseteq Fields
  BY <1>23 DEF AllocQueue, QueueFails, MapStep, ListStep, Goto, Fail, Queues
<1>24. ASSUME NEW q \in Queues, MapQueue(q)
     PROVE  held' \subseteq Resources /\ mapped' \subseteq Mappable /\ bi' \subseteq Fields
  BY <1>24 DEF MapQueue, QueueFails, MapStep, ListStep, Goto, Fail, Queues
<1>25. ASSUME NEW q \in Queues, EnableQueue(q)
     PROVE  held' \subseteq Resources /\ mapped' \subseteq Mappable /\ bi' \subseteq Fields
  BY <1>25 DEF EnableQueue, QueueFails, MapStep, ListStep, Goto, Fail, Queues
<1>26. ASSUME InstallIrq
     PROVE  held' \subseteq Resources /\ mapped' \subseteq Mappable /\ bi' \subseteq Fields
  BY <1>26, ZenonT(60) DEF InstallIrq, Goto
<1>27. ASSUME Setup3D
     PROVE  held' \subseteq Resources /\ mapped' \subseteq Mappable /\ bi' \subseteq Fields
  BY <1>27 DEF Setup3D, Goto
<1>28. ASSUME GetResolution
     PROVE  held' \subseteq Resources /\ mapped' \subseteq Mappable /\ bi' \subseteq Fields
  BY <1>28 DEF GetResolution, Goto
<1>29. ASSUME AllocFb
     PROVE  held' \subseteq Resources /\ mapped' \subseteq Mappable /\ bi' \subseteq Fields
  BY <1>29 DEF AllocFb, Obtain, Goto, Fail
<1>30. ASSUME MapFb
     PROVE  held' \subseteq Resources /\ mapped' \subseteq Mappable /\ bi' \subseteq Fields
  BY <1>30 DEF MapFb, Goto, Fail
<1>31. ASSUME ListFb
     PROVE  held' \subseteq Resources /\ mapped' \subseteq Mappable /\ bi' \subseteq Fields
  BY <1>31 DEF ListFb, Obtain, Goto, Fail
<1>32. ASSUME CreateBlob
     PROVE  held' \subseteq Resources /\ mapped' \subseteq Mappable /\ bi' \subseteq Fields
  BY <1>32 DEF CreateBlob, Goto
<1>33. ASSUME CreateFb
     PROVE  held' \subseteq Resources /\ mapped' \subseteq Mappable /\ bi' \subseteq Fields
  BY <1>33 DEF CreateFb, MustSend, Goto, Fail
<1>34. ASSUME AttachFb
     PROVE  held' \subseteq Resources /\ mapped' \subseteq Mappable /\ bi' \subseteq Fields
  BY <1>34 DEF AttachFb, MustSend, Goto, Fail
<1>35. ASSUME ScanoutFb
     PROVE  held' \subseteq Resources /\ mapped' \subseteq Mappable /\ bi' \subseteq Fields
  BY <1>35 DEF ScanoutFb, MustSend, Goto, Fail
<1>36. ASSUME FirstFlush
     PROVE  held' \subseteq Resources /\ mapped' \subseteq Mappable /\ bi' \subseteq Fields
  BY <1>36 DEF FirstFlush, Goto
<1>37. ASSUME AllocBoardMem
     PROVE  held' \subseteq Resources /\ mapped' \subseteq Mappable /\ bi' \subseteq Fields
  BY <1>37 DEF AllocBoardMem, Goto
<1>38. ASSUME PublishState
     PROVE  held' \subseteq Resources /\ mapped' \subseteq Mappable /\ bi' \subseteq Fields
  BY <1>38 DEF PublishState, Goto
<1>39. ASSUME FillBoardInfo
     PROVE  held' \subseteq Resources /\ mapped' \subseteq Mappable /\ bi' \subseteq Fields
  BY <1>39 DEF FillBoardInfo, Goto
<1>40. ASSUME chip_fill_boardinfo_vtable
     PROVE  held' \subseteq Resources /\ mapped' \subseteq Mappable /\ bi' \subseteq Fields
  BY <1>40 DEF chip_fill_boardinfo_vtable, Goto
<1>41. ASSUME chip_register_edid
     PROVE  held' \subseteq Resources /\ mapped' \subseteq Mappable /\ bi' \subseteq Fields
  BY <1>41 DEF chip_register_edid, Goto
<1>42. ASSUME RegisterModes
     PROVE  held' \subseteq Resources /\ mapped' \subseteq Mappable /\ bi' \subseteq Fields
  BY <1>42 DEF RegisterModes, Goto
<1>43. ASSUME QueryCapsets
     PROVE  held' \subseteq Resources /\ mapped' \subseteq Mappable /\ bi' \subseteq Fields
  BY <1>43 DEF QueryCapsets, Goto
<1>44. ASSUME Unwinding
     PROVE  held' \subseteq Resources /\ mapped' \subseteq Mappable /\ bi' \subseteq Fields
  BY <1>44 DEF Unwinding, Unwinds
<1>45. ASSUME DevLate
     PROVE  held' \subseteq Resources /\ mapped' \subseteq Mappable /\ bi' \subseteq Fields
  BY <1>45 DEF DevLate
<1>46. CASE UNCHANGED vars
  BY <1>46 DEF vars
<1> QED BY UnwindCases, <1>1, <1>2, <1>3, <1>4, <1>5, <1>6, <1>7, <1>8, <1>9,
           <1>10, <1>11, <1>12, <1>13, <1>14, <1>15, <1>16, <1>17, <1>18,
           <1>19, <1>20, <1>21, <1>22, <1>23, <1>24, <1>25, <1>26, <1>27,
           <1>28, <1>29, <1>30, <1>31, <1>32, <1>33, <1>34, <1>35, <1>36,
           <1>37, <1>38, <1>39, <1>40, <1>41, <1>42, <1>43, <1>44, <1>45, <1>46
    DEF Next, Stopped

\* The repair of the slots leaves slots.
LEMMA RepairedSlots ==
    ASSUME NEW slots \in [Slots -> SlotKinds]
    PROVE  Repaired(slots) \in [Slots -> SlotKinds]
BY DEF Repaired, SlotKinds

LEMMA ExecutedStays ==
    ASSUME Types, NEW c \in Commands
    PROVE  Executed(c) \in Dev
<1>1. CASE c \in {"edid", "info", "transfer"}
  BY <1>1 DEF Executed, Types
<1>2. CASE c = "blob"
  BY <1>2 DEF Executed, Types, Dev
<1>3. CASE c = "create"
  BY <1>3 DEF Executed, Types, Dev
<1>4. CASE c = "attach"
  BY <1>4 DEF Executed, Types, Dev
<1>5. CASE c = "scanout"
  BY <1>5 DEF Executed, Types, Dev
<1> QED BY <1>1, <1>2, <1>3, <1>4, <1>5 DEF Commands

\* A command that is answered is carried out; one that is given up on is
\* lost or late.
LEMMA Sent ==
    ASSUME Types, NEW c \in Commands, SendOk(c) \/ SendFails(c)
    PROVE  /\ dev' \in Dev
           /\ late' \in Seq(Commands) /\ Len(late') <= MaxLate
           /\ \/ late = <<>> /\ late' = late /\ dev' = Executed(c)
              \/ dev' = dev /\ (late' = late \/ late' = Append(late, c))
<1>1. CASE SendOk(c)
  BY <1>1, ExecutedStays DEF SendOk, Types
<1>2. CASE SendFails(c)
  <2>1. CASE late = <<>> /\ late' = late
    BY <1>2, <2>1 DEF SendFails, Types
  <2>2. CASE Len(late) < MaxLate /\ late' = Append(late, c)
    <3>1. late' \in Seq(Commands) /\ Len(late') = Len(late) + 1
      BY <2>2, AppendProperties DEF Types
    <3>2. Len(late) + 1 <= MaxLate
      BY <2>2, InitCardAssumption, LenProperties DEF Types
    <3> QED BY <1>2, <2>2, <3>1, <3>2 DEF SendFails, Types
  <2> QED BY <1>2, <2>1, <2>2 DEF SendFails
<1> QED BY <1>1, <1>2

\* The device comes to a command that was given up on.
LEMMA Later ==
    ASSUME Types, DevLate
    PROVE  /\ late # <<>> /\ Head(late) \in Commands
           /\ dev' \in Dev /\ dev' \in {dev, Executed(Head(late))}
           /\ late' = Tail(late)
           /\ late' \in Seq(Commands) /\ Len(late') <= MaxLate
<1>1. late # <<>> /\ late \in Seq(Commands) /\ late' = Tail(late)
  BY DEF DevLate, Types
<1>2. Head(late) \in Commands /\ late' \in Seq(Commands) /\ Len(late') = Len(late) - 1
  BY <1>1, HeadTailProperties
<1>3. Len(late') <= MaxLate
  BY <1>1, <1>2, InitCardAssumption, LenProperties DEF Types
<1>4. dev' \in {dev, Executed(Head(late))}
  BY DEF DevLate
<1>5. dev' \in Dev
  BY <1>2, <1>4, ExecutedStays, ZenonT(60) DEF Types
<1> QED BY <1>1, <1>2, <1>3, <1>4, <1>5

\* Configuration space.
LEMMA PciStays ==
    ASSUME Types, Next
    PROVE  pci' \in Pci
<1>1. ASSUME EnableDevice PROVE pci' \in Pci
  <2>1. pci.slots \in [Slots -> SlotKinds]
    BY DEF Types, Pci
  <2>2. Repaired(pci.slots) \in [Slots -> SlotKinds]
    BY <2>1, RepairedSlots
  <2> QED BY <1>1, <2>2 DEF EnableDevice, Types, Pci
<1>2. ASSUME InstallIrq PROVE pci' \in Pci
  BY <1>2 DEF InstallIrq, Goto, Types, Pci
<1>3. ASSUME UNCHANGED pci PROVE pci' \in Pci
  BY <1>3 DEF Types
<1> QED BY UnwindCases, <1>1, <1>2, <1>3
    DEF Next, vars, Stopped, AllocBoardMem, AllocCmdBuf, AllocCursorCmdBuf,
        AllocFb, AllocLocks, AllocQueue, AllocRespBuf, AllocState, AttachFb,
        BoardAllocPatch, BoardFindDevice, BoardGetPCI, BoardHook,
        BoardOpenCard, BoardOpenExpansion, BoardUnwind, CreateBlob, CreateFb,
        DevLate, DriverOk, Drop, EnableQueue, Fail, FillBoardInfo, FirstFlush,
        GetPCI, GetResolution, Goto, ListFb, ListStep, LockDevice, MapFb,
        MapQueue, MapStep, MustSend, Negotiate, Obtain, ObtainDMA,
        OpenExpansion, PublishState, QueryCapsets, QueueFails, Queues,
        RegisterModes, ScanCaps, ScanoutFb, Setup3D, Unwinding, Unwinds,
        chip_FindCard, chip_fill_boardinfo_vtable, chip_register_edid,
        hook_FindCard, hook_InitBoard

\* The device.
LEMMA DevStays ==
    ASSUME Types, Next
    PROVE  dev' \in Dev
<1>1. ASSUME ScanCaps PROVE dev' \in Dev
  BY <1>1 DEF ScanCaps, Goto, Fail, Types, Dev
<1>2. ASSUME Negotiate PROVE dev' \in Dev
  BY <1>2 DEF Negotiate, Goto, Fail, Types, Dev
<1>3. ASSUME DriverOk PROVE dev' \in Dev
  BY <1>3 DEF DriverOk, Goto, Types, Dev
<1>4. ASSUME NEW q \in Queues, EnableQueue(q) PROVE dev' \in Dev
  BY <1>4 DEF EnableQueue, QueueFails, MapStep, ListStep, Goto, Fail, Queues,
       Types, Dev
<1>5. ASSUME GetResolution PROVE dev' \in Dev
  BY <1>5, Sent DEF GetResolution, Commands
<1>6. ASSUME CreateBlob PROVE dev' \in Dev
  BY <1>6, Sent DEF CreateBlob, Commands, Types
<1>7. ASSUME CreateFb PROVE dev' \in Dev
  BY <1>7, Sent DEF CreateFb, MustSend, Commands
<1>8. ASSUME AttachFb PROVE dev' \in Dev
  BY <1>8, Sent DEF AttachFb, MustSend, Commands
<1>9. ASSUME ScanoutFb PROVE dev' \in Dev
  BY <1>9, Sent DEF ScanoutFb, MustSend, Commands
<1>10. ASSUME FirstFlush PROVE dev' \in Dev
  BY <1>10, Sent DEF FirstFlush, Commands, Types
<1>11. ASSUME QueryCapsets PROVE dev' \in Dev
  BY <1>11, Sent DEF QueryCapsets, Commands
<1>12. ASSUME DevLate PROVE dev' \in Dev
  BY <1>12, Later
<1>13. ASSUME UNCHANGED dev PROVE dev' \in Dev
  BY <1>13, ZenonT(60) DEF Types
<1> QED BY UnwindCases, <1>1, <1>2, <1>3, <1>4, <1>5, <1>6, <1>7, <1>8, <1>9,
           <1>10, <1>11, <1>12, <1>13
    DEF Next, vars, Stopped, AllocBoardMem, AllocCmdBuf, AllocCursorCmdBuf,
        AllocFb, AllocLocks, AllocQueue, AllocRespBuf, AllocState,
        BoardAllocPatch, BoardFindDevice, BoardGetPCI, BoardHook,
        BoardOpenCard, BoardOpenExpansion, BoardUnwind, Drop, EnableDevice,
        Fail, FillBoardInfo, GetPCI, Goto, InstallIrq, ListFb, ListStep,
        LockDevice, MapFb, MapQueue, MapStep, Obtain, ObtainDMA, OpenExpansion,
        PublishState, QueueFails, Queues, RegisterModes, Setup3D, Unwinding,
        Unwinds, chip_FindCard, chip_fill_boardinfo_vtable, chip_register_edid,
        hook_FindCard, hook_InitBoard

\* What the device still holds.
LEMMA LateStays ==
    ASSUME Types, Next
    PROVE  late' \in Seq(Commands) /\ Len(late') <= MaxLate
<1>1. ASSUME GetResolution
     PROVE  late' \in Seq(Commands) /\ Len(late') <= MaxLate
  BY <1>1, Sent DEF GetResolution, Commands
<1>2. ASSUME CreateBlob
     PROVE  late' \in Seq(Commands) /\ Len(late') <= MaxLate
  BY <1>2, Sent DEF CreateBlob, Commands, Types
<1>3. ASSUME CreateFb
     PROVE  late' \in Seq(Commands) /\ Len(late') <= MaxLate
  BY <1>3, Sent DEF CreateFb, MustSend, Commands
<1>4. ASSUME AttachFb
     PROVE  late' \in Seq(Commands) /\ Len(late') <= MaxLate
  BY <1>4, Sent DEF AttachFb, MustSend, Commands
<1>5. ASSUME ScanoutFb
     PROVE  late' \in Seq(Commands) /\ Len(late') <= MaxLate
  BY <1>5, Sent DEF ScanoutFb, MustSend, Commands
<1>6. ASSUME FirstFlush
     PROVE  late' \in Seq(Commands) /\ Len(late') <= MaxLate
  BY <1>6, Sent DEF FirstFlush, Commands, Types
<1>7. ASSUME QueryCapsets
     PROVE  late' \in Seq(Commands) /\ Len(late') <= MaxLate
  BY <1>7, Sent DEF QueryCapsets, Commands
<1>8. ASSUME DevLate
     PROVE  late' \in Seq(Commands) /\ Len(late') <= MaxLate
  BY <1>8, Later
<1>9. ASSUME UNCHANGED late PROVE late' \in Seq(Commands) /\ Len(late') <= MaxLate
  BY <1>9 DEF Types
<1> QED BY UnwindCases, <1>1, <1>2, <1>3, <1>4, <1>5, <1>6, <1>7, <1>8, <1>9
    DEF Next, vars, Stopped, AllocBoardMem, AllocCmdBuf, AllocCursorCmdBuf,
        AllocFb, AllocLocks, AllocQueue, AllocRespBuf, AllocState,
        BoardAllocPatch, BoardFindDevice, BoardGetPCI, BoardHook,
        BoardOpenCard, BoardOpenExpansion, BoardUnwind, DriverOk, Drop,
        EnableDevice, EnableQueue, Fail, FillBoardInfo, GetPCI, Goto,
        InstallIrq, ListFb, ListStep, LockDevice, MapFb, MapQueue, MapStep,
        Negotiate, Obtain, ObtainDMA, OpenExpansion, PublishState, QueueFails,
        Queues, RegisterModes, ScanCaps, Setup3D, Unwinding, Unwinds,
        chip_FindCard, chip_fill_boardinfo_vtable, chip_register_edid,
        hook_FindCard, hook_InitBoard

\* The state of the chip.
LEMMA GsStays ==
    ASSUME Types, Next
    PROVE  gs' \in Gs
<1> USE DEF Types, Gs
<1>1. ASSUME ScanCaps PROVE gs' \in Gs
  BY <1>1 DEF ScanCaps, Goto, Fail
<1>2. ASSUME Negotiate PROVE gs' \in Gs
  <2>1. PICK offered \in SUBSET Features :
          gs' = [gs EXCEPT !.has_virgl = "virgl" \in offered,
                           !.has_blob = "blob" \in offered]
    BY <1>2 DEF Negotiate
  <2>2. ("virgl" \in offered) \in BOOLEAN /\ ("blob" \in offered) \in BOOLEAN
    OBVIOUS
  <2> QED BY <2>1, <2>2
<1>3. ASSUME Setup3D PROVE gs' \in Gs
  BY <1>3, ZenonT(60) DEF Setup3D, Goto
<1>4. ASSUME CreateBlob PROVE gs' \in Gs
  BY <1>4 DEF CreateBlob, Goto
<1>5. ASSUME AllocBoardMem PROVE gs' \in Gs
  BY <1>5 DEF AllocBoardMem, Goto
<1>6. ASSUME PublishState PROVE gs' \in Gs
  BY <1>6 DEF PublishState, Goto
<1>7. ASSUME UNCHANGED gs PROVE gs' \in Gs
  BY <1>7 DEF Types
<1> QED BY UnwindCases, <1>1, <1>2, <1>3, <1>4, <1>5, <1>6, <1>7
    DEF Next, vars, Stopped, AllocCmdBuf, AllocCursorCmdBuf, AllocFb,
        AllocLocks, AllocQueue, AllocRespBuf, AllocState, AttachFb,
        BoardAllocPatch, BoardFindDevice, BoardGetPCI, BoardHook,
        BoardOpenCard, BoardOpenExpansion, BoardUnwind, CreateFb, DevLate,
        DriverOk, Drop, EnableDevice, EnableQueue, Fail, FillBoardInfo,
        FirstFlush, GetPCI, GetResolution, Goto, InstallIrq, ListFb, ListStep,
        LockDevice, MapFb, MapQueue, MapStep, MustSend, Obtain, ObtainDMA,
        OpenExpansion, QueryCapsets, QueueFails, Queues, RegisterModes,
        ScanoutFb, Unwinding, Unwinds, chip_FindCard,
        chip_fill_boardinfo_vtable, chip_register_edid, hook_FindCard,
        hook_InitBoard

LEMMA TypesStay == ASSUME Types, Next PROVE Types'
BY PcsStay, PartsStay, PciStays, DevStays, LateStays, GsStays DEF Types

\* The part before the chip driver.
LEMMA BoardHeldStays ==
    ASSUME Types, BoardHeld, Next
    PROVE  BoardHeld'
<1> USE DEF BoardHeld, BoardParts, Pcs, BoardPcs, HookPcs, FromRegister,
            FromPublish, FromFlush, FromList, FromMapFb, FromFb, From3D,
            FromOk, FromCursorQ, FromCtrlQ, FromCursorCmd, FromResp, FromCmd,
            FromLocks, FromGs, FromPciLock, FromIpci, FromExpansion, Sequence,
            DownList, DownMapFb, DownFb, DownQueues, DownResp, DownCmd, DownGs,
            DownPciLock, DownIpci, Labels
<1>1. ASSUME BoardOpenExpansion PROVE BoardHeld'
  BY <1>1 DEF BoardOpenExpansion, Obtain, Goto, Fail
<1>2. ASSUME BoardGetPCI PROVE BoardHeld'
  BY <1>2 DEF BoardGetPCI, Obtain, Goto, Fail
<1>3. ASSUME BoardFindDevice PROVE BoardHeld'
  BY <1>3 DEF BoardFindDevice, Goto, Fail
<1>4. ASSUME BoardAllocPatch PROVE BoardHeld'
  BY <1>4 DEF BoardAllocPatch, Obtain, Goto, Fail
<1>5. ASSUME BoardOpenCard PROVE BoardHeld'
  BY <1>5 DEF BoardOpenCard, Obtain, Goto, Fail
<1>6. ASSUME BoardHook PROVE BoardHeld'
  BY <1>6 DEF BoardHook, Goto, Fail
<1>7. ASSUME BoardUnwind PROVE BoardHeld'
  BY <1>7 DEF BoardUnwind, Drop, Goto
<1>8. ASSUME hook_FindCard PROVE BoardHeld'
  BY <1>8 DEF hook_FindCard, Goto
<1>9. ASSUME hook_InitBoard PROVE BoardHeld'
  BY <1>9 DEF hook_InitBoard, Goto, Fail
<1>10. ASSUME chip_FindCard PROVE BoardHeld'
  BY <1>10 DEF chip_FindCard, Goto
<1>11. ASSUME OpenExpansion PROVE BoardHeld'
  BY <1>11 DEF OpenExpansion, Obtain, Goto, Fail
<1>12. ASSUME GetPCI PROVE BoardHeld'
  BY <1>12 DEF GetPCI, Obtain, Goto, Fail
<1>13. ASSUME LockDevice PROVE BoardHeld'
  BY <1>13 DEF LockDevice, Obtain, Goto, Fail
<1>14. ASSUME AllocState PROVE BoardHeld'
  BY <1>14 DEF AllocState, Obtain, Goto, Fail
<1>15. ASSUME AllocLocks PROVE BoardHeld'
  BY <1>15 DEF AllocLocks, Goto, Fail
<1>16. ASSUME EnableDevice PROVE BoardHeld'
  BY <1>16 DEF EnableDevice, Goto
<1>17. ASSUME ScanCaps PROVE BoardHeld'
  BY <1>17 DEF ScanCaps, Goto, Fail
<1>18. ASSUME AllocCmdBuf PROVE BoardHeld'
  BY <1>18 DEF AllocCmdBuf, ObtainDMA, Goto, Fail
<1>19. ASSUME AllocRespBuf PROVE BoardHeld'
  BY <1>19 DEF AllocRespBuf, ObtainDMA, Goto, Fail
<1>20. ASSUME AllocCursorCmdBuf PROVE BoardHeld'
  BY <1>20 DEF AllocCursorCmdBuf, Goto
<1>21. ASSUME Negotiate PROVE BoardHeld'
  BY <1>21 DEF Negotiate, Goto, Fail
<1>22. ASSUME DriverOk PROVE BoardHeld'
  BY <1>22 DEF DriverOk, Goto
<1>23. ASSUME NEW q \in Queues, AllocQueue(q) PROVE BoardHeld'
  BY <1>23 DEF AllocQueue, QueueFails, MapStep, ListStep, Goto, Fail, Queues
<1>24. ASSUME NEW q \in Queues, MapQueue(q) PROVE BoardHeld'
  BY <1>24 DEF MapQueue, QueueFails, MapStep, ListStep, Goto, Fail, Queues
<1>25. ASSUME NEW q \in Queues, EnableQueue(q) PROVE BoardHeld'
  BY <1>25 DEF EnableQueue, QueueFails, MapStep, ListStep, Goto, Fail, Queues
<1>26. ASSUME InstallIrq PROVE BoardHeld'
  BY <1>26, ZenonT(60) DEF InstallIrq, Goto
<1>27. ASSUME Setup3D PROVE BoardHeld'
  BY <1>27 DEF Setup3D, Goto
<1>28. ASSUME GetResolution PROVE BoardHeld'
  BY <1>28 DEF GetResolution, Goto
<1>29. ASSUME AllocFb PROVE BoardHeld'
  BY <1>29 DEF AllocFb, Obtain, Goto, Fail
<1>30. ASSUME MapFb PROVE BoardHeld'
  BY <1>30 DEF MapFb, Goto, Fail
<1>31. ASSUME ListFb PROVE BoardHeld'
  BY <1>31 DEF ListFb, Obtain, Goto, Fail
<1>32. ASSUME CreateBlob PROVE BoardHeld'
  BY <1>32 DEF CreateBlob, Goto
<1>33. ASSUME CreateFb PROVE BoardHeld'
  BY <1>33 DEF CreateFb, MustSend, Goto, Fail
<1>34. ASSUME AttachFb PROVE BoardHeld'
  BY <1>34 DEF AttachFb, MustSend, Goto, Fail
<1>35. ASSUME ScanoutFb PROVE BoardHeld'
  BY <1>35 DEF ScanoutFb, MustSend, Goto, Fail
<1>36. ASSUME FirstFlush PROVE BoardHeld'
  BY <1>36 DEF FirstFlush, Goto
<1>37. ASSUME AllocBoardMem PROVE BoardHeld'
  BY <1>37 DEF AllocBoardMem, Goto
<1>38. ASSUME PublishState PROVE BoardHeld'
  BY <1>38 DEF PublishState, Goto
<1>39. ASSUME FillBoardInfo PROVE BoardHeld'
  BY <1>39 DEF FillBoardInfo, Goto
<1>40. ASSUME chip_fill_boardinfo_vtable PROVE BoardHeld'
  BY <1>40 DEF chip_fill_boardinfo_vtable, Goto
<1>41. ASSUME chip_register_edid PROVE BoardHeld'
  BY <1>41 DEF chip_register_edid, Goto
<1>42. ASSUME RegisterModes PROVE BoardHeld'
  BY <1>42 DEF RegisterModes, Goto
<1>43. ASSUME QueryCapsets PROVE BoardHeld'
  BY <1>43 DEF QueryCapsets, Goto
<1>44. ASSUME Unwinding PROVE BoardHeld'
  BY <1>44 DEF Unwinding, Unwinds
<1>45. ASSUME DevLate PROVE BoardHeld'
  BY <1>45 DEF DevLate
<1>46. CASE UNCHANGED vars
  BY <1>46, ZenonT(60) DEF vars
<1> QED BY UnwindCases, <1>1, <1>2, <1>3, <1>4, <1>5, <1>6, <1>7, <1>8, <1>9,
           <1>10, <1>11, <1>12, <1>13, <1>14, <1>15, <1>16, <1>17, <1>18,
           <1>19, <1>20, <1>21, <1>22, <1>23, <1>24, <1>25, <1>26, <1>27,
           <1>28, <1>29, <1>30, <1>31, <1>32, <1>33, <1>34, <1>35, <1>36,
           <1>37, <1>38, <1>39, <1>40, <1>41, <1>42, <1>43, <1>44, <1>45, <1>46
    DEF Next, Stopped

\* Each resource is acquired at one step and given back at one label.
LEMMA AcquiredStays ==
    ASSUME Types, Acquired, Next
    PROVE  Acquired'
<1> USE DEF Types, Acquired, Resources, Locks, Queues, Pcs, BoardPcs, HookPcs,
            FromRegister, FromPublish, FromFlush, FromList, FromMapFb, FromFb,
            From3D, FromOk, FromCursorQ, FromCtrlQ, FromCursorCmd, FromResp,
            FromCmd, FromLocks, FromGs, FromPciLock, FromIpci, FromExpansion,
            Sequence, DownList, DownMapFb, DownFb, DownQueues, DownResp,
            DownCmd, DownGs, DownPciLock, DownIpci, Labels
<1>1. ASSUME BoardOpenExpansion PROVE Acquired'
  BY <1>1 DEF BoardOpenExpansion, Obtain, Goto, Fail
<1>2. ASSUME BoardGetPCI PROVE Acquired'
  BY <1>2 DEF BoardGetPCI, Obtain, Goto, Fail
<1>3. ASSUME BoardFindDevice PROVE Acquired'
  BY <1>3 DEF BoardFindDevice, Goto, Fail
<1>4. ASSUME BoardAllocPatch PROVE Acquired'
  BY <1>4 DEF BoardAllocPatch, Obtain, Goto, Fail
<1>5. ASSUME BoardOpenCard PROVE Acquired'
  BY <1>5 DEF BoardOpenCard, Obtain, Goto, Fail
<1>6. ASSUME BoardHook PROVE Acquired'
  BY <1>6 DEF BoardHook, Goto, Fail
<1>7. ASSUME BoardUnwind PROVE Acquired'
  BY <1>7 DEF BoardUnwind, Drop, Goto
<1>8. ASSUME hook_FindCard PROVE Acquired'
  BY <1>8 DEF hook_FindCard, Goto
<1>9. ASSUME hook_InitBoard PROVE Acquired'
  BY <1>9 DEF hook_InitBoard, Goto, Fail
<1>10. ASSUME chip_FindCard PROVE Acquired'
  BY <1>10 DEF chip_FindCard, Goto
<1>11. ASSUME OpenExpansion PROVE Acquired'
  BY <1>11 DEF OpenExpansion, Obtain, Goto, Fail
<1>12. ASSUME GetPCI PROVE Acquired'
  BY <1>12 DEF GetPCI, Obtain, Goto, Fail
<1>13. ASSUME LockDevice PROVE Acquired'
  BY <1>13 DEF LockDevice, Obtain, Goto, Fail
<1>14. ASSUME AllocState PROVE Acquired'
  BY <1>14 DEF AllocState, Obtain, Goto, Fail
<1>15. ASSUME AllocLocks PROVE Acquired'
  BY <1>15 DEF AllocLocks, Goto, Fail
<1>16. ASSUME EnableDevice PROVE Acquired'
  BY <1>16 DEF EnableDevice, Goto
<1>17. ASSUME ScanCaps PROVE Acquired'
  BY <1>17 DEF ScanCaps, Goto, Fail
<1>18. ASSUME AllocCmdBuf PROVE Acquired'
  BY <1>18 DEF AllocCmdBuf, ObtainDMA, Goto, Fail
<1>19. ASSUME AllocRespBuf PROVE Acquired'
  BY <1>19 DEF AllocRespBuf, ObtainDMA, Goto, Fail
<1>20. ASSUME AllocCursorCmdBuf PROVE Acquired'
  BY <1>20 DEF AllocCursorCmdBuf, Goto
<1>21. ASSUME Negotiate PROVE Acquired'
  BY <1>21 DEF Negotiate, Goto, Fail
<1>22. ASSUME DriverOk PROVE Acquired'
  BY <1>22 DEF DriverOk, Goto
<1>23. ASSUME NEW q \in Queues, AllocQueue(q) PROVE Acquired'
  BY <1>23 DEF AllocQueue, QueueFails, MapStep, ListStep, Goto, Fail, Queues
<1>24. ASSUME NEW q \in Queues, MapQueue(q) PROVE Acquired'
  BY <1>24 DEF MapQueue, QueueFails, MapStep, ListStep, Goto, Fail, Queues
<1>25. ASSUME NEW q \in Queues, EnableQueue(q) PROVE Acquired'
  BY <1>25 DEF EnableQueue, QueueFails, MapStep, ListStep, Goto, Fail, Queues
<1>26. ASSUME InstallIrq PROVE Acquired'
  BY <1>26 DEF InstallIrq, Goto
<1>27. ASSUME Setup3D PROVE Acquired'
  BY <1>27, ZenonT(60) DEF Setup3D, Goto
<1>28. ASSUME GetResolution PROVE Acquired'
  BY <1>28 DEF GetResolution, Goto
<1>29. ASSUME AllocFb PROVE Acquired'
  BY <1>29 DEF AllocFb, Obtain, Goto, Fail
<1>30. ASSUME MapFb PROVE Acquired'
  BY <1>30 DEF MapFb, Goto, Fail
<1>31. ASSUME ListFb PROVE Acquired'
  BY <1>31 DEF ListFb, Obtain, Goto, Fail
<1>32. ASSUME CreateBlob PROVE Acquired'
  BY <1>32 DEF CreateBlob, Goto
<1>33. ASSUME CreateFb PROVE Acquired'
  BY <1>33 DEF CreateFb, MustSend, Goto, Fail
<1>34. ASSUME AttachFb PROVE Acquired'
  BY <1>34 DEF AttachFb, MustSend, Goto, Fail
<1>35. ASSUME ScanoutFb PROVE Acquired'
  BY <1>35 DEF ScanoutFb, MustSend, Goto, Fail
<1>36. ASSUME FirstFlush PROVE Acquired'
  BY <1>36 DEF FirstFlush, Goto
<1>37. ASSUME AllocBoardMem PROVE Acquired'
  BY <1>37 DEF AllocBoardMem, Goto
<1>38. ASSUME PublishState PROVE Acquired'
  BY <1>38 DEF PublishState, Goto
<1>39. ASSUME FillBoardInfo PROVE Acquired'
  BY <1>39 DEF FillBoardInfo, Goto
<1>40. ASSUME chip_fill_boardinfo_vtable PROVE Acquired'
  BY <1>40 DEF chip_fill_boardinfo_vtable, Goto
<1>41. ASSUME chip_register_edid PROVE Acquired'
  BY <1>41 DEF chip_register_edid, Goto
<1>42. ASSUME RegisterModes PROVE Acquired'
  BY <1>42 DEF RegisterModes, Goto
<1>43. ASSUME QueryCapsets PROVE Acquired'
  BY <1>43 DEF QueryCapsets, Goto
<1>44. ASSUME Unwinding PROVE Acquired'
  BY <1>44 DEF Unwinding, Unwinds
<1>45. ASSUME DevLate PROVE Acquired'
  BY <1>45 DEF DevLate
<1>46. CASE UNCHANGED vars
  BY <1>46, SMTT(60) DEF vars
<1> QED BY UnwindCases, <1>1, <1>2, <1>3, <1>4, <1>5, <1>6, <1>7, <1>8, <1>9,
           <1>10, <1>11, <1>12, <1>13, <1>14, <1>15, <1>16, <1>17, <1>18,
           <1>19, <1>20, <1>21, <1>22, <1>23, <1>24, <1>25, <1>26, <1>27,
           <1>28, <1>29, <1>30, <1>31, <1>32, <1>33, <1>34, <1>35, <1>36,
           <1>37, <1>38, <1>39, <1>40, <1>41, <1>42, <1>43, <1>44, <1>45, <1>46, ZenonT(60)
    DEF Next, Stopped

\* What the driver can do without.
LEMMA OptionalStays ==
    ASSUME Types, Optional, Next
    PROVE  Optional'
<1> USE DEF Types, Optional, Locks, Queues, Pcs, BoardPcs, HookPcs,
            FromRegister, FromPublish, FromFlush, FromList, FromMapFb, FromFb,
            From3D, FromOk, FromCursorQ, FromCtrlQ, FromCursorCmd, FromResp,
            FromCmd, FromLocks, FromGs, FromPciLock, FromIpci, FromExpansion,
            Sequence, DownList, DownMapFb, DownFb, DownQueues, DownResp,
            DownCmd, DownGs, DownPciLock, DownIpci, Labels
<1>1. ASSUME BoardOpenExpansion PROVE Optional'
  BY <1>1 DEF BoardOpenExpansion, Obtain, Goto, Fail
<1>2. ASSUME BoardGetPCI PROVE Optional'
  BY <1>2 DEF BoardGetPCI, Obtain, Goto, Fail
<1>3. ASSUME BoardFindDevice PROVE Optional'
  BY <1>3 DEF BoardFindDevice, Goto, Fail
<1>4. ASSUME BoardAllocPatch PROVE Optional'
  BY <1>4 DEF BoardAllocPatch, Obtain, Goto, Fail
<1>5. ASSUME BoardOpenCard PROVE Optional'
  BY <1>5 DEF BoardOpenCard, Obtain, Goto, Fail
<1>6. ASSUME BoardHook PROVE Optional'
  BY <1>6 DEF BoardHook, Goto, Fail
<1>7. ASSUME BoardUnwind PROVE Optional'
  BY <1>7 DEF BoardUnwind, Drop, Goto
<1>8. ASSUME hook_FindCard PROVE Optional'
  BY <1>8 DEF hook_FindCard, Goto
<1>9. ASSUME hook_InitBoard PROVE Optional'
  BY <1>9 DEF hook_InitBoard, Goto, Fail
<1>10. ASSUME chip_FindCard PROVE Optional'
  BY <1>10 DEF chip_FindCard, Goto
<1>11. ASSUME OpenExpansion PROVE Optional'
  BY <1>11 DEF OpenExpansion, Obtain, Goto, Fail
<1>12. ASSUME GetPCI PROVE Optional'
  BY <1>12 DEF GetPCI, Obtain, Goto, Fail
<1>13. ASSUME LockDevice PROVE Optional'
  BY <1>13 DEF LockDevice, Obtain, Goto, Fail
<1>14. ASSUME AllocState PROVE Optional'
  BY <1>14 DEF AllocState, Obtain, Goto, Fail
<1>15. ASSUME AllocLocks PROVE Optional'
  BY <1>15 DEF AllocLocks, Goto, Fail
<1>16. ASSUME EnableDevice PROVE Optional'
  BY <1>16 DEF EnableDevice, Goto
<1>17. ASSUME ScanCaps PROVE Optional'
  BY <1>17 DEF ScanCaps, Goto, Fail
<1>18. ASSUME AllocCmdBuf PROVE Optional'
  BY <1>18 DEF AllocCmdBuf, ObtainDMA, Goto, Fail
<1>19. ASSUME AllocRespBuf PROVE Optional'
  BY <1>19 DEF AllocRespBuf, ObtainDMA, Goto, Fail
<1>20. ASSUME AllocCursorCmdBuf PROVE Optional'
  BY <1>20 DEF AllocCursorCmdBuf, Goto
<1>21. ASSUME Negotiate PROVE Optional'
  BY <1>21 DEF Negotiate, Goto, Fail
<1>22. ASSUME DriverOk PROVE Optional'
  BY <1>22 DEF DriverOk, Goto
<1>23. ASSUME NEW q \in Queues, AllocQueue(q) PROVE Optional'
  BY <1>23 DEF AllocQueue, QueueFails, MapStep, ListStep, Goto, Fail, Queues
<1>24. ASSUME NEW q \in Queues, MapQueue(q) PROVE Optional'
  BY <1>24 DEF MapQueue, QueueFails, MapStep, ListStep, Goto, Fail, Queues
<1>25. ASSUME NEW q \in Queues, EnableQueue(q) PROVE Optional'
  BY <1>25 DEF EnableQueue, QueueFails, MapStep, ListStep, Goto, Fail, Queues
<1>26. ASSUME InstallIrq PROVE Optional'
  BY <1>26, ZenonT(60) DEF InstallIrq, Goto
<1>27. ASSUME Setup3D PROVE Optional'
  BY <1>27, ZenonT(60) DEF Setup3D, Goto
<1>28. ASSUME GetResolution PROVE Optional'
  BY <1>28 DEF GetResolution, Goto
<1>29. ASSUME AllocFb PROVE Optional'
  BY <1>29 DEF AllocFb, Obtain, Goto, Fail
<1>30. ASSUME MapFb PROVE Optional'
  BY <1>30 DEF MapFb, Goto, Fail
<1>31. ASSUME ListFb PROVE Optional'
  BY <1>31 DEF ListFb, Obtain, Goto, Fail
<1>32. ASSUME CreateBlob PROVE Optional'
  BY <1>32 DEF CreateBlob, Goto
<1>33. ASSUME CreateFb PROVE Optional'
  BY <1>33 DEF CreateFb, MustSend, Goto, Fail
<1>34. ASSUME AttachFb PROVE Optional'
  BY <1>34 DEF AttachFb, MustSend, Goto, Fail
<1>35. ASSUME ScanoutFb PROVE Optional'
  BY <1>35 DEF ScanoutFb, MustSend, Goto, Fail
<1>36. ASSUME FirstFlush PROVE Optional'
  BY <1>36 DEF FirstFlush, Goto
<1>37. ASSUME AllocBoardMem PROVE Optional'
  BY <1>37 DEF AllocBoardMem, Goto
<1>38. ASSUME PublishState PROVE Optional'
  BY <1>38 DEF PublishState, Goto
<1>39. ASSUME FillBoardInfo PROVE Optional'
  BY <1>39 DEF FillBoardInfo, Goto
<1>40. ASSUME chip_fill_boardinfo_vtable PROVE Optional'
  BY <1>40 DEF chip_fill_boardinfo_vtable, Goto
<1>41. ASSUME chip_register_edid PROVE Optional'
  BY <1>41 DEF chip_register_edid, Goto
<1>42. ASSUME RegisterModes PROVE Optional'
  BY <1>42 DEF RegisterModes, Goto
<1>43. ASSUME QueryCapsets PROVE Optional'
  BY <1>43 DEF QueryCapsets, Goto
<1>44. ASSUME Unwinding PROVE Optional'
  BY <1>44 DEF Unwinding, Unwinds
<1>45. ASSUME DevLate PROVE Optional'
  BY <1>45 DEF DevLate
<1>46. CASE UNCHANGED vars
  BY <1>46, SMTT(60) DEF vars
<1> QED BY UnwindCases, <1>1, <1>2, <1>3, <1>4, <1>5, <1>6, <1>7, <1>8, <1>9,
           <1>10, <1>11, <1>12, <1>13, <1>14, <1>15, <1>16, <1>17, <1>18,
           <1>19, <1>20, <1>21, <1>22, <1>23, <1>24, <1>25, <1>26, <1>27,
           <1>28, <1>29, <1>30, <1>31, <1>32, <1>33, <1>34, <1>35, <1>36,
           <1>37, <1>38, <1>39, <1>40, <1>41, <1>42, <1>43, <1>44, <1>45, <1>46
    DEF Next, Stopped

\* What the device may reach.
LEMMA ReachableStays ==
    ASSUME Types, Acquired, Reachable, Next
    PROVE  Reachable'
<1> USE DEF Types, Acquired, Reachable, Locks, Queues, Pcs, BoardPcs, HookPcs,
            FromRegister, FromPublish, FromFlush, FromList, FromMapFb, FromFb,
            From3D, FromOk, FromCursorQ, FromCtrlQ, FromCursorCmd, FromResp,
            FromCmd, FromLocks, FromGs, FromPciLock, FromIpci, FromExpansion,
            Sequence, DownList, DownMapFb, DownFb, DownQueues, DownResp,
            DownCmd, DownGs, DownPciLock, DownIpci, Labels
<1>1. ASSUME BoardOpenExpansion PROVE Reachable'
  BY <1>1 DEF BoardOpenExpansion, Obtain, Goto, Fail
<1>2. ASSUME BoardGetPCI PROVE Reachable'
  BY <1>2 DEF BoardGetPCI, Obtain, Goto, Fail
<1>3. ASSUME BoardFindDevice PROVE Reachable'
  BY <1>3 DEF BoardFindDevice, Goto, Fail
<1>4. ASSUME BoardAllocPatch PROVE Reachable'
  BY <1>4 DEF BoardAllocPatch, Obtain, Goto, Fail
<1>5. ASSUME BoardOpenCard PROVE Reachable'
  BY <1>5 DEF BoardOpenCard, Obtain, Goto, Fail
<1>6. ASSUME BoardHook PROVE Reachable'
  BY <1>6 DEF BoardHook, Goto, Fail
<1>7. ASSUME BoardUnwind PROVE Reachable'
  BY <1>7 DEF BoardUnwind, Drop, Goto
<1>8. ASSUME hook_FindCard PROVE Reachable'
  BY <1>8 DEF hook_FindCard, Goto
<1>9. ASSUME hook_InitBoard PROVE Reachable'
  BY <1>9 DEF hook_InitBoard, Goto, Fail
<1>10. ASSUME chip_FindCard PROVE Reachable'
  BY <1>10 DEF chip_FindCard, Goto
<1>11. ASSUME OpenExpansion PROVE Reachable'
  BY <1>11 DEF OpenExpansion, Obtain, Goto, Fail
<1>12. ASSUME GetPCI PROVE Reachable'
  BY <1>12 DEF GetPCI, Obtain, Goto, Fail
<1>13. ASSUME LockDevice PROVE Reachable'
  BY <1>13 DEF LockDevice, Obtain, Goto, Fail
<1>14. ASSUME AllocState PROVE Reachable'
  BY <1>14 DEF AllocState, Obtain, Goto, Fail
<1>15. ASSUME AllocLocks PROVE Reachable'
  BY <1>15 DEF AllocLocks, Goto, Fail
<1>16. ASSUME EnableDevice PROVE Reachable'
  BY <1>16 DEF EnableDevice, Goto
<1>17. ASSUME ScanCaps PROVE Reachable'
  BY <1>17 DEF ScanCaps, Goto, Fail
<1>18. ASSUME AllocCmdBuf PROVE Reachable'
  BY <1>18 DEF AllocCmdBuf, ObtainDMA, Goto, Fail
<1>19. ASSUME AllocRespBuf PROVE Reachable'
  BY <1>19 DEF AllocRespBuf, ObtainDMA, Goto, Fail
<1>20. ASSUME AllocCursorCmdBuf PROVE Reachable'
  BY <1>20 DEF AllocCursorCmdBuf, Goto
<1>21. ASSUME Negotiate PROVE Reachable'
  BY <1>21 DEF Negotiate, Goto, Fail
<1>22. ASSUME DriverOk PROVE Reachable'
  BY <1>22 DEF DriverOk, Goto
<1>23. ASSUME NEW q \in Queues, AllocQueue(q) PROVE Reachable'
  BY <1>23 DEF AllocQueue, QueueFails, MapStep, ListStep, Goto, Fail, Queues
<1>24. ASSUME NEW q \in Queues, MapQueue(q) PROVE Reachable'
  BY <1>24 DEF MapQueue, QueueFails, MapStep, ListStep, Goto, Fail, Queues
<1>25. ASSUME NEW q \in Queues, EnableQueue(q) PROVE Reachable'
  BY <1>25 DEF EnableQueue, QueueFails, MapStep, ListStep, Goto, Fail, Queues
<1>26. ASSUME InstallIrq PROVE Reachable'
  BY <1>26, ZenonT(60) DEF InstallIrq, Goto
<1>27. ASSUME Setup3D PROVE Reachable'
  BY <1>27 DEF Setup3D, Goto
<1>28. ASSUME GetResolution PROVE Reachable'
  BY <1>28 DEF GetResolution, Goto
<1>29. ASSUME AllocFb PROVE Reachable'
  BY <1>29 DEF AllocFb, Obtain, Goto, Fail
<1>30. ASSUME MapFb PROVE Reachable'
  BY <1>30 DEF MapFb, Goto, Fail
<1>31. ASSUME ListFb PROVE Reachable'
  BY <1>31 DEF ListFb, Obtain, Goto, Fail
<1>32. ASSUME CreateBlob PROVE Reachable'
  BY <1>32 DEF CreateBlob, Goto
<1>33. ASSUME CreateFb PROVE Reachable'
  BY <1>33 DEF CreateFb, MustSend, Goto, Fail
<1>34. ASSUME AttachFb PROVE Reachable'
  BY <1>34 DEF AttachFb, MustSend, Goto, Fail
<1>35. ASSUME ScanoutFb PROVE Reachable'
  BY <1>35 DEF ScanoutFb, MustSend, Goto, Fail
<1>36. ASSUME FirstFlush PROVE Reachable'
  BY <1>36 DEF FirstFlush, Goto
<1>37. ASSUME AllocBoardMem PROVE Reachable'
  BY <1>37 DEF AllocBoardMem, Goto
<1>38. ASSUME PublishState PROVE Reachable'
  BY <1>38 DEF PublishState, Goto
<1>39. ASSUME FillBoardInfo PROVE Reachable'
  BY <1>39 DEF FillBoardInfo, Goto
<1>40. ASSUME chip_fill_boardinfo_vtable PROVE Reachable'
  BY <1>40 DEF chip_fill_boardinfo_vtable, Goto
<1>41. ASSUME chip_register_edid PROVE Reachable'
  BY <1>41 DEF chip_register_edid, Goto
<1>42. ASSUME RegisterModes PROVE Reachable'
  BY <1>42 DEF RegisterModes, Goto
<1>43. ASSUME QueryCapsets PROVE Reachable'
  BY <1>43 DEF QueryCapsets, Goto
<1>44. ASSUME Unwinding PROVE Reachable'
  BY <1>44 DEF Unwinding, Unwinds
<1>45. ASSUME DevLate PROVE Reachable'
  BY <1>45 DEF DevLate
<1>46. CASE UNCHANGED vars
  BY <1>46 DEF vars
<1> QED BY UnwindCases, <1>1, <1>2, <1>3, <1>4, <1>5, <1>6, <1>7, <1>8, <1>9,
           <1>10, <1>11, <1>12, <1>13, <1>14, <1>15, <1>16, <1>17, <1>18,
           <1>19, <1>20, <1>21, <1>22, <1>23, <1>24, <1>25, <1>26, <1>27,
           <1>28, <1>29, <1>30, <1>31, <1>32, <1>33, <1>34, <1>35, <1>36,
           <1>37, <1>38, <1>39, <1>40, <1>41, <1>42, <1>43, <1>44, <1>45, <1>46
    DEF Next, Stopped

\* Nothing is freed while the device may reach it.
LEMMA MappedStays ==
    ASSUME Types, Acquired, Reachable, mapped \subseteq held, Next
    PROVE  mapped' \subseteq held'
<1>1. ASSUME BoardOpenExpansion PROVE mapped' \subseteq held'
  BY <1>1 DEF BoardOpenExpansion, Obtain, Goto, Fail
<1>2. ASSUME BoardGetPCI PROVE mapped' \subseteq held'
  BY <1>2 DEF BoardGetPCI, Obtain, Goto, Fail
<1>3. ASSUME BoardFindDevice PROVE mapped' \subseteq held'
  BY <1>3 DEF BoardFindDevice, Goto, Fail
<1>4. ASSUME BoardAllocPatch PROVE mapped' \subseteq held'
  BY <1>4 DEF BoardAllocPatch, Obtain, Goto, Fail
<1>5. ASSUME BoardOpenCard PROVE mapped' \subseteq held'
  BY <1>5 DEF BoardOpenCard, Obtain, Goto, Fail
<1>6. ASSUME BoardHook PROVE mapped' \subseteq held'
  BY <1>6 DEF BoardHook, Goto, Fail
<1>7. ASSUME BoardUnwind PROVE mapped' \subseteq held'
  <2>1. mapped \cap {"pcigraphics", "b_ipci", "b_expansion"} = {}
    BY DEF Types, Mappable, Queues
  <2> QED BY <1>7, <2>1 DEF BoardUnwind, Drop
<1>8. ASSUME hook_FindCard PROVE mapped' \subseteq held'
  BY <1>8 DEF hook_FindCard, Goto
<1>9. ASSUME hook_InitBoard PROVE mapped' \subseteq held'
  BY <1>9 DEF hook_InitBoard, Goto, Fail
<1>10. ASSUME chip_FindCard PROVE mapped' \subseteq held'
  BY <1>10 DEF chip_FindCard, Goto
<1>11. ASSUME OpenExpansion PROVE mapped' \subseteq held'
  BY <1>11 DEF OpenExpansion, Obtain, Goto, Fail
<1>12. ASSUME GetPCI PROVE mapped' \subseteq held'
  BY <1>12 DEF GetPCI, Obtain, Goto, Fail
<1>13. ASSUME LockDevice PROVE mapped' \subseteq held'
  BY <1>13 DEF LockDevice, Obtain, Goto, Fail
<1>14. ASSUME AllocState PROVE mapped' \subseteq held'
  BY <1>14 DEF AllocState, Obtain, Goto, Fail
<1>15. ASSUME AllocLocks PROVE mapped' \subseteq held'
  BY <1>15 DEF AllocLocks, Goto, Fail
<1>16. ASSUME EnableDevice PROVE mapped' \subseteq held'
  BY <1>16 DEF EnableDevice, Goto
<1>17. ASSUME ScanCaps PROVE mapped' \subseteq held'
  BY <1>17 DEF ScanCaps, Goto, Fail
<1>18. ASSUME AllocCmdBuf PROVE mapped' \subseteq held'
  BY <1>18 DEF AllocCmdBuf, ObtainDMA, Goto, Fail
<1>19. ASSUME AllocRespBuf PROVE mapped' \subseteq held'
  BY <1>19 DEF AllocRespBuf, ObtainDMA, Goto, Fail
<1>20. ASSUME AllocCursorCmdBuf PROVE mapped' \subseteq held'
  BY <1>20 DEF AllocCursorCmdBuf, Goto
<1>21. ASSUME Negotiate PROVE mapped' \subseteq held'
  BY <1>21 DEF Negotiate, Goto, Fail
<1>22. ASSUME DriverOk PROVE mapped' \subseteq held'
  BY <1>22 DEF DriverOk, Goto
<1>23. ASSUME NEW q \in Queues, AllocQueue(q)
     PROVE  mapped' \subseteq held'
  BY <1>23 DEF AllocQueue, QueueFails, MapStep, ListStep, Goto, Fail, Queues
<1>24. ASSUME NEW q \in Queues, MapQueue(q)
     PROVE  mapped' \subseteq held'
  <2>1. q \in held /\ q \notin mapped
    BY <1>24 DEF MapQueue, MapStep, Queues, Types, Acquired, Reachable,
          Pcs, BoardPcs, HookPcs, FromRegister, FromPublish, FromFlush,
          FromList, FromMapFb, FromFb, From3D, FromOk, FromCursorQ, FromCtrlQ,
          FromCursorCmd, FromResp, FromCmd, FromLocks, FromGs, FromPciLock,
          FromIpci, FromExpansion, Sequence, DownList, DownMapFb, DownFb,
          DownQueues, DownResp, DownCmd, DownGs, DownPciLock, DownIpci, Labels
  <2> QED BY <1>24, <2>1 DEF MapQueue
<1>25. ASSUME NEW q \in Queues, EnableQueue(q)
     PROVE  mapped' \subseteq held'
  BY <1>25 DEF EnableQueue, QueueFails, MapStep, ListStep, Goto, Fail, Queues
<1>26. ASSUME InstallIrq PROVE mapped' \subseteq held'
  BY <1>26, ZenonT(60) DEF InstallIrq, Goto
<1>27. ASSUME Setup3D PROVE mapped' \subseteq held'
  BY <1>27 DEF Setup3D, Goto
<1>28. ASSUME GetResolution PROVE mapped' \subseteq held'
  BY <1>28 DEF GetResolution, Goto
<1>29. ASSUME AllocFb PROVE mapped' \subseteq held'
  BY <1>29 DEF AllocFb, Obtain, Goto, Fail
<1>30. ASSUME MapFb PROVE mapped' \subseteq held'
  BY <1>30 DEF MapFb, Goto, Fail, Acquired, Pcs, BoardPcs, HookPcs,
       FromRegister, FromPublish, FromFlush, FromList, FromMapFb, FromFb,
       From3D, FromOk, FromCursorQ, FromCtrlQ, FromCursorCmd, FromResp,
       FromCmd, FromLocks, FromGs, FromPciLock, FromIpci, FromExpansion,
       Sequence, DownList, DownMapFb, DownFb, DownQueues, DownResp, DownCmd,
       DownGs, DownPciLock, DownIpci, Labels
<1>31. ASSUME ListFb PROVE mapped' \subseteq held'
  BY <1>31 DEF ListFb, Obtain, Goto, Fail
<1>32. ASSUME CreateBlob PROVE mapped' \subseteq held'
  BY <1>32 DEF CreateBlob, Goto
<1>33. ASSUME CreateFb PROVE mapped' \subseteq held'
  BY <1>33 DEF CreateFb, MustSend, Goto, Fail
<1>34. ASSUME AttachFb PROVE mapped' \subseteq held'
  BY <1>34 DEF AttachFb, MustSend, Goto, Fail
<1>35. ASSUME ScanoutFb PROVE mapped' \subseteq held'
  BY <1>35 DEF ScanoutFb, MustSend, Goto, Fail
<1>36. ASSUME FirstFlush PROVE mapped' \subseteq held'
  BY <1>36 DEF FirstFlush, Goto
<1>37. ASSUME AllocBoardMem PROVE mapped' \subseteq held'
  BY <1>37 DEF AllocBoardMem, Goto
<1>38. ASSUME PublishState PROVE mapped' \subseteq held'
  BY <1>38 DEF PublishState, Goto
<1>39. ASSUME FillBoardInfo PROVE mapped' \subseteq held'
  BY <1>39 DEF FillBoardInfo, Goto
<1>40. ASSUME chip_fill_boardinfo_vtable PROVE mapped' \subseteq held'
  BY <1>40 DEF chip_fill_boardinfo_vtable, Goto
<1>41. ASSUME chip_register_edid PROVE mapped' \subseteq held'
  BY <1>41 DEF chip_register_edid, Goto
<1>42. ASSUME RegisterModes PROVE mapped' \subseteq held'
  BY <1>42 DEF RegisterModes, Goto
<1>43. ASSUME QueryCapsets PROVE mapped' \subseteq held'
  BY <1>43 DEF QueryCapsets, Goto
<1>44. ASSUME Unwinding PROVE mapped' \subseteq held'
  <2>1. CASE Unwinds("fail_fb_dma_list", "fail_fb_dma", {"vsync_mutex", "fb_dma_list"}, {})
    BY <2>1 DEF Unwinds, Types, Mappable, Locks, Queues
  <2>2. CASE Unwinds("fail_fb_dma", "fail_fb_mem", {}, {"fb_mem"})
    BY <2>2 DEF Unwinds, Types, Mappable, Locks, Queues
  <2>3. CASE Unwinds("fail_fb_mem", "fail_vqs", {"fb_mem", "cmd3d_buf"}, {"cmd3d_buf"})
    BY <2>3 DEF Unwinds, Reachable, Pcs, BoardPcs, HookPcs, FromRegister,
         FromPublish, FromFlush, FromList, FromMapFb, FromFb,
         From3D, FromOk, FromCursorQ, FromCtrlQ, FromCursorCmd,
         FromResp, FromCmd, FromLocks, FromGs, FromPciLock,
         FromIpci, FromExpansion, Sequence, DownList, DownMapFb,
         DownFb, DownQueues, DownResp, DownCmd, DownGs,
         DownPciLock, DownIpci, Labels
  <2>4. CASE Unwinds("fail_vqs", "fail_resp", Queues, Queues)
    BY <2>4 DEF Unwinds, Types, Mappable, Locks, Queues
  <2>5. CASE Unwinds("fail_resp", "fail_cmd", {"cursor_cmd_buf", "resp_buf"}, {"cursor_cmd_buf", "resp_buf"})
    BY <2>5 DEF Unwinds, Types, Mappable, Locks, Queues
  <2>6. CASE Unwinds("fail_cmd", "fail_gs", {"cmd_buf"}, {"cmd_buf"})
    BY <2>6 DEF Unwinds, Types, Mappable, Locks, Queues
  <2>7. CASE Unwinds("fail_gs", "fail_pci", Locks \cup {"cmd3d_lock", "gs"}, {})
    BY <2>7 DEF Unwinds, Types, Mappable, Locks, Queues
  <2>8. CASE Unwinds("fail_pci", "fail_ipci", {"pciLock"}, {})
    BY <2>8 DEF Unwinds, Types, Mappable, Locks, Queues
  <2>9. CASE Unwinds("fail_ipci", "fail_exp", {"ipci"}, {})
    BY <2>9 DEF Unwinds, Types, Mappable, Locks, Queues
  <2>10. CASE Unwinds("fail_exp", "refused", {"expansion"}, {})
    BY <2>10 DEF Unwinds, Types, Mappable, Locks, Queues
  <2> QED BY <1>44, <2>1, <2>2, <2>3, <2>4, <2>5, <2>6, <2>7, <2>8, <2>9, <2>10 DEF Unwinding
<1>45. ASSUME DevLate PROVE mapped' \subseteq held'
  BY <1>45 DEF DevLate
<1>46. CASE UNCHANGED vars
  BY <1>46 DEF vars
<1> QED BY UnwindCases, <1>1, <1>2, <1>3, <1>4, <1>5, <1>6, <1>7, <1>8, <1>9,
           <1>10, <1>11, <1>12, <1>13, <1>14, <1>15, <1>16, <1>17, <1>18,
           <1>19, <1>20, <1>21, <1>22, <1>23, <1>24, <1>25, <1>26, <1>27,
           <1>28, <1>29, <1>30, <1>31, <1>32, <1>33, <1>34, <1>35, <1>36,
           <1>37, <1>38, <1>39, <1>40, <1>41, <1>42, <1>43, <1>44, <1>45, <1>46
    DEF Next, Stopped

\* 3D is on only with both its buffer and its lock.
LEMMA Setup3DEffect ==
    ASSUME Setup3D, gs \in Gs
    PROVE  /\ pc = "cmd3d" /\ pc' = "edid" /\ bi' = bi
           /\ gs'.published = gs.published
           /\ gs' = gs \/ (gs'.has_virgl => {"cmd3d_buf", "cmd3d_lock"} \subseteq held')
           /\ held \subseteq held'
<1>1. CASE gs.has_virgl /\ "device" \in gs.windows
  <2>1. PICK capsets \in BOOLEAN, got \in {{}, {"cmd3d_buf", "cmd3d_lock"}} :
          /\ gs' = [gs EXCEPT !.capsets = capsets, !.ids = TRUE,
                              !.has_virgl = got # {}]
          /\ held' = held \cup got
    BY <1>1 DEF Setup3D
  <2>2. gs'.has_virgl = (got # {}) /\ gs'.published = gs.published
    BY <2>1 DEF Gs
  <2>3. gs'.has_virgl => {"cmd3d_buf", "cmd3d_lock"} \subseteq held'
    BY <2>1, <2>2
  <2> QED BY <2>1, <2>2, <2>3, ZenonT(60) DEF Setup3D, Goto
<1>2. CASE ~(gs.has_virgl /\ "device" \in gs.windows)
  BY <1>2, ZenonT(60) DEF Setup3D, Goto
<1> QED BY <1>1, <1>2, ZenonT(60)

\* What of the card is published, and what stands behind it.
LEMMA FilledStays ==
    ASSUME Types, Acquired, Filled, Next
    PROVE  Filled'
<1> USE DEF Types, Gs, Acquired, Filled, Locks, Queues, Pcs, BoardPcs, HookPcs,
            FromRegister, FromPublish, FromFlush, FromList, FromMapFb, FromFb,
            From3D, FromOk, FromCursorQ, FromCtrlQ, FromCursorCmd, FromResp,
            FromCmd, FromLocks, FromGs, FromPciLock, FromIpci, FromExpansion,
            Sequence, DownList, DownMapFb, DownFb, DownQueues, DownResp,
            DownCmd, DownGs, DownPciLock, DownIpci, Labels
<1>1. ASSUME BoardOpenExpansion PROVE Filled'
  BY <1>1 DEF BoardOpenExpansion, Obtain, Goto, Fail
<1>2. ASSUME BoardGetPCI PROVE Filled'
  BY <1>2 DEF BoardGetPCI, Obtain, Goto, Fail
<1>3. ASSUME BoardFindDevice PROVE Filled'
  BY <1>3 DEF BoardFindDevice, Goto, Fail
<1>4. ASSUME BoardAllocPatch PROVE Filled'
  BY <1>4 DEF BoardAllocPatch, Obtain, Goto, Fail
<1>5. ASSUME BoardOpenCard PROVE Filled'
  BY <1>5 DEF BoardOpenCard, Obtain, Goto, Fail
<1>6. ASSUME BoardHook PROVE Filled'
  BY <1>6 DEF BoardHook, Goto, Fail
<1>7. ASSUME BoardUnwind PROVE Filled'
  BY <1>7 DEF BoardUnwind, Drop, Goto
<1>8. ASSUME hook_FindCard PROVE Filled'
  BY <1>8 DEF hook_FindCard, Goto
<1>9. ASSUME hook_InitBoard PROVE Filled'
  BY <1>9 DEF hook_InitBoard, Goto, Fail
<1>10. ASSUME chip_FindCard PROVE Filled'
  BY <1>10 DEF chip_FindCard, Goto
<1>11. ASSUME OpenExpansion PROVE Filled'
  BY <1>11 DEF OpenExpansion, Obtain, Goto, Fail
<1>12. ASSUME GetPCI PROVE Filled'
  BY <1>12 DEF GetPCI, Obtain, Goto, Fail
<1>13. ASSUME LockDevice PROVE Filled'
  BY <1>13 DEF LockDevice, Obtain, Goto, Fail
<1>14. ASSUME AllocState PROVE Filled'
  BY <1>14 DEF AllocState, Obtain, Goto, Fail
<1>15. ASSUME AllocLocks PROVE Filled'
  BY <1>15 DEF AllocLocks, Goto, Fail
<1>16. ASSUME EnableDevice PROVE Filled'
  BY <1>16 DEF EnableDevice, Goto
<1>17. ASSUME ScanCaps PROVE Filled'
  BY <1>17 DEF ScanCaps, Goto, Fail
<1>18. ASSUME AllocCmdBuf PROVE Filled'
  BY <1>18 DEF AllocCmdBuf, ObtainDMA, Goto, Fail
<1>19. ASSUME AllocRespBuf PROVE Filled'
  BY <1>19 DEF AllocRespBuf, ObtainDMA, Goto, Fail
<1>20. ASSUME AllocCursorCmdBuf PROVE Filled'
  BY <1>20 DEF AllocCursorCmdBuf, Goto
<1>21. ASSUME Negotiate PROVE Filled'
  BY <1>21 DEF Negotiate, Goto, Fail
<1>22. ASSUME DriverOk PROVE Filled'
  BY <1>22 DEF DriverOk, Goto
<1>23. ASSUME NEW q \in Queues, AllocQueue(q) PROVE Filled'
  BY <1>23 DEF AllocQueue, QueueFails, MapStep, ListStep, Goto, Fail, Queues
<1>24. ASSUME NEW q \in Queues, MapQueue(q) PROVE Filled'
  BY <1>24 DEF MapQueue, QueueFails, MapStep, ListStep, Goto, Fail, Queues
<1>25. ASSUME NEW q \in Queues, EnableQueue(q) PROVE Filled'
  BY <1>25 DEF EnableQueue, QueueFails, MapStep, ListStep, Goto, Fail, Queues
<1>26. ASSUME InstallIrq PROVE Filled'
  BY <1>26 DEF InstallIrq, Goto
<1>27. ASSUME Setup3D PROVE Filled'
  BY <1>27, Setup3DEffect
<1>28. ASSUME GetResolution PROVE Filled'
  BY <1>28 DEF GetResolution, Goto
<1>29. ASSUME AllocFb PROVE Filled'
  BY <1>29 DEF AllocFb, Obtain, Goto, Fail
<1>30. ASSUME MapFb PROVE Filled'
  BY <1>30 DEF MapFb, Goto, Fail
<1>31. ASSUME ListFb PROVE Filled'
  BY <1>31 DEF ListFb, Obtain, Goto, Fail
<1>32. ASSUME CreateBlob PROVE Filled'
  BY <1>32 DEF CreateBlob, Goto
<1>33. ASSUME CreateFb PROVE Filled'
  BY <1>33 DEF CreateFb, MustSend, Goto, Fail
<1>34. ASSUME AttachFb PROVE Filled'
  BY <1>34 DEF AttachFb, MustSend, Goto, Fail
<1>35. ASSUME ScanoutFb PROVE Filled'
  BY <1>35 DEF ScanoutFb, MustSend, Goto, Fail
<1>36. ASSUME FirstFlush PROVE Filled'
  BY <1>36 DEF FirstFlush, Goto
<1>37. ASSUME AllocBoardMem PROVE Filled'
  BY <1>37 DEF AllocBoardMem, Goto
<1>38. ASSUME PublishState PROVE Filled'
  BY <1>38 DEF PublishState, Goto
<1>39. ASSUME FillBoardInfo PROVE Filled'
  BY <1>39 DEF FillBoardInfo, Goto
<1>40. ASSUME chip_fill_boardinfo_vtable PROVE Filled'
  BY <1>40 DEF chip_fill_boardinfo_vtable, Goto
<1>41. ASSUME chip_register_edid PROVE Filled'
  BY <1>41 DEF chip_register_edid, Goto
<1>42. ASSUME RegisterModes PROVE Filled'
  BY <1>42 DEF RegisterModes, Goto
<1>43. ASSUME QueryCapsets PROVE Filled'
  BY <1>43 DEF QueryCapsets, Goto
<1>44. ASSUME Unwinding PROVE Filled'
  BY <1>44 DEF Unwinding, Unwinds
<1>45. ASSUME DevLate PROVE Filled'
  BY <1>45 DEF DevLate
<1>46. CASE UNCHANGED vars
  BY <1>46 DEF vars
<1> QED BY UnwindCases, <1>1, <1>2, <1>3, <1>4, <1>5, <1>6, <1>7, <1>8, <1>9,
           <1>10, <1>11, <1>12, <1>13, <1>14, <1>15, <1>16, <1>17, <1>18,
           <1>19, <1>20, <1>21, <1>22, <1>23, <1>24, <1>25, <1>26, <1>27,
           <1>28, <1>29, <1>30, <1>31, <1>32, <1>33, <1>34, <1>35, <1>36,
           <1>37, <1>38, <1>39, <1>40, <1>41, <1>42, <1>43, <1>44, <1>45, <1>46
    DEF Next, Stopped

\* What carrying out a command leaves alone, and what it does.
LEMMA ExecutedEffect ==
    ASSUME dev \in Dev, NEW c \in Commands
    PROVE  /\ Executed(c).status = dev.status
           /\ c \in {"info", "transfer"} => Executed(c) = dev
           /\ c \in {"blob", "attach"} => Executed(c).fb = "backed"
           /\ c = "scanout" => Executed(c).scanout /\ Executed(c).fb = dev.fb
<1>1. CASE c \in {"edid", "info", "transfer"}
  BY <1>1 DEF Executed
<1>2. CASE c = "blob"
  BY <1>2 DEF Executed, Dev
<1>3. CASE c = "create"
  BY <1>3 DEF Executed, Dev
<1>4. CASE c = "attach"
  BY <1>4 DEF Executed, Dev
<1>5. CASE c = "scanout"
  BY <1>5 DEF Executed, Dev
<1> QED BY <1>1, <1>2, <1>3, <1>4, <1>5 DEF Commands

\* The device is ready from DRIVER_OK on.
LEMMA ReadyStays ==
    ASSUME Types, Ready, Next
    PROVE  Ready'
<1> USE DEF Types, Dev, Ready, FromOk, From3D, FromFb, FromMapFb, FromList,
            FromFlush, FromPublish, FromRegister
<1>1. ASSUME BoardOpenExpansion PROVE Ready'
  BY <1>1 DEF BoardOpenExpansion, Obtain, Goto, Fail
<1>2. ASSUME BoardGetPCI PROVE Ready'
  BY <1>2 DEF BoardGetPCI, Obtain, Goto, Fail
<1>3. ASSUME BoardFindDevice PROVE Ready'
  BY <1>3 DEF BoardFindDevice, Goto, Fail
<1>4. ASSUME BoardAllocPatch PROVE Ready'
  BY <1>4 DEF BoardAllocPatch, Obtain, Goto, Fail
<1>5. ASSUME BoardOpenCard PROVE Ready'
  BY <1>5 DEF BoardOpenCard, Obtain, Goto, Fail
<1>6. ASSUME BoardHook PROVE Ready'
  BY <1>6 DEF BoardHook, Goto, Fail
<1>7. ASSUME BoardUnwind PROVE Ready'
  BY <1>7 DEF BoardUnwind, Drop, Goto
<1>8. ASSUME hook_FindCard PROVE Ready'
  BY <1>8 DEF hook_FindCard, Goto
<1>9. ASSUME hook_InitBoard PROVE Ready'
  BY <1>9 DEF hook_InitBoard, Goto, Fail
<1>10. ASSUME chip_FindCard PROVE Ready'
  BY <1>10 DEF chip_FindCard, Goto
<1>11. ASSUME OpenExpansion PROVE Ready'
  BY <1>11 DEF OpenExpansion, Obtain, Goto, Fail
<1>12. ASSUME GetPCI PROVE Ready'
  BY <1>12 DEF GetPCI, Obtain, Goto, Fail
<1>13. ASSUME LockDevice PROVE Ready'
  BY <1>13 DEF LockDevice, Obtain, Goto, Fail
<1>14. ASSUME AllocState PROVE Ready'
  BY <1>14 DEF AllocState, Obtain, Goto, Fail
<1>15. ASSUME AllocLocks PROVE Ready'
  BY <1>15 DEF AllocLocks, Goto, Fail
<1>16. ASSUME EnableDevice PROVE Ready'
  BY <1>16 DEF EnableDevice, Goto
<1>17. ASSUME ScanCaps PROVE Ready'
  BY <1>17 DEF ScanCaps, Goto, Fail
<1>18. ASSUME AllocCmdBuf PROVE Ready'
  BY <1>18 DEF AllocCmdBuf, ObtainDMA, Goto, Fail
<1>19. ASSUME AllocRespBuf PROVE Ready'
  BY <1>19 DEF AllocRespBuf, ObtainDMA, Goto, Fail
<1>20. ASSUME AllocCursorCmdBuf PROVE Ready'
  BY <1>20 DEF AllocCursorCmdBuf, Goto
<1>21. ASSUME Negotiate PROVE Ready'
  BY <1>21 DEF Negotiate, Goto, Fail
<1>22. ASSUME DriverOk PROVE Ready'
  BY <1>22 DEF DriverOk, Goto
<1>23. ASSUME NEW q \in Queues, AllocQueue(q) PROVE Ready'
  BY <1>23 DEF AllocQueue, QueueFails, MapStep, ListStep, Goto, Fail, Queues
<1>24. ASSUME NEW q \in Queues, MapQueue(q) PROVE Ready'
  BY <1>24 DEF MapQueue, QueueFails, MapStep, ListStep, Goto, Fail, Queues
<1>25. ASSUME NEW q \in Queues, EnableQueue(q) PROVE Ready'
  BY <1>25 DEF EnableQueue, QueueFails, MapStep, ListStep, Goto, Fail, Queues
<1>26. ASSUME InstallIrq PROVE Ready'
  BY <1>26, ZenonT(60) DEF InstallIrq, Goto
<1>27. ASSUME Setup3D PROVE Ready'
  BY <1>27 DEF Setup3D, Goto
<1>28. ASSUME GetResolution PROVE Ready'
  BY <1>28, Sent, ExecutedEffect DEF GetResolution, Goto, Fail, Commands
<1>29. ASSUME AllocFb PROVE Ready'
  BY <1>29 DEF AllocFb, Obtain, Goto, Fail
<1>30. ASSUME MapFb PROVE Ready'
  BY <1>30 DEF MapFb, Goto, Fail
<1>31. ASSUME ListFb PROVE Ready'
  BY <1>31 DEF ListFb, Obtain, Goto, Fail
<1>32. ASSUME CreateBlob PROVE Ready'
  BY <1>32, Sent, ExecutedEffect DEF CreateBlob, Goto, Fail, Commands
<1>33. ASSUME CreateFb PROVE Ready'
  BY <1>33, Sent, ExecutedEffect DEF CreateFb, Goto, Fail, MustSend, Commands
<1>34. ASSUME AttachFb PROVE Ready'
  BY <1>34, Sent, ExecutedEffect DEF AttachFb, Goto, Fail, MustSend, Commands
<1>35. ASSUME ScanoutFb PROVE Ready'
  BY <1>35, Sent, ExecutedEffect DEF ScanoutFb, Goto, Fail, MustSend, Commands
<1>36. ASSUME FirstFlush PROVE Ready'
  BY <1>36, Sent, ExecutedEffect DEF FirstFlush, Goto, Fail, Commands
<1>37. ASSUME AllocBoardMem PROVE Ready'
  BY <1>37 DEF AllocBoardMem, Goto
<1>38. ASSUME PublishState PROVE Ready'
  BY <1>38 DEF PublishState, Goto
<1>39. ASSUME FillBoardInfo PROVE Ready'
  BY <1>39 DEF FillBoardInfo, Goto
<1>40. ASSUME chip_fill_boardinfo_vtable PROVE Ready'
  BY <1>40 DEF chip_fill_boardinfo_vtable, Goto
<1>41. ASSUME chip_register_edid PROVE Ready'
  BY <1>41 DEF chip_register_edid, Goto
<1>42. ASSUME RegisterModes PROVE Ready'
  BY <1>42 DEF RegisterModes, Goto
<1>43. ASSUME QueryCapsets PROVE Ready'
  BY <1>43, Sent, ExecutedEffect DEF QueryCapsets, Goto, Fail, Commands
<1>44. ASSUME Unwinding PROVE Ready'
  BY <1>44 DEF Unwinding, Unwinds
<1>45. ASSUME DevLate PROVE Ready'
  <2>1. pc' = pc /\ (dev' = dev \/ dev' = Executed(Head(late)))
    BY <1>45 DEF DevLate
  <2> QED BY <1>45, <2>1, Later, ExecutedEffect
<1>46. CASE UNCHANGED vars
  BY <1>46 DEF vars
<1> QED BY UnwindCases, <1>1, <1>2, <1>3, <1>4, <1>5, <1>6, <1>7, <1>8, <1>9,
           <1>10, <1>11, <1>12, <1>13, <1>14, <1>15, <1>16, <1>17, <1>18,
           <1>19, <1>20, <1>21, <1>22, <1>23, <1>24, <1>25, <1>26, <1>27,
           <1>28, <1>29, <1>30, <1>31, <1>32, <1>33, <1>34, <1>35, <1>36,
           <1>37, <1>38, <1>39, <1>40, <1>41, <1>42, <1>43, <1>44, <1>45, <1>46
    DEF Next, Stopped

\* What the device shows; nothing it still holds can change that.
LEMMA ShownStays ==
    ASSUME Types, Shown, Next
    PROVE  Shown'
<1> USE DEF Types, Dev, Shown, FromFlush, FromPublish, FromRegister
<1>1. ASSUME BoardOpenExpansion PROVE Shown'
  BY <1>1 DEF BoardOpenExpansion, Obtain, Goto, Fail
<1>2. ASSUME BoardGetPCI PROVE Shown'
  BY <1>2 DEF BoardGetPCI, Obtain, Goto, Fail
<1>3. ASSUME BoardFindDevice PROVE Shown'
  BY <1>3 DEF BoardFindDevice, Goto, Fail
<1>4. ASSUME BoardAllocPatch PROVE Shown'
  BY <1>4 DEF BoardAllocPatch, Obtain, Goto, Fail
<1>5. ASSUME BoardOpenCard PROVE Shown'
  BY <1>5 DEF BoardOpenCard, Obtain, Goto, Fail
<1>6. ASSUME BoardHook PROVE Shown'
  BY <1>6 DEF BoardHook, Goto, Fail
<1>7. ASSUME BoardUnwind PROVE Shown'
  BY <1>7 DEF BoardUnwind, Drop, Goto
<1>8. ASSUME hook_FindCard PROVE Shown'
  BY <1>8 DEF hook_FindCard, Goto
<1>9. ASSUME hook_InitBoard PROVE Shown'
  BY <1>9 DEF hook_InitBoard, Goto, Fail
<1>10. ASSUME chip_FindCard PROVE Shown'
  BY <1>10 DEF chip_FindCard, Goto
<1>11. ASSUME OpenExpansion PROVE Shown'
  BY <1>11 DEF OpenExpansion, Obtain, Goto, Fail
<1>12. ASSUME GetPCI PROVE Shown'
  BY <1>12 DEF GetPCI, Obtain, Goto, Fail
<1>13. ASSUME LockDevice PROVE Shown'
  BY <1>13 DEF LockDevice, Obtain, Goto, Fail
<1>14. ASSUME AllocState PROVE Shown'
  BY <1>14 DEF AllocState, Obtain, Goto, Fail
<1>15. ASSUME AllocLocks PROVE Shown'
  BY <1>15 DEF AllocLocks, Goto, Fail
<1>16. ASSUME EnableDevice PROVE Shown'
  BY <1>16 DEF EnableDevice, Goto
<1>17. ASSUME ScanCaps PROVE Shown'
  BY <1>17 DEF ScanCaps, Goto, Fail
<1>18. ASSUME AllocCmdBuf PROVE Shown'
  BY <1>18 DEF AllocCmdBuf, ObtainDMA, Goto, Fail
<1>19. ASSUME AllocRespBuf PROVE Shown'
  BY <1>19 DEF AllocRespBuf, ObtainDMA, Goto, Fail
<1>20. ASSUME AllocCursorCmdBuf PROVE Shown'
  BY <1>20 DEF AllocCursorCmdBuf, Goto
<1>21. ASSUME Negotiate PROVE Shown'
  BY <1>21 DEF Negotiate, Goto, Fail
<1>22. ASSUME DriverOk PROVE Shown'
  BY <1>22 DEF DriverOk, Goto
<1>23. ASSUME NEW q \in Queues, AllocQueue(q) PROVE Shown'
  BY <1>23 DEF AllocQueue, QueueFails, MapStep, ListStep, Goto, Fail, Queues
<1>24. ASSUME NEW q \in Queues, MapQueue(q) PROVE Shown'
  BY <1>24 DEF MapQueue, QueueFails, MapStep, ListStep, Goto, Fail, Queues
<1>25. ASSUME NEW q \in Queues, EnableQueue(q) PROVE Shown'
  BY <1>25 DEF EnableQueue, QueueFails, MapStep, ListStep, Goto, Fail, Queues
<1>26. ASSUME InstallIrq PROVE Shown'
  BY <1>26, ZenonT(60) DEF InstallIrq, Goto
<1>27. ASSUME Setup3D PROVE Shown'
  BY <1>27 DEF Setup3D, Goto
<1>28. ASSUME GetResolution PROVE Shown'
  BY <1>28, Sent, ExecutedEffect DEF GetResolution, Goto, Fail, Commands
<1>29. ASSUME AllocFb PROVE Shown'
  BY <1>29 DEF AllocFb, Obtain, Goto, Fail
<1>30. ASSUME MapFb PROVE Shown'
  BY <1>30 DEF MapFb, Goto, Fail
<1>31. ASSUME ListFb PROVE Shown'
  BY <1>31 DEF ListFb, Obtain, Goto, Fail
<1>32. ASSUME CreateBlob PROVE Shown'
  <2>1. CASE SendOk("blob") /\ pc' = "scanout"
    BY <2>1, ExecutedEffect DEF SendOk, Commands
  <2>2. CASE pc' = "create"
    BY <2>2
  <2> QED BY <1>32, <2>1, <2>2 DEF CreateBlob, Goto
<1>33. ASSUME CreateFb PROVE Shown'
  <2>1. CASE SendOk("create") /\ pc' = "attach"
    <3>1. /\ late' = <<>> /\ dev' = Executed("create")
          /\ pc = "create"
      BY <1>33, <2>1 DEF CreateFb, MustSend, SendOk
    <3> QED BY <2>1, <3>1, ExecutedEffect DEF Commands
  <2>2. CASE pc' = "fail_fb_dma_list"
    BY <2>2
  <2> QED BY <1>33, <2>1, <2>2 DEF CreateFb, MustSend, Goto, Fail
<1>34. ASSUME AttachFb PROVE Shown'
  <2>1. CASE SendOk("attach") /\ pc' = "scanout"
    <3>1. /\ late' = <<>> /\ dev' = Executed("attach")
          /\ pc = "attach"
      BY <1>34, <2>1 DEF AttachFb, MustSend, SendOk
    <3> QED BY <2>1, <3>1, ExecutedEffect DEF Commands
  <2>2. CASE pc' = "fail_fb_dma_list"
    BY <2>2
  <2> QED BY <1>34, <2>1, <2>2 DEF AttachFb, MustSend, Goto, Fail
<1>35. ASSUME ScanoutFb PROVE Shown'
  <2>1. CASE SendOk("scanout") /\ pc' = "flush"
    <3>1. /\ late' = <<>> /\ dev' = Executed("scanout")
          /\ pc = "scanout"
      BY <1>35, <2>1 DEF ScanoutFb, MustSend, SendOk
    <3> QED BY <2>1, <3>1, ExecutedEffect DEF Commands
  <2>2. CASE pc' = "fail_fb_dma_list"
    BY <2>2
  <2> QED BY <1>35, <2>1, <2>2 DEF ScanoutFb, MustSend, Goto, Fail
<1>36. ASSUME FirstFlush PROVE Shown'
  <2>1. pc = "flush" /\ pc' = "board_mem"
    BY <1>36 DEF FirstFlush, Goto
  <2>2. dev' = dev /\ (late' = late \/ late' = Append(late, "transfer"))
    BY <1>36, Sent, ExecutedEffect DEF FirstFlush, Commands
  <2> QED BY <2>1, <2>2, AppendProperties
<1>37. ASSUME AllocBoardMem PROVE Shown'
  BY <1>37 DEF AllocBoardMem, Goto
<1>38. ASSUME PublishState PROVE Shown'
  BY <1>38 DEF PublishState, Goto
<1>39. ASSUME FillBoardInfo PROVE Shown'
  BY <1>39 DEF FillBoardInfo, Goto
<1>40. ASSUME chip_fill_boardinfo_vtable PROVE Shown'
  BY <1>40 DEF chip_fill_boardinfo_vtable, Goto
<1>41. ASSUME chip_register_edid PROVE Shown'
  BY <1>41 DEF chip_register_edid, Goto
<1>42. ASSUME RegisterModes PROVE Shown'
  BY <1>42 DEF RegisterModes, Goto
<1>43. ASSUME QueryCapsets PROVE Shown'
  <2>1. pc = "capsets" /\ pc' = "running" /\ (SendOk("info") \/ SendFails("info"))
    BY <1>43 DEF QueryCapsets, Goto
  <2>2. dev' = dev /\ (late' = late \/ late' = Append(late, "info"))
    BY <2>1, Sent, ExecutedEffect DEF Commands
  <2> QED BY <2>1, <2>2, AppendProperties
<1>44. ASSUME Unwinding PROVE Shown'
  BY <1>44 DEF Unwinding, Unwinds
<1>45. ASSUME DevLate PROVE Shown'
  <2>1. pc' = pc
    BY <1>45 DEF DevLate
  <2>2. CASE pc \in FromFlush
    <3>1. /\ late # <<>> /\ late \in Seq(Commands) /\ late' = Tail(late)
          /\ dev' \in {dev, Executed(Head(late))} /\ Head(late) \in Commands
      BY <1>45, Later
    <3>2. /\ Len(late') = Len(late) - 1 /\ Head(late) = late[1]
          /\ \A i \in 1 .. Len(late') : late'[i] = late[i + 1]
          /\ Len(late) \in Nat /\ Len(late) >= 1
      BY <3>1, HeadTailProperties, EmptySeq, LenProperties
    <3>3. \A i \in 1 .. Len(late) : late[i] \in {"transfer", "info"}
      BY <2>2
    <3>4. dev' = dev
      BY <3>1, <3>2, <3>3, ExecutedEffect
    <3>5. \A i \in 1 .. Len(late') : late'[i] \in {"transfer", "info"}
      BY <3>2, <3>3
    <3> QED BY <2>1, <2>2, <3>4, <3>5
  <2>3. CASE pc \notin FromFlush
    BY <1>45, <2>1, <2>3, Later
  <2> QED BY <2>2, <2>3
<1>46. CASE UNCHANGED vars
  BY <1>46 DEF vars
<1> QED BY UnwindCases, <1>1, <1>2, <1>3, <1>4, <1>5, <1>6, <1>7, <1>8, <1>9,
           <1>10, <1>11, <1>12, <1>13, <1>14, <1>15, <1>16, <1>17, <1>18,
           <1>19, <1>20, <1>21, <1>22, <1>23, <1>24, <1>25, <1>26, <1>27,
           <1>28, <1>29, <1>30, <1>31, <1>32, <1>33, <1>34, <1>35, <1>36,
           <1>37, <1>38, <1>39, <1>40, <1>41, <1>42, <1>43, <1>44, <1>45, <1>46
    DEF Next, Stopped

(* The slots of configuration space.  The function LowHalf picks is the one *)
(* its equation describes: the six slots are worked out one by one.        *)

LEMMA LowHalfDef ==
    ASSUME NEW slots
    PROVE  LowHalf(slots) =
             [b \in Slots |-> b = 0 \/ ~(LowHalf(slots)[b - 1] /\ slots[b - 1] = "mem64")]
<1> DEFINE Body(f) == [b \in Slots |-> b = 0 \/ ~(f[b - 1] /\ slots[b - 1] = "mem64")]
           l1 == slots[0] # "mem64"
           l2 == ~(l1 /\ slots[1] = "mem64")
           l3 == ~(l2 /\ slots[2] = "mem64")
           l4 == ~(l3 /\ slots[3] = "mem64")
           l5 == ~(l4 /\ slots[4] = "mem64")
           w == [b \in Slots |-> \/ b = 0 \/ (b = 1 /\ l1) \/ (b = 2 /\ l2)
                                 \/ (b = 3 /\ l3) \/ (b = 4 /\ l4) \/ (b = 5 /\ l5)]
<1>1. w = Body(w)
  <2> HIDE DEF l1, l2, l3, l4, l5
  <2>1. /\ w[0] /\ (w[1] <=> l1) /\ (w[2] <=> l2)
        /\ (w[3] <=> l3) /\ (w[4] <=> l4) /\ (w[5] <=> l5)
    BY DEF Slots
  <2>2. \A b \in Slots : w[b] \in BOOLEAN
    OBVIOUS
  <2> HIDE DEF w
  <2>3. ASSUME NEW b \in Slots
        PROVE  w[b] <=> (b = 0 \/ ~(w[b - 1] /\ slots[b - 1] = "mem64"))
    <3>1. b = 0 \/ b = 1 \/ b = 2 \/ b = 3 \/ b = 4 \/ b = 5
      BY DEF Slots
    <3>2. CASE b = 0
      BY <2>1, <3>2
    <3>3. CASE b = 1
      BY <2>1, <3>3 DEF l1
    <3>4. CASE b = 2
      BY <2>1, <3>4 DEF l2
    <3>5. CASE b = 3
      BY <2>1, <3>5 DEF l3
    <3>6. CASE b = 4
      BY <2>1, <3>6 DEF l4
    <3>7. CASE b = 5
      BY <2>1, <3>7 DEF l5
    <3> QED BY <3>1, <3>2, <3>3, <3>4, <3>5, <3>6, <3>7
  <2>4. w = [b \in Slots |-> w[b]]
    BY DEF w
  <2>5. [b \in Slots |-> w[b]] = Body(w)
    BY <2>3, <2>2
  <2> QED BY <2>4, <2>5
<1>2. LowHalf(slots) = CHOOSE f : f = Body(f)
  BY DEF LowHalf
<1> HIDE DEF Body
<1>3. (CHOOSE f : f = Body(f)) = Body(CHOOSE f : f = Body(f))
  BY <1>1
<1> QED BY <1>2, <1>3 DEF Body

\* After the repair, every high half can be decoded: it changes none of the
\* low halves, so the walk over the repaired slots is the same walk.
LEMMA RepairedDecodes ==
    ASSUME NEW slots \in [Slots -> SlotKinds]
    PROVE  \A b \in WideAt(Repaired(slots)) : Repaired(slots)[b + 1] # "ones"
<1> DEFINE new == Repaired(slots)
<1>1. \A b \in Slots : b # 0 =>
          new[b] = IF b - 1 \in WideAt(slots) /\ slots[b] = "ones" THEN "zero" ELSE slots[b]
  BY DEF Repaired
<1>2. new[0] = slots[0]
  BY DEF Repaired, Slots
<1>3. \A b \in Slots : new[b] = "mem64" <=> slots[b] = "mem64"
  BY <1>1, <1>2 DEF Slots
<1>4. \A b \in Slots : b # 0 =>
          /\ LowHalf(slots)[b] <=> ~(LowHalf(slots)[b - 1] /\ slots[b - 1] = "mem64")
          /\ LowHalf(new)[b] <=> ~(LowHalf(new)[b - 1] /\ new[b - 1] = "mem64")
  <2>1. ASSUME NEW b \in Slots, b # 0
        PROVE  LowHalf(slots)[b] = (b = 0 \/ ~(LowHalf(slots)[b - 1] /\ slots[b - 1] = "mem64"))
    BY LowHalfDef
  <2>2. ASSUME NEW b \in Slots, b # 0
        PROVE  LowHalf(new)[b] = (b = 0 \/ ~(LowHalf(new)[b - 1] /\ new[b - 1] = "mem64"))
    BY LowHalfDef
  <2> QED BY <2>1, <2>2
<1>5. LowHalf(slots)[0] /\ LowHalf(new)[0]
  <2>1. 0 \in Slots
    BY DEF Slots
  <2>2. LowHalf(slots)[0] = (0 = 0 \/ ~(LowHalf(slots)[0 - 1] /\ slots[0 - 1] = "mem64"))
    BY <2>1, LowHalfDef
  <2>3. LowHalf(new)[0] = (0 = 0 \/ ~(LowHalf(new)[0 - 1] /\ new[0 - 1] = "mem64"))
    BY <2>1, LowHalfDef
  <2> QED BY <2>2, <2>3
<1> HIDE DEF new
<1>6. \A b \in Slots : LowHalf(new)[b] <=> LowHalf(slots)[b]
  BY <1>3, <1>4, <1>5 DEF Slots
<1>7. WideAt(new) = WideAt(slots)
  BY <1>3, <1>6 DEF WideAt
<1>8. ASSUME NEW b \in WideAt(new) PROVE new[b + 1] # "ones"
  <2>1. b \in WideAt(slots) /\ b + 1 \in Slots /\ b + 1 # 0 /\ (b + 1) - 1 = b
    BY <1>7, <1>8, SMTT(60) DEF WideAt, Slots
  <2> QED BY <1>1, <2>1
<1> QED BY <1>8 DEF new

\* Nothing touches the slots again once they are repaired.
LEMMA BarsStay ==
    ASSUME Types, BarsDecodable, Next
    PROVE  BarsDecodable'
<1>1. ASSUME EnableDevice PROVE BarsDecodable'
  <2>1. pci.slots \in [Slots -> SlotKinds] /\ pci'.slots = Repaired(pci.slots)
    BY <1>1 DEF EnableDevice, Types, Pci
  <2> QED BY <2>1, RepairedDecodes DEF BarsDecodable, Decodes
<1>2. ASSUME InstallIrq PROVE BarsDecodable'
  <2>1. pci'.slots = pci.slots /\ pci'.enabled = pci.enabled
    BY <1>2 DEF InstallIrq, Types, Pci
  <2> QED BY <2>1 DEF BarsDecodable, Decodes
<1>3. ASSUME UNCHANGED pci PROVE BarsDecodable'
  BY <1>3 DEF BarsDecodable, Decodes
<1> QED BY UnwindCases, <1>1, <1>2, <1>3
    DEF Next, vars, Stopped, AllocBoardMem, AllocCmdBuf, AllocCursorCmdBuf,
        AllocFb, AllocLocks, AllocQueue, AllocRespBuf, AllocState, AttachFb,
        BoardAllocPatch, BoardFindDevice, BoardGetPCI, BoardHook,
        BoardOpenCard, BoardOpenExpansion, BoardUnwind, CreateBlob, CreateFb,
        DevLate, DriverOk, Drop, EnableQueue, Fail, FillBoardInfo, FirstFlush,
        GetPCI, GetResolution, Goto, ListFb, ListStep, LockDevice, MapFb,
        MapQueue, MapStep, MustSend, Negotiate, Obtain, ObtainDMA,
        OpenExpansion, PublishState, QueryCapsets, QueueFails, Queues,
        RegisterModes, ScanCaps, ScanoutFb, Setup3D, Unwinding, Unwinds,
        chip_FindCard, chip_fill_boardinfo_vtable, chip_register_edid,
        hook_FindCard, hook_InitBoard

-----------------------------------------------------------------------------
LEMMA Invariance == Spec => []IInv
<1>1. Init => IInv
  <2> SUFFICES ASSUME Init PROVE IInv
    OBVIOUS
  <2> USE DEF Init
  <2>1. Types
    <3>1. pc \in Pcs /\ late \in Seq(Commands) /\ Len(late) <= MaxLate
      BY InitCardAssumption, EmptySeq DEF Pcs, BoardPcs
    <3>2. pci \in Pci /\ dev \in Dev /\ gs \in Gs
      BY InitCardAssumption DEF Pci, Dev, Gs
    <3> QED BY <3>1, <3>2 DEF Types
  <2>2. BoardHeld /\ mapped \subseteq held /\ BarsDecodable
    BY InitCardAssumption DEF BoardHeld, BarsDecodable
  <2>3. Acquired
    BY DEF Acquired, Locks, Pcs, BoardPcs, HookPcs, FromRegister, FromPublish, FromFlush,
         FromList, FromMapFb, FromFb, From3D, FromOk, FromCursorQ,
         FromCtrlQ, FromCursorCmd, FromResp, FromCmd, FromLocks, FromGs,
         FromPciLock, FromIpci, FromExpansion, Sequence, DownList,
         DownMapFb, DownFb, DownQueues, DownResp, DownCmd, DownGs,
         DownPciLock, DownIpci, Labels
  <2>4. Optional /\ Reachable
    BY DEF Optional, Reachable, Pcs, BoardPcs, HookPcs, FromRegister, FromPublish, FromFlush,
         FromList, FromMapFb, FromFb, From3D, FromOk, FromCursorQ,
         FromCtrlQ, FromCursorCmd, FromResp, FromCmd, FromLocks, FromGs,
         FromPciLock, FromIpci, FromExpansion, Sequence, DownList,
         DownMapFb, DownFb, DownQueues, DownResp, DownCmd, DownGs,
         DownPciLock, DownIpci, Labels
  <2>5. Shown /\ Ready /\ Filled
    BY DEF Shown, Ready, Filled, Pcs, BoardPcs, HookPcs, FromRegister, FromPublish, FromFlush,
         FromList, FromMapFb, FromFb, From3D, FromOk, FromCursorQ,
         FromCtrlQ, FromCursorCmd, FromResp, FromCmd, FromLocks, FromGs,
         FromPciLock, FromIpci, FromExpansion, Sequence, DownList,
         DownMapFb, DownFb, DownQueues, DownResp, DownCmd, DownGs,
         DownPciLock, DownIpci, Labels
  <2> QED BY <2>1, <2>2, <2>3, <2>4, <2>5 DEF IInv
<1>2. IInv /\ [Next]_vars => IInv'
  <2>1. ASSUME IInv, Next PROVE IInv'
    <3>1. Types' /\ BoardHeld' /\ Acquired'
      BY <2>1, TypesStay, BoardHeldStays, AcquiredStays DEF IInv
    <3>2. Optional' /\ Reachable' /\ mapped' \subseteq held'
      BY <2>1, OptionalStays, ReachableStays, MappedStays DEF IInv
    <3>3. Shown' /\ Ready' /\ Filled' /\ BarsDecodable'
      BY <2>1, ShownStays, ReadyStays, FilledStays, BarsStay DEF IInv
    <3> QED BY <3>1, <3>2, <3>3 DEF IInv
  <2>2. ASSUME IInv, UNCHANGED vars PROVE IInv'
    <3> USE <2>2 DEF IInv, vars
    <3>1. Types' /\ BoardHeld' /\ Acquired'
      BY DEF Types, BoardHeld, Acquired
    <3>2. Optional' /\ Reachable' /\ mapped' \subseteq held'
      BY DEF Optional, Reachable
    <3>3. Shown' /\ Ready' /\ Filled' /\ BarsDecodable'
      BY DEF Shown, Ready, Filled, BarsDecodable, Decodes
    <3> QED BY <3>1, <3>2, <3>3
  <2> QED BY <2>1, <2>2
<1> QED BY <1>1, <1>2, PTL DEF Spec

\* What the labels of chip_InitCard_C use is there, a mapping is ended once
\* and before its memory goes, wherever a step of the bring-up fails.
THEOREM InitUnwindSafe == Spec => []UnwindSafe
<1>1. IInv => UnwindSafe
  <2> SUFFICES ASSUME IInv PROVE UnwindSafe
    OBVIOUS
  <2>1. TypeOK
    <3>1. pc \in Steps \cup Failing
      <4>1. Labels \cup {"refused"} \subseteq Failing
        <5>1. \A i \in 1 .. 11 : Ladder[i] \in Failing
          BY DEF Failing, Ladder
        <5>2. /\ Ladder[1] = "fail_fb_dma_list" /\ Ladder[2] = "fail_fb_dma"
              /\ Ladder[3] = "fail_fb_mem" /\ Ladder[4] = "fail_vqs"
              /\ Ladder[5] = "fail_resp" /\ Ladder[6] = "fail_cmd"
              /\ Ladder[7] = "fail_gs" /\ Ladder[8] = "fail_pci"
              /\ Ladder[9] = "fail_ipci" /\ Ladder[10] = "fail_exp"
              /\ Ladder[11] = "refused"
          BY DEF Ladder
        <5>3. {"fail_fb_dma_list", "fail_fb_dma", "fail_fb_mem", "fail_vqs",
               "fail_resp", "fail_cmd", "fail_gs", "fail_pci", "fail_ipci",
               "fail_exp", "refused"} \subseteq Failing
          BY <5>1, <5>2
        <5> QED BY <5>3 DEF Labels, DownIpci, DownPciLock, DownGs, DownCmd, DownResp,
                            DownQueues, DownFb, DownMapFb, DownList
      <4>2. BoardPcs \cup HookPcs \cup Sequence \subseteq Steps
        BY DEF Steps, Pcs, BoardPcs, HookPcs, FromRegister, FromPublish, FromFlush,
         FromList, FromMapFb, FromFb, From3D, FromOk, FromCursorQ,
         FromCtrlQ, FromCursorCmd, FromResp, FromCmd, FromLocks, FromGs,
         FromPciLock, FromIpci, FromExpansion, Sequence, DownList,
         DownMapFb, DownFb, DownQueues, DownResp, DownCmd, DownGs,
         DownPciLock, DownIpci, Labels
      <4> QED BY <4>1, <4>2 DEF IInv, Types, Pcs
    <3>2. held \subseteq Resources /\ mapped \subseteq Resources
      BY DEF IInv, Types, Mappable, Resources, Queues
    <3> QED BY <3>1, <3>2 DEF TypeOK, IInv, Types, Pci, Dev, Gs
  <2>2. Touched(pc) \subseteq held
    BY DEF Touched, IInv, Types, Acquired, Pcs, BoardPcs, HookPcs, FromRegister, FromPublish, FromFlush,
         FromList, FromMapFb, FromFb, From3D, FromOk, FromCursorQ,
         FromCtrlQ, FromCursorCmd, FromResp, FromCmd, FromLocks, FromGs,
         FromPciLock, FromIpci, FromExpansion, Sequence, DownList,
         DownMapFb, DownFb, DownQueues, DownResp, DownCmd, DownGs,
         DownPciLock, DownIpci, Labels
  <2>3. pc = "fail_fb_dma" => "fb_mem" \in mapped
    BY DEF IInv, Reachable, DownMapFb
  <2> QED BY <2>1, <2>2, <2>3 DEF UnwindSafe, IInv
<1> QED BY <1>1, Invariance, PTL

\* A bring-up that failed leaves nothing of the chip driver but an interrupt
\* server, and the 3D command buffer if it was the framebuffer that failed.
THEOREM InitNothingLeaked == Spec => []NothingLeaked
<1>1. IInv => NothingLeaked
  <2> SUFFICES ASSUME IInv PROVE NothingLeaked
    OBVIOUS
  <2>1. pc = "no_board" => held \subseteq {"patch"}
    BY DEF IInv, BoardHeld
  <2>2. ASSUME pc = "refused", NEW r \in held,
               r \notin BoardParts \cup {"irqServer"}
        PROVE  r = "cmd3d_buf" /\ why = "fb_mem"
    BY <2>2 DEF IInv, Types, Resources, Locks, Queues, BoardParts, Acquired, Optional,
          Pcs, BoardPcs, HookPcs, FromRegister, FromPublish, FromFlush,
         FromList, FromMapFb, FromFb, From3D, FromOk, FromCursorQ,
         FromCtrlQ, FromCursorCmd, FromResp, FromCmd, FromLocks, FromGs,
         FromPciLock, FromIpci, FromExpansion, Sequence, DownList,
         DownMapFb, DownFb, DownQueues, DownResp, DownCmd, DownGs,
         DownPciLock, DownIpci, Labels
  <2> QED BY <2>1, <2>2 DEF NothingLeaked, BoardParts
<1> QED BY <1>1, Invariance, PTL

\* What the callbacks of graphics.library use is in place once it can call
\* them, and the bring-up no longer fails after that.
THEOREM InitPublishedComplete == Spec => []PublishedComplete
<1>1. IInv => PublishedComplete
  <2> SUFFICES ASSUME IInv PROVE PublishedComplete
    OBVIOUS
  <2>1. ASSUME bi \cap {"vtable", "edid_entry"} # {}
        PROVE  /\ pc \notin Failing
               /\ gs.published
               /\ {"gs", "cmd_buf", "resp_buf", "fb_mem", "ctrlq"} \cup Locks \subseteq held
               /\ {"ctrlq", "fb_mem"} \subseteq mapped
               /\ gs.board_mem \in held
               /\ dev.status = "driver_ok"
               /\ dev.fb = "backed" /\ dev.scanout
    <3>1. pc \in FromRegister
      BY <2>1 DEF IInv, Filled
    <3>2. pc \notin Failing
      <4>1. \A i \in 1 .. Len(Ladder) : Ladder[i] \in Labels \cup {"refused"}
        BY DEF Ladder, Pcs, BoardPcs, HookPcs, FromRegister, FromPublish, FromFlush,
         FromList, FromMapFb, FromFb, From3D, FromOk, FromCursorQ,
         FromCtrlQ, FromCursorCmd, FromResp, FromCmd, FromLocks, FromGs,
         FromPciLock, FromIpci, FromExpansion, Sequence, DownList,
         DownMapFb, DownFb, DownQueues, DownResp, DownCmd, DownGs,
         DownPciLock, DownIpci, Labels
      <4> QED BY <3>1, <4>1 DEF Failing, Pcs, BoardPcs, HookPcs, FromRegister, FromPublish, FromFlush,
         FromList, FromMapFb, FromFb, From3D, FromOk, FromCursorQ,
         FromCtrlQ, FromCursorCmd, FromResp, FromCmd, FromLocks, FromGs,
         FromPciLock, FromIpci, FromExpansion, Sequence, DownList,
         DownMapFb, DownFb, DownQueues, DownResp, DownCmd, DownGs,
         DownPciLock, DownIpci, Labels
    <3>3. gs.published /\ gs.board_mem \in held
      BY <3>1 DEF IInv, Filled, FromPublish
    <3>4. {"gs", "cmd_buf", "resp_buf", "fb_mem", "ctrlq"} \cup Locks \subseteq held
      BY <3>1 DEF IInv, Acquired, Pcs, BoardPcs, HookPcs, FromRegister, FromPublish, FromFlush,
         FromList, FromMapFb, FromFb, From3D, FromOk, FromCursorQ,
         FromCtrlQ, FromCursorCmd, FromResp, FromCmd, FromLocks, FromGs,
         FromPciLock, FromIpci, FromExpansion, Sequence, DownList,
         DownMapFb, DownFb, DownQueues, DownResp, DownCmd, DownGs,
         DownPciLock, DownIpci, Labels
    <3>5. {"ctrlq", "fb_mem"} \subseteq mapped
      BY <3>1 DEF IInv, Reachable, Pcs, BoardPcs, HookPcs, FromRegister, FromPublish, FromFlush,
         FromList, FromMapFb, FromFb, From3D, FromOk, FromCursorQ,
         FromCtrlQ, FromCursorCmd, FromResp, FromCmd, FromLocks, FromGs,
         FromPciLock, FromIpci, FromExpansion, Sequence, DownList,
         DownMapFb, DownFb, DownQueues, DownResp, DownCmd, DownGs,
         DownPciLock, DownIpci, Labels
    <3>6. dev.status = "driver_ok" /\ dev.fb = "backed" /\ dev.scanout
      BY <3>1 DEF IInv, Shown, Ready, Pcs, BoardPcs, HookPcs, FromRegister, FromPublish, FromFlush,
         FromList, FromMapFb, FromFb, From3D, FromOk, FromCursorQ,
         FromCtrlQ, FromCursorCmd, FromResp, FromCmd, FromLocks, FromGs,
         FromPciLock, FromIpci, FromExpansion, Sequence, DownList,
         DownMapFb, DownFb, DownQueues, DownResp, DownCmd, DownGs,
         DownPciLock, DownIpci, Labels
    <3> QED BY <3>2, <3>3, <3>4, <3>5, <3>6
  <2>2. ASSUME pc = "running"
        PROVE  /\ {"HardInterrupt", "CardBase", "ChipBase", "vtable", "modes"} \subseteq bi
               /\ gs.has_virgl /\ gs.capsets => {"cmd3d_buf", "cmd3d_lock"} \subseteq held
    BY <2>2 DEF IInv, Filled, Pcs, BoardPcs, HookPcs, FromRegister, FromPublish, FromFlush,
         FromList, FromMapFb, FromFb, From3D, FromOk, FromCursorQ,
         FromCtrlQ, FromCursorCmd, FromResp, FromCmd, FromLocks, FromGs,
         FromPciLock, FromIpci, FromExpansion, Sequence, DownList,
         DownMapFb, DownFb, DownQueues, DownResp, DownCmd, DownGs,
         DownPciLock, DownIpci, Labels
  <2> QED BY <2>1, <2>2 DEF PublishedComplete
<1> QED BY <1>1, Invariance, PTL

\* Once memory decoding is on, no 64-bit BAR has the sizing pattern in its
\* high half, whatever the firmware left there.
THEOREM InitBarsDecodable == Spec => []BarsDecodable
<1>1. IInv => BarsDecodable
  BY DEF IInv
<1> QED BY <1>1, Invariance, PTL

=============================================================================
