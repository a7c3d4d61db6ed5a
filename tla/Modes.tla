------------------------------- MODULE Modes -------------------------------
(***************************************************************************)
(* The screen modes of the card: chip_GetEDID reads the timings of the     *)
(* monitor, chip_register_modes lists them in bi->ResolutionsList beside a *)
(* table of its own, and from then on the flush task polls the device for  *)
(* display changes and chip_handle_display_change lists the size the host  *)
(* now shows.  chip_InitCard_C and the flush task append to the list in    *)
(* turn (the task starts later); tasks of rtg.library walk it without a    *)
(* lock at any moment.                                                     *)
(*                                                                         *)
(* A display size is a pair <<w, h>>.  An EDID is reduced to its length,   *)
(* its four descriptors (a size, or Text if the clock is zero) and its     *)
(* extension blocks; the bytes chip_GetEDID reads are kept as offsets.     *)
(***************************************************************************)
EXTENDS Naturals, Sequences, FiniteSets, SequencesExt

CONSTANTS
    Table,      \* the sizes of chip_modes, index 0 first
    Edids,      \* what the device may answer to GET_EDID
    HostSizes,  \* sizes the host window may take
    Heads,      \* number of scanouts
    DtdMax,     \* timings gs->edid_dtd_w has room for (16)
    HotBase,    \* first number of a hot-plugged mode (0xC0)
    HotSlots,   \* numbers set aside for them (64)
    Depths,     \* depths every size is offered in
    MaxFail,    \* bound: allocations and GET_DISPLAY_INFOs that fail
    MaxHost,    \* bound: changes of the host display
    Text,
    None

ASSUME ModesAssumption ==
    /\ Len(Table) > 2
    /\ Table[1] = <<0, 0>>
    /\ {Heads, DtdMax, HotSlots} \subseteq Nat \ {0}
    /\ HotBase \in Nat /\ HotBase >= Len(Table) + DtdMax
    /\ {MaxFail, MaxHost} \subseteq Nat
    /\ Depths \subseteq {8, 16, 32}

VARIABLES
    pc,         \* where the task that adds modes is
    todo,       \* modes chip_register_modes still has to add
    adding,     \* the Resolution chip_add_mode is building, or None
    list,       \* bi->ResolutionsList
    gs,         \* has_edid, the timings, hotplug_mode_count
    reads,      \* history: byte offsets of the EDID that were read
    host,       \* what each scanout shows (None: off), and the event bit
    changes,    \* bound: changes of the host display so far
    missed      \* history: how often memory or an answer was not to be had

vars == <<pc, todo, adding, list, gs, reads, host, changes, missed>>

num_modes == Len(Table)

Miss == missed < MaxFail /\ missed' = missed + 1
-----------------------------------------------------------------------------
(* chip_GetEDID.                                                           *)

DescriptorAt == <<54, 72, 90, 108>>

\* Mutant: a descriptor counts if it begins inside the EDID.
BaseFitLoose(e) == {i \in 1..4 : DescriptorAt[i] <= e.size}

\* The eight bytes of a descriptor that are looked at have to be there.
BaseFit(e) == {i \in 1..4 : DescriptorAt[i] + 8 <= e.size}

BaseDtds(e) == SelectSeq(SubSeq(e.base, 1, Cardinality(BaseFit(e))), LAMBDA d : d # Text)

\* Extension blocks up to the first that is not complete.
Blocks(e) ==
    IF e.size < 128 THEN {} ELSE {k \in 1..e.ext_count : 128 * k + 128 <= e.size}

IsCEA(b) == b.tag = 2 /\ b.dtd_off \in 4..125

\* The timings of a block, up to the first descriptor without a clock.
BlockFit(b) == {j \in DOMAIN b.dtds : b.dtd_off + 18 * j <= 126}

BlockDtds(b) ==
    LET ends == {j \in BlockFit(b) : b.dtds[j] = Text}
    IN  SubSeq(b.dtds, 1, Cardinality({j \in BlockFit(b) : \A k \in ends : j < k}))

ExtDtds(e) ==
    FlattenSeq([k \in 1..Cardinality(Blocks(e)) |->
                  IF IsCEA(e.ext[k]) THEN BlockDtds(e.ext[k]) ELSE <<>>])

ADD_DTD(dtds, d) ==
    IF d[1] > 0 /\ d[2] > 0 /\ Len(dtds) < DtdMax /\ ~Contains(dtds, d)
    THEN Append(dtds, d) ELSE dtds

Dtds(e) == FoldLeft(ADD_DTD, <<>>, BaseDtds(e) \o ExtDtds(e))

\* Offsets of the bytes chip_GetEDID looks at.
ReadOffsets(e) ==
    UNION {DescriptorAt[i]..(DescriptorAt[i] + 7) : i \in BaseFit(e)}
      \cup (IF e.size >= 128 THEN {126} ELSE {})
      \cup UNION {{128 * k, 128 * k + 2}
                    \cup (IF IsCEA(e.ext[k])
                          THEN UNION {LET at == 128 * k + e.ext[k].dtd_off + 18 * (j - 1)
                                      IN  at..(at + 7) : j \in BlockFit(e.ext[k])}
                          ELSE {}) : k \in Blocks(e)}

\* GET_EDID was answered or it was not.
GetEDID ==
    /\ pc = "edid"
    /\ \/ \E e \in Edids :
             /\ gs' = [gs EXCEPT !.has_edid = TRUE, !.edid = e, !.dtds = Dtds(e)]
             /\ reads' = ReadOffsets(e)
       \/ UNCHANGED <<gs, reads>>
    /\ pc' = "register"
    /\ UNCHANGED <<todo, adding, list, host, changes, missed>>
-----------------------------------------------------------------------------
(* chip_register_modes and chip_add_mode.                                  *)

Request(d, slot) == [size |-> d, slot |-> slot]

EdidRequests == [i \in DOMAIN gs.dtds |-> Request(gs.dtds[i], num_modes + i - 1)]

\* The table is listed from index 2 on.
RegisterModes ==
    /\ pc = "register"
    /\ todo' = [i \in 1..(num_modes - 2) |-> Request(Table[i + 2], i + 1)] \o EdidRequests
    /\ pc' = "boot"
    /\ UNCHANGED <<adding, list, gs, reads, host, changes, missed>>

Listed(d) == \E i \in DOMAIN list : list[i].size = d

\* Mutant: the heights are not compared.
ResolutionExistsWide(d) == \E i \in DOMAIN list : list[i].size[1] = d[1] /\ list[i].size[2] >= d[2]

chip_resolution_exists(d) == Listed(d)

Zero(d) == d[1] = 0 \/ d[2] = 0

\* What chip_add_mode answers without building anything, if it does.
Answer(d) == IF Zero(d) THEN FALSE ELSE TRUE

Settled(d) == Zero(d) \/ chip_resolution_exists(d)

\* A Resolution is allocated, or the call fails.
Build(r, next, failed) ==
    \/ adding' = [size |-> r.size, slot |-> r.slot] /\ pc' = next /\ UNCHANGED missed
    \/ adding' = adding /\ pc' = failed /\ Miss

BootAdd ==
    /\ pc = "boot"
    /\ todo # <<>>
    /\ todo' = Tail(todo)
    /\ \/ Settled(Head(todo).size) /\ UNCHANGED <<adding, pc, missed>>
       \/ ~Settled(Head(todo).size) /\ Build(Head(todo), "boot_build", "boot")
    /\ UNCHANGED <<list, gs, reads, host, changes>>

BootDone ==
    /\ pc = "boot"
    /\ todo = <<>>
    /\ pc' = "idle"
    /\ UNCHANGED <<todo, adding, list, gs, reads, host, changes, missed>>

Building == pc \in {"boot_build", "hot_build"}

\* Mutant: the entry is linked whatever became of its ModeInfos.
EntryAlways(depths) == TRUE

EntryUsable(depths) == depths # {}

\* A ModeInfo that cannot be had is skipped.  AddTail comes last: a task that
\* walks the list finds whole entries.
AddResolution ==
    /\ Building
    /\ \E depths \in SUBSET Depths :
          /\ \/ depths = Depths /\ UNCHANGED missed
             \/ depths # Depths /\ Miss
          /\ list' = IF EntryUsable(depths)
                     THEN Append(list, [size |-> adding.size, slot |-> adding.slot,
                                        depths |-> depths])
                     ELSE list
          /\ gs' = IF pc = "hot_build" /\ EntryUsable(depths)
                   THEN [gs EXCEPT !.hotplug_mode_count = @ + 1] ELSE gs
    /\ adding' = None
    /\ pc' = IF pc = "boot_build" THEN "boot" ELSE "idle"
    /\ UNCHANGED <<todo, reads, host, changes>>
-----------------------------------------------------------------------------
(* Hot-plug: the host changes a scanout, the flush task polls.             *)

HostChange ==
    /\ changes < MaxHost
    /\ \E s \in 1..Heads, d \in HostSizes \cup {None} :
          /\ host.shows[s] # d
          /\ host' = [shows |-> [host.shows EXCEPT ![s] = d], event |-> TRUE]
    /\ changes' = changes + 1
    /\ UNCHANGED <<pc, todo, adding, list, gs, reads, missed>>

\* events_read, then events_clear, then chip_handle_display_change.
PollEvent ==
    /\ pc = "idle"
    /\ host.event
    /\ host' = [host EXCEPT !.event = FALSE]
    /\ pc' = "changed"
    /\ UNCHANGED <<todo, adding, list, gs, reads, changes, missed>>

Enabled == {s \in 1..Heads : host.shows[s] # None}

\* The first scanout that is on.
Shown == host.shows[CHOOSE s \in Enabled : \A t \in Enabled : s <= t]

HotSlot == HotBase + (gs.hotplug_mode_count % HotSlots)

\* GET_DISPLAY_INFO fails, or no scanout is on.
DisplayInfoFails ==
    /\ pc = "changed"
    /\ \/ Enabled = {} /\ UNCHANGED missed
       \/ Miss
    /\ pc' = "idle"
    /\ UNCHANGED <<todo, adding, list, gs, reads, host, changes>>

\* A size that is listed already counts as added.
HandleDisplayChange ==
    /\ pc = "changed"
    /\ Enabled # {}
    /\ \/ /\ Settled(Shown)
          /\ gs' = IF Answer(Shown) THEN [gs EXCEPT !.hotplug_mode_count = @ + 1] ELSE gs
          /\ pc' = "idle"
          /\ UNCHANGED <<adding, missed>>
       \/ /\ ~Settled(Shown)
          /\ gs' = gs
          /\ Build(Request(Shown, HotSlot), "hot_build", "idle")
    /\ UNCHANGED <<todo, list, reads, host, changes>>
-----------------------------------------------------------------------------
Init ==
    /\ pc = "edid"
    /\ todo = <<>>
    /\ adding = None
    /\ list = <<>>
    /\ gs = [has_edid |-> FALSE, edid |-> None, dtds |-> <<>>, hotplug_mode_count |-> 0]
    /\ reads = {}
    /\ host = [shows |-> [s \in 1..Heads |-> None], event |-> FALSE]
    /\ changes = 0
    /\ missed = 0

Driver ==
    \/ GetEDID \/ RegisterModes \/ BootAdd \/ BootDone
    \/ AddResolution \/ PollEvent \/ DisplayInfoFails \/ HandleDisplayChange

Next == Driver \/ HostChange

Spec == Init /\ [][Next]_vars

\* The flush task polls every 50 of its cycles and each call it makes ends.
FairSpec == Spec /\ WF_vars(Driver)
-----------------------------------------------------------------------------
\* The variables keep their types.
TypeOK ==
    /\ pc \in {"edid", "register", "boot", "boot_build", "idle", "changed", "hot_build"}
    /\ \A i \in DOMAIN list : list[i].depths \subseteq Depths
    /\ Len(gs.dtds) <= DtdMax
    /\ gs.hotplug_mode_count \in Nat
    /\ DOMAIN host.shows = 1..Heads
    /\ adding = None <=> ~Building

\* Two resolutions have different DisplayIDs as long as no more display
\* changes were counted than there are numbers set aside for them.
UniqueIDs ==
    gs.hotplug_mode_count <= HotSlots =>
        \A i, j \in DOMAIN list : list[i].slot = list[j].slot => i = j

\* What a task that walks bi->ResolutionsList may find at any moment: no
\* size twice, no empty size, no entry without a ModeInfo, and no DisplayID
\* of another as long as there are numbers left.
ListSound ==
    /\ TypeOK /\ UniqueIDs
    /\ \A i, j \in DOMAIN list : list[i].size = list[j].size => i = j
    /\ \A i \in DOMAIN list : ~Zero(list[i].size) /\ list[i].depths # {}

\* chip_GetEDID looks at no byte behind the end of the EDID, and the timing
\* the first descriptor of a complete base block holds is the native one.
EdidParsed ==
    gs.has_edid =>
        /\ \A o \in reads : o < gs.edid.size
        /\ gs.edid.size >= 128 /\ gs.edid.base[1] # Text /\ ~Zero(gs.edid.base[1])
             => gs.dtds # <<>> /\ gs.dtds[1] = gs.edid.base[1]

\* Once chip_register_modes is through, every size of the table but the
\* first two and every timing of the monitor is listed, unless memory ran out.
ModesOffered ==
    pc \in {"idle", "changed", "hot_build"} /\ missed = 0 =>
        /\ \A i \in 3..num_modes : Listed(Table[i])
        /\ \A i \in DOMAIN gs.dtds : Listed(gs.dtds[i])

\* The monitor's own timings are read where they are and all offered.
MonitorServed == EdidParsed /\ ModesOffered

\* When the host stops changing its display, the size it shows is listed in
\* the end: no event is lost between the poll and the answer, except to a
\* GET_DISPLAY_INFO or an allocation that failed.
HostModeListed == <>[](missed > 0 \/ Enabled = {} \/ Listed(Shown))

\* "The slot_idx in chip_add_mode is used to encode a unique DisplayID"
\* (chip_gpu_cmds.c:922): not after as many changes as there are numbers.
DisplayIDsUnique == \A i, j \in DOMAIN list : list[i].slot = list[j].slot => i = j
=============================================================================
