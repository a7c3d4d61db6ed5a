---------------------------- MODULE BoardAlloc -----------------------------
(***************************************************************************)
(* The board-memory allocator of src/chip/chip_alloc.c: a table of slots   *)
(* covering board_mem from 0 to board_alloc_offset, first fit with         *)
(* splitting, coalescing on free, protected by alloc_mutex.                *)
(*                                                                         *)
(* A call is a few steps under the mutex (the scan of the table, the       *)
(* mutation it decides on, the coalescing), so that what the mutex         *)
(* protects is visible.  Offsets and sizes are uint32: sums wrap at Word.  *)
(***************************************************************************)
EXTENDS Integers, Sequences, FiniteSets

CONSTANTS
    MAX_BOARD_ALLOCS,   \* slots of the table (512)
    MemSize,            \* gs->board_mem_size
    Align,              \* allocation granule (16)
    Word,               \* range of a uint32 (2^32)
    Tasks,              \* tasks calling through the vtable
    Requests,           \* sizes they ask for
    NoTask

ASSUME AllocAssumption ==
    /\ MAX_BOARD_ALLOCS \in Nat \ {0}
    /\ Align \in Nat \ {0}
    /\ MemSize \in Nat
    /\ MemSize % Align = 0
    /\ Word \in Nat
    /\ Word % Align = 0
    /\ MemSize < Word
    /\ Requests \subseteq 0..Word-1
    /\ NoTask \notin Tasks

VARIABLES
    board_allocs,        \* the slot table, as far as num_board_allocs
    board_alloc_offset,
    alloc_mutex,
    pc, local,           \* control and locals of each task
    live                 \* history: blocks handed out and not yet freed

vars == <<board_allocs, board_alloc_offset, alloc_mutex, pc, local, live>>

num_board_allocs == Len(board_allocs)

Labels == {"idle", "allocScan", "allocReuse", "allocExtend", "freeScan", "coalesce"}
Slots == [offset : 0..Word-1, size : 0..Word-1, used : BOOLEAN]
Slot(o, n, u) == [offset |-> o, size |-> n, used |-> u]
Ptrs == {o \in 0..MemSize : o % Align = 0}
Locals == [size : 0..Word-1, slot : Nat, ptr : 0..MemSize]
Local(n, i, p) == [size |-> n, slot |-> i, ptr |-> p]
NoLocal == Local(0, 0, 0)
Blocks == [ptr : 0..Word-1, size : 0..Word-1]
Block(p, n) == [ptr |-> p, size |-> n]
-----------------------------------------------------------------------------
(* Table operations.                                                       *)

\* (size + 15) & ~15, and 16 for a request that rounds to nothing.
RoundUp(size) ==
    LET s == (size + Align - 1) % Word
        r == s - (s % Align)
    IN IF r = 0 THEN Align ELSE r

\* The loops that shift the table down over slot i and up from slot i.
RemoveSlot(s, i) == [j \in 1..Len(s)-1 |-> IF j < i THEN s[j] ELSE s[j+1]]
DupSlot(s, i) == [j \in 1..Len(s)+1 |-> IF j <= i THEN s[j] ELSE s[j-1]]

SetUsed(s, i, u) == [s EXCEPT ![i] = Slot(s[i].offset, s[i].size, u)]

\* Slot i absorbs slot i + 1.
Merge(s, i) ==
    LET both == Slot(s[i].offset, (s[i].size + s[i+1].size) % Word, s[i].used)
    IN RemoveSlot([s EXCEPT ![i] = both], i + 1)

MergeNext(s, i) ==
    IF i + 1 <= Len(s) /\ ~s[i+1].used THEN Merge(s, i) ELSE s

\* Mutant: the predecessor is forgotten.
MergePrevNever(s, i) == s

MergePrev(s, i) ==
    IF i > 1 /\ ~s[i-1].used THEN Merge(s, i - 1) ELSE s

\* The while loop that drops trailing free slots: the table up to the last
\* slot in use.
DropTail(s) ==
    LET n == CHOOSE n \in 0..Len(s) :
                /\ n > 0 => s[n].used
                /\ \A j \in n+1..Len(s) : ~s[j].used
    IN SubSeq(s, 1, n)

board_coalesce_at(s, i) == DropTail(MergePrev(MergeNext(s, i), i))

board_recalc_top(s) ==
    IF Len(s) = 0 THEN 0 ELSE (s[Len(s)].offset + s[Len(s)].size) % Word

\* Mutants: a hole of exactly the size asked for is skipped; slots in use are
\* not.
FitsStrictly(s, i, size) == ~s[i].used /\ s[i].size > size
FitsUsed(s, i, size) == s[i].size >= size

\* First fit: the lowest free slot that is large enough, or 0.
Fits(s, i, size) == ~s[i].used /\ s[i].size >= size
FirstFit(s, size) ==
    IF \E i \in 1..Len(s) : Fits(s, i, size)
    THEN CHOOSE i \in 1..Len(s) : /\ Fits(s, i, size)
                                  /\ \A j \in 1..i-1 : ~Fits(s, j, size)
    ELSE 0

\* Mutant: the rest of the hole keeps its size.
SplitKeepsSize(s, i, size) ==
    LET o == s[i].offset
    IN [DupSlot(s, i) EXCEPT ![i] = Slot(o, size, TRUE),
                             ![i+1] = Slot((o + size) % Word, s[i].size, FALSE)]

\* Insert a used slot of the given size before the rest of free slot i.
Split(s, i, size) ==
    LET o == s[i].offset
    IN [DupSlot(s, i) EXCEPT ![i] = Slot(o, size, TRUE),
                             ![i+1] = Slot((o + size) % Word, s[i].size - size, FALSE)]
-----------------------------------------------------------------------------
Init ==
    /\ board_allocs = <<>>
    /\ board_alloc_offset = 0
    /\ alloc_mutex = NoTask
    /\ pc = [t \in Tasks |-> "idle"]
    /\ local = [t \in Tasks |-> NoLocal]
    /\ live = {}

Obtain(t) == alloc_mutex = NoTask /\ alloc_mutex' = t
Release(t) == alloc_mutex' = NoTask /\ local' = [local EXCEPT ![t] = NoLocal]
Goto(t, l) == pc' = [pc EXCEPT ![t] = l]

(* chip_AllocCardMem / board_alloc.                                        *)
AllocCall(t, size) ==
    /\ pc[t] = "idle"
    /\ Obtain(t)
    /\ local' = [local EXCEPT ![t] = Local(RoundUp(size), 0, 0)]
    /\ Goto(t, "allocScan")
    /\ UNCHANGED <<board_allocs, board_alloc_offset, live>>

AllocScan(t) ==
    /\ pc[t] = "allocScan"
    /\ LET i == FirstFit(board_allocs, local[t].size)
       IN /\ local' = [local EXCEPT ![t] = Local(local[t].size, i, 0)]
          /\ Goto(t, IF i # 0 THEN "allocReuse" ELSE "allocExtend")
    /\ UNCHANGED <<board_allocs, board_alloc_offset, alloc_mutex, live>>

\* The hole found is taken whole when it has the size asked for, or when the
\* table has no room for the rest; otherwise it is split.
AllocReuse(t) ==
    LET i == local[t].slot
        size == local[t].size
        whole == \/ board_allocs[i].size = size
                 \/ num_board_allocs >= MAX_BOARD_ALLOCS
    IN /\ pc[t] = "allocReuse"
       /\ board_allocs' = IF whole
                          THEN SetUsed(board_allocs, i, TRUE)
                          ELSE Split(board_allocs, i, size)
       /\ live' = live \cup {Block(board_allocs[i].offset,
                                IF whole THEN board_allocs[i].size ELSE size)}
       /\ Release(t)
       /\ Goto(t, "idle")
       /\ UNCHANGED board_alloc_offset

CanExtend(size) ==
    /\ (board_alloc_offset + size) % Word <= MemSize
    /\ num_board_allocs < MAX_BOARD_ALLOCS

AllocExtend(t) ==
    LET size == local[t].size
        top == board_alloc_offset
    IN /\ pc[t] = "allocExtend"
       /\ CanExtend(size)
       /\ board_allocs' = Append(board_allocs, Slot(top, size, TRUE))
       /\ board_alloc_offset' = (top + size) % Word
       /\ live' = live \cup {Block(top, size)}
       /\ Release(t)
       /\ Goto(t, "idle")

\* Out of board memory, or the table is full: NULL.
AllocFail(t) ==
    /\ pc[t] = "allocExtend"
    /\ ~CanExtend(local[t].size)
    /\ Release(t)
    /\ Goto(t, "idle")
    /\ UNCHANGED <<board_allocs, board_alloc_offset, live>>

(* chip_FreeCardMem / board_free.  A client frees a block it holds, and    *)
(* gives it up by calling; or it passes a pointer nobody holds.            *)
FreeCall(t, p) ==
    /\ pc[t] = "idle"
    /\ Obtain(t)
    /\ local' = [local EXCEPT ![t] = Local(0, 0, p)]
    /\ live' = {b \in live : b.ptr # p}
    /\ Goto(t, "freeScan")
    /\ UNCHANGED <<board_allocs, board_alloc_offset>>

\* The slot is found: it is free from here on.
FreeMark(t) ==
    /\ pc[t] = "freeScan"
    /\ \E i \in 1..num_board_allocs :
          /\ board_allocs[i].offset = local[t].ptr /\ board_allocs[i].used
          /\ \A j \in 1..i-1 :
                ~(board_allocs[j].offset = local[t].ptr /\ board_allocs[j].used)
          /\ board_allocs' = SetUsed(board_allocs, i, FALSE)
          /\ local' = [local EXCEPT ![t] = Local(0, i, local[t].ptr)]
    /\ Goto(t, "coalesce")
    /\ UNCHANGED <<board_alloc_offset, alloc_mutex, live>>

FreeCoalesce(t) ==
    LET s == board_coalesce_at(board_allocs, local[t].slot)
    IN /\ pc[t] = "coalesce"
       /\ board_allocs' = s
       /\ board_alloc_offset' = board_recalc_top(s)
       /\ Release(t)
       /\ Goto(t, "idle")
       /\ UNCHANGED live

FreeUnknown(t) ==
    /\ pc[t] = "freeScan"
    /\ \A i \in 1..num_board_allocs :
          ~(board_allocs[i].offset = local[t].ptr /\ board_allocs[i].used)
    /\ Release(t)
    /\ Goto(t, "idle")
    /\ UNCHANGED <<board_allocs, board_alloc_offset, live>>

Next == \E t \in Tasks :
    \/ \E size \in Requests : AllocCall(t, size)
    \/ AllocScan(t) \/ AllocReuse(t) \/ AllocExtend(t) \/ AllocFail(t)
    \/ \E p \in Ptrs : FreeCall(t, p)
    \/ FreeMark(t) \/ FreeCoalesce(t) \/ FreeUnknown(t)

Spec == Init /\ [][Next]_vars
-----------------------------------------------------------------------------
(* Properties.                                                             *)

TypeOK ==
    /\ board_allocs \in Seq(Slots)
    /\ num_board_allocs <= MAX_BOARD_ALLOCS
    /\ board_alloc_offset \in 0..Word-1
    /\ alloc_mutex \in Tasks \cup {NoTask}
    /\ pc \in [Tasks -> Labels]
    /\ local \in [Tasks -> Locals]
    /\ live \subseteq Blocks

\* No request is so large that rounding it, or adding it to the top of the
\* allocated area, leaves the range of a uint32.
NoWrap == \A size \in Requests : size + MemSize + Align < Word

\* The slots of s cover the board from 0 to top, each beginning where the one
\* before it ends.
Tiles(s, top) ==
    /\ \A i \in 1..Len(s) :
          /\ s[i].size > 0
          /\ s[i].offset = IF i = 1 THEN 0 ELSE s[i-1].offset + s[i-1].size
    /\ top = IF Len(s) = 0 THEN 0 ELSE s[Len(s)].offset + s[Len(s)].size

\* The table tiles the area below board_alloc_offset without gaps or
\* overlaps, inside the board, at every step of every call.
Tiling ==
    /\ Tiles(board_allocs, board_alloc_offset)
    /\ board_alloc_offset <= MemSize

\* The table is what both calls take it for when they enter it: slots of the
\* right shape, none past the end of the array, that tile the area below
\* board_alloc_offset.
TableSound == TypeOK /\ Tiling

\* Among the first n slots of s no two free ones are neighbours and the last
\* one is in use, slot i excepted.
HolesApart(s, n, i) ==
    /\ \A j \in 1..n-1 : s[j].used \/ s[j+1].used \/ i = j \/ i = j + 1
    /\ n > 0 => s[n].used \/ i = n

\* Between calls two free slots are never neighbours and the last slot is in
\* use: a hole is always as large as it can be.
Coalesced ==
    alloc_mutex = NoTask => HolesApart(board_allocs, num_board_allocs, 0)

\* The slots in use are the blocks clients hold: no block is lost, none is
\* given out twice, and a block being freed is in use until it is found.
UsedAreLive ==
    alloc_mutex = NoTask =>
        live = {Block(board_allocs[i].offset, board_allocs[i].size) :
                  i \in {j \in 1..num_board_allocs : board_allocs[j].used}}

\* A refused request could not have been satisfied: unless the table is full,
\* no gap between the blocks clients hold is large enough.  Without
\* coalescing, or with a hole the scan skips, this fails.
RefusalJustified ==
    [][\A t \in Tasks :
          AllocFail(t) /\ num_board_allocs < MAX_BOARD_ALLOCS =>
             \A o \in 0..MemSize - local[t].size :
                \E b \in live : /\ b.ptr < o + local[t].size
                                /\ o < b.ptr + b.size]_vars

\* "Slot table is kept sorted by offset" (chip_alloc.c, on the table), for
\* whatever size a caller passes.
SlotTableSorted ==
    \A i \in 1..num_board_allocs-1 :
        board_allocs[i].offset < board_allocs[i+1].offset

\* The allocator implements what its clients are promised.
Abstract == INSTANCE CardMem WITH blocks <- live
ImplementsCardMem == Abstract!Spec
=============================================================================
