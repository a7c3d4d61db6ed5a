------------------------------ MODULE CardMem ------------------------------
(***************************************************************************)
(* What AllocCardMem / FreeCardMem promise rtg.library: blocks of board    *)
(* memory that lie inside the board and never overlap, each returned to    *)
(* the pool exactly when its owner frees it.  A request may be refused,    *)
(* which changes nothing.                                                  *)
(***************************************************************************)
EXTENDS Integers

CONSTANT MemSize        \* board_mem_size

VARIABLE blocks         \* the blocks in the hands of clients

Extent == [ptr : 0..MemSize, size : 1..MemSize]

Disjoint(a, b) == a.ptr + a.size <= b.ptr \/ b.ptr + b.size <= a.ptr

Init == blocks = {}

Alloc(b) ==
    /\ b.ptr + b.size <= MemSize
    /\ \A c \in blocks : Disjoint(b, c)
    /\ blocks' = blocks \cup {b}

Free(b) ==
    /\ b \in blocks
    /\ blocks' = blocks \ {b}

Next == \E b \in Extent : Alloc(b) \/ Free(b)

Spec == Init /\ [][Next]_blocks
=============================================================================
