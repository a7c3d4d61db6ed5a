-------------------------------- MODULE Blit --------------------------------
(***************************************************************************)
(* The drawing callbacks of src/chip/chip_blit.c: copies, fills, raster    *)
(* operations, expansion of bit masks, and lines.  A call works row by row *)
(* (a line: pixel by pixel) on memory that bitmaps share, and ends by      *)
(* waking the flush task.                                                  *)
(*                                                                         *)
(* A cell of memory is a byte.  Its content is the set of the bytes of the *)
(* initial memory it is the exclusive-or of: [a |-> {a}] at first, {} is   *)
(* zero, and Ones, Fg and Bg stand for 0xFF and the pens.  So a copy that  *)
(* read what it had written itself shows in the result.                    *)
(***************************************************************************)
EXTENDS Integers, Sequences, SequencesExt, FiniteSets

CONSTANTS
    Size,       \* cells of board memory
    Bitmaps,    \* names of the RenderInfos
    Base,       \* where each begins
    Stride,     \* BytesPerRow of each, by bytes per pixel
    Width,      \* in pixels
    Height,
    Depths,     \* bytes per pixel
    Long,       \* bytes of a longword (4)
    Screen,     \* the bitmap that is displayed
    ActiveW,    \* the size that is displayed
    ActiveH,
    Ops

ASSUME BlitAssumption ==
    /\ {Size, Width, Height, Long, ActiveW, ActiveH} \subseteq Nat \ {0}
    /\ ActiveW <= Width /\ ActiveH <= Height
    /\ Depths \subseteq Nat \ {0}
    /\ Base \in [Bitmaps -> 0..(Size - 1)]
    /\ Stride \in [Bitmaps \X Depths -> Nat]
    /\ Screen \in Bitmaps
    /\ \A r \in Bitmaps, b \in Depths :
          b * Width <= Stride[r, b] /\ Base[r] + Height * Stride[r, b] <= Size
    /\ Ops \subseteq {"BlitRect", "NoMaskComplete", "FillRect", "InvertRect", "Expand", "DrawLine"}

Cells == 0..(Size - 1)

VARIABLES
    job,        \* the call in progress, with its parameters
    mem,        \* the contents of memory
    rows,       \* rows still to do, in the order of the loop
    line,       \* locals of chip_DrawLine
    signalled,  \* the flush task was woken
    overlapped  \* history: CopyMem was given ranges that overlap

vars == <<job, mem, rows, line, signalled, overlapped>>

Start(r, bpp, x, y) == Base[r] + y * Stride[r, bpp] + x * bpp

Xor(a, b) == (a \ b) \cup (b \ a)

Ones == {-1}
Fg == {-2}     \* the pen of a fill or an expansion
Bg == {-3}
-----------------------------------------------------------------------------
(* Helpers that work on one row: n bytes from s to d.                      *)

Block(m, s, d, from, unit) ==
    [a \in Cells |-> IF a \in (d + from)..(d + from + unit - 1) THEN m[a - d + s] ELSE m[a]]

\* The loops of chip_lmemmove and their byte-wise twins.
Ascending(m, s, d, n, unit) ==
    FoldLeft(LAMBDA acc, k : Block(acc, s, d, (k - 1) * unit, unit), m,
             [k \in 1..(n \div unit) |-> k])

Descending(m, s, d, n, unit) ==
    FoldLeft(LAMBDA acc, k : Block(acc, s, d, (k - 1) * unit, unit), m,
             Reverse([k \in 1..(n \div unit) |-> k]))

Aligned(s, d, n) == \A v \in {s, d, n} : v % Long = 0

Unit(s, d, n) == IF Aligned(s, d, n) THEN Long ELSE 1

MoveRow(m, s, d, n) ==
    IF d < s THEN Ascending(m, s, d, n, Unit(s, d, n)) ELSE Descending(m, s, d, n, Unit(s, d, n))

Overlap(s, d, n) == s # d /\ d < s + n /\ s < d + n

\* CopyMem and CopyMemQuick may copy in any order: for ranges that overlap
\* the result is one of these.
chip_row_copy(m, s, d, n) ==
    IF Overlap(s, d, n)
    THEN {Ascending(m, s, d, n, 1), Descending(m, s, d, n, 1)}
    ELSE {Ascending(m, s, d, n, Unit(s, d, n))}

\* Mutant: the last longword is stored whole.
LongsUp(d, n) == IF d % Long = 0 THEN (n + Long - 1) \div Long ELSE 0

\* Longwords a row is done in before its tail.
Longs(d, n) == IF d % Long = 0 THEN n \div Long ELSE 0

Written(d, n) == (d..(d + Longs(d, n) * Long - 1)) \cup ((d + Longs(d, n) * Long)..(d + n - 1))

chip_lfill(m, d, n, v) == [a \in Cells |-> IF a \in Written(d, n) THEN v ELSE m[a]]

XorWithConst(m, d, n) == [a \in Cells |-> IF a \in Written(d, n) THEN Xor(m[a], Ones) ELSE m[a]]

XorBlock(m, s, d, from, unit) ==
    [a \in Cells |-> IF a \in (d + from)..(d + from + unit - 1) THEN Xor(m[a], m[a - d + s]) ELSE m[a]]

\* By longwords if both are aligned, then what is left by bytes.
XorWithSrc(m, s, d, n) ==
    LET longs == IF s % Long = 0 THEN Longs(d, n) ELSE 0
        byLong == [k \in 1..longs |-> [from |-> (k - 1) * Long, unit |-> Long]]
        byByte == [k \in 1..(n - longs * Long) |-> [from |-> longs * Long + k - 1, unit |-> 1]]
    IN FoldLeft(LAMBDA acc, k : XorBlock(acc, s, d, k.from, k.unit), m, byLong \o byByte)
-----------------------------------------------------------------------------
(* Calls.                                                                  *)

RowsDown(h) == [i \in 1..h |-> i - 1]

RowsUp(h) == [i \in 1..h |-> h - i]

Idle == job.op = "none"

Copies == {"BlitRect", "NoMaskComplete"}

InSrc(j) == j.x + j.w <= Width /\ j.y + j.h <= Height
InDst(j) == j.dx + j.w <= Width /\ j.dy + j.h <= Height

Rects == {j \in [x : 0..(Width - 1), y : 0..(Height - 1),
                 dx : 0..(Width - 1), dy : 0..(Height - 1),
                 w : 1..Width, h : 1..Height] : InSrc(j) /\ InDst(j)}

\* DrawMode: COMPLEMENT, and JAM2 as against JAM1.
DrawModes == [complement : BOOLEAN, jam2 : BOOLEAN]

Plain == [complement |-> FALSE, jam2 |-> FALSE]

Call(op, src, dst, bpp, opcode, mode, r) ==
    /\ op \in Ops
    /\ job' = [op |-> op, src |-> src, dst |-> dst, bpp |-> bpp, opcode |-> opcode, mode |-> mode,
               x |-> r.x, y |-> r.y, dx |-> r.dx, dy |-> r.dy, w |-> r.w, h |-> r.h]
    /\ UNCHANGED <<mem, line, signalled, overlapped>>

\* Rows from the bottom up if the destination lies below the source.
BlitRectRows(r) == IF r.dy > r.y THEN RowsUp(r.h) ELSE RowsDown(r.h)

chip_BlitRect ==
    /\ Idle
    /\ \E ri \in Bitmaps, bpp \in Depths, r \in Rects :
          /\ Call("BlitRect", ri, ri, bpp, 12, Plain, r)
          /\ rows' = BlitRectRows(r)

Opcodes == {0, 3, 5, 6, 12, 15, 80, 96, 192, 240}

\* Mutant: only the high nibble is decoded.
RopHigh(opcode) == opcode \div 16

\* A full minterm byte has its operation in the high nibble.
Rop(opcode) == IF opcode > 15 THEN opcode \div 16 ELSE opcode

\* Neither clear, set, inversion nor exclusive-or: SrcCopy, or an operation the
\* callback does not know and does as a copy.
CopiesRows(opcode) == Rop(opcode) \notin {0, 5, 6, 15}

Backwards(j) == j.src = j.dst /\ (j.dy > j.y \/ (j.dy = j.y /\ j.dx > j.x))

chip_BlitRectNoMaskComplete ==
    /\ Idle
    /\ \E src, dst \in Bitmaps, bpp \in Depths, r \in Rects, opcode \in Opcodes :
          /\ Call("NoMaskComplete", src, dst, bpp, opcode, Plain, r)
          /\ rows' = IF CopiesRows(opcode) /\ Backwards([src |-> src, dst |-> dst, x |-> r.x,
                                                       y |-> r.y, dx |-> r.dx, dy |-> r.dy])
                     THEN RowsUp(r.h) ELSE RowsDown(r.h)

\* Fills, inversions and expansions only have a destination.
Area(op, mode) ==
    /\ Idle
    /\ \E ri \in Bitmaps, bpp \in Depths, r \in Rects :
          /\ r.x = r.dx /\ r.y = r.dy
          /\ Call(op, ri, ri, bpp, 0, mode, r)
          /\ rows' = RowsDown(r.h)

chip_FillRect == Area("FillRect", Plain)

chip_InvertRect == Area("InvertRect", Plain)

\* BlitTemplate and BlitPattern.
chip_Expand == \E mode \in DrawModes : Area("Expand", mode)

S(row) == Start(job.src, job.bpp, job.x, job.y) + row * Stride[job.src, job.bpp]
D(row) == Start(job.dst, job.bpp, job.dx, job.dy) + row * Stride[job.dst, job.bpp]
RowBytes == job.w * job.bpp

\* What one row of a call may make of memory.
CopyRow(row) ==
    IF job.op = "BlitRect"
    THEN IF job.dy < job.y THEN chip_row_copy(mem, S(row), D(row), RowBytes)
                           ELSE {MoveRow(mem, S(row), D(row), RowBytes)}
    ELSE IF Backwards(job) THEN {MoveRow(mem, S(row), D(row), RowBytes)}
                           ELSE chip_row_copy(mem, S(row), D(row), RowBytes)

RopRow(row) ==
    CASE Rop(job.opcode) = 0  -> {chip_lfill(mem, D(row), RowBytes, {})}
      [] Rop(job.opcode) = 15 -> {chip_lfill(mem, D(row), RowBytes, Ones)}
      [] Rop(job.opcode) = 5  -> {XorWithConst(mem, D(row), RowBytes)}
      [] Rop(job.opcode) = 6  -> {XorWithSrc(mem, S(row), D(row), RowBytes)}
      [] OTHER                -> CopyRow(row)

\* At one byte per pixel the row is filled by longwords, at the others pixel
\* by pixel.
FillRow(row) ==
    IF job.bpp = 1 THEN chip_lfill(mem, D(row), RowBytes, Fg)
    ELSE [a \in Cells |-> IF a \in D(row)..(D(row) + RowBytes - 1) THEN Fg ELSE mem[a]]

\* The bytes of some columns of a row.
Pixels(row, cols) ==
    UNION {(D(row) + col * job.bpp)..(D(row) + (col + 1) * job.bpp - 1) : col \in cols}

\* The bits of a row of the template or the pattern are the columns "set".
Expanded(row, set) ==
    [a \in Cells |->
        IF a \in Pixels(row, set)
        THEN IF job.mode.complement THEN Xor(mem[a], Ones) ELSE Fg
        ELSE IF job.mode.jam2 /\ ~job.mode.complement /\ a \in Pixels(row, 0..(job.w - 1))
             THEN Bg ELSE mem[a]]

ExpandRow(row) == {Expanded(row, set) : set \in SUBSET (0..(job.w - 1))}

RowResults(row) ==
    CASE job.op \in Copies       -> RopRow(row)
      [] job.op = "FillRect"   -> {FillRow(row)}
      [] job.op = "InvertRect" -> {XorWithConst(mem, D(row), RowBytes)}
      [] job.op = "Expand"     -> ExpandRow(row)

UsesCopyMem ==
    /\ job.op \in Copies
    /\ CopiesRows(job.opcode)
    /\ IF job.op = "BlitRect" THEN job.dy < job.y ELSE ~Backwards(job)

Row ==
    /\ ~Idle
    /\ rows # <<>>
    /\ mem' \in RowResults(Head(rows))
    /\ rows' = Tail(rows)
    /\ overlapped' = (overlapped \/ (UsesCopyMem /\ Overlap(S(Head(rows)), D(Head(rows)), RowBytes)))
    /\ UNCHANGED <<job, line, signalled>>
-----------------------------------------------------------------------------
(* chip_DrawLine.  rtg.library fills in the deltas and the first error.    *)

Abs(n) == IF n < 0 THEN -n ELSE n
Larger(a, b) == IF a < b THEN b ELSE a
Smaller(a, b) == IF a < b THEN a ELSE b

chip_DrawLine ==
    /\ Idle
    /\ "DrawLine" \in Ops
    /\ \E ri \in Bitmaps, bpp \in Depths, mode \in DrawModes,
          x, ex \in 0..(Width - 1), y, ey \in 0..(Height - 1) :
          LET adx == Abs(ex - x)
              ady == Abs(ey - y)
              ld == Larger(adx, ady)
              sd == Smaller(adx, ady)
          IN /\ job' = [op |-> "DrawLine", src |-> ri, dst |-> ri, bpp |-> bpp, opcode |-> 0,
                        mode |-> mode, x |-> x, y |-> y, dx |-> x, dy |-> y, w |-> 1, h |-> 1]
             /\ line' = [px |-> x, py |-> y, sx |-> IF ex >= x THEN 1 ELSE -1,
                         sy |-> IF ey >= y THEN 1 ELSE -1, sd |-> sd, ld |-> ld,
                         err |-> 2 * sd - ld, horizontal |-> adx >= ady,
                         left |-> ld + 1, box |-> <<x, y, x, y>>, drawn |-> {}]
    /\ rows' = <<>>
    /\ UNCHANGED <<mem, signalled, overlapped>>

Grown(box, px, py) ==
    <<Smaller(box[1], px), Smaller(box[2], py), Larger(box[3], px), Larger(box[4], py)>>

\* Mutant: the error is compared with the short difference.
StepsAsideLate(l) == l.err > l.sd

StepsAside(l) == l.err > 0

\* One pixel of the loop: the pen or the complement; in a gap of the line
\* pattern the background pen in JAM2, COMPLEMENT or not, else nothing.
LinePixel ==
    /\ job.op = "DrawLine"
    /\ line.left > 0
    /\ LET first == Start(job.dst, job.bpp, line.px, line.py)
           cells == first..(first + job.bpp - 1)
           aside == StepsAside(line)
           nx == line.px + (IF line.horizontal \/ aside THEN line.sx ELSE 0)
           ny == line.py + (IF ~line.horizontal \/ aside THEN line.sy ELSE 0)
       IN /\ \/ mem' = [a \in Cells |-> IF a \notin cells THEN mem[a]
                                       ELSE IF job.mode.complement THEN Xor(mem[a], Ones) ELSE Fg]
             \/ mem' = [a \in Cells |-> IF a \in cells /\ job.mode.jam2 THEN Bg ELSE mem[a]]
          /\ line' = [line EXCEPT !.px = nx, !.py = ny, !.left = @ - 1,
                          !.err = @ + 2 * line.sd - (IF aside THEN 2 * line.ld ELSE 0),
                          !.drawn = @ \cup {<<line.px, line.py>>},
                          !.box = Grown(@, nx, ny)]
    /\ UNCHANGED <<job, rows, signalled, overlapped>>
-----------------------------------------------------------------------------
\* Mutant: the rectangle is clipped as if it began at the origin.
ClipsAwayCorner(x, y, w, h) == w > ActiveW \/ h > ActiveH

\* chip_flush drops a rectangle that misses what is displayed.
ClipsAway(x, y, w, h) == x >= ActiveW \/ y >= ActiveH \/ x + w <= 0 \/ y + h <= 0

\* Copies wake the flush task whatever they copied.
Finished ==
    \/ job.op \in Copies
    \/ /\ job.op \in {"FillRect", "InvertRect", "Expand"}
       /\ ~ClipsAway(job.x, job.y, job.w, job.h)
    \/ /\ job.op = "DrawLine"
       /\ ~ClipsAway(line.box[1], line.box[2], line.box[3] - line.box[1] + 1,
                     line.box[4] - line.box[2] + 1)

Flush ==
    /\ ~Idle
    /\ rows = <<>>
    /\ line.left = 0
    /\ ~signalled
    /\ Finished
    /\ signalled' = TRUE
    /\ UNCHANGED <<job, mem, rows, line, overlapped>>

NoJob == [op |-> "none", src |-> Screen, dst |-> Screen, bpp |-> 1, opcode |-> 0,
          mode |-> Plain, x |-> 0, y |-> 0, dx |-> 0, dy |-> 0, w |-> 0, h |-> 0]

NoLine == [px |-> 0, py |-> 0, sx |-> 1, sy |-> 1, sd |-> 0, ld |-> 0, err |-> 0,
           horizontal |-> TRUE, left |-> 0, box |-> <<0, 0, 0, 0>>, drawn |-> {}]

Init ==
    /\ job = NoJob
    /\ mem = [a \in Cells |-> {a}]
    /\ rows = <<>>
    /\ line = NoLine
    /\ signalled = FALSE
    /\ overlapped = FALSE

Next ==
    \/ chip_BlitRect \/ chip_BlitRectNoMaskComplete \/ chip_FillRect
    \/ chip_InvertRect \/ chip_Expand \/ chip_DrawLine
    \/ Row \/ LinePixel \/ Flush

Spec == Init /\ [][Next]_vars
-----------------------------------------------------------------------------
(* Properties.                                                             *)

\* The state is well-typed; rows outstanding are rows of the job.
TypeOK ==
    /\ mem \in [Cells -> SUBSET (Cells \cup Ones \cup Fg \cup Bg)]
    /\ \A i \in 1..Len(rows) : rows[i] \in 0..(job.h - 1)
    /\ Cardinality(Range(rows)) = Len(rows)
    /\ line.left \in Nat
    /\ job.op # "DrawLine" => line = NoLine
    /\ signalled \in BOOLEAN /\ overlapped \in BOOLEAN

Done == ~Idle /\ rows = <<>> /\ line.left = 0

DstCells == UNION {D(row)..(D(row) + RowBytes - 1) : row \in 0..(job.h - 1)}
SrcCells == UNION {S(row)..(S(row) + RowBytes - 1) : row \in 0..(job.h - 1)}

\* What an opcode, the operation itself or a minterm byte with it in the high
\* nibble, asks to be made of the bytes s and d of source and target.
Combined(opcode, s, d) ==
    CASE opcode = 0         -> {}
      [] opcode \in {15, 240} -> Ones
      [] opcode \in {5, 80}   -> Xor({d}, Ones)
      [] opcode \in {6, 96}   -> Xor({s}, {d})
      [] OTHER              -> {s}

\* A finished BlitRect or BlitRectNoMaskComplete has left in every byte of
\* the target what the operation makes of the bytes that were there when it
\* was called: moving rows and bytes one at a time never reads a byte already
\* overwritten, whichever way source and target overlap.  Left out are the
\* copies CopyMem is given ranges for that overlap, and the exclusive-or of
\* a bitmap with itself where they overlap, which nothing orders.
CopiesExact ==
    (Done /\ job.op \in Copies /\ ~overlapped
        /\ (job.opcode \in {6, 96} => SrcCells \cap DstCells = {})) =>
    \A row \in 0..(job.h - 1), k \in 0..(RowBytes - 1) :
        mem[D(row) + k] = Combined(job.opcode, S(row) + k, D(row) + k)

\* A call changes bytes of the rectangle, or of pixels of the line, only: the
\* longword loops do not run into the neighbours, the rest of the row or the
\* next bitmap.
InsideOnly ==
    TypeOK /\ \A a \in Cells :
        mem[a] # {a} =>
        IF job.op = "DrawLine"
        THEN \E p \in line.drawn :
                a \in Start(job.dst, job.bpp, p[1], p[2])..
                     (Start(job.dst, job.bpp, p[1], p[2]) + job.bpp - 1)
        ELSE a \in DstCells

\* The error term keeps every pixel of a line within half a pixel of the
\* ideal one and inside the bitmap, and draws as many of them as the longer
\* delta asks for.
LineFollows ==
    job.op = "DrawLine" =>
    /\ \A p \in line.drawn :
          LET along == IF line.horizontal THEN Abs(p[1] - job.x) ELSE Abs(p[2] - job.y)
              aside == IF line.horizontal THEN Abs(p[2] - job.y) ELSE Abs(p[1] - job.x)
          IN /\ p \in (0..(Width - 1)) \X (0..(Height - 1))
             /\ Abs(2 * line.ld * aside - 2 * line.sd * along) <= line.ld
    /\ line.left = 0 => Cardinality(line.drawn) = line.ld + 1

\* Where SetPanning may have put the origin of the display on the screen's
\* bitmap, as the conversion bounds it, and the bytes displayed from there.
Pans == (0..(Width - ActiveW)) \X (0..(Height - ActiveH))

Shown(pan) == {Start(Screen, job.bpp, pan[1] + x, pan[2] + y) + k :
                  x \in 0..(ActiveW - 1), y \in 0..(ActiveH - 1), k \in 0..(job.bpp - 1)}

Unseen(pan) ==
    /\ Done /\ ~signalled /\ ~ENABLED Flush
    /\ \E a \in Shown(pan) : mem[a] # {a}

\* A call that has changed a displayed byte of the screen wakes the flush
\* task: clipping never takes away a rectangle that shows.  Copies do so
\* wherever the screen is panned to; the others are clipped as if it were not
\* panned, and for them this is claimed of a screen at its origin only.
Signalled ==
    \A pan \in Pans : Unseen(pan) => pan # <<0, 0>> /\ job.op \notin Copies

\* Only a rectangle that "lay entirely off-screen" is skipped, wherever the
\* screen is panned to.
SignalledPanned == \A pan \in Pans : ~Unseen(pan)

\* "Caller guarantees no per-row overlap" (chip_blit.c:62): CopyMem is never
\* given ranges that overlap.
CallerGuarantee == ~overlapped
=============================================================================
