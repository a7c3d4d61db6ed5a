----------------------------- MODULE VirtQueue -----------------------------
(***************************************************************************)
(* The split virtqueue of src/virtio/virtqueue.c, shared by the control    *)
(* queue and the cursor queue: VirtQueue_AddBuf and VirtQueue_GetBuf at    *)
(* the grain of one descriptor write, interleaved with a device that reads *)
(* and completes requests while the driver is inside either function.      *)
(*                                                                         *)
(* The driver side is sequential: every caller holds io_lock (queue 0) or  *)
(* cursor_lock (queue 1).  Fields of the shared rings are kept as they lie *)
(* in memory, in the byte order the code stores them in: links of the free *)
(* list are native, everything the device reads goes through vr16 / vr32.  *)
(***************************************************************************)
EXTENDS Integers, Sequences, FiniteSets

CONSTANTS
    N,            \* vq->num, the number of descriptors
    IdxMod,       \* the range of the free-running ring indices (65536)
    Modern,       \* vq->modern: ring fields are little-endian
    UseIndirect,  \* vq->use_indirect
    UseEventIdx,  \* vq->use_event_idx
    Cookies,      \* the cookies callers pass
    Shapes,       \* the <<out_num, in_num>> pairs callers pass
    MaxBogus,     \* bound: used-ring entries with an id past the table
    NoCookie      \* NULL

ASSUME RingAssumption ==
    /\ N \in Nat \ {0} /\ N <= 32768
    /\ IdxMod \in Nat \ {0} /\ 2*N <= IdxMod /\ IdxMod <= 65536
    /\ IdxMod % N = 0
    /\ Shapes \subseteq Nat \X Nat
    /\ \A s \in Shapes : s[1] + s[2] > 0
    /\ MaxBogus \in Nat
    /\ NoCookie \notin Cookies

ASSUME ModeAssumption ==
    /\ Modern \in BOOLEAN
    /\ UseIndirect \in BOOLEAN
    /\ UseEventIdx \in BOOLEAN

VARIABLES
    desc,          \* the descriptor table
    avail,         \* the available ring: idx, ring and used_event
    used,          \* the used ring: idx and ring
    free_head, num_free, last_used_idx, cookies, indirect_tables,
    pc,            \* where the driver is
    add,           \* locals of VirtQueue_AddBuf
    get,           \* locals of VirtQueue_GetBuf
    dev,           \* the device: how far it read, what it holds
    irq,           \* an interrupt is raised and not yet delivered
    drained,       \* the last GetBuf found the used ring empty
    freeStack,     \* history: the free list, bottom to top
    chain,         \* history: the descriptors of each request, by head
    req            \* history: the request submitted under each head

driverVars == <<free_head, num_free, last_used_idx, cookies, indirect_tables>>
historyVars == <<freeStack, chain, req>>
vars == <<desc, avail, used, driverVars, pc, add, get, dev, irq, drained,
          historyVars>>
-----------------------------------------------------------------------------
D == 0..N-1
Idx == 0..IdxMod-1
Word16 == {v \in Nat : v < 65536}

NoTable == <<>>
NoReq == [cookie |-> NoCookie, out |-> 0, total |-> 0]
Requests == {[cookie |-> c, out |-> s[1], total |-> s[1] + s[2]] :
                c \in Cookies, s \in Shapes}

bswap16(v) == (v % 256) * 256 + v \div 256
bswap32(v) == bswap16(v % 65536) * 65536 + bswap16(v \div 65536)

vr16(v) == IF Modern THEN bswap16(v) ELSE v
vr32(v) == IF Modern THEN bswap32(v) ELSE v

\* The scatter-gather list of a request: entry n of the caller's sg[], with
\* the direction the n-th descriptor must have.
SgList(r) == [n \in 1..r.total |-> [addr |-> <<r.cookie, n>>,
                                    write |-> n > r.out]]

Top(s) == s[Len(s)]
Pop(s) == SubSeq(s, 1, Len(s) - 1)

\* The ring slot of a free-running index.
Slot(i) == i % N
Succ(i) == (i + 1) % IdxMod

NoAdd == [head |-> 0, idx |-> 0, n |-> 0, taken |-> 0, r |-> NoReq,
          table |-> NoTable]
NoGet == [head |-> 0, idx |-> 0, freed |-> 0, cookie |-> NoCookie]
NoWalk == [head |-> N, cur |-> 0, read |-> <<>>]

\* What the next field of a published chain holds.
Link(i) == vr16(i)

\* Mutant: the first device-writable buffer is marked read-only.
IsWriteLate(n, r) == n > r.out

\* Descriptor n, from 0, of a request is written by the device.
IsWrite(n, r) == n >= r.out

\* Mutant: the free list gets a device-order link.
FreedSwapped(head) == [addr |-> <<>>, write |-> FALSE, flag |-> "none",
                       next |-> vr16(head)]

\* A descriptor pushed on the free list in front of head.
Freed(head) == [addr |-> <<>>, write |-> FALSE, flag |-> "none", next |-> head]

\* free_head after an iteration of the chain loop.
FreeHeadAfter(last, next_idx) == IF last THEN next_idx ELSE free_head

\* The link saved before the indirect descriptor overwrites it.
NextFree(head) == desc[head].next
-----------------------------------------------------------------------------
(* VirtQueue_Allocate: every descriptor on the free list, in table order.  *)
Init ==
    /\ desc = [d \in D |-> [addr |-> <<>>, write |-> FALSE, flag |-> "none",
                            next |-> IF d = N - 1 THEN 0 ELSE d + 1]]
    /\ avail = [idx |-> 0, ring |-> [s \in D |-> 0], event |-> 0]
    /\ used = [idx |-> 0, ring |-> [s \in D |-> 0]]
    /\ free_head = 0
    /\ num_free = N
    /\ last_used_idx = 0
    /\ cookies = [d \in D |-> NoCookie]
    /\ indirect_tables = [d \in D |-> NoTable]
    /\ pc = "idle"
    /\ add = NoAdd
    /\ get = NoGet
    /\ dev = [seen |-> 0, walk |-> NoWalk, held |-> {}, read |-> [d \in D |-> <<>>],
              bogus |-> 0]
    /\ irq = FALSE
    /\ drained = TRUE
    /\ freeStack = [k \in 1..N |-> N - k]
    /\ chain = [d \in D |-> <<>>]
    /\ req = [d \in D |-> NoReq]
-----------------------------------------------------------------------------
(* VirtQueue_AddBuf.  A call that finds too few free descriptors returns   *)
(* -1 and changes nothing, so it is not a step.                            *)

\* The checks at the top, for the direct chain: total descriptors are free.
\* With indirect descriptors negotiated this is the fallback taken when the
\* table cannot be allocated or mapped.
AddBufDirect(r) ==
    /\ pc = "idle"
    /\ num_free >= r.total
    /\ add' = [head |-> free_head, idx |-> free_head, n |-> 0, taken |-> r.total,
               r |-> r, table |-> NoTable]
    /\ req' = [req EXCEPT ![free_head] = r]
    /\ pc' = "addLoop"
    /\ UNCHANGED <<desc, avail, used, driverVars, get, dev, irq, drained,
                   freeStack, chain>>

\* One iteration of the chain loop: fill descriptor idx, link it to its
\* successor on the free list or, on the last one, move free_head past it.
AddBufLoop ==
    LET idx == add.idx
        next_idx == desc[idx].next
        last == add.n = add.r.total - 1
    IN /\ pc = "addLoop"
       /\ desc' = [desc EXCEPT ![idx] =
             [addr |-> <<add.r.cookie, add.n + 1>>,
              write |-> IsWrite(add.n, add.r),
              flag |-> IF last THEN "none" ELSE "next",
              next |-> IF last THEN next_idx ELSE Link(next_idx)]]
       /\ free_head' = FreeHeadAfter(last, next_idx)
       /\ add' = [add EXCEPT !.n = @ + 1, !.idx = IF last THEN idx ELSE next_idx]
       /\ pc' = IF last THEN "addRing" ELSE "addLoop"
       /\ freeStack' = Pop(freeStack)
       /\ chain' = [chain EXCEPT ![add.head] = Append(@, idx)]
       /\ UNCHANGED <<avail, used, num_free, last_used_idx, cookies,
                      indirect_tables, get, dev, irq, drained, req>>

\* The indirect path: one descriptor pointing at a table of total entries.
AddBufIndirect(r) ==
    LET head == free_head IN
    /\ pc = "idle"
    /\ UseIndirect
    /\ r.total > 1
    /\ num_free >= 1
    /\ desc' = [desc EXCEPT ![head] = [addr |-> <<"table", head>>, write |-> FALSE,
                                       flag |-> "indirect", next |-> 0]]
    /\ free_head' = NextFree(head)
    /\ add' = [head |-> head, idx |-> head, n |-> 1, taken |-> 1, r |-> r,
               table |-> SgList(r)]
    /\ pc' = "addRing"
    /\ freeStack' = Pop(freeStack)
    /\ chain' = [chain EXCEPT ![head] = <<head>>]
    /\ req' = [req EXCEPT ![head] = r]
    /\ UNCHANGED <<avail, used, num_free, last_used_idx, cookies, indirect_tables,
                   get, dev, irq, drained>>

\* Mutant: the slot after the one the device will look at.
AvailSlotLate == Slot(vr16(avail.idx) + 1)

AvailSlot == Slot(vr16(avail.idx))

\* After the chain: the driver's own bookkeeping and the slot of the ring,
\* none of which the device looks at yet.
AddBufRing ==
    /\ pc = "addRing"
    /\ num_free' = num_free - add.taken
    /\ cookies' = [cookies EXCEPT ![add.head] = add.r.cookie]
    /\ indirect_tables' = [indirect_tables EXCEPT ![add.head] = add.table]
    /\ avail' = [avail EXCEPT !.ring[AvailSlot] = vr16(add.head)]
    /\ pc' = "addIdx"
    /\ UNCHANGED <<desc, used, free_head, last_used_idx, add, get, dev, irq, drained,
                   historyVars>>

\* After the eieio: publish the new index.
AddBufIdx ==
    /\ pc = "addIdx"
    /\ avail' = [avail EXCEPT !.idx = vr16(Succ(vr16(@)))]
    /\ add' = NoAdd
    /\ pc' = "idle"
    /\ UNCHANGED <<desc, used, driverVars, get, dev, irq, drained, historyVars>>
-----------------------------------------------------------------------------
(* VirtQueue_GetBuf.                                                       *)

\* Nothing new in the used ring: NULL.
GetBufEmpty ==
    /\ pc = "idle"
    /\ last_used_idx = vr16(used.idx)
    /\ drained' = TRUE
    /\ UNCHANGED <<desc, avail, used, driverVars, pc, add, get, dev, irq, historyVars>>

\* Mutant: the entry is never passed.
SkipBogusNot == last_used_idx

SkipBogus == Succ(last_used_idx)

\* An id past the table: the entry is skipped, NULL is returned.
GetBufBogus ==
    /\ pc = "idle"
    /\ last_used_idx # vr16(used.idx)
    /\ vr32(used.ring[Slot(last_used_idx)]) >= N
    /\ last_used_idx' = SkipBogus
    /\ drained' = FALSE
    /\ UNCHANGED <<desc, avail, used, free_head, num_free, cookies, indirect_tables,
                   pc, add, get, dev, irq, historyVars>>

CookieOf(id) == cookies[id]

TablesWithout(id) == [indirect_tables EXCEPT ![id] = NoTable]

\* Descriptors freed before the loop over a direct chain.
FreedFrom(indirect) == IF indirect THEN 1 ELSE 0

\* Take the cookie of the completed request; a request with an indirect
\* table has its one descriptor and its table freed at once.
GetBufTake ==
    LET id == vr32(used.ring[Slot(last_used_idx)])
        indirect == indirect_tables[id] # NoTable
    IN /\ pc = "idle"
       /\ last_used_idx # vr16(used.idx)
       /\ id < N
       /\ cookies' = [cookies EXCEPT ![id] = NoCookie]
       /\ indirect_tables' = TablesWithout(id)
       /\ get' = [head |-> id, idx |-> id, freed |-> FreedFrom(indirect),
                  cookie |-> CookieOf(id)]
       /\ drained' = FALSE
       /\ IF indirect
          THEN /\ desc' = [desc EXCEPT ![id] = Freed(free_head)]
               /\ free_head' = id
               /\ pc' = "getDone"
               /\ freeStack' = Append(freeStack, id)
               /\ chain' = [chain EXCEPT ![id] = Tail(@)]
          ELSE /\ pc' = "getLoop"
               /\ UNCHANGED <<desc, free_head, freeStack, chain>>
       /\ UNCHANGED <<avail, used, num_free, last_used_idx, add, dev, irq, req>>

\* One iteration of the free loop: push descriptor idx on the free list.
GetBufLoop ==
    LET idx == get.idx
        has_next == desc[idx].flag = "next"
    IN /\ pc = "getLoop"
       /\ desc' = [desc EXCEPT ![idx] = Freed(free_head)]
       /\ free_head' = idx
       /\ get' = [get EXCEPT !.freed = @ + 1,
                             !.idx = IF has_next THEN vr16(desc[idx].next) ELSE idx]
       /\ pc' = IF has_next THEN "getLoop" ELSE "getDone"
       /\ freeStack' = Append(freeStack, idx)
       /\ chain' = [chain EXCEPT ![get.head] = Tail(@)]
       /\ UNCHANGED <<avail, used, num_free, last_used_idx, cookies,
                      indirect_tables, add, dev, irq, drained, req>>

\* Mutant: used_event is one behind.
UsedEventBehind == last_used_idx

\* The used_event the device compares its index with.
UsedEvent == Succ(last_used_idx)

GetBufDone ==
    /\ pc = "getDone"
    /\ num_free' = num_free + get.freed
    /\ last_used_idx' = Succ(last_used_idx)
    /\ avail' = IF UseEventIdx
                THEN [avail EXCEPT !.event = vr16(UsedEvent)]
                ELSE avail
    /\ get' = NoGet
    /\ pc' = "idle"
    /\ req' = [req EXCEPT ![get.head] = NoReq]
    /\ UNCHANGED <<desc, used, free_head, cookies, indirect_tables, add, dev, irq,
                   drained, freeStack, chain>>
-----------------------------------------------------------------------------
(* The device (external: VirtIO 1.x, section 2.7).  It reads the ring and  *)
(* the descriptors one at a time, finishes requests in any order, and      *)
(* raises an interrupt unless used_event tells it not to.                  *)

DevIdle == dev.walk = NoWalk

DevFetch ==
    /\ DevIdle
    /\ dev.seen # vr16(avail.idx)
    /\ LET head == vr16(avail.ring[Slot(dev.seen)])
       IN dev' = [dev EXCEPT !.seen = Succ(@),
                             !.walk = [head |-> head, cur |-> head, read |-> <<>>]]
    /\ UNCHANGED <<desc, avail, used, driverVars, pc, add, get, irq, drained,
                   historyVars>>

DevWalk ==
    LET w == dev.walk
        d == desc[w.cur]
        entry == [addr |-> d.addr, write |-> d.write]
        read == IF d.flag = "indirect" THEN indirect_tables[w.cur]
                ELSE Append(w.read, entry)
    IN /\ ~DevIdle
       /\ dev' = IF d.flag = "next"
                 THEN [dev EXCEPT !.walk.cur = vr16(d.next), !.walk.read = read]
                 ELSE [dev EXCEPT !.walk = NoWalk,
                                  !.held = @ \cup {w.head},
                                  !.read[w.head] = read]
       /\ UNCHANGED <<desc, avail, used, driverVars, pc, add, get, irq, drained,
                      historyVars>>

\* An entry goes into the used ring; the index and the interrupt follow.  The
\* device never writes over an entry the driver has not consumed.
PutUsed(id) ==
    LET i == vr16(used.idx) IN
    /\ (i - last_used_idx) % IdxMod < N
    /\ used' = [idx |-> vr16(Succ(i)),
                ring |-> [used.ring EXCEPT ![Slot(i)] = vr32(id)]]
    /\ irq' = (irq \/ ~UseEventIdx \/ vr16(avail.event) = i)

DevComplete(head) ==
    /\ head \in dev.held
    /\ PutUsed(head)
    /\ dev' = [dev EXCEPT !.held = @ \ {head}, !.read[head] = <<>>]
    /\ UNCHANGED <<desc, avail, driverVars, pc, add, get, drained, historyVars>>

\* What the sanity check of GetBuf is for: an entry no request owns.
DevBogus ==
    /\ dev.bogus < MaxBogus
    /\ PutUsed(N)
    /\ dev' = [dev EXCEPT !.bogus = @ + 1]
    /\ UNCHANGED <<desc, avail, driverVars, pc, add, get, drained, historyVars>>

\* The interrupt reaches the driver, which will call GetBuf again.
IrqDeliver ==
    /\ irq
    /\ irq' = FALSE
    /\ drained' = FALSE
    /\ UNCHANGED <<desc, avail, used, driverVars, pc, add, get, dev, historyVars>>
-----------------------------------------------------------------------------
GetBuf == GetBufEmpty \/ GetBufBogus \/ GetBufTake \/ GetBufLoop \/ GetBufDone
AddBufSteps == AddBufLoop \/ AddBufRing \/ AddBufIdx
Device == DevFetch \/ DevWalk \/ \E h \in D : DevComplete(h)

Next ==
    \/ \E r \in Requests : AddBufDirect(r) \/ AddBufIndirect(r)
    \/ AddBufSteps
    \/ GetBuf
    \/ Device
    \/ DevBogus
    \/ IrqDeliver

Spec == Init /\ [][Next]_vars

\* The device works on what it was given and the driver, woken by interrupts
\* or polling, keeps calling GetBuf; neither stops half-way.
FairSpec ==
    /\ Spec
    /\ WF_vars(AddBufSteps)
    /\ WF_vars(DevFetch \/ DevWalk)
    /\ \A h \in D : SF_vars(DevComplete(h))
    /\ SF_vars(GetBufBogus \/ GetBufTake)
    /\ WF_vars(GetBufLoop \/ GetBufDone)
-----------------------------------------------------------------------------
(* Properties.                                                             *)

TypeOK ==
    /\ \A d \in D : /\ desc[d].write \in BOOLEAN
                    /\ desc[d].flag \in {"none", "next", "indirect"}
                    /\ desc[d].next \in Word16
    /\ avail.idx \in {vr16(i) : i \in Idx}
    /\ avail.event \in {vr16(i) : i \in Idx}
    /\ used.idx \in {vr16(i) : i \in Idx}
    /\ free_head \in D
    /\ num_free \in 0..N
    /\ last_used_idx \in Idx
    /\ cookies \in [D -> Cookies \cup {NoCookie}]
    /\ pc \in {"idle", "addLoop", "addRing", "addIdx", "getLoop", "getDone"}
    /\ freeStack \in Seq(D)
    /\ chain \in [D -> Seq(D)]

\* The head whose chain the driver is building or taking apart.
Busy == CASE pc \in {"addLoop", "addRing", "addIdx"} -> {add.head}
          [] pc \in {"getLoop", "getDone"} -> {get.head}
          [] OTHER -> {}

\* Heads the device may own: published and not yet taken back by GetBuf.
Published == {h \in D : chain[h] # <<>>} \ Busy

\* Every descriptor is on the free list or in exactly one request's chain, at
\* every point of AddBuf and GetBuf: none is lost and none is shared, however
\* calls and completions interleave.
Conservation ==
    /\ \A i, j \in 1..Len(freeStack) : freeStack[i] = freeStack[j] => i = j
    /\ \A h, k \in D : \A i \in 1..Len(chain[h]), j \in 1..Len(chain[k]) :
          chain[h][i] = chain[k][j] => h = k /\ i = j
    /\ \A d \in D :
          (\E i \in 1..Len(freeStack) : freeStack[i] = d)
             <=> ~(\E h \in D : \E i \in 1..Len(chain[h]) : chain[h][i] = d)

\* The list threaded through desc[].next from free_head is the free list, in
\* native byte order, and num_free counts it whenever no call is in progress:
\* the byte-swapped links of a chain never leak into it.
FreeListIntact ==
    /\ \A k \in 2..Len(freeStack) : desc[freeStack[k]].next = freeStack[k-1]
    /\ pc = "idle" => num_free = Len(freeStack)
    /\ pc # "addLoop" /\ freeStack # <<>> => free_head = Top(freeStack)

\* What the device reads from a published head, at any moment it may choose
\* to read it, is the request the caller passed to AddBuf: complete, in
\* order, with the right directions, and terminated.
PublishedChainsReadable ==
    \A h \in Published :
        LET c == chain[h]
            r == req[h]
        IN /\ c[1] = h
           /\ IF desc[h].flag = "indirect"
              THEN Len(c) = 1 /\ indirect_tables[h] = SgList(r)
              ELSE /\ Len(c) = r.total
                   /\ \A i \in 1..Len(c) :
                        /\ desc[c[i]].addr = SgList(r)[i].addr
                        /\ desc[c[i]].write = SgList(r)[i].write
                        /\ desc[c[i]].flag = IF i < Len(c) THEN "next" ELSE "none"
                        /\ i < Len(c) => desc[c[i]].next = vr16(c[i+1])

\* A request the device has read is exactly the one that was submitted.
DeviceReadsRequest ==
    \A h \in dev.held : dev.read[h] = SgList(req[h])

\* The entries the device has not fetched are distinct published heads: AddBuf
\* never overwrites an unread slot of the available ring, also when the
\* 16-bit index wraps.
AvailWindow ==
    LET w == (vr16(avail.idx) - dev.seen) % IdxMod
        At(j) == vr16(avail.ring[Slot((dev.seen + j) % IdxMod)])
    IN /\ w <= N
       /\ \A j \in 0..w-1 : At(j) \in Published \ dev.held
       /\ \A j, k \in 0..w-1 : At(j) = At(k) => j = k

\* GetBuf hands back the cookie of the very request the device completed.
CookieReturned ==
    pc \in {"getLoop", "getDone"} => get.cookie = req[get.head].cookie

\* An indirect table exists exactly as long as its request is outstanding: no
\* table is leaked, freed twice or freed while the device may read it.
TablesOutstanding ==
    \A h \in D :
        ~(pc = "addRing" /\ h = add.head) =>
            (indirect_tables[h] # NoTable <=> /\ chain[h] # <<>>
                                              /\ desc[h].flag = "indirect")

\* The rings and the descriptor table stay in order: no descriptor and no
\* table is lost or shared, the list in memory is the list that is meant, and
\* the device finds every request once.
RingIntact ==
    TypeOK /\ Conservation /\ FreeListIntact /\ AvailWindow /\ TablesOutstanding

\* Requests come through unchanged: what the device reads is what AddBuf was
\* given, and what GetBuf returns belongs to what the device completed.
RequestsIntact == PublishedChainsReadable /\ DeviceReadsRequest /\ CookieReturned


\* A driver that saw an empty used ring and was not interrupted since has
\* missed nothing: if entries arrived, an interrupt is on its way.  This is
\* what the used_event written by GetBuf is for.  A bogus entry is passed over
\* without writing used_event, so nothing is promised after one.
NoLostInterrupt ==
    dev.bogus = 0 /\ drained /\ last_used_idx # vr16(used.idx) => irq

\* Every request that was submitted is handed back by GetBuf.
RequestsReturn ==
    \A h \in D : (h \in Published) ~> (h \notin Published)
-----------------------------------------------------------------------------
(* The virtqueue implements RequestQueue.                                  *)

\* The heads in the available ring that the device has not fetched, and the
\* entries of the used ring that GetBuf has not passed.
AvailLen == (vr16(avail.idx) - dev.seen) % IdxMod
AvailAt(j) == vr16(avail.ring[Slot((dev.seen + j) % IdxMod)])
UsedLen == (vr16(used.idx) - last_used_idx) % IdxMod
UsedAt(j) == vr32(used.ring[Slot((last_used_idx + j) % IdxMod)])

\* A request as the caller submitted it, and as the device has read it.
Ticket(h) == [id |-> h, cookie |-> req[h].cookie, list |-> SgList(req[h])]
AsRead(h) == [id |-> h, cookie |-> req[h].cookie, list |-> dev.read[h]]
Tickets == {[id |-> h, cookie |-> r.cookie, list |-> SgList(r)] :
               h \in D, r \in Requests}
Stray == [id |-> N, cookie |-> NoCookie, list |-> <<>>]
Nothing == [id |-> N, cookie |-> NoCookie]

\* GetBuf has taken the entry it is at before it moves last_used_idx past it.
Returning == pc \in {"getLoop", "getDone"}
Passing == IF Returning THEN 1 ELSE 0

Given == [j \in 1..AvailLen |-> Ticket(AvailAt(j - 1))]
Working == {Ticket(h) : h \in {dev.walk.head} \ {N}} \cup {AsRead(h) : h \in dev.held}
Finished(id) == IF id = N THEN Stray ELSE Ticket(id)
Done == [j \in 1..UsedLen - Passing |-> Finished(UsedAt(j - 1 + Passing))]
Returned == IF Returning THEN [id |-> get.head, cookie |-> get.cookie] ELSE Nothing

Abstract == INSTANCE RequestQueue WITH
    given <- Given, working <- Working, done <- Done, returned <- Returned, Limit <- N

\* Every request reaches the device once, in order and unchanged, and comes
\* back once with its own cookie; its descriptors are not given to another
\* request in between: what the rings, the chains and the tables are for.
ImplementsRequestQueue == Abstract!Spec
=============================================================================
