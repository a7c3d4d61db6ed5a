--------------------------- MODULE VirtQueueProofs ---------------------------
(***************************************************************************)
(* Proofs about VirtQueue, for every queue size and range of the ring      *)
(* indices, both byte orders, with and without indirect descriptors and    *)
(* used_event, for every request and any number of bogus entries.          *)
(***************************************************************************)
EXTENDS VirtQueue, FiniteSetTheorems, SequenceTheorems, TLAPS

Adding == {"addLoop", "addRing", "addIdx"}
Getting == {"getLoop", "getDone"}

Addrs == {<<>>} \cup (Cookies \X Nat) \cup ({"table"} \X D)
Descriptors == [addr : Addrs, write : BOOLEAN, flag : {"none", "next", "indirect"},
                next : Word16]
Entries == [addr : Addrs, write : BOOLEAN]
Tables == {NoTable} \cup {SgList(r) : r \in Requests}

DeviceType ==
    dev \in [seen : Idx, walk : [head : 0..N, cur : D, read : Seq(Entries)],
             held : SUBSET D, read : [D -> Seq(Entries)], bogus : Nat]

LocalsType ==
    /\ pc \in Adding \cup Getting \cup {"idle"}
    /\ add \in [head : D, idx : D, n : Nat, taken : Nat, r : Requests \cup {NoReq},
                table : Tables]
    /\ pc \in Adding => add.r \in Requests
    /\ get \in [head : D, idx : D, freed : Nat, cookie : Cookies \cup {NoCookie}]

Types ==
    /\ desc \in [D -> Descriptors]
    /\ avail \in [idx : Word16, ring : [D -> Word16], event : Word16]
    /\ vr16(avail.idx) \in Idx /\ vr16(avail.event) \in Idx
    /\ used \in [idx : Word16, ring : [D -> {vr32(v) : v \in 0..N}]]
    /\ vr16(used.idx) \in Idx
    /\ free_head \in D /\ num_free \in Nat /\ last_used_idx \in Idx
    /\ cookies \in [D -> Cookies \cup {NoCookie}]
    /\ indirect_tables \in [D -> Tables]
    /\ LocalsType /\ DeviceType
    /\ irq \in BOOLEAN /\ drained \in BOOLEAN
    /\ freeStack \in Seq(D) /\ chain \in [D -> Seq(D)]
    /\ req \in [D -> Requests \cup {NoReq}]

\* The free list in memory, with what a call under way still wants of it.
FreeList ==
    /\ \A k \in 1..Len(freeStack) :
          desc[freeStack[k]].next \in D /\ desc[freeStack[k]].flag = "none"
    /\ \A k \in 2..Len(freeStack) : desc[freeStack[k]].next = freeStack[k-1]
    /\ pc # "addLoop" /\ freeStack # <<>> => free_head = Top(freeStack)
    /\ pc = "addLoop" =>
          /\ freeStack # <<>> /\ add.idx = Top(freeStack)
          /\ add.n < add.r.total /\ add.r.total - add.n <= Len(freeStack)

\* The descriptors a call has moved and not yet counted in num_free.
Counted ==
    /\ Len(freeStack) = num_free - (IF pc = "addLoop" THEN add.n
                                    ELSE IF pc = "addRing" THEN add.taken ELSE 0)
                                 + (IF pc \in Getting THEN get.freed ELSE 0)
    /\ num_free <= N

\* A chain AddBuf is still extending, and one GetBuf is taking apart.
Open(h) == pc = "addLoop" /\ h = add.head
Taken(h) == pc \in Getting /\ h = get.head

\* The links of a chain; an open one ends in the descriptor that is next.
Linked(h) ==
    LET c == chain[h]
    IN \A i \in 1..Len(c) :
          /\ desc[c[i]].flag = IF i < Len(c) \/ Open(h) THEN "next" ELSE "none"
          /\ i < Len(c) => desc[c[i]].next = vr16(c[i+1])
          /\ i = Len(c) /\ Open(h) => desc[c[i]].next = vr16(add.idx)

\* Descriptor by descriptor the chain says what the request says.
Filled(h) ==
    \A i \in 1..Len(chain[h]) :
        /\ i <= req[h].total
        /\ desc[chain[h][i]].addr = SgList(req[h])[i].addr
        /\ desc[chain[h][i]].write = SgList(req[h])[i].write

Indirect(h) == chain[h] = <<h>> /\ desc[h].flag = "indirect"

\* A chain under a head, complete or not.
ChainOK(h) ==
    \/ chain[h] = <<>>
    \/ Indirect(h) /\ ~Open(h) /\ ~Taken(h)
    \/ /\ Linked(h)
       /\ ~Taken(h) => /\ chain[h][1] = h /\ Filled(h)
                       /\ ~Open(h) => Len(chain[h]) = req[h].total

Chains == \A h \in D : ChainOK(h)

\* The table a head is meant to have; AddBuf notes it after the chain.
Meant(h) == IF Indirect(h) THEN SgList(req[h]) ELSE NoTable
Unnoted(h) == pc \in {"addLoop", "addRing"} /\ h = add.head

TableOK(h) ==
    /\ indirect_tables[h] = IF Unnoted(h) THEN NoTable ELSE Meant(h)
    /\ Unnoted(h) => add.table = Meant(h)

TablesKept == \A h \in D : TableOK(h)

\* The calls: AddBuf builds the chain of add.head, GetBuf takes one apart.
Calls ==
    /\ pc \in Adding => req[add.head] = add.r
    /\ pc = "addLoop" => /\ Len(chain[add.head]) = add.n
                         /\ add.taken = add.r.total
                         /\ add.n = 0 => add.idx = add.head
    /\ pc \in {"addRing", "addIdx"} => chain[add.head] # <<>>
    /\ pc = "addIdx" => cookies[add.head] = add.r.cookie
    /\ pc \in Getting => get.cookie = req[get.head].cookie
    /\ pc = "getLoop" => chain[get.head] # <<>> /\ get.idx = chain[get.head][1]
    /\ pc = "getDone" => chain[get.head] = <<>>
    /\ \A h \in Published : req[h] \in Requests /\ cookies[h] = req[h].cookie

\* What the device has not fetched.
Unfetched ==
    /\ AvailLen <= N
    /\ \A j \in 0..AvailLen-1 : AvailAt(j) \in Published \ (dev.held \cup {dev.walk.head})
    /\ \A j, k \in 0..AvailLen-1 : AvailAt(j) = AvailAt(k) => j = k
    /\ pc = "addIdx" => vr16(avail.ring[AvailSlot]) = add.head

\* The request the device is reading, as far as it has got.
Reading ==
    dev.walk # NoWalk =>
        LET h == dev.walk.head
            got == dev.walk.read
        IN  /\ h \in Published \ dev.held
            /\ Len(got) < Len(chain[h])
            /\ dev.walk.cur = chain[h][Len(got) + 1]
            /\ \A i \in 1..Len(got) : got[i] = SgList(req[h])[i]

HeldRequests == \A h \in dev.held : h \in Published /\ dev.read[h] = SgList(req[h])

\* What the driver has not passed; the first entry is the one GetBuf is at.
Completed ==
    /\ UsedLen <= N
    /\ pc \in Getting => UsedLen > 0 /\ UsedAt(0) = get.head
    /\ \A j \in 0..UsedLen-1 :
          \/ UsedAt(j) = N /\ dev.bogus > 0
          \/ /\ UsedAt(j) \in Published \/ (pc \in Getting /\ j = 0)
             /\ UsedAt(j) \notin dev.held \cup {dev.walk.head}
             /\ \A k \in 0..AvailLen-1 : UsedAt(j) # AvailAt(k)
    /\ \A j, k \in 0..UsedLen-1 : UsedAt(j) = UsedAt(k) /\ UsedAt(j) # N => j = k

\* used_event is where GetBuf has got to.
Events ==
    /\ pc \in Getting => ~drained
    /\ UseEventIdx /\ dev.bogus = 0 => avail.event = vr16(last_used_idx)
    /\ NoLostInterrupt

IInv ==
    /\ Types /\ Conservation /\ FreeList /\ Counted
    /\ Chains /\ TablesKept /\ Calls
    /\ Unfetched /\ Reading /\ HeldRequests /\ Completed /\ Events
-----------------------------------------------------------------------------
LEMMA Bounds ==
    /\ N \in Nat \ {0} /\ N <= 32768
    /\ IdxMod \in Nat \ {0} /\ N + N <= IdxMod /\ IdxMod <= 65536 /\ IdxMod % N = 0
  BY RingAssumption

LEMMA Sizes ==
    N \in Nat \ {0} /\ IdxMod \in Nat \ {0} /\ N + N <= IdxMod /\ IdxMod % N = 0
  BY Bounds

LEMMA Words ==
    /\ D \subseteq Word16 /\ Idx \subseteq Word16 /\ Word16 \subseteq Nat
    /\ N \in Word16 /\ 0 \in Word16
<1>1. ASSUME NEW d \in D PROVE d \in Word16
  BY Bounds DEF Word16, D
<1>2. ASSUME NEW i \in Idx PROVE i \in Word16
  BY Bounds DEF Word16, Idx
<1>3. Word16 \subseteq Nat /\ 0 \in Word16
  BY DEF Word16
<1>4. N \in Word16
  BY Bounds DEF Word16
<1> QED BY <1>1, <1>2, <1>3, <1>4

LEMMA Swap16 ==
    ASSUME NEW v \in Word16
    PROVE  bswap16(v) \in Word16 /\ bswap16(bswap16(v)) = v
<1>1. PICK a \in 0..255, b \in 0..255 : v = a * 256 + b
  <2>1. v \div 256 \in 0..255 /\ v % 256 \in 0..255
        /\ v = (v \div 256) * 256 + (v % 256)
    BY SMTT(20) DEF Word16
  <2> QED BY <2>1, ZenonT(60)
<1>2. bswap16(a * 256 + b) = b * 256 + a
  BY SMTT(20) DEF bswap16
<1>3. bswap16(b * 256 + a) = a * 256 + b
  BY SMTT(20) DEF bswap16
<1>4. b * 256 + a \in Word16
  BY SMTT(20) DEF Word16
<1> QED BY <1>1, <1>2, <1>3, <1>4

LEMMA Swap32 ==
    ASSUME NEW v \in Word16
    PROVE  bswap32(bswap32(v)) = v
<1>1. v % 65536 = v /\ v \div 65536 = 0
  BY SMTT(20) DEF Word16
<1>2. bswap16(0) = 0
  BY SMTT(20) DEF bswap16
<1>3. PICK w \in Word16 : w = bswap16(v)
  BY Swap16
<1>4. bswap32(v) = w * 65536
  <2>1. w \in Int
    BY Words
  <2> QED BY SMTT(20), <1>1, <1>2, <1>3, <2>1 DEF bswap32
<1>5. (w * 65536) % 65536 = 0 /\ (w * 65536) \div 65536 = w
  BY SMTT(20) DEF Word16
<1>6. bswap16(w) = v
  BY <1>3, Swap16
<1>7. bswap32(w * 65536) = v
  BY SMTT(20), <1>2, <1>5, <1>6, Words DEF bswap32
<1> QED BY <1>4, <1>7

\* The device's byte order is its own inverse.
LEMMA Orders ==
    /\ \A v \in Word16 : vr16(v) \in Word16 /\ vr16(vr16(v)) = v
    /\ \A v \in Word16 : vr32(vr32(v)) = v
    /\ vr16(0) = 0 /\ vr32(0) = 0
<1>1. bswap16(0) = 0
  BY SMTT(20) DEF bswap16
<1>2. bswap32(0) = 0
  <2>1. 0 % 65536 = 0 /\ 0 \div 65536 = 0
    BY SMTT(20)
  <2> QED BY <1>1, <2>1, SMTT(20) DEF bswap32
<1> QED BY <1>1, <1>2, Swap16, Swap32 DEF vr16, vr32

\* Division with remainder, and that it is unique.
LEMMA Euclid ==
    ASSUME NEW m \in Nat \ {0}, NEW x \in Int
    PROVE  x % m \in 0..m-1 /\ x = (m * (x \div m)) + (x % m) /\ x \div m \in Int
  BY SMTT(30)

LEMMA Remainder ==
    ASSUME NEW m \in Nat \ {0}, NEW q \in Int, NEW r \in 0..m-1
    PROVE  ((m * q) + r) % m = r
<1> DEFINE x == m * q + r
           p == x \div m
           s == x % m
<1>1. x \in Int
  OBVIOUS
<1>2. s \in 0..m-1 /\ x = m * p + s /\ p \in Int
  BY <1>1, Euclid
<1> HIDE DEF p, s
<1>3. m * (p - q) = r - s
  BY <1>2
<1>4. p - q = 0
  <2>1. CASE p - q >= 1
    <3>1. m * (p - q) >= m
      BY <1>2, <2>1
    <3> QED BY <3>1, <1>3, <1>2
  <2>2. CASE p - q <= -1
    <3>1. m * (p - q) <= -m
      BY <1>2, <2>2
    <3> QED BY <3>1, <1>3, <1>2
  <2> QED BY <1>2, <2>1, <2>2
<1>5. r = s
  BY <1>3, <1>4, <1>2
<1> QED BY <1>5 DEF s

\* The range of the indices is used up in steps of one.
LEMMA Around ==
    ASSUME NEW x \in Int, -IdxMod <= x, x < 2 * IdxMod
    PROVE  x % IdxMod = IF x < 0 THEN x + IdxMod ELSE IF x < IdxMod THEN x ELSE x - IdxMod
<1>1. IdxMod \in Nat \ {0}
  BY Sizes
<1>2. CASE x < 0
  <2>1. x + IdxMod \in 0..IdxMod-1
    BY <1>1, <1>2
  <2>2. ((IdxMod * (-1)) + (x + IdxMod)) % IdxMod = x + IdxMod
    BY <1>1, <2>1, Remainder
  <2>3. (IdxMod * (-1)) + (x + IdxMod) = x
    BY <1>1
  <2> QED BY <1>2, <2>2, <2>3
<1>3. CASE 0 <= x /\ x < IdxMod
  <2>1. ((IdxMod * 0) + x) % IdxMod = x
    BY <1>1, <1>3, Remainder
  <2>2. (IdxMod * 0) + x = x
    BY <1>1
  <2> QED BY <1>3, <2>1, <2>2
<1>4. CASE IdxMod <= x
  <2>1. x - IdxMod \in 0..IdxMod-1
    BY <1>1, <1>4
  <2>2. ((IdxMod * 1) + (x - IdxMod)) % IdxMod = x - IdxMod
    BY <1>1, <2>1, Remainder
  <2>3. (IdxMod * 1) + (x - IdxMod) = x
    BY <1>1
  <2> QED BY <1>1, <1>4, <2>2, <2>3
<1> QED BY <1>1, <1>2, <1>3, <1>4

\* The slot of an index does not depend on the laps around.
LEMMA SlotOf ==
    ASSUME NEW a \in Idx, NEW j \in 0..N
    PROVE  Slot((a + j) % IdxMod) = (a + j) % N
<1>1. IdxMod \in Nat \ {0} /\ N \in Nat \ {0} /\ N + N <= IdxMod /\ a \in 0..IdxMod-1
  BY Sizes DEF Idx
<1>2. PICK q \in Int : IdxMod = N * q
  <2>1. IdxMod = (N * (IdxMod \div N)) + 0 /\ IdxMod \div N \in Int
    BY <1>1, Euclid, Sizes
  <2>2. N * (IdxMod \div N) \in Int
    BY <1>1, <2>1
  <2> QED BY <2>1, <2>2
<1>3. (a + j) % IdxMod = IF a + j < IdxMod THEN a + j ELSE a + j - IdxMod
  BY <1>1, Around
<1>4. CASE a + j < IdxMod
  BY <1>3, <1>4 DEF Slot
<1>5. CASE a + j >= IdxMod
  <2> DEFINE x == a + j - IdxMod
  <2>0. x \in Int
    BY <1>1
  <2>1. PICK p \in Int, r \in 0..N-1 : x = (N * p) + r
    BY <1>1, <2>0, Euclid
  <2>2. (a + j - IdxMod) % N = r
    BY <1>1, <2>1, Remainder
  <2>3. PICK s \in Int : s = p + q
    BY <1>2
  <2>4. a + j = (N * s) + r
    BY <1>1, <1>2, <2>1, <2>3
  <2>5. (a + j) % N = r
    BY <1>1, <2>4, Remainder
  <2> QED BY <1>1, <1>3, <1>5, <2>2, <2>5 DEF Slot
<1> QED BY <1>1, <1>4, <1>5

\* Up to N indices in a row have slots of their own.
LEMMA SlotsDiffer ==
    ASSUME NEW a \in Idx, NEW j \in 0..N-1, NEW k \in 0..N-1,
           Slot((a + j) % IdxMod) = Slot((a + k) % IdxMod)
    PROVE  j = k
<1>1. N \in Nat \ {0} /\ a \in Int
  BY Sizes DEF Idx
<1>2. (a + j) % N = (a + k) % N
  BY <1>1, SlotOf
<1>3. PICK p \in Int, q \in Int, r \in 0..N-1 :
          a + j = (N * p) + r /\ a + k = (N * q) + r
  <2>1. a + j \in Int /\ a + k \in Int
    BY <1>1
  <2>2. a + j = (N * ((a + j) \div N)) + ((a + j) % N) /\ (a + j) \div N \in Int
        /\ (a + j) % N \in 0..N-1
    BY <1>1, <2>1, Euclid
  <2>3. a + k = (N * ((a + k) \div N)) + ((a + k) % N) /\ (a + k) \div N \in Int
    BY <1>1, <2>1, Euclid
  <2> QED BY <1>2, <2>2, <2>3
<1>4. j - k = N * (p - q)
  BY <1>1, <1>3
<1>5. CASE p - q >= 1
  <2>1. N * (p - q) >= N
    BY <1>1, <1>5
  <2> QED BY <1>1, <1>4, <2>1
<1>6. CASE p - q <= -1
  <2>1. N * (p - q) <= -N
    BY <1>1, <1>6
  <2> QED BY <1>1, <1>4, <2>1
<1> QED BY <1>1, <1>4, <1>5, <1>6

LEMMA SlotInRing ==
    ASSUME NEW a \in Idx, NEW j \in 0..N
    PROVE  Slot((a + j) % IdxMod) \in D
<1>1. N \in Nat \ {0} /\ a + j \in Int
  BY Sizes DEF Idx
<1> QED BY <1>1, SlotOf, Euclid DEF D

\* The distance from one index to another, and what a step of either does.
LEMMA Distance ==
    ASSUME NEW a \in Idx, NEW b \in Idx
    PROVE  /\ (b - a) % IdxMod \in Nat
           /\ (b - a) % IdxMod = 0 <=> a = b
           /\ b = (a + ((b - a) % IdxMod)) % IdxMod
<1>1. IdxMod \in Nat \ {0} /\ a \in 0..IdxMod-1 /\ b \in 0..IdxMod-1
  BY Sizes DEF Idx
<1>2. (b - a) % IdxMod = IF b < a THEN b - a + IdxMod ELSE b - a
  BY <1>1, Around
<1>3. \A x \in {b, b + IdxMod} : x % IdxMod = b
  BY <1>1, Around
<1> QED BY <1>1, <1>2, <1>3

LEMMA StepOfEnd ==
    ASSUME NEW a \in Idx, NEW b \in Idx, (b - a) % IdxMod < N
    PROVE  Succ(b) \in Idx /\ (Succ(b) - a) % IdxMod = ((b - a) % IdxMod) + 1
<1>1. /\ IdxMod \in Nat \ {0} /\ N \in Nat \ {0} /\ N + N <= IdxMod
      /\ a \in 0..IdxMod-1 /\ b \in 0..IdxMod-1
  BY Sizes DEF Idx
<1>2. (b - a) % IdxMod = IF b < a THEN b - a + IdxMod ELSE b - a
  BY <1>1, Around
<1>3. Succ(b) = IF b + 1 = IdxMod THEN 0 ELSE b + 1
  BY <1>1, Around DEF Succ
<1>4. (Succ(b) - a) % IdxMod = IF Succ(b) < a THEN Succ(b) - a + IdxMod ELSE Succ(b) - a
  BY <1>1, <1>3, Around
<1> QED BY <1>1, <1>2, <1>3, <1>4 DEF Idx

LEMMA StepOfStart ==
    ASSUME NEW a \in Idx, NEW b \in Idx, a # b
    PROVE  /\ Succ(a) \in Idx /\ (b - Succ(a)) % IdxMod = ((b - a) % IdxMod) - 1
           /\ \A j \in 0..N : (Succ(a) + j) % IdxMod = (a + (j + 1)) % IdxMod
<1>1. /\ IdxMod \in Nat \ {0} /\ N \in Nat \ {0} /\ N + N <= IdxMod
      /\ a \in 0..IdxMod-1 /\ b \in 0..IdxMod-1
  BY Sizes DEF Idx
<1>2. (b - a) % IdxMod = IF b < a THEN b - a + IdxMod ELSE b - a
  BY <1>1, Around
<1>3. Succ(a) = IF a + 1 = IdxMod THEN 0 ELSE a + 1
  BY <1>1, Around DEF Succ
<1>4. (b - Succ(a)) % IdxMod = IF b < Succ(a) THEN b - Succ(a) + IdxMod ELSE b - Succ(a)
  BY <1>1, <1>3, Around
<1>5. ASSUME NEW j \in 0..N PROVE (Succ(a) + j) % IdxMod = (a + (j + 1)) % IdxMod
  <2>1. a + (j + 1) < 2 * IdxMod /\ Succ(a) + j < 2 * IdxMod
    BY <1>1, <1>3
  <2>2. (a + (j + 1)) % IdxMod = IF a + (j + 1) < IdxMod THEN a + (j + 1) ELSE a + (j + 1) - IdxMod
    BY <1>1, <2>1, Around
  <2>3. (Succ(a) + j) % IdxMod = IF Succ(a) + j < IdxMod THEN Succ(a) + j ELSE Succ(a) + j - IdxMod
    BY <1>1, <1>3, <2>1, Around
  <2> QED BY <1>1, <1>3, <2>2, <2>3
<1>6. Succ(a) \in Idx
  BY <1>1, <1>3 DEF Idx
<1>7. (b - Succ(a)) % IdxMod = ((b - a) % IdxMod) - 1
  BY <1>1, <1>2, <1>3, <1>4
<1> QED BY <1>5, <1>6, <1>7
-----------------------------------------------------------------------------
\* The two windows of the rings.

\* Both lengths are counts, and the index in the ring is the last place of all.
LEMMA AvailWindowIs ==
    ASSUME Types
    PROVE  /\ AvailLen \in Nat
           /\ AvailLen = 0 <=> dev.seen = vr16(avail.idx)
           /\ AvailSlot = Slot((dev.seen + AvailLen) % IdxMod)
<1>1. dev.seen \in Idx /\ vr16(avail.idx) \in Idx
  BY DEF Types, DeviceType
<1> QED BY <1>1, Distance DEF AvailLen, AvailSlot

LEMMA UsedWindowIs ==
    ASSUME Types
    PROVE  /\ UsedLen \in Nat
           /\ UsedLen = 0 <=> last_used_idx = vr16(used.idx)
           /\ Slot(vr16(used.idx)) = Slot((last_used_idx + UsedLen) % IdxMod)
           /\ UsedAt(0) = vr32(used.ring[Slot(last_used_idx)])
<1>1. last_used_idx \in Idx /\ vr16(used.idx) \in Idx
  BY DEF Types
<1>2. last_used_idx + 0 = last_used_idx /\ last_used_idx % IdxMod = last_used_idx
  BY <1>1, Sizes, Around, SMTT(60) DEF Idx
<1> QED BY <1>1, <1>2, Distance DEF UsedLen, UsedAt

\* The device fetches: the window loses its first entry.
LEMMA AvailFetched ==
    ASSUME Types, AvailLen <= N, AvailLen # 0,
           dev'.seen = Succ(dev.seen), UNCHANGED avail
    PROVE  /\ Succ(dev.seen) \in Idx
           /\ AvailLen' = AvailLen - 1
           /\ \A j \in 0..AvailLen-2 : AvailAt(j)' = AvailAt(j + 1)
           /\ AvailAt(0) = vr16(avail.ring[Slot(dev.seen)])
<1>1. dev.seen \in Idx /\ vr16(avail.idx) \in Idx /\ dev.seen # vr16(avail.idx)
  BY AvailWindowIs DEF Types, DeviceType
<1>2. /\ Succ(dev.seen) \in Idx /\ AvailLen' = AvailLen - 1
      /\ \A j \in 0..N : (Succ(dev.seen) + j) % IdxMod = (dev.seen + (j + 1)) % IdxMod
  BY <1>1, StepOfStart DEF AvailLen
<1>3. \A j \in 0..AvailLen-2 : AvailAt(j)' = AvailAt(j + 1)
  BY <1>2, Sizes, AvailWindowIs DEF AvailAt
<1>4. dev.seen + 0 = dev.seen /\ dev.seen % IdxMod = dev.seen
  <2>1. /\ dev.seen \in Int /\ 0 <= dev.seen /\ dev.seen < IdxMod
        /\ -IdxMod <= dev.seen /\ dev.seen < 2 * IdxMod
    BY <1>1, Sizes DEF Idx
  <2> QED BY <2>1, Around
<1> QED BY <1>2, <1>3, <1>4 DEF AvailAt

\* AddBuf writes the slot behind the window: the window keeps its entries.
LEMMA AvailWritten ==
    ASSUME Types, AvailLen < N, NEW h \in D,
           avail' = [avail EXCEPT !.ring[AvailSlot] = vr16(h)], UNCHANGED dev
    PROVE  /\ AvailLen' = AvailLen
           /\ \A j \in 0..AvailLen-1 : AvailAt(j)' = AvailAt(j)
           /\ AvailSlot' = AvailSlot /\ vr16(avail'.ring[AvailSlot]) = h
           /\ avail' \in [idx : Word16, ring : [D -> Word16], event : Word16]
<1>1. AvailSlot \in D /\ AvailSlot = Slot((dev.seen + AvailLen) % IdxMod)
  <2>1. AvailLen \in 0..N /\ dev.seen \in Idx
    BY AvailWindowIs, Sizes, SMTT(60) DEF Types, DeviceType
  <2> QED BY <2>1, AvailWindowIs, SlotInRing
<1>2. vr16(h) \in Word16 /\ vr16(vr16(h)) = h
  BY Words, Orders
<1>3. /\ avail'.idx = avail.idx /\ avail'.event = avail.event
      /\ avail'.ring = [avail.ring EXCEPT ![AvailSlot] = vr16(h)]
      /\ avail' \in [idx : Word16, ring : [D -> Word16], event : Word16]
  BY <1>1, <1>2 DEF Types
<1>4. AvailLen' = AvailLen /\ AvailSlot' = AvailSlot
  BY <1>3 DEF AvailLen, AvailSlot
<1>5. ASSUME NEW j \in 0..AvailLen-1 PROVE AvailAt(j)' = AvailAt(j)
  <2>1. j # AvailLen /\ j \in 0..N-1 /\ AvailLen \in 0..N-1
    BY AvailWindowIs, Sizes
  <2>2. Slot((dev.seen + j) % IdxMod) # AvailSlot
    BY <1>1, <2>1, SlotsDiffer DEF Types, DeviceType
  <2>3. Slot((dev.seen + j) % IdxMod) \in D
    <3>1. dev.seen \in Idx /\ j \in 0..N
      BY <2>1, Sizes DEF Types, DeviceType
    <3> QED BY <3>1, SlotInRing
  <2>4. avail.ring \in [D -> Word16]
    BY DEF Types
  <2> QED BY <1>1, <1>3, <2>2, <2>3, <2>4 DEF AvailAt
<1>6. vr16(avail'.ring[AvailSlot]) = h
  <2>1. avail.ring \in [D -> Word16]
    BY DEF Types
  <2> QED BY <1>1, <1>2, <1>3, <2>1
<1> QED BY <1>3, <1>4, <1>5, <1>6

\* AddBuf publishes the index: the window gets the entry behind it.
LEMMA AvailPublished ==
    ASSUME Types, AvailLen < N,
           avail' = [avail EXCEPT !.idx = vr16(Succ(vr16(@)))], UNCHANGED dev
    PROVE  /\ AvailLen' = AvailLen + 1
           /\ \A j \in 0..AvailLen : AvailAt(j)' = AvailAt(j)
           /\ AvailAt(AvailLen) = vr16(avail.ring[AvailSlot])
           /\ avail' \in [idx : Word16, ring : [D -> Word16], event : Word16]
           /\ vr16(avail'.idx) \in Idx
<1>1. dev.seen \in Idx /\ vr16(avail.idx) \in Idx
  BY DEF Types, DeviceType
<1>2. /\ Succ(vr16(avail.idx)) \in Idx
      /\ (Succ(vr16(avail.idx)) - dev.seen) % IdxMod = AvailLen + 1
  BY <1>1, StepOfEnd DEF AvailLen
<1>3. vr16(avail'.idx) = Succ(vr16(avail.idx)) /\ avail'.ring = avail.ring
      /\ avail'.idx \in Word16 /\ avail'.event = avail.event
      /\ avail' \in [idx : Word16, ring : [D -> Word16], event : Word16]
  BY <1>2, Words, Orders DEF Types
<1> QED BY <1>2, <1>3, AvailWindowIs DEF AvailLen, AvailAt

\* GetBuf passes an entry.
LEMMA UsedPassed ==
    ASSUME Types, UsedLen <= N, UsedLen # 0,
           last_used_idx' = Succ(last_used_idx), UNCHANGED used
    PROVE  /\ Succ(last_used_idx) \in Idx
           /\ UsedLen' = UsedLen - 1
           /\ \A j \in 0..UsedLen-2 : UsedAt(j)' = UsedAt(j + 1)
<1>1. last_used_idx \in Idx /\ vr16(used.idx) \in Idx /\ last_used_idx # vr16(used.idx)
  BY UsedWindowIs DEF Types
<1>2. /\ Succ(last_used_idx) \in Idx /\ UsedLen' = UsedLen - 1
      /\ \A j \in 0..N : (Succ(last_used_idx) + j) % IdxMod
                            = (last_used_idx + (j + 1)) % IdxMod
  BY <1>1, StepOfStart DEF UsedLen
<1>3. \A j \in 0..UsedLen-2 : UsedAt(j)' = UsedAt(j + 1)
  BY <1>2, Sizes, UsedWindowIs DEF UsedAt
<1> QED BY <1>2, <1>3

\* The device puts an entry behind the window.
LEMMA UsedPut ==
    ASSUME Types, NEW id \in 0..N, PutUsed(id), UNCHANGED last_used_idx
    PROVE  /\ UsedLen < N /\ UsedLen' = UsedLen + 1
           /\ \A j \in 0..UsedLen-1 : UsedAt(j)' = UsedAt(j)
           /\ \A j : j = UsedLen => UsedAt(j)' = id
           /\ used' \in [idx : Word16, ring : [D -> {vr32(v) : v \in 0..N}]]
           /\ vr16(used'.idx) \in Idx
<1>1. last_used_idx \in Idx /\ vr16(used.idx) \in Idx
  BY DEF Types
<1>2. UsedLen < N
  BY DEF PutUsed, UsedLen
<1>3. /\ Succ(vr16(used.idx)) \in Idx
      /\ (Succ(vr16(used.idx)) - last_used_idx) % IdxMod = UsedLen + 1
  BY <1>1, <1>2, StepOfEnd DEF UsedLen
<1>4. id \in Word16
  BY Words, Sizes DEF D
<1> DEFINE s == Slot((last_used_idx + UsedLen) % IdxMod)
<1>5. s \in D /\ Slot(vr16(used.idx)) = s
  BY <1>1, <1>2, UsedWindowIs, SlotInRing, Sizes
<1> HIDE DEF s
<1>6. /\ used'.idx \in Word16 /\ vr16(used'.idx) = Succ(vr16(used.idx))
      /\ used'.ring = [used.ring EXCEPT ![s] = vr32(id)]
      /\ used' \in [idx : Word16, ring : [D -> {vr32(v) : v \in 0..N}]]
  BY <1>3, <1>5, Words, Orders DEF PutUsed, Types
<1>7. UsedLen' = UsedLen + 1
  BY <1>3, <1>6 DEF UsedLen
<1>8. ASSUME NEW j \in 0..UsedLen-1 PROVE UsedAt(j)' = UsedAt(j)
  <2>1. j # UsedLen /\ j \in 0..N-1 /\ UsedLen \in 0..N-1
    BY <1>2, UsedWindowIs, Sizes
  <2>2. Slot((last_used_idx + j) % IdxMod) # s
    BY <1>1, <2>1, SlotsDiffer DEF s
  <2>3. Slot((last_used_idx + j) % IdxMod) \in D
    BY <1>1, <2>1, SlotInRing, Sizes
  <2>4. used.ring \in [D -> {vr32(v) : v \in 0..N}]
    BY DEF Types
  <2> QED BY <1>5, <1>6, <2>2, <2>3, <2>4 DEF UsedAt
<1>9. ASSUME NEW j, j = UsedLen PROVE UsedAt(j)' = id
  <2>1. used.ring \in [D -> {vr32(v) : v \in 0..N}]
    BY DEF Types
  <2>2. Slot((last_used_idx + j) % IdxMod) = s
    BY <1>9 DEF s
  <2> QED BY <1>4, <1>5, <1>6, <2>1, <2>2, Orders DEF UsedAt
<1> QED BY <1>2, <1>6, <1>3, <1>7, <1>8, <1>9
-----------------------------------------------------------------------------
\* What is distinct in the table is no more than the table.

LEMMA TableSize == IsFiniteSet(D) /\ Cardinality(D) = N
<1>1. N \in Nat \ {0} /\ 0 \in Int /\ N - 1 \in Int
  BY Sizes
<1> QED BY <1>1, FS_Interval DEF D

LEMMA FewEntries ==
    ASSUME NEW S \in SUBSET D, NEW w \in Nat, NEW f \in [1..w -> S],
           \A i, j \in 1..w : f[i] = f[j] => i = j
    PROVE  w <= Cardinality(S) /\ Cardinality(S) \in Nat
<1>1. IsFiniteSet(S) /\ Cardinality(S) \in Nat
  BY TableSize, FS_Subset, FS_CardinalityType
<1>2. IsFiniteSet(1..w) /\ Cardinality(1..w) = w
  <2>1. 1 \in Int /\ w \in Int
    OBVIOUS
  <2>2. IsFiniteSet(1..w) /\ Cardinality(1..w) = IF 1 > w THEN 0 ELSE w - 1 + 1
    BY <2>1, FS_Interval
  <2> QED BY <2>2
<1>3. CASE Cardinality(S) < w
  <2>1. \E x, y \in 1..w : x # y /\ f[x] = f[y]
    BY <1>1, <1>2, <1>3, FS_PigeonHole
  <2> QED BY <2>1
<1> QED BY <1>1, <1>3

LEMMA FreeListBounded ==
    ASSUME freeStack \in Seq(D), Conservation
    PROVE  Len(freeStack) \in 0..N
<1>1. Len(freeStack) \in Nat /\ freeStack \in [1..Len(freeStack) -> D]
  OBVIOUS
<1>2. \A i, j \in 1..Len(freeStack) : freeStack[i] = freeStack[j] => i = j
  BY DEF Conservation
<1>3. Len(freeStack) <= Cardinality(D)
  BY <1>1, <1>2, FewEntries
<1> QED BY <1>1, <1>3, TableSize, Sizes

\* A head outside the window leaves room in the ring.
LEMMA RoomFor ==
    ASSUME NEW h \in D, NEW w \in Nat, NEW f \in [1..w -> D \ {h}],
           \A i, j \in 1..w : f[i] = f[j] => i = j
    PROVE  w < N
<1>1. D \ {h} \in SUBSET D
  OBVIOUS
<1>2. w <= Cardinality(D \ {h})
  BY <1>1, FewEntries
<1>3. Cardinality(D \ {h}) = N - 1
  BY TableSize, FS_RemoveElement
<1> QED BY <1>2, <1>3, Sizes

\* The sequence operations of the model.
LEMMA Popped ==
    ASSUME NEW s \in Seq(D), s # <<>>
    PROVE  /\ Top(s) \in D /\ Top(s) = s[Len(s)] /\ Len(s) \in Nat \ {0}
           /\ Pop(s) \in Seq(D) /\ Len(Pop(s)) = Len(s) - 1
           /\ \A i \in 1..Len(s)-1 : Pop(s)[i] = s[i]
<1>1. Len(s) \in Nat \ {0}
  BY EmptySeq, LenProperties
<1>2. \A i \in 1..Len(s)-1 : s[i] \in D
  BY <1>1, ElementOfSeq
<1>3. 1 \in Int /\ Len(s) - 1 \in Int
  BY <1>1
<1>4. /\ SubSeq(s, 1, Len(s) - 1) \in Seq(D)
      /\ Len(SubSeq(s, 1, Len(s) - 1)) = IF 1 <= Len(s) - 1 THEN Len(s) - 1 - 1 + 1 ELSE 0
      /\ \A i \in 1..Len(s)-1-1+1 : SubSeq(s, 1, Len(s) - 1)[i] = s[1 + i - 1]
  BY <1>2, <1>3, SubSeqProperties
<1>5. Top(s) \in D
  BY <1>1, ElementOfSeq DEF Top
<1>6. \A i \in 1..Len(s)-1 : Pop(s)[i] = s[i]
  <2>1. ASSUME NEW i \in 1..Len(s)-1
        PROVE  i \in 1..Len(s)-1-1+1 /\ 1 + i - 1 = i
    BY <1>1
  <2> QED BY <1>4, <2>1 DEF Pop
<1>7. Len(Pop(s)) = Len(s) - 1 /\ Pop(s) \in Seq(D)
  <2>1. PICK n \in Nat : n = Len(s) - 1
    BY <1>1
  <2>2. (IF 1 <= n THEN n - 1 + 1 ELSE 0) = n
    BY <2>1
  <2> QED BY <1>4, <2>1, <2>2 DEF Pop
<1> QED BY <1>1, <1>5, <1>6, <1>7 DEF Top

LEMMA Tailed ==
    ASSUME NEW s \in Seq(D), s # <<>>
    PROVE  /\ s[1] \in D /\ Len(s) \in Nat \ {0}
           /\ Tail(s) \in Seq(D) /\ Len(Tail(s)) = Len(s) - 1
           /\ \A i \in 1..Len(s)-1 : Tail(s)[i] = s[i+1]
           /\ Tail(s) = <<>> <=> Len(s) = 1
<1>1. Len(s) \in Nat \ {0}
  BY EmptySeq, LenProperties
<1>2. Tail(s) \in Seq(D) /\ Len(Tail(s)) = Len(s) - 1
      /\ \A i \in 1..Len(Tail(s)) : Tail(s)[i] = s[i+1]
  BY HeadTailProperties
<1>3. s[1] \in D
  BY <1>1, ElementOfSeq
<1> QED BY <1>1, <1>2, <1>3, EmptySeq

\* The two moves of a descriptor: from the free list to the end of a chain and
\* from the front of a chain back.
ToChain(h) ==
    /\ freeStack # <<>> /\ freeStack' = Pop(freeStack)
    /\ chain' = [chain EXCEPT ![h] = Append(@, Top(freeStack))]

ToFree(h) ==
    /\ chain[h] # <<>> /\ freeStack' = Append(freeStack, chain[h][1])
    /\ chain' = [chain EXCEPT ![h] = Tail(@)]

LEMMA ToChainEffect ==
    ASSUME freeStack \in Seq(D), chain \in [D -> Seq(D)], NEW h \in D, ToChain(h)
    PROVE  /\ freeStack' \in Seq(D) /\ chain' \in [D -> Seq(D)]
           /\ Len(freeStack) \in Nat \ {0} /\ Len(chain[h]) \in Nat
           /\ Len(freeStack') = Len(freeStack) - 1
           /\ \A i \in 1..Len(freeStack)-1 : freeStack'[i] = freeStack[i]
           /\ \A k \in D \ {h} : chain'[k] = chain[k]
           /\ Len(chain'[h]) = Len(chain[h]) + 1
           /\ \A i \in 1..Len(chain[h]) : chain'[h][i] = chain[h][i]
           /\ chain'[h][Len(chain[h]) + 1] = Top(freeStack)
           /\ Top(freeStack) = freeStack[Len(freeStack)] /\ Top(freeStack) \in D
           /\ chain'[h] # <<>>
<1>1. /\ Top(freeStack) \in D /\ Top(freeStack) = freeStack[Len(freeStack)]
      /\ Len(freeStack) \in Nat \ {0}
      /\ Pop(freeStack) \in Seq(D) /\ Len(Pop(freeStack)) = Len(freeStack) - 1
      /\ \A i \in 1..Len(freeStack)-1 : Pop(freeStack)[i] = freeStack[i]
  BY Popped DEF ToChain
<1>2. chain[h] \in Seq(D) /\ Len(chain[h]) \in Nat
  BY LenProperties
<1>3. PICK c \in Seq(D) : c = Append(chain[h], Top(freeStack))
  BY <1>1, <1>2, AppendProperties
<1>4. /\ c # <<>> /\ Len(c) = Len(chain[h]) + 1
      /\ \A i \in 1..Len(chain[h]) : c[i] = chain[h][i]
      /\ c[Len(chain[h]) + 1] = Top(freeStack)
  BY <1>1, <1>2, <1>3, AppendProperties, SMTT(60)
<1>5. chain' = [chain EXCEPT ![h] = c]
  BY <1>3 DEF ToChain
<1>6. chain' \in [D -> Seq(D)] /\ chain'[h] = c /\ \A k \in D \ {h} : chain'[k] = chain[k]
  BY <1>5
<1>7. freeStack' = Pop(freeStack)
  BY DEF ToChain
<1> QED BY <1>1, <1>2, <1>4, <1>6, <1>7

LEMMA ToFreeEffect ==
    ASSUME freeStack \in Seq(D), chain \in [D -> Seq(D)], NEW h \in D, ToFree(h)
    PROVE  /\ freeStack' \in Seq(D) /\ chain' \in [D -> Seq(D)]
           /\ Len(freeStack) \in Nat /\ Len(chain[h]) \in Nat \ {0}
           /\ Len(freeStack') = Len(freeStack) + 1
           /\ \A i \in 1..Len(freeStack) : freeStack'[i] = freeStack[i]
           /\ freeStack'[Len(freeStack) + 1] = chain[h][1]
           /\ Top(freeStack') = chain[h][1] /\ freeStack' # <<>>
           /\ \A k \in D \ {h} : chain'[k] = chain[k]
           /\ Len(chain'[h]) = Len(chain[h]) - 1
           /\ \A i \in 1..Len(chain[h])-1 : chain'[h][i] = chain[h][i+1]
           /\ chain[h][1] \in D
           /\ (chain'[h] = <<>> <=> Len(chain[h]) = 1)
<1>1. chain[h] \in Seq(D) /\ chain[h] # <<>> /\ Len(freeStack) \in Nat
  BY LenProperties DEF ToFree
<1>2. /\ chain[h][1] \in D /\ Len(chain[h]) \in Nat \ {0}
      /\ Tail(chain[h]) \in Seq(D) /\ Len(Tail(chain[h])) = Len(chain[h]) - 1
      /\ \A i \in 1..Len(chain[h])-1 : Tail(chain[h])[i] = chain[h][i+1]
      /\ Tail(chain[h]) = <<>> <=> Len(chain[h]) = 1
  BY <1>1, Tailed
<1>3. PICK f \in Seq(D) : f = Append(freeStack, chain[h][1])
  BY <1>2, AppendProperties
<1>4. /\ f # <<>> /\ Len(f) = Len(freeStack) + 1
      /\ \A i \in 1..Len(freeStack) : f[i] = freeStack[i]
      /\ f[Len(freeStack) + 1] = chain[h][1]
  <2>1. chain[h][1] \in D
    BY <1>2
  <2> QED BY <1>3, <2>1, AppendProperties, SMTT(60)
<1>5. freeStack' = f
  BY <1>3 DEF ToFree
<1>6. /\ chain' \in [D -> Seq(D)] /\ chain'[h] = Tail(chain[h])
      /\ \A k \in D \ {h} : chain'[k] = chain[k]
  BY <1>2 DEF ToFree
<1> QED BY <1>1, <1>2, <1>4, <1>5, <1>6 DEF Top

LEMMA ToChainConserves ==
    ASSUME freeStack \in Seq(D), chain \in [D -> Seq(D)], NEW h \in D, ToChain(h),
           Conservation
    PROVE  /\ Conservation'
           /\ \A i \in 1..Len(freeStack)-1 : freeStack[i] # Top(freeStack)
           /\ \A k \in D : \A i \in 1..Len(chain[k]) : chain[k][i] # Top(freeStack)
<1> DEFINE n == Len(freeStack)
           m == Len(chain[h])
           top == Top(freeStack)
<1>1. /\ freeStack' \in Seq(D) /\ chain' \in [D -> Seq(D)]
      /\ n \in Nat \ {0} /\ m \in Nat
      /\ Len(freeStack') = n - 1 /\ \A i \in 1..n-1 : freeStack'[i] = freeStack[i]
      /\ \A k \in D \ {h} : chain'[k] = chain[k]
      /\ Len(chain'[h]) = m + 1 /\ \A i \in 1..m : chain'[h][i] = chain[h][i]
      /\ chain'[h][m + 1] = top /\ top = freeStack[n] /\ top \in D
  BY ToChainEffect
<1> HIDE DEF n, m, top
<1>2. /\ \A i, j \in 1..n : freeStack[i] = freeStack[j] => i = j
      /\ \A d \in D : (\E i \in 1..n : freeStack[i] = d)
                        <=> ~(\E k \in D : \E i \in 1..Len(chain[k]) : chain[k][i] = d)
  BY DEF Conservation, n
<1>3. \A i \in 1..n-1 : freeStack[i] # top
  BY <1>1, <1>2
<1>4. ASSUME NEW k \in D, NEW i \in 1..Len(chain[k]) PROVE chain[k][i] # top
  <2>1. n \in 1..n
    <3>1. n \in Nat \ {0}
      BY <1>1
    <3> QED BY <3>1
  <2>2. ~(\E x \in D : \E j \in 1..Len(chain[x]) : chain[x][j] = top)
    BY <1>1, <1>2, <2>1
  <2> QED BY <2>2
<1>5. \A i, j \in 1..Len(freeStack') : freeStack'[i] = freeStack'[j] => i = j
  BY <1>1, <1>2
<1>6. ASSUME NEW k \in D, NEW i \in 1..Len(chain'[k])
      PROVE  \/ i \in 1..Len(chain[k]) /\ chain'[k][i] = chain[k][i]
             \/ k = h /\ i = m + 1 /\ chain'[k][i] = top
  <2>1. CASE k = h
    <3>1. i \in 1..m+1 /\ Len(chain[k]) = m
      BY <1>1, <2>1 DEF m
    <3>2. i \in 1..m \/ i = m + 1
      BY <1>1, <3>1
    <3> QED BY <1>1, <2>1, <3>1, <3>2
  <2>2. CASE k # h
    BY <1>1, <2>2
  <2> QED BY <2>1, <2>2
<1>7. ASSUME NEW k \in D, NEW l \in D,
             NEW i \in 1..Len(chain'[k]), NEW j \in 1..Len(chain'[l]),
             chain'[k][i] = chain'[l][j]
      PROVE  k = l /\ i = j
  <2>1. \A x, y \in D : \A a \in 1..Len(chain[x]), b \in 1..Len(chain[y]) :
          chain[x][a] = chain[y][b] => x = y /\ a = b
    BY DEF Conservation
  <2>2. CASE i \in 1..Len(chain[k]) /\ chain'[k][i] = chain[k][i]
    <3>1. chain'[l][j] # top
      BY <1>4, <1>7, <2>2
    <3>2. j \in 1..Len(chain[l]) /\ chain'[l][j] = chain[l][j]
      BY <1>6, <3>1
    <3>3. chain[k][i] = chain[l][j]
      BY <1>7, <2>2, <3>2
    <3> QED BY <2>1, <2>2, <3>2, <3>3, ZenonT(60)
  <2>3. CASE k = h /\ i = m + 1 /\ chain'[k][i] = top
    <3>1. chain'[l][j] = top
      BY <1>7, <2>3
    <3>2. ~(j \in 1..Len(chain[l]) /\ chain'[l][j] = chain[l][j])
      BY <1>4, <3>1
    <3>3. l = h /\ j = m + 1
      BY <1>6, <3>2
    <3> QED BY <2>3, <3>3
  <2> QED BY <1>6, <2>2, <2>3
<1>8. ASSUME NEW d \in D
      PROVE  (\E i \in 1..Len(freeStack') : freeStack'[i] = d)
               <=> ~(\E k \in D : \E i \in 1..Len(chain'[k]) : chain'[k][i] = d)
  <2>1. CASE d = top
    <3>1. ~(\E i \in 1..Len(freeStack') : freeStack'[i] = d)
      BY <1>1, <1>3, <2>1
    <3>2. m + 1 \in 1..Len(chain'[h]) /\ chain'[h][m + 1] = d
      BY <1>1, <2>1
    <3> QED BY <3>1, <3>2
  <2>2. CASE d # top
    <3>1. (\E i \in 1..Len(freeStack') : freeStack'[i] = d)
             <=> (\E i \in 1..n : freeStack[i] = d)
      <4>1. ASSUME NEW i \in 1..n, freeStack[i] = d
            PROVE  i \in 1..Len(freeStack') /\ freeStack'[i] = d
        <5>1. i # n
          BY <1>1, <2>2, <4>1
        <5>2. i \in 1..n-1
          BY <1>1, <5>1
        <5>3. freeStack'[i] = freeStack[i] /\ Len(freeStack') = n - 1
          BY <1>1, <5>2
        <5> QED BY <4>1, <5>2, <5>3
      <4>2. ASSUME NEW i \in 1..Len(freeStack'), freeStack'[i] = d
            PROVE  i \in 1..n /\ freeStack[i] = d
        <5>1. i \in 1..n-1 /\ Len(freeStack') = n - 1
          BY <1>1
        <5>2. i \in 1..n /\ freeStack'[i] = freeStack[i]
          BY <1>1, <5>1
        <5> QED BY <4>2, <5>2
      <4> QED BY <4>1, <4>2
    <3>2. ASSUME NEW k \in D, NEW i \in 1..Len(chain[k]), chain[k][i] = d
          PROVE  \E j \in 1..Len(chain'[k]) : chain'[k][j] = d
      <4>1. CASE k = h
        <5>1. i \in 1..m /\ i \in 1..m+1
          BY <1>1, <4>1 DEF m
        <5> QED BY <1>1, <3>2, <4>1, <5>1
      <4>2. CASE k # h
        BY <1>1, <3>2, <4>2
      <4> QED BY <4>1, <4>2
    <3>3. ASSUME NEW k \in D, NEW i \in 1..Len(chain'[k]), chain'[k][i] = d
          PROVE  i \in 1..Len(chain[k]) /\ chain[k][i] = d
      BY <1>6, <2>2, <3>3
    <3>4. (\E k \in D : \E i \in 1..Len(chain'[k]) : chain'[k][i] = d)
             <=> (\E k \in D : \E i \in 1..Len(chain[k]) : chain[k][i] = d)
      BY <3>2, <3>3
    <3> QED BY <1>2, <3>1, <3>4
  <2> QED BY <2>1, <2>2
<1>9. Conservation'
  BY <1>5, <1>7, <1>8 DEF Conservation
<1> QED BY <1>3, <1>4, <1>9 DEF n, top

LEMMA ToFreeConserves ==
    ASSUME freeStack \in Seq(D), chain \in [D -> Seq(D)], NEW h \in D, ToFree(h),
           Conservation
    PROVE  /\ Conservation'
           /\ \A i \in 1..Len(freeStack) : freeStack[i] # chain[h][1]
           /\ \A k \in D : \A i \in 1..Len(chain'[k]) : chain'[k][i] # chain[h][1]
<1> DEFINE n == Len(freeStack)
           m == Len(chain[h])
           first == chain[h][1]
<1>1. /\ n \in Nat /\ m \in Nat \ {0}
      /\ Len(freeStack') = n + 1 /\ \A i \in 1..n : freeStack'[i] = freeStack[i]
      /\ freeStack'[n + 1] = first /\ first \in D
      /\ \A k \in D \ {h} : chain'[k] = chain[k]
      /\ Len(chain'[h]) = m - 1 /\ \A i \in 1..m-1 : chain'[h][i] = chain[h][i+1]
  BY ToFreeEffect
<1>0. first = chain[h][1] /\ m = Len(chain[h])
  OBVIOUS
<1> HIDE DEF n, m, first
<1>2. /\ \A i, j \in 1..n : freeStack[i] = freeStack[j] => i = j
      /\ \A x, y \in D : \A a \in 1..Len(chain[x]), b \in 1..Len(chain[y]) :
            chain[x][a] = chain[y][b] => x = y /\ a = b
      /\ \A d \in D : (\E i \in 1..n : freeStack[i] = d)
                        <=> ~(\E k \in D : \E i \in 1..Len(chain[k]) : chain[k][i] = d)
  BY DEF Conservation, n
<1>apart. \A x, y \in D : \A a \in 1..Len(chain[x]), b \in 1..Len(chain[y]) :
             chain[x][a] = chain[y][b] => x = y /\ a = b
  BY <1>2
<1>3. ASSUME NEW i \in 1..n PROVE freeStack[i] # first
  <2>1. 1 \in 1..Len(chain[h]) /\ chain[h][1] = first
    BY <1>0, <1>1
  <2>2. \E x \in D : \E j \in 1..Len(chain[x]) : chain[x][j] = first
    BY <2>1
  <2>3. first \in D
    BY <1>1
  <2>4. ~(\E j \in 1..n : freeStack[j] = first)
    BY <1>2, <2>2, <2>3
  <2> QED BY <2>4
<1>4. ASSUME NEW k \in D, NEW i \in 1..Len(chain'[k])
      PROVE  /\ chain'[k][i] # first
             /\ \E a \in 1..Len(chain[k]) : chain[k][a] = chain'[k][i]
                                              /\ a = (IF k = h THEN i + 1 ELSE i)
  <2>1. CASE k = h
    <3>1. i \in 1..m-1 /\ i + 1 \in 1..Len(chain[h]) /\ 1 \in 1..Len(chain[h]) /\ i + 1 # 1
      <4>1. m \in Nat \ {0} /\ m = Len(chain[h]) /\ Len(chain'[k]) = m - 1
        BY <1>0, <1>1, <2>1
      <4>2. i \in 1..m-1
        BY <4>1
      <4> QED BY <4>1, <4>2
    <3>2. chain'[h][i] = chain[h][i+1]
      BY <1>1, <3>1
    <3>3. chain[h][i+1] # chain[h][1]
      BY <1>apart, <3>1
    <3> QED BY <1>0, <2>1, <3>1, <3>2, <3>3
  <2>2. CASE k # h
    <3>1. chain'[k] = chain[k] /\ 1 \in 1..Len(chain[h])
      BY <1>0, <1>1, <2>2
    <3>2. chain[k][i] # chain[h][1]
      BY <1>apart, <2>2, <3>1
    <3> QED BY <1>0, <2>2, <3>1, <3>2
  <2> QED BY <2>1, <2>2
<1>5. ASSUME NEW i \in 1..Len(freeStack'), NEW j \in 1..Len(freeStack'),
             freeStack'[i] = freeStack'[j]
      PROVE  i = j
  <2>1. i \in 1..n \/ i = n + 1
    BY <1>1
  <2>2. j \in 1..n \/ j = n + 1
    BY <1>1
  <2>3. CASE i \in 1..n /\ j \in 1..n
    BY <1>1, <1>2, <1>5, <2>3
  <2>4. CASE i = n + 1 \/ j = n + 1
    BY <1>1, <1>3, <1>5, <2>1, <2>2, <2>4
  <2> QED BY <2>1, <2>2, <2>3, <2>4
<1>6. ASSUME NEW k \in D, NEW l \in D,
             NEW i \in 1..Len(chain'[k]), NEW j \in 1..Len(chain'[l]),
             chain'[k][i] = chain'[l][j]
      PROVE  k = l /\ i = j
  <2>1. PICK a \in 1..Len(chain[k]) : chain[k][a] = chain'[k][i]
                                        /\ a = (IF k = h THEN i + 1 ELSE i)
    BY <1>4
  <2>2. PICK b \in 1..Len(chain[l]) : chain[l][b] = chain'[l][j]
                                        /\ b = (IF l = h THEN j + 1 ELSE j)
    BY <1>4
  <2>3. chain[k][a] = chain[l][b]
    BY <1>6, <2>1, <2>2
  <2>4. k = l /\ a = b
    BY <1>apart, <2>3
  <2> QED BY <2>1, <2>2, <2>4
<1>7. ASSUME NEW d \in D
      PROVE  (\E i \in 1..Len(freeStack') : freeStack'[i] = d)
               <=> ~(\E k \in D : \E i \in 1..Len(chain'[k]) : chain'[k][i] = d)
  <2>1. CASE d = first
    <3>1. n + 1 \in 1..Len(freeStack') /\ freeStack'[n + 1] = d
      BY <1>1, <2>1
    <3> QED BY <1>4, <2>1, <3>1, SMTT(60)
  <2>2. CASE d # first
    <3>1. (\E i \in 1..Len(freeStack') : freeStack'[i] = d)
             <=> (\E i \in 1..n : freeStack[i] = d)
      <4>1. ASSUME NEW i \in 1..n, freeStack[i] = d
            PROVE  i \in 1..Len(freeStack') /\ freeStack'[i] = d
        BY <1>1, <4>1
      <4>2. ASSUME NEW i \in 1..Len(freeStack'), freeStack'[i] = d
            PROVE  i \in 1..n /\ freeStack[i] = d
        <5>1. i # n + 1
          BY <1>1, <2>2, <4>2
        <5> QED BY <1>1, <4>2, <5>1
      <4> QED BY <4>1, <4>2
    <3>2. ASSUME NEW k \in D, NEW i \in 1..Len(chain[k]), chain[k][i] = d
          PROVE  \E j \in 1..Len(chain'[k]) : chain'[k][j] = d
      <4>1. CASE k = h
        <5>1. i # 1 /\ i \in 1..m
          BY <1>0, <2>2, <3>2, <4>1
        <5>2. i - 1 \in 1..m-1 /\ (i - 1) + 1 = i
          BY <1>1, <5>1
        <5>3. chain'[h][i-1] = chain[h][i]
          BY <1>1, <5>2
        <5>4. Len(chain'[k]) = m - 1 /\ chain'[k][i-1] = d
          BY <1>1, <3>2, <4>1, <5>3
        <5> QED BY <5>2, <5>4
      <4>2. CASE k # h
        BY <1>1, <3>2, <4>2
      <4> QED BY <4>1, <4>2
    <3>3. ASSUME NEW k \in D, NEW i \in 1..Len(chain'[k]), chain'[k][i] = d
          PROVE  \E a \in 1..Len(chain[k]) : chain[k][a] = d
      BY <1>4, <3>3
    <3>4. (\E k \in D : \E i \in 1..Len(chain'[k]) : chain'[k][i] = d)
             <=> (\E k \in D : \E i \in 1..Len(chain[k]) : chain[k][i] = d)
      BY <3>2, <3>3
    <3> QED BY <1>2, <3>1, <3>4
  <2> QED BY <2>1, <2>2
<1>8. Conservation'
  BY <1>5, <1>6, <1>7 DEF Conservation
<1> QED BY <1>0, <1>3, <1>4, <1>8 DEF n
-----------------------------------------------------------------------------
\* Whose a head is.

LEMMA PublishedIs ==
    Published = {h \in D : /\ chain[h] # <<>>
                           /\ ~(pc \in Adding /\ h = add.head)
                           /\ ~(pc \in Getting /\ h = get.head)}
<1>1. CASE pc \in Adding
  BY <1>1 DEF Published, Busy, Adding, Getting
<1>2. CASE pc \in Getting
  BY <1>2 DEF Published, Busy, Adding, Getting
<1>3. CASE pc \notin Adding \cup Getting
  BY <1>3 DEF Published, Busy, Adding, Getting
<1> QED BY <1>1, <1>2, <1>3

LEMMA ChainTypes ==
    ASSUME Types, NEW h \in D
    PROVE  /\ chain[h] \in Seq(D) /\ Len(chain[h]) \in Nat
           /\ chain[h] = <<>> <=> Len(chain[h]) = 0
           /\ \A i \in 1..Len(chain[h]) : chain[h][i] \in D
<1>1. chain[h] \in Seq(D)
  BY DEF Types
<1> QED BY <1>1, LenProperties, EmptySeq, ElementOfSeq

LEMMA RequestTypes ==
    ASSUME NEW r \in Requests
    PROVE  /\ r.cookie \in Cookies /\ r.out \in Nat /\ r.total \in Nat \ {0}
           /\ SgList(r) \in Tables /\ SgList(r) # NoTable /\ SgList(r) \in Seq(Entries)
           /\ Len(SgList(r)) = r.total
           /\ \A i \in 1..r.total : SgList(r)[i] = [addr |-> <<r.cookie, i>>,
                                                    write |-> i > r.out]
           /\ \A i \in 1..r.total : /\ SgList(r)[i].addr = <<r.cookie, i>>
                                     /\ SgList(r)[i].write = (i > r.out)
<1>1. PICK c \in Cookies, s \in Shapes :
          r = [cookie |-> c, out |-> s[1], total |-> s[1] + s[2]]
  BY DEF Requests
<1>2. s[1] \in Nat /\ s[2] \in Nat /\ s[1] + s[2] > 0
  <2>1. Shapes \subseteq Nat \X Nat /\ \A x \in Shapes : x[1] + x[2] > 0
    BY RingAssumption, SMTT(60)
  <2> QED BY <2>1, ZenonT(60)
<1>3. r.cookie \in Cookies /\ r.out \in Nat /\ r.total \in Nat \ {0}
  BY <1>1, <1>2
<1>4. \A i \in 1..r.total : [addr |-> <<r.cookie, i>>, write |-> i > r.out] \in Entries
  BY <1>3 DEF Entries, Addrs
<1>5. SgList(r) \in [1..r.total -> Entries]
  BY <1>4 DEF SgList
<1>6. SgList(r) \in Seq(Entries) /\ Len(SgList(r)) = r.total
  BY <1>3, <1>5
<1>7. SgList(r) # <<>>
  BY <1>3, <1>6, EmptySeq
<1>8. ASSUME NEW i \in 1..r.total
      PROVE  SgList(r)[i] = [addr |-> <<r.cookie, i>>, write |-> i > r.out]
  BY DEF SgList
<1>9. ASSUME NEW i \in 1..r.total
      PROVE  SgList(r)[i].addr = <<r.cookie, i>> /\ SgList(r)[i].write = (i > r.out)
  <2>1. SgList(r)[i].addr = <<r.cookie, i>>
    <3>1. SgList(r)[i].addr = [addr |-> <<r.cookie, i>>, write |-> i > r.out].addr
      BY <1>8, Zenon
    <3>2. [addr |-> <<r.cookie, i>>, write |-> i > r.out].addr = <<r.cookie, i>>
      BY Zenon
    <3> QED BY <3>1, <3>2, Zenon
  <2>2. SgList(r)[i].write = [addr |-> <<r.cookie, i>>, write |-> i > r.out].write
    BY <1>8, Zenon
  <2>3. [addr |-> <<r.cookie, i>>, write |-> i > r.out].write = (i > r.out)
    BY Zenon
  <2> QED BY <2>1, <2>2, <2>3, Zenon
<1>10. SgList(r) \in Tables /\ SgList(r) # NoTable
  BY <1>7 DEF Tables, NoTable
<1> QED BY <1>3, <1>6, <1>8, <1>9, <1>10

\* A head AddBuf takes from the free list has no chain.
LEMMA FreeHead ==
    ASSUME IInv, pc = "idle", freeStack # <<>>
    PROVE  free_head = Top(freeStack) /\ free_head \in D /\ chain[free_head] = <<>>
<1>1. free_head = Top(freeStack) /\ free_head \in D
  BY DEF IInv, FreeList, Types
<1>2. Len(freeStack) \in 1..Len(freeStack) /\ freeStack[Len(freeStack)] = free_head
  BY <1>1, Popped DEF IInv, Types
<1>3. \A k \in D : \A i \in 1..Len(chain[k]) : chain[k][i] # free_head
  <2>1. \E i \in 1..Len(freeStack) : freeStack[i] = free_head
    BY <1>2
  <2>2. ~(\E k \in D : \E i \in 1..Len(chain[k]) : chain[k][i] = free_head)
    BY <1>1, <2>1 DEF IInv, Conservation
  <2> QED BY <2>2
<1>4. CASE chain[free_head] # <<>>
  <2>1. Len(chain[free_head]) # 0 /\ 1 \in 1..Len(chain[free_head])
    BY <1>1, <1>4, ChainTypes DEF IInv
  <2>2. chain[free_head][1] # free_head
    BY <1>1, <1>3, <2>1
  <2>3. ~Taken(free_head)
    BY DEF Taken, Getting
  <2>4. ChainOK(free_head)
    BY <1>1 DEF IInv, Chains
  <2> QED BY <1>4, <2>2, <2>3, <2>4 DEF ChainOK, Indirect
<1> QED BY <1>1, <1>4

\* The four steps that move a descriptor.
LEMMA LoopMoves ==
    ASSUME IInv, AddBufLoop
    PROVE  ToChain(add.head) /\ add.idx = Top(freeStack) /\ add.head \in D /\ add.idx \in D
  BY DEF IInv, FreeList, AddBufLoop, ToChain, Types, LocalsType

LEMMA IndirectMoves ==
    ASSUME IInv, NEW r \in Requests, AddBufIndirect(r)
    PROVE  ToChain(free_head) /\ free_head = Top(freeStack) /\ free_head \in D
           /\ chain[free_head] = <<>>
<1>1. freeStack # <<>>
  <2>1. pc = "idle" /\ num_free >= 1
    BY DEF AddBufIndirect
  <2>2. Len(freeStack) = num_free
    BY <2>1 DEF IInv, Counted, Getting, Types
  <2> QED BY <2>1, <2>2, EmptySeq
<1>2. free_head = Top(freeStack) /\ free_head \in D /\ chain[free_head] = <<>>
  BY <1>1, FreeHead DEF AddBufIndirect
<1>3. Append(chain[free_head], Top(freeStack)) = <<free_head>>
  BY <1>2
<1> QED BY <1>1, <1>2, <1>3 DEF AddBufIndirect, ToChain

\* The entry GetBuf takes is a request that was published.
LEMMA TakeMoves ==
    ASSUME IInv, GetBufTake
    PROVE  \E id \in Published :
              /\ id = vr32(used.ring[Slot(last_used_idx)]) /\ id = UsedAt(0) /\ id \in D
              /\ UsedLen > 0
              /\ indirect_tables[id] # NoTable <=> Indirect(id)
              /\ Indirect(id) => ToFree(id)
<1> DEFINE id == vr32(used.ring[Slot(last_used_idx)])
<1>1. id = UsedAt(0) /\ UsedLen \in Nat /\ UsedLen # 0 /\ pc = "idle"
  BY UsedWindowIs DEF IInv, GetBufTake
<1>2. id # N
  BY Sizes DEF GetBufTake
<1>3. id \in Published
  BY <1>1, <1>2 DEF IInv, Completed, Getting
<1>4. id \in D
  BY <1>3 DEF Published
<1>5. indirect_tables[id] # NoTable <=> Indirect(id)
  <2>1. TableOK(id) /\ req[id] \in Requests
    BY <1>3, <1>4 DEF IInv, TablesKept, Calls
  <2>2. SgList(req[id]) # NoTable
    BY <2>1, RequestTypes
  <2> QED BY <1>1, <2>1, <2>2 DEF TableOK, Unnoted, Meant
<1>6. ASSUME Indirect(id) PROVE ToFree(id)
  <2>1. chain[id] = <<id>>
    BY <1>6 DEF Indirect
  <2>2. /\ freeStack' = Append(freeStack, id) /\ chain' = [chain EXCEPT ![id] = Tail(@)]
    BY <1>5, <1>6 DEF GetBufTake
  <2> QED BY <2>1, <2>2 DEF ToFree
<1> HIDE DEF id
<1>7. id = vr32(used.ring[Slot(last_used_idx)])
  BY DEF id
<1> QED BY <1>1, <1>3, <1>4, <1>5, <1>6, <1>7

LEMMA FreeMoves ==
    ASSUME IInv, GetBufLoop
    PROVE  ToFree(get.head) /\ get.idx = chain[get.head][1] /\ get.head \in D /\ get.idx \in D
           /\ Linked(get.head) /\ ~Open(get.head) /\ Taken(get.head)
<1>1. pc = "getLoop" /\ get.head \in D /\ get.idx \in D
  BY DEF GetBufLoop, IInv, Types, LocalsType
<1>2. chain[get.head] # <<>> /\ get.idx = chain[get.head][1]
  BY <1>1 DEF IInv, Calls
<1>3. ~Open(get.head) /\ Taken(get.head)
  BY <1>1 DEF Open, Taken, Getting
<1>4. ChainOK(get.head)
  BY <1>1 DEF IInv, Chains
<1> QED BY <1>1, <1>2, <1>3, <1>4 DEF ChainOK, ToFree, GetBufLoop
-----------------------------------------------------------------------------
\* The steps that leave the descriptors and the calls alone.
Quiet ==
    \/ GetBufEmpty \/ GetBufBogus
    \/ DevFetch \/ DevWalk \/ (\E h \in D : DevComplete(h)) \/ DevBogus
    \/ IrqDeliver

listVars == <<desc, free_head, num_free, cookies, indirect_tables, pc, add, get,
              freeStack, chain, req>>

LEMMA QuietKeeps ==
    ASSUME Quiet
    PROVE  UNCHANGED listVars
<1>1. CASE GetBufEmpty
  BY <1>1 DEF GetBufEmpty, listVars, driverVars, historyVars
<1>2. CASE GetBufBogus
  BY <1>2 DEF GetBufBogus, listVars, driverVars, historyVars
<1>3. CASE DevFetch
  BY <1>3 DEF DevFetch, listVars, driverVars, historyVars
<1>4. CASE DevWalk
  BY <1>4 DEF DevWalk, listVars, driverVars, historyVars
<1>5. CASE \E h \in D : DevComplete(h)
  BY <1>5 DEF DevComplete, listVars, driverVars, historyVars
<1>6. CASE DevBogus
  BY <1>6 DEF DevBogus, listVars, driverVars, historyVars
<1>7. CASE IrqDeliver
  BY <1>7 DEF IrqDeliver, listVars, driverVars, historyVars
<1> QED BY <1>1, <1>2, <1>3, <1>4, <1>5, <1>6, <1>7 DEF Quiet

LEMMA StepCases ==
    ASSUME Next
    PROVE  \/ \E r \in Requests : AddBufDirect(r) \/ AddBufIndirect(r)
           \/ AddBufLoop \/ AddBufRing \/ AddBufIdx
           \/ GetBufTake \/ GetBufLoop \/ GetBufDone
           \/ Quiet
  BY DEF Next, AddBufSteps, GetBuf, Device, Quiet

\* Conservation of the descriptors.
LEMMA ConservationStep ==
    ASSUME IInv, Next
    PROVE  Conservation'
<1>0. Conservation /\ freeStack \in Seq(D) /\ chain \in [D -> Seq(D)]
  BY DEF IInv, Types
<1>1. ASSUME UNCHANGED <<freeStack, chain>> PROVE Conservation'
  BY <1>0, <1>1 DEF Conservation
<1>2. ASSUME NEW r \in Requests, AddBufDirect(r) PROVE Conservation'
  BY <1>1, <1>2 DEF AddBufDirect
<1>3. ASSUME NEW r \in Requests, AddBufIndirect(r) PROVE Conservation'
  <2>1. ToChain(free_head) /\ free_head \in D
    BY <1>3, IndirectMoves
  <2> QED BY <1>0, <2>1, ToChainConserves
<1>4. CASE AddBufLoop
  <2>1. ToChain(add.head) /\ add.head \in D
    BY <1>4, LoopMoves
  <2> QED BY <1>0, <2>1, ToChainConserves
<1>5. CASE GetBufTake
  <2>1. PICK id \in Published :
           /\ id \in D /\ id = vr32(used.ring[Slot(last_used_idx)])
           /\ indirect_tables[id] # NoTable <=> Indirect(id)
           /\ Indirect(id) => ToFree(id)
    BY <1>5, TakeMoves
  <2>2. CASE Indirect(id)
    BY <1>0, <2>1, <2>2, ToFreeConserves
  <2>3. CASE ~Indirect(id)
    BY <1>1, <1>5, <2>1, <2>3 DEF GetBufTake
  <2> QED BY <2>2, <2>3
<1>6. CASE GetBufLoop
  <2>1. ToFree(get.head) /\ get.head \in D
    BY <1>6, FreeMoves
  <2> QED BY <1>0, <2>1, ToFreeConserves
<1>7. CASE AddBufRing \/ AddBufIdx \/ GetBufDone
  BY <1>1, <1>7 DEF AddBufRing, AddBufIdx, GetBufDone, historyVars
<1>8. CASE Quiet
  BY <1>1, <1>8, QuietKeeps DEF listVars
<1> QED BY <1>2, <1>3, <1>4, <1>5, <1>6, <1>7, <1>8, StepCases
-----------------------------------------------------------------------------
\* What a step changes of the table is one descriptor.

LEMMA TakenFromList ==
    ASSUME IInv, NEW h \in D, ToChain(h), NEW d \in Descriptors,
           desc' = [desc EXCEPT ![Top(freeStack)] = d]
    PROVE  /\ \A k \in 1..Len(freeStack') :
                 desc'[freeStack'[k]].next \in D /\ desc'[freeStack'[k]].flag = "none"
           /\ \A k \in 2..Len(freeStack') : desc'[freeStack'[k]].next = freeStack'[k-1]
           /\ desc[Top(freeStack)].next \in D
           /\ freeStack' # <<>> => desc[Top(freeStack)].next = Top(freeStack')
           /\ \A x \in D \ {Top(freeStack)} : desc'[x] = desc[x]
           /\ desc'[Top(freeStack)] = d
           /\ desc' \in [D -> Descriptors]
           /\ \A k \in D : \A i \in 1..Len(chain[k]) :
                 /\ chain[k][i] \in D /\ chain[k][i] # Top(freeStack)
                 /\ desc'[chain[k][i]] = desc[chain[k][i]]
<1> DEFINE n == Len(freeStack)
           top == Top(freeStack)
<1>0. freeStack \in Seq(D) /\ chain \in [D -> Seq(D)] /\ desc \in [D -> Descriptors]
      /\ Conservation
  BY DEF IInv, Types
<1>1. /\ n \in Nat \ {0} /\ Len(freeStack') = n - 1
      /\ \A i \in 1..n-1 : freeStack'[i] = freeStack[i]
      /\ top = freeStack[n] /\ top \in D /\ freeStack' \in Seq(D)
  BY <1>0, ToChainEffect
<1>2. /\ \A i \in 1..n-1 : freeStack[i] # top
      /\ \A k \in D : \A i \in 1..Len(chain[k]) : chain[k][i] # top
  BY <1>0, ToChainConserves
<1>3. /\ \A k \in 1..n : desc[freeStack[k]].next \in D /\ desc[freeStack[k]].flag = "none"
      /\ \A k \in 2..n : desc[freeStack[k]].next = freeStack[k-1]
  BY DEF IInv, FreeList
<1>4. /\ \A x \in D \ {top} : desc'[x] = desc[x]
      /\ desc'[top] = d /\ desc' \in [D -> Descriptors]
  BY <1>0, <1>1
<1>5. \A k \in 1..n-1 : freeStack[k] \in D
  BY <1>0, <1>1, ElementOfSeq
<1> HIDE DEF n, top
<1>6. ASSUME NEW k \in 1..Len(freeStack')
      PROVE  desc'[freeStack'[k]].next \in D /\ desc'[freeStack'[k]].flag = "none"
  <2>1. k \in 1..n-1 /\ k \in 1..n
    BY <1>1
  <2>2. desc'[freeStack'[k]] = desc[freeStack[k]]
    BY <1>1, <1>2, <1>4, <1>5, <2>1
  <2> QED BY <1>3, <2>1, <2>2
<1>7. ASSUME NEW k \in 2..Len(freeStack')
      PROVE  desc'[freeStack'[k]].next = freeStack'[k-1]
  <2>1. k \in 1..n-1 /\ k \in 2..n /\ k-1 \in 1..n-1
    BY <1>1
  <2>2. desc'[freeStack'[k]] = desc[freeStack[k]]
    BY <1>1, <1>2, <1>4, <1>5, <2>1
  <2> QED BY <1>1, <1>3, <2>1, <2>2
<1>8. desc[top].next \in D
  <2>1. n \in 1..n
    <3>1. n \in Nat \ {0}
      BY <1>1
    <3> QED BY <3>1
  <2> QED BY <1>1, <1>3, <2>1
<1>9. ASSUME freeStack' # <<>> PROVE desc[top].next = Top(freeStack')
  <2>1. Len(freeStack') # 0
    BY <1>1, <1>9, EmptySeq
  <2>2. n \in 2..n /\ n-1 \in 1..n-1
    <3>1. n \in Nat /\ n > 1
      BY <1>1, <2>1
    <3> QED BY <3>1
  <2>3. desc[freeStack[n]].next = freeStack[n-1]
    BY <1>3, <2>2
  <2>4. Top(freeStack') = freeStack[n-1]
    BY <1>1, <2>2 DEF Top
  <2> QED BY <1>1, <2>3, <2>4
<1>10. ASSUME NEW k \in D, NEW i \in 1..Len(chain[k])
       PROVE  /\ chain[k][i] \in D /\ chain[k][i] # top
              /\ desc'[chain[k][i]] = desc[chain[k][i]]
  <2>1. chain[k][i] \in D
    BY <1>0, ElementOfSeq
  <2> QED BY <1>2, <1>4, <2>1
<1> QED BY <1>4, <1>6, <1>7, <1>8, <1>9, <1>10 DEF top

LEMMA GivenToList ==
    ASSUME IInv, NEW h \in D, ToFree(h), pc # "addLoop",
           desc' = [desc EXCEPT ![chain[h][1]] = Freed(free_head)]
    PROVE  /\ \A k \in 1..Len(freeStack') :
                 desc'[freeStack'[k]].next \in D /\ desc'[freeStack'[k]].flag = "none"
           /\ \A k \in 2..Len(freeStack') : desc'[freeStack'[k]].next = freeStack'[k-1]
           /\ Top(freeStack') = chain[h][1] /\ chain[h][1] \in D
           /\ \A x \in D \ {chain[h][1]} : desc'[x] = desc[x]
           /\ desc' \in [D -> Descriptors]
           /\ \A k \in D : \A i \in 1..Len(chain'[k]) :
                 /\ chain'[k][i] \in D
                 /\ chain'[k][i] # chain[h][1] /\ desc'[chain'[k][i]] = desc[chain'[k][i]]
<1> DEFINE n == Len(freeStack)
           first == chain[h][1]
<1>0. freeStack \in Seq(D) /\ chain \in [D -> Seq(D)] /\ desc \in [D -> Descriptors]
      /\ Conservation /\ free_head \in D
  BY DEF IInv, Types
<1>1. /\ n \in Nat /\ Len(freeStack') = n + 1
      /\ \A i \in 1..n : freeStack'[i] = freeStack[i]
      /\ freeStack'[n+1] = first /\ first \in D /\ Top(freeStack') = first
      /\ chain' \in [D -> Seq(D)]
  BY <1>0, ToFreeEffect
<1>2. /\ \A i \in 1..n : freeStack[i] # first
      /\ \A k \in D : \A i \in 1..Len(chain'[k]) : chain'[k][i] # first
  BY <1>0, ToFreeConserves
<1>3. /\ \A k \in 1..n : desc[freeStack[k]].next \in D /\ desc[freeStack[k]].flag = "none"
      /\ \A k \in 2..n : desc[freeStack[k]].next = freeStack[k-1]
      /\ freeStack # <<>> => free_head = Top(freeStack)
  BY DEF IInv, FreeList
<1>4. /\ Freed(free_head) \in Descriptors
      /\ Freed(free_head).next = free_head /\ Freed(free_head).flag = "none"
  BY <1>0, Words DEF Freed, Descriptors, Addrs
<1>5. /\ \A x \in D \ {first} : desc'[x] = desc[x]
      /\ desc'[first] = Freed(free_head) /\ desc' \in [D -> Descriptors]
  BY <1>0, <1>1, <1>4
<1>6. \A k \in 1..n : freeStack[k] \in D
  BY <1>0, ElementOfSeq
<1>0a. freeStack # <<>> <=> n # 0
  BY <1>0, EmptySeq
<1>0b. Top(freeStack) = freeStack[n]
  BY DEF Top
<1> HIDE DEF n, first
<1>7. ASSUME NEW k \in 1..Len(freeStack')
      PROVE  desc'[freeStack'[k]].next \in D /\ desc'[freeStack'[k]].flag = "none"
  <2>1. CASE k = n + 1
    BY <1>0, <1>1, <1>4, <1>5, <2>1
  <2>2. CASE k # n + 1
    <3>1. k \in 1..n
      BY <1>1, <2>2
    <3>2. desc'[freeStack'[k]] = desc[freeStack[k]]
      BY <1>1, <1>2, <1>5, <1>6, <3>1
    <3> QED BY <1>3, <3>1, <3>2
  <2> QED BY <2>1, <2>2
<1>8. ASSUME NEW k \in 2..Len(freeStack')
      PROVE  desc'[freeStack'[k]].next = freeStack'[k-1]
  <2>1. CASE k = n + 1
    <3>1. n # 0 /\ k - 1 = n /\ n \in 1..n
      BY <1>1, <2>1
    <3>2. free_head = freeStack[n]
      BY <1>3, <1>0a, <1>0b, <3>1
    <3> QED BY <1>1, <1>4, <1>5, <2>1, <3>1, <3>2
  <2>2. CASE k # n + 1
    <3>1. k \in 1..n /\ k \in 2..n /\ k-1 \in 1..n
      BY <1>1, <2>2
    <3>2. desc'[freeStack'[k]] = desc[freeStack[k]]
      BY <1>1, <1>2, <1>5, <1>6, <3>1
    <3> QED BY <1>1, <1>3, <3>1, <3>2
  <2> QED BY <2>1, <2>2
<1>9. ASSUME NEW k \in D, NEW i \in 1..Len(chain'[k])
      PROVE  /\ chain'[k][i] \in D
             /\ chain'[k][i] # first /\ desc'[chain'[k][i]] = desc[chain'[k][i]]
  <2>1. chain'[k][i] \in D
    BY <1>1, ElementOfSeq
  <2> QED BY <1>2, <1>5, <2>1
<1> QED BY <1>1, <1>5, <1>7, <1>8, <1>9 DEF first

\* An iteration of the chain loop: what it writes and where it goes next.
LEMMA LoopWrites ==
    ASSUME IInv, AddBufLoop
    PROVE  LET top == Top(freeStack)
               next_idx == desc[top].next
               last == add.n = add.r.total - 1
           IN /\ next_idx \in D /\ add.r \in Requests /\ add.n \in Nat
              /\ \E d \in Descriptors :
                    /\ desc' = [desc EXCEPT ![top] = d]
                    /\ d.addr = <<add.r.cookie, add.n + 1>>
                    /\ d.write = (add.n >= add.r.out)
                    /\ d.flag = IF last THEN "none" ELSE "next"
                    /\ ~last => d.next = vr16(next_idx)
              /\ free_head' = IF last THEN next_idx ELSE free_head
              /\ pc = "addLoop" /\ pc' = IF last THEN "addRing" ELSE "addLoop"
              /\ add' \in [head : D, idx : D, n : Nat, taken : Nat,
                           r : Requests \cup {NoReq}, table : Tables]
              /\ add'.head = add.head /\ add'.r = add.r /\ add'.taken = add.taken
              /\ add'.table = add.table /\ add'.n = add.n + 1
              /\ add'.idx = IF last THEN add.idx ELSE next_idx
              /\ UNCHANGED <<num_free, cookies, indirect_tables, get, req,
                             last_used_idx, avail, used, dev, irq, drained>>
<1> DEFINE top == Top(freeStack)
           next_idx == desc[top].next
           last == add.n = add.r.total - 1
<1>1. /\ pc = "addLoop" /\ add.r \in Requests /\ add.n \in Nat
      /\ add.head \in D /\ add.taken \in Nat /\ add.table \in Tables
      /\ add \in [head : D, idx : D, n : Nat, taken : Nat,
                  r : Requests \cup {NoReq}, table : Tables]
  BY DEF AddBufLoop, IInv, Types, LocalsType, Adding
<1>2. add.idx = top /\ top \in D
  BY LoopMoves
<1>3. next_idx \in D
  <2>1. freeStack \in Seq(D) /\ freeStack # <<>>
    BY LoopMoves DEF IInv, Types, ToChain
  <2>2. Len(freeStack) \in 1..Len(freeStack) /\ top = freeStack[Len(freeStack)]
    BY <2>1, Popped
  <2> QED BY <2>2 DEF IInv, FreeList
<1>4. add.r.cookie \in Cookies /\ add.r.out \in Nat
  BY <1>1, RequestTypes
<1> HIDE DEF top, next_idx, last
<1> DEFINE d == [addr |-> <<add.r.cookie, add.n + 1>>,
                 write |-> IsWrite(add.n, add.r),
                 flag |-> IF last THEN "none" ELSE "next",
                 next |-> IF last THEN next_idx ELSE Link(next_idx)]
<1>5. d \in Descriptors
  <2>1. next_idx \in Word16 /\ Link(next_idx) \in Word16
    BY <1>3, Words, Orders DEF Link
  <2>2. IsWrite(add.n, add.r) \in BOOLEAN
    BY DEF IsWrite
  <2>3. <<add.r.cookie, add.n + 1>> \in Addrs
    BY <1>1, <1>4 DEF Addrs
  <2> QED BY <2>1, <2>2, <2>3 DEF Descriptors
<1>6. d.addr = <<add.r.cookie, add.n + 1>>
  BY Zenon
<1>7. d.write = (add.n >= add.r.out)
  <2>1. d.write = IsWrite(add.n, add.r)
    BY Zenon
  <2> QED BY <2>1, Zenon DEF IsWrite
<1>8. d.flag = (IF last THEN "none" ELSE "next") /\ (~last => d.next = vr16(next_idx))
  BY DEF Link
<1>9. desc' = [desc EXCEPT ![top] = d]
  BY <1>2 DEF AddBufLoop, next_idx, last
<1> HIDE DEF d
<1>10. free_head' = IF last THEN next_idx ELSE free_head
  BY <1>2 DEF AddBufLoop, FreeHeadAfter, next_idx, last
<1>11. pc' = IF last THEN "addRing" ELSE "addLoop"
  BY DEF AddBufLoop, last
<1>12. PICK i \in D : i = IF last THEN add.idx ELSE next_idx
  BY <1>2, <1>3
<1>13. add' = [add EXCEPT !.n = @ + 1, !.idx = i]
  BY <1>2, <1>12 DEF AddBufLoop, next_idx, last
<1>14. UNCHANGED <<num_free, cookies, indirect_tables, get, req,
                   last_used_idx, avail, used, dev, irq, drained>>
  BY DEF AddBufLoop
<1>15. /\ add' \in [head : D, idx : D, n : Nat, taken : Nat,
                    r : Requests \cup {NoReq}, table : Tables]
       /\ add'.head = add.head /\ add'.r = add.r /\ add'.taken = add.taken
       /\ add'.table = add.table /\ add'.n = add.n + 1 /\ add'.idx = i
  <2>1. add.n + 1 \in Nat /\ i \in D
    BY <1>1, <1>12
  <2>2. PICK n \in Nat : n = add.n + 1
    BY <2>1
  <2>3. add' = [add EXCEPT !.n = n, !.idx = i]
    BY <1>13, <2>2
  <2>4. add \in [head : D, idx : D, n : Nat, taken : Nat,
                r : Requests \cup {NoReq}, table : Tables]
    BY <1>1
  <2>5. /\ add' \in [head : D, idx : D, n : Nat, taken : Nat,
                     r : Requests \cup {NoReq}, table : Tables]
        /\ add'.head = add.head /\ add'.r = add.r /\ add'.taken = add.taken
        /\ add'.table = add.table /\ add'.n = n /\ add'.idx = i
    BY <2>1, <2>3, <2>4
  <2> QED BY <2>2, <2>5
<1>16. \E x \in Descriptors :
          /\ desc' = [desc EXCEPT ![top] = x]
          /\ x.addr = <<add.r.cookie, add.n + 1>>
          /\ x.write = (add.n >= add.r.out)
          /\ x.flag = IF last THEN "none" ELSE "next"
          /\ ~last => x.next = vr16(next_idx)
  BY <1>5, <1>6, <1>7, <1>8, <1>9, Zenon
<1>17. add'.idx = IF last THEN add.idx ELSE next_idx
  BY <1>12, <1>15
<1> QED BY <1>1, <1>3, <1>10, <1>11, <1>14, <1>15, <1>16, <1>17, Zenon
        DEF top, next_idx, last
-----------------------------------------------------------------------------
\* The free list.
LEMMA FreeListStep ==
    ASSUME IInv, Next
    PROVE  FreeList'
<1>0. /\ FreeList /\ freeStack \in Seq(D) /\ chain \in [D -> Seq(D)]
      /\ \A r \in Requests : r.total \in Nat \ {0}
  BY RequestTypes DEF IInv, Types
<1>1. ASSUME UNCHANGED <<desc, free_head, freeStack>>, pc # "addLoop", pc' # "addLoop"
      PROVE  FreeList'
  BY <1>0, <1>1 DEF FreeList
<1>2. ASSUME NEW r \in Requests, AddBufDirect(r) PROVE FreeList'
  <2>1. /\ pc = "idle" /\ num_free >= r.total /\ pc' = "addLoop"
        /\ UNCHANGED <<desc, free_head, freeStack>>
        /\ add'.idx = free_head /\ add'.n = 0 /\ add'.r = r
    BY <1>2 DEF AddBufDirect, driverVars
  <2>2. Len(freeStack) = num_free /\ num_free \in Nat
    BY <2>1 DEF IInv, Counted, Getting, Types
  <2>3. freeStack # <<>> /\ r.total <= Len(freeStack) /\ 0 < r.total /\ r.total - 0 = r.total
    BY <1>0, <2>1, <2>2, EmptySeq
  <2>4. free_head = Top(freeStack)
    BY <1>0, <2>1, <2>3 DEF FreeList
  <2> QED BY <1>0, <2>1, <2>3, <2>4 DEF FreeList
<1>3. ASSUME NEW r \in Requests, AddBufIndirect(r) PROVE FreeList'
  <2>1. ToChain(free_head) /\ free_head = Top(freeStack) /\ free_head \in D
    BY <1>3, IndirectMoves
  <2>2. PICK d \in Descriptors : d = [addr |-> <<"table", free_head>>, write |-> FALSE,
                                      flag |-> "indirect", next |-> 0]
    BY <2>1, Words DEF Descriptors, Addrs
  <2>3. /\ desc' = [desc EXCEPT ![Top(freeStack)] = d] /\ pc' = "addRing"
        /\ free_head' = desc[Top(freeStack)].next
    BY <1>3, <2>1, <2>2 DEF AddBufIndirect, NextFree
  <2>4. /\ \A k \in 1..Len(freeStack') :
              desc'[freeStack'[k]].next \in D /\ desc'[freeStack'[k]].flag = "none"
        /\ \A k \in 2..Len(freeStack') : desc'[freeStack'[k]].next = freeStack'[k-1]
        /\ freeStack' # <<>> => desc[Top(freeStack)].next = Top(freeStack')
    BY <2>1, <2>3, TakenFromList
  <2> QED BY <2>3, <2>4 DEF FreeList
<1>4. CASE AddBufLoop
  <2> DEFINE last == add.n = add.r.total - 1
             next_idx == desc[Top(freeStack)].next
  <2>1. ToChain(add.head) /\ add.head \in D
    BY <1>4, LoopMoves
  <2>2. PICK d \in Descriptors : desc' = [desc EXCEPT ![Top(freeStack)] = d]
    BY <1>4, LoopWrites
  <2>3. /\ add.r \in Requests /\ add.n \in Nat
        /\ free_head' = IF last THEN next_idx ELSE free_head
        /\ pc = "addLoop" /\ pc' = IF last THEN "addRing" ELSE "addLoop"
        /\ add'.r = add.r /\ add'.n = add.n + 1
        /\ add'.idx = IF last THEN add.idx ELSE next_idx
    BY <1>4, LoopWrites
  <2> HIDE DEF next_idx
  <2>4. /\ \A k \in 1..Len(freeStack') :
              desc'[freeStack'[k]].next \in D /\ desc'[freeStack'[k]].flag = "none"
        /\ \A k \in 2..Len(freeStack') : desc'[freeStack'[k]].next = freeStack'[k-1]
        /\ freeStack' # <<>> => next_idx = Top(freeStack')
    BY <2>1, <2>2, TakenFromList DEF next_idx
  <2>5. CASE last
    BY <2>3, <2>4, <2>5 DEF FreeList
  <2>6. CASE ~last
    <3>1. /\ Len(freeStack) \in Nat /\ Len(freeStack') = Len(freeStack) - 1
          /\ freeStack' \in Seq(D)
      BY <1>0, <2>1, ToChainEffect
    <3>2. add.n < add.r.total /\ add.r.total - add.n <= Len(freeStack)
      BY <1>0, <2>3 DEF FreeList
    <3>3. add.r.total \in Nat
      BY <1>0, <2>3
    <3>4. add.n + 1 < add.r.total /\ add.r.total - (add.n + 1) <= Len(freeStack')
          /\ Len(freeStack') # 0
      BY <2>3, <2>6, <3>1, <3>2, <3>3, SMTT(60)
    <3>5. freeStack' # <<>>
      BY <3>1, <3>4, EmptySeq
    <3>6. pc' = "addLoop" /\ add'.idx = Top(freeStack')
      BY <2>3, <2>4, <2>6, <3>5
    <3>7. add'.n < add'.r.total /\ add'.r.total - add'.n <= Len(freeStack')
      BY <2>3, <3>4
    <3> QED BY <2>4, <3>5, <3>6, <3>7 DEF FreeList
  <2> QED BY <2>5, <2>6
<1>5. CASE GetBufTake
  <2>1. PICK id \in Published :
           /\ id \in D /\ id = vr32(used.ring[Slot(last_used_idx)])
           /\ indirect_tables[id] # NoTable <=> Indirect(id)
           /\ Indirect(id) => ToFree(id)
    BY <1>5, TakeMoves
  <2>2. CASE Indirect(id)
    <3>1. chain[id][1] = id
      BY <2>2 DEF Indirect
    <3>2. /\ pc = "idle" /\ pc' = "getDone" /\ free_head' = id
          /\ desc' = [desc EXCEPT ![chain[id][1]] = Freed(free_head)]
      BY <1>5, <2>1, <2>2, <3>1 DEF GetBufTake
    <3>3. /\ \A k \in 1..Len(freeStack') :
                desc'[freeStack'[k]].next \in D /\ desc'[freeStack'[k]].flag = "none"
          /\ \A k \in 2..Len(freeStack') : desc'[freeStack'[k]].next = freeStack'[k-1]
          /\ Top(freeStack') = chain[id][1]
      BY <2>1, <2>2, <3>2, GivenToList
    <3> QED BY <3>1, <3>2, <3>3 DEF FreeList
  <2>3. CASE ~Indirect(id)
    BY <1>1, <1>5, <2>1, <2>3 DEF GetBufTake
  <2> QED BY <2>2, <2>3
<1>6. CASE GetBufLoop
  <2>1. ToFree(get.head) /\ get.head \in D /\ get.idx = chain[get.head][1]
    BY <1>6, FreeMoves
  <2>2. /\ pc = "getLoop" /\ pc' # "addLoop" /\ free_head' = chain[get.head][1]
        /\ desc' = [desc EXCEPT ![chain[get.head][1]] = Freed(free_head)]
    BY <1>6, <2>1 DEF GetBufLoop
  <2>3. /\ \A k \in 1..Len(freeStack') :
              desc'[freeStack'[k]].next \in D /\ desc'[freeStack'[k]].flag = "none"
        /\ \A k \in 2..Len(freeStack') : desc'[freeStack'[k]].next = freeStack'[k-1]
        /\ Top(freeStack') = chain[get.head][1]
    BY <2>1, <2>2, GivenToList
  <2> QED BY <2>2, <2>3 DEF FreeList
<1>7. CASE AddBufRing \/ AddBufIdx \/ GetBufDone
  BY <1>1, <1>7 DEF AddBufRing, AddBufIdx, GetBufDone, historyVars, driverVars
<1>8. CASE Quiet
  BY <1>0, <1>8, QuietKeeps DEF listVars, FreeList
<1> QED BY <1>2, <1>3, <1>4, <1>5, <1>6, <1>7, <1>8, StepCases

\* num_free, with what the call under way has still to count.
LEMMA CountedStep ==
    ASSUME IInv, Next, Conservation', freeStack' \in Seq(D)
    PROVE  Counted'
<1>0. /\ Counted /\ freeStack \in Seq(D) /\ chain \in [D -> Seq(D)]
      /\ num_free \in Nat /\ add.n \in Nat /\ add.taken \in Nat /\ get.freed \in Nat
      /\ Len(freeStack) \in Nat /\ num_free <= N /\ N \in Nat
  BY Sizes, LenProperties DEF IInv, Types, LocalsType, Counted
<1>2. ASSUME NEW r \in Requests, AddBufDirect(r) PROVE Counted'
  <2>1. /\ pc = "idle" /\ pc' = "addLoop" /\ add'.n = 0
        /\ UNCHANGED <<num_free, freeStack, get>>
    BY <1>2 DEF AddBufDirect, driverVars
  <2> QED BY <1>0, <2>1 DEF Counted, Getting
<1>3. ASSUME NEW r \in Requests, AddBufIndirect(r) PROVE Counted'
  <2>1. ToChain(free_head) /\ free_head \in D
    BY <1>3, IndirectMoves
  <2>2. Len(freeStack') = Len(freeStack) - 1
    BY <1>0, <2>1, ToChainEffect
  <2>3. /\ pc = "idle" /\ pc' = "addRing" /\ add'.taken = 1 /\ num_free' = num_free
    BY <1>3 DEF AddBufIndirect
  <2> QED BY <1>0, <2>2, <2>3 DEF Counted, Getting
<1>4. CASE AddBufLoop
  <2> DEFINE last == add.n = add.r.total - 1
  <2>1. ToChain(add.head) /\ add.head \in D
    BY <1>4, LoopMoves
  <2>2. Len(freeStack') = Len(freeStack) - 1
    BY <1>0, <2>1, ToChainEffect
  <2>3. /\ pc = "addLoop" /\ pc' = IF last THEN "addRing" ELSE "addLoop"
        /\ add'.n = add.n + 1 /\ add'.taken = add.taken /\ num_free' = num_free
        /\ add.r \in Requests
    BY <1>4, LoopWrites
  <2>4. add.taken = add.r.total /\ add.r.total \in Nat
    BY <2>3, RequestTypes DEF IInv, Calls
  <2>5. last => add.taken = add.n + 1
    BY <1>0, <2>4
  <2>6. Len(freeStack) = num_free - add.n
    BY <1>0, <2>3 DEF Counted, Getting
  <2>7. Len(freeStack') = num_free' - (IF pc' = "addLoop" THEN add'.n
                                       ELSE IF pc' = "addRing" THEN add'.taken ELSE 0)
    <3>1. CASE last
      BY <1>0, <2>2, <2>3, <2>5, <2>6, <3>1, SMTT(60)
    <3>2. CASE ~last
      BY <1>0, <2>2, <2>3, <2>6, <3>2
    <3> QED BY <3>1, <3>2
  <2>8. pc' \notin Getting
    BY <2>3 DEF Getting
  <2>9. Len(freeStack') \in Int
    BY <1>0, <2>2
  <2> QED BY <1>0, <2>3, <2>7, <2>8, <2>9 DEF Counted
<1>5. CASE GetBufTake
  <2>1. PICK id \in Published :
           /\ id \in D /\ id = vr32(used.ring[Slot(last_used_idx)])
           /\ indirect_tables[id] # NoTable <=> Indirect(id)
           /\ Indirect(id) => ToFree(id)
    BY <1>5, TakeMoves
  <2>2. /\ pc = "idle" /\ pc' \in Getting /\ pc' # "addLoop" /\ pc' # "addRing"
        /\ num_free' = num_free
        /\ get'.freed = FreedFrom(indirect_tables[id] # NoTable)
    BY <1>5, <2>1 DEF GetBufTake, Getting
  <2>3. CASE Indirect(id)
    <3>1. Len(freeStack') = Len(freeStack) + 1
      BY <1>0, <2>1, <2>3, ToFreeEffect
    <3>2. get'.freed = 1
      BY <2>1, <2>2, <2>3 DEF FreedFrom
    <3> QED BY <1>0, <2>2, <3>1, <3>2 DEF Counted, Getting
  <2>4. CASE ~Indirect(id)
    <3>1. freeStack' = freeStack
      BY <1>5, <2>1, <2>4 DEF GetBufTake
    <3>2. get'.freed = 0
      BY <2>1, <2>2, <2>4 DEF FreedFrom
    <3> QED BY <1>0, <2>2, <3>1, <3>2 DEF Counted, Getting
  <2> QED BY <2>3, <2>4
<1>6. CASE GetBufLoop
  <2>1. ToFree(get.head) /\ get.head \in D
    BY <1>6, FreeMoves
  <2>2. Len(freeStack') = Len(freeStack) + 1
    BY <1>0, <2>1, ToFreeEffect
  <2>3. /\ pc = "getLoop" /\ pc' \in Getting /\ pc' # "addLoop" /\ pc' # "addRing"
        /\ num_free' = num_free
    BY <1>6 DEF GetBufLoop, Getting
  <2>4. get'.freed = get.freed + 1
    <3>1. get \in [head : D, idx : D, freed : Nat, cookie : Cookies \cup {NoCookie}]
      BY DEF IInv, Types, LocalsType
    <3> QED BY <1>6, <3>1 DEF GetBufLoop
  <2> QED BY <1>0, <2>2, <2>3, <2>4 DEF Counted, Getting
<1>7. CASE AddBufRing
  <2>1. /\ pc = "addRing" /\ pc' = "addIdx" /\ num_free' = num_free - add.taken
        /\ freeStack' = freeStack
    BY <1>7 DEF AddBufRing, historyVars
  <2> QED BY <1>0, <2>1 DEF Counted, Getting
<1>8. CASE AddBufIdx
  BY <1>0, <1>8 DEF AddBufIdx, Counted, Getting, historyVars, driverVars
<1>9. CASE GetBufDone
  <2>1. /\ pc = "getDone" /\ pc' = "idle" /\ num_free' = num_free + get.freed
        /\ freeStack' = freeStack
    BY <1>9 DEF GetBufDone
  <2>2. Len(freeStack) = num_free + get.freed
    BY <1>0, <2>1 DEF Counted, Getting
  <2>3. Len(freeStack) <= N
    BY <1>0, FreeListBounded DEF IInv
  <2> QED BY <1>0, <2>1, <2>2, <2>3 DEF Counted, Getting
<1>10. CASE Quiet
  BY <1>0, <1>10, QuietKeeps DEF listVars, Counted
<1> QED BY <1>2, <1>3, <1>4, <1>5, <1>6, <1>7, <1>8, <1>9, <1>10, StepCases
-----------------------------------------------------------------------------
\* The chains.

\* A chain whose head and descriptors a step leaves alone.
LEMMA ChainFrame ==
    ASSUME NEW h \in D, ChainOK(h), Types, chain'[h] = chain[h], req'[h] = req[h],
           \A i \in 1..Len(chain[h]) : desc'[chain[h][i]] = desc[chain[h][i]],
           chain[h] = <<>> \/ (~Open(h) /\ ~Open(h)'),
           Taken(h)' <=> Taken(h)
    PROVE  ChainOK(h)'
<1>1. CASE chain[h] = <<>>
  BY <1>1 DEF ChainOK
<1>2. CASE chain[h] # <<>> /\ Indirect(h) /\ ~Taken(h)
  <2>1. Len(chain[h]) = 1 /\ chain[h][1] = h
    BY <1>2 DEF Indirect
  <2>2. desc'[h] = desc[h]
    BY <2>1
  <2> QED BY <1>2, <2>2 DEF ChainOK, Indirect
<1>3. CASE /\ chain[h] # <<>> /\ Linked(h)
           /\ ~Taken(h) => /\ chain[h][1] = h /\ Filled(h)
                           /\ ~Open(h) => Len(chain[h]) = req[h].total
  <2>1. ~Open(h) /\ ~Open(h)'
    BY <1>3
  <2>2. Linked(h)'
    BY <1>3, <2>1 DEF Linked
  <2>3. Filled(h) => Filled(h)'
    BY DEF Filled
  <2> QED BY <1>3, <2>1, <2>2, <2>3 DEF ChainOK
<1> QED BY <1>1, <1>2, <1>3 DEF ChainOK

\* An iteration of the chain loop extends the chain by what the request says.
LEMMA LoopChain ==
    ASSUME IInv, AddBufLoop, NEW h \in D, h = add.head
    PROVE  ChainOK(h)' /\ Linked(h)' /\ Len(chain'[h]) = add.n + 1 /\ chain'[h] # <<>>
<1> DEFINE c == chain[h]
           m == Len(chain[h])
           top == Top(freeStack)
           next_idx == desc[Top(freeStack)].next
           last == add.n = add.r.total - 1
<1>0. freeStack \in Seq(D) /\ chain \in [D -> Seq(D)]
  BY DEF IInv, Types
<1>1. ToChain(h) /\ add.idx = top
  BY LoopMoves
<1>2. /\ m \in Nat /\ Len(chain'[h]) = m + 1
      /\ \A i \in 1..m : chain'[h][i] = c[i]
      /\ chain'[h][m + 1] = top /\ top \in D /\ chain'[h] # <<>>
  BY <1>0, <1>1, ToChainEffect
<1>3. PICK d \in Descriptors :
         /\ desc' = [desc EXCEPT ![top] = d]
         /\ d.addr = <<add.r.cookie, add.n + 1>>
         /\ d.write = (add.n >= add.r.out)
         /\ d.flag = IF last THEN "none" ELSE "next"
         /\ ~last => d.next = vr16(next_idx)
  BY LoopWrites, Zenon
<1>4. /\ next_idx \in D /\ add.r \in Requests /\ add.n \in Nat
      /\ pc = "addLoop" /\ pc' = IF last THEN "addRing" ELSE "addLoop"
      /\ add'.head = h /\ add'.idx = IF last THEN add.idx ELSE next_idx
      /\ req' = req
  BY LoopWrites, Zenon
<1>5. /\ desc'[top] = d
      /\ \A i \in 1..m : c[i] \in D /\ c[i] # top /\ desc'[c[i]] = desc[c[i]]
  BY <1>1, <1>3, TakenFromList
<1>6. m = add.n /\ req[h] = add.r /\ (add.n = 0 => add.idx = h)
  BY <1>4 DEF IInv, Calls, Adding
<1>7. Open(h) /\ ~Taken(h) /\ (Open(h)' <=> ~last) /\ ~Taken(h)'
  BY <1>4 DEF Open, Taken, Getting
<1>8. m # 0 => Linked(h) /\ c[1] = h /\ Filled(h)
  <2>1. ChainOK(h)
    BY DEF IInv, Chains
  <2>2. m # 0 => c # <<>>
    BY <1>0, EmptySeq
  <2> QED BY <1>7, <2>1, <2>2 DEF ChainOK
<1>9. /\ add.r.total \in Nat \ {0}
      /\ \A i \in 1..add.r.total : /\ SgList(add.r)[i].addr = <<add.r.cookie, i>>
                                   /\ SgList(add.r)[i].write = (i > add.r.out)
      /\ add.r.out \in Nat /\ add.n < add.r.total
  BY <1>4, RequestTypes DEF IInv, FreeList
<1>10. m + 1 \in 1..add.r.total /\ (m + 1 > add.r.out <=> add.n >= add.r.out)
  BY <1>4, <1>6, <1>9
<1> HIDE DEF c, m, top, next_idx, last
<1>11. ASSUME NEW i \in 1..Len(chain'[h])
       PROVE  /\ desc'[chain'[h][i]].flag = IF i < Len(chain'[h]) \/ Open(h)'
                                            THEN "next" ELSE "none"
              /\ i < Len(chain'[h]) => desc'[chain'[h][i]].next = vr16(chain'[h][i+1])
              /\ i = Len(chain'[h]) /\ Open(h)' =>
                    desc'[chain'[h][i]].next = vr16(add'.idx)
  <2>1. CASE i = m + 1
    <3>1. chain'[h][i] = top /\ desc'[top] = d /\ ~(i < Len(chain'[h]))
      BY <1>2, <1>5, <2>1
    <3>2. d.flag = IF Open(h)' THEN "next" ELSE "none"
      BY <1>3, <1>7
    <3>3. Open(h)' => d.next = vr16(add'.idx)
      BY <1>3, <1>4, <1>7
    <3> QED BY <3>1, <3>2, <3>3
  <2>2. CASE i # m + 1
    <3>1. i \in 1..m /\ i < Len(chain'[h]) /\ m # 0
      BY <1>2, <2>2
    <3>2. chain'[h][i] = c[i] /\ desc'[c[i]] = desc[c[i]]
      BY <1>2, <1>5, <3>1
    <3>3. Linked(h)
      BY <1>8, <3>1
    <3>4. desc[c[i]].flag = "next"
      BY <1>7, <3>1, <3>3 DEF Linked, c, m
    <3>5. desc[c[i]].next = vr16(chain'[h][i+1])
      <4>1. CASE i = m
        <5>1. desc[c[i]].next = vr16(add.idx)
          BY <1>7, <3>1, <3>3, <4>1 DEF Linked, c, m
        <5> QED BY <1>1, <1>2, <4>1, <5>1
      <4>2. CASE i # m
        <5>1. i < m /\ i+1 \in 1..m
          BY <1>2, <3>1, <4>2
        <5>2. desc[c[i]].next = vr16(c[i+1])
          BY <3>1, <3>3, <5>1 DEF Linked, c, m
        <5> QED BY <1>2, <5>1, <5>2
      <4> QED BY <4>1, <4>2
    <3>6. i # Len(chain'[h])
      BY <1>2, <2>2
    <3> QED BY <3>1, <3>2, <3>4, <3>5, <3>6
  <2> QED BY <2>1, <2>2
<1>12. Linked(h)'
  BY <1>11 DEF Linked
<1>13. ASSUME NEW i \in 1..Len(chain'[h])
       PROVE  /\ i <= req'[h].total
              /\ desc'[chain'[h][i]].addr = SgList(req'[h])[i].addr
              /\ desc'[chain'[h][i]].write = SgList(req'[h])[i].write
  <2>0. req'[h] = add.r
    BY <1>4, <1>6
  <2>1. CASE i = m + 1
    <3>1. desc'[chain'[h][i]] = d
      BY <1>2, <1>5, <2>1
    <3>2. i \in 1..add.r.total /\ i <= add.r.total
      BY <1>9, <1>10, <2>1
    <3>3. SgList(add.r)[i].addr = <<add.r.cookie, i>>
          /\ SgList(add.r)[i].write = (i > add.r.out)
      BY <1>9, <3>2
    <3>4. d.addr = <<add.r.cookie, i>>
      BY <1>3, <1>6, <2>1
    <3>5. d.write = (i > add.r.out)
      <4>1. (add.n >= add.r.out) = (i > add.r.out)
        <5>1. i > add.r.out <=> add.n >= add.r.out
          BY <1>10, <2>1
        <5>2. (i > add.r.out) \in BOOLEAN /\ (add.n >= add.r.out) \in BOOLEAN
          OBVIOUS
        <5> QED BY <5>1, <5>2
      <4> QED BY <1>3, <4>1, Zenon
    <3>6. d.write = SgList(add.r)[i].write
      BY <3>3, <3>5, Zenon
    <3> QED BY <2>0, <3>1, <3>2, <3>3, <3>4, <3>6, Zenon
  <2>2. CASE i # m + 1
    <3>1. i \in 1..m /\ m # 0
      BY <1>2, <2>2
    <3>2. desc'[chain'[h][i]] = desc[c[i]]
      BY <1>2, <1>5, <3>1
    <3>3. Filled(h) /\ req[h] = add.r
      BY <1>6, <1>8, <3>1
    <3> QED BY <2>0, <3>1, <3>2, <3>3 DEF Filled, c, m
  <2> QED BY <2>1, <2>2
<1>14. Filled(h)'
  BY <1>13 DEF Filled
<1>15. chain'[h][1] = h
  <2>1. CASE m = 0
    BY <1>1, <1>2, <1>6, <2>1
  <2>2. CASE m # 0
    <3>1. 1 \in 1..m
      BY <1>2, <2>2
    <3> QED BY <1>2, <1>8, <2>2, <3>1
  <2> QED BY <2>1, <2>2
<1>16. ~Open(h)' => Len(chain'[h]) = req'[h].total
  BY <1>2, <1>4, <1>6, <1>7, <1>9 DEF last
<1>17. Len(chain'[h]) = add.n + 1
  BY <1>2, <1>6
<1> QED BY <1>2, <1>12, <1>14, <1>15, <1>16, <1>17 DEF ChainOK

\* An iteration of the free loop takes the first link off, and finds the next.
LEMMA FreeChain ==
    ASSUME IInv, GetBufLoop, NEW h \in D, h = get.head
    PROVE  /\ ChainOK(h)'
           /\ get' \in [head : D, idx : D, freed : Nat, cookie : Cookies \cup {NoCookie}]
           /\ get'.head = h /\ get'.cookie = get.cookie
           /\ chain'[h] # <<>> => get'.idx = chain'[h][1]
           /\ pc' = IF chain'[h] = <<>> THEN "getDone" ELSE "getLoop"
<1> DEFINE c == chain[h]
           m == Len(chain[h])
           first == chain[h][1]
           has_next == desc[first].flag = "next"
<1>0. /\ freeStack \in Seq(D) /\ chain \in [D -> Seq(D)] /\ pc = "getLoop"
      /\ get \in [head : D, idx : D, freed : Nat, cookie : Cookies \cup {NoCookie}]
  BY DEF IInv, Types, LocalsType, GetBufLoop
<1>1. ToFree(h) /\ get.idx = first /\ Linked(h) /\ ~Open(h)
  BY FreeMoves
<1>2. /\ m \in Nat \ {0} /\ Len(chain'[h]) = m - 1
      /\ \A i \in 1..m-1 : chain'[h][i] = c[i+1]
      /\ first \in D /\ chain' \in [D -> Seq(D)]
      /\ (chain'[h] = <<>> <=> m = 1)
  BY <1>0, <1>1, ToFreeEffect
<1>3. desc' = [desc EXCEPT ![first] = Freed(free_head)]
  BY <1>1 DEF GetBufLoop
<1>4. \A i \in 1..Len(chain'[h]) :
         /\ chain'[h][i] \in D /\ desc'[chain'[h][i]] = desc[chain'[h][i]]
  <2>1. desc' = [desc EXCEPT ![chain[h][1]] = Freed(free_head)]
    BY <1>3
  <2>2. pc # "addLoop" /\ ToFree(h)
    BY <1>0, <1>1
  <2>3. \A k \in D : \A i \in 1..Len(chain'[k]) :
           /\ chain'[k][i] \in D
           /\ chain'[k][i] # chain[h][1] /\ desc'[chain'[k][i]] = desc[chain'[k][i]]
    BY <2>1, <2>2, GivenToList
  <2> QED BY <2>3
<1>5. \A i \in 1..m : /\ desc[c[i]].flag = IF i < m THEN "next" ELSE "none"
                      /\ i < m => desc[c[i]].next = vr16(c[i+1])
  BY <1>1 DEF Linked
<1>6. first = c[1]
  OBVIOUS
<1> HIDE DEF c, m, first
<1>7. has_next <=> m > 1
  BY <1>2, <1>5, <1>6
<1>8. has_next => vr16(desc[first].next) = chain'[h][1] /\ chain'[h][1] \in D
  <2>1. ASSUME has_next PROVE vr16(desc[first].next) = chain'[h][1] /\ chain'[h][1] \in D
    <3>1. 1 \in 1..m /\ 1 < m /\ 1 \in 1..m-1 /\ 1 + 1 = 2 /\ 1 \in 1..Len(chain'[h])
      BY <1>2, <1>7, <2>1
    <3>2. desc[first].next = vr16(c[2]) /\ chain'[h][1] = c[2] /\ chain'[h][1] \in D
      BY <1>2, <1>4, <1>5, <1>6, <3>1
    <3> QED BY <3>2, Words, Orders
  <2> QED BY <2>1
<1> HIDE DEF has_next
<1>9. PICK i \in D : i = IF has_next THEN vr16(desc[first].next) ELSE first
  BY <1>2, <1>8
<1>10. get' = [get EXCEPT !.freed = @ + 1, !.idx = i]
  BY <1>1, <1>9 DEF GetBufLoop, has_next
<1>11. pc' = IF has_next THEN "getLoop" ELSE "getDone"
  BY <1>1 DEF GetBufLoop, has_next
<1>12. /\ get' \in [head : D, idx : D, freed : Nat, cookie : Cookies \cup {NoCookie}]
       /\ get'.head = h /\ get'.cookie = get.cookie /\ get'.idx = i
  <2>1. PICK n \in Nat : n = get.freed + 1
    BY <1>0
  <2>2. get' = [get EXCEPT !.freed = n, !.idx = i]
    BY <1>10, <2>1
  <2>3. get \in [head : D, idx : D, freed : Nat, cookie : Cookies \cup {NoCookie}]
    BY <1>0
  <2> QED BY <2>2, <2>3
<1>13. Taken(h)' /\ ~Open(h)'
  BY <1>11, <1>12 DEF Taken, Open, Getting
<1>14. ASSUME NEW k \in 1..Len(chain'[h])
       PROVE  /\ desc'[chain'[h][k]].flag = IF k < Len(chain'[h]) \/ Open(h)'
                                            THEN "next" ELSE "none"
              /\ k < Len(chain'[h]) => desc'[chain'[h][k]].next = vr16(chain'[h][k+1])
              /\ k = Len(chain'[h]) /\ Open(h)' =>
                    desc'[chain'[h][k]].next = vr16(add'.idx)
  <2>1. k \in 1..m-1 /\ k+1 \in 1..m
    BY <1>2
  <2>2. desc'[chain'[h][k]] = desc[c[k+1]]
    BY <1>2, <1>4, <2>1
  <2>3. k < Len(chain'[h]) <=> k+1 < m
    BY <1>2, <2>1
  <2>4. ASSUME k < Len(chain'[h])
        PROVE  desc[c[k+1]].next = vr16(chain'[h][k+1])
    <3>1. k+1 \in 1..m-1 /\ k+1 < m
      BY <1>2, <2>1, <2>4
    <3>2. chain'[h][k+1] = c[(k+1)+1] /\ desc[c[k+1]].next = vr16(c[(k+1)+1])
      BY <1>2, <1>5, <2>1, <3>1
    <3> QED BY <3>2
  <2> QED BY <1>5, <1>13, <2>1, <2>2, <2>3, <2>4
<1>15. Linked(h)'
  BY <1>14 DEF Linked
<1>16. ChainOK(h)'
  BY <1>13, <1>15 DEF ChainOK
<1>17. chain'[h] # <<>> <=> has_next
  BY <1>2, <1>7
<1> QED BY <1>8, <1>9, <1>11, <1>12, <1>16, <1>17

LEMMA ChainsStep ==
    ASSUME IInv, Next
    PROVE  Chains'
<1>0. /\ Types /\ freeStack \in Seq(D) /\ chain \in [D -> Seq(D)]
      /\ desc \in [D -> Descriptors] /\ req \in [D -> Requests \cup {NoReq}]
      /\ \A k \in D : ChainOK(k)
  BY DEF IInv, Types, Chains
<1>1. ASSUME NEW r \in Requests, AddBufDirect(r), NEW h \in D PROVE ChainOK(h)'
  <2>1. /\ pc = "idle" /\ pc' = "addLoop" /\ add'.head = free_head
        /\ UNCHANGED <<desc, chain, freeStack>> /\ req' = [req EXCEPT ![free_head] = r]
        /\ num_free >= r.total
    BY <1>1 DEF AddBufDirect
  <2>2. freeStack # <<>>
    <3>1. Len(freeStack) = num_free /\ r.total \in Nat \ {0}
      BY <2>1, RequestTypes DEF IInv, Counted, Getting, Types
    <3> QED BY <2>1, <3>1, EmptySeq
  <2>3. free_head \in D /\ chain[free_head] = <<>>
    BY <2>1, <2>2, FreeHead
  <2>4. CASE h = free_head
    BY <2>1, <2>3, <2>4 DEF ChainOK
  <2>5. CASE h # free_head
    <3>1. ~Open(h) /\ ~Open(h)' /\ ~Taken(h) /\ ~Taken(h)'
      BY <2>1, <2>5 DEF Open, Taken, Getting
    <3>2. req'[h] = req[h]
      BY <1>0, <2>1, <2>5
    <3> QED BY <1>0, <2>1, <3>1, <3>2, ChainFrame
  <2> QED BY <2>4, <2>5
<1>2. ASSUME NEW r \in Requests, AddBufIndirect(r), NEW h \in D PROVE ChainOK(h)'
  <2>1. ToChain(free_head) /\ free_head = Top(freeStack) /\ free_head \in D
        /\ chain[free_head] = <<>>
    BY <1>2, IndirectMoves
  <2>2. PICK d \in Descriptors : d = [addr |-> <<"table", free_head>>, write |-> FALSE,
                                      flag |-> "indirect", next |-> 0]
    BY <2>1, Words DEF Descriptors, Addrs
  <2>3. /\ desc' = [desc EXCEPT ![Top(freeStack)] = d] /\ pc = "idle" /\ pc' = "addRing"
        /\ chain' = [chain EXCEPT ![free_head] = <<free_head>>]
        /\ req' = [req EXCEPT ![free_head] = r]
    BY <1>2, <2>1, <2>2 DEF AddBufIndirect
  <2>4. ~Open(h) /\ ~Open(h)' /\ ~Taken(h) /\ ~Taken(h)'
    BY <2>3 DEF Open, Taken, Getting
  <2>5. CASE h = free_head
    <3>1. chain'[h] = <<h>> /\ desc'[h] = d /\ d.flag = "indirect"
      BY <1>0, <2>1, <2>2, <2>3, <2>5
    <3> QED BY <2>4, <3>1 DEF ChainOK, Indirect
  <2>6. CASE h # free_head
    <3>1. req'[h] = req[h] /\ chain'[h] = chain[h]
      BY <1>0, <2>3, <2>6
    <3>2. \A i \in 1..Len(chain[h]) : desc'[chain[h][i]] = desc[chain[h][i]]
      BY <2>1, <2>3, TakenFromList
    <3> QED BY <1>0, <2>4, <3>1, <3>2, ChainFrame
  <2> QED BY <2>5, <2>6
<1>3. ASSUME AddBufLoop, NEW h \in D PROVE ChainOK(h)'
  <2>1. CASE h = add.head
    BY <1>3, <2>1, LoopChain
  <2>2. CASE h # add.head
    <3>1. ToChain(add.head) /\ add.head \in D
      BY <1>3, LoopMoves
    <3>2. PICK d \in Descriptors : desc' = [desc EXCEPT ![Top(freeStack)] = d]
      BY <1>3, LoopWrites
    <3>3. /\ pc = "addLoop" /\ (pc' = "addLoop" \/ pc' = "addRing")
          /\ add'.head = add.head /\ req' = req
      BY <1>3, LoopWrites
    <3>4. ~Open(h) /\ ~Open(h)' /\ ~Taken(h) /\ ~Taken(h)'
      BY <2>2, <3>3 DEF Open, Taken, Getting
    <3>5. chain'[h] = chain[h]
      BY <1>0, <2>2, <3>1, ToChainEffect
    <3>6. \A i \in 1..Len(chain[h]) : desc'[chain[h][i]] = desc[chain[h][i]]
      BY <3>1, <3>2, TakenFromList
    <3> QED BY <1>0, <3>3, <3>4, <3>5, <3>6, ChainFrame
  <2> QED BY <2>1, <2>2
<1>4. ASSUME GetBufTake, NEW h \in D PROVE ChainOK(h)'
  <2>1. PICK id \in Published :
           /\ id \in D /\ id = vr32(used.ring[Slot(last_used_idx)])
           /\ indirect_tables[id] # NoTable <=> Indirect(id)
           /\ Indirect(id) => ToFree(id)
    BY <1>4, TakeMoves
  <2>2. /\ pc = "idle" /\ pc' \in Getting /\ pc' # "addLoop" /\ get'.head = id
        /\ req' = req
    BY <1>4, <2>1 DEF GetBufTake, Getting
  <2>3. ~Open(h) /\ ~Open(h)' /\ ~Taken(h) /\ (Taken(h)' <=> h = id)
    BY <2>2 DEF Open, Taken, Getting
  <2>4. CASE Indirect(id)
    <3>1. chain[id][1] = id /\ Len(chain[id]) = 1
      BY <2>4 DEF Indirect
    <3>2. desc' = [desc EXCEPT ![chain[id][1]] = Freed(free_head)]
      BY <1>4, <2>1, <2>4, <3>1 DEF GetBufTake
    <3>3. CASE h = id
      <4>1. chain'[h] = <<>>
        BY <1>0, <2>1, <2>4, <3>1, <3>3, ToFreeEffect
      <4> QED BY <4>1 DEF ChainOK
    <3>4. CASE h # id
      <4>1. chain'[h] = chain[h]
        BY <1>0, <2>1, <2>4, <3>4, ToFreeEffect
      <4>2. \A i \in 1..Len(chain'[h]) : desc'[chain'[h][i]] = desc[chain'[h][i]]
        BY <2>1, <2>2, <2>4, <3>2, GivenToList
      <4> QED BY <1>0, <2>2, <2>3, <3>4, <4>1, <4>2, ChainFrame
    <3> QED BY <3>3, <3>4
  <2>5. CASE ~Indirect(id)
    <3>1. UNCHANGED <<desc, chain>>
      BY <1>4, <2>1, <2>5 DEF GetBufTake
    <3>2. CASE h = id
      <4>1. chain[h] # <<>>
        BY <2>1, <3>2, PublishedIs
      <4>2. Linked(h)
        BY <1>0, <2>5, <3>2, <4>1 DEF ChainOK
      <4>3. Linked(h)'
        BY <2>3, <3>1, <4>2 DEF Linked
      <4> QED BY <2>3, <3>2, <4>3 DEF ChainOK
    <3>3. CASE h # id
      BY <1>0, <2>2, <2>3, <3>1, <3>3, ChainFrame
    <3> QED BY <3>2, <3>3
  <2> QED BY <2>4, <2>5
<1>5. ASSUME GetBufLoop, NEW h \in D PROVE ChainOK(h)'
  <2>1. CASE h = get.head
    BY <1>5, <2>1, FreeChain
  <2>2. CASE h # get.head
    <3>1. ToFree(get.head) /\ get.head \in D /\ get.idx = chain[get.head][1]
      BY <1>5, FreeMoves
    <3>2. /\ pc = "getLoop" /\ pc' # "addLoop"
          /\ desc' = [desc EXCEPT ![chain[get.head][1]] = Freed(free_head)]
          /\ req' = req
      BY <1>5, <3>1 DEF GetBufLoop
    <3>3. get'.head = get.head
      BY <1>5, <3>1, FreeChain
    <3>4. ~Open(h) /\ ~Open(h)' /\ ~Taken(h) /\ ~Taken(h)'
      BY <2>2, <3>2, <3>3 DEF Open, Taken, Getting
    <3>5. chain'[h] = chain[h]
      BY <1>0, <2>2, <3>1, ToFreeEffect
    <3>6. \A i \in 1..Len(chain'[h]) : desc'[chain'[h][i]] = desc[chain'[h][i]]
      BY <3>1, <3>2, GivenToList
    <3> QED BY <1>0, <3>2, <3>4, <3>5, <3>6, ChainFrame
  <2> QED BY <2>1, <2>2
<1>6. ASSUME GetBufDone, NEW h \in D PROVE ChainOK(h)'
  <2>1. /\ pc = "getDone" /\ pc' = "idle" /\ UNCHANGED <<desc, chain>>
        /\ req' = [req EXCEPT ![get.head] = NoReq]
    BY <1>6 DEF GetBufDone
  <2>2. CASE h = get.head
    <3>1. chain[h] = <<>>
      BY <2>1, <2>2 DEF IInv, Calls
    <3> QED BY <2>1, <3>1 DEF ChainOK
  <2>3. CASE h # get.head
    <3>1. ~Open(h) /\ ~Open(h)' /\ ~Taken(h) /\ ~Taken(h)'
      BY <2>1, <2>3 DEF Open, Taken, Getting
    <3>2. req'[h] = req[h]
      BY <1>0, <2>1, <2>3
    <3> QED BY <1>0, <2>1, <3>1, <3>2, ChainFrame
  <2> QED BY <2>2, <2>3
<1>7. ASSUME AddBufRing \/ AddBufIdx, NEW h \in D PROVE ChainOK(h)'
  <2>1. /\ pc \in {"addRing", "addIdx"} /\ pc' \in {"addIdx", "idle"}
        /\ UNCHANGED <<desc, chain, req>>
    BY <1>7 DEF AddBufRing, AddBufIdx, historyVars
  <2>2. ~Open(h) /\ ~Open(h)' /\ ~Taken(h) /\ ~Taken(h)'
    BY <2>1 DEF Open, Taken, Getting
  <2> QED BY <1>0, <2>1, <2>2, ChainFrame
<1>8. ASSUME Quiet, NEW h \in D PROVE ChainOK(h)'
  <2>1. UNCHANGED <<desc, pc, add, get, chain, req>>
    BY <1>8, QuietKeeps DEF listVars
  <2> QED BY <1>0, <2>1 DEF ChainOK, Indirect, Linked, Filled, Open, Taken
<1> QED BY <1>1, <1>2, <1>3, <1>4, <1>5, <1>6, <1>7, <1>8, StepCases DEF Chains
-----------------------------------------------------------------------------
\* A head the call under way is not about.
Mine(h) == (pc \in Adding /\ h = add.head) \/ (pc \in Getting /\ h = get.head)

LEMMA OthersKeep ==
    ASSUME IInv, Next, NEW h \in D, ~Mine(h), ~Mine(h)'
    PROVE  /\ chain'[h] = chain[h] /\ req'[h] = req[h] /\ cookies'[h] = cookies[h]
           /\ indirect_tables'[h] = indirect_tables[h]
           /\ \A i \in 1..Len(chain[h]) : desc'[chain[h][i]] = desc[chain[h][i]]
<1>0. /\ freeStack \in Seq(D) /\ chain \in [D -> Seq(D)]
      /\ desc \in [D -> Descriptors] /\ req \in [D -> Requests \cup {NoReq}]
      /\ cookies \in [D -> Cookies \cup {NoCookie}]
      /\ indirect_tables \in [D -> Tables]
  BY DEF IInv, Types
<1>1. ASSUME NEW r \in Requests, AddBufDirect(r) PROVE h # free_head
  <2>1. pc' = "addLoop" /\ add'.head = free_head
    BY <1>1 DEF AddBufDirect
  <2> QED BY <2>1 DEF Mine, Adding
<1>2. CASE \E r \in Requests : AddBufDirect(r)
  BY <1>0, <1>1, <1>2 DEF AddBufDirect, driverVars
<1>3. ASSUME NEW r \in Requests, AddBufIndirect(r)
      PROVE  /\ chain'[h] = chain[h] /\ req'[h] = req[h] /\ cookies'[h] = cookies[h]
             /\ indirect_tables'[h] = indirect_tables[h]
             /\ \A i \in 1..Len(chain[h]) : desc'[chain[h][i]] = desc[chain[h][i]]
  <2>1. ToChain(free_head) /\ free_head = Top(freeStack) /\ free_head \in D
    BY <1>3, IndirectMoves
  <2>2. PICK d \in Descriptors : d = [addr |-> <<"table", free_head>>, write |-> FALSE,
                                      flag |-> "indirect", next |-> 0]
    BY <2>1, Words DEF Descriptors, Addrs
  <2>3. /\ desc' = [desc EXCEPT ![Top(freeStack)] = d] /\ pc' = "addRing"
        /\ add'.head = free_head
        /\ chain' = [chain EXCEPT ![free_head] = <<free_head>>]
        /\ req' = [req EXCEPT ![free_head] = r]
        /\ UNCHANGED <<cookies, indirect_tables>>
    BY <1>3, <2>1, <2>2 DEF AddBufIndirect
  <2>4. h # free_head
    BY <2>3 DEF Mine, Adding
  <2>5. \A i \in 1..Len(chain[h]) : desc'[chain[h][i]] = desc[chain[h][i]]
    BY <2>1, <2>3, TakenFromList
  <2> QED BY <1>0, <2>3, <2>4, <2>5
<1>4. CASE AddBufLoop
  <2>1. ToChain(add.head) /\ add.head \in D
    BY <1>4, LoopMoves
  <2>2. PICK d \in Descriptors : desc' = [desc EXCEPT ![Top(freeStack)] = d]
    BY <1>4, LoopWrites
  <2>3. pc = "addLoop" /\ UNCHANGED <<req, cookies, indirect_tables>>
    BY <1>4 DEF AddBufLoop
  <2>4. h # add.head
    BY <2>3 DEF Mine, Adding
  <2>5. chain'[h] = chain[h]
    BY <1>0, <2>1, <2>4, ToChainEffect
  <2>6. \A i \in 1..Len(chain[h]) : desc'[chain[h][i]] = desc[chain[h][i]]
    BY <2>1, <2>2, TakenFromList
  <2> QED BY <2>3, <2>5, <2>6
<1>5. CASE GetBufTake
  <2>1. PICK id \in Published :
           /\ id \in D /\ id = vr32(used.ring[Slot(last_used_idx)])
           /\ indirect_tables[id] # NoTable <=> Indirect(id)
           /\ Indirect(id) => ToFree(id)
    BY <1>5, TakeMoves
  <2>2. /\ pc = "idle" /\ pc' \in Getting /\ get'.head = id /\ req' = req
        /\ cookies' = [cookies EXCEPT ![id] = NoCookie]
        /\ indirect_tables' = [indirect_tables EXCEPT ![id] = NoTable]
    BY <1>5, <2>1 DEF GetBufTake, Getting, TablesWithout
  <2>3. h # id
    BY <2>2 DEF Mine
  <2>4. CASE Indirect(id)
    <3>1. chain[id][1] = id /\ pc # "addLoop"
      BY <2>2, <2>4 DEF Indirect
    <3>2. desc' = [desc EXCEPT ![chain[id][1]] = Freed(free_head)]
      BY <1>5, <2>1, <2>4, <3>1 DEF GetBufTake
    <3>3. chain'[h] = chain[h]
      BY <1>0, <2>1, <2>3, <2>4, ToFreeEffect
    <3>4. \A i \in 1..Len(chain'[h]) : desc'[chain'[h][i]] = desc[chain'[h][i]]
      BY <2>1, <2>4, <3>1, <3>2, GivenToList
    <3> QED BY <1>0, <2>2, <2>3, <3>3, <3>4
  <2>5. CASE ~Indirect(id)
    <3>1. UNCHANGED <<desc, chain>>
      BY <1>5, <2>1, <2>5 DEF GetBufTake
    <3> QED BY <1>0, <2>2, <2>3, <3>1
  <2> QED BY <2>4, <2>5
<1>6. CASE GetBufLoop
  <2>1. ToFree(get.head) /\ get.head \in D /\ get.idx = chain[get.head][1]
    BY <1>6, FreeMoves
  <2>2. /\ pc = "getLoop" /\ pc # "addLoop"
        /\ desc' = [desc EXCEPT ![chain[get.head][1]] = Freed(free_head)]
        /\ UNCHANGED <<req, cookies, indirect_tables>>
    BY <1>6, <2>1 DEF GetBufLoop
  <2>3. h # get.head
    BY <2>2 DEF Mine, Getting
  <2>4. chain'[h] = chain[h]
    BY <1>0, <2>1, <2>3, ToFreeEffect
  <2>5. \A i \in 1..Len(chain'[h]) : desc'[chain'[h][i]] = desc[chain'[h][i]]
    BY <2>1, <2>2, GivenToList
  <2> QED BY <2>2, <2>4, <2>5
<1>7. CASE AddBufRing
  <2>1. /\ pc = "addRing" /\ UNCHANGED <<desc, chain, req>>
        /\ cookies' = [cookies EXCEPT ![add.head] = add.r.cookie]
        /\ indirect_tables' = [indirect_tables EXCEPT ![add.head] = add.table]
    BY <1>7 DEF AddBufRing, historyVars
  <2>2. h # add.head
    BY <2>1 DEF Mine, Adding
  <2> QED BY <1>0, <2>1, <2>2
<1>8. CASE AddBufIdx
  BY <1>8 DEF AddBufIdx, historyVars, driverVars
<1>9. CASE GetBufDone
  <2>1. /\ pc = "getDone" /\ UNCHANGED <<desc, chain, cookies, indirect_tables>>
        /\ req' = [req EXCEPT ![get.head] = NoReq]
    BY <1>9 DEF GetBufDone
  <2>2. h # get.head
    BY <2>1 DEF Mine, Getting
  <2> QED BY <1>0, <2>1, <2>2
<1>10. CASE Quiet
  BY <1>10, QuietKeeps DEF listVars
<1> QED BY <1>2, <1>3, <1>4, <1>5, <1>6, <1>7, <1>8, <1>9, <1>10, StepCases

\* Only the last step of AddBuf publishes a head and only the first of GetBuf
\* takes one back.
LEMMA PublishedStep ==
    ASSUME IInv, Next
    PROVE  /\ AddBufIdx => /\ Published' = Published \cup {add.head}
                           /\ add.head \in D \ Published
           /\ GetBufTake => Published' = Published \ {get'.head} /\ get'.head \in Published
           /\ ~AddBufIdx /\ ~GetBufTake => Published' = Published
<1>0. /\ freeStack \in Seq(D) /\ chain \in [D -> Seq(D)] /\ add.head \in D /\ get.head \in D
  BY DEF IInv, Types, LocalsType
<1>1. Published = {h \in D : chain[h] # <<>> /\ ~Mine(h)}
  BY PublishedIs DEF Mine
<1>2. Published' = {h \in D : chain'[h] # <<>> /\ ~Mine(h)'}
  <2>1. CASE pc' \in Adding
    BY <2>1 DEF Published, Busy, Adding, Getting, Mine
  <2>2. CASE pc' \in Getting
    BY <2>2 DEF Published, Busy, Adding, Getting, Mine
  <2>3. CASE pc' \notin Adding \cup Getting
    BY <2>3 DEF Published, Busy, Adding, Getting, Mine
  <2> QED BY <2>1, <2>2, <2>3
<1>3. \A h \in D : ~Mine(h) /\ ~Mine(h)' => chain'[h] = chain[h]
  BY OthersKeep
<1>4. ASSUME NEW r \in Requests, AddBufDirect(r) \/ AddBufIndirect(r)
      PROVE  Published' = Published
  <2>1. pc = "idle" /\ pc' \in Adding /\ add'.head = free_head
    BY <1>4 DEF AddBufDirect, AddBufIndirect, Adding
  <2>2. free_head \in D /\ chain[free_head] = <<>>
    <3>1. CASE AddBufDirect(r)
      <4>1. Len(freeStack) = num_free /\ r.total \in Nat \ {0} /\ num_free >= r.total
        BY <2>1, <3>1, RequestTypes DEF IInv, Counted, Getting, Types, AddBufDirect
      <4>2. freeStack # <<>>
        BY <4>1, EmptySeq
      <4> QED BY <2>1, <4>2, FreeHead
    <3>2. CASE AddBufIndirect(r)
      BY <3>2, IndirectMoves
    <3> QED BY <1>4, <3>1, <3>2
  <2>3. \A h \in D : ~Mine(h) /\ (Mine(h)' <=> h = free_head)
    BY <2>1 DEF Mine, Adding, Getting
  <2> QED BY <1>1, <1>2, <1>3, <2>2, <2>3
<1>5. ASSUME AddBufLoop PROVE Published' = Published
  <2>1. /\ pc \in Adding /\ pc' \in Adding /\ add'.head = add.head
    <3>1. add'.head = add.head /\ pc = "addLoop" /\ (pc' = "addLoop" \/ pc' = "addRing")
      BY <1>5, LoopWrites
    <3> QED BY <3>1 DEF Adding
  <2>2. \A h \in D : Mine(h)' <=> Mine(h)
    BY <2>1 DEF Mine, Adding, Getting
  <2> QED BY <1>1, <1>2, <1>3, <2>2
<1>6. ASSUME AddBufRing PROVE Published' = Published
  <2>1. /\ pc \in Adding /\ pc' \in Adding /\ add'.head = add.head /\ chain' = chain
    BY <1>6 DEF Adding, AddBufRing, historyVars
  <2>2. \A h \in D : Mine(h)' <=> Mine(h)
    BY <2>1 DEF Mine, Adding, Getting
  <2> QED BY <1>1, <1>2, <1>3, <2>2
<1>7. ASSUME AddBufIdx
      PROVE  Published' = Published \cup {add.head} /\ add.head \in D \ Published
  <2>1. /\ pc = "addIdx" /\ pc' = "idle" /\ chain' = chain
    BY <1>7 DEF AddBufIdx, historyVars
  <2>2. \A h \in D : ~Mine(h)' /\ (Mine(h) <=> h = add.head)
    BY <2>1 DEF Mine, Adding, Getting
  <2>3. chain[add.head] # <<>>
    BY <2>1 DEF IInv, Calls
  <2> QED BY <1>0, <1>1, <1>2, <2>1, <2>2, <2>3
<1>8. ASSUME GetBufTake
      PROVE  Published' = Published \ {get'.head} /\ get'.head \in Published
  <2>1. PICK id \in Published :
           /\ id \in D /\ id = vr32(used.ring[Slot(last_used_idx)])
    BY <1>8, TakeMoves
  <2>2. /\ pc = "idle" /\ pc' \in Getting /\ get'.head = id
    BY <1>8, <2>1 DEF GetBufTake, Getting
  <2>3. \A h \in D : ~Mine(h) /\ (Mine(h)' <=> h = id)
    BY <2>2 DEF Mine, Adding, Getting
  <2>4. Published' = Published \ {id}
    BY <1>1, <1>2, <1>3, <2>1, <2>3
  <2> QED BY <2>1, <2>2, <2>4
<1>9. ASSUME GetBufLoop PROVE Published' = Published
  <2>1. pc \in Getting /\ pc' \in Getting /\ get'.head = get.head
    <3>1. get'.head = get.head
      BY <1>0, <1>9, FreeChain
    <3> QED BY <1>9, <3>1 DEF GetBufLoop, Getting
  <2>2. \A h \in D : Mine(h)' <=> Mine(h)
    BY <2>1 DEF Mine, Adding, Getting
  <2> QED BY <1>1, <1>2, <1>3, <2>2
<1>10. ASSUME GetBufDone PROVE Published' = Published
  <2>1. pc = "getDone" /\ pc' = "idle" /\ chain' = chain
    BY <1>10 DEF GetBufDone
  <2>2. \A h \in D : ~Mine(h)' /\ (Mine(h) <=> h = get.head)
    BY <2>1 DEF Mine, Adding, Getting
  <2>3. chain[get.head] = <<>>
    BY <2>1 DEF IInv, Calls
  <2> QED BY <1>1, <1>2, <2>1, <2>2, <2>3
<1>11. ASSUME Quiet PROVE Published' = Published
  BY <1>11, QuietKeeps DEF listVars, Published, Busy
<1>12. AddBufIdx \/ GetBufTake \/ Published' = Published
  BY <1>4, <1>5, <1>6, <1>9, <1>10, <1>11, StepCases
<1> QED BY <1>7, <1>8, <1>12, Zenon
-----------------------------------------------------------------------------
\* The indirect tables.
LEMMA TablesStep ==
    ASSUME IInv, Next
    PROVE  TablesKept'
<1>0. /\ freeStack \in Seq(D) /\ chain \in [D -> Seq(D)] /\ desc \in [D -> Descriptors]
      /\ indirect_tables \in [D -> Tables] /\ add.head \in D /\ get.head \in D
      /\ req \in [D -> Requests \cup {NoReq}]
      /\ \A k \in D : TableOK(k) /\ ChainOK(k)
  BY DEF IInv, Types, LocalsType, TablesKept, Chains
<1>1. ASSUME NEW h \in D, ~Mine(h), ~Mine(h)' PROVE TableOK(h)'
  <2>1. /\ chain'[h] = chain[h] /\ req'[h] = req[h]
        /\ indirect_tables'[h] = indirect_tables[h]
        /\ \A i \in 1..Len(chain[h]) : desc'[chain[h][i]] = desc[chain[h][i]]
    BY <1>1, OthersKeep
  <2>2. Indirect(h)' <=> Indirect(h)
    <3>1. CASE chain[h] = <<h>>
      <4>1. 1 \in 1..Len(chain[h]) /\ chain[h][1] = h
        BY <3>1
      <4>2. desc'[h] = desc[h]
        BY <2>1, <4>1
      <4> QED BY <2>1, <4>2 DEF Indirect
    <3>2. CASE chain[h] # <<h>>
      BY <2>1, <3>2 DEF Indirect
    <3> QED BY <3>1, <3>2
  <2>3. ~Unnoted(h) /\ ~Unnoted(h)'
    BY <1>1 DEF Unnoted, Mine, Adding
  <2> QED BY <1>0, <2>1, <2>2, <2>3 DEF TableOK, Meant
\* A chain with links is not an indirect one.
<1>2. ASSUME NEW h \in D, Linked(h) PROVE ~Indirect(h)
  <2>1. CASE chain[h] = <<h>>
    <3>1. 1 \in 1..Len(chain[h]) /\ chain[h][1] = h
      BY <2>1
    <3>2. desc[h].flag = "next" \/ desc[h].flag = "none"
      BY <1>2, <3>1 DEF Linked
    <3> QED BY <3>2 DEF Indirect
  <2> QED BY <2>1 DEF Indirect
<1>3. ASSUME NEW h \in D, Linked(h)' PROVE ~Indirect(h)'
  <2>1. CASE chain'[h] = <<h>>
    <3>1. 1 \in 1..Len(chain'[h]) /\ chain'[h][1] = h
      BY <2>1
    <3>2. desc'[h].flag = "next" \/ desc'[h].flag = "none"
      BY <1>3, <3>1 DEF Linked
    <3> QED BY <3>2 DEF Indirect
  <2> QED BY <2>1 DEF Indirect
<1>4. ASSUME NEW r \in Requests, AddBufDirect(r), NEW h \in D PROVE TableOK(h)'
  <2>1. /\ pc = "idle" /\ pc' = "addLoop" /\ add'.head = free_head /\ add'.table = NoTable
        /\ UNCHANGED <<desc, chain, indirect_tables>> /\ num_free >= r.total
    BY <1>4 DEF AddBufDirect, driverVars
  <2>2. Len(freeStack) = num_free /\ r.total \in Nat \ {0}
    BY <2>1, RequestTypes DEF IInv, Counted, Getting, Types
  <2>3. freeStack # <<>>
    BY <2>1, <2>2, EmptySeq
  <2>4. free_head \in D /\ chain[free_head] = <<>>
    BY <2>1, <2>3, FreeHead
  <2>5. CASE h = free_head
    <3>1. ~Indirect(h) /\ ~Indirect(h)' /\ ~Unnoted(h) /\ Unnoted(h)'
      <4>1. chain[h] = <<>> /\ chain'[h] = <<>>
        BY <2>1, <2>4, <2>5
      <4>2. ~Indirect(h) /\ ~Indirect(h)'
        BY <4>1 DEF Indirect
      <4> QED BY <2>1, <2>5, <4>2 DEF Unnoted
    <3>2. indirect_tables[h] = NoTable
      BY <1>0, <3>1 DEF TableOK, Meant
    <3> QED BY <2>1, <3>1, <3>2 DEF TableOK, Meant
  <2>6. CASE h # free_head
    BY <1>1, <2>1, <2>6 DEF Mine, Adding, Getting
  <2> QED BY <2>5, <2>6
<1>5. ASSUME NEW r \in Requests, AddBufIndirect(r), NEW h \in D PROVE TableOK(h)'
  <2>1. ToChain(free_head) /\ free_head = Top(freeStack) /\ free_head \in D
        /\ chain[free_head] = <<>>
    BY <1>5, IndirectMoves
  <2>2. /\ pc = "idle" /\ pc' = "addRing" /\ add'.head = free_head
        /\ add'.table = SgList(r) /\ UNCHANGED indirect_tables
        /\ chain' = [chain EXCEPT ![free_head] = <<free_head>>]
        /\ req' = [req EXCEPT ![free_head] = r]
        /\ desc' = [desc EXCEPT ![free_head] = [addr |-> <<"table", free_head>>,
                        write |-> FALSE, flag |-> "indirect", next |-> 0]]
    BY <1>5 DEF AddBufIndirect
  <2>3. CASE h = free_head
    <3>1. ~Indirect(h) /\ ~Unnoted(h) /\ Unnoted(h)'
      BY <2>1, <2>2, <2>3, SMTT(60) DEF Indirect, Unnoted
    <3>2. Indirect(h)'
      <4>1. chain'[h] = <<h>>
        BY <1>0, <2>1, <2>2, <2>3
      <4>2. desc'[h].flag = "indirect"
        BY <1>0, <2>1, <2>2, <2>3
      <4> QED BY <4>1, <4>2 DEF Indirect
    <3>3. indirect_tables[h] = NoTable
      BY <1>0, <3>1 DEF TableOK, Meant
    <3>4. req'[h] = r
      BY <1>0, <2>2, <2>3
    <3> QED BY <2>2, <3>1, <3>2, <3>3, <3>4 DEF TableOK, Meant
  <2>4. CASE h # free_head
    BY <1>1, <2>2, <2>4 DEF Mine, Adding, Getting
  <2> QED BY <2>3, <2>4
<1>6. ASSUME AddBufLoop, NEW h \in D PROVE TableOK(h)'
  <2>1. /\ pc = "addLoop" /\ (pc' = "addLoop" \/ pc' = "addRing")
        /\ add'.head = add.head /\ add'.table = add.table /\ UNCHANGED indirect_tables
    BY <1>6, LoopWrites
  <2>2. CASE h = add.head
    <3>1. Unnoted(h) /\ Unnoted(h)' /\ Open(h)
      BY <2>1, <2>2 DEF Unnoted, Open
    <3>2. ~Indirect(h)
      <4>1. chain[h] = <<>> \/ Linked(h)
        BY <1>0, <3>1 DEF ChainOK
      <4>2. chain[h] = <<>> => ~Indirect(h)
        BY DEF Indirect
      <4> QED BY <1>2, <4>1, <4>2
    <3>3. ~Indirect(h)'
      <4>1. Linked(h)'
        BY <1>6, <2>2, LoopChain
      <4> QED BY <1>3, <4>1
    <3>4. indirect_tables[h] = NoTable /\ add.table = NoTable
      BY <1>0, <3>1, <3>2 DEF TableOK, Meant
    <3> QED BY <2>1, <3>1, <3>3, <3>4 DEF TableOK, Meant
  <2>3. CASE h # add.head
    BY <1>1, <2>1, <2>3 DEF Mine, Adding, Getting
  <2> QED BY <2>2, <2>3
<1>7. ASSUME AddBufRing, NEW h \in D PROVE TableOK(h)'
  <2>1. /\ pc = "addRing" /\ pc' = "addIdx" /\ add' = add
        /\ indirect_tables' = [indirect_tables EXCEPT ![add.head] = add.table]
        /\ UNCHANGED <<desc, chain, req>>
    BY <1>7 DEF AddBufRing, historyVars
  <2>2. CASE h = add.head
    <3>1. Unnoted(h) /\ ~Unnoted(h)'
      BY <2>1, <2>2 DEF Unnoted
    <3>2. indirect_tables'[h] = Meant(h)
      BY <1>0, <2>1, <2>2, <3>1 DEF TableOK
    <3>3. Meant(h)' = Meant(h)
      BY <2>1 DEF Meant, Indirect
    <3> QED BY <3>1, <3>2, <3>3 DEF TableOK
  <2>3. CASE h # add.head
    BY <1>1, <2>1, <2>3 DEF Mine, Adding, Getting
  <2> QED BY <2>2, <2>3
<1>8. ASSUME AddBufIdx, NEW h \in D PROVE TableOK(h)'
  <2>1. /\ pc = "addIdx" /\ pc' = "idle" /\ UNCHANGED <<desc, chain, req, indirect_tables>>
    BY <1>8 DEF AddBufIdx, historyVars, driverVars
  <2>2. ~Unnoted(h) /\ ~Unnoted(h)'
    BY <2>1 DEF Unnoted
  <2> QED BY <1>0, <2>1, <2>2 DEF TableOK, Meant, Indirect
<1>9. ASSUME GetBufTake, NEW h \in D PROVE TableOK(h)'
  <2>1. PICK id \in Published :
           /\ id \in D /\ id = vr32(used.ring[Slot(last_used_idx)])
           /\ indirect_tables[id] # NoTable <=> Indirect(id)
           /\ Indirect(id) => ToFree(id)
    BY <1>9, TakeMoves
  <2>2. /\ pc = "idle" /\ pc' \in Getting /\ pc' \notin Adding /\ get'.head = id
        /\ indirect_tables' = [indirect_tables EXCEPT ![id] = NoTable]
    BY <1>9, <2>1 DEF GetBufTake, Getting, Adding, TablesWithout
  <2>3. CASE h = id
    <3>1. ~Unnoted(h)' /\ indirect_tables'[h] = NoTable
      BY <1>0, <2>2, <2>3 DEF Unnoted, Adding
    <3>2. ~Indirect(h)'
      <4>1. CASE Indirect(h)
        <5>1. Len(chain[h]) = 1
          BY <4>1 DEF Indirect
        <5>2. chain'[h] = <<>>
          BY <1>0, <2>1, <2>3, <4>1, <5>1, ToFreeEffect
        <5> QED BY <5>2 DEF Indirect
      <4>2. CASE ~Indirect(h)
        BY <1>9, <2>1, <2>3, <4>2 DEF GetBufTake, Indirect
      <4> QED BY <4>1, <4>2
    <3> QED BY <3>1, <3>2 DEF TableOK, Meant
  <2>4. CASE h # id
    BY <1>1, <2>2, <2>4 DEF Mine, Adding, Getting
  <2> QED BY <2>3, <2>4
<1>10. ASSUME GetBufLoop, NEW h \in D PROVE TableOK(h)'
  <2>1. pc = "getLoop" /\ pc' \in Getting /\ UNCHANGED indirect_tables
    BY <1>10 DEF GetBufLoop, Getting
  <2>2. get'.head = get.head
    BY <1>0, <1>10, FreeChain
  <2>3. CASE h = get.head
    <3>1. ~Unnoted(h) /\ ~Unnoted(h)' /\ Taken(h)'
      BY <2>1, <2>2, <2>3 DEF Unnoted, Getting, Taken
    <3>2. ~Indirect(h)
      <4>1. Linked(h)
        BY <1>10, <2>3, FreeMoves
      <4> QED BY <1>2, <4>1
    <3>3. ~Indirect(h)'
      <4>1. ChainOK(h)'
        BY <1>10, <2>3, FreeChain
      <4>2. chain'[h] = <<>> \/ Linked(h)'
        BY <3>1, <4>1 DEF ChainOK
      <4>3. chain'[h] = <<>> => ~Indirect(h)'
        BY DEF Indirect
      <4> QED BY <1>3, <4>2, <4>3
    <3> QED BY <1>0, <2>1, <3>1, <3>2, <3>3 DEF TableOK, Meant
  <2>4. CASE h # get.head
    BY <1>1, <2>1, <2>2, <2>4 DEF Mine, Adding, Getting
  <2> QED BY <2>3, <2>4
<1>11. ASSUME GetBufDone, NEW h \in D PROVE TableOK(h)'
  <2>1. /\ pc = "getDone" /\ pc' = "idle" /\ UNCHANGED <<desc, chain, indirect_tables>>
    BY <1>11 DEF GetBufDone
  <2>2. CASE h = get.head
    <3>1. chain[h] = <<>>
      BY <2>1, <2>2 DEF IInv, Calls
    <3>2. ~Unnoted(h) /\ ~Unnoted(h)' /\ ~Indirect(h) /\ ~Indirect(h)'
      BY <2>1, <3>1 DEF Unnoted, Indirect
    <3> QED BY <1>0, <2>1, <3>2 DEF TableOK, Meant
  <2>3. CASE h # get.head
    BY <1>1, <2>1, <2>3 DEF Mine, Adding, Getting
  <2> QED BY <2>2, <2>3
<1>12. ASSUME Quiet, NEW h \in D PROVE TableOK(h)'
  <2>1. UNCHANGED <<desc, indirect_tables, pc, add, chain, req>>
    BY <1>12, QuietKeeps DEF listVars
  <2> QED BY <1>0, <2>1 DEF TableOK, Meant, Indirect, Unnoted
<1> QED BY <1>4, <1>5, <1>6, <1>7, <1>8, <1>9, <1>10, <1>11, <1>12, StepCases DEF TablesKept
-----------------------------------------------------------------------------
\* The calls and what is published.

\* What stays published stays as it is.
LEMMA StaysPublished ==
    ASSUME IInv, Next, NEW h \in Published, h \in Published'
    PROVE  /\ h \in D /\ chain[h] # <<>> /\ ~Mine(h) /\ ~Mine(h)'
           /\ chain'[h] = chain[h] /\ req'[h] = req[h] /\ cookies'[h] = cookies[h]
           /\ indirect_tables'[h] = indirect_tables[h]
           /\ \A i \in 1..Len(chain[h]) : desc'[chain[h][i]] = desc[chain[h][i]]
<1>1. h \in D /\ chain[h] # <<>> /\ ~Mine(h)
  BY PublishedIs DEF Mine
<1>2. ~Mine(h)'
  <2>1. CASE pc' \in Adding
    BY <2>1 DEF Published, Busy, Adding, Getting, Mine
  <2>2. CASE pc' \in Getting
    BY <2>2 DEF Published, Busy, Adding, Getting, Mine
  <2>3. CASE pc' \notin Adding \cup Getting
    BY <2>3 DEF Published, Busy, Adding, Getting, Mine
  <2> QED BY <2>1, <2>2, <2>3
<1> QED BY <1>1, <1>2, OthersKeep

\* The state of a call, on its own.
CallState ==
    /\ pc \in Adding => req[add.head] = add.r
    /\ pc = "addLoop" => /\ Len(chain[add.head]) = add.n
                         /\ add.taken = add.r.total
                         /\ add.n = 0 => add.idx = add.head
    /\ pc \in {"addRing", "addIdx"} => chain[add.head] # <<>>
    /\ pc = "addIdx" => cookies[add.head] = add.r.cookie
    /\ pc \in Getting => get.cookie = req[get.head].cookie
    /\ pc = "getLoop" => chain[get.head] # <<>> /\ get.idx = chain[get.head][1]
    /\ pc = "getDone" => chain[get.head] = <<>>

LEMMA CallStateStep ==
    ASSUME IInv, Next
    PROVE  CallState'
<1>0. /\ freeStack \in Seq(D) /\ chain \in [D -> Seq(D)] /\ desc \in [D -> Descriptors]
      /\ cookies \in [D -> Cookies \cup {NoCookie}] /\ add.head \in D /\ get.head \in D
      /\ req \in [D -> Requests \cup {NoReq}]
      /\ CallState /\ (\A h \in Published : req[h] \in Requests /\ cookies[h] = req[h].cookie)
  BY DEF IInv, Types, LocalsType, Calls, CallState
<1>1. ASSUME NEW r \in Requests, AddBufDirect(r) PROVE CallState'
  <2>1. /\ pc = "idle" /\ pc' = "addLoop" /\ chain' = chain /\ num_free >= r.total
        /\ add'.head = free_head /\ add'.idx = free_head /\ add'.n = 0
        /\ add'.taken = r.total /\ add'.r = r
        /\ req' = [req EXCEPT ![free_head] = r]
    BY <1>1 DEF AddBufDirect
  <2>2. Len(freeStack) = num_free /\ r.total \in Nat \ {0}
    BY <2>1, RequestTypes DEF IInv, Counted, Getting, Types
  <2>3. freeStack # <<>>
    BY <2>1, <2>2, EmptySeq
  <2>4. free_head \in D /\ chain[free_head] = <<>>
    BY <2>1, <2>3, FreeHead
  <2>5. req'[free_head] = r
    BY <1>0, <2>1, <2>4
  <2>6. Len(chain'[free_head]) = 0
    BY <2>1, <2>4, EmptySeq
  <2> QED BY <2>1, <2>5, <2>6 DEF CallState, Adding, Getting
<1>2. ASSUME NEW r \in Requests, AddBufIndirect(r) PROVE CallState'
  <2>1. free_head \in D
    BY <1>2, IndirectMoves
  <2>2. /\ pc' = "addRing" /\ add'.head = free_head /\ add'.r = r
        /\ chain' = [chain EXCEPT ![free_head] = <<free_head>>]
        /\ req' = [req EXCEPT ![free_head] = r]
    BY <1>2 DEF AddBufIndirect
  <2>3. chain'[free_head] # <<>> /\ req'[free_head] = r
    BY <1>0, <2>1, <2>2
  <2> QED BY <2>2, <2>3 DEF CallState, Adding, Getting
<1>3. ASSUME AddBufLoop PROVE CallState'
  <2>1. /\ pc = "addLoop" /\ (pc' = "addLoop" \/ pc' = "addRing")
        /\ add'.head = add.head /\ add'.r = add.r /\ add'.taken = add.taken
        /\ add'.n = add.n + 1 /\ add.n \in Nat /\ req' = req
    BY <1>3, LoopWrites
  <2>2. Len(chain'[add.head]) = add.n + 1 /\ chain'[add.head] # <<>>
    BY <1>0, <1>3, LoopChain
  <2>3. req[add.head] = add.r /\ add.taken = add.r.total
    BY <1>0, <2>1 DEF CallState, Adding
  <2>4. add'.n # 0
    BY <2>1
  <2> QED BY <2>1, <2>2, <2>3, <2>4 DEF CallState, Adding, Getting
<1>4. ASSUME AddBufRing PROVE CallState'
  <2>1. /\ pc = "addRing" /\ pc' = "addIdx" /\ add' = add /\ UNCHANGED <<chain, req>>
        /\ cookies' = [cookies EXCEPT ![add.head] = add.r.cookie]
    BY <1>4 DEF AddBufRing, historyVars
  <2>2. cookies'[add.head] = add.r.cookie
    BY <1>0, <2>1
  <2> QED BY <1>0, <2>1, <2>2 DEF CallState, Adding, Getting
<1>5. ASSUME AddBufIdx PROVE CallState'
  BY <1>5 DEF AddBufIdx, CallState, Adding, Getting
<1>6. ASSUME GetBufTake PROVE CallState'
  <2>1. PICK id \in Published :
           /\ id \in D /\ id = vr32(used.ring[Slot(last_used_idx)])
           /\ indirect_tables[id] # NoTable <=> Indirect(id)
           /\ Indirect(id) => ToFree(id)
    BY <1>6, TakeMoves
  <2>2. /\ pc = "idle" /\ get'.head = id /\ get'.idx = id /\ get'.cookie = cookies[id]
        /\ pc' = IF Indirect(id) THEN "getDone" ELSE "getLoop"
        /\ req' = req
    BY <1>6, <2>1 DEF GetBufTake, CookieOf
  <2>3. get'.cookie = req'[id].cookie
    BY <1>0, <2>1, <2>2
  <2>4. CASE Indirect(id)
    <3>1. Len(chain[id]) = 1
      BY <2>4 DEF Indirect
    <3>2. chain'[id] = <<>>
      BY <1>0, <2>1, <2>4, <3>1, ToFreeEffect
    <3> QED BY <2>2, <2>3, <2>4, <3>2 DEF CallState, Adding, Getting
  <2>5. CASE ~Indirect(id)
    <3>1. chain' = chain
      BY <1>6, <2>1, <2>5 DEF GetBufTake
    <3>2. ChainOK(id) /\ chain[id] # <<>> /\ ~Taken(id)
      BY <2>1, <2>2, PublishedIs DEF IInv, Chains, Taken, Getting
    <3>3. chain[id][1] = id
      BY <2>5, <3>2 DEF ChainOK
    <3> QED BY <2>2, <2>3, <2>5, <3>1, <3>2, <3>3 DEF CallState, Adding, Getting
  <2> QED BY <2>4, <2>5
<1>7. ASSUME GetBufLoop PROVE CallState'
  <2>1. pc = "getLoop" /\ req' = req
    BY <1>7 DEF GetBufLoop
  <2>2. /\ get'.head = get.head /\ get'.cookie = get.cookie
        /\ chain'[get.head] # <<>> => get'.idx = chain'[get.head][1]
        /\ pc' = IF chain'[get.head] = <<>> THEN "getDone" ELSE "getLoop"
    BY <1>0, <1>7, FreeChain
  <2>3. get.cookie = req[get.head].cookie
    BY <1>0, <2>1 DEF CallState, Getting
  <2> QED BY <2>1, <2>2, <2>3 DEF CallState, Adding, Getting
<1>8. ASSUME GetBufDone PROVE CallState'
  BY <1>8 DEF GetBufDone, CallState, Adding, Getting
<1>9. ASSUME Quiet PROVE CallState'
  BY <1>0, <1>9, QuietKeeps DEF listVars, CallState
<1> QED BY <1>1, <1>2, <1>3, <1>4, <1>5, <1>6, <1>7, <1>8, <1>9, StepCases

LEMMA CallsStep ==
    ASSUME IInv, Next
    PROVE  Calls'
<1>1. ASSUME NEW h \in Published'
      PROVE  req'[h] \in Requests /\ cookies'[h] = req'[h].cookie
  <2>1. CASE h \in Published
    <3>1. req[h] \in Requests /\ cookies[h] = req[h].cookie
      BY <2>1 DEF IInv, Calls
    <3> QED BY <2>1, <3>1, StaysPublished
  <2>2. CASE AddBufIdx /\ h = add.head
    <3>1. pc = "addIdx" /\ UNCHANGED <<req, cookies>>
      BY <2>2 DEF AddBufIdx, historyVars, driverVars
    <3>2. req[add.head] = add.r /\ add.r \in Requests /\ cookies[add.head] = add.r.cookie
      BY <3>1 DEF IInv, Calls, Types, LocalsType, Adding
    <3> QED BY <2>2, <3>1, <3>2
  <2> QED BY <2>1, <2>2, PublishedStep
<1>2. CallState'
  BY CallStateStep
<1> QED BY <1>1, <1>2 DEF Calls, CallState
-----------------------------------------------------------------------------
\* The available ring.

\* While AddBuf has a head in hand the ring has a slot for it.
LEMMA RoomInRing ==
    ASSUME IInv, pc \in {"addRing", "addIdx"}
    PROVE  AvailLen < N
<1>1. Types /\ AvailLen \in Nat /\ add.head \in D
  BY AvailWindowIs DEF IInv, Types, LocalsType
<1>2. add.head \notin Published
  BY PublishedIs DEF Adding
<1>3. /\ \A j \in 0..AvailLen-1 : AvailAt(j) \in Published
      /\ \A j, k \in 0..AvailLen-1 : AvailAt(j) = AvailAt(k) => j = k
      /\ Published \subseteq D
  BY PublishedIs DEF IInv, Unfetched
<1> DEFINE f == [j \in 1..AvailLen |-> AvailAt(j-1)]
<1>4. \A j \in 1..AvailLen : j-1 \in 0..AvailLen-1
  BY <1>1
<1>5. f \in [1..AvailLen -> D \ {add.head}]
  BY <1>2, <1>3, <1>4
<1>6. ASSUME NEW j \in 1..AvailLen, NEW k \in 1..AvailLen, f[j] = f[k] PROVE j = k
  <2>1. AvailAt(j-1) = AvailAt(k-1)
    BY <1>6
  <2>2. j-1 = k-1
    BY <1>3, <1>4, <2>1
  <2> QED BY <1>1, <2>2
<1> HIDE DEF f
<1> QED BY <1>1, <1>5, <1>6, RoomFor

\* No head is 'none', and the device holds or reads only what is published.
LEMMA DeviceHas ==
    ASSUME IInv
    PROVE  /\ Published \subseteq D /\ N \notin D
           /\ dev.held \subseteq Published
           /\ dev.walk # NoWalk => dev.walk.head \in Published
           /\ dev.walk = NoWalk => dev.walk.head = N
<1>1. Published \subseteq D
  BY PublishedIs
<1>2. N \notin D
  BY Sizes DEF D
<1> QED BY <1>1, <1>2 DEF IInv, HeldRequests, Reading, NoWalk

LEMMA UnfetchedKept ==
    ASSUME IInv, avail'.idx = avail.idx, avail'.ring = avail.ring, dev'.seen = dev.seen,
           \A j \in 0..AvailLen-1 :
              AvailAt(j) \in Published' \ (dev'.held \cup {dev'.walk.head}),
           pc' = "addIdx" => pc = "addIdx" /\ add'.head = add.head
    PROVE  Unfetched'
<1>1. AvailLen' = AvailLen
  BY DEF AvailLen
<1>2. AvailSlot' = AvailSlot
  BY DEF AvailSlot
<1>3. \A j \in 0..AvailLen-1 : AvailAt(j)' = AvailAt(j)
  BY DEF AvailAt
<1>4. Unfetched
  BY DEF IInv
<1> QED BY <1>1, <1>2, <1>3, <1>4 DEF Unfetched

LEMMA UnfetchedStep ==
    ASSUME IInv, Next
    PROVE  Unfetched'
<1>0. /\ Types /\ AvailLen \in Nat /\ AvailLen <= N
      /\ \A j \in 0..AvailLen-1 : AvailAt(j) \in Published \ (dev.held \cup {dev.walk.head})
      /\ \A j, k \in 0..AvailLen-1 : AvailAt(j) = AvailAt(k) => j = k
      /\ pc = "addIdx" => vr16(avail.ring[AvailSlot]) = add.head
      /\ add.head \in D /\ (pc \in Adding => add.r \in Requests)
  BY AvailWindowIs DEF IInv, Unfetched, Types, LocalsType
<1>1. ASSUME NEW r \in Requests, AddBufDirect(r) \/ AddBufIndirect(r) PROVE Unfetched'
  <2>1. UNCHANGED <<avail, dev>> /\ pc' # "addIdx" /\ ~AddBufIdx /\ ~GetBufTake
    BY <1>1 DEF AddBufDirect, AddBufIndirect, AddBufIdx, GetBufTake
  <2>2. Published' = Published
    BY <2>1, PublishedStep
  <2> QED BY <1>0, <2>1, <2>2, UnfetchedKept
<1>2. ASSUME AddBufLoop \/ GetBufLoop PROVE Unfetched'
  <2>1. UNCHANGED <<avail, dev>> /\ pc' # "addIdx" /\ ~AddBufIdx /\ ~GetBufTake
    BY <1>2 DEF AddBufLoop, GetBufLoop, AddBufIdx, GetBufTake
  <2>2. Published' = Published
    BY <2>1, PublishedStep
  <2> QED BY <1>0, <2>1, <2>2, UnfetchedKept
<1>3. ASSUME GetBufDone PROVE Unfetched'
  <2>1. UNCHANGED dev /\ pc' # "addIdx" /\ ~AddBufIdx /\ ~GetBufTake
    BY <1>3 DEF GetBufDone, AddBufIdx, GetBufTake
  <2>2. avail'.idx = avail.idx /\ avail'.ring = avail.ring
    <3>1. avail' = avail \/ avail' = [avail EXCEPT !.event = vr16(UsedEvent)]
      BY <1>3 DEF GetBufDone
    <3>2. avail \in [idx : Word16, ring : [D -> Word16], event : Word16]
      BY <1>0 DEF Types
    <3> QED BY <3>1, <3>2
  <2>3. Published' = Published
    BY <2>1, PublishedStep
  <2> QED BY <1>0, <2>1, <2>2, <2>3, UnfetchedKept
<1>4. ASSUME GetBufTake PROVE Unfetched'
  <2>1. UNCHANGED <<avail, dev>> /\ pc' # "addIdx"
    BY <1>4 DEF GetBufTake
  <2>2. PICK id \in Published :
           id = vr32(used.ring[Slot(last_used_idx)]) /\ id = UsedAt(0) /\ UsedLen > 0
           /\ id \in D
    BY <1>4, TakeMoves
  <2>3. Published' = Published \ {id}
    <3>1. get'.head = id
      BY <1>4, <2>2 DEF GetBufTake
    <3> QED BY <1>4, <3>1, PublishedStep
  <2>4. \A k \in 0..AvailLen-1 : id # AvailAt(k)
    <3>1. 0 \in 0..UsedLen-1 /\ id # N
      BY <1>0, <2>2, UsedWindowIs, DeviceHas
    <3> QED BY <2>2, <3>1 DEF IInv, Completed
  <2> QED BY <1>0, <2>1, <2>3, <2>4, UnfetchedKept
<1>5. ASSUME AddBufRing PROVE Unfetched'
  <2>1. /\ pc = "addRing" /\ UNCHANGED dev /\ add' = add
        /\ avail' = [avail EXCEPT !.ring[AvailSlot] = vr16(add.head)]
        /\ ~AddBufIdx /\ ~GetBufTake
    BY <1>5 DEF AddBufRing, AddBufIdx, GetBufTake
  <2>2. AvailLen < N
    BY <2>1, RoomInRing
  <2>3. /\ AvailLen' = AvailLen /\ AvailSlot' = AvailSlot
        /\ \A j \in 0..AvailLen-1 : AvailAt(j)' = AvailAt(j)
        /\ vr16(avail'.ring[AvailSlot]) = add.head
    BY <1>0, <2>1, <2>2, AvailWritten
  <2>4. Published' = Published
    BY <2>1, PublishedStep
  <2> QED BY <1>0, <2>1, <2>3, <2>4 DEF Unfetched
<1>6. ASSUME AddBufIdx PROVE Unfetched'
  <2>1. /\ pc = "addIdx" /\ pc' = "idle" /\ UNCHANGED dev
        /\ avail' = [avail EXCEPT !.idx = vr16(Succ(vr16(@)))]
    BY <1>6 DEF AddBufIdx
  <2>2. AvailLen < N
    BY <2>1, RoomInRing
  <2>3. /\ AvailLen' = AvailLen + 1
        /\ \A j \in 0..AvailLen : AvailAt(j)' = AvailAt(j)
        /\ \A j : j = AvailLen => AvailAt(j) = add.head
    BY <1>0, <2>1, <2>2, AvailPublished
  <2>4. Published' = Published \cup {add.head} /\ add.head \in D \ Published
    BY <1>6, PublishedStep
  <2>5. add.head \notin dev.held \cup {dev.walk.head}
    BY <2>4, DeviceHas
  <2>6. \A j \in 0..AvailLen : j \in 0..AvailLen-1 \/ j = AvailLen
    BY <1>0
  <2>7. \A j \in 0..AvailLen :
           AvailAt(j)' \in Published' \ (dev'.held \cup {dev'.walk.head})
    BY <1>0, <2>1, <2>3, <2>4, <2>5, <2>6
  <2>8. \A j, k \in 0..AvailLen : AvailAt(j)' = AvailAt(k)' => j = k
    BY <1>0, <2>3, <2>4, <2>6
  <2>9. 0..AvailLen'-1 = 0..AvailLen /\ AvailLen' <= N
    BY <1>0, <2>2, <2>3, Sizes
  <2> QED BY <2>1, <2>7, <2>8, <2>9 DEF Unfetched
<1>7. ASSUME DevFetch PROVE Unfetched'
  <2>1. /\ UNCHANGED <<avail, pc, add>> /\ dev.seen # vr16(avail.idx)
        /\ dev' = [dev EXCEPT !.seen = Succ(@),
                              !.walk = [head |-> vr16(avail.ring[Slot(dev.seen)]),
                                        cur |-> vr16(avail.ring[Slot(dev.seen)]),
                                        read |-> <<>>]]
        /\ ~AddBufIdx /\ ~GetBufTake
    BY <1>7 DEF DevFetch, AddBufIdx, GetBufTake
  <2>2. /\ dev'.seen = Succ(dev.seen) /\ dev'.held = dev.held
        /\ dev'.walk.head = vr16(avail.ring[Slot(dev.seen)])
    BY <1>0, <2>1 DEF Types, DeviceType
  <2>3. AvailLen # 0
    BY <1>0, <2>1, AvailWindowIs
  <2>4. /\ AvailLen' = AvailLen - 1
        /\ \A j \in 0..AvailLen-2 : AvailAt(j)' = AvailAt(j + 1)
        /\ AvailAt(0) = dev'.walk.head
    BY <1>0, <2>1, <2>2, <2>3, AvailFetched
  <2>5. Published' = Published
    BY <2>1, PublishedStep
  <2>6. /\ \A j \in 0..AvailLen-2 : j+1 \in 0..AvailLen-1 /\ j+1 # 0
        /\ 0 \in 0..AvailLen-1 /\ 0..AvailLen'-1 = 0..AvailLen-2 /\ AvailLen' <= N
    BY <1>0, <2>3, <2>4, Sizes
  <2>7. \A j \in 0..AvailLen-2 :
           AvailAt(j)' \in Published' \ (dev'.held \cup {dev'.walk.head})
    BY <1>0, <2>2, <2>4, <2>5, <2>6
  <2>8. ASSUME NEW j \in 0..AvailLen-2, NEW k \in 0..AvailLen-2, AvailAt(j)' = AvailAt(k)'
        PROVE  j = k
    <3>1. j + 1 = k + 1
      BY <1>0, <2>4, <2>6, <2>8
    <3> QED BY <3>1
  <2>9. AvailSlot' = AvailSlot
    BY <2>1 DEF AvailSlot
  <2> QED BY <1>0, <2>1, <2>6, <2>7, <2>8, <2>9 DEF Unfetched
<1>8. ASSUME DevWalk PROVE Unfetched'
  <2>1. /\ UNCHANGED <<avail, pc, add>> /\ ~AddBufIdx /\ ~GetBufTake
    BY <1>8 DEF DevWalk, AddBufIdx, GetBufTake
  <2>2. Published' = Published
    BY <2>1, PublishedStep
  <2>3. dev'.seen = dev.seen
        /\ dev'.held \cup {dev'.walk.head} \subseteq dev.held \cup {dev.walk.head, N}
    <3>0. dev \in [seen : Idx, walk : [head : 0..N, cur : D, read : Seq(Entries)],
                   held : SUBSET D, read : [D -> Seq(Entries)], bogus : Nat]
      BY <1>0 DEF Types, DeviceType
    <3>1. \/ \E c, e : dev' = [dev EXCEPT !.walk.cur = c, !.walk.read = e]
          \/ \E e : dev' = [dev EXCEPT !.walk = NoWalk, !.held = @ \cup {dev.walk.head},
                                       !.read[dev.walk.head] = e]
      BY <1>8 DEF DevWalk
    <3>2. CASE \E c, e : dev' = [dev EXCEPT !.walk.cur = c, !.walk.read = e]
      BY <3>0, <3>2, ZenonT(60)
    <3>3. CASE \E e : dev' = [dev EXCEPT !.walk = NoWalk, !.held = @ \cup {dev.walk.head},
                                         !.read[dev.walk.head] = e]
      BY <3>0, <3>3 DEF NoWalk
    <3> QED BY <3>1, <3>2, <3>3
  <2> QED BY <1>0, <2>1, <2>2, <2>3, DeviceHas, UnfetchedKept
<1>9. ASSUME NEW h \in D, DevComplete(h) PROVE Unfetched'
  <2>1. /\ UNCHANGED <<avail, pc, add>> /\ ~AddBufIdx /\ ~GetBufTake
        /\ dev' = [dev EXCEPT !.held = @ \ {h}, !.read[h] = <<>>]
    BY <1>9 DEF DevComplete, AddBufIdx, GetBufTake, PutUsed
  <2>2. Published' = Published
    BY <2>1, PublishedStep
  <2>3. dev'.seen = dev.seen /\ dev'.held \subseteq dev.held /\ dev'.walk = dev.walk
    BY <1>0, <2>1 DEF Types, DeviceType
  <2> QED BY <1>0, <2>1, <2>2, <2>3, UnfetchedKept
<1>10. ASSUME DevBogus PROVE Unfetched'
  <2>1. /\ UNCHANGED <<avail, pc, add>> /\ ~AddBufIdx /\ ~GetBufTake
        /\ dev' = [dev EXCEPT !.bogus = @ + 1]
    BY <1>10 DEF DevBogus, AddBufIdx, GetBufTake
  <2>2. Published' = Published
    BY <2>1, PublishedStep
  <2>3. dev'.seen = dev.seen /\ dev'.held = dev.held /\ dev'.walk = dev.walk
    BY <1>0, <2>1 DEF Types, DeviceType
  <2> QED BY <1>0, <2>1, <2>2, <2>3, UnfetchedKept
<1>11. ASSUME GetBufEmpty \/ GetBufBogus \/ IrqDeliver PROVE Unfetched'
  <2>1. /\ UNCHANGED <<avail, dev, pc, add>>
    BY <1>11 DEF GetBufEmpty, GetBufBogus, IrqDeliver
  <2>2. Published' = Published
    <3>1. Quiet
      BY <1>11 DEF Quiet
    <3> QED BY <3>1, QuietKeeps DEF listVars, Published, Busy
  <2> QED BY <1>0, <2>1, <2>2, UnfetchedKept
<1> QED BY <1>1, <1>2, <1>3, <1>4, <1>5, <1>6, <1>7, <1>8, <1>9, <1>10, <1>11, StepCases
        DEF Quiet
-----------------------------------------------------------------------------
\* What the device reads and holds.

\* GetBuf takes nothing back that the device still has.
LEMMA DeviceKeeps ==
    ASSUME IInv, Next, NEW h \in Published, h \in dev.held \cup {dev.walk.head}
    PROVE  h \in Published'
<1>1. CASE GetBufTake
  <2>1. PICK id \in Published :
           id = vr32(used.ring[Slot(last_used_idx)]) /\ id = UsedAt(0) /\ UsedLen > 0
           /\ id \in D
    BY <1>1, TakeMoves
  <2>2. 0 \in 0..UsedLen-1 /\ id # N
    BY <2>1, UsedWindowIs, DeviceHas DEF IInv
  <2>3. id \notin dev.held \cup {dev.walk.head}
    BY <2>1, <2>2 DEF IInv, Completed
  <2>4. get'.head = id
    BY <1>1, <2>1 DEF GetBufTake
  <2> QED BY <1>1, <2>3, <2>4, PublishedStep
<1>2. CASE ~GetBufTake
  BY <1>2, PublishedStep
<1> QED BY <1>1, <1>2

\* A published head stands at the front of a chain that is complete.
LEMMA PublishedChain ==
    ASSUME IInv, NEW h \in Published
    PROVE  /\ h \in D /\ req[h] \in Requests /\ chain[h] # <<>> /\ chain[h][1] = h
           /\ \/ /\ Indirect(h) /\ indirect_tables[h] = SgList(req[h])
                 /\ Len(chain[h]) = 1
              \/ /\ ~Indirect(h)
                 /\ Linked(h) /\ Filled(h) /\ ~Open(h) /\ Len(chain[h]) = req[h].total
                 /\ indirect_tables[h] = NoTable
<1>1. h \in D /\ chain[h] # <<>> /\ ~Mine(h)
  BY PublishedIs DEF Mine
<1>2. ~Open(h) /\ ~Taken(h) /\ ~Unnoted(h)
  BY <1>1 DEF Mine, Open, Taken, Unnoted, Adding
<1>3. ChainOK(h) /\ TableOK(h) /\ req[h] \in Requests
  BY <1>1 DEF IInv, Chains, TablesKept, Calls
<1>4. CASE Indirect(h)
  <2>1. Len(chain[h]) = 1 /\ chain[h][1] = h
    BY <1>4 DEF Indirect
  <2> QED BY <1>1, <1>2, <1>3, <1>4, <2>1 DEF TableOK, Meant
<1>5. CASE ~Indirect(h)
  BY <1>1, <1>2, <1>3, <1>5 DEF ChainOK, TableOK, Meant
<1> QED BY <1>4, <1>5

\* A step of the walk reads one entry, the last step all of them.
LEMMA WalkReads ==
    ASSUME IInv, DevWalk, NEW h, h = dev.walk.head, NEW got, got = dev.walk.read
    PROVE  /\ dev.walk # NoWalk /\ h \in Published \ dev.held
           /\ got \in Seq(Entries) /\ Len(got) \in Nat
           /\ \A i \in 1..Len(got) : got[i] = SgList(req[h])[i]
           /\ \/ /\ Len(got) + 1 < Len(chain[h])
                 /\ SgList(req[h])[Len(got) + 1] \in Entries
                 /\ dev' = [dev EXCEPT !.walk.cur = chain[h][Len(got) + 2],
                              !.walk.read = Append(got, SgList(req[h])[Len(got) + 1])]
              \/ dev' = [dev EXCEPT !.walk = NoWalk, !.held = @ \cup {h},
                                    !.read[h] = SgList(req[h])]
<1> DEFINE n == Len(got)
           cur == dev.walk.cur
           d == desc[cur]
           entry == [addr |-> d.addr, write |-> d.write]
<1>1. dev.walk # NoWalk
  BY DEF DevWalk, DevIdle
<1>2. /\ h \in Published \ dev.held /\ n < Len(chain[h]) /\ cur = chain[h][n + 1]
      /\ \A i \in 1..n : got[i] = SgList(req[h])[i]
  BY <1>1 DEF IInv, Reading
<1>3. got \in Seq(Entries) /\ n \in Nat
  <2>1. got \in Seq(Entries)
    BY DEF IInv, Types, DeviceType
  <2> QED BY <2>1, LenProperties
<1>4. /\ h \in D /\ req[h] \in Requests /\ chain[h] # <<>> /\ chain[h][1] = h
      /\ Len(chain[h]) \in Nat /\ \A i \in 1..Len(chain[h]) : chain[h][i] \in D
  BY <1>2, PublishedChain, ChainTypes DEF IInv
<1>5. dev' = IF d.flag = "next"
             THEN [dev EXCEPT !.walk.cur = vr16(d.next),
                              !.walk.read = IF d.flag = "indirect" THEN indirect_tables[cur]
                                            ELSE Append(got, entry)]
             ELSE [dev EXCEPT !.walk = NoWalk, !.held = @ \cup {h},
                              !.read[h] = IF d.flag = "indirect" THEN indirect_tables[cur]
                                          ELSE Append(got, entry)]
  BY DEF DevWalk
<1>6. CASE Indirect(h)
  <2>1. Len(chain[h]) = 1 /\ indirect_tables[h] = SgList(req[h])
    BY <1>2, <1>6, PublishedChain
  <2>2. cur = h
    <3>1. n = 0
      BY <1>2, <1>3, <2>1
    <3> QED BY <1>2, <1>4, <3>1
  <2>3. d.flag = "indirect"
    BY <1>6, <2>2 DEF Indirect
  <2> QED BY <1>1, <1>2, <1>3, <1>5, <2>1, <2>2, <2>3
<1>7. CASE ~Indirect(h)
  <2>1. Linked(h) /\ Filled(h) /\ ~Open(h) /\ Len(chain[h]) = req[h].total
    BY <1>2, <1>7, PublishedChain
  <2>2. n + 1 \in 1..Len(chain[h])
    BY <1>2, <1>3, <1>4
  <2>3. /\ d.flag = IF n + 1 < Len(chain[h]) THEN "next" ELSE "none"
        /\ n + 1 < Len(chain[h]) => d.next = vr16(chain[h][(n + 1) + 1])
    <3>1. \A i \in 1..Len(chain[h]) :
             /\ desc[chain[h][i]].flag = IF i < Len(chain[h]) THEN "next" ELSE "none"
             /\ i < Len(chain[h]) => desc[chain[h][i]].next = vr16(chain[h][i+1])
      BY <2>1 DEF Linked
    <3>2. d = desc[chain[h][n + 1]]
      BY <1>2
    <3> HIDE DEF d, n
    <3> QED BY <2>2, <3>1, <3>2
  <2>4. d.addr = SgList(req[h])[n+1].addr /\ d.write = SgList(req[h])[n+1].write
    BY <1>2, <2>1, <2>2, ZenonT(60) DEF Filled
  <2>5. /\ SgList(req[h]) \in Seq(Entries) /\ Len(SgList(req[h])) = req[h].total
        /\ \A i \in 1..req[h].total : SgList(req[h])[i] \in Entries
    <3>1. /\ SgList(req[h]) \in Seq(Entries) /\ Len(SgList(req[h])) = req[h].total
      BY <1>4, RequestTypes
    <3> QED BY <3>1, ElementOfSeq
  <2>6. entry = SgList(req[h])[n+1]
    <3>1. SgList(req[h])[n+1] \in Entries
      BY <2>1, <2>2, <2>5
    <3> HIDE DEF n, d
    <3>2. PICK x \in Entries : x = SgList(req[h])[n+1]
      BY <3>1
    <3>3. entry = [addr |-> x.addr, write |-> x.write]
      BY <2>4, <3>2, Zenon
    <3>4. x = [addr |-> x.addr, write |-> x.write]
      BY DEF Entries
    <3> QED BY <3>2, <3>3, <3>4, Zenon
  <2> HIDE DEF entry, d, cur
  <2>7. CASE n + 1 < Len(chain[h])
    <3>1. (n + 1) + 1 = n + 2 /\ n + 2 \in 1..Len(chain[h])
      BY <1>3, <1>4, <2>7
    <3>2. vr16(d.next) = chain[h][n + 2]
      <4>1. chain[h][n + 2] \in D /\ d.next = vr16(chain[h][n + 2])
        BY <1>4, <2>3, <2>7, <3>1
      <4> QED BY <4>1, Words, Orders
    <3>3. d.flag = "next"
      BY <2>3, <2>7
    <3>4. dev' = [dev EXCEPT !.walk.cur = chain[h][n + 2],
                             !.walk.read = Append(got, SgList(req[h])[n + 1])]
      BY <1>5, <2>6, <3>2, <3>3
    <3>5. SgList(req[h])[n + 1] \in Entries
      BY <2>1, <2>2, <2>5
    <3> QED BY <1>1, <1>2, <1>3, <2>7, <3>4, <3>5
  <2>8. CASE ~(n + 1 < Len(chain[h]))
    <3>1. d.flag = "none" /\ n + 1 = Len(chain[h])
      BY <1>2, <1>3, <1>4, <2>3, <2>8
    <3>2. Append(got, entry) = SgList(req[h])
      <4>1. entry \in Entries
        BY <2>1, <2>2, <2>5, <2>6
      <4>2. /\ Append(got, entry) \in Seq(Entries) /\ Len(Append(got, entry)) = n + 1
            /\ \A i \in 1..n : Append(got, entry)[i] = got[i]
            /\ Append(got, entry)[n + 1] = entry
        BY <1>3, <4>1, AppendProperties
      <4>3. \A i \in 1..n+1 : Append(got, entry)[i] = SgList(req[h])[i]
        BY <1>2, <1>3, <2>6, <4>2, SMTT(60)
      <4>4. Len(SgList(req[h])) = n + 1
        BY <2>1, <2>5, <3>1
      <4> QED BY <2>5, <4>2, <4>3, <4>4, SeqEqual
    <3>3. dev' = [dev EXCEPT !.walk = NoWalk, !.held = @ \cup {h},
                             !.read[h] = SgList(req[h])]
      BY <1>5, <3>1, <3>2
    <3> QED BY <1>1, <1>2, <1>3, <3>3
  <2> QED BY <2>7, <2>8
<1> QED BY <1>6, <1>7

\* What becomes of the device's record in each step.
LEMMA DevStep ==
    ASSUME IInv, Next
    PROVE  \/ DevFetch \/ DevWalk
           \/ /\ dev'.walk = dev.walk /\ dev'.held \subseteq dev.held
              /\ \A h \in dev'.held : dev'.read[h] = dev.read[h]
<1>0. dev \in [seen : Idx, walk : [head : 0..N, cur : D, read : Seq(Entries)],
               held : SUBSET D, read : [D -> Seq(Entries)], bogus : Nat]
  BY DEF IInv, Types, DeviceType
<1>1. CASE UNCHANGED dev
  BY <1>1
<1>2. ASSUME NEW h \in D, DevComplete(h)
      PROVE  /\ dev'.walk = dev.walk /\ dev'.held \subseteq dev.held
             /\ \A k \in dev'.held : dev'.read[k] = dev.read[k]
  <2>1. dev' = [dev EXCEPT !.held = @ \ {h}, !.read[h] = <<>>]
    BY <1>2 DEF DevComplete
  <2>2. dev'.walk = dev.walk /\ dev'.held = dev.held \ {h}
        /\ dev'.read = [dev.read EXCEPT ![h] = <<>>]
    BY <1>0, <2>1
  <2> QED BY <1>0, <2>2
<1>3. CASE DevBogus
  <2>1. dev' = [dev EXCEPT !.bogus = @ + 1]
    BY <1>3 DEF DevBogus
  <2> QED BY <1>0, <2>1
<1>4. DevFetch \/ DevWalk \/ UNCHANGED dev \/ (\E h \in D : DevComplete(h)) \/ DevBogus
  BY DEF Next, AddBufSteps, GetBuf, Device, AddBufDirect, AddBufIndirect, AddBufLoop,
         AddBufRing, AddBufIdx, GetBufEmpty, GetBufBogus, GetBufTake, GetBufLoop,
         GetBufDone, IrqDeliver
<1> QED BY <1>1, <1>2, <1>3, <1>4

\* Where a fetch starts.
LEMMA FetchStarts ==
    ASSUME IInv, DevFetch
    PROVE  \E h \in Published \ dev.held :
              /\ h = AvailAt(0) /\ AvailLen > 0
              /\ dev' = [dev EXCEPT !.seen = Succ(@),
                                    !.walk = [head |-> h, cur |-> h, read |-> <<>>]]
              /\ Succ(dev.seen) \in Idx
<1>1. /\ dev.seen # vr16(avail.idx) /\ dev.walk = NoWalk
      /\ dev' = [dev EXCEPT !.seen = Succ(@),
                            !.walk = [head |-> vr16(avail.ring[Slot(dev.seen)]),
                                      cur |-> vr16(avail.ring[Slot(dev.seen)]),
                                      read |-> <<>>]]
  BY DEF DevFetch, DevIdle
<1>2. AvailLen # 0 /\ AvailLen \in Nat /\ dev.seen \in Idx
  BY <1>1, AvailWindowIs DEF IInv, Types, DeviceType
<1>3. AvailAt(0) = vr16(avail.ring[Slot(dev.seen)])
  <2>1. /\ dev.seen \in Int /\ 0 <= dev.seen /\ dev.seen < IdxMod
        /\ -IdxMod <= dev.seen /\ dev.seen < 2 * IdxMod
    BY <1>2, Sizes DEF Idx
  <2>2. dev.seen % IdxMod = dev.seen /\ dev.seen + 0 = dev.seen
    BY <2>1, Around
  <2> QED BY <2>2 DEF AvailAt
<1>4. AvailAt(0) \in Published \ dev.held
  <2>1. 0 \in 0..AvailLen-1
    BY <1>2
  <2> QED BY <2>1 DEF IInv, Unfetched
<1>5. Succ(dev.seen) \in Idx
  <2>1. PICK a \in Idx, b \in Idx : a = dev.seen /\ b = vr16(avail.idx) /\ a # b
    BY <1>1, <1>2 DEF IInv, Types
  <2>2. Succ(a) \in Idx
    BY <2>1, StepOfStart
  <2> QED BY <2>1, <2>2
<1>6. AvailLen > 0
  BY <1>2
<1> QED BY <1>1, <1>3, <1>4, <1>5, <1>6, Zenon

LEMMA ReadingStep ==
    ASSUME IInv, Next
    PROVE  Reading'
<1>0. dev \in [seen : Idx, walk : [head : 0..N, cur : D, read : Seq(Entries)],
               held : SUBSET D, read : [D -> Seq(Entries)], bogus : Nat]
  BY DEF IInv, Types, DeviceType
<1>1. CASE DevFetch
  <2>1. PICK h \in Published \ dev.held :
           dev' = [dev EXCEPT !.seen = Succ(@),
                              !.walk = [head |-> h, cur |-> h, read |-> <<>>]]
    BY <1>1, FetchStarts
  <2>2. /\ dev'.held = dev.held
        /\ dev'.walk.head = h /\ dev'.walk.cur = h /\ dev'.walk.read = <<>>
    BY <1>0, <2>1
  <2>3. UNCHANGED <<chain, req>> /\ Published' = Published
    <3>1. Quiet
      BY <1>1 DEF Quiet
    <3> QED BY <3>1, QuietKeeps DEF listVars, Published, Busy
  <2>4. h \in D /\ chain[h] # <<>> /\ chain[h][1] = h
    BY PublishedChain
  <2>5. Len(chain[h]) \in Nat /\ Len(chain[h]) # 0
    BY <2>4, ChainTypes DEF IInv
  <2>6. Len(dev'.walk.read) = 0
    BY <2>2
  <2>7. Len(dev'.walk.read) < Len(chain'[h])
    BY <2>3, <2>5, <2>6
  <2>8. dev'.walk.cur = chain'[h][Len(dev'.walk.read) + 1]
    BY <2>2, <2>3, <2>4, <2>6
  <2>9. \A i \in 1..Len(dev'.walk.read) : dev'.walk.read[i] = SgList(req'[h])[i]
    BY <2>6
  <2> QED BY <2>2, <2>3, <2>7, <2>8, <2>9 DEF Reading
<1>2. CASE DevWalk
  <2> DEFINE h == dev.walk.head
             got == dev.walk.read
  <2>1. /\ dev.walk # NoWalk /\ h \in Published \ dev.held
        /\ got \in Seq(Entries) /\ Len(got) \in Nat
        /\ \A i \in 1..Len(got) : got[i] = SgList(req[h])[i]
        /\ \/ /\ Len(got) + 1 < Len(chain[h])
              /\ SgList(req[h])[Len(got) + 1] \in Entries
              /\ dev' = [dev EXCEPT !.walk.cur = chain[h][Len(got) + 2],
                           !.walk.read = Append(got, SgList(req[h])[Len(got) + 1])]
           \/ dev' = [dev EXCEPT !.walk = NoWalk, !.held = @ \cup {h},
                                 !.read[h] = SgList(req[h])]
    BY <1>2, WalkReads
  <2>2. UNCHANGED <<chain, req>> /\ Published' = Published
    <3>1. Quiet
      BY <1>2 DEF Quiet
    <3> QED BY <3>1, QuietKeeps DEF listVars, Published, Busy
  <2>3. CASE /\ Len(got) + 1 < Len(chain[h])
             /\ SgList(req[h])[Len(got) + 1] \in Entries
             /\ dev' = [dev EXCEPT !.walk.cur = chain[h][Len(got) + 2],
                          !.walk.read = Append(got, SgList(req[h])[Len(got) + 1])]
    <3>1. /\ dev'.held = dev.held /\ dev'.walk.head = h
          /\ dev'.walk.cur = chain[h][Len(got) + 2]
          /\ dev'.walk.read = Append(got, SgList(req[h])[Len(got) + 1])
      BY <1>0, <2>3
    <3> HIDE DEF h, got
    <3>2. /\ Len(dev'.walk.read) = Len(got) + 1
          /\ \A i \in 1..Len(got) : dev'.walk.read[i] = got[i]
          /\ dev'.walk.read[Len(got) + 1] = SgList(req[h])[Len(got) + 1]
      BY <2>1, <2>3, <3>1, AppendProperties
    <3>3. \A i \in 1..Len(got)+1 : dev'.walk.read[i] = SgList(req[h])[i]
      BY <2>1, <3>2
    <3>4. (Len(got) + 1) + 1 = Len(got) + 2
      BY <2>1
    <3> QED BY <2>1, <2>2, <2>3, <3>1, <3>2, <3>3, <3>4, ZenonT(60) DEF Reading
  <2>4. CASE dev' = [dev EXCEPT !.walk = NoWalk, !.held = @ \cup {h},
                                !.read[h] = SgList(req[h])]
    <3>1. dev'.walk = NoWalk
      BY <1>0, <2>4
    <3> QED BY <3>1 DEF Reading
  <2> QED BY <2>1, <2>3, <2>4, ZenonT(60)
<1>3. CASE dev'.walk = dev.walk /\ dev'.held \subseteq dev.held
  <2>1. CASE dev.walk = NoWalk
    BY <1>3, <2>1 DEF Reading
  <2>2. CASE dev.walk # NoWalk
    <3> DEFINE h == dev.walk.head
               got == dev.walk.read
    <3>1. /\ h \in Published \ dev.held
          /\ Len(got) < Len(chain[h]) /\ dev.walk.cur = chain[h][Len(got) + 1]
          /\ \A i \in 1..Len(got) : got[i] = SgList(req[h])[i]
      BY <2>2 DEF IInv, Reading
    <3>2. h \in Published'
      BY <3>1, DeviceKeeps
    <3>3. chain'[h] = chain[h] /\ req'[h] = req[h]
      BY <3>1, <3>2, StaysPublished
    <3> QED BY <1>3, <3>1, <3>2, <3>3 DEF Reading
  <2> QED BY <2>1, <2>2
<1> QED BY <1>1, <1>2, <1>3, DevStep

LEMMA HeldStep ==
    ASSUME IInv, Next
    PROVE  HeldRequests'
<1>0. dev \in [seen : Idx, walk : [head : 0..N, cur : D, read : Seq(Entries)],
               held : SUBSET D, read : [D -> Seq(Entries)], bogus : Nat]
  BY DEF IInv, Types, DeviceType
<1>1. ASSUME NEW h \in dev.held
      PROVE  /\ h \in Published /\ h \in Published' /\ req'[h] = req[h]
             /\ dev.read[h] = SgList(req[h]) /\ h # dev.walk.head /\ h \in D
  <2>1. h \in Published /\ dev.read[h] = SgList(req[h])
    BY DEF IInv, HeldRequests
  <2>2. h \in Published'
    BY <2>1, DeviceKeeps
  <2>3. h # dev.walk.head
    BY <2>1, DeviceHas DEF IInv, Reading
  <2> QED BY <2>1, <2>2, <2>3, StaysPublished
<1>2. CASE DevFetch
  <2>1. \E h : dev' = [dev EXCEPT !.seen = Succ(@),
                              !.walk = [head |-> h, cur |-> h, read |-> <<>>]]
    BY <1>2, FetchStarts
  <2>2. dev'.held = dev.held /\ dev'.read = dev.read
    BY <1>0, <2>1
  <2> QED BY <1>1, <2>2 DEF HeldRequests
<1>3. CASE DevWalk
  <2> DEFINE h == dev.walk.head
             got == dev.walk.read
  <2>1. /\ h \in Published
        /\ \/ dev' = [dev EXCEPT !.walk.cur = chain[h][Len(got) + 2],
                          !.walk.read = Append(got, SgList(req[h])[Len(got) + 1])]
           \/ dev' = [dev EXCEPT !.walk = NoWalk, !.held = @ \cup {h},
                                 !.read[h] = SgList(req[h])]
    BY <1>3, WalkReads
  <2>2. UNCHANGED req /\ Published' = Published
    <3>1. Quiet
      BY <1>3 DEF Quiet
    <3> QED BY <3>1, QuietKeeps DEF listVars, Published, Busy
  <2>3. CASE dev' = [dev EXCEPT !.walk.cur = chain[h][Len(got) + 2],
                          !.walk.read = Append(got, SgList(req[h])[Len(got) + 1])]
    <3>1. dev'.held = dev.held /\ dev'.read = dev.read
      BY <1>0, <2>3
    <3> QED BY <1>1, <3>1 DEF HeldRequests
  <2>4. CASE dev' = [dev EXCEPT !.walk = NoWalk, !.held = @ \cup {h},
                                !.read[h] = SgList(req[h])]
    <3>1. dev'.held = dev.held \cup {h}
          /\ dev'.read = [dev.read EXCEPT ![h] = SgList(req[h])]
      BY <1>0, <2>4
    <3>2. h \in D /\ dev.read \in [D -> Seq(Entries)]
      BY <1>0, <2>1, DeviceHas
    <3>3. dev'.read[h] = SgList(req[h])
          /\ \A k \in D \ {h} : dev'.read[k] = dev.read[k]
      BY <3>1, <3>2
    <3> QED BY <1>1, <2>1, <2>2, <3>1, <3>3 DEF HeldRequests
  <2> QED BY <2>1, <2>3, <2>4, ZenonT(60)
<1>4. CASE /\ dev'.held \subseteq dev.held
           /\ \A h \in dev'.held : dev'.read[h] = dev.read[h]
  BY <1>1, <1>4 DEF HeldRequests
<1> QED BY <1>2, <1>3, <1>4, DevStep
-----------------------------------------------------------------------------
\* The used ring.

\* Nothing comes into the window of the available ring but what AddBuf publishes.
LEMMA AvailMoves ==
    ASSUME IInv, Next, NEW k \in 0..AvailLen'-1
    PROVE  \/ \E l \in 0..AvailLen-1 : AvailAt(k)' = AvailAt(l)
           \/ AddBufIdx /\ AvailAt(k)' = add.head
<1>0. /\ Types /\ AvailLen \in Nat /\ AvailLen <= N /\ add.head \in D
      /\ (pc = "addIdx" => vr16(avail.ring[AvailSlot]) = add.head)
      /\ avail \in [idx : Word16, ring : [D -> Word16], event : Word16]
  BY AvailWindowIs DEF IInv, Unfetched, Types, LocalsType
<1>1. ASSUME avail'.idx = avail.idx, avail'.ring = avail.ring, dev'.seen = dev.seen
      PROVE  \E l \in 0..AvailLen-1 : AvailAt(k)' = AvailAt(l)
  <2>1. AvailLen' = AvailLen
    BY <1>1 DEF AvailLen
  <2>2. AvailAt(k)' = AvailAt(k)
    BY <1>1 DEF AvailAt
  <2> QED BY <2>1, <2>2
<1>2. CASE AddBufRing
  <2>1. /\ pc = "addRing" /\ UNCHANGED dev
        /\ avail' = [avail EXCEPT !.ring[AvailSlot] = vr16(add.head)]
    BY <1>2 DEF AddBufRing
  <2>2. AvailLen < N
    BY <2>1, RoomInRing
  <2>3. /\ AvailLen' = AvailLen
        /\ \A j \in 0..AvailLen-1 : AvailAt(j)' = AvailAt(j)
    BY <1>0, <2>1, <2>2, AvailWritten
  <2> QED BY <2>3
<1>3. CASE AddBufIdx
  <2>1. /\ pc = "addIdx" /\ UNCHANGED dev
        /\ avail' = [avail EXCEPT !.idx = vr16(Succ(vr16(@)))]
    BY <1>3 DEF AddBufIdx
  <2>2. AvailLen < N
    BY <2>1, RoomInRing
  <2>3. /\ AvailLen' = AvailLen + 1
        /\ \A j \in 0..AvailLen : AvailAt(j)' = AvailAt(j)
        /\ \A j : j = AvailLen => AvailAt(j) = add.head
    BY <1>0, <2>1, <2>2, AvailPublished
  <2>4. k \in 0..AvailLen-1 \/ k = AvailLen
    BY <1>0, <2>3
  <2>5. k \in 0..AvailLen
    BY <1>0, <2>3
  <2> QED BY <1>3, <2>3, <2>4, <2>5
<1>4. CASE DevFetch
  <2>1. UNCHANGED avail /\ dev'.seen = Succ(dev.seen) /\ AvailLen > 0
    <3>1. \E h : AvailLen > 0 /\ dev' = [dev EXCEPT !.seen = Succ(@),
                                   !.walk = [head |-> h, cur |-> h, read |-> <<>>]]
      BY <1>4, FetchStarts
    <3> QED BY <1>0, <1>4, <3>1 DEF DevFetch, Types, DeviceType
  <2>2. /\ AvailLen' = AvailLen - 1
        /\ \A j \in 0..AvailLen-2 : AvailAt(j)' = AvailAt(j + 1)
    BY <1>0, <2>1, AvailFetched
  <2>3. k \in 0..AvailLen-2 /\ k + 1 \in 0..AvailLen-1
    BY <1>0, <2>1, <2>2
  <2> QED BY <2>2, <2>3
<1>5. CASE GetBufDone
  <2>1. avail' = avail \/ avail' = [avail EXCEPT !.event = vr16(UsedEvent)]
    BY <1>5 DEF GetBufDone
  <2>2. avail'.idx = avail.idx /\ avail'.ring = avail.ring
    BY <1>0, <2>1
  <2> QED BY <1>1, <1>5, <2>2 DEF GetBufDone
<1>6. CASE \/ DevWalk \/ (\E h \in D : DevComplete(h)) \/ DevBogus
  <2>1. avail' = avail
    BY <1>6 DEF DevWalk, DevComplete, DevBogus
  <2>2. dev'.seen = dev.seen
    <3>1. dev \in [seen : Idx, walk : [head : 0..N, cur : D, read : Seq(Entries)],
                   held : SUBSET D, read : [D -> Seq(Entries)], bogus : Nat]
      BY <1>0 DEF Types, DeviceType
    <3>2. CASE DevWalk
      BY <3>1, <3>2 DEF DevWalk
    <3>3. CASE \E h \in D : DevComplete(h)
      BY <3>1, <3>3 DEF DevComplete
    <3>4. CASE DevBogus
      BY <3>1, <3>4 DEF DevBogus
    <3> QED BY <1>6, <3>2, <3>3, <3>4
  <2> QED BY <1>1, <2>1, <2>2
<1>7. CASE UNCHANGED <<avail, dev>>
  BY <1>1, <1>7
<1>8. \/ AddBufRing \/ AddBufIdx \/ DevFetch \/ GetBufDone
      \/ DevWalk \/ (\E h \in D : DevComplete(h)) \/ DevBogus
      \/ UNCHANGED <<avail, dev>>
  BY DEF Next, AddBufSteps, GetBuf, Device, AddBufDirect, AddBufIndirect, AddBufLoop,
         GetBufEmpty, GetBufBogus, GetBufTake, GetBufLoop, IrqDeliver
<1> QED BY <1>2, <1>3, <1>4, <1>5, <1>6, <1>7, <1>8

\* The device gets what it fetches and nothing else; bogus entries are counted.
LEMMA DeviceMoves ==
    ASSUME IInv, Next
    PROVE  /\ \A e \in dev'.held \cup {dev'.walk.head} :
                 e \in dev.held \cup {dev.walk.head, N}
                   \/ \E l \in 0..AvailLen-1 : e = AvailAt(l)
           /\ dev'.bogus \in Nat /\ dev.bogus \in Nat /\ dev'.bogus >= dev.bogus
<1>0. dev \in [seen : Idx, walk : [head : 0..N, cur : D, read : Seq(Entries)],
               held : SUBSET D, read : [D -> Seq(Entries)], bogus : Nat]
  BY DEF IInv, Types, DeviceType
<1>1. CASE DevFetch
  <2>1. PICK h : /\ h = AvailAt(0) /\ AvailLen > 0
                 /\ dev' = [dev EXCEPT !.seen = Succ(@),
                                   !.walk = [head |-> h, cur |-> h, read |-> <<>>]]
    BY <1>1, FetchStarts
  <2>2. dev'.held = dev.held /\ dev'.walk.head = h /\ dev'.bogus = dev.bogus
    BY <1>0, <2>1
  <2>3. 0 \in 0..AvailLen-1
    BY <2>1, AvailWindowIs DEF IInv
  <2> QED BY <1>0, <2>1, <2>2, <2>3
<1>2. CASE DevWalk
  <2>1. \/ \E c, e : dev' = [dev EXCEPT !.walk.cur = c, !.walk.read = e]
        \/ \E e : dev' = [dev EXCEPT !.walk = NoWalk, !.held = @ \cup {dev.walk.head},
                                     !.read[dev.walk.head] = e]
    BY <1>2 DEF DevWalk
  <2>2. CASE \E c, e : dev' = [dev EXCEPT !.walk.cur = c, !.walk.read = e]
    <3>1. dev'.held = dev.held /\ dev'.walk.head = dev.walk.head /\ dev'.bogus = dev.bogus
      BY <1>0, <2>2
    <3> QED BY <1>0, <3>1
  <2>3. CASE \E e : dev' = [dev EXCEPT !.walk = NoWalk, !.held = @ \cup {dev.walk.head},
                                       !.read[dev.walk.head] = e]
    <3>1. /\ dev'.held = dev.held \cup {dev.walk.head} /\ dev'.walk.head = N
          /\ dev'.bogus = dev.bogus
      BY <1>0, <2>3 DEF NoWalk
    <3> QED BY <1>0, <3>1
  <2> QED BY <2>1, <2>2, <2>3
<1>3. ASSUME NEW h \in D, DevComplete(h)
      PROVE  dev'.held \subseteq dev.held /\ dev'.walk = dev.walk /\ dev'.bogus = dev.bogus
  BY <1>0, <1>3 DEF DevComplete
<1>4. CASE DevBogus
  BY <1>0, <1>4 DEF DevBogus
<1>5. CASE UNCHANGED dev
  BY <1>0, <1>5
<1>6. DevFetch \/ DevWalk \/ UNCHANGED dev \/ (\E h \in D : DevComplete(h)) \/ DevBogus
  BY DEF Next, AddBufSteps, GetBuf, Device, AddBufDirect, AddBufIndirect, AddBufLoop,
         AddBufRing, AddBufIdx, GetBufEmpty, GetBufBogus, GetBufTake, GetBufLoop,
         GetBufDone, IrqDeliver
<1>7. CASE \E h \in D : DevComplete(h)
  BY <1>0, <1>3, <1>7
<1> QED BY <1>1, <1>2, <1>4, <1>5, <1>6, <1>7

\* An entry the driver has not passed is a request the device is done with.
LEMMA EntryKept ==
    ASSUME IInv, Next, NEW j \in 0..UsedLen-1, NEW e, e = UsedAt(j), e # N
    PROVE  /\ e \in D /\ e \notin dev'.held \cup {dev'.walk.head}
           /\ \A k \in 0..AvailLen'-1 : e # AvailAt(k)'
           /\ e \in Published' \/ (j = 0 /\ (pc \in Getting \/ GetBufTake))
<1>1. /\ e \in Published \/ (pc \in Getting /\ j = 0)
      /\ e \notin dev.held \cup {dev.walk.head}
      /\ \A k \in 0..AvailLen-1 : e # AvailAt(k)
      /\ \A k \in 0..UsedLen-1 : UsedAt(j) = UsedAt(k) => j = k
  BY DEF IInv, Completed
<1>2. e \in D
  <2>1. CASE e \in Published
    BY <2>1, DeviceHas
  <2>2. CASE pc \in Getting /\ j = 0
    BY <2>2 DEF IInv, Completed, Types, LocalsType
  <2> QED BY <1>1, <2>1, <2>2
<1>3. e \notin dev'.held \cup {dev'.walk.head}
  BY <1>1, DeviceMoves
<1>4. ASSUME AddBufIdx PROVE e # add.head
  <2>1. e \in Published
    BY <1>1, <1>4 DEF AddBufIdx, Getting
  <2> QED BY <1>4, <2>1, PublishedStep
<1>5. \A k \in 0..AvailLen'-1 : e # AvailAt(k)'
  BY <1>1, <1>4, AvailMoves
<1>6. ASSUME e \in Published, ~(j = 0 /\ GetBufTake) PROVE e \in Published'
  <2>1. CASE GetBufTake
    <3>1. PICK id : id = vr32(used.ring[Slot(last_used_idx)]) /\ id = UsedAt(0)
                    /\ UsedLen > 0
      BY <2>1, TakeMoves
    <3>2. 0 \in 0..UsedLen-1
      BY <3>1, UsedWindowIs DEF IInv
    <3>3. get'.head = id /\ id # e
      BY <1>1, <1>6, <2>1, <3>1, <3>2 DEF GetBufTake
    <3> QED BY <1>6, <2>1, <3>3, PublishedStep
  <2>2. CASE ~GetBufTake
    BY <1>6, <2>2, PublishedStep
  <2> QED BY <2>1, <2>2
<1> QED BY <1>1, <1>2, <1>3, <1>5, <1>6

\* The window of the used ring stays as it is.
LEMMA CompletedKept ==
    ASSUME IInv, Next, UNCHANGED <<used, last_used_idx>>,
           pc' \in Getting => UsedLen > 0 /\ UsedAt(0) = get'.head,
           pc \in Getting \/ GetBufTake => pc' \in Getting
    PROVE  Completed'
<1>1. UsedLen' = UsedLen /\ \A j : UsedAt(j)' = UsedAt(j)
  BY DEF UsedLen, UsedAt
<1>2. Completed
  BY DEF IInv
<1>3. ASSUME NEW j \in 0..UsedLen-1, UsedAt(j) # N
      PROVE  /\ UsedAt(j) \in Published' \/ (pc' \in Getting /\ j = 0)
             /\ UsedAt(j) \notin dev'.held \cup {dev'.walk.head}
             /\ \A k \in 0..AvailLen'-1 : UsedAt(j) # AvailAt(k)'
  BY <1>3, EntryKept
<1>4. ASSUME NEW j \in 0..UsedLen-1, UsedAt(j) = N PROVE dev'.bogus > 0
  <2>1. dev.bogus > 0
    <3>1. N \notin Published
      BY DeviceHas
    <3>2. pc \in Getting /\ j = 0 => UsedAt(j) \in D
      BY <1>2 DEF Completed, IInv, Types, LocalsType
    <3> QED BY <1>2, <1>4, <3>1, <3>2, DeviceHas DEF Completed
  <2> QED BY <2>1, DeviceMoves
<1> QED BY <1>1, <1>2, <1>3, <1>4 DEF Completed

\* The driver passes the first entry.
LEMMA CompletedPassed ==
    ASSUME IInv, Next, UsedLen # 0, last_used_idx' = Succ(last_used_idx), UNCHANGED used,
           pc' \notin Getting
    PROVE  Completed'
<1>0. Types /\ UsedLen \in Nat /\ UsedLen <= N
  BY UsedWindowIs DEF IInv, Completed
<1>1. /\ UsedLen' = UsedLen - 1
      /\ \A j \in 0..UsedLen-2 : UsedAt(j)' = UsedAt(j + 1)
  BY <1>0, UsedPassed
<1>2. /\ \A j \in 0..UsedLen-2 : j + 1 \in 0..UsedLen-1 /\ j + 1 # 0
      /\ 0..UsedLen'-1 = 0..UsedLen-2 /\ UsedLen' <= N
  BY <1>0, <1>1, Sizes
<1>3. /\ \A j, k \in 0..UsedLen-1 : UsedAt(j) = UsedAt(k) /\ UsedAt(j) # N => j = k
      /\ \A j \in 0..UsedLen-1 : j # 0 /\ UsedAt(j) = N => dev.bogus > 0
  <2>1. N \notin Published
    BY DeviceHas
  <2> QED BY <2>1 DEF IInv, Completed
<1>4. ASSUME NEW j \in 0..UsedLen-2
      PROVE  \/ UsedAt(j)' = N /\ dev'.bogus > 0
             \/ /\ UsedAt(j)' \in Published'
                /\ UsedAt(j)' \notin dev'.held \cup {dev'.walk.head}
                /\ \A k \in 0..AvailLen'-1 : UsedAt(j)' # AvailAt(k)'
  <2>1. UsedAt(j)' = UsedAt(j + 1) /\ j + 1 \in 0..UsedLen-1 /\ j + 1 # 0
    BY <1>1, <1>2
  <2>2. CASE UsedAt(j + 1) = N
    BY <1>3, <2>1, <2>2, DeviceMoves
  <2>3. CASE UsedAt(j + 1) # N
    BY <2>1, <2>3, EntryKept
  <2> QED BY <2>2, <2>3
<1>5. ASSUME NEW j \in 0..UsedLen-2, NEW k \in 0..UsedLen-2,
             UsedAt(j)' = UsedAt(k)', UsedAt(j)' # N
      PROVE  j = k
  <2>1. UsedAt(j + 1) = UsedAt(k + 1) /\ UsedAt(j + 1) # N
        /\ j + 1 \in 0..UsedLen-1 /\ k + 1 \in 0..UsedLen-1
    BY <1>1, <1>2, <1>5
  <2>2. j + 1 = k + 1
    BY <1>3, <2>1
  <2> QED BY <2>2
<1> QED BY <1>2, <1>4, <1>5 DEF Completed

\* The device adds one behind the last.
LEMMA CompletedPut ==
    ASSUME IInv, Next, NEW id \in 0..N, PutUsed(id), UNCHANGED <<last_used_idx, pc, get>>,
           ~GetBufTake,
           \/ id = N /\ dev'.bogus > 0
           \/ /\ id \in Published' /\ id \notin dev'.held \cup {dev'.walk.head}
              /\ \A k \in 0..AvailLen'-1 : id # AvailAt(k)'
              /\ \A j \in 0..UsedLen-1 : UsedAt(j) # id
    PROVE  Completed'
<1>0. Types /\ UsedLen \in Nat
  BY UsedWindowIs DEF IInv
<1>1. /\ UsedLen < N /\ UsedLen' = UsedLen + 1
      /\ \A j \in 0..UsedLen-1 : UsedAt(j)' = UsedAt(j)
      /\ \A j : j = UsedLen => UsedAt(j)' = id
  BY <1>0, UsedPut
<1>2. /\ \A j \in 0..UsedLen : j \in 0..UsedLen-1 \/ j = UsedLen
      /\ 0..UsedLen'-1 = 0..UsedLen /\ UsedLen' <= N
  BY <1>0, <1>1, Sizes
<1>3. Completed /\ N \notin Published /\ get.head # N
  BY DeviceHas DEF IInv, Types, LocalsType
<1>4. ASSUME NEW j \in 0..UsedLen
      PROVE  \/ UsedAt(j)' = N /\ dev'.bogus > 0
             \/ /\ UsedAt(j)' \in Published' \/ (pc' \in Getting /\ j = 0)
                /\ UsedAt(j)' \notin dev'.held \cup {dev'.walk.head}
                /\ \A k \in 0..AvailLen'-1 : UsedAt(j)' # AvailAt(k)'
  <2>1. CASE j \in 0..UsedLen-1 /\ UsedAt(j) = N
    <3>1. dev.bogus > 0
      BY <1>3, <2>1 DEF Completed
    <3> QED BY <1>1, <2>1, <3>1, DeviceMoves
  <2>2. CASE j \in 0..UsedLen-1 /\ UsedAt(j) # N
    BY <1>1, <2>2, EntryKept
  <2>3. CASE j = UsedLen
    BY <1>1, <2>3
  <2> QED BY <1>2, <2>1, <2>2, <2>3
<1>5. ASSUME NEW j \in 0..UsedLen, NEW k \in 0..UsedLen,
             UsedAt(j)' = UsedAt(k)', UsedAt(j)' # N
      PROVE  j = k
  <2>1. CASE j \in 0..UsedLen-1 /\ k \in 0..UsedLen-1
    BY <1>1, <1>3, <1>5, <2>1 DEF Completed
  <2>2. CASE j = UsedLen \/ k = UsedLen
    BY <1>1, <1>2, <1>5, <2>2
  <2> QED BY <1>2, <2>1, <2>2
<1>6. pc' \in Getting => UsedLen' > 0 /\ \A j : j = 0 => UsedAt(j)' = get'.head
  <2>1. pc \in Getting => UsedLen > 0 /\ UsedAt(0) = get.head /\ 0 \in 0..UsedLen-1
    BY <1>0, <1>3 DEF Completed
  <2> QED BY <1>0, <1>1, <2>1
<1> QED BY <1>2, <1>4, <1>5, <1>6 DEF Completed

LEMMA CompletedStep ==
    ASSUME IInv, Next
    PROVE  Completed'
<1>0. Types /\ Completed
  BY DEF IInv
<1>1. CASE GetBufDone
  <2>1. /\ pc \in Getting /\ pc' \notin Getting /\ UNCHANGED used
        /\ last_used_idx' = Succ(last_used_idx)
    BY <1>1 DEF GetBufDone, Getting
  <2> QED BY <1>0, <2>1, CompletedPassed DEF Completed
<1>2. CASE GetBufBogus
  <2>1. /\ pc' \notin Getting /\ UNCHANGED used /\ last_used_idx # vr16(used.idx)
        /\ last_used_idx' = Succ(last_used_idx)
    BY <1>2 DEF GetBufBogus, Getting, SkipBogus
  <2> QED BY <1>0, <2>1, UsedWindowIs, CompletedPassed
<1>3. CASE DevBogus
  <2>1. /\ PutUsed(N) /\ UNCHANGED <<last_used_idx, pc, get>> /\ ~GetBufTake
        /\ dev' = [dev EXCEPT !.bogus = @ + 1]
    BY <1>3 DEF DevBogus, driverVars, GetBufTake
  <2>2. dev'.bogus > 0 /\ N \in 0..N
    BY <1>0, <2>1, Sizes, SMTT(60) DEF Types, DeviceType
  <2> QED BY <2>1, <2>2, CompletedPut
<1>4. ASSUME NEW h \in D, DevComplete(h) PROVE Completed'
  <2>1. /\ PutUsed(h) /\ UNCHANGED <<last_used_idx, pc, get, avail>>
        /\ ~GetBufTake /\ ~AddBufIdx /\ h \in dev.held
        /\ dev' = [dev EXCEPT !.held = @ \ {h}, !.read[h] = <<>>]
    BY <1>4 DEF DevComplete, driverVars, GetBufTake, AddBufIdx
  <2>2. dev'.held = dev.held \ {h} /\ dev'.walk = dev.walk
    BY <1>0, <2>1 DEF Types, DeviceType
  <2>3. h \in Published /\ h # dev.walk.head
    BY <2>1, DeviceHas DEF IInv, Reading
  <2>4. h \in Published'
    BY <2>1, <2>3, PublishedStep
  <2>5. \A k \in 0..AvailLen-1 : h # AvailAt(k)
    BY <2>1 DEF IInv, Unfetched
  <2>6. \A k \in 0..AvailLen'-1 : h # AvailAt(k)'
    BY <2>1, <2>5, AvailMoves
  <2>7. \A j \in 0..UsedLen-1 : UsedAt(j) # h
    BY <1>0, <2>1, <2>3, DeviceHas DEF Completed
  <2>8. h \in 0..N
    BY Sizes DEF D
  <2> QED BY <2>1, <2>2, <2>3, <2>4, <2>6, <2>7, <2>8, CompletedPut
<1>5. CASE GetBufTake
  <2>1. PICK id : id = vr32(used.ring[Slot(last_used_idx)]) /\ id = UsedAt(0) /\ UsedLen > 0
    BY <1>5, TakeMoves
  <2>2. /\ pc' \in Getting /\ get'.head = id /\ UNCHANGED <<used, last_used_idx>>
    BY <1>5, <2>1 DEF GetBufTake, Getting
  <2> QED BY <2>1, <2>2, CompletedKept
<1>6. CASE GetBufLoop
  <2>1. pc \in Getting /\ pc' \in Getting /\ UNCHANGED <<used, last_used_idx>>
    BY <1>6 DEF GetBufLoop, Getting
  <2>2. get'.head = get.head
    <3>1. get.head \in D
      BY <1>0 DEF Types, LocalsType
    <3> QED BY <1>6, <3>1, FreeChain
  <2> QED BY <1>0, <2>1, <2>2, CompletedKept DEF Completed
<1>7. CASE \/ \E r \in Requests : AddBufDirect(r) \/ AddBufIndirect(r)
           \/ AddBufLoop \/ AddBufRing \/ AddBufIdx \/ GetBufEmpty
  <2>1. pc \notin Getting /\ pc' \notin Getting /\ ~GetBufTake
        /\ UNCHANGED <<used, last_used_idx>>
    BY <1>7 DEF AddBufDirect, AddBufIndirect, AddBufLoop, AddBufRing, AddBufIdx,
                GetBufEmpty, GetBufTake, driverVars, Getting
  <2> QED BY <2>1, CompletedKept
<1>8. CASE DevFetch \/ DevWalk \/ IrqDeliver
  <2>1. UNCHANGED <<used, last_used_idx, pc, get>> /\ ~GetBufTake
    BY <1>8 DEF DevFetch, DevWalk, IrqDeliver, driverVars, GetBufTake
  <2> QED BY <1>0, <2>1, CompletedKept DEF Completed
<1> QED BY <1>1, <1>2, <1>3, <1>4, <1>5, <1>6, <1>7, <1>8, StepCases DEF Quiet
-----------------------------------------------------------------------------
\* The interrupt and used_event.
LEMMA EventsStep ==
    ASSUME IInv, Next
    PROVE  Events'
<1>0. /\ Types /\ Events /\ Completed /\ last_used_idx \in Idx
      /\ irq \in BOOLEAN /\ drained \in BOOLEAN
      /\ avail \in [idx : Word16, ring : [D -> Word16], event : Word16]
  BY DEF IInv, Types
<1>1. ASSUME UNCHANGED <<used, last_used_idx>>, avail'.event = avail.event,
             irq' = irq, drained' \in {drained, FALSE},
             pc' \in Getting => pc \in Getting \/ ~drained'
      PROVE  Events'
  <2>1. dev'.bogus = 0 => dev.bogus = 0
    BY DeviceMoves
  <2>2. (pc' \in Getting) => ~drained'
    BY <1>0, <1>1 DEF Events
  <2>3. UseEventIdx /\ dev'.bogus = 0 => avail'.event = vr16(last_used_idx')
    BY <1>0, <1>1, <2>1 DEF Events
  <2>4. ASSUME dev'.bogus = 0, drained', last_used_idx' # vr16(used'.idx) PROVE irq'
    <3>1. drained /\ dev.bogus = 0 /\ last_used_idx # vr16(used.idx)
      BY <1>1, <2>1, <2>4
    <3>2. irq
      BY <1>0, <3>1 DEF Events, NoLostInterrupt
    <3> QED BY <1>1, <3>2
  <2> QED BY <2>2, <2>3, <2>4 DEF Events, NoLostInterrupt
<1>2. CASE \/ \E r \in Requests : AddBufDirect(r) \/ AddBufIndirect(r)
           \/ AddBufLoop
  <2>1. /\ UNCHANGED <<used, last_used_idx, avail, irq, drained>>
        /\ pc' \notin Getting
    BY <1>2 DEF AddBufDirect, AddBufIndirect, AddBufLoop, driverVars, Getting
  <2> QED BY <1>0, <1>1, <2>1
<1>3. CASE AddBufRing \/ AddBufIdx
  <2>1. /\ UNCHANGED <<used, last_used_idx, irq, drained>> /\ pc' \notin Getting
    BY <1>3 DEF AddBufRing, AddBufIdx, driverVars, Getting
  <2>2. avail'.event = avail.event
    BY <1>0, <1>3 DEF AddBufRing, AddBufIdx
  <2> QED BY <1>0, <1>1, <2>1, <2>2
<1>4. CASE GetBufTake
  <2>1. /\ UNCHANGED <<used, last_used_idx, avail, irq>> /\ drained' = FALSE
    BY <1>4 DEF GetBufTake
  <2> QED BY <1>0, <1>1, <2>1
<1>5. CASE GetBufLoop
  <2>1. /\ UNCHANGED <<used, last_used_idx, avail, irq, drained>> /\ pc \in Getting
    BY <1>5 DEF GetBufLoop, Getting
  <2> QED BY <1>0, <1>1, <2>1
<1>6. CASE DevFetch \/ DevWalk
  <2>1. /\ UNCHANGED <<used, last_used_idx, avail, irq, drained, pc>>
    BY <1>6 DEF DevFetch, DevWalk, driverVars
  <2> QED BY <1>0, <1>1, <2>1
<1>7. CASE GetBufDone
  <2>1. /\ pc \in Getting /\ pc' \notin Getting /\ UNCHANGED drained
        /\ last_used_idx' = Succ(last_used_idx)
        /\ UseEventIdx => avail' = [avail EXCEPT !.event = vr16(Succ(last_used_idx))]
    BY <1>7 DEF GetBufDone, Getting, UsedEvent
  <2>2. ~drained'
    BY <1>0, <2>1 DEF Events
  <2>3. UseEventIdx => avail'.event = vr16(last_used_idx')
    BY <1>0, <2>1
  <2> QED BY <2>1, <2>2, <2>3 DEF Events, NoLostInterrupt
<1>8. CASE GetBufEmpty
  <2>1. /\ UNCHANGED <<used, last_used_idx, avail, irq, pc>> /\ pc \notin Getting
        /\ last_used_idx = vr16(used.idx)
    BY <1>8 DEF GetBufEmpty, driverVars, Getting
  <2> QED BY <1>0, <2>1, DeviceMoves DEF Events, NoLostInterrupt
<1>9. CASE GetBufBogus
  <2>1. /\ drained' = FALSE /\ pc' \notin Getting /\ dev' = dev
        /\ last_used_idx # vr16(used.idx)
        /\ vr32(used.ring[Slot(last_used_idx)]) >= N /\ pc \notin Getting
    BY <1>9 DEF GetBufBogus, Getting
  <2>2. 0 \in 0..UsedLen-1 /\ UsedAt(0) = vr32(used.ring[Slot(last_used_idx)])
    BY <1>0, <2>1, UsedWindowIs
  <2>3. UsedAt(0) \notin Published
    <3>1. UsedAt(0) \notin D
      <4>1. N \in Nat
        BY Sizes
      <4> QED BY <2>1, <2>2, <4>1 DEF D
    <3> QED BY <3>1, DeviceHas
  <2>4. dev.bogus > 0
    BY <1>0, <2>1, <2>2, <2>3 DEF Completed
  <2>5. dev'.bogus # 0
    BY <2>1, <2>4
  <2> QED BY <2>1, <2>5 DEF Events, NoLostInterrupt
<1>10. CASE (\E h \in D : DevComplete(h)) \/ DevBogus
  <2>1. /\ UNCHANGED <<last_used_idx, avail, drained, pc>>
        /\ irq' = (irq \/ ~UseEventIdx \/ vr16(avail.event) = vr16(used.idx))
    BY <1>10 DEF DevComplete, DevBogus, PutUsed, driverVars
  <2>2. (pc' \in Getting) => ~drained'
    BY <1>0, <2>1 DEF Events
  <2>3. UseEventIdx /\ dev'.bogus = 0 => avail'.event = vr16(last_used_idx')
    BY <1>0, <2>1, DeviceMoves DEF Events
  <2>4. ASSUME dev'.bogus = 0, drained' PROVE irq'
    <3>0. dev.bogus = 0 /\ drained
      BY <2>1, <2>4, DeviceMoves
    <3>1. CASE last_used_idx # vr16(used.idx)
      BY <1>0, <2>1, <3>0, <3>1 DEF Events, NoLostInterrupt
    <3>2. CASE last_used_idx = vr16(used.idx) /\ UseEventIdx
      <4>1. vr16(avail.event) = last_used_idx
        <5>1. avail.event = vr16(last_used_idx)
          BY <1>0, <3>0, <3>2 DEF Events
        <5> QED BY <1>0, <5>1, Words, Orders
      <4> QED BY <2>1, <3>2, <4>1
    <3>3. CASE ~UseEventIdx
      BY <2>1, <3>3
    <3> QED BY <3>1, <3>2, <3>3
  <2> QED BY <2>2, <2>3, <2>4 DEF Events, NoLostInterrupt
<1>11. CASE IrqDeliver
  <2>1. /\ UNCHANGED <<last_used_idx, avail, dev>> /\ drained' = FALSE
    BY <1>11 DEF IrqDeliver, driverVars
  <2> QED BY <1>0, <2>1 DEF Events, NoLostInterrupt
<1> QED BY <1>2, <1>3, <1>4, <1>5, <1>6, <1>7, <1>8, <1>9, <1>10, <1>11, StepCases
        DEF Quiet
-----------------------------------------------------------------------------
\* The types.
ListTypes ==
    /\ desc \in [D -> Descriptors] /\ free_head \in D
    /\ freeStack \in Seq(D) /\ chain \in [D -> Seq(D)]

RingTypes ==
    /\ avail \in [idx : Word16, ring : [D -> Word16], event : Word16]
    /\ vr16(avail.idx) \in Idx /\ vr16(avail.event) \in Idx
    /\ used \in [idx : Word16, ring : [D -> {vr32(v) : v \in 0..N}]]
    /\ vr16(used.idx) \in Idx
    /\ last_used_idx \in Idx

BookTypes ==
    /\ num_free \in Nat
    /\ cookies \in [D -> Cookies \cup {NoCookie}]
    /\ indirect_tables \in [D -> Tables]
    /\ irq \in BOOLEAN /\ drained \in BOOLEAN
    /\ req \in [D -> Requests \cup {NoReq}]

LEMMA TypesAre == Types <=> ListTypes /\ RingTypes /\ BookTypes /\ LocalsType /\ DeviceType
  BY DEF Types, ListTypes, RingTypes, BookTypes

LEMMA FreedType ==
    ASSUME NEW h \in D
    PROVE  Freed(h) \in Descriptors
<1>1. h \in Word16
  BY Words
<1> QED BY <1>1 DEF Freed, Descriptors, Addrs

LEMMA ListTypesStep ==
    ASSUME IInv, Next
    PROVE  ListTypes'
<1>0. ListTypes
  BY TypesAre DEF IInv
<1>1. ASSUME AddBufLoop PROVE ListTypes'
  <2>1. ToChain(add.head) /\ add.head \in D
    BY <1>1, LoopMoves
  <2>2. freeStack' \in Seq(D) /\ chain' \in [D -> Seq(D)] /\ Top(freeStack) \in D
    BY <1>0, <2>1, ToChainEffect DEF ListTypes
  <2>3. /\ \E d \in Descriptors : desc' = [desc EXCEPT ![Top(freeStack)] = d]
        /\ desc[Top(freeStack)].next \in D
        /\ free_head' \in {desc[Top(freeStack)].next, free_head}
    BY <1>1, LoopWrites
  <2> QED BY <1>0, <2>2, <2>3 DEF ListTypes
<1>2. ASSUME NEW r \in Requests, AddBufIndirect(r) PROVE ListTypes'
  <2>1. ToChain(free_head) /\ free_head = Top(freeStack) /\ free_head \in D
    BY <1>2, IndirectMoves
  <2>2. /\ freeStack' \in Seq(D) /\ chain' \in [D -> Seq(D)]
        /\ Len(freeStack) \in Nat \ {0} /\ Top(freeStack) = freeStack[Len(freeStack)]
    BY <1>0, <2>1, ToChainEffect DEF ListTypes
  <2>3. desc[free_head].next \in D
    <3>1. Len(freeStack) \in 1..Len(freeStack)
      BY <2>2
    <3> QED BY <2>1, <2>2, <3>1 DEF IInv, FreeList
  <2>4. [addr |-> <<"table", free_head>>, write |-> FALSE, flag |-> "indirect", next |-> 0]
           \in Descriptors
    <3>1. <<"table", free_head>> \in Addrs
      BY <2>1 DEF Addrs
    <3> QED BY <3>1, Words DEF Descriptors
  <2>5. /\ desc' = [desc EXCEPT ![free_head] =
                      [addr |-> <<"table", free_head>>, write |-> FALSE,
                       flag |-> "indirect", next |-> 0]]
        /\ free_head' = desc[free_head].next
    BY <1>2 DEF AddBufIndirect, NextFree
  <2> QED BY <1>0, <2>2, <2>3, <2>4, <2>5 DEF ListTypes
<1>3. ASSUME GetBufTake PROVE ListTypes'
  <2>1. PICK id \in Published :
           /\ id = vr32(used.ring[Slot(last_used_idx)]) /\ id \in D
           /\ (indirect_tables[id] # NoTable <=> Indirect(id))
           /\ Indirect(id) => ToFree(id)
    BY <1>3, TakeMoves
  <2>2. CASE Indirect(id)
    <3>1. freeStack' \in Seq(D) /\ chain' \in [D -> Seq(D)]
      BY <1>0, <2>1, <2>2, ToFreeEffect DEF ListTypes
    <3>2. desc' = [desc EXCEPT ![id] = Freed(free_head)] /\ free_head' = id
      BY <1>3, <2>1, <2>2 DEF GetBufTake
    <3>3. Freed(free_head) \in Descriptors
      BY <1>0, FreedType DEF ListTypes
    <3> QED BY <1>0, <2>1, <3>1, <3>2, <3>3 DEF ListTypes
  <2>3. CASE ~Indirect(id)
    <3>1. UNCHANGED <<desc, free_head, freeStack, chain>>
      BY <1>3, <2>1, <2>3 DEF GetBufTake
    <3> QED BY <1>0, <3>1 DEF ListTypes
  <2> QED BY <2>2, <2>3
<1>4. ASSUME GetBufLoop PROVE ListTypes'
  <2>1. ToFree(get.head) /\ get.head \in D /\ get.idx \in D
    BY <1>4, FreeMoves
  <2>2. freeStack' \in Seq(D) /\ chain' \in [D -> Seq(D)]
    BY <1>0, <2>1, ToFreeEffect DEF ListTypes
  <2>3. desc' = [desc EXCEPT ![get.idx] = Freed(free_head)] /\ free_head' = get.idx
    BY <1>4 DEF GetBufLoop
  <2>4. Freed(free_head) \in Descriptors
    BY <1>0, FreedType DEF ListTypes
  <2> QED BY <1>0, <2>1, <2>2, <2>3, <2>4 DEF ListTypes
<1>5. ASSUME NEW r \in Requests, AddBufDirect(r) PROVE ListTypes'
  BY <1>0, <1>5 DEF AddBufDirect, ListTypes, driverVars
<1>6. ASSUME AddBufRing \/ AddBufIdx \/ GetBufDone PROVE ListTypes'
  BY <1>0, <1>6 DEF AddBufRing, AddBufIdx, GetBufDone, ListTypes, driverVars, historyVars
<1>7. ASSUME Quiet PROVE ListTypes'
  BY <1>0, <1>7, QuietKeeps DEF listVars, ListTypes
<1> QED BY <1>1, <1>2, <1>3, <1>4, <1>5, <1>6, <1>7, StepCases

LEMMA RingTypesStep ==
    ASSUME IInv, Next
    PROVE  RingTypes'
<1>0. Types /\ RingTypes
  BY TypesAre DEF IInv
<1>1. CASE AddBufRing
  <2>1. /\ pc = "addRing" /\ UNCHANGED <<dev, used, last_used_idx>>
        /\ avail' = [avail EXCEPT !.ring[AvailSlot] = vr16(add.head)]
    BY <1>1 DEF AddBufRing
  <2>2. AvailLen < N /\ add.head \in D
    BY <1>0, <2>1, RoomInRing DEF Types, LocalsType
  <2>3. avail' \in [idx : Word16, ring : [D -> Word16], event : Word16]
    BY <1>0, <2>1, <2>2, AvailWritten
  <2>4. avail'.idx = avail.idx /\ avail'.event = avail.event
    BY <1>0, <2>1 DEF RingTypes
  <2> QED BY <1>0, <2>1, <2>3, <2>4 DEF RingTypes
<1>2. CASE AddBufIdx
  <2>1. /\ pc = "addIdx" /\ UNCHANGED <<dev, used, last_used_idx>>
        /\ avail' = [avail EXCEPT !.idx = vr16(Succ(vr16(@)))]
    BY <1>2 DEF AddBufIdx, driverVars
  <2>2. AvailLen < N
    BY <2>1, RoomInRing
  <2>3. /\ avail' \in [idx : Word16, ring : [D -> Word16], event : Word16]
        /\ vr16(avail'.idx) \in Idx
    BY <1>0, <2>1, <2>2, AvailPublished
  <2>4. avail'.event = avail.event
    BY <1>0, <2>1 DEF RingTypes
  <2> QED BY <1>0, <2>1, <2>3, <2>4 DEF RingTypes
<1>3. CASE GetBufDone \/ GetBufBogus
  <2>1. /\ UNCHANGED used /\ last_used_idx' = Succ(last_used_idx)
        /\ \/ UNCHANGED avail
           \/ avail' = [avail EXCEPT !.event = vr16(Succ(last_used_idx))]
    BY <1>3 DEF GetBufDone, GetBufBogus, SkipBogus, UsedEvent
  <2>2. UsedLen # 0 /\ UsedLen <= N
    <3>1. CASE GetBufDone
      BY <3>1 DEF GetBufDone, IInv, Completed, Getting
    <3>2. CASE GetBufBogus
      BY <1>0, <3>2, UsedWindowIs DEF GetBufBogus, IInv, Completed
    <3> QED BY <1>3, <3>1, <3>2
  <2>3. Succ(last_used_idx) \in Idx
    BY <1>0, <2>1, <2>2, UsedPassed
  <2>4. PICK w \in Word16 : w = vr16(Succ(last_used_idx)) /\ vr16(w) = Succ(last_used_idx)
    BY <2>3, Words, Orders
  <2>5. UNCHANGED avail \/ avail' = [avail EXCEPT !.event = w]
    BY <2>1, <2>4
  <2>6. /\ avail' \in [idx : Word16, ring : [D -> Word16], event : Word16]
        /\ avail'.idx = avail.idx /\ (avail'.event = avail.event \/ avail'.event = w)
    BY <1>0, <2>5 DEF RingTypes
  <2> QED BY <1>0, <2>1, <2>3, <2>4, <2>6 DEF RingTypes
<1>4. CASE (\E h \in D : DevComplete(h)) \/ DevBogus
  <2>1. PICK id \in 0..N : PutUsed(id)
    <3>1. \A h \in D : h \in 0..N
      BY Sizes DEF D
    <3>2. N \in 0..N
      BY Sizes
    <3> QED BY <1>4, <3>1, <3>2 DEF DevComplete, DevBogus
  <2>2. UNCHANGED <<avail, last_used_idx>>
    BY <1>4 DEF DevComplete, DevBogus, driverVars
  <2>3. /\ used' \in [idx : Word16, ring : [D -> {vr32(v) : v \in 0..N}]]
        /\ vr16(used'.idx) \in Idx
    BY <1>0, <2>1, <2>2, UsedPut
  <2> QED BY <1>0, <2>2, <2>3 DEF RingTypes
<1>5. CASE UNCHANGED <<avail, used, last_used_idx>>
  BY <1>0, <1>5 DEF RingTypes
<1>6. \/ AddBufRing \/ AddBufIdx \/ GetBufDone \/ GetBufBogus
      \/ (\E h \in D : DevComplete(h)) \/ DevBogus
      \/ UNCHANGED <<avail, used, last_used_idx>>
  BY DEF Next, AddBufSteps, GetBuf, Device, AddBufDirect, AddBufIndirect, AddBufLoop,
         GetBufEmpty, GetBufTake, GetBufLoop, DevFetch, DevWalk, IrqDeliver, driverVars
<1> QED BY <1>1, <1>2, <1>3, <1>4, <1>5, <1>6

LEMMA BookTypesStep ==
    ASSUME IInv, Next
    PROVE  BookTypes'
<1>0. Types /\ BookTypes
  BY TypesAre DEF IInv
<1>1. ASSUME NEW r \in Requests, AddBufDirect(r) \/ AddBufIndirect(r) PROVE BookTypes'
  <2>1. /\ UNCHANGED <<num_free, cookies, indirect_tables, irq, drained>>
        /\ req' = [req EXCEPT ![free_head] = r]
    BY <1>1 DEF AddBufDirect, AddBufIndirect, driverVars
  <2> QED BY <1>0, <2>1 DEF BookTypes
<1>2. CASE AddBufLoop
  <2>1. UNCHANGED <<num_free, cookies, indirect_tables, irq, drained, req>>
    BY <1>2 DEF AddBufLoop
  <2> QED BY <1>0, <2>1 DEF BookTypes
<1>3. CASE AddBufRing
  <2>1. /\ pc = "addRing" /\ UNCHANGED <<irq, drained, req>>
        /\ num_free' = num_free - add.taken
        /\ cookies' = [cookies EXCEPT ![add.head] = add.r.cookie]
        /\ indirect_tables' = [indirect_tables EXCEPT ![add.head] = add.table]
    BY <1>3 DEF AddBufRing, historyVars
  <2>2. add.r \in Requests /\ add.table \in Tables /\ add.taken \in Nat
    BY <1>0, <2>1 DEF Types, LocalsType, Adding
  <2>3. add.r.cookie \in Cookies
    BY <2>2, RequestTypes
  <2>4. num_free' \in Nat
    <3>1. Len(freeStack) = num_free - add.taken + 0
      BY <2>1 DEF IInv, Counted, Getting
    <3>2. Len(freeStack) \in Nat
      BY <1>0, LenProperties DEF Types
    <3> QED BY <1>0, <2>1, <2>2, <3>1, <3>2 DEF BookTypes
  <2> QED BY <1>0, <2>1, <2>2, <2>3, <2>4 DEF BookTypes
<1>4. CASE GetBufTake
  <2>1. /\ UNCHANGED <<num_free, irq, req>> /\ drained' = FALSE
        /\ \E id : /\ cookies' = [cookies EXCEPT ![id] = NoCookie]
                   /\ indirect_tables' = [indirect_tables EXCEPT ![id] = NoTable]
    BY <1>4 DEF GetBufTake, TablesWithout
  <2> QED BY <1>0, <2>1 DEF BookTypes, Tables
<1>5. CASE GetBufDone
  <2>1. /\ UNCHANGED <<cookies, indirect_tables, irq, drained>>
        /\ num_free' = num_free + get.freed
        /\ req' = [req EXCEPT ![get.head] = NoReq]
    BY <1>5 DEF GetBufDone
  <2>2. get.freed \in Nat
    BY <1>0 DEF Types, LocalsType
  <2>3. num_free' \in Nat
    BY <1>0, <2>1, <2>2 DEF BookTypes
  <2>4. req' \in [D -> Requests \cup {NoReq}]
    BY <1>0, <2>1 DEF BookTypes
  <2> QED BY <1>0, <2>1, <2>3, <2>4 DEF BookTypes
<1>6. CASE (\E h \in D : DevComplete(h)) \/ DevBogus
  <2>1. /\ UNCHANGED <<num_free, cookies, indirect_tables, drained, req>>
        /\ irq' = (irq \/ ~UseEventIdx \/ vr16(avail.event) = vr16(used.idx))
    BY <1>6 DEF DevComplete, DevBogus, PutUsed, driverVars, historyVars
  <2>2. irq' \in BOOLEAN
    BY <2>1, Zenon
  <2> QED BY <1>0, <2>1, <2>2 DEF BookTypes
<1>7. CASE GetBufEmpty \/ IrqDeliver
  <2>1. /\ UNCHANGED <<num_free, cookies, indirect_tables, req>>
        /\ irq' \in BOOLEAN /\ drained' \in BOOLEAN
    BY <1>0, <1>7 DEF GetBufEmpty, IrqDeliver, driverVars, historyVars, BookTypes
  <2> QED BY <1>0, <2>1 DEF BookTypes
<1>8. CASE AddBufIdx \/ GetBufLoop \/ GetBufBogus \/ DevFetch \/ DevWalk
  <2>1. UNCHANGED <<num_free, cookies, indirect_tables, irq, req>> /\ drained' \in BOOLEAN
    BY <1>0, <1>8 DEF AddBufIdx, GetBufLoop, GetBufBogus, DevFetch, DevWalk,
                      driverVars, historyVars, BookTypes
  <2> QED BY <1>0, <2>1 DEF BookTypes
<1> QED BY <1>1, <1>2, <1>3, <1>4, <1>5, <1>6, <1>7, <1>8, StepCases DEF Quiet

LEMMA LocalsTypeStep ==
    ASSUME IInv, Next
    PROVE  LocalsType'
<1>0. /\ Types /\ LocalsType /\ free_head \in D
      /\ pc \in Adding \cup Getting \cup {"idle"}
      /\ add \in [head : D, idx : D, n : Nat, taken : Nat, r : Requests \cup {NoReq},
                  table : Tables]
      /\ (pc \in Adding => add.r \in Requests)
      /\ get \in [head : D, idx : D, freed : Nat, cookie : Cookies \cup {NoCookie}]
      /\ 0 \in D /\ NoTable \in Tables
  <2>1. 0 \in D /\ NoTable \in Tables
    BY Sizes DEF D, Tables
  <2>2. LocalsType /\ Types /\ free_head \in D
    BY DEF IInv, Types
  <2> QED BY <2>1, <2>2 DEF LocalsType
<1>1. ASSUME NEW r \in Requests, AddBufDirect(r) \/ AddBufIndirect(r) PROVE LocalsType'
  <2>1. r.total \in Nat /\ SgList(r) \in Tables
    BY RequestTypes
  <2>2. /\ get' = get /\ pc' \in Adding
        /\ \/ add' = [head |-> free_head, idx |-> free_head, n |-> 0, taken |-> r.total,
                      r |-> r, table |-> NoTable]
           \/ add' = [head |-> free_head, idx |-> free_head, n |-> 1, taken |-> 1, r |-> r,
                      table |-> SgList(r)]
    BY <1>1 DEF AddBufDirect, AddBufIndirect, Adding
  <2>3. /\ add' \in [head : D, idx : D, n : Nat, taken : Nat, r : Requests \cup {NoReq},
                     table : Tables]
        /\ add'.r \in Requests
    BY <1>0, <2>1, <2>2
  <2> QED BY <1>0, <2>2, <2>3 DEF LocalsType
<1>2. CASE AddBufLoop
  <2>1. /\ add' \in [head : D, idx : D, n : Nat, taken : Nat, r : Requests \cup {NoReq},
                     table : Tables]
        /\ add'.r = add.r /\ add.r \in Requests
        /\ (pc' = "addRing" \/ pc' = "addLoop") /\ get' = get
    BY <1>2, LoopWrites
  <2> QED BY <1>0, <2>1 DEF LocalsType, Adding
<1>3. CASE AddBufRing
  BY <1>0, <1>3 DEF AddBufRing, LocalsType, Adding
<1>4. CASE AddBufIdx
  <2>1. add' = NoAdd /\ get' = get /\ pc' = "idle"
    BY <1>4 DEF AddBufIdx
  <2>2. NoAdd \in [head : D, idx : D, n : Nat, taken : Nat, r : Requests \cup {NoReq},
                   table : Tables]
    BY <1>0 DEF NoAdd
  <2> QED BY <1>0, <2>1, <2>2 DEF LocalsType, Adding
<1>5. CASE GetBufTake
  <2>1. PICK id \in D : id = vr32(used.ring[Slot(last_used_idx)])
    BY <1>5, TakeMoves
  <2>2. cookies[id] \in Cookies \cup {NoCookie}
    BY <1>0 DEF Types
  <2>3. /\ add' = add /\ pc' \in Getting
        /\ \E f \in {0, 1} : get' = [head |-> id, idx |-> id, freed |-> f,
                                     cookie |-> cookies[id]]
    BY <1>5, <2>1 DEF GetBufTake, CookieOf, FreedFrom, Getting
  <2>4. pc' \notin Adding
    BY <2>3 DEF Adding, Getting
  <2>5. get' \in [head : D, idx : D, freed : Nat, cookie : Cookies \cup {NoCookie}]
    BY <2>1, <2>2, <2>3
  <2> QED BY <1>0, <2>3, <2>4, <2>5 DEF LocalsType
<1>6. CASE GetBufLoop
  <2>1. get' \in [head : D, idx : D, freed : Nat, cookie : Cookies \cup {NoCookie}]
    BY <1>0, <1>6, FreeChain
  <2>2. add' = add /\ (pc' = "getLoop" \/ pc' = "getDone")
    BY <1>6 DEF GetBufLoop
  <2> QED BY <1>0, <2>1, <2>2 DEF LocalsType, Adding, Getting
<1>7. CASE GetBufDone
  <2>1. get' = NoGet /\ add' = add /\ pc' = "idle"
    BY <1>7 DEF GetBufDone
  <2>2. NoGet \in [head : D, idx : D, freed : Nat, cookie : Cookies \cup {NoCookie}]
    BY <1>0 DEF NoGet
  <2> QED BY <1>0, <2>1, <2>2 DEF LocalsType, Adding
<1>8. CASE Quiet
  BY <1>0, <1>8, QuietKeeps DEF listVars, LocalsType
<1> QED BY <1>1, <1>2, <1>3, <1>4, <1>5, <1>6, <1>7, <1>8, StepCases

LEMMA DeviceTypeStep ==
    ASSUME IInv, Next
    PROVE  DeviceType'
<1>0. dev \in [seen : Idx, walk : [head : 0..N, cur : D, read : Seq(Entries)],
               held : SUBSET D, read : [D -> Seq(Entries)], bogus : Nat]
  BY DEF IInv, Types, DeviceType
<1>1. \A h \in D : h \in 0..N
  BY Sizes DEF D
<1>2. CASE DevFetch
  <2>1. PICK h \in Published : /\ dev' = [dev EXCEPT !.seen = Succ(@),
                                   !.walk = [head |-> h, cur |-> h, read |-> <<>>]]
                               /\ Succ(dev.seen) \in Idx
    BY <1>2, FetchStarts
  <2>2. h \in D /\ h \in 0..N
    BY <1>1, <2>1, DeviceHas
  <2>3. PICK s \in Idx : s = Succ(dev.seen)
    BY <2>1
  <2>4. dev' = [dev EXCEPT !.seen = s,
                           !.walk = [head |-> h, cur |-> h, read |-> <<>>]]
    BY <2>1, <2>3
  <2>5. [head |-> h, cur |-> h, read |-> <<>>] \in [head : 0..N, cur : D, read : Seq(Entries)]
    BY <2>2
  <2> QED BY <1>0, <2>4, <2>5 DEF DeviceType
<1>3. CASE DevWalk
  <2> DEFINE h == dev.walk.head
             got == dev.walk.read
  <2>1. /\ h \in Published /\ got \in Seq(Entries) /\ Len(got) \in Nat
        /\ \/ /\ Len(got) + 1 < Len(chain[h])
              /\ SgList(req[h])[Len(got) + 1] \in Entries
              /\ dev' = [dev EXCEPT !.walk.cur = chain[h][Len(got) + 2],
                           !.walk.read = Append(got, SgList(req[h])[Len(got) + 1])]
           \/ dev' = [dev EXCEPT !.walk = NoWalk, !.held = @ \cup {h},
                                 !.read[h] = SgList(req[h])]
    BY <1>3, WalkReads
  <2>2. h \in D /\ req[h] \in Requests
    BY <2>1, PublishedChain
  <2>3. CASE /\ Len(got) + 1 < Len(chain[h])
             /\ SgList(req[h])[Len(got) + 1] \in Entries
             /\ dev' = [dev EXCEPT !.walk.cur = chain[h][Len(got) + 2],
                          !.walk.read = Append(got, SgList(req[h])[Len(got) + 1])]
    <3>1. PICK c \in D : c = chain[h][Len(got) + 2]
      <4>1. /\ Len(chain[h]) \in Nat /\ \A i \in 1..Len(chain[h]) : chain[h][i] \in D
        BY <2>2, ChainTypes DEF IInv
      <4>2. Len(got) + 2 \in 1..Len(chain[h])
        BY <2>1, <2>3, <4>1
      <4> QED BY <4>1, <4>2
    <3>2. PICK e \in Seq(Entries) : e = Append(got, SgList(req[h])[Len(got) + 1])
      BY <2>1, <2>3, AppendProperties
    <3>3. dev' = [dev EXCEPT !.walk.cur = c, !.walk.read = e]
      BY <2>3, <3>1, <3>2
    <3> QED BY <1>0, <3>3 DEF DeviceType
  <2>4. CASE dev' = [dev EXCEPT !.walk = NoWalk, !.held = @ \cup {h},
                                !.read[h] = SgList(req[h])]
    <3>1. PICK e \in Seq(Entries) : e = SgList(req[h])
      BY <2>2, RequestTypes
    <3>2. NoWalk \in [head : 0..N, cur : D, read : Seq(Entries)]
      BY Sizes DEF NoWalk, D
    <3>3. dev' = [dev EXCEPT !.walk = NoWalk, !.held = @ \cup {h}, !.read[h] = e]
      BY <2>4, <3>1
    <3> QED BY <1>0, <2>2, <3>2, <3>3 DEF DeviceType
  <2> QED BY <2>1, <2>3, <2>4, ZenonT(60)
<1>4. ASSUME NEW h \in D, DevComplete(h) PROVE DeviceType'
  <2>1. dev' = [dev EXCEPT !.held = @ \ {h}, !.read[h] = <<>>]
    BY <1>4 DEF DevComplete
  <2>2. <<>> \in Seq(Entries)
    OBVIOUS
  <2> QED BY <1>0, <2>1, <2>2 DEF DeviceType
<1>5. CASE DevBogus
  <2>1. PICK n \in Nat : n = dev.bogus + 1
    BY <1>0
  <2>2. dev' = [dev EXCEPT !.bogus = n]
    BY <1>5, <2>1 DEF DevBogus
  <2> QED BY <1>0, <2>2 DEF DeviceType
<1>6. CASE UNCHANGED dev
  BY <1>0, <1>6 DEF DeviceType
<1>7. DevFetch \/ DevWalk \/ UNCHANGED dev \/ (\E h \in D : DevComplete(h)) \/ DevBogus
  BY DEF Next, AddBufSteps, GetBuf, Device, AddBufDirect, AddBufIndirect, AddBufLoop,
         AddBufRing, AddBufIdx, GetBufEmpty, GetBufBogus, GetBufTake, GetBufLoop,
         GetBufDone, IrqDeliver
<1> QED BY <1>2, <1>3, <1>4, <1>5, <1>6, <1>7

LEMMA TypesStep ==
    ASSUME IInv, Next
    PROVE  Types'
<1>1. ListTypes' /\ RingTypes' /\ BookTypes' /\ LocalsType' /\ DeviceType'
  BY ListTypesStep, RingTypesStep, BookTypesStep, LocalsTypeStep, DeviceTypeStep
<1> QED BY <1>1 DEF Types, ListTypes, RingTypes, BookTypes
-----------------------------------------------------------------------------
\* Every descriptor is on the free list, the rings are empty.
LEMMA AtFirst ==
    ASSUME Init
    PROVE  IInv
<1>1. N \in Nat \ {0} /\ 0 \in D /\ D = 0..N-1
  BY Sizes DEF D
<1>2. 0 \in Idx /\ 0 \in Word16 /\ vr16(0) = 0 /\ vr32(0) = 0
  BY Sizes, Words, Orders DEF Idx
<1>3. /\ freeStack \in Seq(D) /\ Len(freeStack) = N
      /\ \A k \in 1..N : freeStack[k] = N - k /\ freeStack[k] \in D
  <2>1. freeStack = [k \in 1..N |-> N - k] /\ \A k \in 1..N : N - k \in D
    BY <1>1 DEF Init
  <2>2. freeStack \in [1..N -> D]
    BY <2>1
  <2>3. freeStack \in Seq(D) /\ Len(freeStack) = N
    BY <1>1, <2>1, <2>2
  <2> QED BY <2>1, <2>3
<1>4. /\ \A d \in D : chain[d] = <<>> /\ req[d] = NoReq /\ indirect_tables[d] = NoTable
      /\ chain = [d \in D |-> <<>>] /\ Published = {}
  <2>1. \A d \in D : chain[d] = <<>> /\ req[d] = NoReq /\ indirect_tables[d] = NoTable
    BY DEF Init
  <2>2. chain = [d \in D |-> <<>>]
    BY DEF Init
  <2>3. Published = {}
    BY <2>1, PublishedIs
  <2> QED BY <2>1, <2>2, <2>3
<1>5. pc = "idle" /\ dev.walk = NoWalk /\ dev.held = {} /\ dev.seen = 0 /\ dev.bogus = 0
  BY DEF Init
<1>6. \A d \in D : /\ desc[d].flag = "none" /\ desc[d].addr = <<>> /\ desc[d].write = FALSE
                   /\ desc[d].next = IF d = N - 1 THEN 0 ELSE d + 1
  <2>1. desc = [d \in D |-> [addr |-> <<>>, write |-> FALSE, flag |-> "none",
                             next |-> IF d = N - 1 THEN 0 ELSE d + 1]]
    BY DEF Init
  <2>2. ASSUME NEW d \in D
        PROVE  desc[d] = [addr |-> <<>>, write |-> FALSE, flag |-> "none",
                          next |-> IF d = N - 1 THEN 0 ELSE d + 1]
    BY <2>1
  <2>3. ASSUME NEW d \in D
        PROVE  /\ desc[d].flag = "none" /\ desc[d].addr = <<>> /\ desc[d].write = FALSE
               /\ desc[d].next = IF d = N - 1 THEN 0 ELSE d + 1
    <3>1. PICK n : n = IF d = N - 1 THEN 0 ELSE d + 1
      OBVIOUS
    <3>2. desc[d] = [addr |-> <<>>, write |-> FALSE, flag |-> "none", next |-> n]
      BY <2>2, <3>1
    <3>3. desc[d].flag = "none" /\ desc[d].addr = <<>> /\ desc[d].next = n
      BY <3>2
    <3>4. [addr |-> <<>>, write |-> FALSE, flag |-> "none", next |-> n].write = FALSE
      BY Zenon
    <3>5. desc[d].write = FALSE
      BY <3>2, <3>4, Zenon
    <3> QED BY <3>1, <3>3, <3>5
  <2> QED BY <2>3
<1>7. Types
  <2>1. ListTypes
    <3>1. ASSUME NEW d \in D
          PROVE  [addr |-> <<>>, write |-> FALSE, flag |-> "none",
                  next |-> IF d = N - 1 THEN 0 ELSE d + 1] \in Descriptors
      <4>1. PICK n \in D : n = IF d = N - 1 THEN 0 ELSE d + 1
        BY <1>1
      <4>2. n \in Word16 /\ <<>> \in Addrs
        BY Words DEF Addrs
      <4>3. [addr |-> <<>>, write |-> FALSE, flag |-> "none", next |-> n] \in Descriptors
        BY <4>2 DEF Descriptors
      <4> QED BY <4>1, <4>3
    <3>2. desc = [d \in D |-> [addr |-> <<>>, write |-> FALSE, flag |-> "none",
                               next |-> IF d = N - 1 THEN 0 ELSE d + 1]]
      BY DEF Init
    <3>3. desc \in [D -> Descriptors]
      BY <3>1, <3>2
    <3>4. free_head \in D
      BY <1>1 DEF Init
    <3>5. chain \in [D -> Seq(D)]
      BY <1>4
    <3> QED BY <1>3, <3>3, <3>4, <3>5 DEF ListTypes
  <2>2. RingTypes
    <3>1. 0 \in {vr32(v) : v \in 0..N}
      <4>1. 0 \in 0..N
        BY <1>1
      <4> QED BY <1>2, <4>1
    <3>2. /\ avail = [idx |-> 0, ring |-> [s \in D |-> 0], event |-> 0]
          /\ used = [idx |-> 0, ring |-> [s \in D |-> 0]] /\ last_used_idx = 0
      BY DEF Init
    <3>3. /\ avail \in [idx : Word16, ring : [D -> Word16], event : Word16]
          /\ used \in [idx : Word16, ring : [D -> {vr32(v) : v \in 0..N}]]
      BY <1>2, <3>1, <3>2
    <3>4. avail.idx = 0 /\ avail.event = 0 /\ used.idx = 0
      BY <3>2
    <3> QED BY <1>2, <3>2, <3>3, <3>4 DEF RingTypes
  <2>3. BookTypes
    BY <1>1 DEF BookTypes, Init, Tables
  <2>4. LocalsType
    <3>1. pc = "idle" /\ add = NoAdd /\ get = NoGet
      BY DEF Init
    <3>2. NoAdd \in [head : D, idx : D, n : Nat, taken : Nat, r : Requests \cup {NoReq},
                     table : Tables]
      BY <1>1 DEF NoAdd, Tables
    <3>3. NoGet \in [head : D, idx : D, freed : Nat, cookie : Cookies \cup {NoCookie}]
      BY <1>1 DEF NoGet
    <3> QED BY <3>1, <3>2, <3>3 DEF LocalsType, Adding
  <2>5. DeviceType
    <3>1. NoWalk \in [head : 0..N, cur : D, read : Seq(Entries)]
      BY <1>1 DEF NoWalk
    <3>2. dev = [seen |-> 0, walk |-> NoWalk, held |-> {}, read |-> [d \in D |-> <<>>],
                 bogus |-> 0]
      BY DEF Init
    <3>3. [d \in D |-> <<>>] \in [D -> Seq(Entries)]
      OBVIOUS
    <3> QED BY <1>2, <3>1, <3>2, <3>3 DEF DeviceType
  <2> QED BY <2>1, <2>2, <2>3, <2>4, <2>5, TypesAre
<1>8. Conservation
  <2>1. \A i, j \in 1..N : freeStack[i] = freeStack[j] => i = j
    BY <1>1, <1>3
  <2>2. \A h \in D : 1..Len(chain[h]) = {}
    BY <1>4
  <2>3. ASSUME NEW d \in D PROVE \E i \in 1..N : freeStack[i] = d
    <3>1. N - d \in 1..N /\ N - (N - d) = d
      BY <1>1
    <3> QED BY <1>3, <3>1
  <2> QED BY <1>3, <2>1, <2>2, <2>3 DEF Conservation
<1>9. FreeList
  <2>1. ASSUME NEW k \in 1..N
        PROVE  desc[freeStack[k]].next \in D /\ desc[freeStack[k]].flag = "none"
    <3>1. PICK d \in D : d = freeStack[k]
      BY <1>3
    <3> QED BY <1>1, <1>6, <3>1
  <2>2. ASSUME NEW k \in 2..N PROVE desc[freeStack[k]].next = freeStack[k-1]
    <3>1. PICK d \in D : d = freeStack[k] /\ d = N - k
      BY <1>1, <1>3
    <3>2. k - 1 \in 1..N /\ d # N - 1 /\ d + 1 = N - (k - 1)
      BY <1>1, <3>1
    <3> QED BY <1>3, <1>6, <3>1, <3>2
  <2>3. free_head = Top(freeStack)
    <3>1. N \in 1..N /\ N - N = 0
      BY <1>1
    <3> QED BY <1>3, <3>1 DEF Init, Top
  <2> QED BY <1>3, <1>5, <2>1, <2>2, <2>3 DEF FreeList
<1>10. Counted
  BY <1>1, <1>3, <1>5 DEF Counted, Init, Getting
<1>11. Chains
  BY <1>4 DEF Chains, ChainOK
<1>12. TablesKept
  BY <1>4, <1>5, <1>6 DEF TablesKept, TableOK, Unnoted, Meant, Indirect
<1>13. Calls
  BY <1>4, <1>5 DEF Calls, Adding, Getting
<1>14. AvailLen = 0 /\ UsedLen = 0
  <2>1. vr16(avail.idx) = 0 /\ vr16(used.idx) = 0 /\ last_used_idx = 0
    BY <1>2 DEF Init
  <2> QED BY <1>5, <1>7, <2>1, AvailWindowIs, UsedWindowIs
<1>15. Unfetched
  BY <1>1, <1>5, <1>14 DEF Unfetched
<1>16. Completed
  BY <1>1, <1>5, <1>14 DEF Completed, Getting
<1>17. Reading /\ HeldRequests
  BY <1>5 DEF Reading, HeldRequests
<1>18. Events
  <2>1. /\ avail.event = 0 /\ last_used_idx = 0 /\ used.idx = 0
    BY DEF Init
  <2> QED BY <1>2, <1>5, <2>1 DEF Events, NoLostInterrupt, Getting
<1> QED BY <1>7, <1>8, <1>9, <1>10, <1>11, <1>12, <1>13, <1>15, <1>16, <1>17, <1>18 DEF IInv

\* A step that changes nothing.
LEMMA AtRest ==
    ASSUME IInv, UNCHANGED vars
    PROVE  IInv'
<1>0. /\ UNCHANGED <<desc, avail, used, free_head, num_free, last_used_idx, cookies,
                     indirect_tables, pc, add, get, dev, irq, drained, freeStack, chain, req>>
      /\ Published' = Published
  BY DEF vars, driverVars, historyVars, Published, Busy
<1>1. Types'
  BY <1>0 DEF IInv, Types, LocalsType, DeviceType
<1>2. Conservation'
  BY <1>0 DEF IInv, Conservation
<1>3. FreeList' /\ Counted'
  BY <1>0 DEF IInv, FreeList, Counted
<1>4. ASSUME NEW h \in D PROVE ChainOK(h)' /\ TableOK(h)'
  <2>1. ChainOK(h) /\ TableOK(h)
    BY DEF IInv, Chains, TablesKept
  <2> QED BY <1>0, <2>1 DEF ChainOK, Indirect, Open, Taken, Linked, Filled,
                            TableOK, Unnoted, Meant
<1>5. Calls'
  BY <1>0 DEF IInv, Calls
<1>6. Unfetched' /\ Completed'
  BY <1>0 DEF IInv, Unfetched, Completed, AvailLen, AvailAt, AvailSlot, UsedLen, UsedAt
<1>7. Reading' /\ HeldRequests'
  BY <1>0 DEF IInv, Reading, HeldRequests
<1>8. Events'
  BY <1>0 DEF IInv, Events, NoLostInterrupt
<1> QED BY <1>1, <1>2, <1>3, <1>4, <1>5, <1>6, <1>7, <1>8 DEF IInv, Chains, TablesKept

LEMMA Inductive == IInv /\ [Next]_vars => IInv'
<1>1. ASSUME IInv, Next PROVE IInv'
  <2>1. /\ Types' /\ Conservation' /\ FreeList' /\ Chains' /\ TablesKept' /\ Calls'
        /\ Unfetched' /\ Reading' /\ HeldRequests' /\ Completed' /\ Events'
    BY <1>1, TypesStep, ConservationStep, FreeListStep, ChainsStep, TablesStep, CallsStep,
       UnfetchedStep, ReadingStep, HeldStep, CompletedStep, EventsStep
  <2>2. Counted'
    <3>1. freeStack' \in Seq(D)
      BY <2>1 DEF Types
    <3> QED BY <1>1, <2>1, <3>1, CountedStep
  <2> QED BY <2>1, <2>2 DEF IInv
<1> QED BY <1>1, AtRest

THEOREM Invariance == Spec => []IInv
<1>1. Init => IInv
  BY AtFirst
<1> QED BY <1>1, Inductive, PTL DEF Spec
-----------------------------------------------------------------------------
\* What the runs check.

LEMMA TypeOKHolds ==
    ASSUME IInv
    PROVE  TypeOK
<1>0. Types /\ Counted
  BY DEF IInv
<1>1. ASSUME NEW d \in D
      PROVE  /\ desc[d].write \in BOOLEAN /\ desc[d].flag \in {"none", "next", "indirect"}
             /\ desc[d].next \in Word16
  <2>1. PICK x \in Descriptors : x = desc[d]
    BY <1>0 DEF Types
  <2>2. x.flag \in {"none", "next", "indirect"} /\ x.next \in Word16
    BY DEF Descriptors
  <2>3. x.write \in BOOLEAN
    BY DEF Descriptors
  <2> QED BY <2>1, <2>2, <2>3, Zenon
<1>2. ASSUME NEW w \in Word16, vr16(w) \in Idx PROVE w \in {vr16(i) : i \in Idx}
  <2>1. w = vr16(vr16(w))
    BY Orders
  <2> QED BY <1>2, <2>1
<1>3. /\ avail.idx \in Word16 /\ vr16(avail.idx) \in Idx
      /\ avail.event \in Word16 /\ vr16(avail.event) \in Idx
      /\ used.idx \in Word16 /\ vr16(used.idx) \in Idx
  BY <1>0 DEF Types
<1>4. num_free \in 0..N
  BY <1>0, Sizes DEF Types, Counted
<1>5. pc \in {"idle", "addLoop", "addRing", "addIdx", "getLoop", "getDone"}
  BY <1>0 DEF Types, LocalsType, Adding, Getting
<1>6. /\ free_head \in D /\ last_used_idx \in Idx
      /\ cookies \in [D -> Cookies \cup {NoCookie}]
      /\ freeStack \in Seq(D) /\ chain \in [D -> Seq(D)]
  BY <1>0 DEF Types
<1> QED BY <1>1, <1>2, <1>3, <1>4, <1>5, <1>6 DEF TypeOK

LEMMA FreeListHolds ==
    ASSUME IInv
    PROVE  FreeListIntact
<1>1. pc = "idle" => num_free = Len(freeStack)
  BY DEF IInv, Counted, Types, Getting
<1> QED BY <1>1 DEF IInv, FreeList, FreeListIntact

LEMMA AvailWindowHolds ==
    ASSUME IInv
    PROVE  AvailWindow
<1>1. /\ AvailLen <= N
      /\ \A j \in 0..AvailLen-1 : AvailAt(j) \in Published \ dev.held
      /\ \A j, k \in 0..AvailLen-1 : AvailAt(j) = AvailAt(k) => j = k
  BY DEF IInv, Unfetched
<1> QED BY <1>1 DEF AvailWindow, AvailLen, AvailAt

\* A descriptor that points at a table is a chain of its own.
LEMMA TableDescriptor ==
    ASSUME IInv, NEW h \in D
    PROVE  /\ desc[h].flag = "indirect" => Indirect(h)
           /\ Indirect(h) => ~Open(h) /\ ~Taken(h) /\ req[h] \in Requests
<1>1. ASSUME NEW k \in D, Linked(k), NEW i \in 1..Len(chain[k])
      PROVE  desc[chain[k][i]].flag # "indirect"
  <2>1. desc[chain[k][i]].flag = IF i < Len(chain[k]) \/ Open(k) THEN "next" ELSE "none"
    BY <1>1 DEF Linked
  <2> QED BY <2>1
<1>2. ASSUME desc[h].flag = "indirect" PROVE Indirect(h)
  <2>1. ~ \E i \in 1..Len(freeStack) : freeStack[i] = h
    BY <1>2 DEF IInv, FreeList
  <2>2. PICK k \in D : \E i \in 1..Len(chain[k]) : chain[k][i] = h
    BY <2>1 DEF IInv, Conservation
  <2>3. ChainOK(k) /\ chain[k] # <<>>
    BY <2>2, ChainTypes DEF IInv, Chains
  <2>4. Indirect(k)
    BY <1>1, <1>2, <2>2, <2>3 DEF ChainOK
  <2>5. h = k
    <3>1. chain[k] = <<k>> /\ Len(<<k>>) = 1 /\ <<k>>[1] = k
      BY <2>4 DEF Indirect
    <3>2. \A i \in 1..Len(chain[k]) : i = 1
      BY <3>1
    <3> QED BY <2>2, <3>1, <3>2
  <2> QED BY <2>4, <2>5
<1>3. ASSUME Indirect(h) PROVE ~Open(h) /\ ~Taken(h) /\ req[h] \in Requests
  <2>1. chain[h] = <<h>> /\ desc[h].flag = "indirect"
    BY <1>3 DEF Indirect
  <2>2. Len(chain[h]) = 1 /\ chain[h][1] = h /\ chain[h] # <<>>
    BY <2>1
  <2>3. ChainOK(h)
    BY DEF IInv, Chains
  <2>4. ~Linked(h)
    <3>1. 1 \in 1..Len(chain[h])
      BY <2>2
    <3> QED BY <1>1, <2>1, <2>2, <3>1
  <2>5. ~Open(h) /\ ~Taken(h)
    BY <2>2, <2>3, <2>4 DEF ChainOK
  <2>6. CASE h \in Published
    BY <2>5, <2>6 DEF IInv, Calls
  <2>7. CASE pc \in Adding /\ h = add.head
    BY <2>5, <2>7 DEF IInv, Calls, Types, LocalsType
  <2> QED BY <2>2, <2>5, <2>6, <2>7, PublishedIs DEF Taken
<1> QED BY <1>2, <1>3

LEMMA TablesHold ==
    ASSUME IInv
    PROVE  TablesOutstanding
<1>1. ASSUME NEW h \in D, ~(pc = "addRing" /\ h = add.head)
      PROVE  (indirect_tables[h] # NoTable)
                <=> (chain[h] # <<>> /\ desc[h].flag = "indirect")
  <2>1. indirect_tables[h] = IF Unnoted(h) THEN NoTable ELSE Meant(h)
    BY DEF IInv, TablesKept, TableOK
  <2>2. CASE Indirect(h)
    <3>1. ~Unnoted(h)
      BY <1>1, <2>2, TableDescriptor DEF Unnoted, Open
    <3>2. SgList(req[h]) # NoTable
      BY <2>2, TableDescriptor, RequestTypes
    <3>3. indirect_tables[h] # NoTable
      BY <2>1, <2>2, <3>1, <3>2 DEF Meant
    <3> QED BY <2>2, <3>3 DEF Indirect
  <2>3. CASE ~Indirect(h)
    BY <2>1, <2>3, TableDescriptor DEF Meant
  <2> QED BY <2>2, <2>3
<1> QED BY <1>1 DEF TablesOutstanding

LEMMA PublishedHolds ==
    ASSUME IInv
    PROVE  PublishedChainsReadable
<1>1. ASSUME NEW h \in Published
      PROVE  /\ chain[h][1] = h
             /\ IF desc[h].flag = "indirect"
                THEN Len(chain[h]) = 1 /\ indirect_tables[h] = SgList(req[h])
                ELSE /\ Len(chain[h]) = req[h].total
                     /\ \A i \in 1..Len(chain[h]) :
                          /\ desc[chain[h][i]].addr = SgList(req[h])[i].addr
                          /\ desc[chain[h][i]].write = SgList(req[h])[i].write
                          /\ desc[chain[h][i]].flag = IF i < Len(chain[h]) THEN "next" ELSE "none"
                          /\ i < Len(chain[h]) =>
                               desc[chain[h][i]].next = vr16(chain[h][i+1])
  <2>1. /\ h \in D /\ chain[h][1] = h
        /\ Indirect(h) => indirect_tables[h] = SgList(req[h]) /\ Len(chain[h]) = 1
        /\ ~Indirect(h) => Linked(h) /\ Filled(h) /\ ~Open(h) /\ Len(chain[h]) = req[h].total
    BY PublishedChain
  <2>2. CASE desc[h].flag = "indirect"
    BY <2>1, <2>2, TableDescriptor
  <2>3. CASE desc[h].flag # "indirect"
    <3>1. ~Indirect(h)
      BY <2>3 DEF Indirect
    <3>2. Linked(h) /\ Filled(h) /\ ~Open(h) /\ Len(chain[h]) = req[h].total
      BY <2>1, <3>1
    <3>3. \A i \in 1..Len(chain[h]) :
             /\ desc[chain[h][i]].addr = SgList(req[h])[i].addr
             /\ desc[chain[h][i]].write = SgList(req[h])[i].write
      BY <3>2 DEF Filled
    <3>4. \A i \in 1..Len(chain[h]) :
             /\ desc[chain[h][i]].flag = IF i < Len(chain[h]) THEN "next" ELSE "none"
             /\ i < Len(chain[h]) => desc[chain[h][i]].next = vr16(chain[h][i+1])
      BY <3>2 DEF Linked
    <3> QED BY <2>1, <2>3, <3>2, <3>3, <3>4
  <2> QED BY <2>2, <2>3
<1> QED BY <1>1 DEF PublishedChainsReadable

\* Every descriptor is on the free list or in one chain, the list in memory is
\* the list that is meant, the available ring holds every head once until the
\* device fetches it, and a table lives as long as its request: whatever calls,
\* fetches and completions come between two writes of VirtQueue_AddBuf and
\* VirtQueue_GetBuf, for every queue size and both byte orders.
THEOREM VirtQueueRingIntact == Spec => []RingIntact
<1>1. IInv => RingIntact
  BY TypeOKHolds, FreeListHolds, AvailWindowHolds, TablesHold DEF RingIntact, IInv
<1> QED BY <1>1, Invariance, PTL

\* What the device reads from a published head is what the caller passed to
\* VirtQueue_AddBuf, and VirtQueue_GetBuf returns the cookie of the request
\* the device completed.
THEOREM VirtQueueRequestsIntact == Spec => []RequestsIntact
<1>1. IInv => DeviceReadsRequest /\ CookieReturned
  BY DEF IInv, HeldRequests, DeviceReadsRequest, Calls, CookieReturned, Getting
<1>2. IInv => RequestsIntact
  BY <1>1, PublishedHolds DEF RequestsIntact
<1> QED BY <1>2, Invariance, PTL

\* A driver that found the used ring empty has an interrupt on its way when
\* something arrived since: the used_event VirtQueue_GetBuf writes is never
\* one the device is already past.
THEOREM VirtQueueNoLostInterrupt == Spec => []NoLostInterrupt
<1>1. IInv => NoLostInterrupt
  BY DEF IInv, Events
<1> QED BY <1>1, Invariance, PTL

-----------------------------------------------------------------------------
(* The virtqueue implements RequestQueue.                                  *)

\* A function that is a list of n elements.
IsList(s, n) == s = [j \in 1..n |-> s[j]]

LEMMA ListIn ==
    ASSUME NEW n \in Nat, NEW S, NEW s, IsList(s, n), \A j \in 1..n : s[j] \in S
    PROVE  s \in Seq(S) /\ Len(s) = n
  BY DEF IsList

\* A list that grows at its end, and one that loses its first element.
LEMMA Grown ==
    ASSUME NEW n \in Nat, NEW s, NEW t, NEW x,
           IsList(s, n), IsList(t, n + 1),
           \A j \in 1..n : t[j] = s[j], t[n+1] = x
    PROVE  t = Append(s, x) /\ Len(s) = n
<1> DEFINE S == {t[j] : j \in 1..n+1}
<1>1. \A j \in 1..n+1 : t[j] \in S
  OBVIOUS
<1> HIDE DEF S
<1>2. x \in S /\ \A j \in 1..n : s[j] \in S
  <2>1. n + 1 \in 1..n+1 /\ \A j \in 1..n : j \in 1..n+1
    OBVIOUS
  <2>2. t[n+1] \in S /\ \A j \in 1..n : t[j] \in S
    BY <1>1, <2>1
  <2>3. x \in S
    BY <2>2, ZenonT(60)
  <2>4. ASSUME NEW j \in 1..n PROVE s[j] \in S
    <3>1. t[j] \in S /\ t[j] = s[j]
      BY <2>2
    <3> QED BY <3>1
  <2> QED BY <2>3, <2>4
<1>3. s \in Seq(S) /\ Len(s) = n
  BY <1>2, ListIn
<1>4. t \in Seq(S) /\ Len(t) = n + 1
  <2>1. n + 1 \in Nat
    OBVIOUS
  <2> QED BY <1>1, <2>1, ListIn
<1>5. /\ Append(s, x) \in Seq(S) /\ Len(Append(s, x)) = n + 1
      /\ \A j \in 1..n : Append(s, x)[j] = s[j]
      /\ Append(s, x)[n+1] = x
  BY <1>2, <1>3, AppendProperties
<1>6. ASSUME NEW j \in 1..n+1 PROVE t[j] = Append(s, x)[j]
  <2>1. j \in 1..n \/ j = n + 1
    OBVIOUS
  <2> QED BY <1>5, <2>1
<1> QED BY <1>3, <1>4, <1>5, <1>6, SeqEqual

LEMMA Shrunk ==
    ASSUME NEW n \in Nat \ {0}, NEW s, NEW t,
           IsList(s, n), IsList(t, n - 1),
           \A j \in 1..n-1 : t[j] = s[j+1]
    PROVE  t = Tail(s) /\ s # <<>> /\ Head(s) = s[1]
<1> DEFINE S == {s[j] : j \in 1..n}
<1>1. \A j \in 1..n : s[j] \in S
  OBVIOUS
<1> HIDE DEF S
<1>2. s \in Seq(S) /\ Len(s) = n
  BY <1>1, ListIn
<1>3. s # <<>> /\ Head(s) = s[1]
  BY <1>2
<1>4. /\ Tail(s) \in Seq(S) /\ Len(Tail(s)) = n - 1
      /\ \A j \in 1..n-1 : Tail(s)[j] = s[j+1]
  BY <1>2, <1>3, HeadTailProperties
<1>5. t \in Seq(S) /\ Len(t) = n - 1
  <2>1. \A j \in 1..n-1 : t[j] \in S
    <3>1. \A j \in 1..n-1 : j + 1 \in 1..n
      OBVIOUS
    <3> QED BY <1>1, <3>1
  <2>2. n - 1 \in Nat
    OBVIOUS
  <2> QED BY <2>1, <2>2, ListIn
<1> QED BY <1>3, <1>4, <1>5, SeqEqual

\* What a request says does not change while the device may own its head.
LEMMA TicketKept ==
    ASSUME IInv, Next, NEW h \in Published, h \in Published'
    PROVE  Ticket(h)' = Ticket(h)
  BY StaysPublished DEF Ticket

LEMMA GivenIs ==
    ASSUME IInv
    PROVE  /\ AvailLen \in Nat /\ AvailLen <= N
           /\ \A j \in 0..AvailLen-1 : AvailAt(j) \in Published
  BY AvailWindowIs DEF IInv, Unfetched

LEMMA RingKept ==
    ASSUME IInv, Next, ~AddBufRing, ~AddBufIdx, ~DevFetch
    PROVE  avail'.idx = avail.idx /\ avail'.ring = avail.ring /\ dev'.seen = dev.seen
<1>0. /\ avail \in [idx : Word16, ring : [D -> Word16], event : Word16]
      /\ dev \in [seen : Idx, walk : [head : 0..N, cur : D, read : Seq(Entries)],
                  held : SUBSET D, read : [D -> Seq(Entries)], bogus : Nat]
  BY DEF IInv, Types, DeviceType
<1>1. CASE GetBufDone
  <2>1. avail' = avail \/ avail' = [avail EXCEPT !.event = vr16(UsedEvent)]
    BY <1>1 DEF GetBufDone
  <2> QED BY <1>0, <1>1, <2>1 DEF GetBufDone
<1>2. CASE DevWalk
  BY <1>0, <1>2 DEF DevWalk
<1>3. CASE \E h \in D : DevComplete(h)
  BY <1>0, <1>3 DEF DevComplete
<1>4. CASE DevBogus
  BY <1>0, <1>4 DEF DevBogus
<1>5. CASE UNCHANGED <<avail, dev>>
  BY <1>5
<1>6. \/ GetBufDone \/ DevWalk \/ (\E h \in D : DevComplete(h)) \/ DevBogus
      \/ UNCHANGED <<avail, dev>>
  BY StepCases DEF Quiet, AddBufDirect, AddBufIndirect, AddBufLoop, GetBufTake, GetBufLoop,
     GetBufEmpty, GetBufBogus, IrqDeliver
<1> QED BY <1>1, <1>2, <1>3, <1>4, <1>5, <1>6

\* Where the entries of the available ring come from in a step, by index.
LEMMA AvailBecomes ==
    ASSUME IInv, Next
    PROVE  /\ AddBufIdx => /\ AvailLen < N /\ AvailLen' = AvailLen + 1
                           /\ \A j \in 0..AvailLen-1 : AvailAt(j)' = AvailAt(j)
                           /\ \A j : j = AvailLen => AvailAt(j)' = add.head
           /\ DevFetch => /\ AvailLen > 0 /\ AvailLen' = AvailLen - 1
                          /\ \A j \in 0..AvailLen-2 : AvailAt(j)' = AvailAt(j+1)
           /\ ~AddBufIdx /\ ~DevFetch =>
                 /\ AvailLen' = AvailLen
                 /\ \A j \in 0..AvailLen-1 : AvailAt(j)' = AvailAt(j)
<1>0. Types /\ AvailLen \in Nat /\ AvailLen <= N
  BY GivenIs DEF IInv
<1>1. ASSUME AddBufIdx
      PROVE  /\ AvailLen < N /\ AvailLen' = AvailLen + 1
             /\ \A j \in 0..AvailLen-1 : AvailAt(j)' = AvailAt(j)
             /\ \A j : j = AvailLen => AvailAt(j)' = add.head
  <2>1. AvailLen < N
    BY <1>1, RoomInRing DEF AddBufIdx
  <2>2. /\ AvailLen' = AvailLen + 1
        /\ \A j \in 0..AvailLen : AvailAt(j)' = AvailAt(j)
        /\ AvailAt(AvailLen) = vr16(avail.ring[AvailSlot])
    BY <1>0, <1>1, <2>1, AvailPublished DEF AddBufIdx
  <2>3. vr16(avail.ring[AvailSlot]) = add.head
    BY <1>1 DEF AddBufIdx, IInv, Unfetched
  <2>4. \A j \in 0..AvailLen-1 : j \in 0..AvailLen
    BY <1>0
  <2>5. AvailLen \in 0..AvailLen
    BY <1>0
  <2> QED BY <2>1, <2>2, <2>3, <2>4, <2>5
<1>2. ASSUME DevFetch
      PROVE  /\ AvailLen > 0 /\ AvailLen' = AvailLen - 1
             /\ \A j \in 0..AvailLen-2 : AvailAt(j)' = AvailAt(j+1)
  <2>1. AvailLen > 0 /\ dev'.seen = Succ(dev.seen)
    BY <1>2, FetchStarts DEF IInv, Types, DeviceType
  <2> QED BY <1>0, <1>2, <2>1, AvailFetched DEF DevFetch
<1>3. ASSUME ~AddBufIdx, ~DevFetch
      PROVE  /\ AvailLen' = AvailLen
             /\ \A j \in 0..AvailLen-1 : AvailAt(j)' = AvailAt(j)
  <2>1. CASE AddBufRing
    <3>1. AvailLen < N /\ add.head \in D
      BY <2>1, RoomInRing DEF AddBufRing, IInv, Types, LocalsType
    <3> QED BY <1>0, <2>1, <3>1, AvailWritten DEF AddBufRing
  <2>2. CASE avail'.idx = avail.idx /\ avail'.ring = avail.ring /\ dev'.seen = dev.seen
    BY <2>2 DEF AvailLen, AvailAt
  <2> QED BY <1>3, <2>1, <2>2, RingKept
<1> QED BY <1>1, <1>2, <1>3

\* The tickets of what was in the ring before the step are as they were.
LEMMA GivenKept ==
    ASSUME IInv, Next, NEW j \in 0..AvailLen-1, NEW k \in 0..AvailLen'-1,
           AvailAt(k)' = AvailAt(j)
    PROVE  Ticket(AvailAt(k))' = Ticket(AvailAt(j))
<1>1. AvailAt(j) \in Published
  BY GivenIs
<1>2. AvailAt(k)' \in Published'
  BY UnfetchedStep DEF Unfetched
<1>3. PICK h \in Published : h = AvailAt(j) /\ h \in Published'
  BY <1>1, <1>2
<1>4. Ticket(h)' = Ticket(h)
  BY <1>3, TicketKept
<1> QED BY <1>3, <1>4 DEF Ticket

LEMMA GivenStep ==
    ASSUME IInv, Next
    PROVE  /\ AddBufIdx => /\ Given' = Append(Given, Ticket(add.head))
                           /\ Len(Given) = AvailLen /\ AvailLen < N
           /\ DevFetch => /\ Given' = Tail(Given) /\ Given # <<>>
                          /\ Head(Given) = Ticket(AvailAt(0))
           /\ ~AddBufIdx /\ ~DevFetch => Given' = Given
<1>0. AvailLen \in Nat
  BY GivenIs
<1>1. /\ Given = [j \in 1..AvailLen |-> Given[j]]
      /\ Given' = [j \in 1..AvailLen' |-> Given'[j]]
  BY DEF Given
<1>2. \A j \in 1..AvailLen : Given[j] = Ticket(AvailAt(j-1))
  BY DEF Given
<1>3. \A j \in 1..AvailLen' : Given'[j] = Ticket(AvailAt(j-1))'
  BY DEF Given
<1>4. CASE AddBufIdx
  <2>1. /\ AvailLen < N /\ AvailLen' = AvailLen + 1
        /\ \A j \in 0..AvailLen-1 : AvailAt(j)' = AvailAt(j)
        /\ \A j : j = AvailLen => AvailAt(j)' = add.head
    BY <1>4, AvailBecomes
  <2>2. ASSUME NEW j \in 1..AvailLen PROVE Given'[j] = Given[j]
    <3>1. j - 1 \in 0..AvailLen-1 /\ j - 1 \in 0..AvailLen'-1 /\ j \in 1..AvailLen'
      BY <1>0, <2>1
    <3>2. AvailAt(j-1)' = AvailAt(j-1)
      BY <2>1, <3>1
    <3> QED BY <1>2, <1>3, <3>1, <3>2, GivenKept
  <2>3. ASSUME NEW j, j = AvailLen + 1 PROVE Given'[j] = Ticket(add.head)
    <3>1. j \in 1..AvailLen' /\ j - 1 = AvailLen
      BY <1>0, <2>1, <2>3
    <3>2. AvailAt(j-1)' = add.head
      BY <2>1, <3>1
    <3>3. req' = req
      BY <1>4 DEF AddBufIdx, historyVars
    <3>4. Ticket(AvailAt(j-1))' = Ticket(add.head)
      BY <3>2, <3>3 DEF Ticket
    <3> QED BY <1>3, <3>1, <3>4
  <2>4. Given' = [j \in 1..AvailLen+1 |-> Given'[j]]
    BY <1>1, <2>1
  <2> QED BY <1>0, <1>1, <1>4, <2>1, <2>2, <2>3, <2>4, Grown DEF AddBufIdx, DevFetch, IsList
<1>5. CASE DevFetch
  <2>1. /\ AvailLen > 0 /\ AvailLen' = AvailLen - 1
        /\ \A j \in 0..AvailLen-2 : AvailAt(j)' = AvailAt(j+1)
    BY <1>5, AvailBecomes
  <2>2. ASSUME NEW j \in 1..AvailLen-1 PROVE Given'[j] = Given[j+1]
    <3>1. /\ j - 1 \in 0..AvailLen-2 /\ j - 1 \in 0..AvailLen'-1 /\ j \in 1..AvailLen'
          /\ j \in 0..AvailLen-1 /\ j + 1 \in 1..AvailLen
          /\ (j - 1) + 1 = j /\ (j + 1) - 1 = j
      BY <1>0, <2>1
    <3>2. AvailAt(j-1)' = AvailAt(j)
      BY <2>1, <3>1
    <3>3. Ticket(AvailAt(j-1))' = Ticket(AvailAt(j))
      BY <3>1, <3>2, GivenKept
    <3> QED BY <1>2, <1>3, <3>1, <3>3
  <2>3. Given[1] = Ticket(AvailAt(0))
    BY <1>0, <1>2, <2>1
  <2>4. Given' = [j \in 1..AvailLen-1 |-> Given'[j]] /\ AvailLen \in Nat \ {0}
    BY <1>0, <1>1, <2>1
  <2>5. ~AddBufIdx
    BY <1>5 DEF AddBufIdx, DevFetch
  <2>6. ASSUME NEW n, n = AvailLen, NEW s, s = Given, NEW t, t = Given'
        PROVE  t = Tail(s) /\ s # <<>> /\ Head(s) = s[1]
    <3>1. n \in Nat \ {0} /\ IsList(s, n) /\ IsList(t, n - 1)
      BY <1>1, <2>4, <2>6 DEF IsList
    <3>2. \A j \in 1..n-1 : t[j] = s[j+1]
      BY <2>2, <2>6
    <3> QED BY <3>1, <3>2, Shrunk
  <2> QED BY <1>5, <2>3, <2>5, <2>6
<1>6. CASE ~AddBufIdx /\ ~DevFetch
  <2>1. /\ AvailLen' = AvailLen
        /\ \A j \in 0..AvailLen-1 : AvailAt(j)' = AvailAt(j)
    BY <1>6, AvailBecomes
  <2>2. ASSUME NEW j \in 1..AvailLen PROVE Given'[j] = Given[j]
    <3>1. j - 1 \in 0..AvailLen-1 /\ j - 1 \in 0..AvailLen'-1 /\ j \in 1..AvailLen'
      BY <1>0, <2>1
    <3>2. AvailAt(j-1)' = AvailAt(j-1)
      BY <2>1, <3>1
    <3> QED BY <1>2, <1>3, <3>1, <3>2, GivenKept
  <2> QED BY <1>1, <1>6, <2>1, <2>2
<1> QED BY <1>4, <1>5, <1>6

\* The heads the device has, and that their tickets are what it works on.
Heads == dev.held \cup ({dev.walk.head} \ {N})

LEMMA WorkingIs ==
    ASSUME HeldRequests
    PROVE  Working = {Ticket(h) : h \in Heads}
<1>1. \A h \in dev.held : AsRead(h) = Ticket(h)
  BY DEF HeldRequests, AsRead, Ticket
<1>2. {AsRead(h) : h \in dev.held} = {Ticket(h) : h \in dev.held}
  BY <1>1
<1> QED BY <1>2 DEF Working, Heads

LEMMA WorkingWillBe ==
    ASSUME HeldRequests'
    PROVE  Working' = {Ticket(h)' : h \in Heads'}
<1>1. \A h \in dev'.held : AsRead(h)' = Ticket(h)'
  BY DEF HeldRequests, AsRead, Ticket
<1>2. {AsRead(h)' : h \in dev'.held} = {Ticket(h)' : h \in dev'.held}
  BY <1>1
<1> QED BY <1>2 DEF Working, Heads

LEMMA HeadsStep ==
    ASSUME IInv, Next
    PROVE  /\ DevFetch => Heads' = Heads \cup {AvailAt(0)} /\ AvailAt(0) \in Published
           /\ \A h \in D : DevComplete(h) => Heads' = Heads \ {h} /\ h \in Heads
           /\ ~DevFetch /\ ~(\E h \in D : DevComplete(h)) => Heads' = Heads
<1>0. /\ dev \in [seen : Idx, walk : [head : 0..N, cur : D, read : Seq(Entries)],
                  held : SUBSET D, read : [D -> Seq(Entries)], bogus : Nat]
      /\ NoWalk.head = N /\ N \notin D /\ Published \subseteq D
      /\ dev.walk = NoWalk => dev.walk.head = N
      /\ dev.walk # NoWalk => dev.walk.head \in Published \ dev.held
  BY DeviceHas DEF IInv, Types, DeviceType, NoWalk, Reading
<1>1. ASSUME DevFetch
      PROVE  Heads' = Heads \cup {AvailAt(0)} /\ AvailAt(0) \in Published
  <2>1. PICK h \in Published : /\ h = AvailAt(0) /\ dev.walk.head = N
                              /\ dev'.walk.head = h /\ dev'.held = dev.held
    <3>1. dev.walk = NoWalk
      BY <1>1 DEF DevFetch, DevIdle
    <3>2. PICK h \in Published :
             /\ h = AvailAt(0)
             /\ dev' = [dev EXCEPT !.seen = Succ(@),
                                   !.walk = [head |-> h, cur |-> h, read |-> <<>>]]
      BY <1>1, FetchStarts
    <3>3. dev'.walk.head = h /\ dev'.held = dev.held
      BY <1>0, <3>2
    <3> QED BY <1>0, <3>1, <3>2, <3>3
  <2>2. h # N
    BY <1>0
  <2> QED BY <2>1, <2>2 DEF Heads
<1>2. ASSUME NEW h \in D, DevComplete(h) PROVE Heads' = Heads \ {h} /\ h \in Heads
  <2>1. h \in dev.held /\ dev'.held = dev.held \ {h} /\ dev'.walk = dev.walk
    BY <1>0, <1>2 DEF DevComplete
  <2>2. dev.walk.head # h
    BY <1>0, <2>1
  <2> QED BY <2>1, <2>2 DEF Heads
<1>3. ASSUME DevWalk PROVE Heads' = Heads
  <2>1. PICK h : h = dev.walk.head
    OBVIOUS
  <2>2. h # N /\ (\/ dev'.walk.head = h /\ dev'.held = dev.held
                  \/ dev'.walk.head = N /\ dev'.held = dev.held \cup {h})
    <3>1. /\ dev.walk # NoWalk
          /\ \/ \E c, e : dev' = [dev EXCEPT !.walk.cur = c, !.walk.read = e]
             \/ \E e : dev' = [dev EXCEPT !.walk = NoWalk, !.held = @ \cup {dev.walk.head},
                                          !.read[dev.walk.head] = e]
      BY <1>3 DEF DevWalk, DevIdle
    <3>2. \/ dev'.walk.head = h /\ dev'.held = dev.held
          \/ dev'.walk = NoWalk /\ dev'.held = dev.held \cup {h}
      <4>1. ASSUME NEW c, NEW e, dev' = [dev EXCEPT !.walk.cur = c, !.walk.read = e]
            PROVE  dev'.walk.head = dev.walk.head /\ dev'.held = dev.held
        BY <1>0, <4>1
      <4>2. ASSUME NEW e, dev' = [dev EXCEPT !.walk = NoWalk, !.held = @ \cup {dev.walk.head},
                                            !.read[dev.walk.head] = e]
            PROVE  dev'.walk = NoWalk /\ dev'.held = dev.held \cup {dev.walk.head}
        BY <1>0, <4>2
      <4> QED BY <2>1, <3>1, <4>1, <4>2
    <3> QED BY <1>0, <2>1, <3>1, <3>2
  <2> QED BY <2>1, <2>2 DEF Heads
<1>4. ASSUME ~DevFetch, ~(\E h \in D : DevComplete(h)), ~DevWalk PROVE Heads' = Heads
  <2>1. DevBogus \/ dev' = dev
    BY <1>4, StepCases DEF Quiet, AddBufDirect, AddBufIndirect, AddBufLoop, AddBufRing,
       AddBufIdx, GetBufTake, GetBufLoop, GetBufDone, GetBufEmpty, GetBufBogus, IrqDeliver
  <2>2. dev'.walk = dev.walk /\ dev'.held = dev.held
    BY <1>0, <2>1 DEF DevBogus
  <2> QED BY <2>2 DEF Heads
<1> QED BY <1>1, <1>2, <1>3, <1>4

LEMMA WorkingStep ==
    ASSUME IInv, Next
    PROVE  /\ DevFetch => Working' = Working \cup {Ticket(AvailAt(0))}
           /\ \A h \in D : DevComplete(h) => /\ Working' = Working \ {Ticket(h)}
                                             /\ Ticket(h) \in Working
           /\ ~DevFetch /\ ~(\E h \in D : DevComplete(h)) => Working' = Working
<1>1. Working = {Ticket(h) : h \in Heads} /\ Working' = {Ticket(h)' : h \in Heads'}
  BY HeldStep, WorkingIs, WorkingWillBe DEF IInv
<1>2. ASSUME NEW h \in Heads PROVE Ticket(h)' = Ticket(h)
  <2>1. h \in Published /\ h \in dev.held \cup {dev.walk.head}
    BY DeviceHas DEF Heads
  <2> QED BY <2>1, DeviceKeeps, TicketKept
<1>3. ASSUME DevFetch PROVE Working' = Working \cup {Ticket(AvailAt(0))}
  <2>1. PICK a \in Published : a = AvailAt(0) /\ Heads' = Heads \cup {a}
    BY <1>3, HeadsStep
  <2>2. Ticket(a)' = Ticket(a)
    BY <1>3, <2>1 DEF DevFetch, historyVars, Ticket
  <2> QED BY <1>1, <1>2, <2>1, <2>2
<1>4. ASSUME NEW h \in D, DevComplete(h)
      PROVE  Working' = Working \ {Ticket(h)} /\ Ticket(h) \in Working
  <2>1. Heads' = Heads \ {h} /\ h \in Heads
    BY <1>4, HeadsStep
  <2>2. \A k : Ticket(k) = Ticket(h) => k = h
    BY DEF Ticket
  <2> QED BY <1>1, <1>2, <2>1, <2>2
<1>5. ASSUME Heads' = Heads PROVE Working' = Working
  BY <1>1, <1>2, <1>5
<1> QED BY <1>3, <1>4, <1>5, HeadsStep

\* The entries of the used ring GetBuf has not taken, by index.
DoneLen == UsedLen - Passing
DoneAt(j) == UsedAt(j + Passing)

LEMMA PassingIs ==
    ASSUME IInv
    PROVE  /\ UsedLen \in Nat /\ UsedLen <= N /\ DoneLen \in Nat
           /\ \/ pc \in Getting /\ Passing = 1 /\ Returning
              \/ pc \notin Getting /\ Passing = 0 /\ ~Returning
<1>1. /\ UsedLen \in Nat /\ UsedLen <= N
      /\ pc \in Getting => UsedLen > 0
  BY UsedWindowIs DEF IInv, Completed
<1>2. \/ pc \in Getting /\ Passing = 1 /\ Returning
      \/ pc \notin Getting /\ Passing = 0 /\ ~Returning
  BY DEF Passing, Returning, Getting
<1> QED BY <1>1, <1>2 DEF DoneLen

\* What a step that leaves pc in or out of GetBuf does to the used ring.
LEMMA UsedBecomes ==
    ASSUME IInv, Next
    PROVE  /\ \A id \in 0..N : PutUsed(id) /\ UNCHANGED last_used_idx =>
                 /\ UsedLen < N /\ UsedLen' = UsedLen + 1
                 /\ \A j \in 0..UsedLen-1 : UsedAt(j)' = UsedAt(j)
                 /\ \A j : j = UsedLen => UsedAt(j)' = id
           /\ GetBufBogus \/ GetBufDone =>
                 /\ UsedLen > 0 /\ UsedLen' = UsedLen - 1
                 /\ \A j \in 0..UsedLen-2 : UsedAt(j)' = UsedAt(j+1)
           /\ UNCHANGED <<used, last_used_idx>> =>
                 UsedLen' = UsedLen /\ \A j : UsedAt(j)' = UsedAt(j)
<1>0. Types /\ UsedLen \in Nat /\ UsedLen <= N
  BY PassingIs DEF IInv
<1>1. ASSUME NEW id \in 0..N, PutUsed(id), UNCHANGED last_used_idx
      PROVE  /\ UsedLen < N /\ UsedLen' = UsedLen + 1
             /\ \A j \in 0..UsedLen-1 : UsedAt(j)' = UsedAt(j)
             /\ \A j : j = UsedLen => UsedAt(j)' = id
  BY <1>0, <1>1, UsedPut
<1>2. ASSUME GetBufBogus \/ GetBufDone
      PROVE  /\ UsedLen > 0 /\ UsedLen' = UsedLen - 1
             /\ \A j \in 0..UsedLen-2 : UsedAt(j)' = UsedAt(j+1)
  <2>1. last_used_idx' = Succ(last_used_idx) /\ UNCHANGED used
    BY <1>2 DEF GetBufBogus, GetBufDone, SkipBogus
  <2>2. UsedLen > 0
    <3>1. CASE GetBufBogus
      BY <1>0, <3>1, UsedWindowIs DEF GetBufBogus
    <3>2. CASE GetBufDone
      BY <3>2 DEF GetBufDone, IInv, Completed, Getting
    <3> QED BY <1>2, <3>1, <3>2
  <2> QED BY <1>0, <2>1, <2>2, UsedPassed
<1>3. ASSUME UNCHANGED <<used, last_used_idx>>
      PROVE  UsedLen' = UsedLen /\ \A j : UsedAt(j)' = UsedAt(j)
  BY <1>3 DEF UsedLen, UsedAt
<1> QED BY <1>1, <1>2, <1>3

DevPut(id) == PutUsed(id) /\ UNCHANGED <<last_used_idx, pc, req>>

\* Every step is one of four for the used ring.
LEMMA UsedCases ==
    ASSUME IInv, Next
    PROVE  \/ \E id \in 0..N : DevPut(id)
           \/ GetBufBogus \/ GetBufTake \/ GetBufDone
           \/ UNCHANGED <<used, last_used_idx>> /\ (pc' \in Getting <=> pc \in Getting)
<1>1. ASSUME NEW h \in D, DevComplete(h) PROVE DevPut(h) /\ h \in 0..N
  <2>1. h \in 0..N
    BY Sizes DEF D
  <2> QED BY <1>1, <2>1 DEF DevComplete, DevPut, driverVars, historyVars
<1>2. ASSUME DevBogus PROVE DevPut(N) /\ N \in 0..N
  BY <1>2, Sizes DEF DevBogus, DevPut, driverVars, historyVars
<1>3. CASE \/ \E r \in Requests : AddBufDirect(r) \/ AddBufIndirect(r)
           \/ AddBufLoop \/ AddBufRing \/ AddBufIdx
  BY <1>3 DEF AddBufDirect, AddBufIndirect, AddBufLoop, AddBufRing, AddBufIdx, driverVars,
     Getting
<1>4. CASE GetBufLoop \/ GetBufEmpty
  BY <1>4 DEF GetBufLoop, GetBufEmpty, driverVars, Getting
<1>5. CASE DevFetch \/ DevWalk \/ IrqDeliver
  BY <1>5 DEF DevFetch, DevWalk, IrqDeliver, driverVars
<1> QED BY <1>1, <1>2, <1>3, <1>4, <1>5, StepCases DEF Quiet

\* The entries of Done in a step, by index: one more at the end, one less at
\* the beginning, or the same; GetBuf is past an entry when it has taken it.
LEMMA DoneBecomes ==
    ASSUME IInv, Next
    PROVE  /\ \A id \in 0..N : DevPut(id) =>
                 /\ DoneLen < N /\ DoneLen' = DoneLen + 1
                 /\ \A j \in 0..DoneLen-1 : DoneAt(j)' = DoneAt(j)
                 /\ \A j : j = DoneLen => DoneAt(j)' = id
           /\ GetBufBogus \/ GetBufTake =>
                 /\ Passing = 0 /\ DoneLen > 0 /\ DoneLen' = DoneLen - 1
                 /\ \A j \in 0..DoneLen-2 : DoneAt(j)' = DoneAt(j+1)
           /\ GetBufDone
              \/ (UNCHANGED <<used, last_used_idx>> /\ (pc' \in Getting <=> pc \in Getting)) =>
                 /\ DoneLen' = DoneLen
                 /\ \A j \in 0..DoneLen-1 : DoneAt(j)' = DoneAt(j)
<1>0. /\ UsedLen \in Nat /\ UsedLen <= N /\ DoneLen \in Nat /\ N \in Nat
      /\ \/ pc \in Getting /\ Passing = 1 
         \/ pc \notin Getting /\ Passing = 0
      /\ DoneLen = UsedLen - Passing
  BY PassingIs, Sizes DEF DoneLen
<1>1. /\ DoneLen' = UsedLen' - Passing'
      /\ \A j, k : k = j + Passing' => DoneAt(j)' = UsedAt(k)'
      /\ \A j, k : k = j + Passing => DoneAt(j) = UsedAt(k)
      /\ Passing' = IF pc' \in Getting THEN 1 ELSE 0
  <2>1. Passing' = IF pc' \in Getting THEN 1 ELSE 0
    BY DEF Passing, Returning, Getting
  <2>2. /\ \A j, k : k = j + Passing' => DoneAt(j)' = UsedAt(k)'
        /\ \A j, k : k = j + Passing => DoneAt(j) = UsedAt(k)
    BY DEF DoneAt
  <2> QED BY <2>1, <2>2 DEF DoneLen
<1>2. ASSUME NEW id \in 0..N, DevPut(id)
      PROVE  /\ DoneLen < N /\ DoneLen' = DoneLen + 1
             /\ \A j \in 0..DoneLen-1 : DoneAt(j)' = DoneAt(j)
             /\ \A j : j = DoneLen => DoneAt(j)' = id
  <2>1. /\ UsedLen < N /\ UsedLen' = UsedLen + 1
        /\ \A j \in 0..UsedLen-1 : UsedAt(j)' = UsedAt(j)
        /\ \A j : j = UsedLen => UsedAt(j)' = id
    BY <1>2, UsedBecomes DEF DevPut
  <2>2. Passing' = Passing
    BY <1>0, <1>1, <1>2 DEF DevPut
  <2>3. DoneLen < N /\ DoneLen' = DoneLen + 1
    BY <1>0, <1>1, <2>1, <2>2
  <2>4. ASSUME NEW j \in 0..DoneLen-1 PROVE DoneAt(j)' = DoneAt(j)
    <3>1. PICK k \in 0..UsedLen-1 : k = j + Passing
      BY <1>0
    <3>2. UsedAt(k)' = UsedAt(k)
      BY <2>1
    <3> QED BY <1>1, <2>2, <3>1, <3>2
  <2>5. ASSUME NEW j, j = DoneLen PROVE DoneAt(j)' = id
    <3>1. PICK k : k = UsedLen /\ k = j + Passing
      BY <1>0, <2>5
    <3>2. UsedAt(k)' = id
      BY <2>1, <3>1
    <3> QED BY <1>1, <2>2, <3>1, <3>2
  <2> QED BY <2>3, <2>4, <2>5
<1>3. ASSUME GetBufBogus
      PROVE  /\ Passing = 0 /\ DoneLen > 0 /\ DoneLen' = DoneLen - 1
             /\ \A j \in 0..DoneLen-2 : DoneAt(j)' = DoneAt(j+1)
  <2>1. /\ UsedLen > 0 /\ UsedLen' = UsedLen - 1
        /\ \A j \in 0..UsedLen-2 : UsedAt(j)' = UsedAt(j+1)
    BY <1>3, UsedBecomes
  <2>2. Passing = 0 /\ Passing' = 0
    BY <1>0, <1>1, <1>3 DEF GetBufBogus, Getting
  <2>3. ASSUME NEW j \in 0..DoneLen-2 PROVE DoneAt(j)' = DoneAt(j+1)
    <3>1. j \in 0..UsedLen-2 /\ j = j + Passing' /\ j + 1 = (j + 1) + Passing
      BY <1>0, <2>2
    <3>2. UsedAt(j)' = UsedAt(j+1)
      BY <2>1, <3>1
    <3> QED BY <1>1, <3>1, <3>2
  <2> QED BY <1>0, <1>1, <2>1, <2>2, <2>3
<1>4. ASSUME GetBufTake
      PROVE  /\ Passing = 0 /\ DoneLen > 0 /\ DoneLen' = DoneLen - 1
             /\ \A j \in 0..DoneLen-2 : DoneAt(j)' = DoneAt(j+1)
  <2>1. UsedLen > 0
    BY <1>4, TakeMoves
  <2>2. UNCHANGED <<used, last_used_idx>>
    BY <1>4 DEF GetBufTake
  <2>3. UsedLen' = UsedLen /\ \A j : UsedAt(j)' = UsedAt(j)
    BY <2>2, UsedBecomes
  <2>4. Passing = 0 /\ Passing' = 1
    BY <1>0, <1>1, <1>4 DEF GetBufTake, Getting
  <2>5. ASSUME NEW j \in 0..DoneLen-2 PROVE DoneAt(j)' = DoneAt(j+1)
    <3>1. j + 1 = j + Passing' /\ j + 1 = (j + 1) + Passing
      BY <1>0, <2>4
    <3>2. PICK k : k = j + 1
      OBVIOUS
    <3>3. UsedAt(k)' = UsedAt(k)
      BY <2>3
    <3> QED BY <1>1, <3>1, <3>2, <3>3
  <2> QED BY <1>0, <1>1, <2>1, <2>3, <2>4, <2>5
<1>5. ASSUME GetBufDone
      PROVE  /\ DoneLen' = DoneLen
             /\ \A j \in 0..DoneLen-1 : DoneAt(j)' = DoneAt(j)
  <2>1. /\ UsedLen > 0 /\ UsedLen' = UsedLen - 1
        /\ \A j \in 0..UsedLen-2 : UsedAt(j)' = UsedAt(j+1)
    BY <1>5, UsedBecomes
  <2>2. Passing = 1 /\ Passing' = 0
    BY <1>0, <1>1, <1>5 DEF GetBufDone, Getting
  <2>3. ASSUME NEW j \in 0..DoneLen-1 PROVE DoneAt(j)' = DoneAt(j)
    <3>1. j \in 0..UsedLen-2 /\ j = j + Passing' /\ j + 1 = j + Passing
      BY <1>0, <2>2
    <3>2. UsedAt(j)' = UsedAt(j+1)
      BY <2>1, <3>1
    <3> QED BY <1>1, <3>1, <3>2
  <2> QED BY <1>0, <1>1, <2>1, <2>2, <2>3
<1>6. ASSUME UNCHANGED <<used, last_used_idx>>, pc' \in Getting <=> pc \in Getting
      PROVE  /\ DoneLen' = DoneLen
             /\ \A j \in 0..DoneLen-1 : DoneAt(j)' = DoneAt(j)
  <2>1. UsedLen' = UsedLen /\ \A j : UsedAt(j)' = UsedAt(j)
    BY <1>6, UsedBecomes
  <2>2. Passing' = Passing
    BY <1>0, <1>1, <1>6
  <2>3. ASSUME NEW j \in 0..DoneLen-1 PROVE DoneAt(j)' = DoneAt(j)
    <3>1. PICK k : k = j + Passing
      OBVIOUS
    <3>2. UsedAt(k)' = UsedAt(k)
      BY <2>1
    <3> QED BY <1>1, <2>2, <3>1, <3>2
  <2>4. DoneLen' = DoneLen
    BY <1>0, <1>1, <2>1, <2>2
  <2> QED BY <2>3, <2>4
<1> QED BY <1>2, <1>3, <1>4, <1>5, <1>6

\* An entry that stays in Done says the same.
LEMMA FinishedKept ==
    ASSUME IInv, Next, NEW j \in 0..DoneLen-1, ~(GetBufTake /\ j = 0),
           NEW e, e = DoneAt(j)
    PROVE  Finished(e)' = Finished(e)
<1>1. CASE e = N
  BY <1>1 DEF Finished
<1>2. CASE e # N
  <2>1. /\ j + Passing \in 0..UsedLen-1
        /\ j + Passing = 0 => j = 0 /\ pc \notin Getting
    BY PassingIs DEF DoneLen
  <2>2. e = UsedAt(j + Passing)
    BY DEF DoneAt
  <2>3. e \in Published'
    BY <1>2, <2>1, <2>2, EntryKept
  <2>4. e \in Published
    BY <1>2, <2>1, <2>2 DEF IInv, Completed
  <2>5. Ticket(e)' = Ticket(e)
    BY <2>3, <2>4, TicketKept
  <2> QED BY <1>2, <2>5 DEF Finished
<1> QED BY <1>1, <1>2

LEMMA DoneStep ==
    ASSUME IInv, Next
    PROVE  /\ \A id \in 0..N : DevPut(id) =>
                 /\ Done' = Append(Done, Finished(id))
                 /\ Len(Done) = DoneLen /\ DoneLen < N
           /\ GetBufBogus \/ GetBufTake =>
                 /\ Done' = Tail(Done) /\ Done # <<>>
                 /\ Head(Done) = Finished(DoneAt(0))
           /\ GetBufDone
              \/ (UNCHANGED <<used, last_used_idx>> /\ (pc' \in Getting <=> pc \in Getting)) =>
                 Done' = Done
<1>0. DoneLen \in Nat /\ DoneLen' \in Nat
  <2>1. DoneLen \in Nat
    BY PassingIs
  <2> QED BY <2>1, DoneBecomes, UsedCases
<1>1. /\ Done = [j \in 1..DoneLen |-> Done[j]]
      /\ Done' = [j \in 1..DoneLen' |-> Done'[j]]
  BY DEF Done, DoneLen
<1>2. \A j \in 1..DoneLen : Done[j] = Finished(DoneAt(j-1))
  BY DEF Done, DoneLen, DoneAt
<1>3. \A j \in 1..DoneLen' : Done'[j] = Finished(DoneAt(j-1))'
  BY DEF Done, DoneLen, DoneAt
<1>4. ASSUME NEW j \in 0..DoneLen-1, ~(GetBufTake /\ j = 0), NEW k,
             DoneAt(k)' = DoneAt(j)
      PROVE  Finished(DoneAt(k))' = Finished(DoneAt(j))
  <2>1. PICK e : e = DoneAt(j)
    OBVIOUS
  <2>2. Finished(e)' = Finished(e)
    BY <1>4, <2>1, FinishedKept
  <2> QED BY <1>4, <2>1, <2>2 DEF Finished, Ticket
<1>5. ASSUME NEW id \in 0..N, DevPut(id)
      PROVE  /\ Done' = Append(Done, Finished(id))
             /\ Len(Done) = DoneLen /\ DoneLen < N
  <2>1. /\ DoneLen < N /\ DoneLen' = DoneLen + 1
        /\ \A j \in 0..DoneLen-1 : DoneAt(j)' = DoneAt(j)
        /\ \A j : j = DoneLen => DoneAt(j)' = id
    BY <1>5, DoneBecomes
  <2>2. ASSUME NEW j \in 1..DoneLen PROVE Done'[j] = Done[j]
    <3>1. j - 1 \in 0..DoneLen-1 /\ j \in 1..DoneLen'
      BY <1>0, <2>1
    <3>2. DoneAt(j-1)' = DoneAt(j-1) /\ ~GetBufTake
      BY <1>5, <2>1, <3>1 DEF DevPut, GetBufTake
    <3> QED BY <1>2, <1>3, <1>4, <3>1, <3>2
  <2>3. ASSUME NEW j, j = DoneLen + 1 PROVE Done'[j] = Finished(id)
    <3>1. j \in 1..DoneLen' /\ j - 1 = DoneLen
      BY <1>0, <2>1, <2>3
    <3>2. DoneAt(j-1)' = id
      BY <2>1, <3>1
    <3>3. req' = req
      BY <1>5 DEF DevPut
    <3>4. Finished(DoneAt(j-1))' = Finished(id)
      BY <3>2, <3>3 DEF Finished, Ticket
    <3> QED BY <1>3, <3>1, <3>4
  <2>4. Done' = [j \in 1..DoneLen+1 |-> Done'[j]]
    BY <1>1, <2>1
  <2> QED BY <1>0, <1>1, <2>1, <2>2, <2>3, <2>4, Grown DEF IsList
<1>6. ASSUME GetBufBogus \/ GetBufTake
      PROVE  /\ Done' = Tail(Done) /\ Done # <<>>
             /\ Head(Done) = Finished(DoneAt(0))
  <2>1. /\ DoneLen > 0 /\ DoneLen' = DoneLen - 1
        /\ \A j \in 0..DoneLen-2 : DoneAt(j)' = DoneAt(j+1)
    BY <1>6, DoneBecomes
  <2>2. ASSUME NEW j \in 1..DoneLen-1 PROVE Done'[j] = Done[j+1]
    <3>1. /\ j - 1 \in 0..DoneLen-2 /\ j \in 1..DoneLen'
          /\ j \in 0..DoneLen-1 /\ j # 0 /\ j + 1 \in 1..DoneLen
          /\ (j - 1) + 1 = j /\ (j + 1) - 1 = j
      BY <1>0, <2>1
    <3>2. DoneAt(j-1)' = DoneAt(j)
      BY <2>1, <3>1
    <3>3. Finished(DoneAt(j-1))' = Finished(DoneAt(j))
      BY <1>4, <3>1, <3>2
    <3> QED BY <1>2, <1>3, <3>1, <3>3
  <2>3. Done[1] = Finished(DoneAt(0))
    BY <1>0, <1>2, <2>1
  <2>4. Done' = [j \in 1..DoneLen-1 |-> Done'[j]] /\ DoneLen \in Nat \ {0}
    BY <1>0, <1>1, <2>1
  <2>5. ASSUME NEW n, n = DoneLen, NEW s, s = Done, NEW t, t = Done'
        PROVE  t = Tail(s) /\ s # <<>> /\ Head(s) = s[1]
    <3>1. n \in Nat \ {0} /\ IsList(s, n) /\ IsList(t, n - 1)
      BY <1>1, <2>4, <2>5 DEF IsList
    <3>2. \A j \in 1..n-1 : t[j] = s[j+1]
      BY <2>2, <2>5
    <3> QED BY <3>1, <3>2, Shrunk
  <2> QED BY <2>3, <2>5
<1>7. ASSUME GetBufDone
             \/ (UNCHANGED <<used, last_used_idx>> /\ (pc' \in Getting <=> pc \in Getting))
      PROVE  Done' = Done
  <2>1. /\ DoneLen' = DoneLen
        /\ \A j \in 0..DoneLen-1 : DoneAt(j)' = DoneAt(j)
    BY <1>7, DoneBecomes
  <2>2. ~GetBufTake
    BY <1>7 DEF GetBufDone, GetBufTake, Getting
  <2>3. ASSUME NEW j \in 1..DoneLen PROVE Done'[j] = Done[j]
    <3>1. j - 1 \in 0..DoneLen-1 /\ j \in 1..DoneLen'
      BY <1>0, <2>1
    <3>2. DoneAt(j-1)' = DoneAt(j-1)
      BY <2>1, <3>1
    <3> QED BY <1>2, <1>3, <1>4, <2>2, <3>1, <3>2
  <2> QED BY <1>1, <2>1, <2>3
<1> QED BY <1>5, <1>6, <1>7

\* A head in use is one the device may own.
LEMMA IdsPublished ==
    ASSUME IInv
    PROVE  Abstract!Ids \subseteq Published \cup {N}
<1>0. AvailLen \in Nat /\ DoneLen \in Nat
  BY GivenIs, PassingIs
<1>1. ASSUME NEW j \in 1..Len(Given) PROVE Given[j].id \in Published
  <2>1. Given = [k \in 1..AvailLen |-> Ticket(AvailAt(k-1))]
    BY DEF Given
  <2>2. j \in 1..AvailLen /\ j - 1 \in 0..AvailLen-1
    BY <1>0, <2>1
  <2>3. Given[j] = Ticket(AvailAt(j-1))
    BY <2>1, <2>2
  <2>4. Given[j].id = AvailAt(j-1)
    BY <2>3 DEF Ticket
  <2> QED BY <2>2, <2>4, GivenIs
<1>2. ASSUME NEW x \in Working PROVE x.id \in Published
  <2>1. PICK h \in Heads : x = Ticket(h)
    BY WorkingIs DEF IInv
  <2> QED BY <2>1, DeviceHas DEF Heads, Ticket
<1>3. ASSUME NEW j \in 1..Len(Done) PROVE Done[j].id \in Published \cup {N}
  <2>1. Done = [k \in 1..DoneLen |-> Finished(DoneAt(k-1))]
    BY DEF Done, DoneLen, DoneAt
  <2>2. j \in 1..DoneLen /\ j - 1 \in 0..DoneLen-1
    BY <1>0, <2>1
  <2>3. PICK e : e = DoneAt(j-1)
    OBVIOUS
  <2>4. Done[j] = Finished(e)
    BY <2>1, <2>2, <2>3
  <2>5. Done[j].id = e
    BY <2>4 DEF Finished, Ticket, Stray
  <2>6. /\ (j - 1) + Passing \in 0..UsedLen-1
        /\ (j - 1) + Passing = 0 => pc \notin Getting
    BY <2>2, PassingIs DEF DoneLen
  <2>7. e = N \/ e \in Published
    BY <2>3, <2>6 DEF DoneAt, IInv, Completed
  <2> QED BY <2>5, <2>7
<1> QED BY <1>1, <1>2, <1>3 DEF Abstract!Ids

LEMMA TicketOf ==
    ASSUME IInv, NEW h \in Published
    PROVE  Ticket(h) \in Tickets /\ h \in D /\ h # N /\ req[h].cookie = cookies[h]
<1>1. h \in D /\ h # N /\ req[h] \in Requests /\ req[h].cookie = cookies[h]
  BY DeviceHas DEF IInv, Calls
<1> QED BY <1>1 DEF Ticket, Tickets

LEMMA ReturnedKept ==
    ASSUME pc' \in Getting <=> pc \in Getting,
           pc \in Getting => get'.head = get.head /\ get'.cookie = get.cookie
    PROVE  Returned' = Returned
<1>1. Returning' <=> Returning
  BY DEF Returning, Getting
<1>2. Returning => pc \in Getting
  BY DEF Returning, Getting
<1> QED BY <1>1, <1>2, Zenon DEF Returned, Nothing

LEMMA SubmitStep ==
    ASSUME IInv, Next, AddBufIdx
    PROVE  \E x \in Tickets : Abstract!Submit(x)
<1>1. pc = "addIdx" /\ pc' = "idle" /\ pc \notin Getting /\ pc' \notin Getting
  BY DEF AddBufIdx, Getting
<1>2. Ticket(add.head) \in Tickets /\ add.head \in D /\ add.head \notin Published \cup {N}
  <2>1. add.head \in D \ Published /\ N \notin D
    BY PublishedStep, DeviceHas
  <2>2. req[add.head] = add.r /\ add.r \in Requests
    BY <1>1 DEF IInv, Calls, Types, LocalsType, Adding
  <2> QED BY <2>1, <2>2 DEF Ticket, Tickets
<1>3. Ticket(add.head).id \notin Abstract!Ids
  BY <1>2, IdsPublished DEF Ticket
<1>4. Given' = Append(Given, Ticket(add.head)) /\ Len(Given) < N
  BY GivenStep
<1>5. Working' = Working
  <2>1. ~DevFetch /\ ~(\E h \in D : DevComplete(h))
    BY <1>1 DEF DevFetch, DevComplete
  <2> QED BY <2>1, WorkingStep
<1>6. Done' = Done
  BY <1>1, DoneStep DEF AddBufIdx, driverVars
<1>7. Returned = Nothing /\ Returned' = Returned
  BY <1>1, ReturnedKept DEF Returned, Returning, Getting
<1>8. Abstract!Submit(Ticket(add.head))
  BY <1>3, <1>4, <1>5, <1>6, <1>7 DEF Abstract!Submit
<1> QED BY <1>2, <1>8

LEMMA StartStep ==
    ASSUME IInv, Next, DevFetch
    PROVE  Abstract!Start
<1>1. Given' = Tail(Given) /\ Given # <<>> /\ Head(Given) = Ticket(AvailAt(0))
  BY GivenStep
<1>2. Working' = Working \cup {Ticket(AvailAt(0))}
  BY WorkingStep
<1>3. UNCHANGED <<used, last_used_idx, pc, get>>
  BY DEF DevFetch, driverVars
<1>4. Done' = Done
  BY <1>3, DoneStep
<1>5. Returned' = Returned
  BY <1>3, ReturnedKept
<1> QED BY <1>1, <1>2, <1>4, <1>5 DEF Abstract!Start

LEMMA PutStep ==
    ASSUME IInv, Next, NEW id \in 0..N, DevPut(id), get' = get
    PROVE  /\ Done' = Append(Done, Finished(id)) /\ Len(Done) < N
           /\ Given' = Given /\ Returned' = Returned
<1>1. Done' = Append(Done, Finished(id)) /\ Len(Done) < N
  BY DoneStep
<1>2. Given' = Given
  <2>1. UsedLen' = UsedLen + 1 /\ UsedLen \in Nat
    BY UsedBecomes, PassingIs DEF DevPut
  <2>2. ~(used' = used /\ last_used_idx' = last_used_idx)
    <3>1. used' = used /\ last_used_idx' = last_used_idx => UsedLen' = UsedLen
      BY UsedBecomes
    <3> QED BY <2>1, <3>1
  <2>3. ~AddBufIdx /\ ~DevFetch
    BY <2>2 DEF AddBufIdx, DevFetch, driverVars
  <2> QED BY <2>3, GivenStep
<1>3. Returned' = Returned
  BY ReturnedKept DEF DevPut
<1> QED BY <1>1, <1>2, <1>3

LEMMA FinishStep ==
    ASSUME IInv, Next, NEW h \in D, DevComplete(h)
    PROVE  \E x \in Tickets : Abstract!Finish(x)
<1>1. h \in 0..N /\ h # N
  BY Sizes DEF D
<1>2. DevPut(h) /\ get' = get
  BY DEF DevComplete, DevPut, driverVars, historyVars
<1>3. Working' = Working \ {Ticket(h)} /\ Ticket(h) \in Working
  BY WorkingStep
<1>4. h \in Published
  BY DeviceHas DEF DevComplete
<1>5. Finished(h) = Ticket(h)
  BY <1>1 DEF Finished
<1>6. Abstract!Finish(Ticket(h))
  BY <1>1, <1>2, <1>3, <1>5, PutStep DEF Abstract!Finish
<1> QED BY <1>4, <1>6, TicketOf

LEMMA DisturbStep ==
    ASSUME IInv, Next, DevBogus
    PROVE  Abstract!Disturb
<1>1. N \in 0..N /\ Finished(N) = Stray
  BY Sizes DEF Finished
<1>2. DevPut(N) /\ get' = get
  BY DEF DevBogus, DevPut, driverVars, historyVars
<1>3. Working' = Working
  <2>1. dev'.held = dev.held /\ dev'.walk = dev.walk
    BY DEF DevBogus, IInv, Types, DeviceType
  <2>2. ~DevFetch
    <3>1. dev'.bogus # dev.bogus
      BY DEF DevBogus, IInv, Types, DeviceType
    <3>2. DevFetch => dev'.bogus = dev.bogus
      BY DEF DevFetch, IInv, Types, DeviceType
    <3> QED BY <3>1, <3>2
  <2>3. ASSUME NEW h \in D, DevComplete(h) PROVE FALSE
    <3>1. Heads' = Heads
      BY <2>1 DEF Heads
    <3> QED BY <2>3, <3>1, HeadsStep
  <2> QED BY <2>2, <2>3, WorkingStep
<1> QED BY <1>1, <1>2, <1>3, PutStep DEF Abstract!Disturb

\* A step of GetBuf leaves what the device has alone.
LEMMA GetBufKeeps ==
    ASSUME IInv, Next, GetBufBogus \/ GetBufTake \/ GetBufDone
    PROVE  Given' = Given /\ Working' = Working
<1>1. dev' = dev /\ pc # "addIdx"
  BY DEF GetBufBogus, GetBufTake, GetBufDone
<1>2. ~DevFetch
  <2>1. DevFetch => dev.walk = NoWalk /\ dev'.walk # NoWalk
    <3>1. ASSUME DevFetch PROVE dev.walk = NoWalk /\ dev'.walk # NoWalk
      <4>1. PICK h \in Published : dev' = [dev EXCEPT !.seen = Succ(@),
                                  !.walk = [head |-> h, cur |-> h, read |-> <<>>]]
        BY <3>1, FetchStarts
      <4>2. dev'.walk.head = h /\ h # N
        BY <4>1, DeviceHas DEF IInv, Types, DeviceType
      <4> QED BY <3>1, <4>2 DEF DevFetch, DevIdle, NoWalk
    <3> QED BY <3>1
  <2> QED BY <1>1, <2>1
<1>3. ASSUME NEW h \in D, DevComplete(h) PROVE FALSE
  <2>1. Heads' = Heads
    BY <1>1 DEF Heads
  <2> QED BY <1>3, <2>1, HeadsStep
<1>4. ~AddBufIdx
  BY <1>1 DEF AddBufIdx
<1> QED BY <1>2, <1>3, <1>4, GivenStep, WorkingStep

LEMMA SkipStep ==
    ASSUME IInv, Next, GetBufBogus
    PROVE  Abstract!Skip
<1>1. Done' = Tail(Done) /\ Done # <<>> /\ Head(Done) = Finished(DoneAt(0))
  BY DoneStep
<1>2. DoneAt(0) = N
  <2>1. Passing = 0 /\ UsedLen > 0 /\ UsedLen \in Nat
    BY DoneBecomes, UsedBecomes, PassingIs
  <2>2. DoneAt(0) = UsedAt(0) /\ 0 \in 0..UsedLen-1
    BY <2>1 DEF DoneAt
  <2>3. UsedAt(0) >= N
    BY UsedWindowIs DEF GetBufBogus, IInv
  <2>4. UsedAt(0) = N \/ UsedAt(0) \in D
    <3>1. pc \notin Getting
      BY DEF GetBufBogus, Getting
    <3> QED BY <2>2, <3>1, DeviceHas DEF IInv, Completed
  <2> QED BY <2>2, <2>3, <2>4, Sizes DEF D
<1>3. Returned' = Returned
  BY ReturnedKept DEF GetBufBogus
<1> QED BY <1>1, <1>2, <1>3, GetBufKeeps DEF Abstract!Skip, Finished

LEMMA ReturnStep ==
    ASSUME IInv, Next, GetBufTake
    PROVE  Abstract!Return
<1>1. Done' = Tail(Done) /\ Done # <<>> /\ Head(Done) = Finished(DoneAt(0))
  BY DoneStep
<1>2. PICK id \in Published : id = vr32(used.ring[Slot(last_used_idx)]) /\ id = UsedAt(0)
  BY TakeMoves
<1>3. Passing = 0 /\ DoneAt(0) = id
  BY <1>2, DoneBecomes DEF DoneAt
<1>4. id \in D /\ id # N /\ req[id].cookie = cookies[id]
  BY TicketOf
<1>5. Head(Done) = Ticket(id) /\ Head(Done) # Stray
  <2>1. Head(Done) = Ticket(id)
    BY <1>1, <1>3, <1>4 DEF Finished
  <2>2. Ticket(id).id = id /\ Stray.id = N
    BY DEF Ticket, Stray
  <2> QED BY <1>4, <2>1, <2>2
<1>6. Returned = Nothing
  BY DEF GetBufTake, Returned, Returning
<1>7. Returned' = [id |-> id, cookie |-> cookies[id]]
  <2>1. get'.head = id /\ get'.cookie = cookies[id]
    BY <1>2 DEF GetBufTake, CookieOf
  <2>2. Returning'
    BY DEF GetBufTake, Returning
  <2> QED BY <2>1, <2>2 DEF Returned
<1>8. Returned' = [id |-> Head(Done).id, cookie |-> Head(Done).cookie]
  BY <1>4, <1>5, <1>7 DEF Ticket
<1> QED BY <1>1, <1>5, <1>6, <1>8, GetBufKeeps DEF Abstract!Return

LEMMA LeaveStep ==
    ASSUME IInv, Next, GetBufDone
    PROVE  Abstract!Leave
<1>1. Done' = Done
  BY DoneStep
<1>2. Returned # Nothing
  <2>1. Returned = [id |-> get.head, cookie |-> get.cookie]
    BY DEF GetBufDone, Returned, Returning
  <2>2. get.head # N
    BY DeviceHas DEF IInv, Types, LocalsType
  <2> QED BY <2>1, <2>2 DEF Nothing
<1>3. Returned' = Nothing
  BY DEF GetBufDone, Returned, Returning
<1> QED BY <1>1, <1>2, <1>3, GetBufKeeps DEF Abstract!Leave

\* The other steps are the inside of the two functions and of the device.
LEMMA InnerStep ==
    ASSUME IInv, Next, ~AddBufIdx, ~DevFetch, ~(\E h \in D : DevComplete(h)), ~DevBogus,
           ~GetBufBogus, ~GetBufTake, ~GetBufDone
    PROVE  Given' = Given /\ Working' = Working /\ Done' = Done /\ Returned' = Returned
<1>1. /\ UNCHANGED <<used, last_used_idx>> /\ (pc' \in Getting <=> pc \in Getting)
      /\ pc \in Getting => get'.head = get.head /\ get'.cookie = get.cookie
  <2>1. CASE \/ \E r \in Requests : AddBufDirect(r) \/ AddBufIndirect(r)
             \/ AddBufLoop \/ AddBufRing
    BY <2>1 DEF AddBufDirect, AddBufIndirect, AddBufLoop, AddBufRing, driverVars, Getting
  <2>2. CASE GetBufLoop
    <3>1. get \in [head : D, idx : D, freed : Nat, cookie : Cookies \cup {NoCookie}]
      BY DEF IInv, Types, LocalsType
    <3>2. get'.head = get.head /\ get'.cookie = get.cookie
      BY <2>2, <3>1 DEF GetBufLoop
    <3> QED BY <2>2, <3>2 DEF GetBufLoop, Getting
  <2>3. CASE GetBufEmpty \/ DevWalk \/ IrqDeliver
    BY <2>3 DEF GetBufEmpty, DevWalk, IrqDeliver, driverVars
  <2> QED BY <2>1, <2>2, <2>3, StepCases DEF Quiet
<1> QED BY <1>1, GivenStep, WorkingStep, DoneStep, ReturnedKept

LEMMA StepImplements ==
    ASSUME IInv, [Next]_vars
    PROVE  [Abstract!Next]_(Abstract!queueVars)
<1>1. CASE UNCHANGED vars
  BY <1>1 DEF vars, driverVars, historyVars, Abstract!queueVars, Given, Working, Done, Returned,
     AvailLen, AvailAt, UsedLen, UsedAt, Ticket, AsRead, Finished, Passing, Returning
<1>2. CASE Next
  <2>1. CASE AddBufIdx
    BY <1>2, <2>1, SubmitStep DEF Abstract!Next
  <2>2. CASE DevFetch
    BY <1>2, <2>2, StartStep DEF Abstract!Next
  <2>3. CASE \E h \in D : DevComplete(h)
    BY <1>2, <2>3, FinishStep DEF Abstract!Next
  <2>4. CASE DevBogus
    BY <1>2, <2>4, DisturbStep DEF Abstract!Next
  <2>5. CASE GetBufBogus
    BY <1>2, <2>5, SkipStep DEF Abstract!Next
  <2>6. CASE GetBufTake
    BY <1>2, <2>6, ReturnStep DEF Abstract!Next
  <2>7. CASE GetBufDone
    BY <1>2, <2>7, LeaveStep DEF Abstract!Next
  <2>8. CASE /\ ~AddBufIdx /\ ~DevFetch /\ ~(\E h \in D : DevComplete(h)) /\ ~DevBogus
             /\ ~GetBufBogus /\ ~GetBufTake /\ ~GetBufDone
    BY <1>2, <2>8, InnerStep DEF Abstract!queueVars
  <2> QED BY <2>1, <2>2, <2>3, <2>4, <2>5, <2>6, <2>7, <2>8
<1> QED BY <1>1, <1>2

LEMMA InitImplements ==
    ASSUME Init
    PROVE  Abstract!Init
<1>1. IInv
  BY AtFirst
<1>2. avail.idx = 0 /\ used.idx = 0 /\ dev.seen = 0 /\ last_used_idx = 0 /\ pc = "idle"
      /\ dev.held = {} /\ dev.walk.head = N
  BY DEF Init, NoWalk
<1>3. AvailLen = 0 /\ DoneLen = 0
  <2>1. vr16(0) = 0
    BY Orders
  <2>2. AvailLen = 0 /\ UsedLen = 0
    BY <1>1, <1>2, <2>1, AvailWindowIs, UsedWindowIs DEF IInv
  <2>3. Passing = 0
    BY <1>2 DEF Passing, Returning
  <2> QED BY <2>2, <2>3 DEF DoneLen
<1>4. Given = <<>> /\ Done = <<>>
  BY <1>3 DEF Given, Done, DoneLen
<1>5. Working = {}
  BY <1>2 DEF Working
<1>6. Returned = Nothing
  BY <1>2 DEF Returned, Returning
<1> QED BY <1>4, <1>5, <1>6 DEF Abstract!Init

\* VirtQueue_AddBuf and VirtQueue_GetBuf are a queue: every request reaches the
\* device once, in the order of submission and as it was submitted, and comes
\* back once, in the order of completion and with its own cookie, although a
\* request is several writes to shared memory that a device may read at any
\* moment; and no head is used for a new request before its last one is back.
THEOREM VirtQueueImplementsRequestQueue == Spec => ImplementsRequestQueue
<1>1. Init => Abstract!Init
  BY InitImplements
<1>2. IInv /\ [Next]_vars => [Abstract!Next]_(Abstract!queueVars)
  BY StepImplements
<1> QED BY <1>1, <1>2, Invariance, PTL DEF Spec, ImplementsRequestQueue, Abstract!Spec
=============================================================================
