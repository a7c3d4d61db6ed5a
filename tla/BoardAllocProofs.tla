-------------------------- MODULE BoardAllocProofs --------------------------
(***************************************************************************)
(* Proofs about BoardAlloc, for every size of the board, of the table and  *)
(* of the requests as long as no request is so large that a sum leaves the *)
(* range of a uint32 (NoWrap).                                             *)
(***************************************************************************)
EXTENDS BoardAlloc, SequenceTheorems, WellFoundedInduction, NaturalsInduction,
        TLAPS

\* The first n slots of s tile the area below top, and each ends before any
\* later one begins.  The order follows from the tiling by induction on the
\* table; as a part of the invariant it needs no induction.
Extents(s, n, top) ==
    /\ n \in Nat /\ top \in Nat
    /\ \A i \in 1..n : /\ s[i].offset \in Nat /\ s[i].size \in Nat /\ s[i].size > 0
                       /\ s[i].offset = IF i = 1 THEN 0
                                        ELSE s[i-1].offset + s[i-1].size
                       /\ s[i].offset + s[i].size <= top
    /\ \A i, j \in 1..n : i < j => s[i].offset + s[i].size <= s[j].offset
    /\ top = IF n = 0 THEN 0 ELSE s[n].offset + s[n].size

Table(s, top) ==
    /\ s \in Seq(Slots)
    /\ top <= MemSize
    /\ Extents(s, Len(s), top)
-----------------------------------------------------------------------------
\* Sums below Word are not changed by the uint32 arithmetic.
LEMMA ModSmall ==
    ASSUME NEW x \in Nat, x < Word
    PROVE  x % Word = x
BY AllocAssumption

\* A set of natural numbers has a least element: what first fit relies on.
LEMMA LeastExists ==
    ASSUME NEW T, T \subseteq Nat, T # {}
    PROVE  \E x \in T : \A y \in T : x <= y
<1> DEFINE R == OpToRel(<, Nat)
<1>1. IsWellFoundedOn(R, Nat)
  BY NatLessThanWellFounded
<1>2. \A a, b \in Nat : <<a, b>> \in R <=> a < b
  BY DEF OpToRel
<1> HIDE DEF R
<1>3. PICK x \in T : \A y \in T : ~(<<y, x>> \in R)
  BY <1>1, WFMin
<1>4. \A y \in T : ~(y < x)
  BY <1>2, <1>3, Zenon
<1>5. \A y \in T : x <= y
  BY <1>4
<1> QED BY <1>5

\* The fields of a slot.
LEMMA SlotFields ==
    ASSUME NEW x \in Slots
    PROVE  x.offset \in 0..Word-1 /\ x.size \in 0..Word-1 /\ x.used \in BOOLEAN
BY DEF Slots

LEMMA SlotType ==
    ASSUME NEW o \in 0..Word-1, NEW n \in 0..Word-1, NEW u \in BOOLEAN
    PROVE  /\ Slot(o, n, u) \in Slots
           /\ Slot(o, n, u).offset = o
           /\ Slot(o, n, u).size = n
           /\ Slot(o, n, u).used = u
BY DEF Slots, Slot

\* Removing a slot shifts the ones above it down.
LEMMA RemoveShape ==
    ASSUME NEW s \in Seq(Slots), NEW i \in 1..Len(s)
    PROVE  /\ RemoveSlot(s, i) \in Seq(Slots)
           /\ Len(RemoveSlot(s, i)) = Len(s) - 1
           /\ \A j \in 1..Len(s)-1 :
                 RemoveSlot(s, i)[j] = IF j < i THEN s[j] ELSE s[j+1]
<1> DEFINE r == RemoveSlot(s, i)
<1>1. r \in [1..Len(s)-1 -> Slots]
  BY ElementOfSeq DEF RemoveSlot
<1>2. r \in Seq(Slots) /\ Len(r) = Len(s) - 1
  BY <1>1, SeqDef
<1> QED BY <1>2 DEF RemoveSlot

\* Merging two neighbours adds their sizes.
LEMMA MergeShape ==
    ASSUME NEW s \in Seq(Slots), NEW i \in 1..Len(s)-1,
           s[i].size + s[i+1].size < Word
    PROVE  /\ Merge(s, i) \in Seq(Slots)
           /\ Len(Merge(s, i)) = Len(s) - 1
           /\ \A j \in 1..Len(s)-1 :
                 /\ Merge(s, i)[j].offset = IF j <= i THEN s[j].offset ELSE s[j+1].offset
                 /\ Merge(s, i)[j].used = IF j <= i THEN s[j].used ELSE s[j+1].used
                 /\ Merge(s, i)[j].size = IF j < i THEN s[j].size
                                          ELSE IF j = i THEN s[i].size + s[i+1].size
                                          ELSE s[j+1].size
<1> DEFINE e == Slot(s[i].offset, s[i].size + s[i+1].size, s[i].used)
           m == [s EXCEPT ![i] = e]
           r == RemoveSlot(m, i + 1)
<1>1. s[i] \in Slots /\ s[i+1] \in Slots
  BY ElementOfSeq
<1>2. s[i].size + s[i+1].size \in 0..Word-1
  BY <1>1, SlotFields, AllocAssumption
<1>3. (s[i].size + s[i+1].size) % Word = s[i].size + s[i+1].size
  BY <1>2, ModSmall, AllocAssumption
<1>4. s[i].offset \in 0..Word-1 /\ s[i].used \in BOOLEAN
  BY <1>1, SlotFields
<1>5. e \in Slots
  BY <1>2, <1>4, SlotType, Zenon
<1>6. e.offset = s[i].offset /\ e.used = s[i].used /\ e.size = s[i].size + s[i+1].size
  BY DEF Slot
<1>7. Merge(s, i) = r
  BY <1>3 DEF Merge
<1>8. Len(s) \in Nat /\ i \in 1..Len(s)
  BY LenProperties
<1> HIDE DEF e
<1>9. m \in Seq(Slots) /\ Len(m) = Len(s)
  BY <1>5, <1>8, ExceptSeq
<1>10. \A j \in 1..Len(s) : m[j] = IF j = i THEN e ELSE s[j]
  BY <1>5, <1>8, ExceptSeq
<1> HIDE DEF m
<1>11. i + 1 \in 1..Len(m)
  BY <1>8, <1>9
<1>12. /\ r \in Seq(Slots) /\ Len(r) = Len(m) - 1
       /\ \A j \in 1..Len(m)-1 : r[j] = IF j < i + 1 THEN m[j] ELSE m[j+1]
  BY <1>9, <1>11, RemoveShape
<1> HIDE DEF r
<1>13. \A j \in 1..Len(s)-1 :
          r[j] = IF j < i THEN s[j] ELSE IF j = i THEN e ELSE s[j+1]
  BY <1>8, <1>9, <1>10, <1>12
<1>14. \A j \in 1..Len(s)-1 :
          /\ r[j].offset = IF j <= i THEN s[j].offset ELSE s[j+1].offset
          /\ r[j].used = IF j <= i THEN s[j].used ELSE s[j+1].used
          /\ r[j].size = IF j < i THEN s[j].size
                         ELSE IF j = i THEN s[i].size + s[i+1].size
                         ELSE s[j+1].size
  BY <1>6, <1>8, <1>13
<1> QED BY <1>7, <1>9, <1>12, <1>14

LEMMA SetUsedShape ==
    ASSUME NEW s \in Seq(Slots), NEW i \in 1..Len(s), NEW u \in BOOLEAN
    PROVE  /\ SetUsed(s, i, u) \in Seq(Slots)
           /\ Len(SetUsed(s, i, u)) = Len(s)
           /\ \A j \in 1..Len(s) :
                 /\ SetUsed(s, i, u)[j].offset = s[j].offset
                 /\ SetUsed(s, i, u)[j].size = s[j].size
                 /\ SetUsed(s, i, u)[j].used = IF j = i THEN u ELSE s[j].used
<1> DEFINE e == Slot(s[i].offset, s[i].size, u)
<1>1. s[i].offset \in 0..Word-1 /\ s[i].size \in 0..Word-1
  BY ElementOfSeq, SlotFields
<1>2. e \in Slots
  BY <1>1, SlotType, Zenon
<1>4. e.offset = s[i].offset /\ e.size = s[i].size /\ e.used = u
  BY DEF Slot
<1> HIDE DEF e
<1>3. /\ [s EXCEPT ![i] = e] \in Seq(Slots)
      /\ Len([s EXCEPT ![i] = e]) = Len(s)
      /\ \A j \in 1..Len(s) : [s EXCEPT ![i] = e][j] = IF j = i THEN e ELSE s[j]
  BY <1>2, ExceptSeq
<1> QED BY <1>3, <1>4 DEF SetUsed, e

\* Splitting free slot i: the part handed out, the rest, and what follows.
LEMMA SplitShape ==
    ASSUME NEW s \in Seq(Slots), NEW i \in 1..Len(s), NEW n \in Nat,
           n < s[i].size, s[i].offset + s[i].size < Word
    PROVE  /\ Split(s, i, n) \in Seq(Slots)
           /\ Len(Split(s, i, n)) = Len(s) + 1
           /\ Split(s, i, n)[i] = Slot(s[i].offset, n, TRUE)
           /\ Split(s, i, n)[i+1] = Slot(s[i].offset + n, s[i].size - n, FALSE)
           /\ \A j \in 1..i-1 : Split(s, i, n)[j] = s[j]
           /\ \A j \in i+2..Len(s)+1 : Split(s, i, n)[j] = s[j-1]
<1> DEFINE e == Slot(s[i].offset, n, TRUE)
           f == Slot(s[i].offset + n, s[i].size - n, FALSE)
           d == DupSlot(s, i)
<1>1. s[i].offset \in 0..Word-1 /\ s[i].size \in 0..Word-1
  BY ElementOfSeq, SlotFields
<1>2. /\ n \in 0..Word-1 /\ s[i].offset + n \in 0..Word-1
      /\ s[i].size - n \in 0..Word-1
  BY <1>1, AllocAssumption, SMTT(60)
<1>3. (s[i].offset + n) % Word = s[i].offset + n
  BY <1>2, ModSmall, AllocAssumption, SMTT(60)
<1>4. e \in Slots /\ f \in Slots
  BY <1>1, <1>2, SlotType, Zenon
<1>5. Split(s, i, n) = [[d EXCEPT ![i] = e] EXCEPT ![i+1] = f]
  BY <1>3 DEF Split
<1>6. d \in [1..Len(s)+1 -> Slots]
  BY ElementOfSeq DEF DupSlot
<1>7. \A j \in 1..Len(s)+1 : d[j] = IF j <= i THEN s[j] ELSE s[j-1]
  BY DEF DupSlot
<1>8. d \in Seq(Slots) /\ Len(d) = Len(s) + 1
  BY <1>6, SeqDef
<1> HIDE DEF d, e, f
<1> DEFINE a == [d EXCEPT ![i] = e]
           b == [a EXCEPT ![i+1] = f]
<1>9. Len(s) \in Nat /\ i \in 1..Len(s)+1 /\ i + 1 \in 1..Len(s)+1
  BY LenProperties
<1>10. a \in Seq(Slots) /\ Len(a) = Len(s) + 1
  BY <1>4, <1>8, <1>9, ExceptSeq
<1>11. \A j \in 1..Len(s)+1 : a[j] = IF j = i THEN e ELSE d[j]
  BY <1>4, <1>8, <1>9, ExceptSeq
<1> HIDE DEF a
<1>12. b \in Seq(Slots) /\ Len(b) = Len(s) + 1
  BY <1>4, <1>9, <1>10, ExceptSeq
<1>13. \A j \in 1..Len(s)+1 : b[j] = IF j = i + 1 THEN f ELSE a[j]
  BY <1>4, <1>9, <1>10, ExceptSeq
<1>14. Split(s, i, n) = b
  BY <1>5 DEF a
<1> HIDE DEF b
<1>15. b[i] = e /\ b[i+1] = f
  BY <1>9, <1>11, <1>13
<1>16. \A j \in 1..i-1 : b[j] = s[j]
  BY <1>7, <1>9, <1>11, <1>13
<1>17. \A j \in i+2..Len(s)+1 : b[j] = s[j-1]
  BY <1>7, <1>9, <1>11, <1>13
<1> QED BY <1>12, <1>14, <1>15, <1>16, <1>17, Zenon DEF e, f
-----------------------------------------------------------------------------
(* What the table operations do to a table that tiles the board.           *)

\* The extents of t are those of s.
LEMMA SameExtents ==
    ASSUME NEW s, NEW t, NEW n, NEW top, Extents(s, n, top),
           \A j \in 1..n : t[j].offset = s[j].offset /\ t[j].size = s[j].size
    PROVE  Extents(t, n, top)
BY DEF Extents

\* In t, slots i and i + 1 of s are one.
LEMMA MergedExtents ==
    ASSUME NEW s, NEW t, NEW n, NEW top, Extents(s, n, top), NEW i \in 1..n-1,
           \A j \in 1..n-1 :
              /\ t[j].offset = IF j <= i THEN s[j].offset ELSE s[j+1].offset
              /\ t[j].size = IF j < i THEN s[j].size
                             ELSE IF j = i THEN s[i].size + s[i+1].size
                             ELSE s[j+1].size
    PROVE  Extents(t, n - 1, top)
BY SMTT(60) DEF Extents

\* In t, slot i of s is two.
LEMMA SplitExtents ==
    ASSUME NEW s, NEW t, NEW n, NEW top, Extents(s, n, top), NEW i \in 1..n,
           NEW k \in Nat, 0 < k, k < s[i].size,
           \A j \in 1..n+1 :
              /\ t[j].offset = IF j <= i THEN s[j].offset
                               ELSE IF j = i + 1 THEN s[i].offset + k
                               ELSE s[j-1].offset
              /\ t[j].size = IF j < i THEN s[j].size ELSE IF j = i THEN k
                             ELSE IF j = i + 1 THEN s[i].size - k
                             ELSE s[j-1].size
    PROVE  Extents(t, n + 1, top)
<1>1. n \in Nat /\ top \in Nat
  BY DEF Extents
<1>2. ASSUME NEW j \in 1..n+1
      PROVE  /\ t[j].offset \in Nat /\ t[j].size \in Nat /\ t[j].size > 0
             /\ t[j].offset + t[j].size <= top
  BY DEF Extents
<1>3. ASSUME NEW j \in 1..n+1
      PROVE  t[j].offset = IF j = 1 THEN 0 ELSE t[j-1].offset + t[j-1].size
  <2>1. CASE j <= i
    <3>1. t[j].offset = s[j].offset
      BY <1>1, <2>1
    <3>2. j # 1 => t[j-1].offset = s[j-1].offset /\ t[j-1].size = s[j-1].size
      <4> HAVE j # 1
      <4>1. j - 1 \in 1..n+1 /\ j - 1 < i
        BY <1>1, <2>1
      <4> QED BY <4>1
    <3>3. s[j].offset = IF j = 1 THEN 0 ELSE s[j-1].offset + s[j-1].size
      <4>1. j \in 1..n
        BY <1>1, <2>1
      <4> QED BY <4>1 DEF Extents
    <3> QED BY <3>1, <3>2, <3>3
  <2>2. CASE j = i + 1
    <3>1. t[i+1].offset = s[i].offset + k /\ t[i].offset = s[i].offset /\ t[i].size = k
      BY <1>1, <2>2
    <3> QED BY <1>1, <2>2, <3>1
  <2>4. CASE j = i + 2
    <3>1. /\ t[i+2].offset = s[i+1].offset
          /\ t[i+1].offset = s[i].offset + k /\ t[i+1].size = s[i].size - k
      BY <1>1, <2>4
    <3>2. /\ s[i+1].offset = s[i].offset + s[i].size
          /\ s[i].offset \in Nat /\ s[i].size \in Nat
      BY <1>1, <2>4 DEF Extents
    <3> QED BY <1>1, <2>4, <3>1, <3>2
  <2>3. CASE j > i + 2
    <3>1. s[j-1].offset = s[j-2].offset + s[j-2].size
      BY <2>3 DEF Extents
    <3> QED BY <1>1, <2>3, <3>1
  <2> QED BY <1>1, <2>1, <2>2, <2>3, <2>4
<1>4. ASSUME NEW j \in 1..n+1, NEW l \in 1..n+1, j < l
      PROVE  t[j].offset + t[j].size <= t[l].offset
  BY <1>4 DEF Extents
<1>5. top = t[n+1].offset + t[n+1].size
  BY SMTT(60) DEF Extents
<1> QED BY <1>1, <1>2, <1>3, <1>4, <1>5 DEF Extents

\* t has one more slot at the top.
LEMMA ExtendedExtents ==
    ASSUME NEW s, NEW t, NEW n, NEW top, Extents(s, n, top),
           NEW k \in Nat, 0 < k,
           \A j \in 1..n : t[j].offset = s[j].offset /\ t[j].size = s[j].size,
           t[n+1].offset = top, t[n+1].size = k
    PROVE  Extents(t, n + 1, top + k)
BY DEF Extents

\* The first k slots.
LEMMA PrefixExtents ==
    ASSUME NEW s, NEW t, NEW n, NEW top, Extents(s, n, top), NEW k \in 0..n,
           \A j \in 1..k : t[j].offset = s[j].offset /\ t[j].size = s[j].size
    PROVE  Extents(t, k, IF k = 0 THEN 0 ELSE t[k].offset + t[k].size)
BY DEF Extents

\* A table's slots end inside the board, so no sum of theirs wraps.
LEMMA TableFacts ==
    ASSUME NEW s, NEW top, Table(s, top)
    PROVE  /\ s \in Seq(Slots)
           /\ Extents(s, Len(s), top)
           /\ Len(s) \in Nat
           /\ \A j \in 1..Len(s) :
                 /\ s[j].offset \in Nat /\ s[j].size \in Nat
                 /\ s[j].offset + s[j].size < Word
           /\ \A j \in 1..Len(s)-1 : s[j].size + s[j+1].size < Word
<1>1. s \in Seq(Slots) /\ Extents(s, Len(s), top) /\ top <= MemSize
  BY DEF Table
<1> DEFINE n == Len(s)
<1>2. n \in Nat
  BY <1>1, LenProperties
<1>3. MemSize \in Nat /\ Word \in Nat /\ MemSize < Word
  BY AllocAssumption
<1>4. Extents(s, n, top) /\ top <= MemSize
  BY <1>1
<1> HIDE DEF n
<1>5. \A j \in 1..n : /\ s[j].offset \in Nat /\ s[j].size \in Nat
                      /\ s[j].offset + s[j].size < Word
  BY <1>2, <1>3, <1>4 DEF Extents
<1>6. ASSUME NEW j \in 1..n-1
      PROVE  s[j].size + s[j+1].size < Word
  <2>1. /\ s[j+1].offset = s[j].offset + s[j].size
        /\ s[j+1].offset + s[j+1].size < Word
        /\ s[j].offset \in Nat /\ s[j].size \in Nat /\ s[j+1].size \in Nat
    BY <1>2, <1>4, <1>5 DEF Extents
  <2> QED BY <1>3, <2>1
<1> QED BY <1>1, <1>2, <1>5, <1>6 DEF n

\* Tiling does not look at the used flags.
LEMMA SetUsedTable ==
    ASSUME NEW s, NEW top, Table(s, top), NEW i \in 1..Len(s), NEW u \in BOOLEAN
    PROVE  Table(SetUsed(s, i, u), top)
<1> DEFINE t == SetUsed(s, i, u)
<1>1. s \in Seq(Slots) /\ Extents(s, Len(s), top) /\ top <= MemSize
  BY DEF Table
<1>2. /\ t \in Seq(Slots) /\ Len(t) = Len(s)
      /\ \A j \in 1..Len(s) : t[j].offset = s[j].offset /\ t[j].size = s[j].size
  BY <1>1, SetUsedShape
<1> HIDE DEF t
<1>3. Extents(t, Len(s), top)
  BY <1>1, <1>2, SameExtents
<1>4. Table(t, top)
  BY <1>1, <1>2, <1>3 DEF Table
<1> QED BY <1>4 DEF t

\* Merging two neighbours leaves the same area tiled.
LEMMA MergeTable ==
    ASSUME NEW s, NEW top, Table(s, top), NEW i \in 1..Len(s)-1
    PROVE  Table(Merge(s, i), top)
<1> DEFINE t == Merge(s, i)
<1>1. s \in Seq(Slots) /\ Extents(s, Len(s), top) /\ top <= MemSize
  BY DEF Table
<1>2. s[i].size + s[i+1].size < Word
  BY TableFacts
<1>3. /\ t \in Seq(Slots) /\ Len(t) = Len(s) - 1
      /\ \A j \in 1..Len(s)-1 :
            /\ t[j].offset = IF j <= i THEN s[j].offset ELSE s[j+1].offset
            /\ t[j].size = IF j < i THEN s[j].size
                           ELSE IF j = i THEN s[i].size + s[i+1].size
                           ELSE s[j+1].size
  BY <1>1, <1>2, MergeShape
<1> HIDE DEF t
<1>4. Extents(t, Len(s) - 1, top)
  BY <1>1, <1>3, MergedExtents
<1>5. Table(t, top)
  BY <1>1, <1>3, <1>4 DEF Table
<1> QED BY <1>5 DEF t

\* Splitting a hole leaves the same area tiled.
LEMMA SplitTable ==
    ASSUME NEW s, NEW top, Table(s, top), NEW i \in 1..Len(s),
           NEW n \in Nat, 0 < n, n < s[i].size
    PROVE  Table(Split(s, i, n), top)
<1> DEFINE t == Split(s, i, n)
           e == Slot(s[i].offset, n, TRUE)
           f == Slot(s[i].offset + n, s[i].size - n, FALSE)
<1>1. s \in Seq(Slots) /\ Extents(s, Len(s), top) /\ top <= MemSize
  BY DEF Table
<1>2. s[i].offset + s[i].size < Word
  BY TableFacts
<1>3. /\ t \in Seq(Slots) /\ Len(t) = Len(s) + 1
      /\ t[i] = e /\ t[i+1] = f
      /\ \A j \in 1..i-1 : t[j] = s[j]
      /\ \A j \in i+2..Len(s)+1 : t[j] = s[j-1]
  BY <1>1, <1>2, SplitShape
<1>4. /\ e.offset = s[i].offset /\ e.size = n
      /\ f.offset = s[i].offset + n /\ f.size = s[i].size - n
  BY DEF Slot
<1>5. Len(s) \in Nat
  BY <1>1, LenProperties
<1> HIDE DEF t, e, f
<1>6. \A j \in 1..Len(s)+1 :
         /\ t[j].offset = IF j <= i THEN s[j].offset
                          ELSE IF j = i + 1 THEN s[i].offset + n
                          ELSE s[j-1].offset
         /\ t[j].size = IF j < i THEN s[j].size ELSE IF j = i THEN n
                        ELSE IF j = i + 1 THEN s[i].size - n
                        ELSE s[j-1].size
  BY <1>3, <1>4, <1>5
<1>7. Extents(t, Len(s) + 1, top)
  BY <1>1, <1>6, SplitExtents
<1>8. Table(t, top)
  BY <1>1, <1>3, <1>7 DEF Table
<1> QED BY <1>8 DEF t

\* A new slot at the top.
LEMMA AppendTable ==
    ASSUME NEW s, NEW top, Table(s, top), NEW n \in Nat, 0 < n, top + n <= MemSize
    PROVE  Table(Append(s, Slot(top, n, TRUE)), top + n)
<1> DEFINE e == Slot(top, n, TRUE)
           t == Append(s, e)
<1>1. s \in Seq(Slots) /\ Extents(s, Len(s), top) /\ top <= MemSize /\ top \in Nat
  BY DEF Table, Extents
<1>2. top \in 0..Word-1 /\ n \in 0..Word-1
  BY <1>1, AllocAssumption
<1>3. e \in Slots
  BY <1>2, SlotType, Zenon
<1>4. e.offset = top /\ e.size = n
  BY DEF Slot
<1> HIDE DEF e
<1>5. /\ t \in Seq(Slots) /\ Len(t) = Len(s) + 1
      /\ \A j \in 1..Len(s) : t[j] = s[j]
      /\ t[Len(s)+1] = e
  BY <1>1, <1>3, AppendProperties
<1> HIDE DEF t
<1>6. Extents(t, Len(s) + 1, top + n)
  BY <1>1, <1>4, <1>5, ExtendedExtents
<1>7. Table(t, top + n)
  BY <1>5, <1>6 DEF Table
<1> QED BY <1>7 DEF t, e

\* The table cut off after slot k.
LEMMA PrefixTable ==
    ASSUME NEW s, NEW top, Table(s, top), NEW k \in 0..Len(s)
    PROVE  /\ Table(SubSeq(s, 1, k), board_recalc_top(SubSeq(s, 1, k)))
           /\ Len(SubSeq(s, 1, k)) = k
           /\ \A j \in 1..k : SubSeq(s, 1, k)[j] = s[j]
<1> DEFINE t == SubSeq(s, 1, k)
           end == IF k = 0 THEN 0 ELSE t[k].offset + t[k].size
<1>1. s \in Seq(Slots) /\ Extents(s, Len(s), top) /\ top <= MemSize
  BY DEF Table
<1>2. t \in Seq(Slots) /\ Len(t) = k /\ \A j \in 1..k : t[j] = s[j]
  BY <1>1, SubSeqProperties
<1> HIDE DEF t
<1>3. Extents(t, k, end)
  BY <1>1, <1>2, PrefixExtents
<1>4. end <= MemSize /\ end \in Nat
  BY <1>1, <1>2, AllocAssumption, SMTT(60) DEF Extents
<1>5. board_recalc_top(t) = end
  BY <1>2, <1>4, ModSmall, AllocAssumption DEF board_recalc_top
<1>6. Table(t, board_recalc_top(t))
  BY <1>2, <1>3, <1>4, <1>5 DEF Table
<1> QED BY <1>2, <1>6 DEF t
-----------------------------------------------------------------------------
(* What coalescing does to the holes.                                      *)

\* Slot i, just freed, absorbs the slot after it.
LEMMA HolesAfterNext ==
    ASSUME NEW s, NEW t, NEW n \in Nat, NEW i \in 1..n-1,
           HolesApart(s, n, i), ~s[i].used, ~s[i+1].used,
           \A j \in 1..n-1 : t[j].used = IF j <= i THEN s[j].used ELSE s[j+1].used
    PROVE  /\ ~t[i].used
           /\ \A j \in 1..n-2 : t[j].used \/ t[j+1].used \/ i = j + 1
           /\ t[n-1].used \/ i = n - 1
BY DEF HolesApart

\* The slot before slot i, when free, absorbs it.
LEMMA HolesAfterPrev ==
    ASSUME NEW s, NEW t, NEW n \in Nat, NEW i \in 2..n,
           ~s[i-1].used, ~s[i].used,
           \A j \in 1..n-1 : s[j].used \/ s[j+1].used \/ i = j + 1,
           s[n].used \/ i = n,
           \A j \in 1..n-1 : t[j].used = IF j <= i - 1 THEN s[j].used ELSE s[j+1].used
    PROVE  /\ \A j \in 1..n-2 : t[j].used \/ t[j+1].used
           /\ t[n-1].used \/ i - 1 = n - 1
OBVIOUS

\* What is left between two merges: slot i is free, only its predecessor may
\* be a free neighbour, and only slot i may be a free slot at the top.
LEMMA MergeNextResult ==
    ASSUME NEW s, NEW top, Table(s, top), NEW i \in 1..Len(s),
           HolesApart(s, Len(s), i), ~s[i].used
    PROVE  LET t == MergeNext(s, i) IN
           /\ Table(t, top)
           /\ Len(t) <= Len(s) /\ i \in 1..Len(t)
           /\ ~t[i].used
           /\ \A j \in 1..Len(t)-1 : t[j].used \/ t[j+1].used \/ i = j + 1
           /\ t[Len(t)].used \/ i = Len(t)
<1>1. s \in Seq(Slots) /\ Len(s) \in Nat
  BY TableFacts
<1>2. CASE i + 1 <= Len(s) /\ ~s[i+1].used
  <2> DEFINE t == Merge(s, i)
  <2>1. MergeNext(s, i) = t
    BY <1>2 DEF MergeNext
  <2>2. i \in 1..Len(s)-1
    BY <1>1, <1>2
  <2>3. Table(t, top)
    BY <2>2, MergeTable
  <2>4. s[i].size + s[i+1].size < Word
    BY <2>2, TableFacts
  <2>5. /\ Len(t) = Len(s) - 1
        /\ \A j \in 1..Len(s)-1 : t[j].used = IF j <= i THEN s[j].used ELSE s[j+1].used
    BY <1>1, <2>2, <2>4, MergeShape
  <2> HIDE DEF t
  <2>6. /\ ~t[i].used
        /\ \A j \in 1..Len(s)-2 : t[j].used \/ t[j+1].used \/ i = j + 1
        /\ t[Len(s)-1].used \/ i = Len(s) - 1
    BY <1>1, <1>2, <2>2, <2>5, HolesAfterNext
  <2>7. Len(t) <= Len(s) /\ i \in 1..Len(t) /\ Len(t) - 1 = Len(s) - 2
    BY <1>1, <2>2, <2>5
  <2> QED BY <2>1, <2>3, <2>5, <2>6, <2>7
<1>3. CASE ~(i + 1 <= Len(s) /\ ~s[i+1].used)
  <2>1. MergeNext(s, i) = s
    BY <1>3 DEF MergeNext
  <2>2. \A j \in 1..Len(s)-1 : s[j].used \/ s[j+1].used \/ i = j + 1
    BY <1>1, <1>3 DEF HolesApart
  <2>3. s[Len(s)].used \/ i = Len(s)
    BY <1>1 DEF HolesApart
  <2> QED BY <1>1, <2>1, <2>2, <2>3
<1> QED BY <1>2, <1>3

LEMMA MergePrevResult ==
    ASSUME NEW s, NEW top, Table(s, top), NEW i \in 1..Len(s), ~s[i].used,
           \A j \in 1..Len(s)-1 : s[j].used \/ s[j+1].used \/ i = j + 1,
           s[Len(s)].used \/ i = Len(s)
    PROVE  LET t == MergePrev(s, i) IN
           /\ Table(t, top)
           /\ Len(t) <= Len(s) /\ Len(t) \in Nat \ {0}
           /\ \A j \in 1..Len(t)-1 : t[j].used \/ t[j+1].used
<1>1. s \in Seq(Slots) /\ Len(s) \in Nat
  BY TableFacts
<1>2. CASE i > 1 /\ ~s[i-1].used
  <2> DEFINE t == Merge(s, i - 1)
  <2>1. MergePrev(s, i) = t
    BY <1>2 DEF MergePrev
  <2>2. i - 1 \in 1..Len(s)-1 /\ i \in 2..Len(s)
    BY <1>1, <1>2
  <2>3. Table(t, top)
    BY <2>2, MergeTable
  <2>4. s[i-1].size + s[i].size < Word
    <3>1. s[i-1].size + s[(i-1)+1].size < Word
      BY <2>2, TableFacts
    <3> QED BY <1>1, <2>2, <3>1
  <2>5. /\ Len(t) = Len(s) - 1
        /\ \A j \in 1..Len(s)-1 :
              t[j].used = IF j <= i - 1 THEN s[j].used ELSE s[j+1].used
    <3>1. s[i-1].size + s[(i-1)+1].size < Word
      BY <2>2, TableFacts
    <3> QED BY <1>1, <2>2, <3>1, MergeShape
  <2> HIDE DEF t
  <2>6. \A j \in 1..Len(s)-2 : t[j].used \/ t[j+1].used
    BY <1>1, <1>2, <2>2, <2>5, HolesAfterPrev
  <2>7. Len(t) <= Len(s) /\ Len(t) \in Nat \ {0} /\ Len(t) - 1 = Len(s) - 2
    BY <1>1, <2>2, <2>5
  <2> QED BY <2>1, <2>3, <2>6, <2>7
<1>3. CASE ~(i > 1 /\ ~s[i-1].used)
  <2>1. MergePrev(s, i) = s
    BY <1>3 DEF MergePrev
  <2>2. \A j \in 1..Len(s)-1 : s[j].used \/ s[j+1].used
    BY <1>1, <1>3
  <2> QED BY <1>1, <2>1, <2>2
<1> QED BY <1>2, <1>3

\* Dropping the free slots at the top of a table without neighbouring holes.
LEMMA DropTailResult ==
    ASSUME NEW s, NEW top, Table(s, top), Len(s) > 0,
           \A j \in 1..Len(s)-1 : s[j].used \/ s[j+1].used
    PROVE  LET t == DropTail(s) IN
           /\ Table(t, board_recalc_top(t))
           /\ Len(t) <= Len(s)
           /\ HolesApart(t, Len(t), 0)
<1> DEFINE Last(k) == /\ k > 0 => s[k].used
                      /\ \A j \in k+1..Len(s) : ~s[j].used
           n == CHOOSE k \in 0..Len(s) : Last(k)
           t == SubSeq(s, 1, n)
<1>1. Len(s) \in Nat
  BY TableFacts
<1>2. \E k \in 0..Len(s) : Last(k)
  <2>1. CASE s[Len(s)].used
    BY <1>1, <2>1
  <2>2. CASE ~s[Len(s)].used
    <3>1. Last(Len(s) - 1)
      BY <1>1, <2>2
    <3> QED BY <1>1, <3>1
  <2> QED BY <2>1, <2>2
<1>3. n \in 0..Len(s) /\ Last(n)
  BY <1>2
<1>4. DropTail(s) = t
  BY DEF DropTail
<1> HIDE DEF n
<1>5. /\ Table(t, board_recalc_top(t)) /\ Len(t) = n
      /\ \A j \in 1..n : t[j] = s[j]
  BY <1>3, PrefixTable
<1> HIDE DEF t
<1>6. HolesApart(t, n, 0)
  BY <1>1, <1>3, <1>5 DEF HolesApart
<1> QED BY <1>1, <1>3, <1>4, <1>5, <1>6

\* Freeing slot i: the table still tiles the board and has no holes side by
\* side.
LEMMA CoalesceResult ==
    ASSUME NEW s, NEW top, Table(s, top), NEW i \in 1..Len(s),
           HolesApart(s, Len(s), i), ~s[i].used
    PROVE  LET t == board_coalesce_at(s, i) IN
           /\ Table(t, board_recalc_top(t))
           /\ Len(t) <= Len(s)
           /\ HolesApart(t, Len(t), 0)
<1> DEFINE a == MergeNext(s, i)
           b == MergePrev(a, i)
           c == DropTail(b)
<1>1. /\ Table(a, top)
      /\ Len(a) <= Len(s) /\ i \in 1..Len(a)
      /\ ~a[i].used
      /\ \A j \in 1..Len(a)-1 : a[j].used \/ a[j+1].used \/ i = j + 1
      /\ a[Len(a)].used \/ i = Len(a)
  BY MergeNextResult
<1> HIDE DEF a
<1>2. /\ Table(b, top)
      /\ Len(b) <= Len(a) /\ Len(b) \in Nat \ {0}
      /\ \A j \in 1..Len(b)-1 : b[j].used \/ b[j+1].used
  BY <1>1, MergePrevResult
<1> HIDE DEF b
<1>3. /\ Table(c, board_recalc_top(c))
      /\ Len(c) <= Len(b)
      /\ HolesApart(c, Len(c), 0)
  BY <1>2, DropTailResult
<1>4. Len(s) \in Nat /\ Len(a) \in Nat /\ Len(c) \in Nat
  BY <1>1, <1>3, TableFacts
<1> HIDE DEF c
<1>5. Len(c) <= Len(s)
  BY <1>1, <1>2, <1>3, <1>4
<1>6. board_coalesce_at(s, i) = c
  BY DEF board_coalesce_at, a, b, c
<1> QED BY <1>3, <1>5, <1>6
-----------------------------------------------------------------------------
(* The inductive invariant.                                                *)

\* The blocks of the slots in use.
Held(s) == {Block(s[j].offset, s[j].size) : j \in {k \in 1..Len(s) : s[k].used}}

\* The task that is inside a call is the one that holds the mutex.
MutexInv == \A t \in Tasks : pc[t] # "idle" <=> alloc_mutex = t

\* The state between calls.
Quiet ==
    /\ HolesApart(board_allocs, num_board_allocs, 0)
    /\ live = Held(board_allocs)

\* What the caller in the middle of a call may rely on.
Call(t) ==
    LET i == local[t].slot
        size == local[t].size
    IN /\ pc[t] \in {"allocScan", "allocReuse", "allocExtend"} =>
             Quiet /\ size \in Nat /\ size > 0 /\ size + MemSize < Word
       /\ pc[t] = "allocReuse" =>
             i \in 1..num_board_allocs /\ Fits(board_allocs, i, size)
       /\ pc[t] = "freeScan" =>
             /\ HolesApart(board_allocs, num_board_allocs, 0)
             /\ live = {b \in Held(board_allocs) : b.ptr # local[t].ptr}
       /\ pc[t] = "coalesce" =>
             /\ i \in 1..num_board_allocs /\ ~board_allocs[i].used
             /\ HolesApart(board_allocs, num_board_allocs, i)
             /\ live = Held(board_allocs)

CallInv ==
    /\ alloc_mutex = NoTask => Quiet
    /\ \A t \in Tasks : alloc_mutex = t => Call(t)

TableInv == Table(board_allocs, board_alloc_offset)

IInv == TypeOK /\ MutexInv /\ TableInv /\ CallInv
-----------------------------------------------------------------------------
(* What the table operations do to the blocks in use.                      *)

LEMMA HeldBy ==
    ASSUME NEW s, NEW b
    PROVE  b \in Held(s) <=>
              \E j \in 1..Len(s) : s[j].used /\ b = Block(s[j].offset, s[j].size)
BY DEF Held

LEMMA HeldSetUsed ==
    ASSUME NEW s \in Seq(Slots), NEW i \in 1..Len(s), ~s[i].used,
           NEW u \in BOOLEAN
    PROVE  u => Held(SetUsed(s, i, u)) = Held(s) \cup {Block(s[i].offset, s[i].size)}
<1> DEFINE t == SetUsed(s, i, u)
           c == Block(s[i].offset, s[i].size)
<1>1. /\ Len(t) = Len(s)
      /\ \A j \in 1..Len(s) : /\ t[j].offset = s[j].offset /\ t[j].size = s[j].size
                               /\ t[j].used = IF j = i THEN u ELSE s[j].used
  BY SetUsedShape
<1> HIDE DEF t
<1> SUFFICES ASSUME u PROVE Held(t) = Held(s) \cup {c}
  BY DEF t
<1>2. /\ t[i].used /\ Block(t[i].offset, t[i].size) = c
      /\ \A j \in 1..Len(s) : j # i => /\ t[j].used = s[j].used
                                        /\ Block(t[j].offset, t[j].size) =
                                              Block(s[j].offset, s[j].size)
  BY <1>1
<1> HIDE DEF c
<1>3. ASSUME NEW b
      PROVE  b \in Held(t) <=> b \in Held(s) \/ b = c
  <2>1. ASSUME b \in Held(t) PROVE b \in Held(s) \/ b = c
    <3>1. PICK j \in 1..Len(t) : t[j].used /\ b = Block(t[j].offset, t[j].size)
      BY <2>1, HeldBy
    <3> QED BY <1>1, <1>2, <3>1, HeldBy
  <2>2. ASSUME b \in Held(s) PROVE b \in Held(t)
    <3>1. PICK j \in 1..Len(s) : s[j].used /\ b = Block(s[j].offset, s[j].size)
      BY <2>2, HeldBy
    <3>2. j # i
      BY <3>1
    <3>3. t[j].used /\ b = Block(t[j].offset, t[j].size)
      BY <1>2, <3>1, <3>2
    <3> QED BY <1>1, <3>3, HeldBy
  <2>3. c \in Held(t)
    BY <1>1, <1>2, HeldBy
  <2> QED BY <2>1, <2>2, <2>3
<1>4. Held(t) = Held(s) \cup {c}
  BY <1>3
<1> QED BY <1>4

\* Offsets name slots: clearing the used flag takes away the block at that
\* offset and no other.
LEMMA HeldSetFree ==
    ASSUME NEW s, NEW top, Table(s, top), NEW i \in 1..Len(s), s[i].used,
           NEW u \in BOOLEAN
    PROVE  ~u => Held(SetUsed(s, i, u)) = {b \in Held(s) : b.ptr # s[i].offset}
<1> DEFINE t == SetUsed(s, i, u)
<1>0. s \in Seq(Slots) /\ Extents(s, Len(s), top)
  BY TableFacts
<1>1. /\ Len(t) = Len(s)
      /\ \A j \in 1..Len(s) : /\ t[j].offset = s[j].offset /\ t[j].size = s[j].size
                               /\ t[j].used = IF j = i THEN u ELSE s[j].used
  BY <1>0, SetUsedShape
<1>2. ASSUME NEW j \in 1..Len(s), j # i PROVE s[j].offset # s[i].offset
  <2>1. Len(s) \in Nat
    BY TableFacts
  <2>2. CASE j < i
    BY <1>0, <2>1, <2>2, SMTT(60) DEF Extents
  <2>3. CASE i < j
    BY <1>0, <2>1, <2>3 DEF Extents
  <2> QED BY <1>2, <2>1, <2>2, <2>3
<1>3. \A o, n : Block(o, n).ptr = o
  BY DEF Block
<1> HIDE DEF t
<1> SUFFICES ASSUME ~u PROVE Held(t) = {b \in Held(s) : b.ptr # s[i].offset}
  BY DEF t
<1>4. ASSUME NEW b
      PROVE  b \in Held(t) <=> b \in Held(s) /\ b.ptr # s[i].offset
  <2>1. ASSUME b \in Held(t) PROVE b \in Held(s) /\ b.ptr # s[i].offset
    <3>1. PICK j \in 1..Len(t) : t[j].used /\ b = Block(t[j].offset, t[j].size)
      BY <2>1, HeldBy
    <3>2. j # i /\ s[j].used /\ b = Block(s[j].offset, s[j].size)
      BY <1>1, <3>1
    <3> QED BY <1>1, <1>2, <1>3, <3>2, HeldBy
  <2>2. ASSUME b \in Held(s), b.ptr # s[i].offset PROVE b \in Held(t)
    <3>1. PICK j \in 1..Len(s) : s[j].used /\ b = Block(s[j].offset, s[j].size)
      BY <2>2, HeldBy
    <3>2. j # i
      BY <1>3, <2>2, <3>1
    <3>3. t[j].used /\ b = Block(t[j].offset, t[j].size)
      BY <1>1, <3>1, <3>2
    <3> QED BY <1>1, <3>3, HeldBy
  <2> QED BY <2>1, <2>2
<1>5. Held(t) = {b \in Held(s) : b.ptr # s[i].offset}
  BY <1>4
<1> QED BY <1>5

LEMMA HeldSplit ==
    ASSUME NEW s, NEW top, Table(s, top), NEW i \in 1..Len(s), ~s[i].used,
           NEW n \in Nat, n < s[i].size
    PROVE  Held(Split(s, i, n)) = Held(s) \cup {Block(s[i].offset, n)}
<1> DEFINE t == Split(s, i, n)
           e == Slot(s[i].offset, n, TRUE)
           f == Slot(s[i].offset + n, s[i].size - n, FALSE)
<1>0. s \in Seq(Slots) /\ Len(s) \in Nat /\ s[i].offset + s[i].size < Word
  BY TableFacts
<1>1. /\ Len(t) = Len(s) + 1
      /\ t[i] = e /\ t[i+1] = f
      /\ \A j \in 1..i-1 : t[j] = s[j]
      /\ \A j \in i+2..Len(s)+1 : t[j] = s[j-1]
  BY <1>0, SplitShape
<1>2. e.offset = s[i].offset /\ e.size = n /\ e.used /\ ~f.used
  BY DEF Slot
<1> HIDE DEF t, e, f
<1>3. ASSUME NEW b
      PROVE  b \in Held(t) <=> b \in Held(s) \/ b = Block(s[i].offset, n)
  <2>1. ASSUME b \in Held(t) PROVE b \in Held(s) \/ b = Block(s[i].offset, n)
    <3>1. PICK j \in 1..Len(s)+1 : t[j].used /\ b = Block(t[j].offset, t[j].size)
      BY <1>1, <2>1, HeldBy
    <3>2. j # i + 1
      BY <1>1, <1>2, <3>1
    <3>3. CASE j < i
      <4>1. j \in 1..Len(s) /\ t[j] = s[j]
        BY <1>0, <1>1, <3>3
      <4> QED BY <3>1, <4>1, HeldBy
    <3>4. CASE j = i
      BY <1>1, <1>2, <3>1, <3>4
    <3>5. CASE j > i + 1
      <4>1. j - 1 \in 1..Len(s) /\ t[j] = s[j-1]
        BY <1>0, <1>1, <3>5
      <4> QED BY <3>1, <4>1, HeldBy
    <3> QED BY <1>0, <3>2, <3>3, <3>4, <3>5
  <2>2. ASSUME b \in Held(s) PROVE b \in Held(t)
    <3>1. PICK j \in 1..Len(s) : s[j].used /\ b = Block(s[j].offset, s[j].size)
      BY <2>2, HeldBy
    <3>2. CASE j < i
      <4>1. j \in 1..Len(t) /\ t[j] = s[j]
        BY <1>0, <1>1, <3>2
      <4> QED BY <3>1, <4>1, HeldBy
    <3>3. CASE j > i
      <4>1. j + 1 \in 1..Len(t) /\ t[j+1] = s[j]
        BY <1>0, <1>1, <3>3
      <4> QED BY <3>1, <4>1, HeldBy
    <3> QED BY <1>0, <3>1, <3>2, <3>3
  <2>3. Block(s[i].offset, n) \in Held(t)
    <3>1. i \in 1..Len(t)
      BY <1>0, <1>1
    <3> QED BY <1>1, <1>2, <3>1, HeldBy
  <2> QED BY <2>1, <2>2, <2>3
<1>4. Held(t) = Held(s) \cup {Block(s[i].offset, n)}
  BY <1>3
<1> QED BY <1>4 DEF t

LEMMA HeldAppend ==
    ASSUME NEW s \in Seq(Slots), NEW o \in 0..Word-1, NEW n \in 0..Word-1
    PROVE  Held(Append(s, Slot(o, n, TRUE))) = Held(s) \cup {Block(o, n)}
<1> DEFINE e == Slot(o, n, TRUE)
           t == Append(s, e)
<1>1. e \in Slots
  BY SlotType, Zenon
<1>2. e.offset = o /\ e.size = n /\ e.used
  BY DEF Slot
<1> HIDE DEF e
<1>3. /\ Len(t) = Len(s) + 1 /\ Len(s) \in Nat
      /\ \A j \in 1..Len(s) : t[j] = s[j]
      /\ t[Len(s)+1] = e
  BY <1>1, AppendProperties, LenProperties
<1> HIDE DEF t
<1>4. ASSUME NEW b
      PROVE  b \in Held(t) <=> b \in Held(s) \/ b = Block(o, n)
  <2>1. \A j : j \in 1..Len(t) <=> j \in 1..Len(s) \/ j = Len(s) + 1
    BY <1>3
  <2> QED BY <1>2, <1>3, <2>1, HeldBy, SMTT(60)
<1>5. Held(t) = Held(s) \cup {Block(o, n)}
  BY <1>4
<1> QED BY <1>5 DEF t, e

LEMMA HeldMerge ==
    ASSUME NEW s, NEW top, Table(s, top), NEW i \in 1..Len(s)-1,
           ~s[i].used, ~s[i+1].used
    PROVE  Held(Merge(s, i)) = Held(s)
<1> DEFINE t == Merge(s, i)
<1>0. s \in Seq(Slots) /\ Len(s) \in Nat /\ s[i].size + s[i+1].size < Word
  BY TableFacts
<1>1. /\ Len(t) = Len(s) - 1
      /\ \A j \in 1..Len(s)-1 :
            /\ t[j].offset = IF j <= i THEN s[j].offset ELSE s[j+1].offset
            /\ t[j].used = IF j <= i THEN s[j].used ELSE s[j+1].used
            /\ t[j].size = IF j < i THEN s[j].size
                           ELSE IF j = i THEN s[i].size + s[i+1].size
                           ELSE s[j+1].size
  BY <1>0, MergeShape
<1> HIDE DEF t
<1>2. ASSUME NEW b PROVE b \in Held(t) <=> b \in Held(s)
  <2>1. ASSUME b \in Held(t) PROVE b \in Held(s)
    <3>1. PICK j \in 1..Len(s)-1 : t[j].used /\ b = Block(t[j].offset, t[j].size)
      BY <1>1, <2>1, HeldBy
    <3>2. CASE j <= i
      <4>1. j \in 1..Len(s) /\ s[j].used /\ j # i
        BY <1>0, <1>1, <3>1, <3>2
      <4>2. t[j].offset = s[j].offset /\ t[j].size = s[j].size
        BY <1>0, <1>1, <3>2, <4>1
      <4> QED BY <3>1, <4>1, <4>2, HeldBy
    <3>3. CASE j > i
      <4>1. j + 1 \in 1..Len(s) /\ s[j+1].used
        BY <1>0, <1>1, <3>1, <3>3
      <4>2. t[j].offset = s[j+1].offset /\ t[j].size = s[j+1].size
        BY <1>0, <1>1, <3>3
      <4> QED BY <3>1, <4>1, <4>2, HeldBy
    <3> QED BY <1>0, <3>2, <3>3
  <2>2. ASSUME b \in Held(s) PROVE b \in Held(t)
    <3>1. PICK j \in 1..Len(s) : s[j].used /\ b = Block(s[j].offset, s[j].size)
      BY <2>2, HeldBy
    <3>2. j # i /\ j # i + 1
      BY <3>1
    <3>3. CASE j < i
      <4>1. /\ j \in 1..Len(t) /\ t[j].used
            /\ t[j].offset = s[j].offset /\ t[j].size = s[j].size
        BY <1>0, <1>1, <3>1, <3>3
      <4> QED BY <3>1, <4>1, HeldBy
    <3>4. CASE j > i + 1
      <4>1. /\ j - 1 \in 1..Len(t) /\ t[j-1].used
            /\ t[j-1].offset = s[j].offset /\ t[j-1].size = s[j].size
        BY <1>0, <1>1, <3>1, <3>4
      <4> QED BY <3>1, <4>1, HeldBy
    <3> QED BY <1>0, <3>2, <3>3, <3>4
  <2> QED BY <2>1, <2>2
<1>3. Held(t) = Held(s)
  BY <1>2
<1> QED BY <1>3 DEF t

\* Coalescing touches free slots only.
LEMMA HeldCoalesce ==
    ASSUME NEW s, NEW top, Table(s, top), NEW i \in 1..Len(s),
           HolesApart(s, Len(s), i), ~s[i].used
    PROVE  Held(board_coalesce_at(s, i)) = Held(s)
<1> DEFINE a == MergeNext(s, i)
           b == MergePrev(a, i)
           Last(k) == /\ k > 0 => b[k].used
                      /\ \A j \in k+1..Len(b) : ~b[j].used
           n == CHOOSE k \in 0..Len(b) : Last(k)
           c == SubSeq(b, 1, n)
<1>1. /\ Table(a, top) /\ i \in 1..Len(a) /\ ~a[i].used
      /\ \A j \in 1..Len(a)-1 : a[j].used \/ a[j+1].used \/ i = j + 1
      /\ a[Len(a)].used \/ i = Len(a)
  BY MergeNextResult
<1>2. Held(a) = Held(s)
  <2>1. Len(s) \in Nat
    BY TableFacts
  <2>2. CASE i + 1 <= Len(s) /\ ~s[i+1].used
    BY <2>1, <2>2, HeldMerge DEF MergeNext
  <2>3. CASE ~(i + 1 <= Len(s) /\ ~s[i+1].used)
    BY <2>3 DEF MergeNext
  <2> QED BY <2>2, <2>3
<1> HIDE DEF a
<1>3. /\ Table(b, top) /\ Len(b) \in Nat \ {0}
      /\ \A j \in 1..Len(b)-1 : b[j].used \/ b[j+1].used
  BY <1>1, MergePrevResult
<1>4. Held(b) = Held(a)
  <2>1. Len(a) \in Nat
    BY <1>1, TableFacts
  <2>2. CASE i > 1 /\ ~a[i-1].used
    <3>1. i - 1 \in 1..Len(a)-1 /\ ~a[(i-1)+1].used
      BY <1>1, <2>1, <2>2
    <3>2. Held(Merge(a, i - 1)) = Held(a)
      BY <1>1, <2>2, <3>1, HeldMerge
    <3> QED BY <2>2, <3>2 DEF MergePrev
  <2>3. CASE ~(i > 1 /\ ~a[i-1].used)
    BY <2>3 DEF MergePrev
  <2> QED BY <2>2, <2>3
<1> HIDE DEF b
<1>5. \E k \in 0..Len(b) : Last(k)
  <2>1. CASE b[Len(b)].used
    BY <1>3, <2>1
  <2>2. CASE ~b[Len(b)].used
    <3>1. Last(Len(b) - 1)
      BY <1>3, <2>2
    <3> QED BY <1>3, <3>1
  <2> QED BY <2>1, <2>2
<1>6. n \in 0..Len(b) /\ \A j \in n+1..Len(b) : ~b[j].used
  BY <1>5
<1>7. board_coalesce_at(s, i) = c
  BY DEF board_coalesce_at, DropTail, a, b
<1> HIDE DEF n
<1>8. Len(c) = n /\ \A j \in 1..n : c[j] = b[j]
  BY <1>3, <1>6, PrefixTable
<1> HIDE DEF c
<1>9. ASSUME NEW x PROVE x \in Held(c) <=> x \in Held(b)
  <2>1. \A j \in 1..Len(b) : b[j].used => j \in 1..n
    BY <1>3, <1>6
  <2>2. 1..n \subseteq 1..Len(b)
    BY <1>3, <1>6
  <2> QED BY <1>8, <2>1, <2>2, HeldBy, SMTT(60)
<1>10. Held(c) = Held(b)
  BY <1>9
<1> QED BY <1>2, <1>4, <1>7, <1>10
-----------------------------------------------------------------------------
(* Facts about the callers.                                                *)

\* A request that cannot wrap is rounded to a positive size that cannot.
LEMMA RoundUpBounds ==
    ASSUME NoWrap, NEW size \in Requests
    PROVE  LET r == RoundUp(size) IN r \in Nat /\ r > 0 /\ r + MemSize < Word
<1> DEFINE x == size + Align - 1
           m == x % Align
<1>1. /\ size \in Nat /\ MemSize \in Nat /\ Align \in Nat /\ Align > 0 /\ Word \in Nat
      /\ size + MemSize + Align < Word
  BY AllocAssumption DEF NoWrap
<1>2. x \in Nat /\ x < Word
  BY <1>1
<1>3. x % Word = x
  BY <1>2, ModSmall
<1>4. m \in Nat /\ m <= x
  BY <1>1, <1>2
<1>5. RoundUp(size) = IF x - m = 0 THEN Align ELSE x - m
  BY <1>3 DEF RoundUp
<1> HIDE DEF m
<1> QED BY <1>1, <1>2, <1>4, <1>5

LEMMA LocalType ==
    ASSUME NEW n \in 0..Word-1, NEW i \in Nat, NEW p \in 0..MemSize
    PROVE  /\ Local(n, i, p) \in Locals
           /\ Local(n, i, p).size = n
           /\ Local(n, i, p).slot = i
           /\ Local(n, i, p).ptr = p
BY DEF Local, Locals

LEMMA LocalFields ==
    ASSUME NEW x \in Locals
    PROVE  x.size \in 0..Word-1 /\ x.slot \in Nat /\ x.ptr \in 0..MemSize
BY DEF Locals

LEMMA BlockType ==
    ASSUME NEW p \in 0..Word-1, NEW n \in 0..Word-1
    PROVE  /\ Block(p, n) \in Blocks
           /\ Block(p, n).ptr = p
           /\ Block(p, n).size = n
BY DEF Block, Blocks

\* Whoever is inside a call holds the mutex.
LEMMA Holder ==
    ASSUME MutexInv, NEW t \in Tasks, pc[t] # "idle"
    PROVE  alloc_mutex = t
BY DEF MutexInv

\* Obtaining the mutex, moving on while holding it, and releasing it.
LEMMA MutexEnter ==
    ASSUME MutexInv, pc \in [Tasks -> Labels], NEW t \in Tasks,
           NEW l \in Labels \ {"idle"}, alloc_mutex = NoTask,
           alloc_mutex' = t, pc' = [pc EXCEPT ![t] = l]
    PROVE  MutexInv' /\ pc' \in [Tasks -> Labels] /\ pc'[t] = l
BY AllocAssumption DEF MutexInv

LEMMA MutexStay ==
    ASSUME MutexInv, pc \in [Tasks -> Labels], NEW t \in Tasks,
           NEW l \in Labels \ {"idle"}, pc[t] # "idle",
           alloc_mutex' = alloc_mutex, pc' = [pc EXCEPT ![t] = l]
    PROVE  MutexInv' /\ pc' \in [Tasks -> Labels] /\ pc'[t] = l
BY DEF MutexInv

LEMMA MutexLeave ==
    ASSUME MutexInv, pc \in [Tasks -> Labels], NEW t \in Tasks, pc[t] # "idle",
           alloc_mutex' = NoTask, pc' = [pc EXCEPT ![t] = "idle"]
    PROVE  MutexInv' /\ pc' \in [Tasks -> Labels]
BY AllocAssumption DEF MutexInv, Labels
-----------------------------------------------------------------------------
(* The steps.                                                              *)

LEMMA AllocCallStep ==
    ASSUME IInv, NoWrap, NEW t \in Tasks, NEW size \in Requests, AllocCall(t, size)
    PROVE  IInv'
<1> DEFINE r == RoundUp(size)
           x == Local(r, 0, 0)
<1>1. pc \in [Tasks -> Labels] /\ local \in [Tasks -> Locals] /\ MutexInv
  BY DEF IInv, TypeOK
<1>2. /\ alloc_mutex = NoTask /\ alloc_mutex' = t /\ pc[t] = "idle"
      /\ local' = [local EXCEPT ![t] = x]
      /\ pc' = [pc EXCEPT ![t] = "allocScan"]
      /\ UNCHANGED <<board_allocs, board_alloc_offset, live>>
  BY DEF AllocCall, Obtain, Goto
<1>3. r \in Nat /\ r > 0 /\ r + MemSize < Word
  BY RoundUpBounds
<1>4. r \in 0..Word-1
  BY <1>3, AllocAssumption
<1>5. x \in Locals /\ x.size = r
  BY <1>4, LocalType, AllocAssumption
<1> HIDE DEF r, x
<1>6. MutexInv' /\ pc' \in [Tasks -> Labels] /\ pc'[t] = "allocScan"
  BY <1>1, <1>2, MutexEnter DEF Labels
<1>7. local' \in [Tasks -> Locals] /\ local'[t] = x
  BY <1>1, <1>2, <1>5
<1>8. TypeOK'
  BY <1>2, <1>6, <1>7 DEF IInv, TypeOK, num_board_allocs
<1>9. TableInv'
  BY <1>2 DEF IInv, TableInv
<1>10. Quiet'
  BY <1>2 DEF IInv, CallInv, Quiet, num_board_allocs
<1>11. Call(t)'
  BY <1>3, <1>5, <1>6, <1>7, <1>10 DEF Call
<1>12. CallInv'
  BY <1>2, <1>11, AllocAssumption DEF CallInv
<1> QED BY <1>6, <1>8, <1>9, <1>12 DEF IInv

\* First fit returns a hole that is large enough, if there is one.
LEMMA FirstFitResult ==
    ASSUME NEW s, Len(s) \in Nat, NEW size
    PROVE  LET i == FirstFit(s, size) IN
           \/ i \in 1..Len(s) /\ Fits(s, i, size)
           \/ i = 0 /\ \A j \in 1..Len(s) : ~Fits(s, j, size)
<1> DEFINE T == {j \in 1..Len(s) : Fits(s, j, size)}
           First(i) == Fits(s, i, size) /\ \A j \in 1..i-1 : ~Fits(s, j, size)
<1>1. CASE T = {}
  BY <1>1 DEF FirstFit
<1>2. CASE T # {}
  <2>1. T \subseteq Nat
    OBVIOUS
  <2>2. PICK i \in T : \A y \in T : i <= y
    BY <1>2, <2>1, LeastExists
  <2>3. i \in 1..Len(s) /\ Fits(s, i, size)
    BY <2>2
  <2>4. \A j \in 1..i-1 : ~Fits(s, j, size)
    <3>1. \A j \in 1..i-1 : j \in 1..Len(s) /\ ~(i <= j)
      BY <2>3
    <3>2. \A y \in 1..Len(s) : Fits(s, y, size) => i <= y
      BY <2>2
    <3> QED BY <3>1, <3>2, Zenon
  <2>5. \E k \in 1..Len(s) : First(k)
    BY <2>3, <2>4
  <2>6. FirstFit(s, size) = CHOOSE k \in 1..Len(s) : First(k)
    BY <2>3 DEF FirstFit
  <2> HIDE DEF First
  <2>7. FirstFit(s, size) \in 1..Len(s) /\ First(FirstFit(s, size))
    BY <2>5, <2>6
  <2> QED BY <2>7 DEF First
<1> QED BY <1>1, <1>2

LEMMA AllocScanStep ==
    ASSUME IInv, NEW t \in Tasks, AllocScan(t)
    PROVE  IInv'
<1> DEFINE i == FirstFit(board_allocs, local[t].size)
           l == IF i # 0 THEN "allocReuse" ELSE "allocExtend"
           x == Local(local[t].size, i, 0)
<1>1. pc \in [Tasks -> Labels] /\ local \in [Tasks -> Locals] /\ MutexInv
  BY DEF IInv, TypeOK
<1>2. /\ pc[t] = "allocScan" /\ alloc_mutex' = alloc_mutex
      /\ local' = [local EXCEPT ![t] = x]
      /\ pc' = [pc EXCEPT ![t] = l]
      /\ UNCHANGED <<board_allocs, board_alloc_offset, live>>
  BY DEF AllocScan, Goto
<1>3. alloc_mutex = t
  BY <1>1, <1>2, Holder
<1>4. Len(board_allocs) \in Nat
  BY TableFacts DEF IInv, TableInv
<1>5. \/ i \in 1..Len(board_allocs) /\ Fits(board_allocs, i, local[t].size)
      \/ i = 0
  BY <1>4, FirstFitResult
<1>6. i \in Nat /\ l \in Labels \ {"idle"}
  BY <1>4, <1>5 DEF Labels
<1>7. local[t].size \in 0..Word-1
  BY <1>1, LocalFields
<1>8. x \in Locals /\ x.size = local[t].size /\ x.slot = i
  BY <1>6, <1>7, LocalType, AllocAssumption
<1>9. /\ l \in {"allocReuse", "allocExtend"}
      /\ l = "allocReuse" => i # 0
  OBVIOUS
<1> HIDE DEF i, x, l
<1>10. MutexInv' /\ pc' \in [Tasks -> Labels] /\ pc'[t] = l
  BY <1>1, <1>2, <1>6, MutexStay
<1>11. local' \in [Tasks -> Locals] /\ local'[t] = x
  BY <1>1, <1>2, <1>8
<1>12. TypeOK'
  BY <1>2, <1>10, <1>11 DEF IInv, TypeOK, num_board_allocs
<1>13. TableInv'
  BY <1>2 DEF IInv, TableInv
<1>14. Call(t)
  BY <1>3 DEF IInv, CallInv
<1>15. Quiet /\ x.size \in Nat /\ x.size > 0 /\ x.size + MemSize < Word
  BY <1>2, <1>8, <1>14 DEF Call
<1>16. Quiet'
  BY <1>2, <1>15 DEF Quiet, num_board_allocs
<1>17. l = "allocReuse" => /\ i \in 1..num_board_allocs'
                           /\ Fits(board_allocs', i, x.size)
  BY <1>2, <1>5, <1>8, <1>9 DEF num_board_allocs
<1>18. Call(t)'
  BY <1>8, <1>9, <1>10, <1>11, <1>15, <1>16, <1>17 DEF Call
<1>19. CallInv'
  BY <1>2, <1>3, <1>18, AllocAssumption DEF CallInv
<1> QED BY <1>10, <1>12, <1>13, <1>19 DEF IInv

\* The blocks of a table have the type of blocks.
LEMMA HeldType ==
    ASSUME NEW s \in Seq(Slots)
    PROVE  Held(s) \subseteq Blocks
<1> SUFFICES ASSUME NEW b \in Held(s) PROVE b \in Blocks
  OBVIOUS
<1>1. PICK j \in 1..Len(s) : s[j].used /\ b = Block(s[j].offset, s[j].size)
  BY HeldBy
<1>2. s[j].offset \in 0..Word-1 /\ s[j].size \in 0..Word-1
  BY ElementOfSeq, SlotFields
<1> QED BY <1>1, <1>2, BlockType

\* The end of every call: what the call itself has to establish is that the
\* table is a table again, in the state that holds between calls.
LEMMA ReleaseStep ==
    ASSUME IInv, NEW t \in Tasks, pc[t] # "idle", Release(t), Goto(t, "idle"),
           Table(board_allocs', board_alloc_offset'),
           Len(board_allocs') <= MAX_BOARD_ALLOCS,
           Quiet'
    PROVE  IInv'
<1>1. pc \in [Tasks -> Labels] /\ local \in [Tasks -> Locals] /\ MutexInv
  BY DEF IInv, TypeOK
<1>2. /\ alloc_mutex' = NoTask
      /\ local' = [local EXCEPT ![t] = NoLocal]
      /\ pc' = [pc EXCEPT ![t] = "idle"]
  BY DEF Release, Goto
<1>3. NoLocal \in Locals
  BY LocalType, AllocAssumption DEF NoLocal
<1>4. MutexInv' /\ pc' \in [Tasks -> Labels]
  BY <1>1, <1>2, MutexLeave
<1>5. local' \in [Tasks -> Locals]
  BY <1>1, <1>2, <1>3
<1>6. board_allocs' \in Seq(Slots) /\ board_alloc_offset' \in 0..Word-1
  BY AllocAssumption DEF Table, Extents
<1>7. live' \subseteq Blocks
  BY <1>6, HeldType DEF Quiet
<1>8. TypeOK'
  BY <1>2, <1>4, <1>5, <1>6, <1>7 DEF TypeOK, num_board_allocs
<1>9. CallInv'
  BY <1>2, AllocAssumption DEF CallInv
<1>10. TableInv'
  BY DEF TableInv
<1> QED BY <1>4, <1>8, <1>9, <1>10 DEF IInv

LEMMA AllocReuseStep ==
    ASSUME IInv, NEW t \in Tasks, AllocReuse(t)
    PROVE  IInv'
<1> DEFINE s == board_allocs
           i == local[t].slot
           n == local[t].size
           top == board_alloc_offset
<1>1. /\ pc[t] = "allocReuse" /\ Release(t) /\ Goto(t, "idle")
      /\ board_alloc_offset' = top
  BY DEF AllocReuse
<1>2. Call(t)
  BY <1>1, Holder DEF IInv, CallInv
<1>3. /\ Quiet /\ n \in Nat /\ n > 0
      /\ i \in 1..Len(s) /\ ~s[i].used /\ s[i].size >= n
  BY <1>1, <1>2 DEF Call, Fits, num_board_allocs
<1>4. HolesApart(s, Len(s), 0) /\ live = Held(s)
  BY <1>3 DEF Quiet, num_board_allocs
<1>5. Table(s, top) /\ s \in Seq(Slots) /\ Len(s) \in Nat /\ s[i].size \in Nat
  BY <1>3, TableFacts DEF IInv, TableInv
<1>6. Len(s) <= MAX_BOARD_ALLOCS /\ MAX_BOARD_ALLOCS \in Nat
  BY AllocAssumption DEF IInv, TypeOK, num_board_allocs
<1>7. CASE s[i].size = n \/ Len(s) >= MAX_BOARD_ALLOCS
  <2> DEFINE u == SetUsed(s, i, TRUE)
  <2>1. board_allocs' = u /\ live' = live \cup {Block(s[i].offset, s[i].size)}
    BY <1>7 DEF AllocReuse, num_board_allocs
  <2>2. Table(u, top)
    BY <1>3, <1>5, SetUsedTable
  <2>3. Held(u) = Held(s) \cup {Block(s[i].offset, s[i].size)}
    BY <1>3, <1>5, HeldSetUsed
  <2>4. /\ Len(u) = Len(s)
        /\ \A j \in 1..Len(s) : s[j].used => u[j].used
    <3>1. \A v \in BOOLEAN :
             /\ Len(SetUsed(s, i, v)) = Len(s)
             /\ \A j \in 1..Len(s) :
                   SetUsed(s, i, v)[j].used = IF j = i THEN v ELSE s[j].used
      BY <1>3, <1>5, SetUsedShape
    <3> QED BY <3>1
  <2> HIDE DEF u
  <2>5. HolesApart(u, Len(u), 0)
    BY <1>4, <1>5, <2>4 DEF HolesApart
  <2>6. Quiet'
    BY <1>4, <2>1, <2>3, <2>5 DEF Quiet, num_board_allocs
  <2> QED BY <1>1, <1>6, <2>1, <2>2, <2>4, <2>6, ReleaseStep
<1>8. CASE ~(s[i].size = n \/ Len(s) >= MAX_BOARD_ALLOCS)
  <2> DEFINE u == Split(s, i, n)
             e == Slot(s[i].offset, n, TRUE)
             f == Slot(s[i].offset + n, s[i].size - n, FALSE)
  <2>1. board_allocs' = u /\ live' = live \cup {Block(s[i].offset, n)}
    BY <1>8 DEF AllocReuse, num_board_allocs
  <2>2. n < s[i].size
    BY <1>3, <1>5, <1>8
  <2>3. Table(u, top)
    BY <1>3, <1>5, <2>2, SplitTable
  <2>4. Held(u) = Held(s) \cup {Block(s[i].offset, n)}
    BY <1>3, <1>5, <2>2, HeldSplit
  <2>5. /\ Len(u) = Len(s) + 1
        /\ u[i] = e
        /\ \A j \in 1..i-1 : u[j] = s[j]
        /\ \A j \in i+2..Len(s)+1 : u[j] = s[j-1]
    <3>1. s[i].offset + s[i].size < Word
      BY <1>3, <1>5, TableFacts
    <3> QED BY <1>3, <1>5, <2>2, <3>1, SplitShape, ZenonT(60)
  <2>6. e.used
    BY DEF Slot
  <2> HIDE DEF u, e
  <2>7. HolesApart(u, Len(u), 0)
    <3>1. s[Len(s)].used /\ i < Len(s) /\ s[i+1].used
      BY <1>3, <1>4, <1>5 DEF HolesApart
    <3>2. ASSUME NEW j \in 1..Len(s) PROVE u[j].used \/ u[j+1].used
      <4>1. CASE j + 1 < i
        BY <1>3, <1>4, <1>5, <2>5, <4>1, SMTT(60) DEF HolesApart
      <4>2. CASE j + 1 = i \/ j = i
        BY <1>3, <1>5, <2>5, <2>6, <4>2
      <4>3. CASE j = i + 1
        <5>1. i + 2 \in i+2..Len(s)+1 /\ (i + 2) - 1 = i + 1 /\ j + 1 = i + 2
          BY <1>3, <1>5, <3>1, <4>3, SMTT(60)
        <5>2. u[j+1] = s[i+1]
          BY <2>5, <5>1
        <5> QED BY <3>1, <5>2
      <4>4. CASE j > i + 1
        <5>3. /\ j \in i+2..Len(s)+1 /\ j + 1 \in i+2..Len(s)+1
              /\ (j + 1) - 1 = j /\ j - 1 \in 1..Len(s)-1
          BY <1>3, <1>5, <4>4
        <5>1. u[j] = s[j-1] /\ u[j+1] = s[j] /\ j - 1 \in 1..Len(s)-1
          BY <2>5, <5>3
        <5>2. s[j-1].used \/ s[(j-1)+1].used
          BY <1>3, <1>4, <1>5, <5>1 DEF HolesApart
        <5> QED BY <1>5, <5>1, <5>2
      <4> QED BY <1>3, <1>5, <4>1, <4>2, <4>3, <4>4
    <3>3. u[Len(s)+1].used
      <4>1. u[Len(s)+1] = s[Len(s)]
        BY <1>3, <1>5, <2>5, <3>1, SMTT(60)
      <4> QED BY <3>1, <4>1
    <3> QED BY <1>5, <2>5, <3>2, <3>3 DEF HolesApart
  <2>8. Quiet'
    BY <1>4, <2>1, <2>4, <2>7 DEF Quiet, num_board_allocs
  <2>9. Len(u) <= MAX_BOARD_ALLOCS
    BY <1>5, <1>6, <1>8, <2>5
  <2> QED BY <1>1, <2>1, <2>3, <2>8, <2>9, ReleaseStep
<1> QED BY <1>7, <1>8

LEMMA AllocExtendStep ==
    ASSUME IInv, NEW t \in Tasks, AllocExtend(t)
    PROVE  IInv'
<1> DEFINE s == board_allocs
           n == local[t].size
           top == board_alloc_offset
           u == Append(s, Slot(top, n, TRUE))
<1>1. /\ pc[t] = "allocExtend" /\ Release(t) /\ Goto(t, "idle")
      /\ (top + n) % Word <= MemSize /\ Len(s) < MAX_BOARD_ALLOCS
      /\ board_allocs' = u /\ board_alloc_offset' = (top + n) % Word
      /\ live' = live \cup {Block(top, n)}
  BY DEF AllocExtend, CanExtend, num_board_allocs
<1>2. Call(t)
  BY <1>1, Holder DEF IInv, CallInv
<1>3. Quiet /\ n \in Nat /\ n > 0 /\ n + MemSize < Word
  BY <1>1, <1>2 DEF Call
<1>4. HolesApart(s, Len(s), 0) /\ live = Held(s)
  BY <1>3 DEF Quiet, num_board_allocs
<1>5. Table(s, top) /\ s \in Seq(Slots) /\ Len(s) \in Nat
  BY TableFacts DEF IInv, TableInv
<1>6. top \in Nat /\ top <= MemSize
  BY <1>5 DEF Table, Extents
<1>7. (top + n) % Word = top + n
  <2>1. top + n \in Nat /\ top + n < Word
    BY <1>3, <1>6, AllocAssumption
  <2> QED BY <2>1, ModSmall
<1>8. top + n <= MemSize
  BY <1>1, <1>7
<1>9. Table(u, top + n)
  BY <1>3, <1>5, <1>8, AppendTable
<1>10. top \in 0..Word-1 /\ n \in 0..Word-1
  BY <1>3, <1>6, AllocAssumption
<1>11. Held(u) = Held(s) \cup {Block(top, n)}
  BY <1>5, <1>10, HeldAppend
<1>12. /\ Len(u) = Len(s) + 1
       /\ \A j \in 1..Len(s) : u[j] = s[j]
       /\ u[Len(s)+1].used
  <2> DEFINE e == Slot(top, n, TRUE)
  <2>1. e \in Slots
    BY <1>10, SlotType, Zenon
  <2>2. e.used
    BY DEF Slot
  <2> HIDE DEF e
  <2>3. /\ Len(Append(s, e)) = Len(s) + 1
        /\ \A j \in 1..Len(s) : Append(s, e)[j] = s[j]
        /\ Append(s, e)[Len(s)+1] = e
    BY <1>5, <2>1, AppendProperties
  <2> QED BY <2>2, <2>3 DEF e
<1> HIDE DEF u
<1>13. HolesApart(u, Len(u), 0)
  BY <1>4, <1>5, <1>12 DEF HolesApart
<1>14. Quiet'
  BY <1>1, <1>4, <1>11, <1>13 DEF Quiet, num_board_allocs
<1>15. Len(u) <= MAX_BOARD_ALLOCS
  BY <1>1, <1>5, <1>12, AllocAssumption
<1> QED BY <1>1, <1>7, <1>9, <1>14, <1>15, ReleaseStep

LEMMA AllocFailStep ==
    ASSUME IInv, NEW t \in Tasks, AllocFail(t)
    PROVE  IInv'
<1>1. /\ pc[t] = "allocExtend" /\ Release(t) /\ Goto(t, "idle")
      /\ UNCHANGED <<board_allocs, board_alloc_offset, live>>
  BY DEF AllocFail
<1>2. Call(t)
  BY <1>1, Holder DEF IInv, CallInv
<1>3. Quiet'
  BY <1>1, <1>2 DEF Call, Quiet, num_board_allocs
<1>4. /\ Table(board_allocs', board_alloc_offset')
      /\ Len(board_allocs') <= MAX_BOARD_ALLOCS
  BY <1>1 DEF IInv, TypeOK, TableInv, num_board_allocs
<1> QED BY <1>1, <1>3, <1>4, ReleaseStep

LEMMA FreeCallStep ==
    ASSUME IInv, NEW t \in Tasks, NEW p \in Ptrs, FreeCall(t, p)
    PROVE  IInv'
<1> DEFINE x == Local(0, 0, p)
<1>1. pc \in [Tasks -> Labels] /\ local \in [Tasks -> Locals] /\ MutexInv
  BY DEF IInv, TypeOK
<1>2. /\ alloc_mutex = NoTask /\ alloc_mutex' = t
      /\ local' = [local EXCEPT ![t] = x]
      /\ pc' = [pc EXCEPT ![t] = "freeScan"]
      /\ live' = {b \in live : b.ptr # p}
      /\ UNCHANGED <<board_allocs, board_alloc_offset>>
  BY DEF FreeCall, Obtain, Goto
<1>3. x \in Locals /\ x.ptr = p
  BY LocalType, AllocAssumption DEF Ptrs
<1> HIDE DEF x
<1>4. MutexInv' /\ pc' \in [Tasks -> Labels] /\ pc'[t] = "freeScan"
  BY <1>1, <1>2, MutexEnter DEF Labels
<1>5. local' \in [Tasks -> Locals] /\ local'[t] = x
  BY <1>1, <1>2, <1>3
<1>6. TypeOK'
  BY <1>2, <1>4, <1>5 DEF IInv, TypeOK, num_board_allocs
<1>7. TableInv'
  BY <1>2 DEF IInv, TableInv
<1>8. Quiet
  BY <1>2 DEF IInv, CallInv
<1>9. /\ HolesApart(board_allocs', num_board_allocs', 0)
      /\ live' = {b \in Held(board_allocs') : b.ptr # local'[t].ptr}
  BY <1>2, <1>3, <1>5, <1>8 DEF Quiet, num_board_allocs
<1>10. Call(t)'
  BY <1>4, <1>9 DEF Call
<1>11. CallInv'
  BY <1>2, <1>10, AllocAssumption DEF CallInv
<1> QED BY <1>4, <1>6, <1>7, <1>11 DEF IInv

LEMMA FreeMarkStep ==
    ASSUME IInv, NEW t \in Tasks, FreeMark(t)
    PROVE  IInv'
<1> DEFINE s == board_allocs
           top == board_alloc_offset
           p == local[t].ptr
<1>1. pc \in [Tasks -> Labels] /\ local \in [Tasks -> Locals] /\ MutexInv
  BY DEF IInv, TypeOK
<1>2. /\ pc[t] = "freeScan" /\ alloc_mutex' = alloc_mutex
      /\ pc' = [pc EXCEPT ![t] = "coalesce"]
      /\ UNCHANGED <<board_alloc_offset, live>>
  BY DEF FreeMark, Goto
<1>3. PICK i \in 1..Len(s) :
         /\ s[i].offset = p /\ s[i].used
         /\ board_allocs' = SetUsed(s, i, FALSE)
         /\ local' = [local EXCEPT ![t] = Local(0, i, p)]
  BY DEF FreeMark, num_board_allocs
<1> DEFINE u == SetUsed(s, i, FALSE)
           x == Local(0, i, p)
<1>4. alloc_mutex = t
  BY <1>1, <1>2, Holder
<1>5. Table(s, top) /\ s \in Seq(Slots) /\ Len(s) \in Nat
  BY TableFacts DEF IInv, TableInv
<1>6. Table(u, top)
  BY <1>5, SetUsedTable
<1>7. Held(u) = {b \in Held(s) : b.ptr # p}
  <2>1. \A v \in BOOLEAN :
           ~v => Held(SetUsed(s, i, v)) = {b \in Held(s) : b.ptr # s[i].offset}
    BY <1>3, <1>5, HeldSetFree
  <2> QED BY <1>3, <2>1
<1>8. /\ Len(u) = Len(s) /\ ~u[i].used
      /\ \A j \in 1..Len(s) : j # i => u[j].used = s[j].used
  <2>1. \A v \in BOOLEAN :
           /\ Len(SetUsed(s, i, v)) = Len(s)
           /\ \A j \in 1..Len(s) :
                 SetUsed(s, i, v)[j].used = IF j = i THEN v ELSE s[j].used
    BY <1>5, SetUsedShape
  <2> QED BY <2>1
<1>9. x \in Locals /\ x.slot = i
  <2>1. p \in 0..MemSize
    BY <1>1, LocalFields
  <2>2. 0 \in 0..Word-1 /\ i \in Nat
    BY <1>5, AllocAssumption
  <2> QED BY <2>1, <2>2, LocalType
<1>10. board_allocs' = u /\ local' = [local EXCEPT ![t] = x]
  BY <1>3
<1> HIDE DEF u, x
<1>11. Call(t)
  BY <1>4 DEF IInv, CallInv
<1>12. /\ HolesApart(s, Len(s), 0)
       /\ live = {b \in Held(s) : b.ptr # p}
  BY <1>2, <1>11 DEF Call, num_board_allocs
<1>13. HolesApart(u, Len(u), i)
  BY <1>5, <1>8, <1>12, SMTT(60) DEF HolesApart
<1>14. MutexInv' /\ pc' \in [Tasks -> Labels] /\ pc'[t] = "coalesce"
  BY <1>1, <1>2, MutexStay DEF Labels
<1>15. local' \in [Tasks -> Locals] /\ local'[t].slot = i
  BY <1>1, <1>9, <1>10
<1>16. TypeOK'
  <2>1. u \in Seq(Slots)
    BY <1>6, TableFacts
  <2> QED BY <1>2, <1>8, <1>10, <1>14, <1>15, <2>1 DEF IInv, TypeOK, num_board_allocs
<1>17. TableInv'
  BY <1>2, <1>6, <1>10 DEF TableInv
<1>18. /\ local'[t].slot \in 1..Len(board_allocs') /\ ~board_allocs'[local'[t].slot].used
       /\ HolesApart(board_allocs', Len(board_allocs'), local'[t].slot)
       /\ live' = Held(board_allocs')
  BY <1>2, <1>7, <1>8, <1>10, <1>12, <1>13, <1>15
<1>19. Call(t)'
  BY <1>14, <1>18 DEF Call, num_board_allocs
<1>20. CallInv'
  BY <1>2, <1>4, <1>19, AllocAssumption DEF CallInv
<1> QED BY <1>14, <1>16, <1>17, <1>20 DEF IInv

LEMMA FreeCoalesceStep ==
    ASSUME IInv, NEW t \in Tasks, FreeCoalesce(t)
    PROVE  IInv'
<1> DEFINE s == board_allocs
           i == local[t].slot
           u == board_coalesce_at(s, i)
<1>1. /\ pc[t] = "coalesce" /\ Release(t) /\ Goto(t, "idle")
      /\ board_allocs' = u /\ board_alloc_offset' = board_recalc_top(u)
      /\ live' = live
  BY DEF FreeCoalesce
<1>2. Call(t)
  BY <1>1, Holder DEF IInv, CallInv
<1>3. /\ i \in 1..Len(s) /\ ~s[i].used
      /\ HolesApart(s, Len(s), i)
      /\ live = Held(s)
  BY <1>1, <1>2 DEF Call, num_board_allocs
<1>4. Table(s, board_alloc_offset) /\ Len(s) <= MAX_BOARD_ALLOCS
  BY DEF IInv, TableInv, TypeOK, num_board_allocs
<1>5. Table(u, board_recalc_top(u)) /\ Len(u) <= Len(s) /\ HolesApart(u, Len(u), 0)
  BY <1>3, <1>4, CoalesceResult
<1>6. Held(u) = Held(s)
  BY <1>3, <1>4, HeldCoalesce
<1>7. Len(s) \in Nat /\ Len(u) \in Nat
  BY <1>4, <1>5, TableFacts
<1> HIDE DEF u
<1>8. Quiet'
  BY <1>1, <1>3, <1>5, <1>6 DEF Quiet, num_board_allocs
<1>9. Len(u) <= MAX_BOARD_ALLOCS
  BY <1>4, <1>5, <1>7, AllocAssumption
<1> QED BY <1>1, <1>5, <1>8, <1>9, ReleaseStep

LEMMA FreeUnknownStep ==
    ASSUME IInv, NEW t \in Tasks, FreeUnknown(t)
    PROVE  IInv'
<1> DEFINE s == board_allocs
           p == local[t].ptr
<1>1. /\ pc[t] = "freeScan" /\ Release(t) /\ Goto(t, "idle")
      /\ UNCHANGED <<board_allocs, board_alloc_offset, live>>
      /\ \A i \in 1..Len(s) : ~(s[i].offset = p /\ s[i].used)
  BY DEF FreeUnknown, num_board_allocs
<1>2. Call(t)
  BY <1>1, Holder DEF IInv, CallInv
<1>3. HolesApart(s, Len(s), 0) /\ live = {b \in Held(s) : b.ptr # p}
  BY <1>1, <1>2 DEF Call, num_board_allocs
<1>4. ASSUME NEW b \in Held(s) PROVE b.ptr # p
  <2>1. PICK j \in 1..Len(s) : s[j].used /\ b = Block(s[j].offset, s[j].size)
    BY HeldBy
  <2>2. b.ptr = s[j].offset
    BY <2>1 DEF Block
  <2> QED BY <1>1, <2>1, <2>2
<1>5. live = Held(s)
  BY <1>3, <1>4
<1>6. Quiet'
  BY <1>1, <1>3, <1>5 DEF Quiet, num_board_allocs
<1>7. /\ Table(board_allocs', board_alloc_offset')
      /\ Len(board_allocs') <= MAX_BOARD_ALLOCS
  BY <1>1 DEF IInv, TypeOK, TableInv, num_board_allocs
<1> QED BY <1>1, <1>6, <1>7, ReleaseStep
-----------------------------------------------------------------------------
(* The theorems.                                                           *)

LEMMA InitIInv == Init => IInv
<1> SUFFICES ASSUME Init PROVE IInv
  OBVIOUS
<1>1. /\ board_allocs = <<>> /\ board_alloc_offset = 0 /\ alloc_mutex = NoTask
      /\ pc = [t \in Tasks |-> "idle"] /\ local = [t \in Tasks |-> NoLocal]
      /\ live = {}
  BY DEF Init
<1>2. board_allocs \in Seq(Slots) /\ Len(board_allocs) = 0
  BY <1>1, EmptySeq
<1>3. NoLocal \in Locals
  BY LocalType, AllocAssumption DEF NoLocal
<1>4. TypeOK
  BY <1>1, <1>2, <1>3, AllocAssumption DEF TypeOK, num_board_allocs, Labels
<1>5. MutexInv
  BY <1>1, AllocAssumption DEF MutexInv
<1>6. TableInv
  BY <1>1, <1>2, AllocAssumption DEF TableInv, Table, Extents
<1>7. Held(board_allocs) = {}
  BY <1>2 DEF Held
<1>8. Quiet
  BY <1>1, <1>2, <1>7 DEF Quiet, HolesApart, num_board_allocs
<1>9. CallInv
  BY <1>1, <1>8, AllocAssumption DEF CallInv
<1> QED BY <1>4, <1>5, <1>6, <1>9 DEF IInv

LEMMA NextIInv ==
    ASSUME NoWrap
    PROVE  IInv /\ [Next]_vars => IInv'
<1> SUFFICES ASSUME IInv, [Next]_vars PROVE IInv'
  OBVIOUS
<1>1. CASE Next
  <2>1. PICK t \in Tasks :
           \/ \E size \in Requests : AllocCall(t, size)
           \/ AllocScan(t) \/ AllocReuse(t) \/ AllocExtend(t) \/ AllocFail(t)
           \/ \E p \in Ptrs : FreeCall(t, p)
           \/ FreeMark(t) \/ FreeCoalesce(t) \/ FreeUnknown(t)
    BY <1>1 DEF Next
  <2>2. CASE \E size \in Requests : AllocCall(t, size)
    BY <2>2, AllocCallStep
  <2>3. CASE AllocScan(t)
    BY <2>3, AllocScanStep
  <2>4. CASE AllocReuse(t)
    BY <2>4, AllocReuseStep
  <2>5. CASE AllocExtend(t)
    BY <2>5, AllocExtendStep
  <2>6. CASE AllocFail(t)
    BY <2>6, AllocFailStep
  <2>7. CASE \E p \in Ptrs : FreeCall(t, p)
    BY <2>7, FreeCallStep
  <2>8. CASE FreeMark(t)
    BY <2>8, FreeMarkStep
  <2>9. CASE FreeCoalesce(t)
    BY <2>9, FreeCoalesceStep
  <2>10. CASE FreeUnknown(t)
    BY <2>10, FreeUnknownStep
  <2> QED
    BY <2>1, <2>2, <2>3, <2>4, <2>5, <2>6, <2>7, <2>8, <2>9, <2>10
<1>2. CASE UNCHANGED vars
  BY <1>2 DEF vars, IInv, TypeOK, MutexInv, TableInv, CallInv, Call, Quiet,
              num_board_allocs
<1> QED BY <1>1, <1>2

\* The invariant implies what the runs check.
LEMMA IInvImplies == IInv => TypeOK /\ Tiling /\ Coalesced /\ UsedAreLive
<1> SUFFICES ASSUME IInv PROVE Tiling /\ Coalesced /\ UsedAreLive
  BY DEF IInv
<1>1. Tiling
  BY DEF IInv, TableInv, Table, Extents, Tiling, Tiles
<1>2. Coalesced
  BY DEF IInv, CallInv, Quiet, Coalesced
<1>3. UsedAreLive
  BY DEF IInv, CallInv, Quiet, Held, UsedAreLive, num_board_allocs
<1> QED BY <1>1, <1>2, <1>3

\* chip_AllocCardMem and chip_FreeCardMem, called from any number of tasks with
\* any sizes that cannot wrap, keep a slot table of the right shape.
THEOREM AllocTypeOK == NoWrap => (Spec => []TypeOK)
<1> SUFFICES ASSUME NoWrap PROVE Spec => []TypeOK
  OBVIOUS
<1> QED BY InitIInv, NextIInv, IInvImplies, PTL DEF Spec

\* The slots always tile the allocated part of the board: no gap is lost and
\* no two slots overlap, in the middle of a call too.
THEOREM AllocTiling == NoWrap => (Spec => []Tiling)
<1> SUFFICES ASSUME NoWrap PROVE Spec => []Tiling
  OBVIOUS
<1> QED BY InitIInv, NextIInv, IInvImplies, PTL DEF Spec

\* Both together: the table every call finds and every step of it leaves.
THEOREM AllocTableSound == NoWrap => (Spec => []TableSound)
<1>1. TypeOK /\ Tiling => TableSound
  BY DEF TableSound
<1> QED BY <1>1, AllocTypeOK, AllocTiling, PTL

\* Between calls no two holes are neighbours.
THEOREM AllocCoalesced == NoWrap => (Spec => []Coalesced)
<1> SUFFICES ASSUME NoWrap PROVE Spec => []Coalesced
  OBVIOUS
<1> QED BY InitIInv, NextIInv, IInvImplies, PTL DEF Spec

\* Between calls the slots in use are exactly the blocks clients hold.
THEOREM AllocUsedAreLive == NoWrap => (Spec => []UsedAreLive)
<1> SUFFICES ASSUME NoWrap PROVE Spec => []UsedAreLive
  OBVIOUS
<1> QED BY InitIInv, NextIInv, IInvImplies, PTL DEF Spec
-----------------------------------------------------------------------------
(* The allocator implements CardMem.                                       *)

\* Two slots that do not overlap make blocks that do not.
LEMMA BlocksDisjoint ==
    ASSUME NEW s, NEW top, Table(s, top),
           NEW o \in Nat, NEW n \in Nat,
           \A j \in 1..Len(s) : s[j].used =>
              o + n <= s[j].offset \/ s[j].offset + s[j].size <= o
    PROVE  \A c \in Held(s) : Abstract!Disjoint(Block(o, n), c)
<1> SUFFICES ASSUME NEW c \in Held(s) PROVE Abstract!Disjoint(Block(o, n), c)
  OBVIOUS
<1>1. PICK j \in 1..Len(s) : s[j].used /\ c = Block(s[j].offset, s[j].size)
  BY HeldBy
<1>2. c.ptr = s[j].offset /\ c.size = s[j].size
  BY <1>1 DEF Block
<1>3. Block(o, n).ptr = o /\ Block(o, n).size = n
  BY DEF Block
<1>4. o + n <= s[j].offset \/ s[j].offset + s[j].size <= o
  BY <1>1
<1> QED BY <1>2, <1>3, <1>4 DEF Abstract!Disjoint

\* A new block inside the board and apart from the others is an Alloc step.
LEMMA AbstractAlloc ==
    ASSUME NEW o \in Nat, NEW n \in Nat, n > 0, o + n <= MemSize,
           \A c \in live : Abstract!Disjoint(Block(o, n), c),
           live' = live \cup {Block(o, n)}
    PROVE  Abstract!Next
<1> DEFINE b == Block(o, n)
<1>1. b.ptr = o /\ b.size = n /\ b \in Abstract!Extent
  BY AllocAssumption DEF Block, Abstract!Extent
<1> HIDE DEF b
<1>2. Abstract!Alloc(b)
  BY <1>1 DEF Abstract!Alloc, b
<1> QED BY <1>1, <1>2 DEF Abstract!Next

LEMMA ReuseImplements ==
    ASSUME IInv, NEW t \in Tasks, AllocReuse(t)
    PROVE  Abstract!Next
<1> DEFINE s == board_allocs
           i == local[t].slot
           n == local[t].size
           top == board_alloc_offset
           k == IF s[i].size = n \/ Len(s) >= MAX_BOARD_ALLOCS THEN s[i].size ELSE n
<1>1. pc[t] = "allocReuse" /\ live' = live \cup {Block(s[i].offset, k)}
  BY DEF AllocReuse, num_board_allocs
<1>2. Call(t)
  BY <1>1, Holder DEF IInv, CallInv
<1>3. /\ Quiet /\ n \in Nat /\ n > 0
      /\ i \in 1..Len(s) /\ ~s[i].used /\ s[i].size >= n
  BY <1>1, <1>2 DEF Call, Fits, num_board_allocs
<1>4. live = Held(s)
  BY <1>3 DEF Quiet
<1>5. Table(s, top) /\ Extents(s, Len(s), top) /\ Len(s) \in Nat
  BY TableFacts DEF IInv, TableInv
<1>6. s[i].offset \in Nat /\ s[i].size \in Nat /\ s[i].offset + s[i].size <= top
  BY <1>3, <1>5 DEF Extents
<1>7. top <= MemSize /\ top \in Nat
  BY <1>5 DEF Table, Extents
<1>8. k \in Nat /\ k > 0 /\ k <= s[i].size
  BY <1>3, <1>6
<1> HIDE DEF k
<1>9. s[i].offset + k <= MemSize
  BY <1>6, <1>7, <1>8, AllocAssumption
<1>10. ASSUME NEW j \in 1..Len(s), s[j].used
       PROVE  s[i].offset + k <= s[j].offset \/ s[j].offset + s[j].size <= s[i].offset
  <2>1. j # i
    BY <1>3, <1>10
  <2>2. s[j].offset \in Nat /\ s[j].size \in Nat
    BY <1>5 DEF Extents
  <2>3. CASE j < i
    BY <1>3, <1>5, <2>3 DEF Extents
  <2>4. CASE i < j
    <3>1. s[i].offset + s[i].size <= s[j].offset
      BY <1>3, <1>5, <2>4 DEF Extents
    <3> QED BY <1>6, <1>8, <2>2, <3>1, SMTT(60)
  <2> QED BY <1>3, <1>5, <2>1, <2>3, <2>4
<1>11. \A c \in live : Abstract!Disjoint(Block(s[i].offset, k), c)
  BY <1>4, <1>5, <1>6, <1>8, <1>10, BlocksDisjoint
<1> QED BY <1>1, <1>6, <1>8, <1>9, <1>11, AbstractAlloc

LEMMA ExtendImplements ==
    ASSUME IInv, NEW t \in Tasks, AllocExtend(t)
    PROVE  Abstract!Next
<1> DEFINE s == board_allocs
           n == local[t].size
           top == board_alloc_offset
<1>1. /\ pc[t] = "allocExtend" /\ (top + n) % Word <= MemSize
      /\ live' = live \cup {Block(top, n)}
  BY DEF AllocExtend, CanExtend
<1>2. Call(t)
  BY <1>1, Holder DEF IInv, CallInv
<1>3. Quiet /\ n \in Nat /\ n > 0 /\ n + MemSize < Word
  BY <1>1, <1>2 DEF Call
<1>4. live = Held(s)
  BY <1>3 DEF Quiet
<1>5. Table(s, top) /\ Extents(s, Len(s), top)
  BY TableFacts DEF IInv, TableInv
<1>6. top <= MemSize /\ top \in Nat
  BY <1>5 DEF Table, Extents
<1>7. top + n \in Nat /\ top + n < Word
  BY <1>3, <1>6, AllocAssumption
<1>8. top + n <= MemSize
  BY <1>1, <1>7, ModSmall
<1>9. \A j \in 1..Len(s) : s[j].offset + s[j].size <= top
  BY <1>5 DEF Extents
<1>10. \A c \in live : Abstract!Disjoint(Block(top, n), c)
  BY <1>3, <1>4, <1>5, <1>6, <1>9, BlocksDisjoint
<1> QED BY <1>1, <1>3, <1>6, <1>8, <1>10, AbstractAlloc

\* Blocks are told apart by their addresses: a call of FreeCardMem takes away
\* one block or none.
LEMMA FreeImplements ==
    ASSUME IInv, NEW t \in Tasks, NEW p \in Ptrs, FreeCall(t, p)
    PROVE  Abstract!Next \/ live' = live
<1> DEFINE s == board_allocs
           top == board_alloc_offset
<1>1. alloc_mutex = NoTask /\ live' = {b \in live : b.ptr # p}
  BY DEF FreeCall, Obtain
<1>2. live = Held(s)
  BY <1>1 DEF IInv, CallInv, Quiet
<1>3. Table(s, top) /\ Extents(s, Len(s), top) /\ Len(s) \in Nat
  BY TableFacts DEF IInv, TableInv
<1>4. CASE \A b \in live : b.ptr # p
  BY <1>1, <1>4
<1>5. CASE \E b \in live : b.ptr = p
  <2>1. PICK b \in live : b.ptr = p
    BY <1>5
  <2>2. PICK i \in 1..Len(s) : s[i].used /\ b = Block(s[i].offset, s[i].size)
    BY <1>2, HeldBy
  <2>3. b.ptr = s[i].offset /\ b.size = s[i].size
    BY <2>2 DEF Block
  <2>4. /\ s[i].offset \in Nat /\ s[i].size \in Nat /\ s[i].size > 0
        /\ s[i].offset + s[i].size <= top /\ top <= MemSize /\ top \in Nat
    BY <1>3 DEF Table, Extents
  <2>5. b \in Abstract!Extent
    <3>1. s[i].offset \in 0..MemSize /\ s[i].size \in 1..MemSize
      BY <2>4, AllocAssumption
    <3> QED BY <2>2, <3>1 DEF Block, Abstract!Extent
  <2>6. ASSUME NEW c \in live, c.ptr = p PROVE c = b
    <3>1. PICK j \in 1..Len(s) : s[j].used /\ c = Block(s[j].offset, s[j].size)
      BY <1>2, HeldBy
    <3>2. s[j].offset = s[i].offset
      BY <2>1, <2>3, <2>6, <3>1 DEF Block
    <3>3. j = i
      <4>1. CASE j < i
        BY <1>3, <3>2, <4>1 DEF Extents
      <4>2. CASE i < j
        BY <1>3, <3>2, <4>2 DEF Extents
      <4> QED BY <1>3, <4>1, <4>2
    <3> QED BY <2>2, <3>1, <3>3
  <2>7. live' = live \ {b}
    BY <1>1, <2>1, <2>6
  <2> QED BY <2>5, <2>7 DEF Abstract!Next, Abstract!Free
<1> QED BY <1>4, <1>5

LEMMA StepImplements ==
    ASSUME IInv, [Next]_vars
    PROVE  [Abstract!Next]_live
<1>1. CASE Next
  <2>1. PICK t \in Tasks :
           \/ \E size \in Requests : AllocCall(t, size)
           \/ AllocScan(t) \/ AllocReuse(t) \/ AllocExtend(t) \/ AllocFail(t)
           \/ \E p \in Ptrs : FreeCall(t, p)
           \/ FreeMark(t) \/ FreeCoalesce(t) \/ FreeUnknown(t)
    BY <1>1 DEF Next
  <2>2. CASE AllocReuse(t)
    BY <2>2, ReuseImplements
  <2>3. CASE AllocExtend(t)
    BY <2>3, ExtendImplements
  <2>4. CASE \E p \in Ptrs : FreeCall(t, p)
    BY <2>4, FreeImplements
  <2>5. CASE \/ \E size \in Requests : AllocCall(t, size)
             \/ AllocScan(t) \/ AllocFail(t)
             \/ FreeMark(t) \/ FreeCoalesce(t) \/ FreeUnknown(t)
    BY <2>5 DEF AllocCall, AllocScan, AllocFail, FreeMark, FreeCoalesce, FreeUnknown
  <2> QED BY <2>1, <2>2, <2>3, <2>4, <2>5
<1>2. CASE UNCHANGED vars
  BY <1>2 DEF vars
<1> QED BY <1>1, <1>2

\* AllocCardMem never hands out memory outside the board or memory that another
\* client holds, and FreeCardMem gives back exactly the block it is passed.
THEOREM AllocImplementsCardMem == NoWrap => (Spec => ImplementsCardMem)
<1> SUFFICES ASSUME NoWrap PROVE Spec => ImplementsCardMem
  OBVIOUS
<1>1. Init => Abstract!Init
  BY DEF Init, Abstract!Init
<1>2. IInv /\ [Next]_vars => [Abstract!Next]_live
  BY StepImplements
<1> QED BY <1>1, <1>2, InitIInv, NextIInv, PTL
       DEF Spec, ImplementsCardMem, Abstract!Spec
-----------------------------------------------------------------------------
(* A refused request could not have been satisfied.                        *)

\* While a task is about to extend the table no hole is large enough.
NothingFits ==
    \A t \in Tasks : pc[t] = "allocExtend" =>
        \A i \in 1..Len(board_allocs) : ~Fits(board_allocs, i, local[t].size)

\* The scan has found that, and the mutex keeps it so.
LEMMA NothingFitsStays ==
    ASSUME IInv, NothingFits, Next
    PROVE  NothingFits'
<1>1. PICK t \in Tasks :
         \/ \E size \in Requests : AllocCall(t, size)
         \/ AllocScan(t) \/ AllocReuse(t) \/ AllocExtend(t) \/ AllocFail(t)
         \/ \E p \in Ptrs : FreeCall(t, p)
         \/ FreeMark(t) \/ FreeCoalesce(t) \/ FreeUnknown(t)
  BY DEF Next
<1>2. /\ pc \in [Tasks -> Labels] /\ local \in [Tasks -> Locals] /\ MutexInv
      /\ Len(board_allocs) \in Nat
  BY TableFacts DEF IInv, TypeOK, TableInv
<1>3. \A l : Goto(t, l) => pc' \in [Tasks -> {l} \cup Labels] /\ pc'[t] = l
  BY <1>2 DEF Goto
<1> SUFFICES ASSUME NEW u \in Tasks, pc'[u] = "allocExtend"
             PROVE  \A i \in 1..Len(board_allocs') :
                       ~Fits(board_allocs', i, local'[u].size)
  BY DEF NothingFits
<1>4. CASE u # t
  <2>1. pc[u] = "allocExtend"
    BY <1>1, <1>2, <1>4 DEF AllocCall, AllocScan, AllocReuse, AllocExtend,
       AllocFail, FreeCall, FreeMark, FreeCoalesce, FreeUnknown, Goto
  <2>2. alloc_mutex = u
    BY <1>2, <2>1, Holder
  <2>3. pc[t] = "idle"
    BY <1>2, <1>4, <2>2, Holder
  <2>4. alloc_mutex = NoTask
    BY <1>1, <2>3 DEF AllocCall, AllocScan, AllocReuse, AllocExtend,
       AllocFail, FreeCall, FreeMark, FreeCoalesce, FreeUnknown, Obtain
  <2> QED BY <2>2, <2>4, AllocAssumption
<1>5. CASE u = t
  <2>1. AllocScan(t)
    BY <1>1, <1>2, <1>5 DEF AllocCall, AllocReuse, AllocExtend,
       AllocFail, FreeCall, FreeMark, FreeCoalesce, FreeUnknown, Goto
  <2>2. FirstFit(board_allocs, local[t].size) = 0
    BY <1>2, <1>5, <2>1 DEF AllocScan, Goto
  <2>3. \A j \in 1..Len(board_allocs) : ~Fits(board_allocs, j, local[t].size)
    BY <1>2, <2>2, FirstFitResult
  <2>4. /\ board_allocs' = board_allocs
        /\ local'[t] = Local(local[t].size, FirstFit(board_allocs, local[t].size), 0)
    BY <1>2, <2>1 DEF AllocScan
  <2>5. local'[t].size = local[t].size
    BY <2>4 DEF Local
  <2> QED BY <1>5, <2>3, <2>4, <2>5
<1> QED BY <1>4, <1>5

\* Every byte below the top is in a slot: the first that ends after it.
LEMMA Covered ==
    ASSUME NEW s, NEW top, Table(s, top), NEW o \in Nat, o < top
    PROVE  \E j \in 1..Len(s) : s[j].offset <= o /\ o < s[j].offset + s[j].size
<1> DEFINE n == Len(s)
           T == {j \in 1..n : o < s[j].offset + s[j].size}
<1>1. Extents(s, n, top) /\ n \in Nat
  BY TableFacts
<1> HIDE DEF n
<1>2. n \in T
  BY <1>1 DEF Extents
<1>3. PICK j \in T : \A y \in T : j <= y
  <2>1. T \subseteq Nat
    OBVIOUS
  <2> QED BY <1>2, <2>1, LeastExists
<1>4. j \in 1..n /\ o < s[j].offset + s[j].size
  BY <1>3
<1>5. s[j].offset <= o
  <2>1. CASE j = 1
    BY <1>1, <1>4, <2>1 DEF Extents
  <2>2. CASE j # 1
    <3>1. j - 1 \in 1..n /\ j - 1 \notin T
      BY <1>1, <1>3, <1>4, <2>2
    <3>2. s[j].offset = s[j-1].offset + s[j-1].size
      BY <1>1, <1>4, <2>2 DEF Extents
    <3>3. s[j-1].offset + s[j-1].size \in Nat
      BY <1>1, <3>1 DEF Extents
    <3> QED BY <3>1, <3>2, <3>3
  <2> QED BY <2>1, <2>2
<1> QED BY <1>4, <1>5 DEF n

\* A refused request that is not refused for want of a table entry: where a
\* gap would have to be there is a block, or a hole that is too small with a
\* block behind it.
LEMMA RefusedNoGap ==
    ASSUME IInv, NothingFits, NEW t \in Tasks, AllocFail(t),
           num_board_allocs < MAX_BOARD_ALLOCS,
           NEW o \in 0..MemSize - local[t].size
    PROVE  \E b \in live : b.ptr < o + local[t].size /\ o < b.ptr + b.size
<1> DEFINE s == board_allocs
           n == Len(s)
           top == board_alloc_offset
           size == local[t].size
<1>1. pc[t] = "allocExtend" /\ ~CanExtend(size)
  BY DEF AllocFail
<1>2. alloc_mutex = t
  BY <1>1, Holder DEF IInv
<1>3. /\ HolesApart(s, n, 0) /\ live = Held(s)
      /\ size \in Nat /\ size > 0 /\ size + MemSize < Word
  BY <1>1, <1>2 DEF IInv, CallInv, Call, Quiet, num_board_allocs
<1>4. \A i \in 1..n : ~Fits(s, i, size)
  BY <1>1 DEF NothingFits
<1>5. Table(s, top) /\ Extents(s, n, top) /\ n \in Nat /\ s \in Seq(Slots)
  BY TableFacts DEF IInv, TableInv
<1>6. top \in Nat /\ top <= MemSize /\ MemSize \in Nat /\ Word \in Nat
  BY <1>5, AllocAssumption DEF Table, Extents
<1>7. (top + size) % Word > MemSize
  BY <1>1, <1>3, <1>6, AllocAssumption, SMTT(60) DEF CanExtend
<1> HIDE DEF s, n, top, size
<1>8. top + size > MemSize
  <2>1. top + size \in Nat /\ top + size < Word
    BY <1>3, <1>6
  <2> QED BY <1>7, <2>1, ModSmall
<1>9. o \in Nat /\ o + size <= MemSize
  BY <1>3, <1>6 DEF size
<1>10. PICK j \in 1..n : s[j].offset <= o /\ o < s[j].offset + s[j].size
  <2>1. o < top
    BY <1>3, <1>6, <1>8, <1>9
  <2> QED BY <1>5, <1>9, <2>1, Covered DEF n
<1>11. \A k \in 1..n : s[k].used => Block(s[k].offset, s[k].size) \in live
  BY <1>3, HeldBy DEF n
<1>12. \A k \in 1..n : /\ Block(s[k].offset, s[k].size).ptr = s[k].offset
                       /\ Block(s[k].offset, s[k].size).size = s[k].size
  BY DEF Block
<1>13. \A k \in 1..n : s[k].offset \in Nat /\ s[k].size \in Nat /\ s[k].size > 0
  BY <1>5 DEF Extents
<1>14. CASE s[j].used
  BY <1>3, <1>9, <1>10, <1>11, <1>12, <1>13, <1>14 DEF size
<1>15. CASE ~s[j].used
  <2>1. s[j].size < size
    BY <1>3, <1>4, <1>13, <1>15 DEF Fits
  <2>2. j # n /\ j + 1 \in 1..n /\ s[j+1].used
    BY <1>3, <1>5, <1>15 DEF HolesApart
  <2>3. s[j+1].offset = s[j].offset + s[j].size
    BY <1>5, <2>2 DEF Extents
  <2>4. /\ s[j+1].offset < o + size
        /\ o < s[j+1].offset + s[j+1].size
    BY <1>3, <1>9, <1>10, <1>13, <2>1, <2>2, <2>3
  <2> QED BY <1>11, <1>12, <2>2, <2>4 DEF size
<1> QED BY <1>14, <1>15

\* Unless the table is full, AllocCardMem refuses a request only if no gap
\* between the blocks clients hold is large enough for it.
THEOREM AllocRefusalJustified == NoWrap => (Spec => RefusalJustified)
<1> SUFFICES ASSUME NoWrap PROVE Spec => RefusalJustified
  OBVIOUS
<1> DEFINE Justified ==
        \A t \in Tasks :
           AllocFail(t) /\ num_board_allocs < MAX_BOARD_ALLOCS =>
              \A o \in 0..MemSize - local[t].size :
                 \E b \in live : /\ b.ptr < o + local[t].size
                                 /\ o < b.ptr + b.size
<1>1. Init => NothingFits
  BY DEF Init, NothingFits
<1>2. IInv /\ NothingFits /\ [Next]_vars => NothingFits'
  <2>1. IInv /\ NothingFits /\ Next => NothingFits'
    BY NothingFitsStays
  <2>2. NothingFits /\ UNCHANGED vars => NothingFits'
    BY DEF NothingFits, vars
  <2> QED BY <2>1, <2>2
<1>3. IInv /\ NothingFits /\ [Next]_vars => [Justified]_vars
  BY RefusedNoGap
<1> QED BY <1>1, <1>2, <1>3, InitIInv, NextIInv, PTL DEF Spec, RefusalJustified
=============================================================================
