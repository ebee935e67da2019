-------------------------- MODULE IngestionProofs --------------------------
(***************************************************************************)
(* Proofs about Document, Ingestor and Ingestion, for any numbers of       *)
(* threads, documents and Adds.  A chunk file is read as it was written,   *)
(* up to where it is cut.  Ingestor implements DocumentSet, its map and    *)
(* its active bits agree, and the count bounds what is served.  Ingestion  *)
(* implements Ingestor; what is served is what the chunk files have; each  *)
(* document of a manifest gets one column; and a walk beside it is         *)
(* complete in its first slice, and stops nowhere twice.                   *)
(***************************************************************************)
EXTENDS Ingestion, WellFoundedInduction, SequenceTheorems, FiniteSetTheorems, TLAPS

-----------------------------------------------------------------------------
(* The chunks.  A reader makes of a chunk file, cut off wherever it may    *)
(* be, the first of the documents that were written, each with the n-grams *)
(* of its streams.  Reading, closing a stream and flattening are recursive *)
(* functions; what is proved of them goes by induction over the length of  *)
(* what they are given, as a set of the lengths for which it holds.        *)

LEMMA Induction ==
  ASSUME NEW S, 0 \in S, \A n \in Nat : n \in S => n + 1 \in S
  PROVE  \A n \in Nat : n \in S
<1> DEFINE T == Nat \ S
<1>1. SUFFICES ASSUME T # {} PROVE FALSE
  OBVIOUS
<1>2. PICK x \in T : \A y \in T : <<y, x>> \notin OpToRel(<, Nat)
  <2> HIDE DEF T
  <2>1. T \subseteq Nat
    BY DEF T
  <2>2. QED
    BY <1>1, <2>1, NatLessThanWellFounded, WFMin
<1>3. x \in Nat /\ x # 0
  OBVIOUS
<1>4. x - 1 \in Nat /\ <<x - 1, x>> \in OpToRel(<, Nat)
  BY <1>3 DEF OpToRel
<1>5. x - 1 \in S
  BY <1>2, <1>4
<1>6. (x - 1) + 1 \in S
  BY <1>4, <1>5
<1>7. QED
  BY <1>3, <1>6

(* A chunk is read item by item.                                           *)
Reading(g, r, items, n) ==
  g = [k \in 0 .. n |-> IF k = 0 THEN r ELSE ReadItem(g[k - 1], items[k])]

LEMMA ReadingExists ==
  ASSUME NEW r, NEW items
  PROVE  \A n \in Nat : \E g : Reading(g, r, items, n)
<1> DEFINE S == {n \in Nat : \E g : Reading(g, r, items, n)}
<1>1. 0 \in S
  <2> DEFINE g == [k \in 0 .. 0 |-> r]
  <2>1. Reading(g, r, items, 0)
    BY DEF Reading
  <2>2. QED
    BY <2>1
<1>2. ASSUME NEW n \in Nat, n \in S PROVE n + 1 \in S
  <2>1. PICK g : Reading(g, r, items, n)
    BY <1>2
  <2> DEFINE h == [k \in 0 .. n + 1 |->
                     IF k = n + 1 THEN ReadItem(g[n], items[n + 1]) ELSE g[k]]
  <2>2. ASSUME NEW k \in 0 .. n + 1
        PROVE  h[k] = IF k = 0 THEN r ELSE ReadItem(h[k - 1], items[k])
    <3>1. CASE k = n + 1
      <4>1. h[k - 1] = g[n] /\ k # 0
        BY <3>1
      <4>2. QED
        BY <3>1, <4>1
    <3>2. CASE k \in 0 .. n
      <4>1. h[k] = g[k] /\ (k # 0 => h[k - 1] = g[k - 1])
        BY <3>2
      <4>2. QED
        BY <2>1, <3>2, <4>1 DEF Reading
    <3>3. QED
      BY <3>1, <3>2
  <2>3. Reading(h, r, items, n + 1)
    BY <2>2 DEF Reading
  <2>4. QED
    BY <2>3
<1>3. QED
  <2> HIDE DEF S
  <2>1. \A n \in Nat : n \in S
    BY <1>1, <1>2, Induction
  <2>2. QED
    BY <2>1 DEF S

Steps(g, r, items) ==
  /\ g[0] = r
  /\ \A k \in 1 .. Len(items) : g[k] = ReadItem(g[k - 1], items[k])
  /\ ReadItems(r, items) = g[Len(items)]

LEMMA ReadSteps ==
  ASSUME NEW r, NEW items, Len(items) \in Nat
  PROVE  \E g : Steps(g, r, items)
<1> DEFINE g == CHOOSE f : Reading(f, r, items, Len(items))
<1>1. Reading(g, r, items, Len(items))
  BY ReadingExists, Zenon
<1>2. ReadItems(r, items) = g[Len(items)]
  BY Zenon DEF ReadItems, Reading
<1> HIDE DEF g
<1>3. g[0] = r /\ \A k \in 1 .. Len(items) : g[k] = ReadItem(g[k - 1], items[k])
  BY <1>1 DEF Reading
<1>4. Steps(g, r, items)
  BY <1>2, <1>3 DEF Steps
<1>5. QED
  BY <1>4

LEMMA ReadUnique ==
  ASSUME NEW r, NEW items, Len(items) \in Nat, NEW h, h[0] = r,
         \A k \in 1 .. Len(items) : h[k] = ReadItem(h[k - 1], items[k])
  PROVE  ReadItems(r, items) = h[Len(items)]
<1>1. PICK g : Steps(g, r, items)
  BY ReadSteps
<1> DEFINE S == {n \in Nat : n <= Len(items) => g[n] = h[n]}
<1>2. 0 \in S
  BY <1>1 DEF Steps
<1>3. ASSUME NEW n \in Nat, n \in S PROVE n + 1 \in S
  <2>1. SUFFICES ASSUME n + 1 <= Len(items) PROVE g[n + 1] = h[n + 1]
    OBVIOUS
  <2>2. n + 1 \in 1 .. Len(items) /\ (n + 1) - 1 = n /\ g[n] = h[n]
    BY <1>3, <2>1
  <2>3. QED
    BY <1>1, <2>2 DEF Steps
<1>4. Len(items) \in S
  <2> HIDE DEF S
  <2>1. QED
    BY <1>2, <1>3, Induction
<1>5. QED
  BY <1>1, <1>4 DEF Steps

(* What follows is read from where the reader stands.                      *)
LEMMA ReadConcat ==
  ASSUME NEW Item, NEW s \in Seq(Item), NEW t \in Seq(Item), NEW r
  PROVE  ReadItems(r, s \o t) = ReadItems(ReadItems(r, s), t)
<1>0. PICK items : items = s \o t
  OBVIOUS
<1>1. /\ Len(s) \in Nat /\ Len(t) \in Nat /\ Len(items) = Len(s) + Len(t)
      /\ Len(items) \in Nat
      /\ \A i \in 1 .. Len(s) + Len(t) :
           items[i] = IF i <= Len(s) THEN s[i] ELSE t[i - Len(s)]
  BY <1>0, ConcatProperties, LenProperties
<1>2. PICK g : Steps(g, r, items)
  BY <1>1, ReadSteps
<1>3. ReadItems(r, s) = g[Len(s)]
  <2>1. \A k \in 1 .. Len(s) : g[k] = ReadItem(g[k - 1], s[k])
    BY <1>1, <1>2 DEF Steps
  <2>2. QED
    BY <1>1, <1>2, <2>1, ReadUnique DEF Steps
<1>4. ReadItems(g[Len(s)], t) = g[Len(s) + Len(t)]
  <2> DEFINE h == [k \in 0 .. Len(t) |-> g[Len(s) + k]]
  <2>1. h[0] = g[Len(s)] /\ h[Len(t)] = g[Len(s) + Len(t)]
    BY <1>1
  <2>2. ASSUME NEW k \in 1 .. Len(t) PROVE h[k] = ReadItem(h[k - 1], t[k])
    <3>1. Len(s) + k \in 1 .. Len(items) /\ ~(Len(s) + k <= Len(s))
          /\ (Len(s) + k) - Len(s) = k /\ (Len(s) + k) - 1 = Len(s) + (k - 1)
      BY <1>1
    <3>2. items[Len(s) + k] = t[k]
      BY <1>1, <3>1
    <3>3. h[k] = g[Len(s) + k] /\ h[k - 1] = g[Len(s) + (k - 1)]
      BY <1>1
    <3>4. QED
      BY <1>2, <3>1, <3>2, <3>3 DEF Steps
  <2> HIDE DEF h
  <2>3. QED
    BY <1>1, <2>1, <2>2, ReadUnique
<1>5. QED
  BY <1>0, <1>1, <1>2, <1>3, <1>4 DEF Steps

LEMMA ReadNone == ASSUME NEW r PROVE ReadItems(r, << >>) = r
<1>1. PICK items : items = << >>
  OBVIOUS
<1>2. Len(items) = 0 /\ Len(items) \in Nat
  BY <1>1
<1>3. PICK g : Steps(g, r, items)
  BY <1>2, ReadSteps
<1>4. g[Len(items)] = r /\ ReadItems(r, items) = g[Len(items)]
  BY <1>2, <1>3 DEF Steps
<1>5. ReadItems(r, items) = r
  BY <1>4
<1>6. QED
  BY <1>1, <1>5

LEMMA ReadOne == ASSUME NEW r, NEW x PROVE ReadItems(r, <<x>>) = ReadItem(r, x)
<1>1. PICK items : items = <<x>>
  OBVIOUS
<1>2. Len(items) = 1 /\ Len(items) \in Nat /\ items[1] = x
  BY <1>1
<1>3. PICK g : Steps(g, r, items)
  BY <1>2, ReadSteps
<1>4. g[1] = ReadItem(g[0], x)
  BY <1>2, <1>3 DEF Steps
<1>5. QED
  BY <1>1, <1>2, <1>3, <1>4 DEF Steps

-----------------------------------------------------------------------------
(* The types of what is read, with U for DocIds and words alike.           *)
Slots == 0 .. c_slotCount - 1
Buffers(U) == [slots : [Slots -> U], m_head : Slots, m_tail : Slots]
Docs(U) == [m_docId : U, m_postings : SUBSET Seq(U), m_ringBuffer : Buffers(U)]
Readers(U) ==
  [inside : {"file", "document", "stream", "end of file", "error"},
   document : Docs(U), documents : Seq(Docs(U))]
FileItems(U) == {End} \cup ({"id", "stream", "word"} \X U)

(* The buffer has the words k+1 .. m of w.                                 *)
Holds(b, w, k, m) ==
  GetCount(b) = m - k /\ \A i \in 1 .. m - k : ItemAt(b, i - 1) = w[k + i]

LEMMA SlotCount == c_slotCount \in Nat \ {0, 1} /\ m_maxGramSize \in 1 .. c_slotCount - 1
BY DocumentAssumption

LEMMA ResetHolds ==
  ASSUME NEW U, NEW b \in Buffers(U), NEW w
  PROVE  Reset(b) \in Buffers(U) /\ Holds(Reset(b), w, 0, 0)
<1>1. c_slotCount \in Nat \ {0, 1}
  BY SlotCount
<1>2. 0 \in Slots
  BY <1>1 DEF Slots
<1>3. Reset(b) \in Buffers(U) /\ Reset(b).m_head = 0 /\ Reset(b).m_tail = 0
  BY <1>2 DEF Buffers, Reset
<1>4. QED
  BY <1>3 DEF Holds, GetCount

LEMMA HeadAndTail ==
  ASSUME NEW U, NEW b \in Buffers(U)
  PROVE  /\ b.m_head \in Slots /\ b.m_tail \in Slots /\ b.slots \in [Slots -> U]
         /\ b.m_head \in 0 .. c_slotCount - 1 /\ b.m_tail \in 0 .. c_slotCount - 1
         /\ c_slotCount \in Nat \ {0, 1}
BY SlotCount DEF Buffers, Slots

Wrap(x) == x % c_slotCount

LEMMA Wrapped ==
  ASSUME NEW x \in 0 .. 2 * c_slotCount - 1
  PROVE  Wrap(x) = IF x < c_slotCount THEN x ELSE x - c_slotCount
<1>1. PICK N \in Nat \ {0} : N = c_slotCount
  BY SlotCount
<1>2. CASE x < N
  BY <1>1, <1>2 DEF Wrap
<1>3. CASE ~(x < N)
  BY <1>1, <1>3 DEF Wrap
<1>4. QED
  BY <1>1, <1>2, <1>3

LEMMA CountRange ==
  ASSUME NEW U, NEW b \in Buffers(U)
  PROVE  /\ GetCount(b) \in 0 .. c_slotCount - 1
         /\ IsFull(b) <=> GetCount(b) = c_slotCount - 1
<1>1. /\ b.m_head \in 0 .. c_slotCount - 1 /\ b.m_tail \in 0 .. c_slotCount - 1
      /\ c_slotCount \in Nat \ {0, 1} /\ b.m_tail + 1 \in 0 .. 2 * c_slotCount - 1
  BY HeadAndTail
<1>2. Wrap(b.m_tail + 1) =
        IF b.m_tail + 1 < c_slotCount THEN b.m_tail + 1 ELSE b.m_tail + 1 - c_slotCount
  BY <1>1, Wrapped
<1>3. IsFull(b) <=> Wrap(b.m_tail + 1) = b.m_head
  BY DEF IsFull, Wrap
<1>4. QED
  BY <1>1, <1>2, <1>3 DEF GetCount

(* Where the i-th of the words is.                                         *)
Slot(b, i) ==
  IF b.m_head + i < c_slotCount THEN b.m_head + i ELSE b.m_head + i - c_slotCount

LEMMA SlotOf ==
  ASSUME NEW U, NEW b \in Buffers(U), NEW i \in 0 .. c_slotCount - 1
  PROVE  ItemAt(b, i) = b.slots[Slot(b, i)] /\ Slot(b, i) \in Slots
<1>1. b.m_head \in 0 .. c_slotCount - 1 /\ c_slotCount \in Nat \ {0, 1}
  BY HeadAndTail
<1>2. Wrap(b.m_head + i) = Slot(b, i)
  <2>1. b.m_head + i \in 0 .. 2 * c_slotCount - 1
    BY <1>1
  <2>2. QED
    BY <1>1, <2>1, Wrapped DEF Slot
<1>3. ItemAt(b, i) = b.slots[Wrap(b.m_head + i)]
  BY DEF ItemAt, Wrap
<1>4. Slot(b, i) \in Slots
  BY <1>1 DEF Slot, Slots
<1>5. QED
  BY <1>2, <1>3, <1>4

LEMMA PushHolds ==
  ASSUME NEW U, NEW b \in Buffers(U), NEW w, NEW k \in Nat, NEW m \in Nat, k <= m,
         Holds(b, w, k, m), ~IsFull(b), NEW x \in U, x = w[m + 1]
  PROVE  PushBack(b, x) \in Buffers(U) /\ Holds(PushBack(b, x), w, k, m + 1)
<1>1. PICK c : c = PushBack(b, x)
  OBVIOUS
<1>2. /\ b.m_head \in 0 .. c_slotCount - 1 /\ b.m_tail \in 0 .. c_slotCount - 1
      /\ c_slotCount \in Nat \ {0, 1}
  BY HeadAndTail
<1>3. PICK t : t = Wrap(b.m_tail + 1)
  OBVIOUS
<1>4. t = (IF b.m_tail + 1 < c_slotCount THEN b.m_tail + 1 ELSE 0) /\ t \in Slots
  <2>1. b.m_tail + 1 \in 0 .. 2 * c_slotCount - 1
    BY <1>2
  <2>2. t = IF b.m_tail + 1 < c_slotCount THEN b.m_tail + 1
            ELSE b.m_tail + 1 - c_slotCount
    BY <1>2, <1>3, <2>1, Wrapped
  <2>3. QED
    BY <1>2, <2>2 DEF Slots
<1>5. /\ c.m_head = b.m_head /\ c.m_tail = t
      /\ c.slots = [b.slots EXCEPT ![b.m_tail] = x]
      /\ c \in Buffers(U)
  BY <1>1, <1>3, <1>4, HeadAndTail DEF PushBack, Buffers, Wrap
<1>6. GetCount(b) = m - k /\ GetCount(b) < c_slotCount - 1 /\ m - k \in Nat
  BY <1>2, CountRange DEF Holds
<1>7. GetCount(c) = (m + 1) - k
  <2>1. GetCount(c) = IF c.m_head <= c.m_tail THEN c.m_tail - c.m_head
                      ELSE c.m_tail + c_slotCount - c.m_head
    BY DEF GetCount
  <2>2. QED
    BY <1>2, <1>4, <1>5, <1>6, <2>1 DEF GetCount
<1>8. ASSUME NEW i \in 1 .. (m + 1) - k
      PROVE  ItemAt(c, i - 1) = w[k + i]
  <2>1. i - 1 \in 0 .. c_slotCount - 1
    BY <1>2, <1>6
  <2>2. PICK s : s = Slot(b, i - 1)
    OBVIOUS
  <2>3. ItemAt(c, i - 1) = c.slots[s] /\ ItemAt(b, i - 1) = b.slots[s] /\ s \in Slots
    <3>1. Slot(c, i - 1) = s
      BY <1>5, <2>2 DEF Slot
    <3>2. ItemAt(c, i - 1) = c.slots[Slot(c, i - 1)]
      BY <1>5, <2>1, SlotOf
    <3>3. ItemAt(b, i - 1) = b.slots[s] /\ s \in Slots
      BY <2>1, <2>2, SlotOf
    <3>4. QED
      BY <3>1, <3>2, <3>3
  <2>4. CASE i = (m + 1) - k
    <3>1. s = b.m_tail
      BY <1>2, <1>6, <2>2, <2>4 DEF GetCount, Slot
    <3>2. k + i = m + 1
      BY <2>4
    <3>3. c.slots[s] = x
      BY <1>5, <3>1, HeadAndTail
    <3>4. QED
      BY <2>3, <3>2, <3>3
  <2>5. CASE i \in 1 .. m - k
    <3>1. s # b.m_tail
      BY <1>2, <1>6, <2>2, <2>5 DEF GetCount, Slot
    <3>2. c.slots[s] = b.slots[s]
      BY <1>5, <2>3, <3>1, HeadAndTail
    <3>3. QED
      BY <2>3, <2>5, <3>2 DEF Holds
  <2>6. QED
    BY <1>6, <2>4, <2>5
<1>9. QED
  BY <1>1, <1>5, <1>7, <1>8 DEF Holds

LEMMA PopHolds ==
  ASSUME NEW U, NEW b \in Buffers(U), NEW w, NEW k \in Nat, NEW m \in Nat, k < m,
         Holds(b, w, k, m)
  PROVE  PopFront(b) \in Buffers(U) /\ Holds(PopFront(b), w, k + 1, m)
<1>1. PICK c : c = PopFront(b)
  OBVIOUS
<1>2. /\ b.m_head \in 0 .. c_slotCount - 1 /\ b.m_tail \in 0 .. c_slotCount - 1
      /\ c_slotCount \in Nat \ {0, 1}
  BY HeadAndTail
<1>3. PICK h : h = Wrap(b.m_head + 1)
  OBVIOUS
<1>4. h = (IF b.m_head + 1 < c_slotCount THEN b.m_head + 1 ELSE 0) /\ h \in Slots
  <2>1. b.m_head + 1 \in 0 .. 2 * c_slotCount - 1
    BY <1>2
  <2>2. h = IF b.m_head + 1 < c_slotCount THEN b.m_head + 1
            ELSE b.m_head + 1 - c_slotCount
    BY <1>2, <1>3, <2>1, Wrapped
  <2>3. QED
    BY <1>2, <2>2 DEF Slots
<1>5. c.m_head = h /\ c.m_tail = b.m_tail /\ c.slots = b.slots /\ c \in Buffers(U)
  BY <1>1, <1>3, <1>4, HeadAndTail DEF PopFront, Buffers, Wrap
<1>6. GetCount(b) = m - k /\ GetCount(b) \in 0 .. c_slotCount - 1
  BY CountRange DEF Holds
<1>7. GetCount(c) = m - (k + 1)
  BY <1>2, <1>4, <1>5, <1>6 DEF GetCount
<1>8. ASSUME NEW i \in 1 .. m - (k + 1)
      PROVE  ItemAt(c, i - 1) = w[(k + 1) + i]
  <2>1. /\ i - 1 \in 0 .. c_slotCount - 1 /\ i \in 0 .. c_slotCount - 1
        /\ i + 1 \in 1 .. m - k /\ k + (i + 1) = (k + 1) + i /\ (i + 1) - 1 = i
    BY <1>2, <1>6
  <2>2. Slot(c, i - 1) = Slot(b, i)
    BY <1>2, <1>4, <1>5, <2>1 DEF Slot
  <2>3. ItemAt(c, i - 1) = ItemAt(b, i)
    BY <1>5, <2>1, <2>2, SlotOf
  <2>4. ItemAt(b, (i + 1) - 1) = w[k + (i + 1)]
    BY <2>1 DEF Holds
  <2>5. QED
    BY <2>1, <2>3, <2>4
<1>9. QED
  BY <1>1, <1>5, <1>7, <1>8 DEF Holds

-----------------------------------------------------------------------------
(* The types are kept.                                                     *)
LEMMA GramType ==
  ASSUME NEW U, NEW b \in Buffers(U), NEW n \in 1 .. GetCount(b)
  PROVE  [i \in 1 .. n |-> ItemAt(b, i - 1)] \in Seq(U)
<1>1. n \in Nat /\ n <= c_slotCount - 1 /\ c_slotCount \in Nat
  BY CountRange, SlotCount
<1>2. ASSUME NEW i \in 1 .. n PROVE ItemAt(b, i - 1) \in U
  <2>1. i - 1 \in 0 .. c_slotCount - 1
    BY <1>1
  <2>2. QED
    BY <2>1, SlotOf, HeadAndTail
<1>3. QED
  BY <1>1, <1>2, IsASeq

LEMMA ProcessFrontParts ==
  ASSUME NEW U, NEW d \in Docs(U)
  PROVE  /\ ProcessFront(d).m_docId = d.m_docId
         /\ ProcessFront(d).m_ringBuffer = PopFront(d.m_ringBuffer)
         /\ ProcessFront(d).m_postings = d.m_postings \cup
              {[i \in 1 .. n |-> ItemAt(d.m_ringBuffer, i - 1)] :
                 n \in 1 .. GetCount(d.m_ringBuffer)}
         /\ ProcessFront(d) \in Docs(U)
<1>1. PICK P : P = {[i \in 1 .. n |-> ItemAt(d.m_ringBuffer, i - 1)] :
                      n \in 1 .. GetCount(d.m_ringBuffer)}
  OBVIOUS
<1>2. PICK e : e = [d EXCEPT !.m_postings = @ \cup P]
  OBVIOUS
<1>3. ProcessNGrams(d) = e
  BY <1>1, <1>2 DEF ProcessNGrams
<1>4. d.m_ringBuffer \in Buffers(U) /\ d.m_postings \in SUBSET Seq(U)
  BY DEF Docs
<1>5. P \in SUBSET Seq(U)
  BY <1>1, <1>4, GramType
<1>6. PopFront(d.m_ringBuffer) \in Buffers(U)
  <2>1. (d.m_ringBuffer.m_head + 1) % c_slotCount \in Slots
    BY <1>4, HeadAndTail, SlotCount DEF Slots
  <2>2. QED
    BY <1>4, <2>1 DEF PopFront, Buffers
<1>7. e \in Docs(U) /\ e.m_docId = d.m_docId /\ e.m_postings = d.m_postings \cup P
      /\ e.m_ringBuffer = d.m_ringBuffer
  BY <1>2, <1>4, <1>5 DEF Docs
<1>8. PICK f : f = [e EXCEPT !.m_ringBuffer = PopFront(@)]
  OBVIOUS
<1>9. f \in Docs(U) /\ f.m_docId = e.m_docId /\ f.m_postings = e.m_postings
      /\ f.m_ringBuffer = PopFront(d.m_ringBuffer)
  BY <1>6, <1>7, <1>8 DEF Docs
<1>10. ProcessFront(d) = f
  BY <1>3, <1>8 DEF ProcessFront
<1>11. QED
  BY <1>1, <1>7, <1>9, <1>10

-----------------------------------------------------------------------------
(* The n-grams that begin with one of the first k words.                   *)
GramsAt(w, i) == {SubSeq(w, i, j) : j \in {j \in i .. Len(w) : j < i + m_maxGramSize}}
GramsUpTo(w, k) == UNION {GramsAt(w, i) : i \in 1 .. k}

LEMMA AllGrams ==
  ASSUME NEW U, NEW w \in Seq(U)
  PROVE  GramsUpTo(w, Len(w)) = {g \in Grams(w) : Len(g) <= m_maxGramSize}
<1>1. Len(w) \in Nat /\ m_maxGramSize \in Nat
  BY SlotCount
<1>2. ASSUME NEW i \in 1 .. Len(w), NEW j \in i .. Len(w)
      PROVE  Len(SubSeq(w, i, j)) <= m_maxGramSize <=> j < i + m_maxGramSize
  <2>1. Len(SubSeq(w, i, j)) = j - i + 1
    BY <1>1, <1>2, SubSeqProperties, ElementOfSeq
  <2>2. QED
    BY <1>1, <1>2, <2>1
<1>3. ASSUME NEW g \in GramsUpTo(w, Len(w)) PROVE g \in Grams(w) /\ Len(g) <= m_maxGramSize
  <2>1. PICK i \in 1 .. Len(w) : g \in GramsAt(w, i)
    BY <1>3 DEF GramsUpTo
  <2>2. PICK j \in i .. Len(w) : j < i + m_maxGramSize /\ g = SubSeq(w, i, j)
    BY <2>1 DEF GramsAt
  <2>3. g \in Grams(w)
    <3>1. g \in {SubSeq(w, i, n) : n \in i .. Len(w)}
      BY <2>2
    <3>2. QED
      BY <3>1 DEF Grams
  <2>4. QED
    BY <1>2, <2>2, <2>3
<1>4. ASSUME NEW g \in Grams(w), Len(g) <= m_maxGramSize PROVE g \in GramsUpTo(w, Len(w))
  <2>1. PICK i \in 1 .. Len(w) : \E j \in i .. Len(w) : g = SubSeq(w, i, j)
    BY <1>4 DEF Grams
  <2>2. PICK j \in i .. Len(w) : g = SubSeq(w, i, j)
    BY <2>1
  <2>3. j < i + m_maxGramSize
    BY <1>2, <1>4, <2>2
  <2>4. g \in GramsAt(w, i)
    BY <2>2, <2>3 DEF GramsAt
  <2>5. QED
    BY <2>4 DEF GramsUpTo
<1>5. QED
  BY <1>3, <1>4

LEMMA OneMoreStart ==
  ASSUME NEW w, NEW k \in Nat
  PROVE  GramsUpTo(w, k + 1) = GramsUpTo(w, k) \cup GramsAt(w, k + 1)
<1>1. 1 .. k + 1 = (1 .. k) \cup {k + 1}
  OBVIOUS
<1>2. QED
  BY <1>1 DEF GramsUpTo

(* Within a stream, after m of its words.                                  *)
InStream(d, U, docId, P, w, k, m) ==
  /\ d \in Docs(U) /\ d.m_docId = docId
  /\ k \in 0 .. m /\ Holds(d.m_ringBuffer, w, k, m)
  /\ d.m_postings = P \cup GramsUpTo(w, k)

LEMMA FrontHolds ==
  ASSUME NEW U, NEW d, NEW docId, NEW P, NEW w \in Seq(U), NEW k, NEW m \in 0 .. Len(w),
         InStream(d, U, docId, P, w, k, m), k < m, m - k <= m_maxGramSize,
         m = Len(w) \/ m - k = m_maxGramSize
  PROVE  InStream(ProcessFront(d), U, docId, P, w, k + 1, m)
<1>1. PICK b : b = d.m_ringBuffer
  OBVIOUS
<1>2. /\ b \in Buffers(U) /\ d \in Docs(U) /\ k \in Nat /\ m \in Nat
      /\ Len(w) \in Nat /\ m_maxGramSize \in Nat /\ Holds(b, w, k, m)
  BY <1>1, SlotCount DEF InStream, Docs
<1>3. PopFront(b) \in Buffers(U) /\ Holds(PopFront(b), w, k + 1, m)
  BY <1>2, PopHolds
<1>4. ASSUME NEW n \in 1 .. m - k
      PROVE  [i \in 1 .. n |-> ItemAt(b, i - 1)] = SubSeq(w, k + 1, k + n)
  <2>1. ASSUME NEW i \in 1 .. n PROVE ItemAt(b, i - 1) = w[(k + 1) + i - 1]
    BY <1>2, <2>1 DEF Holds
  <2>2. [i \in 1 .. n |-> ItemAt(b, i - 1)] \in Seq(U)
        /\ Len([i \in 1 .. n |-> ItemAt(b, i - 1)]) = n
    BY <1>2, GramType DEF Holds
  <2>3. /\ SubSeq(w, k + 1, k + n) \in Seq(U)
        /\ Len(SubSeq(w, k + 1, k + n)) = n
        /\ \A i \in 1 .. n : SubSeq(w, k + 1, k + n)[i] = w[(k + 1) + i - 1]
    <3>1. /\ k + 1 \in Int /\ k + n \in Int /\ k + 1 <= k + n
          /\ (k + n) - (k + 1) + 1 = n
          /\ \A i \in k + 1 .. k + n : w[i] \in U
      BY <1>2, ElementOfSeq
    <3>2. QED
      BY <3>1, SubSeqProperties
  <2>4. QED
    BY <2>1, <2>2, <2>3, SeqEqual
<1>5. {[i \in 1 .. n |-> ItemAt(b, i - 1)] : n \in 1 .. GetCount(b)} = GramsAt(w, k + 1)
  <2>1. GetCount(b) = m - k
    BY <1>2 DEF Holds
  <2>2. {[i \in 1 .. n |-> ItemAt(b, i - 1)] : n \in 1 .. m - k}
          = {SubSeq(w, k + 1, k + n) : n \in 1 .. m - k}
    BY <1>4
  <2>3. {j \in k + 1 .. Len(w) : j < k + 1 + m_maxGramSize} = k + 1 .. m
    BY <1>2
  <2>4. {SubSeq(w, k + 1, k + n) : n \in 1 .. m - k} = {SubSeq(w, k + 1, j) : j \in k + 1 .. m}
    <3>1. ASSUME NEW n \in 1 .. m - k PROVE k + n \in k + 1 .. m
      BY <1>2
    <3>2. ASSUME NEW j \in k + 1 .. m PROVE j - k \in 1 .. m - k /\ k + (j - k) = j
      BY <1>2
    <3>3. QED
      BY <3>1, <3>2
  <2>5. QED
    BY <2>1, <2>2, <2>3, <2>4 DEF GramsAt
<1>6. QED
  <2>1. /\ ProcessFront(d) \in Docs(U) /\ ProcessFront(d).m_docId = docId
        /\ ProcessFront(d).m_ringBuffer = PopFront(b)
        /\ ProcessFront(d).m_postings = d.m_postings \cup GramsAt(w, k + 1)
    BY <1>1, <1>2, <1>5, ProcessFrontParts DEF InStream
  <2>2. ProcessFront(d).m_postings = P \cup GramsUpTo(w, k + 1)
    BY <1>2, <2>1, OneMoreStart DEF InStream
  <2>3. k + 1 \in 0 .. m
    BY <1>2
  <2>4. QED
    BY <1>3, <2>1, <2>2, <2>3 DEF InStream

LEMMA AddTermHolds ==
  ASSUME NEW U, NEW d, NEW docId, NEW P, NEW w \in Seq(U), NEW k, NEW m \in 0 .. Len(w) - 1,
         InStream(d, U, docId, P, w, k, m), m - k < m_maxGramSize
  PROVE  /\ Fits(d)
         /\ \E l \in 0 .. m + 1 : InStream(AddTerm(d, w[m + 1]), U, docId, P, w, l, m + 1)
                                  /\ (m + 1) - l < m_maxGramSize
<1>1. PICK b : b = d.m_ringBuffer
  OBVIOUS
<1>2. /\ b \in Buffers(U) /\ d \in Docs(U) /\ k \in Nat /\ m \in Nat /\ k <= m
      /\ Len(w) \in Nat /\ m_maxGramSize \in 1 .. c_slotCount - 1 /\ c_slotCount \in Nat
      /\ Holds(b, w, k, m)
  BY <1>1, SlotCount DEF InStream, Docs
<1>3. PICK x : x = w[m + 1]
  OBVIOUS
<1>4. x \in U /\ m + 1 \in 1 .. Len(w)
  BY <1>2, <1>3, ElementOfSeq
<1>5. ~IsFull(b)
  <2>1. GetCount(b) = m - k
    BY <1>2 DEF Holds
  <2>2. QED
    BY <1>2, <2>1, CountRange
<1>6. PushBack(b, x) \in Buffers(U) /\ Holds(PushBack(b, x), w, k, m + 1)
  BY <1>2, <1>3, <1>4, <1>5, PushHolds
<1>7. PICK e : e = [d EXCEPT !.m_ringBuffer = PushBack(@, x)]
  OBVIOUS
<1>8. /\ e \in Docs(U) /\ e.m_docId = d.m_docId /\ e.m_postings = d.m_postings
      /\ e.m_ringBuffer = PushBack(b, x)
  BY <1>1, <1>2, <1>6, <1>7 DEF Docs
<1>9. InStream(e, U, docId, P, w, k, m + 1) /\ GetCount(e.m_ringBuffer) = (m + 1) - k
  BY <1>2, <1>6, <1>8 DEF InStream, Holds
<1>10. AddTerm(d, x) = IF GetCount(e.m_ringBuffer) = m_maxGramSize THEN ProcessFront(e) ELSE e
  BY <1>7 DEF AddTerm
<1>11. CASE (m + 1) - k = m_maxGramSize
  <2>0. m + 1 \in 0 .. Len(w) /\ k < m + 1 /\ (m + 1) - k <= m_maxGramSize
    BY <1>2, <1>4, <1>11
  <2>1. InStream(ProcessFront(e), U, docId, P, w, k + 1, m + 1)
    BY <1>9, <1>11, <2>0, FrontHolds
  <2>2. k + 1 \in 0 .. m + 1 /\ (m + 1) - (k + 1) < m_maxGramSize
    BY <1>2, <1>11
  <2>3. QED
    BY <1>1, <1>3, <1>5, <1>9, <1>10, <1>11, <2>1, <2>2 DEF Fits
<1>12. CASE (m + 1) - k # m_maxGramSize
  <2>1. k \in 0 .. m + 1 /\ (m + 1) - k < m_maxGramSize
    BY <1>2, <1>12
  <2>2. QED
    BY <1>1, <1>3, <1>5, <1>9, <1>10, <1>12, <2>1 DEF Fits
<1>13. QED
  BY <1>11, <1>12

-----------------------------------------------------------------------------
(* The end of a stream: what is left in the buffer is taken out.           *)
Purging(g, d, n) == g = [k \in 0 .. n |-> IF k = 0 THEN d ELSE ProcessFront(g[k - 1])]

LEMMA PurgingExists ==
  ASSUME NEW d
  PROVE  \A n \in Nat : \E g : Purging(g, d, n)
<1> DEFINE S == {n \in Nat : \E g : Purging(g, d, n)}
<1>1. 0 \in S
  <2> DEFINE g == [k \in 0 .. 0 |-> d]
  <2>1. Purging(g, d, 0)
    BY DEF Purging
  <2>2. QED
    BY <2>1
<1>2. ASSUME NEW n \in Nat, n \in S PROVE n + 1 \in S
  <2>1. PICK g : Purging(g, d, n)
    BY <1>2
  <2> DEFINE h == [k \in 0 .. n + 1 |-> IF k = n + 1 THEN ProcessFront(g[n]) ELSE g[k]]
  <2>2. ASSUME NEW k \in 0 .. n + 1
        PROVE  h[k] = IF k = 0 THEN d ELSE ProcessFront(h[k - 1])
    <3>1. CASE k = n + 1
      <4>1. h[k - 1] = g[n] /\ k # 0
        BY <3>1
      <4>2. QED
        BY <3>1, <4>1
    <3>2. CASE k \in 0 .. n
      <4>1. h[k] = g[k] /\ (k # 0 => h[k - 1] = g[k - 1])
        BY <3>2
      <4>2. QED
        BY <2>1, <3>2, <4>1 DEF Purging
    <3>3. QED
      BY <3>1, <3>2
  <2>3. Purging(h, d, n + 1)
    BY <2>2 DEF Purging
  <2>4. QED
    BY <2>3
<1>3. QED
  <2> HIDE DEF S
  <2>1. \A n \in Nat : n \in S
    BY <1>1, <1>2, Induction
  <2>2. QED
    BY <2>1 DEF S

LEMMA CloseSteps ==
  ASSUME NEW d, GetCount(d.m_ringBuffer) \in Nat
  PROVE  \E g : /\ g[0] = d
                /\ \A k \in 1 .. GetCount(d.m_ringBuffer) : g[k] = ProcessFront(g[k - 1])
                /\ CloseStream(d) = g[GetCount(d.m_ringBuffer)]
<1> DEFINE g == CHOOSE f : Purging(f, d, GetCount(d.m_ringBuffer))
<1>1. Purging(g, d, GetCount(d.m_ringBuffer))
  BY PurgingExists, Zenon
<1>2. CloseStream(d) = g[GetCount(d.m_ringBuffer)]
  BY Zenon DEF CloseStream, Purging
<1> HIDE DEF g
<1>3. g[0] = d /\ \A k \in 1 .. GetCount(d.m_ringBuffer) : g[k] = ProcessFront(g[k - 1])
  BY <1>1 DEF Purging
<1>4. QED
  BY <1>2, <1>3

LEMMA CloseHolds ==
  ASSUME NEW U, NEW d, NEW docId, NEW P, NEW w \in Seq(U), NEW k,
         InStream(d, U, docId, P, w, k, Len(w)), Len(w) - k < m_maxGramSize
  PROVE  InStream(CloseStream(d), U, docId, P, w, Len(w), Len(w))
<1>1. /\ Len(w) \in Nat /\ k \in 0 .. Len(w) /\ m_maxGramSize \in Nat
      /\ GetCount(d.m_ringBuffer) = Len(w) - k
  BY SlotCount, LenProperties DEF InStream, Holds
<1>2. PICK c \in Nat : c = Len(w) - k
  BY <1>1
<1>3. PICK g : /\ g[0] = d
               /\ \A n \in 1 .. c : g[n] = ProcessFront(g[n - 1])
               /\ CloseStream(d) = g[c]
  BY <1>1, <1>2, CloseSteps
<1> DEFINE S == {n \in Nat : n <= c => InStream(g[n], U, docId, P, w, k + n, Len(w))}
<1>4. 0 \in S
  BY <1>1, <1>3
<1>5. ASSUME NEW n \in Nat, n \in S PROVE n + 1 \in S
  <2>1. SUFFICES ASSUME n + 1 <= c
                 PROVE  InStream(g[n + 1], U, docId, P, w, k + (n + 1), Len(w))
    OBVIOUS
  <2>2. InStream(g[n], U, docId, P, w, k + n, Len(w)) /\ g[n + 1] = ProcessFront(g[n])
    BY <1>3, <1>5, <2>1
  <2>3. /\ k + n < Len(w) /\ Len(w) - (k + n) <= m_maxGramSize /\ Len(w) \in 0 .. Len(w)
        /\ (k + n) + 1 = k + (n + 1)
    BY <1>1, <1>2, <2>1
  <2>4. InStream(ProcessFront(g[n]), U, docId, P, w, (k + n) + 1, Len(w))
    BY <2>2, <2>3, FrontHolds
  <2>5. QED
    BY <2>2, <2>3, <2>4
<1>6. c \in S
  <2> HIDE DEF S
  <2>1. QED
    BY <1>2, <1>4, <1>5, Induction
<1>7. k + c = Len(w)
  BY <1>1, <1>2
<1>8. QED
  BY <1>3, <1>6, <1>7

-----------------------------------------------------------------------------
(* The items, by where they come.                                          *)
LEMMA NotTheEnd == ASSUME NEW tag, NEW x PROVE <<tag, x>> # End
<1>1. Len(<<tag, x>>) = 2 /\ Len(End) = 1
  BY DEF End
<1>2. QED
  BY <1>1

LEMMA ReadAWord ==
  ASSUME NEW s, NEW x, s.inside = "stream", Fits(s.document)
  PROVE  ReadItem(s, <<"word", x>>) = [s EXCEPT !.document = AddTerm(s.document, x)]
<1>1. PICK item : item = <<"word", x>>
  OBVIOUS
<1>2. item # End /\ item[2] = x
  BY <1>1, NotTheEnd
<1>3. ReadItem(s, item) = ReadInStream(s, item)
  BY DEF ReadItem
<1>4. QED
  BY <1>1, <1>2, <1>3 DEF ReadInStream

(* The reader within a stream.                                             *)
WordItems(w) == [i \in 1 .. Len(w) |-> <<"word", w[i]>>]

AtWord(s, U, D, docId, P, w, m) ==
  /\ s \in Readers(U) /\ s.inside = "stream" /\ s.documents = D
  /\ \E k : InStream(s.document, U, docId, P, w, k, m) /\ m - k < m_maxGramSize

LEMMA WordsRead ==
  ASSUME NEW U, NEW r, NEW docId, NEW P, NEW w \in Seq(U), NEW D,
         AtWord(r, U, D, docId, P, w, 0)
  PROVE  AtWord(ReadItems(r, WordItems(w)), U, D, docId, P, w, Len(w))
<1>1. PICK items : items = WordItems(w)
  OBVIOUS
<1>2. /\ Len(items) = Len(w) /\ Len(w) \in Nat /\ Len(items) \in Nat
      /\ \A i \in 1 .. Len(w) : items[i] = <<"word", w[i]>> /\ w[i] \in U
      /\ m_maxGramSize \in Nat \ {0}
  BY <1>1, SlotCount, LenProperties, ElementOfSeq DEF WordItems
<1>3. PICK g : Steps(g, r, items)
  BY <1>2, ReadSteps
<1> DEFINE S == {m \in Nat : m <= Len(w) => AtWord(g[m], U, D, docId, P, w, m)}
<1>4. 0 \in S
  BY <1>3 DEF Steps
<1>5. ASSUME NEW m \in Nat, m \in S PROVE m + 1 \in S
  <2>1. SUFFICES ASSUME m + 1 <= Len(w) PROVE AtWord(g[m + 1], U, D, docId, P, w, m + 1)
    OBVIOUS
  <2>2. PICK q : q = g[m]
    OBVIOUS
  <2>3. /\ AtWord(q, U, D, docId, P, w, m)
        /\ g[m + 1] = ReadItem(q, <<"word", w[m + 1]>>) /\ w[m + 1] \in U
    <3>1. m + 1 \in 1 .. Len(items) /\ (m + 1) - 1 = m /\ m + 1 \in 1 .. Len(w)
      BY <1>2, <2>1
    <3>2. g[m + 1] = ReadItem(g[(m + 1) - 1], items[m + 1])
      BY <1>3, <3>1 DEF Steps
    <3>3. items[m + 1] = <<"word", w[m + 1]>> /\ w[m + 1] \in U
      BY <1>2, <3>1
    <3>4. AtWord(g[m], U, D, docId, P, w, m)
      BY <1>2, <1>5, <2>1
    <3>5. QED
      BY <2>2, <3>1, <3>2, <3>3, <3>4
  <2>4. PICK k : InStream(q.document, U, docId, P, w, k, m) /\ m - k < m_maxGramSize
    BY <2>3 DEF AtWord
  <2>5. m \in 0 .. Len(w) - 1
    BY <1>2, <2>1
  <2>6. PICK e : e = AddTerm(q.document, w[m + 1])
    OBVIOUS
  <2>7. Fits(q.document) /\ \E l \in 0 .. m + 1 : InStream(e, U, docId, P, w, l, m + 1)
                                                 /\ (m + 1) - l < m_maxGramSize
    BY <2>4, <2>5, <2>6, AddTermHolds
  <2>8. ReadItem(q, <<"word", w[m + 1]>>) = [q EXCEPT !.document = e]
    <3>1. q.inside = "stream" /\ Fits(q.document)
      BY <2>3, <2>7 DEF AtWord
    <3>2. PICK x : x = w[m + 1]
      OBVIOUS
    <3>3. ReadItem(q, <<"word", x>>) = [q EXCEPT !.document = AddTerm(q.document, x)]
      BY <3>1, ReadAWord
    <3>4. QED
      BY <2>6, <3>2, <3>3
  <2>9. e \in Docs(U)
    BY <2>7 DEF InStream
  <2>10. PICK t : t = [q EXCEPT !.document = e]
    OBVIOUS
  <2>11. t \in Readers(U) /\ t.inside = "stream" /\ t.documents = D /\ t.document = e
    BY <2>3, <2>9, <2>10 DEF Readers, AtWord
  <2>12. QED
    BY <2>3, <2>7, <2>8, <2>10, <2>11 DEF AtWord
<1>6. Len(w) \in S
  <2> HIDE DEF S
  <2>1. QED
    BY <1>2, <1>4, <1>5, Induction
<1>7. QED
  BY <1>1, <1>2, <1>3, <1>6 DEF Steps

LEMMA ItemTypes ==
  ASSUME NEW U, NEW w \in Seq(U), 0 \in U
  PROVE  /\ WordItems(w) \in Seq(FileItems(U))
         /\ <<<<"stream", 0>>>> \in Seq(FileItems(U)) /\ <<End>> \in Seq(FileItems(U))
         /\ StreamItems(w) \in Seq(FileItems(U))
<1>1. WordItems(w) \in Seq(FileItems(U))
  <2>1. Len(w) \in Nat
    BY LenProperties
  <2>2. \A i \in 1 .. Len(w) : <<"word", w[i]>> \in FileItems(U)
    BY ElementOfSeq DEF FileItems
  <2>3. QED
    BY <2>1, <2>2, IsASeq DEF WordItems
<1>2. <<<<"stream", 0>>>> \in Seq(FileItems(U)) /\ <<End>> \in Seq(FileItems(U))
  BY DEF FileItems
<1>3. QED
  BY <1>1, <1>2, ConcatProperties DEF StreamItems, WordItems

AfterStream(s, r, U, w) ==
  /\ s \in Readers(U) /\ s.inside = "document" /\ s.documents = r.documents
  /\ s.document.m_docId = r.document.m_docId
  /\ s.document.m_postings =
       r.document.m_postings \cup {g \in Grams(w) : Len(g) <= m_maxGramSize}

LEMMA StreamRead ==
  ASSUME NEW U, 0 \in U, NEW r \in Readers(U), r.inside = "document", NEW w \in Seq(U)
  PROVE  AfterStream(ReadItems(r, StreamItems(w)), r, U, w)
<1>1. PICK d, docId, P, D : d = r.document /\ docId = d.m_docId /\ P = d.m_postings
                         /\ D = r.documents
  OBVIOUS
<1>2. PICK e : e = OpenStream(d)
  OBVIOUS
<1>3. InStream(e, U, docId, P, w, 0, 0)
  <2>1. d \in Docs(U) /\ d.m_ringBuffer \in Buffers(U)
    BY <1>1 DEF Readers, Docs
  <2>2. PICK b : b = Reset(d.m_ringBuffer)
    OBVIOUS
  <2>3. b \in Buffers(U) /\ Holds(b, w, 0, 0)
    BY <2>1, <2>2, ResetHolds
  <2>4. e = [d EXCEPT !.m_ringBuffer = b]
    BY <1>2, <2>2 DEF OpenStream
  <2>5. e \in Docs(U) /\ e.m_docId = docId /\ e.m_postings = P /\ e.m_ringBuffer = b
    BY <1>1, <2>1, <2>3, <2>4 DEF Docs
  <2>6. GramsUpTo(w, 0) = {}
    BY DEF GramsUpTo
  <2>7. QED
    BY <2>3, <2>5, <2>6 DEF InStream
<1>4. PICK r1 : r1 = ReadItems(r, <<<<"stream", 0>>>>)
  OBVIOUS
<1>5. r1 \in Readers(U) /\ r1.inside = "stream" /\ r1.documents = D /\ r1.document = e
  <2>1. r1 = ReadItem(r, <<"stream", 0>>)
    BY <1>4, ReadOne
  <2>2. PICK item : item = <<"stream", 0>>
    OBVIOUS
  <2>3. item # End /\ item[1] = "stream"
    BY <2>2, NotTheEnd
  <2>4. r1 = [r EXCEPT !.inside = "stream", !.document = OpenStream(@)]
    BY <2>1, <2>2, <2>3 DEF ReadItem, ReadInDocument
  <2>5. r1 = [r EXCEPT !.inside = "stream", !.document = e]
    BY <1>1, <1>2, <2>4
  <2>6. e \in Docs(U)
    BY <1>3 DEF InStream
  <2>7. QED
    BY <1>1, <2>5, <2>6 DEF Readers
<1>6. PICK r2 : r2 = ReadItems(r1, WordItems(w))
  OBVIOUS
<1>7. /\ r2 \in Readers(U) /\ r2.inside = "stream" /\ r2.documents = D
      /\ \E k : InStream(r2.document, U, docId, P, w, k, Len(w)) /\ Len(w) - k < m_maxGramSize
  <2>1. AtWord(r1, U, D, docId, P, w, 0)
    <3>1. InStream(r1.document, U, docId, P, w, 0, 0) /\ 0 - 0 < m_maxGramSize
      BY <1>3, <1>5, SlotCount
    <3>2. QED
      BY <1>5, <3>1 DEF AtWord
  <2>2. AtWord(r2, U, D, docId, P, w, Len(w))
    BY <1>6, <2>1, WordsRead
  <2>3. QED
    BY <2>2 DEF AtWord
<1>8. PICK f : f = CloseStream(r2.document)
  OBVIOUS
<1>9. InStream(f, U, docId, P, w, Len(w), Len(w))
  BY <1>7, <1>8, CloseHolds
<1>10. PICK r3 : r3 = ReadItems(r2, <<End>>)
  OBVIOUS
<1>11. r3 \in Readers(U) /\ r3.inside = "document" /\ r3.documents = D /\ r3.document = f
  <2>1. r3 = ReadItem(r2, End)
    BY <1>10, ReadOne
  <2>2. r3 = [r2 EXCEPT !.inside = "document", !.document = CloseStream(@)]
    BY <1>7, <2>1 DEF ReadItem, ReadInStream
  <2>3. r3 = [r2 EXCEPT !.inside = "document", !.document = f]
    BY <1>8, <2>2
  <2>4. f \in Docs(U)
    BY <1>9 DEF InStream
  <2>5. QED
    BY <1>7, <2>3, <2>4 DEF Readers
<1>12. ReadItems(r, StreamItems(w)) = r3
  <2>1. PICK a, b, c : a = <<<<"stream", 0>>>> /\ b = WordItems(w) /\ c = <<End>>
    OBVIOUS
  <2>2. a \in Seq(FileItems(U)) /\ b \in Seq(FileItems(U)) /\ c \in Seq(FileItems(U))
        /\ a \o b \in Seq(FileItems(U)) /\ StreamItems(w) = (a \o b) \o c
    BY <2>1, ItemTypes, ConcatProperties DEF StreamItems, WordItems
  <2>3. ReadItems(r, a \o b) = ReadItems(ReadItems(r, a), b)
    BY <2>2, ReadConcat
  <2>4. ReadItems(r, (a \o b) \o c) = ReadItems(ReadItems(r, a \o b), c)
    BY <2>2, ReadConcat
  <2>5. QED
    BY <1>4, <1>6, <1>10, <2>1, <2>2, <2>3, <2>4
<1>13. f.m_docId = docId /\ f.m_postings = P \cup {g \in Grams(w) : Len(g) <= m_maxGramSize}
  BY <1>9, AllGrams DEF InStream
<1>14. QED
  BY <1>1, <1>11, <1>12, <1>13 DEF AfterStream

-----------------------------------------------------------------------------
(* Sequences one after the other.                                          *)
Flattening(f, seqs, n) ==
  f = [i \in 1 .. n |-> IF i = 1 THEN seqs[i] ELSE f[i - 1] \o seqs[i]]

LEMMA FlatteningExists ==
  ASSUME NEW seqs
  PROVE  \A n \in Nat : \E f : Flattening(f, seqs, n)
<1> DEFINE S == {n \in Nat : \E f : Flattening(f, seqs, n)}
<1>1. 0 \in S
  <2> DEFINE f == [i \in 1 .. 0 |-> 0]
  <2>1. Flattening(f, seqs, 0)
    BY DEF Flattening
  <2>2. QED
    BY <2>1
<1>2. ASSUME NEW n \in Nat, n \in S PROVE n + 1 \in S
  <2>1. PICK f : Flattening(f, seqs, n)
    BY <1>2
  <2> DEFINE h == [i \in 1 .. n + 1 |->
                     IF i = n + 1 THEN IF i = 1 THEN seqs[i] ELSE f[n] \o seqs[i] ELSE f[i]]
  <2>2. ASSUME NEW i \in 1 .. n + 1
        PROVE  h[i] = IF i = 1 THEN seqs[i] ELSE h[i - 1] \o seqs[i]
    <3>1. CASE i = n + 1
      <4>1. i # 1 => h[i - 1] = f[n]
        BY <3>1
      <4>2. QED
        BY <3>1, <4>1
    <3>2. CASE i \in 1 .. n
      <4>1. h[i] = f[i] /\ (i # 1 => h[i - 1] = f[i - 1])
        BY <3>2
      <4>2. QED
        BY <2>1, <3>2, <4>1 DEF Flattening
    <3>3. QED
      BY <3>1, <3>2
  <2>3. Flattening(h, seqs, n + 1)
    BY <2>2 DEF Flattening
  <2>4. QED
    BY <2>3
<1>3. QED
  <2> HIDE DEF S
  <2>1. \A n \in Nat : n \in S
    BY <1>1, <1>2, Induction
  <2>2. QED
    BY <2>1 DEF S

LEMMA FlattenSteps ==
  ASSUME NEW seqs, Len(seqs) \in Nat \ {0}
  PROVE  \E f : /\ f[1] = seqs[1]
                /\ \A i \in 2 .. Len(seqs) : f[i] = f[i - 1] \o seqs[i]
                /\ Seqs!FlattenSeq(seqs) = f[Len(seqs)]
<1> DEFINE g == CHOOSE f : Flattening(f, seqs, Len(seqs))
<1>0. Len(seqs) \in Nat /\ Len(seqs) # 0
  OBVIOUS
<1>1. Flattening(g, seqs, Len(seqs))
  BY <1>0, FlatteningExists, Zenon
<1>2. Seqs!FlattenSeq(seqs) = g[Len(seqs)]
  BY <1>0, Zenon DEF Seqs!FlattenSeq, Flattening
<1> HIDE DEF g
<1>3. \A i \in 1 .. Len(seqs) : g[i] = IF i = 1 THEN seqs[i] ELSE g[i - 1] \o seqs[i]
  BY <1>1 DEF Flattening
<1>4. g[1] = seqs[1]
  BY <1>0, <1>3
<1>5. ASSUME NEW i \in 2 .. Len(seqs) PROVE g[i] = g[i - 1] \o seqs[i]
  <2>1. i \in 1 .. Len(seqs) /\ i # 1
    BY <1>0
  <2>2. QED
    BY <1>3, <2>1
<1>6. QED
  BY <1>2, <1>4, <1>5

(* The streams of a document, one after the other.                         *)
StreamGrams(w) == {g \in Grams(w) : Len(g) <= m_maxGramSize}

GramsOfFirst(streams, n) == UNION {StreamGrams(streams[i]) : i \in 1 .. n}

LEMMA OneMoreStream ==
  ASSUME NEW streams, NEW k \in Nat
  PROVE  /\ GramsOfFirst(streams, k + 1) = GramsOfFirst(streams, k) \cup StreamGrams(streams[k + 1])
         /\ GramsOfFirst(streams, 0) = {}
         /\ GramsOfFirst(streams, 1) = StreamGrams(streams[1])
<1>1. 1 .. k + 1 = (1 .. k) \cup {k + 1}
  OBVIOUS
<1>2. GramsOfFirst(streams, k + 1) = GramsOfFirst(streams, k) \cup StreamGrams(streams[k + 1])
  BY <1>1 DEF GramsOfFirst
<1>3. GramsOfFirst(streams, 0) = {}
  BY DEF GramsOfFirst
<1>4. GramsOfFirst(streams, 1) = StreamGrams(streams[1])
  BY DEF GramsOfFirst
<1>5. QED
  BY <1>2, <1>3, <1>4

AfterStreams(s, r, U, streams, n) ==
  /\ s \in Readers(U) /\ s.inside = "document" /\ s.documents = r.documents
  /\ s.document.m_docId = r.document.m_docId
  /\ s.document.m_postings =
       r.document.m_postings \cup GramsOfFirst(streams, n)

LEMMA StreamsRead ==
  ASSUME NEW U, 0 \in U, NEW r \in Readers(U), r.inside = "document",
         NEW streams \in Seq(Seq(U)), NEW seqs \in Seq(Seq(FileItems(U))),
         Len(seqs) = Len(streams),
         \A i \in 1 .. Len(streams) : seqs[i] = StreamItems(streams[i])
  PROVE  /\ Seqs!FlattenSeq(seqs) \in Seq(FileItems(U))
         /\ AfterStreams(ReadItems(r, Seqs!FlattenSeq(seqs)), r, U, streams, Len(streams))
<1>1. PICK items : items = Seqs!FlattenSeq(seqs)
  OBVIOUS
<1>2. /\ Len(streams) \in Nat
      /\ \A i \in 1 .. Len(streams) :
           /\ streams[i] \in Seq(U) /\ seqs[i] = StreamItems(streams[i])
           /\ seqs[i] \in Seq(FileItems(U))
  BY ItemTypes, LenProperties, ElementOfSeq
<1>3. CASE Len(streams) = 0
  <2>1. items = << >>
    <3>1. Len(seqs) = 0 /\ seqs = << >>
      BY <1>3, EmptySeq
    <3>2. QED
      BY <1>1, <3>1 DEF Seqs!FlattenSeq
  <2>2. AfterStreams(r, r, U, streams, 0)
    BY OneMoreStream DEF AfterStreams
  <2>3. ReadItems(r, items) = r /\ items \in Seq(FileItems(U))
    BY <2>1, ReadNone
  <2>4. QED
    BY <1>1, <1>3, <2>2, <2>3
<1>4. CASE Len(streams) # 0
  <2>1. PICK f : /\ f[1] = seqs[1]
                 /\ \A i \in 2 .. Len(seqs) : f[i] = f[i - 1] \o seqs[i]
                 /\ Seqs!FlattenSeq(seqs) = f[Len(seqs)]
    <3>1. Len(seqs) \in Nat \ {0}
      BY <1>2, <1>4
    <3>2. QED
      BY <3>1, FlattenSteps
  <2> DEFINE Good(n) == /\ f[n] \in Seq(FileItems(U))
                        /\ AfterStreams(ReadItems(r, f[n]), r, U, streams, n)
             S == {n \in Nat : n + 1 <= Len(streams) => Good(n + 1)}
  <2>2. 0 \in S
    <3>1. 1 \in 1 .. Len(streams)
      BY <1>2, <1>4
    <3>2. AfterStream(ReadItems(r, f[1]), r, U, streams[1]) /\ f[1] \in Seq(FileItems(U))
      <4>1. f[1] = StreamItems(streams[1]) /\ streams[1] \in Seq(U) /\ f[1] \in Seq(FileItems(U))
        BY <1>2, <2>1, <3>1
      <4>2. QED
        BY <4>1, StreamRead
    <3>3. GramsOfFirst(streams, 1) = StreamGrams(streams[1])
      BY OneMoreStream
    <3>4. Good(1)
      BY <3>2, <3>3 DEF AfterStream, AfterStreams, StreamGrams
    <3>5. QED
      BY <3>4
  <2>3. ASSUME NEW n \in Nat, n \in S PROVE n + 1 \in S
    <3>1. SUFFICES ASSUME (n + 1) + 1 <= Len(streams) PROVE Good((n + 1) + 1)
      OBVIOUS
    <3>2. PICK k \in Nat : k = n + 1
      OBVIOUS
    <3>3. /\ k + 1 \in 2 .. Len(seqs) /\ k + 1 \in 1 .. Len(streams) /\ (k + 1) - 1 = k
          /\ Good(k)
      BY <1>2, <2>3, <3>1, <3>2
    <3>4. PICK t : t = ReadItems(r, f[k])
      OBVIOUS
    <3>5. AfterStreams(t, r, U, streams, k) /\ t \in Readers(U) /\ t.inside = "document"
      BY <3>3, <3>4 DEF AfterStreams
    <3>6. PICK w : w = streams[k + 1]
      OBVIOUS
    <3>7. w \in Seq(U) /\ StreamItems(w) \in Seq(FileItems(U)) /\ seqs[k + 1] = StreamItems(w)
      BY <1>2, <3>3, <3>6
    <3>8. f[k + 1] = f[k] \o StreamItems(w)
      BY <2>1, <3>3, <3>7
    <3>9. PICK u : u = ReadItems(t, StreamItems(w))
      OBVIOUS
    <3>10. AfterStream(u, t, U, w)
      BY <3>5, <3>7, <3>9, StreamRead
    <3>11. ReadItems(r, f[k] \o StreamItems(w)) = u /\ f[k] \o StreamItems(w) \in Seq(FileItems(U))
      BY <3>3, <3>4, <3>7, <3>9, ReadConcat, ConcatProperties
    <3>12. GramsOfFirst(streams, k + 1)
             = GramsOfFirst(streams, k) \cup StreamGrams(w)
      BY <3>6, OneMoreStream
    <3>13. AfterStreams(u, r, U, streams, k + 1)
      <4>1. u.document.m_postings = t.document.m_postings \cup StreamGrams(w)
        BY <3>10 DEF AfterStream, StreamGrams
      <4>2. t.document.m_postings =
              r.document.m_postings \cup GramsOfFirst(streams, k)
        BY <3>5 DEF AfterStreams
      <4>3. u.document.m_postings =
              r.document.m_postings \cup GramsOfFirst(streams, k + 1)
        BY <3>12, <4>1, <4>2
      <4>4. QED
        BY <3>5, <3>10, <4>3 DEF AfterStream, AfterStreams
    <3>14. Good(k + 1)
      BY <3>8, <3>11, <3>13
    <3>15. QED
      BY <3>2, <3>14
  <2>4. PICK m \in Nat : m + 1 = Len(streams)
    <3>1. Len(streams) - 1 \in Nat /\ (Len(streams) - 1) + 1 = Len(streams)
      BY <1>2, <1>4
    <3>2. QED
      BY <3>1
  <2>5. m \in S
    <3> HIDE DEF S
    <3>1. QED
      BY <2>2, <2>3, <2>4, Induction
  <2>6. Good(Len(streams))
    BY <2>4, <2>5
  <2>7. QED
    BY <2>1, <2>6
<1>5. QED
  BY <1>3, <1>4

(* A document comes out as it was written.                                 *)
AsWritten(d, document) == d.m_docId = document.id /\ d.m_postings = GramsOf(document)

AfterDocument(s, r, U, document) ==
  /\ s \in Readers(U) /\ s.inside = "file"
  /\ \E d \in Docs(U) : s.documents = Append(r.documents, d) /\ AsWritten(d, document)

LEMMA NewDocumentType ==
  ASSUME NEW U, End \in U, NEW i \in U
  PROVE  /\ NewDocument(i) \in Docs(U) /\ NewDocument(i).m_docId = i
         /\ NewDocument(i).m_postings = {}
<1>1. 0 \in Slots
  BY SlotCount DEF Slots
<1>2. EmptyBuffer \in Buffers(U)
  BY <1>1 DEF EmptyBuffer, Buffers, Slots
<1>3. QED
  BY <1>2 DEF NewDocument, Docs

LEMMA DocumentRead ==
  ASSUME NEW U, 0 \in U, End \in U, NEW r \in Readers(U), r.inside = "file",
         NEW document \in [id : U, streams : Seq(Seq(U))]
  PROVE  /\ DocumentItems(document) \in Seq(FileItems(U))
         /\ AfterDocument(ReadItems(r, DocumentItems(document)), r, U, document)
<1>1. PICK i, streams : i = document.id /\ streams = document.streams
  OBVIOUS
<1>2. i \in U /\ streams \in Seq(Seq(U))
  BY <1>1
<1>3. PICK a, b, c, seqs :
        /\ a = <<<<"id", i>>>> /\ c = <<End>> /\ b = Seqs!FlattenSeq(seqs)
        /\ seqs = [k \in 1 .. Len(streams) |-> StreamItems(streams[k])]
  OBVIOUS
<1>4. DocumentItems(document) = (a \o b) \o c
  BY <1>1, <1>3 DEF DocumentItems
<1>5. PICK r1 : r1 = ReadItems(r, a)
  OBVIOUS
<1>6. /\ r1 \in Readers(U) /\ r1.inside = "document" /\ r1.documents = r.documents
      /\ r1.document.m_docId = i /\ r1.document.m_postings = {}
  <2>1. PICK item : item = <<"id", i>>
    OBVIOUS
  <2>2. item # End /\ item[1] = "id" /\ item[2] = i
    BY <2>1, NotTheEnd
  <2>3. r1 = ReadItem(r, item)
    BY <1>3, <1>5, <2>1, ReadOne
  <2>4. r1 = [r EXCEPT !.inside = "document", !.document = NewDocument(i)]
    BY <2>2, <2>3 DEF ReadItem, ReadInFile
  <2>5. PICK d \in Docs(U) : d = NewDocument(i) /\ d.m_docId = i /\ d.m_postings = {}
    BY <1>2, NewDocumentType
  <2>6. r1 = [r EXCEPT !.inside = "document", !.document = d]
    BY <2>4, <2>5
  <2>7. QED
    BY <2>5, <2>6 DEF Readers
<1>7. PICK r2 : r2 = ReadItems(r1, b)
  OBVIOUS
<1>8. AfterStreams(r2, r1, U, streams, Len(streams)) /\ b \in Seq(FileItems(U))
  <2>1. /\ Len(streams) \in Nat
        /\ \A k \in 1 .. Len(streams) : StreamItems(streams[k]) \in Seq(FileItems(U))
    BY <1>2, ItemTypes, LenProperties, ElementOfSeq
  <2>2. /\ seqs \in Seq(Seq(FileItems(U))) /\ Len(seqs) = Len(streams)
        /\ \A k \in 1 .. Len(streams) : seqs[k] = StreamItems(streams[k])
    BY <1>3, <2>1, IsASeq
  <2>3. /\ Seqs!FlattenSeq(seqs) \in Seq(FileItems(U))
        /\ AfterStreams(ReadItems(r1, Seqs!FlattenSeq(seqs)), r1, U, streams, Len(streams))
    BY <1>2, <1>6, <2>2, StreamsRead
  <2>4. QED
    BY <1>3, <1>7, <2>3
<1>9. PICK r3 : r3 = ReadItems(r2, c)
  OBVIOUS
<1>10. PICK d : d = r2.document
  OBVIOUS
<1>11. d \in Docs(U) /\ AsWritten(d, document)
  <2>1. d.m_docId = i /\ d.m_postings = GramsOfFirst(streams, Len(streams))
    BY <1>6, <1>8, <1>10 DEF AfterStreams
  <2>2. GramsOf(document) = GramsOfFirst(streams, Len(streams))
    BY <1>1 DEF GramsOf, GramsOfFirst, StreamGrams
  <2>3. d \in Docs(U)
    BY <1>8, <1>10 DEF AfterStreams, Readers
  <2>4. QED
    BY <1>1, <2>1, <2>2, <2>3 DEF AsWritten
<1>12. r3 \in Readers(U) /\ r3.inside = "file" /\ r3.documents = Append(r.documents, d)
  <2>1. r3 = ReadItem(r2, End)
    BY <1>3, <1>9, ReadOne
  <2>2. r2 \in Readers(U) /\ r2.inside = "document" /\ r2.documents = r.documents
    BY <1>6, <1>8 DEF AfterStreams
  <2>3. r3 = [r2 EXCEPT !.inside = "file", !.documents = Append(@, r2.document)]
    BY <2>1, <2>2 DEF ReadItem, ReadInDocument
  <2>4. PICK D : D = Append(r.documents, d)
    OBVIOUS
  <2>5. r3 = [r2 EXCEPT !.inside = "file", !.documents = D]
    BY <1>10, <2>2, <2>3, <2>4
  <2>6. D \in Seq(Docs(U))
    <3>1. r.documents \in Seq(Docs(U))
      BY DEF Readers
    <3>2. QED
      BY <1>11, <2>4, <3>1
  <2>7. QED
    BY <2>2, <2>4, <2>5, <2>6 DEF Readers
<1>13. a \in Seq(FileItems(U)) /\ c \in Seq(FileItems(U))
  BY <1>2, <1>3 DEF FileItems
<1>14. /\ ReadItems(r, (a \o b) \o c) = r3 /\ a \o b \in Seq(FileItems(U))
       /\ (a \o b) \o c \in Seq(FileItems(U))
  <2>1. a \o b \in Seq(FileItems(U)) /\ ReadItems(r, a \o b) = r2
    BY <1>5, <1>7, <1>8, <1>13, ReadConcat, ConcatProperties
  <2>2. QED
    BY <1>9, <1>13, <2>1, ReadConcat, ConcatProperties
<1>15. QED
  BY <1>4, <1>11, <1>12, <1>14 DEF AfterDocument

(* The documents of a file, one after the other.                           *)
AfterDocuments(s, U, documents, n) ==
  /\ s \in Readers(U) /\ s.inside = "file" /\ Len(s.documents) = n
  /\ \A i \in 1 .. n : AsWritten(s.documents[i], documents[i])

LEMMA OneMoreDocument ==
  ASSUME NEW U, NEW r, NEW s, NEW documents, NEW n \in Nat,
         AfterDocuments(r, U, documents, n), AfterDocument(s, r, U, documents[n + 1])
  PROVE  AfterDocuments(s, U, documents, n + 1)
<1>1. r.documents \in Seq(Docs(U)) /\ Len(r.documents) = n
  BY DEF AfterDocuments, Readers
<1>2. PICK d \in Docs(U) : /\ s.documents = Append(r.documents, d)
                           /\ AsWritten(d, documents[n + 1])
  BY DEF AfterDocument
<1>3. /\ Len(s.documents) = n + 1 /\ s.documents[n + 1] = d
      /\ \A i \in 1 .. n : s.documents[i] = r.documents[i]
  BY <1>1, <1>2
<1>4. \A i \in 1 .. n : AsWritten(s.documents[i], documents[i])
  BY <1>3 DEF AfterDocuments
<1>5. \A i \in 1 .. n + 1 : AsWritten(s.documents[i], documents[i])
  BY <1>2, <1>3, <1>4
<1>6. s \in Readers(U) /\ s.inside = "file"
  BY DEF AfterDocument
<1>7. QED
  BY <1>3, <1>5, <1>6 DEF AfterDocuments

LEMMA NewReaderType ==
  ASSUME NEW U, 0 \in U, End \in U
  PROVE  /\ NewReader \in Readers(U) /\ NewReader.inside = "file"
         /\ NewReader.documents = << >>
<1>1. PICK d \in Docs(U) : d = NewDocument(0)
  BY NewDocumentType
<1>2. NewReader = [inside |-> "file", document |-> d, documents |-> << >>]
  BY <1>1 DEF NewReader
<1>3. QED
  BY <1>2 DEF Readers

LEMMA DocumentsRead ==
  ASSUME NEW U, 0 \in U, End \in U,
         NEW documents \in Seq([id : U, streams : Seq(Seq(U))]),
         NEW seqs \in Seq(Seq(FileItems(U))), Len(seqs) = Len(documents),
         \A i \in 1 .. Len(documents) : seqs[i] = DocumentItems(documents[i])
  PROVE  /\ Seqs!FlattenSeq(seqs) \in Seq(FileItems(U))
         /\ AfterDocuments(ReadItems(NewReader, Seqs!FlattenSeq(seqs)), U, documents,
                           Len(documents))
<1>1. PICK items : items = Seqs!FlattenSeq(seqs)
  OBVIOUS
<1>2. /\ Len(documents) \in Nat
      /\ \A i \in 1 .. Len(documents) :
           /\ documents[i] \in [id : U, streams : Seq(Seq(U))]
           /\ seqs[i] = DocumentItems(documents[i])
           /\ seqs[i] \in Seq(FileItems(U))
  BY LenProperties, ElementOfSeq
<1>3. AfterDocuments(NewReader, U, documents, 0)
  BY NewReaderType, EmptySeq DEF AfterDocuments
<1>4. CASE Len(documents) = 0
  <2>1. items = << >>
    <3>1. Len(seqs) = 0 /\ seqs = << >>
      BY <1>4, EmptySeq
    <3>2. QED
      BY <1>1, <3>1 DEF Seqs!FlattenSeq
  <2>2. ReadItems(NewReader, items) = NewReader /\ items \in Seq(FileItems(U))
    BY <2>1, ReadNone
  <2>3. QED
    BY <1>1, <1>3, <1>4, <2>2
<1>5. CASE Len(documents) # 0
  <2>1. PICK f : /\ f[1] = seqs[1]
                 /\ \A i \in 2 .. Len(seqs) : f[i] = f[i - 1] \o seqs[i]
                 /\ Seqs!FlattenSeq(seqs) = f[Len(seqs)]
    <3>1. Len(seqs) \in Nat \ {0}
      BY <1>2, <1>5
    <3>2. QED
      BY <3>1, FlattenSteps
  <2> DEFINE Good(n) == /\ f[n] \in Seq(FileItems(U))
                        /\ AfterDocuments(ReadItems(NewReader, f[n]), U, documents, n)
             S == {n \in Nat : n + 1 <= Len(documents) => Good(n + 1)}
  <2>2. 0 \in S
    <3>1. 1 \in 1 .. Len(documents)
      BY <1>2, <1>5
    <3>2. PICK x : x = documents[1]
      OBVIOUS
    <3>3. f[1] = DocumentItems(x) /\ f[1] \in Seq(FileItems(U))
          /\ x \in [id : U, streams : Seq(Seq(U))]
      BY <1>2, <2>1, <3>1, <3>2
    <3>4. AfterDocument(ReadItems(NewReader, f[1]), NewReader, U, x)
      BY <3>3, NewReaderType, DocumentRead
    <3>5. x = documents[0 + 1]
      BY <3>2
    <3>6. AfterDocuments(ReadItems(NewReader, f[1]), U, documents, 0 + 1)
      BY <1>3, <3>4, <3>5, OneMoreDocument
    <3>7. Good(1)
      BY <3>3, <3>6
    <3>8. QED
      BY <3>7
  <2>3. ASSUME NEW n \in Nat, n \in S PROVE n + 1 \in S
    <3>1. SUFFICES ASSUME (n + 1) + 1 <= Len(documents) PROVE Good((n + 1) + 1)
      OBVIOUS
    <3>2. PICK k \in Nat : k = n + 1
      OBVIOUS
    <3>3. /\ k + 1 \in 2 .. Len(seqs) /\ k + 1 \in 1 .. Len(documents) /\ (k + 1) - 1 = k
          /\ Good(k)
      <4>1. /\ k + 1 \in 2 .. Len(seqs) /\ k + 1 \in 1 .. Len(documents) /\ (k + 1) - 1 = k
        BY <1>2, <3>1, <3>2
      <4>2. Good(n + 1)
        BY <1>2, <2>3, <3>1
      <4>3. QED
        BY <3>2, <4>1, <4>2
    <3>4. PICK t : t = ReadItems(NewReader, f[k])
      OBVIOUS
    <3>5. AfterDocuments(t, U, documents, k) /\ t \in Readers(U) /\ t.inside = "file"
      BY <3>3, <3>4 DEF AfterDocuments
    <3>6. PICK x : x = documents[k + 1]
      OBVIOUS
    <3>7. x \in [id : U, streams : Seq(Seq(U))] /\ seqs[k + 1] = DocumentItems(x)
      BY <1>2, <3>3, <3>6
    <3>8. f[k + 1] = f[k] \o DocumentItems(x)
      BY <2>1, <3>3, <3>7
    <3>9. PICK u : u = ReadItems(t, DocumentItems(x))
      OBVIOUS
    <3>10. AfterDocument(u, t, U, x) /\ DocumentItems(x) \in Seq(FileItems(U))
      BY <3>5, <3>7, <3>9, DocumentRead
    <3>11. /\ ReadItems(NewReader, f[k] \o DocumentItems(x)) = u
           /\ f[k] \o DocumentItems(x) \in Seq(FileItems(U))
      BY <3>3, <3>4, <3>9, <3>10, ReadConcat, ConcatProperties
    <3>12. AfterDocuments(u, U, documents, k + 1)
      BY <3>5, <3>6, <3>10, OneMoreDocument
    <3>13. Good(k + 1)
      BY <3>8, <3>11, <3>12
    <3>14. QED
      BY <3>2, <3>13
  <2>4. PICK m \in Nat : m + 1 = Len(documents)
    <3>1. Len(documents) - 1 \in Nat /\ (Len(documents) - 1) + 1 = Len(documents)
      BY <1>2, <1>5
    <3>2. QED
      BY <3>1
  <2>5. m \in S
    <3> HIDE DEF S
    <3>1. QED
      BY <2>2, <2>3, <2>4, Induction
  <2>6. Good(Len(documents))
    BY <2>4, <2>5
  <2>7. QED
    BY <2>1, <2>6
<1>6. QED
  BY <1>4, <1>5

(* A whole file is read to its end.                                        *)
LEMMA FileRead ==
  ASSUME NEW U, 0 \in U, End \in U,
         NEW documents \in Seq([id : U, streams : Seq(Seq(U))])
  PROVE  /\ WholeFile(documents) \in Seq(FileItems(U))
         /\ LET s == ReadItems(NewReader, WholeFile(documents))
            IN  /\ s \in Readers(U) /\ s.inside = "end of file"
                /\ Len(s.documents) = Len(documents)
                /\ \A i \in 1 .. Len(documents) : AsWritten(s.documents[i], documents[i])
<1>1. PICK seqs, c :
        /\ seqs = [i \in 1 .. Len(documents) |-> DocumentItems(documents[i])]
        /\ c = <<End>>
  OBVIOUS
<1>2. PICK b : b = Seqs!FlattenSeq(seqs)
  OBVIOUS
<1>3. /\ Len(documents) \in Nat
      /\ \A i \in 1 .. Len(documents) : DocumentItems(documents[i]) \in Seq(FileItems(U))
  BY LenProperties, ElementOfSeq, NewReaderType, DocumentRead
<1>4. /\ seqs \in Seq(Seq(FileItems(U))) /\ Len(seqs) = Len(documents)
      /\ \A i \in 1 .. Len(documents) : seqs[i] = DocumentItems(documents[i])
  BY <1>1, <1>3, IsASeq
<1>5. b \in Seq(FileItems(U))
      /\ AfterDocuments(ReadItems(NewReader, b), U, documents, Len(documents))
  BY <1>2, <1>4, DocumentsRead
<1>6. PICK r, s : r = ReadItems(NewReader, b) /\ s = ReadItems(r, c)
  OBVIOUS
<1>7. r \in Readers(U) /\ r.inside = "file"
  BY <1>5, <1>6 DEF AfterDocuments
<1>8. s = [r EXCEPT !.inside = "end of file"]
  <2>1. s = ReadItem(r, End)
    BY <1>1, <1>6, ReadOne
  <2>2. QED
    BY <1>7, <2>1 DEF ReadItem, ReadInFile
<1>9. s \in Readers(U) /\ s.inside = "end of file" /\ s.documents = r.documents
  BY <1>7, <1>8 DEF Readers
<1>10. WholeFile(documents) = b \o c
  BY <1>1, <1>2 DEF WholeFile
<1>11. c \in Seq(FileItems(U))
  BY <1>1 DEF FileItems
<1>12. ReadItems(NewReader, b \o c) = s /\ b \o c \in Seq(FileItems(U))
  BY <1>5, <1>6, <1>11, ReadConcat, ConcatProperties
<1>13. /\ Len(s.documents) = Len(documents)
       /\ \A i \in 1 .. Len(documents) : AsWritten(s.documents[i], documents[i])
  BY <1>5, <1>6, <1>9 DEF AfterDocuments
<1>14. QED
  BY <1>9, <1>10, <1>12, <1>13

-----------------------------------------------------------------------------
(* Whatever the items are: what has been handed over stays, and nothing is *)
(* read after the end of the file.                                         *)
LEMMA AddTermType ==
  ASSUME NEW U, NEW d \in Docs(U), NEW x \in U
  PROVE  AddTerm(d, x) \in Docs(U)
<1>1. PICK b : b = d.m_ringBuffer
  OBVIOUS
<1>2. b \in Buffers(U)
  BY <1>1 DEF Docs
<1>3. PICK c : c = PushBack(b, x)
  OBVIOUS
<1>4. c \in Buffers(U)
  <2>1. PICK t : t = (b.m_tail + 1) % c_slotCount
    OBVIOUS
  <2>2. t \in Slots
    BY <1>2, <2>1, HeadAndTail, SlotCount DEF Slots
  <2>3. c = [b EXCEPT !.slots[b.m_tail] = x, !.m_tail = t]
    BY <1>3, <2>1 DEF PushBack
  <2>4. QED
    BY <1>2, <2>2, <2>3 DEF Buffers
<1>5. PICK e : e = [d EXCEPT !.m_ringBuffer = PushBack(@, x)]
  OBVIOUS
<1>6. e \in Docs(U)
  BY <1>1, <1>3, <1>4, <1>5 DEF Docs
<1>7. AddTerm(d, x) = IF GetCount(e.m_ringBuffer) = m_maxGramSize THEN ProcessFront(e) ELSE e
  BY <1>5 DEF AddTerm
<1>8. QED
  BY <1>6, <1>7, ProcessFrontParts

LEMMA CloseType ==
  ASSUME NEW U, NEW d \in Docs(U)
  PROVE  CloseStream(d) \in Docs(U)
<1>1. PICK c \in Nat : c = GetCount(d.m_ringBuffer)
  BY CountRange, SlotCount DEF Docs
<1>2. PICK g : /\ g[0] = d
               /\ \A n \in 1 .. c : g[n] = ProcessFront(g[n - 1])
               /\ CloseStream(d) = g[c]
  BY <1>1, CloseSteps
<1> DEFINE S == {n \in Nat : n <= c => g[n] \in Docs(U)}
<1>3. 0 \in S
  BY <1>2
<1>4. ASSUME NEW n \in Nat, n \in S PROVE n + 1 \in S
  <2>1. SUFFICES ASSUME n + 1 <= c PROVE g[n + 1] \in Docs(U)
    OBVIOUS
  <2>2. g[n] \in Docs(U) /\ g[n + 1] = ProcessFront(g[n])
    BY <1>2, <1>4, <2>1
  <2>3. QED
    BY <2>2, ProcessFrontParts
<1>5. c \in S
  <2> HIDE DEF S
  <2>1. QED
    BY <1>1, <1>3, <1>4, Induction
<1>6. QED
  BY <1>2, <1>5

(* What is in a reader's hands is kept.                                    *)
Keeps(s, r, U) ==
  /\ s \in Readers(U)
  /\ Len(r.documents) <= Len(s.documents)
  /\ \A i \in 1 .. Len(r.documents) : s.documents[i] = r.documents[i]
  /\ r.inside = "end of file" => s.inside = r.inside /\ s.documents = r.documents

LEMMA NoMore == \A n \in Nat : n <= n
OBVIOUS

LEMMA SameDocumentsKept ==
  ASSUME NEW U, NEW r \in Readers(U), NEW s \in Readers(U), s.documents = r.documents,
         r.inside = "end of file" => s.inside = r.inside
  PROVE  Keeps(s, r, U)
<1>1. PICK D : D = r.documents
  OBVIOUS
<1>2. Len(D) \in Nat
  BY <1>1, LenProperties DEF Readers
<1>3. r.documents = D /\ s.documents = D /\ Len(D) <= Len(D)
  BY <1>1, <1>2, NoMore, Zenon
<1>4. /\ Len(r.documents) <= Len(s.documents)
      /\ \A i \in 1 .. Len(r.documents) : s.documents[i] = r.documents[i]
  BY <1>3
<1>5. QED
  BY <1>4 DEF Keeps

LEMMA ItemKeeps ==
  ASSUME NEW U, End \in U, NEW r \in Readers(U), NEW item \in FileItems(U)
  PROVE  Keeps(ReadItem(r, item), r, U)
<1>1. PICK d : d = r.document
  OBVIOUS
<1>2. d \in Docs(U) /\ r.documents \in Seq(Docs(U))
  BY <1>1 DEF Readers
<1>3. item # End => item[2] \in U
  BY DEF FileItems
<1>4. Keeps(Throw(r), r, U) \/ r.inside = "end of file"
  <2>1. Throw(r) \in Readers(U) /\ Throw(r).documents = r.documents
    BY DEF Throw, Readers
  <2>2. QED
    BY <2>1, SameDocumentsKept
<1>5. Keeps(r, r, U)
  BY SameDocumentsKept
<1>6. CASE r.inside = "file"
  <2>1. ReadItem(r, item) = ReadInFile(r, item)
    BY <1>6 DEF ReadItem
  <2>2. CASE item = End
    <3>1. PICK s : s = [r EXCEPT !.inside = "end of file"]
      OBVIOUS
    <3>2. s \in Readers(U) /\ s.documents = r.documents
      BY <3>1 DEF Readers
    <3>3. QED
      BY <1>6, <2>1, <2>2, <3>1, <3>2, SameDocumentsKept DEF ReadInFile
  <2>3. CASE item # End /\ item[1] = "id"
    <3>1. PICK e \in Docs(U) : e = NewDocument(item[2])
      BY <1>3, <2>3, NewDocumentType
    <3>2. PICK s : s = [r EXCEPT !.inside = "document", !.document = e]
      OBVIOUS
    <3>3. s \in Readers(U) /\ s.documents = r.documents
      BY <3>2 DEF Readers
    <3>4. QED
      BY <1>6, <2>1, <2>3, <3>1, <3>2, <3>3, SameDocumentsKept DEF ReadInFile
  <2>4. CASE item # End /\ item[1] # "id"
    BY <1>4, <1>6, <2>1, <2>4 DEF ReadInFile
  <2>5. QED
    BY <2>2, <2>3, <2>4
<1>7. CASE r.inside = "document"
  <2>1. ReadItem(r, item) = ReadInDocument(r, item)
    BY <1>7 DEF ReadItem
  <2>2. CASE item = End
    <3>1. PICK D : D = Append(r.documents, d)
      OBVIOUS
    <3>2. /\ D \in Seq(Docs(U)) /\ Len(D) = Len(r.documents) + 1 /\ Len(r.documents) \in Nat
          /\ \A i \in 1 .. Len(r.documents) : D[i] = r.documents[i]
      BY <1>2, <3>1
    <3>3. PICK s : s = [r EXCEPT !.inside = "file", !.documents = D]
      OBVIOUS
    <3>4. s \in Readers(U) /\ s.documents = D
      BY <3>2, <3>3 DEF Readers
    <3>5. ReadItem(r, item) = s
      BY <1>1, <2>1, <2>2, <3>1, <3>3 DEF ReadInDocument
    <3>6. QED
      BY <1>7, <3>2, <3>4, <3>5 DEF Keeps
  <2>3. CASE item # End /\ item[1] = "stream"
    <3>1. PICK e : e = OpenStream(d)
      OBVIOUS
    <3>2. e \in Docs(U)
      <4>1. PICK b : b = Reset(d.m_ringBuffer)
        OBVIOUS
      <4>2. b \in Buffers(U)
        BY <1>2, <4>1, ResetHolds DEF Docs
      <4>3. QED
        BY <1>2, <3>1, <4>1, <4>2 DEF OpenStream, Docs
    <3>3. PICK s : s = [r EXCEPT !.inside = "stream", !.document = e]
      OBVIOUS
    <3>4. s \in Readers(U) /\ s.documents = r.documents
      BY <3>2, <3>3 DEF Readers
    <3>5. ReadItem(r, item) = s
      BY <1>1, <2>1, <2>3, <3>1, <3>3 DEF ReadInDocument
    <3>6. QED
      BY <1>7, <3>4, <3>5, SameDocumentsKept
  <2>4. CASE item # End /\ item[1] # "stream"
    BY <1>4, <1>7, <2>1, <2>4 DEF ReadInDocument
  <2>5. QED
    BY <2>2, <2>3, <2>4
<1>8. CASE r.inside = "stream"
  <2>1. ReadItem(r, item) = ReadInStream(r, item)
    BY <1>8 DEF ReadItem
  <2>2. CASE item = End
    <3>1. PICK e : e = CloseStream(d)
      OBVIOUS
    <3>2. e \in Docs(U)
      BY <1>2, <3>1, CloseType
    <3>3. PICK s : s = [r EXCEPT !.inside = "document", !.document = e]
      OBVIOUS
    <3>4. s \in Readers(U) /\ s.documents = r.documents
      BY <3>2, <3>3 DEF Readers
    <3>5. ReadItem(r, item) = s
      BY <1>1, <2>1, <2>2, <3>1, <3>3 DEF ReadInStream
    <3>6. QED
      BY <1>8, <3>4, <3>5, SameDocumentsKept
  <2>3. CASE item # End /\ Fits(d)
    <3>1. PICK e : e = AddTerm(d, item[2])
      OBVIOUS
    <3>2. e \in Docs(U)
      BY <1>2, <1>3, <2>3, <3>1, AddTermType
    <3>3. PICK s : s = [r EXCEPT !.document = e]
      OBVIOUS
    <3>4. s \in Readers(U) /\ s.documents = r.documents
      BY <3>2, <3>3 DEF Readers
    <3>5. ReadItem(r, item) = s
      BY <1>1, <2>1, <2>3, <3>1, <3>3 DEF ReadInStream
    <3>6. QED
      BY <1>8, <3>4, <3>5, SameDocumentsKept
  <2>4. CASE item # End /\ ~Fits(d)
    BY <1>1, <1>4, <1>8, <2>1, <2>4 DEF ReadInStream
  <2>5. QED
    BY <2>2, <2>3, <2>4
<1>9. CASE r.inside \in {"end of file", "error"}
  <2>1. ReadItem(r, item) = r
    BY <1>9 DEF ReadItem
  <2>2. QED
    BY <1>5, <2>1
<1>10. QED
  BY <1>6, <1>7, <1>8, <1>9 DEF Readers

LEMMA KeepsOn ==
  ASSUME NEW U, NEW r, NEW s, NEW t, Keeps(s, r, U), Keeps(t, s, U), r \in Readers(U)
  PROVE  Keeps(t, r, U)
<1>1. PICK R, S, T : R = r.documents /\ S = s.documents /\ T = t.documents
  OBVIOUS
<1>2. Len(R) \in Nat /\ Len(S) \in Nat /\ Len(T) \in Nat
  BY <1>1, LenProperties DEF Keeps, Readers
<1>3. /\ Len(R) <= Len(S) /\ \A i \in 1 .. Len(R) : S[i] = R[i]
      /\ Len(S) <= Len(T) /\ \A i \in 1 .. Len(S) : T[i] = S[i]
  BY <1>1 DEF Keeps
<1>4. Len(R) <= Len(T) /\ \A i \in 1 .. Len(R) : T[i] = R[i]
  BY <1>2, <1>3
<1>5. r.inside = "end of file" => t.inside = r.inside /\ t.documents = r.documents
  BY DEF Keeps
<1>6. t \in Readers(U)
  BY DEF Keeps
<1>7. QED
  BY <1>1, <1>4, <1>5, <1>6 DEF Keeps

LEMMA ItemsKeep ==
  ASSUME NEW U, End \in U, NEW r \in Readers(U), NEW items \in Seq(FileItems(U))
  PROVE  Keeps(ReadItems(r, items), r, U)
<1>1. Len(items) \in Nat /\ \A n \in 1 .. Len(items) : items[n] \in FileItems(U)
  BY LenProperties, ElementOfSeq
<1>2. PICK g : Steps(g, r, items)
  BY <1>1, ReadSteps
<1> DEFINE S == {n \in Nat : n <= Len(items) => Keeps(g[n], r, U)}
<1>3. 0 \in S
  BY <1>2, SameDocumentsKept DEF Steps
<1>4. ASSUME NEW n \in Nat, n \in S PROVE n + 1 \in S
  <2>1. SUFFICES ASSUME n + 1 <= Len(items) PROVE Keeps(g[n + 1], r, U)
    OBVIOUS
  <2>2. n + 1 \in 1 .. Len(items) /\ (n + 1) - 1 = n /\ Keeps(g[n], r, U)
    BY <1>1, <1>4, <2>1
  <2>3. g[n + 1] = ReadItem(g[n], items[n + 1]) /\ items[n + 1] \in FileItems(U)
    BY <1>1, <1>2, <2>2 DEF Steps
  <2>4. g[n] \in Readers(U)
    BY <2>2 DEF Keeps
  <2>5. Keeps(g[n + 1], g[n], U)
    BY <2>3, <2>4, ItemKeeps
  <2>6. QED
    BY <2>2, <2>5, KeepsOn
<1>5. Len(items) \in S
  <2> HIDE DEF S
  <2>1. QED
    BY <1>1, <1>3, <1>4, Induction
<1>6. QED
  BY <1>1, <1>2, <1>5 DEF Steps

(* The items of a chunk are those of the whole file, but for the last.     *)
LEMMA TwoParts ==
  ASSUME NEW S, NEW whole \in Seq(S), NEW n \in 0 .. Len(whole)
  PROVE  \E rest \in Seq(S) : /\ whole = SubSeq(whole, 1, n) \o rest
                              /\ SubSeq(whole, 1, n) \in Seq(S)
<1>1. Len(whole) \in Nat
  BY LenProperties
<1>2. PICK a, b : a = SubSeq(whole, 1, n) /\ b = SubSeq(whole, n + 1, Len(whole))
  OBVIOUS
<1>3. a \in Seq(S) /\ Len(a) = n /\ \A i \in 1 .. n : a[i] = whole[i]
  BY <1>1, <1>2
<1>4. b \in Seq(S) /\ Len(b) = Len(whole) - n
      /\ \A i \in 1 .. Len(whole) - n : b[i] = whole[n + i]
  BY <1>1, <1>2
<1>5. Len(a \o b) = Len(whole) /\ a \o b \in Seq(S)
  BY <1>1, <1>3, <1>4, ConcatProperties
<1>6. ASSUME NEW i \in 1 .. Len(whole) PROVE (a \o b)[i] = whole[i]
  <2>1. i \in 1 .. Len(a) => (a \o b)[i] = a[i]
    BY <1>3, <1>4, ConcatProperties
  <2>2. i \in Len(a) + 1 .. Len(a) + Len(b) => (a \o b)[i] = b[i - Len(a)]
    BY <1>3, <1>4, ConcatProperties
  <2>3. CASE i \in 1 .. n
    BY <1>1, <1>3, <2>1, <2>3
  <2>4. CASE i \in n + 1 .. Len(whole)
    <3>1. i - n \in 1 .. Len(whole) - n /\ n + (i - n) = i
      BY <1>1, <2>4
    <3>2. b[i - n] = whole[n + (i - n)]
      BY <1>4, <3>1
    <3>3. QED
      BY <1>1, <1>3, <1>4, <2>2, <2>4, <3>1, <3>2
  <2>5. i \in 1 .. n \/ i \in n + 1 .. Len(whole)
    BY <1>1
  <2>6. QED
    BY <2>3, <2>4, <2>5
<1>7. a \o b = whole
  <2>1. \A i \in 1 .. Len(a \o b) : (a \o b)[i] = whole[i]
    BY <1>5, <1>6
  <2> HIDE <1>2, <1>3, <1>4
  <2>2. QED
    BY <1>5, <2>1, SeqEqual
<1>8. QED
  BY <1>2, <1>3, <1>4, <1>7

(* What a reader makes of a chunk: the first documents that were written,  *)
(* each as it was written; all of them, when it reaches the end.           *)
OutOf(r, chunk) ==
  /\ r.inside \in {"end of file", "error"}
  /\ Len(r.documents) \in Nat /\ Len(r.documents) <= Len(chunk.documents)
  /\ \A i \in 1 .. Len(r.documents) : AsWritten(r.documents[i], chunk.documents[i])
  /\ r.inside = "end of file" => Len(r.documents) = Len(chunk.documents)
  /\ chunk.cut = 0 => r.inside = "end of file"

(* Whatever the DocIds and the words: every document that a reader hands   *)
(* over is the one that was written at that place, with its DocId and with *)
(* the n-grams of its streams; and a file that is whole is read to its end *)
(* (ChunkReader.cpp:42-134, Document.cpp:87-176).                          *)
THEOREM ChunkRead ==
  ASSUME NEW I, NEW W,
         NEW chunk \in [documents : Seq([id : I, streams : Seq(Seq(W))]), cut : Nat]
  PROVE  OutOf(ChunkReader(Items(chunk)), chunk)
<1>1. PICK U : U = I \cup W \cup {0, End}
  OBVIOUS
<1>2. PICK documents : documents = chunk.documents
  OBVIOUS
<1>3. documents \in Seq([id : U, streams : Seq(Seq(U))])
  <2>1. Seq(W) \subseteq Seq(U)
    BY <1>1, SeqMonotonic
  <2>2. Seq(Seq(W)) \subseteq Seq(Seq(U))
    BY <2>1, SeqMonotonic
  <2>3. [id : I, streams : Seq(Seq(W))] \subseteq [id : U, streams : Seq(Seq(U))]
    BY <1>1, <2>2
  <2>4. documents \in Seq([id : I, streams : Seq(Seq(W))])
    BY <1>2
  <2>5. QED
    BY <2>3, <2>4, SeqMonotonic, Zenon
<1>4. PICK whole : whole = WholeFile(documents)
  OBVIOUS
<1>5. PICK s : s = ReadItems(NewReader, whole)
  OBVIOUS
<1>6. 0 \in U /\ End \in U
  BY <1>1
<1>7. /\ whole \in Seq(FileItems(U)) /\ s \in Readers(U) /\ s.inside = "end of file"
      /\ Len(s.documents) = Len(documents)
      /\ \A i \in 1 .. Len(documents) : AsWritten(s.documents[i], documents[i])
  BY <1>3, <1>4, <1>5, <1>6, FileRead
<1>8. PICK n : n = Len(whole) - chunk.cut
  OBVIOUS
<1>9. PICK items : items = SubSeq(whole, 1, n)
  OBVIOUS
<1>10. PICK r : r = ReadItems(NewReader, items)
  OBVIOUS
<1>11. Keeps(s, r, U) /\ r \in Readers(U) /\ (chunk.cut = 0 => r = s)
  <2>1. Len(whole) \in Nat /\ chunk.cut \in Nat
    BY <1>7, LenProperties
  <2>2. NewReader \in Readers(U)
    BY <1>6, NewReaderType
  <2>3. CASE n \in 0 .. Len(whole)
    <3>1. PICK rest \in Seq(FileItems(U)) : whole = items \o rest /\ items \in Seq(FileItems(U))
      <4>1. \E rest \in Seq(FileItems(U)) :
               /\ whole = SubSeq(whole, 1, n) \o rest
               /\ SubSeq(whole, 1, n) \in Seq(FileItems(U))
        BY <1>7, <2>3, TwoParts, Zenon
      <4>2. QED
        BY <1>9, <4>1, Zenon
    <3>2. s = ReadItems(r, rest)
      BY <1>5, <1>10, <3>1, ReadConcat
    <3>3. r \in Readers(U)
      BY <1>6, <1>10, <2>2, <3>1, ItemsKeep DEF Keeps
    <3>4. Keeps(s, r, U)
      BY <1>6, <3>1, <3>2, <3>3, ItemsKeep
    <3>5. ASSUME chunk.cut = 0 PROVE items = whole
      <4>1. n = Len(whole)
        BY <1>8, <2>1, <3>5
      <4>2. QED
        BY <1>7, <1>9, <4>1, SubSeqFull, Zenon
    <3>6. QED
      BY <1>5, <1>10, <3>3, <3>4, <3>5
  <2>4. CASE n \notin 0 .. Len(whole)
    <3>1. n < 1 /\ n \in Int /\ chunk.cut # 0
      BY <1>8, <2>1, <2>4
    <3>2. items = << >>
      BY <1>9, <3>1, SubSeqEmpty
    <3>3. items \o whole = whole
      BY <1>7, <3>2, ConcatEmptySeq
    <3>4. r = NewReader /\ s = ReadItems(NewReader, whole)
      BY <1>5, <1>10, <3>2, ReadNone
    <3>5. QED
      BY <1>6, <1>7, <2>2, <3>1, <3>4, ItemsKeep
  <2>5. QED
    BY <2>3, <2>4
<1>12. PICK t : t = ChunkReader(Items(chunk))
  OBVIOUS
<1>13. t = IF r.inside = "end of file" THEN r ELSE Throw(r)
  BY <1>2, <1>4, <1>8, <1>9, <1>10, <1>12 DEF ChunkReader, Items
<1>14. /\ t.documents = r.documents
       /\ IF r.inside = "end of file" THEN t.inside = "end of file" ELSE t.inside = "error"
  BY <1>11, <1>13 DEF Throw, Readers
<1>15. PICK T, D : T = r.documents /\ D = s.documents
  OBVIOUS
<1>16. /\ Len(T) \in Nat /\ Len(T) <= Len(D)
       /\ \A i \in 1 .. Len(T) : D[i] = T[i]
       /\ r.inside = "end of file" => D = T
  <2>1. Len(T) \in Nat
    BY <1>11, <1>15, LenProperties DEF Readers
  <2>2. QED
    BY <1>11, <1>15, <2>1 DEF Keeps
<1>17. Len(D) = Len(documents) /\ Len(documents) \in Nat
  BY <1>3, <1>7, <1>15, LenProperties
<1>18. \A i \in 1 .. Len(T) : AsWritten(T[i], documents[i])
  <2>1. SUFFICES ASSUME NEW i \in 1 .. Len(T) PROVE AsWritten(T[i], documents[i])
    OBVIOUS
  <2>2. D[i] = T[i]
    BY <1>16, Zenon
  <2>3. i \in 1 .. Len(documents)
    <3>1. PICK m, l \in Nat : m = Len(T) /\ l = Len(documents)
      BY <1>17
    <3>2. m \in Nat /\ m <= l
      BY <1>16, <1>17, <3>1, Zenon
    <3>3. QED
      BY <3>1, <3>2
  <2>4. AsWritten(D[i], documents[i])
    BY <1>7, <1>15, <2>3
  <2>5. QED
    BY <2>2, <2>4
<1>19. chunk.cut = 0 => r.inside = "end of file"
  BY <1>7, <1>11
<1>20. t.documents = T
  BY <1>14, <1>15
<1>21. OutOf(t, chunk)
  BY <1>2, <1>14, <1>16, <1>17, <1>18, <1>19, <1>20 DEF OutOf
<1>22. QED
  BY <1>12, <1>21


-----------------------------------------------------------------------------
(* The ingestor                                                            *)

(* The threads of a kind are in the calls of that kind, a thread in a call *)
(* knows the DocId, and the delete lock is held throughout Delete.         *)
Calls ==
  /\ \A a \in Adder : pc[a] \in {"idle", "allocate", "ingest", "activated"}
  /\ \A d \in Deleter : pc[d] \in {"idle", "delete", "erase", "clear", "unlock"}
  /\ \A t \in Thread : pc[t] # "idle" <=> id[t] \in DocId
  /\ \A d \in Deleter : pc[d] # "idle" => m_deleteDocumentLock = d

(* A column that an Add has in its hands is that Add's alone.              *)
HasColumn(a) == pc[a] \in {"ingest", "activated"}
ColumnsOwned ==
  /\ \A a \in Adder : HasColumn(a) =>
       /\ location[a] \in Column
       /\ columns[location[a]] = id[a]
       /\ location[a] \in active <=> pc[a] = "activated"
       /\ \A i \in DocId : m_docIdToDocHandle[i] # location[a]
       /\ \A d \in Deleter : pc[d] \in {"erase", "clear"} => location[d] # location[a]
  /\ \A a, b \in Adder : a # b /\ HasColumn(a) /\ HasColumn(b) => location[a] # location[b]
  /\ \A h \in active : columns[h] \in DocId

(* The column that a Delete is about to expire is off the map.             *)
OffTheMap ==
  \A d \in Deleter : pc[d] = "clear" =>
    \A i \in DocId : m_docIdToDocHandle[i] # location[d]

(* A DocId that no client has repeated is added by one call, if it is not  *)
(* in the map.                                                             *)
NoRepeats ==
  /\ \A a \in Adder : pc[a] # "idle" => (id[a] \in repeated \/ ~Contains(id[a]))
  /\ \A a, b \in Adder :
       a # b /\ pc[a] # "idle" => (id[a] \in repeated \/ id[a] # id[b])

IInv ==
  /\ TypeOK
  /\ Calls
  /\ ColumnsOwned
  /\ OffTheMap
  /\ ContainedIsServed
  /\ DeleteIsNotStale
  /\ CountCoversServed

Pending == {a \in Adder : pc[a] \in {"allocate", "ingest"}}

LEMMA SetsFinite ==
  ASSUME TypeOK
  PROVE  /\ IsFiniteSet(active) /\ IsFiniteSet(Pending)
         /\ Cardinality(active) \in Nat /\ Cardinality(Pending) \in Nat
         /\ m_documentCount \in Nat
<1>1. IsFiniteSet(Column)
  BY IngestorAssumption, FS_Interval DEF Column
<1>2. IsFiniteSet(active)
  BY <1>1, FS_Subset DEF TypeOK
<1>3. IsFiniteSet(Pending)
  BY IngestorAssumption, FS_Subset DEF Pending
<1>4. m_documentCount \in Nat
  BY IngestorAssumption DEF TypeOK
<1>5. QED
  BY <1>2, <1>3, <1>4, FS_CardinalityType

LEMMA InitIInv == Init => IInv
<1> SUFFICES ASSUME Init PROVE IInv
  OBVIOUS
<1>1. TypeOK
  BY IngestorAssumption DEF Init, TypeOK, PC
<1>2. Calls /\ ColumnsOwned /\ OffTheMap /\ ContainedIsServed /\ DeleteIsNotStale
  BY IngestorAssumption DEF Init, Calls, ColumnsOwned, HasColumn, OffTheMap,
     ContainedIsServed, Contains, DeleteIsNotStale, Thread
<1>3. active = {} /\ Pending = {}
  BY DEF Init, Pending, Thread
<1>4. CountCoversServed
  BY <1>3, FS_EmptySet DEF CountCoversServed, Pending, Init
<1>5. QED
  BY <1>1, <1>2, <1>4 DEF IInv

LEMMA CountDocumentIInv ==
  ASSUME IInv, NEW a \in Adder, NEW i \in DocId, CountDocument(a, i)
  PROVE  IInv'
<1> USE IngestorAssumption DEF CountDocument, Goto
<1>1. TypeOK'
  BY DEF IInv, TypeOK, Thread, PC
<1>2. Calls'
  BY DEF IInv, TypeOK, Calls, Thread
<1>3. (ColumnsOwned /\ OffTheMap /\ ContainedIsServed /\ DeleteIsNotStale)'
  BY DEF IInv, TypeOK, Calls, ColumnsOwned, HasColumn, OffTheMap, ContainedIsServed,
     Contains, DeleteIsNotStale, Thread
<1>4. CountCoversServed'
  <2>1. Pending' = Pending \cup {a} /\ a \notin Pending
    BY DEF IInv, TypeOK, Pending, Thread
  <2>2. Cardinality(Pending') = Cardinality(Pending) + 1
    BY <2>1, SetsFinite, FS_AddElement DEF IInv
  <2>3. QED
    BY <2>2, SetsFinite DEF IInv, CountCoversServed, Pending
<1>5. QED
  BY <1>1, <1>2, <1>3, <1>4 DEF IInv

LEMMA AllocateDocumentIInv ==
  ASSUME IInv, NEW a \in Adder, AllocateDocument(a)
  PROVE  IInv'
<1> USE IngestorAssumption DEF AllocateDocument, Goto
<1>0. PICK h \in Column :
        /\ columns[h] = None
        /\ columns' = [columns EXCEPT ![h] = id[a]]
        /\ location' = [location EXCEPT ![a] = h]
  OBVIOUS
<1>1. TypeOK'
  BY <1>0 DEF IInv, TypeOK, Thread, PC
<1>2. Calls'
  BY <1>0 DEF IInv, TypeOK, Calls, Thread
<1>3. h \notin active /\ (\A i \in DocId : m_docIdToDocHandle[i] # h)
      /\ id[a] \in DocId
      /\ (\A b \in Adder : HasColumn(b) => location[b] # h)
      /\ (\A d \in Deleter : pc[d] \in {"erase", "clear"} => location[d] # h)
  BY <1>0 DEF IInv, TypeOK, Calls, ColumnsOwned, HasColumn, ContainedIsServed,
     Contains, DeleteIsNotStale, Thread
<1>4. ColumnsOwned'
  BY <1>0, <1>3 DEF IInv, TypeOK, Calls, ColumnsOwned, HasColumn, Thread
<1>5. (OffTheMap /\ ContainedIsServed /\ DeleteIsNotStale)'
  BY <1>0, <1>3 DEF IInv, TypeOK, Calls, OffTheMap, ContainedIsServed,
     Contains, DeleteIsNotStale, Thread
<1>6. Pending' = Pending
  BY DEF IInv, TypeOK, Pending, Thread
<1>7. CountCoversServed'
  BY <1>6 DEF IInv, CountCoversServed, Pending
<1>8. QED
  BY <1>1, <1>2, <1>4, <1>5, <1>7 DEF IInv

LEMMA AddThrowsIInv ==
  ASSUME IInv, NEW a \in Adder, AddThrows(a)
  PROVE  IInv'
<1> USE IngestorAssumption DEF AddThrows, Goto, Forget
<1>1. TypeOK'
  BY DEF IInv, TypeOK, Thread, PC
<1>2. Calls'
  BY DEF IInv, TypeOK, Calls, Thread
<1>3. (ColumnsOwned /\ OffTheMap /\ ContainedIsServed /\ DeleteIsNotStale)'
  BY DEF IInv, TypeOK, Calls, ColumnsOwned, HasColumn, OffTheMap, ContainedIsServed,
     Contains, DeleteIsNotStale, Thread
<1>4. CountCoversServed'
  <2>1. Pending' = Pending \ {a} /\ a \in Pending
    BY DEF IInv, TypeOK, Pending, Thread
  <2>2. Cardinality(Pending') = Cardinality(Pending) - 1
    BY <2>1, SetsFinite, FS_RemoveElement DEF IInv
  <2>3. QED
    BY <2>2, SetsFinite DEF IInv, CountCoversServed, Pending
<1>5. QED
  BY <1>1, <1>2, <1>3, <1>4 DEF IInv

LEMMA ActivateIInv ==
  ASSUME IInv, NEW a \in Adder, Activate(a)
  PROVE  IInv'
<1> USE IngestorAssumption DEF Activate, Goto
<1>0. location[a] \in Column /\ location[a] \notin active /\ id[a] \in DocId
      /\ columns[location[a]] = id[a]
  BY DEF IInv, Calls, ColumnsOwned, HasColumn, Thread
<1>1. TypeOK'
  BY <1>0 DEF IInv, TypeOK, Thread, PC
<1>2. Calls'
  BY DEF IInv, TypeOK, Calls, Thread
<1>3. (ColumnsOwned /\ OffTheMap /\ ContainedIsServed /\ DeleteIsNotStale)'
  BY <1>0 DEF IInv, TypeOK, Calls, ColumnsOwned, HasColumn, OffTheMap,
     ContainedIsServed, Contains, DeleteIsNotStale, Thread
<1>4. CountCoversServed'
  <2>1. Pending' = Pending \ {a} /\ a \in Pending
    BY DEF IInv, TypeOK, Pending, Thread
  <2>2. Cardinality(Pending') = Cardinality(Pending) - 1
    BY <2>1, SetsFinite, FS_RemoveElement DEF IInv
  <2>3. Cardinality(active') = Cardinality(active) + 1
    BY <1>0, SetsFinite, FS_AddElement DEF IInv
  <2>4. QED
    BY <2>2, <2>3, SetsFinite DEF IInv, CountCoversServed, Pending
<1>5. QED
  BY <1>1, <1>2, <1>3, <1>4 DEF IInv

LEMMA MapAddIInv ==
  ASSUME IInv, NEW a \in Adder, MapAdd(a)
  PROVE  IInv'
<1> USE IngestorAssumption DEF MapAdd, Goto, Forget
<1>0. /\ location[a] \in Column /\ location[a] \in active /\ id[a] \in DocId
      /\ columns[location[a]] = id[a]
  BY DEF IInv, Calls, ColumnsOwned, HasColumn, Thread
<1>1. TypeOK'
  BY <1>0 DEF IInv, TypeOK, Thread, PC
<1>2. Calls'
  BY DEF IInv, TypeOK, Calls, Thread
<1>3. ColumnsOwned' /\ OffTheMap'
  BY <1>0 DEF IInv, TypeOK, Calls, ColumnsOwned, HasColumn, OffTheMap, Thread
<1>4. ContainedIsServed' /\ DeleteIsNotStale'
  BY <1>0 DEF IInv, TypeOK, Calls, ContainedIsServed, Contains, DeleteIsNotStale, Thread
<1>5. Pending' = Pending
  BY DEF IInv, TypeOK, Pending, Thread
<1>6. CountCoversServed'
  BY <1>5 DEF IInv, CountCoversServed, Pending
<1>7. QED
  BY <1>1, <1>2, <1>3, <1>4, <1>6 DEF IInv

LEMMA LockDeleteIInv ==
  ASSUME IInv, NEW d \in Deleter, NEW i \in DocId, LockDelete(d, i)
  PROVE  IInv'
<1> USE IngestorAssumption DEF LockDelete, Goto
<1>1. TypeOK'
  BY DEF IInv, TypeOK, Thread, PC
<1>2. Calls'
  BY DEF IInv, TypeOK, Calls, Thread
<1>3. (ColumnsOwned /\ OffTheMap /\ ContainedIsServed /\ DeleteIsNotStale)'
  BY DEF IInv, TypeOK, Calls, ColumnsOwned, HasColumn, OffTheMap, ContainedIsServed,
     Contains, DeleteIsNotStale, Thread
<1>4. Pending' = Pending
  BY DEF IInv, TypeOK, Pending, Thread
<1>5. CountCoversServed'
  BY <1>4 DEF IInv, CountCoversServed, Pending
<1>6. QED
  BY <1>1, <1>2, <1>3, <1>5 DEF IInv

LEMMA FindIInv ==
  ASSUME IInv, NEW d \in Deleter, Find(d)
  PROVE  IInv'
<1> USE IngestorAssumption DEF Find, Goto
<1>0. id[d] \in DocId
  BY DEF IInv, Calls, Thread
<1>1. TypeOK'
  BY <1>0 DEF IInv, TypeOK, Thread, PC
<1>2. Calls'
  BY DEF IInv, TypeOK, Calls, Thread
<1>3. ColumnsOwned' /\ OffTheMap'
  BY <1>0 DEF IInv, TypeOK, Calls, ColumnsOwned, HasColumn, OffTheMap, Contains, Thread
<1>4. ContainedIsServed' /\ DeleteIsNotStale'
  BY <1>0 DEF IInv, TypeOK, Calls, ContainedIsServed, Contains, DeleteIsNotStale, Thread
<1>5. Pending' = Pending
  BY DEF IInv, TypeOK, Pending, Thread
<1>6. CountCoversServed'
  BY <1>5 DEF IInv, CountCoversServed, Pending
<1>7. QED
  BY <1>1, <1>2, <1>3, <1>4, <1>6 DEF IInv

LEMMA MapDeleteIInv ==
  ASSUME IInv, NEW d \in Deleter, MapDelete(d)
  PROVE  IInv'
<1> USE IngestorAssumption DEF MapDelete, Goto
<1>0. /\ id[d] \in DocId /\ location[d] = m_docIdToDocHandle[id[d]]
      /\ location[d] \in active /\ columns[location[d]] = id[d]
      /\ \A e \in Deleter : e # d => pc[e] = "idle"
  <2>1. id[d] \in DocId /\ pc[d] = "erase"
    BY DEF IInv, Calls, Thread
  <2>2. location[d] = m_docIdToDocHandle[id[d]] /\ location[d] \in active
    BY <2>1 DEF IInv, DeleteIsNotStale
  <2>3. columns[location[d]] = id[d]
    BY <2>1, <2>2 DEF IInv, TypeOK, ContainedIsServed, Contains
  <2>4. QED
    BY <2>1, <2>2, <2>3 DEF IInv, Calls
<1>1. TypeOK'
  BY <1>0 DEF IInv, TypeOK, Thread, PC
<1>2. Calls'
  BY DEF IInv, TypeOK, Calls, Thread
<1>3. ColumnsOwned'
  BY <1>0 DEF IInv, TypeOK, Calls, ColumnsOwned, HasColumn, Thread
<1>4. OffTheMap' /\ ContainedIsServed' /\ DeleteIsNotStale'
  BY <1>0 DEF IInv, TypeOK, Calls, OffTheMap, ContainedIsServed, Contains,
     DeleteIsNotStale, Thread
<1>5. Pending' = Pending
  BY DEF IInv, TypeOK, Pending, Thread
<1>6. CountCoversServed'
  BY <1>5 DEF IInv, CountCoversServed, Pending
<1>7. QED
  BY <1>1, <1>2, <1>3, <1>4, <1>6 DEF IInv

LEMMA ExpireIInv ==
  ASSUME IInv, NEW d \in Deleter, Expire(d)
  PROVE  IInv'
<1> USE IngestorAssumption DEF Expire, Goto
<1>0. location[d] \in active /\ \A e \in Deleter : e # d => pc[e] = "idle"
  BY DEF IInv, TypeOK, Calls, Thread, DeleteIsNotStale
<1>1. TypeOK'
  BY DEF IInv, TypeOK, Thread, PC
<1>2. Calls'
  BY DEF IInv, TypeOK, Calls, Thread
<1>3. ColumnsOwned' /\ OffTheMap'
  BY <1>0 DEF IInv, TypeOK, Calls, ColumnsOwned, HasColumn, OffTheMap, Thread
<1>4. ContainedIsServed' /\ DeleteIsNotStale'
  BY <1>0 DEF IInv, TypeOK, Calls, OffTheMap, ContainedIsServed, Contains,
     DeleteIsNotStale, Thread
<1>5. Pending' = Pending
  BY DEF IInv, TypeOK, Pending, Thread
<1>6. Cardinality(active') = Cardinality(active) - 1
  BY <1>0, SetsFinite, FS_RemoveElement DEF IInv
<1>7. CountCoversServed'
  <2>1. Cardinality(active) + Cardinality(Pending) <= m_documentCount
    BY DEF IInv, CountCoversServed, Pending
  <2>2. Cardinality(active') + Cardinality(Pending') <= m_documentCount'
    BY <1>5, <1>6, <2>1, SetsFinite DEF IInv
  <2>3. QED
    BY <2>2 DEF CountCoversServed, Pending
<1>8. QED
  BY <1>1, <1>2, <1>3, <1>4, <1>7 DEF IInv

LEMMA EndDeleteIInv ==
  ASSUME IInv, NEW d \in Deleter, EndDelete(d)
  PROVE  IInv'
<1> USE IngestorAssumption DEF EndDelete, Goto, Forget
<1>0. \A e \in Deleter : e # d => pc[e] = "idle"
  BY DEF IInv, TypeOK, Calls, Thread
<1>1. TypeOK'
  BY DEF IInv, TypeOK, Thread, PC
<1>2. Calls'
  BY <1>0 DEF IInv, TypeOK, Calls, Thread
<1>3. (ColumnsOwned /\ OffTheMap /\ ContainedIsServed /\ DeleteIsNotStale)'
  BY <1>0 DEF IInv, TypeOK, Calls, ColumnsOwned, HasColumn, OffTheMap,
     ContainedIsServed, Contains, DeleteIsNotStale, Thread
<1>4. Pending' = Pending
  BY DEF IInv, TypeOK, Pending, Thread
<1>5. CountCoversServed'
  BY <1>4 DEF IInv, CountCoversServed, Pending
<1>6. QED
  BY <1>1, <1>2, <1>3, <1>5 DEF IInv

LEMMA NextIInv == IInv /\ [Next]_vars => IInv'
<1> SUFFICES ASSUME IInv, [Next]_vars PROVE IInv'
  OBVIOUS
<1>1. CASE UNCHANGED vars
  BY <1>1 DEF vars, IInv, TypeOK, Calls, ColumnsOwned, HasColumn, OffTheMap,
     ContainedIsServed, Contains, DeleteIsNotStale, CountCoversServed
<1>2. QED
  BY <1>1, CountDocumentIInv, AllocateDocumentIInv, AddThrowsIInv, ActivateIInv,
     MapAddIInv, LockDeleteIInv, FindIInv, MapDeleteIInv, ExpireIInv, EndDeleteIInv
  DEF Next

-----------------------------------------------------------------------------
(* The inductive invariant holds in every reachable state.               *)
THEOREM Invariant == Spec => []IInv
<1>1. QED
  BY InitIInv, NextIInv, PTL DEF Spec

(* What the map has is served, under its own DocId, and a Delete acts on   *)
(* what is there: also if clients add a DocId twice.                       *)
THEOREM MapAndBitsAgree == Spec => [](ContainedIsServed /\ DeleteIsNotStale)
<1>1. IInv => ContainedIsServed /\ DeleteIsNotStale
  BY DEF IInv
<1>2. QED
  BY <1>1, Invariant, PTL

(* GetDocumentCount bounds what a query can match.                         *)
THEOREM CountCovers == Spec => [](TypeOK /\ CountCoversServed)
<1>1. IInv => TypeOK /\ CountCoversServed
  BY DEF IInv
<1>2. QED
  BY <1>1, Invariant, PTL

(* Unless its DocId is repeated, every document served can be deleted.     *)
LEMMA NextNoRepeats ==
  ASSUME IInv, NoRepeats, ServedCanBeDeleted, [Next]_vars
  PROVE  NoRepeats' /\ ServedCanBeDeleted'
<1>0. /\ pc \in [Thread -> PC] /\ id \in [Thread -> DocId \cup {None}]
      /\ Adder \subseteq Thread /\ Deleter \subseteq Thread /\ Adder \cap Deleter = {}
      /\ location \in [Thread -> Column \cup {None}]
      /\ columns \in [Column -> DocId \cup {None}] /\ active \subseteq Column
      /\ m_docIdToDocHandle \in [DocId -> Column \cup {None}]
      /\ None \notin DocId /\ None \notin Column
      /\ \A h \in active : columns[h] \in DocId
      /\ \A a \in Adder : pc[a] # "idle" => id[a] \in DocId
  BY IngestorAssumption DEF IInv, TypeOK, Thread, ColumnsOwned, Calls
<1>1. CASE UNCHANGED vars
  BY <1>1 DEF vars, NoRepeats, ServedCanBeDeleted, Contains
<1>2. ASSUME NEW a \in Adder, NEW i \in DocId, CountDocument(a, i)
      PROVE  NoRepeats' /\ ServedCanBeDeleted'
  <2>1. /\ pc' = [pc EXCEPT ![a] = "allocate"] /\ pc[a] = "idle"
        /\ id' = [id EXCEPT ![a] = i]
        /\ UNCHANGED <<columns, active, m_docIdToDocHandle, location>>
    BY <1>2 DEF CountDocument, Goto
  <2>2. /\ repeated \subseteq repeated'
        /\ Contains(i) \/ BeingAdded(i) => i \in repeated'
    BY <1>2 DEF CountDocument
  <2>3. NoRepeats'
    <3>1. ASSUME NEW b \in Adder, pc'[b] # "idle"
          PROVE  id'[b] \in repeated' \/ ~Contains(id'[b])
      BY <1>0, <2>1, <2>2, <3>1 DEF NoRepeats, Contains
    <3>2. ASSUME NEW b \in Adder, NEW c \in Adder, b # c, pc'[b] # "idle"
          PROVE  id'[b] \in repeated' \/ id'[b] # id'[c]
      <4>1. CASE b = a
        BY <1>0, <2>1, <2>2, <3>2, <4>1 DEF BeingAdded
      <4>2. CASE c = a
        BY <1>0, <2>1, <2>2, <3>2, <4>2 DEF BeingAdded
      <4>3. CASE b # a /\ c # a
        BY <1>0, <2>1, <2>2, <3>2, <4>3 DEF NoRepeats
      <4>4. QED
        BY <4>1, <4>2, <4>3
    <3>3. \A j : Contains(j)' <=> Contains(j)
      BY <2>1 DEF Contains
    <3>4. QED
      BY <3>1, <3>2, <3>3 DEF NoRepeats
  <2>4. ServedCanBeDeleted'
    BY <1>0, <2>1, <2>2 DEF ServedCanBeDeleted
  <2>5. QED
    BY <2>3, <2>4
<1>3. ASSUME NEW a \in Adder, AllocateDocument(a)
      PROVE  NoRepeats' /\ ServedCanBeDeleted'
  <2>1. PICK h \in Column :
          /\ columns[h] = None
          /\ columns' = [columns EXCEPT ![h] = id[a]]
          /\ location' = [location EXCEPT ![a] = h]
    BY <1>3 DEF AllocateDocument
  <2>2. h \notin active /\ pc[a] = "allocate" /\ pc' = [pc EXCEPT ![a] = "ingest"]
    BY <1>0, <1>3, <2>1 DEF AllocateDocument, Goto
  <2>3. UNCHANGED <<active, m_docIdToDocHandle, id, repeated>>
    BY <1>3 DEF AllocateDocument
  <2>4. NoRepeats'
    BY <1>0, <2>2, <2>3 DEF NoRepeats, Contains
  <2>5. ServedCanBeDeleted'
    BY <1>0, <2>1, <2>2, <2>3 DEF ServedCanBeDeleted
  <2>6. QED
    BY <2>4, <2>5
<1>4. ASSUME NEW a \in Adder, AddThrows(a)
      PROVE  NoRepeats' /\ ServedCanBeDeleted'
  BY <1>0, <1>4 DEF AddThrows, Goto, Forget, NoRepeats, ServedCanBeDeleted, Contains
<1>5. ASSUME NEW a \in Adder, Activate(a)
      PROVE  NoRepeats' /\ ServedCanBeDeleted'
  BY <1>0, <1>5 DEF Activate, Goto, NoRepeats, ServedCanBeDeleted, Contains
<1>6. ASSUME NEW a \in Adder, MapAdd(a)
      PROVE  NoRepeats' /\ ServedCanBeDeleted'
  <2>1. /\ id[a] \in DocId /\ location[a] \in Column
        /\ columns[location[a]] = id[a]
        /\ id[a] \in repeated \/ ~Contains(id[a])
        /\ \/ m_docIdToDocHandle' = m_docIdToDocHandle /\ id[a] \in repeated
           \/ m_docIdToDocHandle' = [m_docIdToDocHandle EXCEPT ![id[a]] = location[a]]
    BY <1>0, <1>6 DEF MapAdd, Goto, IInv, ColumnsOwned, HasColumn, NoRepeats
  <2>2. /\ pc' = [pc EXCEPT ![a] = "idle"] /\ pc[a] = "activated"
        /\ id' = [id EXCEPT ![a] = None] /\ location' = [location EXCEPT ![a] = None]
        /\ UNCHANGED <<active, columns, repeated>>
    BY <1>6 DEF MapAdd, Goto, Forget
  <2>3. NoRepeats'
    <3>1. \A b \in Adder : pc'[b] # "idle" => b # a /\ pc[b] # "idle" /\ id'[b] = id[b]
      BY <1>0, <2>2
    <3>2. \A j \in DocId : j # id[a] => m_docIdToDocHandle'[j] = m_docIdToDocHandle[j]
      BY <1>0, <2>1
    <3>3. ASSUME NEW b \in Adder, pc'[b] # "idle"
          PROVE  id'[b] \in repeated' \/ m_docIdToDocHandle'[id'[b]] = None
      <4>1. id[b] \in repeated \/ (m_docIdToDocHandle[id[b]] = None /\ id[b] # id[a])
        BY <3>1, <3>3 DEF NoRepeats, Contains
      <4>2. id[b] \in DocId
        BY <1>0, <3>1, <3>3
      <4>3. QED
        BY <4>1, <4>2, <3>1, <3>2, <3>3, <2>2
    <3>4. ASSUME NEW b \in Adder, NEW c \in Adder, b # c, pc'[b] # "idle"
          PROVE  id'[b] \in repeated' \/ id'[b] # id'[c]
      <4>1. id'[c] = id[c] \/ id'[c] = None
        BY <1>0, <2>2
      <4>2. id'[b] = id[b] /\ id[b] \in DocId /\ pc[b] # "idle"
        BY <1>0, <3>1, <3>4
      <4>3. QED
        BY <1>0, <2>2, <3>4, <4>1, <4>2 DEF NoRepeats
    <3>5. QED
      BY <3>3, <3>4 DEF NoRepeats, Contains
  <2>4. ServedCanBeDeleted'
    <3> SUFFICES ASSUME NEW h \in active', columns[h] \notin repeated
                 PROVE  \/ m_docIdToDocHandle'[columns[h]] = h
                        \/ \E b \in Adder : pc'[b] = "activated" /\ location'[b] = h
                        \/ \E d \in Deleter : pc'[d] = "clear" /\ location'[d] = h
      BY <2>2 DEF ServedCanBeDeleted
    <3>1. CASE h = location[a]
      BY <1>0, <2>1, <3>1
    <3>2. CASE m_docIdToDocHandle[columns[h]] = h /\ h # location[a]
      BY <1>0, <2>1, <2>2, <3>2 DEF Contains
    <3>3. CASE \E b \in Adder : pc[b] = "activated" /\ location[b] = h /\ h # location[a]
      BY <1>0, <2>2, <3>3
    <3>4. CASE \E d \in Deleter : pc[d] = "clear" /\ location[d] = h
      BY <1>0, <2>2, <3>4
    <3>5. QED
      BY <2>2, <3>1, <3>2, <3>3, <3>4 DEF ServedCanBeDeleted
  <2>5. QED
    BY <2>3, <2>4
<1>7. ASSUME NEW d \in Deleter, NEW i \in DocId, LockDelete(d, i)
      PROVE  NoRepeats' /\ ServedCanBeDeleted'
  BY <1>0, <1>7 DEF LockDelete, Goto, NoRepeats, ServedCanBeDeleted, Contains
<1>8. ASSUME NEW d \in Deleter, Find(d)
      PROVE  NoRepeats' /\ ServedCanBeDeleted'
  BY <1>0, <1>8 DEF Find, Goto, NoRepeats, ServedCanBeDeleted, Contains
<1>9. ASSUME NEW d \in Deleter, MapDelete(d)
      PROVE  NoRepeats' /\ ServedCanBeDeleted'
  <2>1. location[d] = m_docIdToDocHandle[id[d]]
    BY <1>9 DEF MapDelete, Goto, IInv, DeleteIsNotStale
  <2>2. QED
    BY <1>0, <1>9, <2>1 DEF MapDelete, Goto, NoRepeats, ServedCanBeDeleted, Contains
<1>10. ASSUME NEW d \in Deleter, Expire(d)
      PROVE  NoRepeats' /\ ServedCanBeDeleted'
  BY <1>0, <1>10 DEF Expire, Goto, NoRepeats, ServedCanBeDeleted, Contains
<1>11. ASSUME NEW d \in Deleter, EndDelete(d)
      PROVE  NoRepeats' /\ ServedCanBeDeleted'
  BY <1>0, <1>11 DEF EndDelete, Goto, Forget, NoRepeats, ServedCanBeDeleted, Contains
<1>12. QED
  BY <1>1, <1>2, <1>3, <1>4, <1>5, <1>6, <1>7, <1>8, <1>9, <1>10, <1>11 DEF Next

(* What is served can be deleted, unless its DocId has been added while    *)
(* it was there, or on its way.                                            *)
THEOREM ServedIsReachable == Spec => []ServedCanBeDeleted
<1>1. Init => NoRepeats /\ ServedCanBeDeleted
  BY DEF Init, NoRepeats, ServedCanBeDeleted, Thread
<1>2. IInv /\ NoRepeats /\ ServedCanBeDeleted /\ [Next]_vars
        => (NoRepeats /\ ServedCanBeDeleted)'
  BY NextNoRepeats
<1>3. QED
  BY <1>1, <1>2, Invariant, PTL DEF Spec

(* Add, Delete and Contains act on a set, in one step each.                *)
THEOREM ImplementsDocumentSet == Spec => DocumentSetSpec
<1> DEFINE contents == {i \in DocId : Contains(i)}
           answer == [d \in Deleter |-> Answer(d)]
<1>1. Init => DocumentSet!Init
  BY DEF Init, DocumentSet!Init, Contains, Answer, Thread
<1>2. IInv /\ [Next]_vars => [DocumentSet!Next]_DocumentSet!vars
  <2> SUFFICES ASSUME IInv, [Next]_vars
               PROVE  DocumentSet!Next \/ UNCHANGED <<contents, answer>>
    BY DEF DocumentSet!vars
  <2>0. /\ pc \in [Thread -> PC] /\ id \in [Thread -> DocId \cup {None}]
        /\ Adder \subseteq Thread /\ Deleter \subseteq Thread /\ Adder \cap Deleter = {}
        /\ location \in [Thread -> Column \cup {None}]
        /\ m_docIdToDocHandle \in [DocId -> Column \cup {None}]
        /\ None \notin DocId /\ None \notin Column /\ None \notin BOOLEAN
        /\ \A t \in Thread : pc[t] # "idle" => id[t] \in DocId
    BY IngestorAssumption DEF IInv, TypeOK, Thread, Calls
  <2>1. CASE UNCHANGED vars
    BY <2>1 DEF vars, Contains, Answer
  <2>2. ASSUME NEW a \in Adder, NEW i \in DocId, CountDocument(a, i)
        PROVE  UNCHANGED <<contents, answer>>
    BY <2>0, <2>2 DEF CountDocument, Goto, Contains, Answer
  <2>3. ASSUME NEW a \in Adder, AllocateDocument(a)
        PROVE  UNCHANGED <<contents, answer>>
    BY <2>0, <2>3 DEF AllocateDocument, Goto, Contains, Answer
  <2>4. ASSUME NEW a \in Adder, AddThrows(a) \/ Activate(a)
        PROVE  UNCHANGED <<contents, answer>>
    BY <2>0, <2>4 DEF AddThrows, Activate, Forget, Goto, Contains, Answer
  <2>5. ASSUME NEW a \in Adder, MapAdd(a)
        PROVE  DocumentSet!Add(id[a]) /\ id[a] \in DocId
    <3>1. location[a] \in Column /\ id[a] \in DocId
      BY <2>0, <2>5 DEF MapAdd, Goto, IInv, ColumnsOwned, HasColumn
    <3>2. contents' = contents \cup {id[a]}
      BY <2>0, <2>5, <3>1 DEF MapAdd, Contains
    <3>3. answer' = answer
      BY <2>0, <2>5 DEF MapAdd, Goto, Forget, Answer
    <3>4. QED
      BY <3>1, <3>2, <3>3 DEF DocumentSet!Add
  <2>6. ASSUME NEW d \in Deleter, NEW i \in DocId, LockDelete(d, i)
        PROVE  UNCHANGED <<contents, answer>>
    BY <2>0, <2>6 DEF LockDelete, Goto, Contains, Answer
  <2>7. ASSUME NEW d \in Deleter, Find(d)
        PROVE  DocumentSet!Next \/ UNCHANGED <<contents, answer>>
    <3>1. id[d] \in DocId /\ contents' = contents
      BY <2>0, <2>7 DEF Find, Goto, Contains
    <3>2. CASE Contains(id[d])
      BY <2>0, <2>7, <3>1, <3>2 DEF Find, Goto, Answer
    <3>3. CASE ~Contains(id[d])
      <4>1. answer[d] = None /\ answer' = [answer EXCEPT ![d] = FALSE]
        BY <2>0, <2>7, <3>1, <3>3 DEF Find, Goto, Answer, Contains
      <4>2. (id[d] \in contents) = FALSE /\ contents' = contents \ {id[d]}
        BY <3>1, <3>3
      <4>3. DocumentSet!Delete(d, id[d])
        BY <4>1, <4>2, Zenon DEF DocumentSet!Delete
      <4>4. QED
        BY <3>1, <4>3 DEF DocumentSet!Next
    <3>4. QED
      BY <3>2, <3>3
  <2>8. ASSUME NEW d \in Deleter, MapDelete(d)
        PROVE  DocumentSet!Delete(d, id[d]) /\ id[d] \in DocId
    <3>1. /\ id[d] \in DocId /\ pc[d] = "erase"
          /\ location[d] = m_docIdToDocHandle[id[d]] /\ location[d] \in active
      BY <2>0, <2>8 DEF MapDelete, Goto, IInv, DeleteIsNotStale
    <3>2. location[d] # None
      BY <2>0, <3>1 DEF IInv, TypeOK
    <3>3. id[d] \in contents
      BY <3>1, <3>2 DEF Contains
    <3>4. contents' = contents \ {id[d]}
      BY <2>0, <2>8, <3>1 DEF MapDelete, Contains
    <3>5. answer[d] = None /\ answer' = [answer EXCEPT ![d] = TRUE]
      BY <2>0, <2>8, <3>1, <3>2 DEF MapDelete, Goto, Answer
    <3>6. QED
      <4>1. (id[d] \in contents) = TRUE
        BY <3>3
      <4>2. QED
        BY <3>1, <3>4, <3>5, <4>1, Zenon DEF DocumentSet!Delete
  <2>9. ASSUME NEW d \in Deleter, Expire(d)
        PROVE  UNCHANGED <<contents, answer>>
    BY <2>0, <2>9 DEF Expire, Goto, Contains, Answer
  <2>10. ASSUME NEW d \in Deleter, EndDelete(d)
         PROVE  DocumentSet!Return(d)
    <3>1. contents' = contents
      BY <2>10 DEF EndDelete, Contains
    <3>2. pc[d] = "unlock" /\ pc' = [pc EXCEPT ![d] = "idle"]
          /\ location' = [location EXCEPT ![d] = None]
      BY <2>10 DEF EndDelete, Goto, Forget
    <3>3. answer[d] # None /\ answer' = [answer EXCEPT ![d] = None]
      <4>1. answer[d] \in BOOLEAN
        BY <3>2 DEF Answer
      <4>2. answer' = [answer EXCEPT ![d] = None]
        BY <2>0, <3>2 DEF Answer
      <4>3. QED
        BY <2>0, <4>1, <4>2
    <3>4. QED
      BY <3>1, <3>3 DEF DocumentSet!Return
  <2>11. QED
    BY <2>1, <2>2, <2>3, <2>4, <2>5, <2>6, <2>7, <2>8, <2>9, <2>10
    DEF Next, DocumentSet!Next
<1>3. QED
  BY <1>1, <1>2, Invariant, PTL DEF Spec, DocumentSetSpec, DocumentSet!Spec

-----------------------------------------------------------------------------
(* The walk                                                                *)
WalkProofs == INSTANCE ShardIteratorProofs WITH
  Slice <- {SliceOf(h) : h \in Column},
  active <- {Place(h) : h \in active}, pc <- at

LEMMA PlaceIsAPosition ==
  ASSUME NEW h \in Column
  PROVE  Place(h) \in WalkProofs!Position
<1>1. h - 1 \in Nat
  BY DEF Column
<1>2. (h - 1) % m_sliceCapacity \in 0 .. m_sliceCapacity - 1
  BY <1>1, IngestionAssumption
<1>3. Place(h)[1] = SliceOf(h) /\ Place(h) = <<SliceOf(h), (h - 1) % m_sliceCapacity>>
  BY DEF Place, SliceOf
<1>4. QED
  BY <1>2, <1>3 DEF WalkProofs!Position

LEMMA BesideWalk ==
  ASSUME WalkProofs!IInv, active' \subseteq Column, Beside
  PROVE  WalkProofs!IInv'
<1>1. {Place(h) : h \in active'} \subseteq WalkProofs!Position
  BY PlaceIsAPosition
<1>2. stable' \subseteq stable /\ stable' \subseteq {Place(h) : h \in active'}
  BY DEF Beside
<1>3. UNCHANGED <<m_sliceBuffers, m_sliceIndex, m_sliceOffset, at, visited>>
  BY DEF Beside
<1>4. QED
  BY <1>1, <1>2, <1>3, WalkProofs!BesideHolds

-----------------------------------------------------------------------------
(* The threads of the ingestion and what they have in their hands          *)

IsMap(f, S) == f = [x \in S |-> f[x]]
InChunk(a) == task[a] \notin {None, Finished}

Types ==
  /\ manifest \in Manifests
  /\ \A c \in 1 .. Len(manifest) : OutOf(chunks[c], manifest[c])
  /\ m_nextTaskId \in 1 .. Len(manifest) + 1
  /\ task \in [Adder -> {None, Finished} \cup 1 .. Len(manifest)]
  /\ m_next \in [Adder -> Nat \ {0}]
  /\ IsMap(m_currentDocument, Adder) /\ IsMap(postings, Column)
  /\ thrown \in BOOLEAN

(* A thread's chunk has been taken from the distributor, its document is   *)
(* the last that was read of it, and is what it is adding.                 *)
InHands(a) ==
  /\ InChunk(a) => task[a] < m_nextTaskId /\ m_next[a] <= Len(Documents(a)) + 1
  /\ m_currentDocument[a] # NoDocument =>
       InChunk(a) /\ m_next[a] > 1 /\ m_currentDocument[a] = Documents(a)[m_next[a] - 1]
  /\ pc[a] # "idle" =>
       m_currentDocument[a] # NoDocument /\ id[a] = m_currentDocument[a].m_docId
  /\ pc[a] \in {"idle", "allocate"} => location[a] = None

(* No chunk is with two threads, and one that throws keeps its chunk.      *)
Taken ==
  /\ \A a, b \in Adder : a # b /\ InChunk(a) => task[a] # task[b]
  /\ \A a \in Adder : task[a] = Finished => m_nextTaskId = Len(manifest) + 1
  /\ thrown => \E a \in Adder : InChunk(a)

Threads == Types /\ (\A a \in Adder : InHands(a)) /\ Taken

LEMMA MapChanged ==
  ASSUME NEW S, NEW f, IsMap(f, S), NEW x \in S, NEW v, NEW g, g = [f EXCEPT ![x] = v]
  PROVE  IsMap(g, S) /\ g[x] = v /\ \A y \in S : y # x => g[y] = f[y]
BY DEF IsMap

LEMMA NoneIsNotFinished == None # Finished /\ None \notin Nat
BY IngestionAssumption DEF Finished

LEMMA ManifestType ==
  ASSUME Types, NEW c \in 1 .. Len(manifest)
  PROVE  /\ manifest[c] \in [documents : Seq([id : DocId, streams : Seq(Seq(STRING))]),
                             cut : Nat]
         /\ Len(manifest) \in Nat
<1>1. manifest \in Seq([documents : Seq([id : DocId, streams : Seq(Seq(STRING))]), cut : Nat])
  BY IngestionAssumption DEF Types
<1>2. QED
  BY <1>1, ElementOfSeq, LenProperties

(* A document that is read is one of those that were written.              *)
LEMMA ReadIsWritten ==
  ASSUME Types, NEW c \in 1 .. Len(manifest), NEW k \in 1 .. Len(chunks[c].documents)
  PROVE  /\ k \in DocumentsOf(c) /\ manifest[c].documents[k] \in Written
         /\ AsWritten(chunks[c].documents[k], manifest[c].documents[k])
         /\ manifest[c].documents[k].id \in DocId
<1>1. PICK written, read : written = manifest[c].documents /\ read = chunks[c].documents
  OBVIOUS
<1>2. written \in Seq([id : DocId, streams : Seq(Seq(STRING))])
  BY <1>1, ManifestType
<1>3. /\ Len(read) \in Nat /\ Len(read) <= Len(written)
      /\ \A i \in 1 .. Len(read) : AsWritten(read[i], written[i])
  BY <1>1 DEF Types, OutOf
<1>4. k \in 1 .. Len(written)
  BY <1>1, <1>2, <1>3, LenProperties
<1>5. written[k] \in [id : DocId, streams : Seq(Seq(STRING))]
  BY <1>2, <1>4, ElementOfSeq
<1>6. AsWritten(read[k], written[k])
  BY <1>1, <1>3
<1>7. manifest[c].documents[k] \in Written
  <2>1. PICK S : S = {manifest[c].documents[j] : j \in 1 .. Len(manifest[c].documents)}
    OBVIOUS
  <2>2. manifest[c].documents[k] \in S
    BY <1>1, <1>4, <2>1
  <2>3. QED
    BY <2>1, <2>2 DEF Written
<1>8. QED
  BY <1>1, <1>4, <1>5, <1>6, <1>7 DEF DocumentsOf

LEMMA InHandsIsRead ==
  ASSUME Threads, NEW a \in Adder, InChunk(a)
  PROVE  /\ task[a] \in 1 .. Len(manifest) /\ Len(Documents(a)) \in Nat
         /\ m_currentDocument[a] # NoDocument =>
              m_next[a] - 1 \in 1 .. Len(chunks[task[a]].documents)
<1>1. task[a] \in 1 .. Len(manifest)
  BY DEF Threads, Types, InChunk
<1>2. Len(Documents(a)) \in Nat
  BY <1>1 DEF Threads, Types, OutOf, Documents
<1>3. m_next[a] \in Nat \ {0} /\ m_next[a] <= Len(Documents(a)) + 1
  BY DEF Threads, Types, InHands
<1>4. m_currentDocument[a] # NoDocument => m_next[a] > 1
  BY DEF Threads, InHands
<1>5. QED
  BY <1>1, <1>2, <1>3, <1>4 DEF Documents

(* What a thread is adding has a DocId.                                    *)
LEMMA DocumentNext ==
  ASSUME Threads, NEW a \in Adder, ReadDocument(a)
  PROVE  /\ InChunk(a) /\ m_next[a] \in 1 .. Len(chunks[task[a]].documents)
         /\ m_currentDocument'[a] = chunks[task[a]].documents[m_next[a]]
         /\ m_currentDocument'[a].m_docId \in DocId
<1>1. InChunk(a) /\ pc[a] = "idle" /\ m_next[a] <= Len(Documents(a))
  BY DEF ReadDocument, IsReading, InChunk
<1>2. m_next[a] \in Nat \ {0}
  BY DEF Threads, Types
<1>3. task[a] \in 1 .. Len(manifest) /\ Len(Documents(a)) \in Nat
  BY <1>1, InHandsIsRead
<1>4. m_next[a] \in 1 .. Len(chunks[task[a]].documents)
  BY <1>1, <1>2, <1>3 DEF Documents
<1>5. m_currentDocument'[a] = chunks[task[a]].documents[m_next[a]]
  <2>1. m_currentDocument' = [m_currentDocument EXCEPT ![a] = Documents(a)[m_next[a]]]
    BY DEF ReadDocument
  <2>2. m_currentDocument'[a] = Documents(a)[m_next[a]]
    BY <2>1 DEF Threads, Types, IsMap
  <2>3. QED
    BY <2>2 DEF Documents
<1>6. AsWritten(chunks[task[a]].documents[m_next[a]], manifest[task[a]].documents[m_next[a]])
      /\ manifest[task[a]].documents[m_next[a]].id \in DocId
  BY <1>3, <1>4, ReadIsWritten DEF Threads
<1>7. QED
  BY <1>1, <1>4, <1>5, <1>6 DEF AsWritten

LEMMA IngestChunksIsIngestor ==
  ASSUME Threads, NEW a \in Adder, IngestChunks(a)
  PROVE  [Next]_vars
<1>1. CASE ReadDocument(a)
  <2>1. PICK i \in DocId : CountDocument(a, i)
    BY <1>1, DocumentNext DEF ReadDocument
  <2>2. QED
    BY <2>1 DEF Next
<1>2. CASE TakeChunk(a) \/ EndChunk(a) \/ ReaderThrows(a) \/ CacheDocument(a)
  BY <1>2 DEF TakeChunk, EndChunk, ReaderThrows, CacheDocument
<1>3. CASE Allocate(a) \/ IngestorThrows(a) \/ Ingest(a) \/ EndAdd(a)
  BY <1>3 DEF Allocate, IngestorThrows, Ingest, EndAdd, Next
<1>4. QED
  BY <1>1, <1>2, <1>3 DEF IngestChunks

LEMMA DeleteIsIngestor ==
  ASSUME NEW d \in Deleter, DeleteDocument(d)
  PROVE  [Next]_vars
BY IngestionAssumption DEF DeleteDocument, Next

LEMMA StepIsIngestor ==
  ASSUME Threads, [IngestionNext]_allVars
  PROVE  [Next]_vars
<1>1. CASE UNCHANGED allVars
  BY <1>1 DEF allVars
<1>2. CASE BeginWalk \/ WalkStep
  BY <1>2 DEF BeginWalk, WalkStep, Walk
<1>3. QED
  BY <1>1, <1>2, IngestChunksIsIngestor, DeleteIsIngestor DEF IngestionNext, IngestStep

LEMMA InitThreads == IngestionInit => Threads
<1> SUFFICES ASSUME IngestionInit PROVE Threads
  OBVIOUS
<1>1. manifest \in Seq([documents : Seq([id : DocId, streams : Seq(Seq(STRING))]), cut : Nat])
  BY IngestionAssumption DEF IngestionInit
<1>2. ASSUME NEW c \in 1 .. Len(manifest) PROVE OutOf(chunks[c], manifest[c])
  <2>1. manifest[c] \in [documents : Seq([id : DocId, streams : Seq(Seq(STRING))]), cut : Nat]
    BY <1>1, ElementOfSeq
  <2>2. chunks[c] = ChunkReader(Items(manifest[c]))
    BY DEF IngestionInit
  <2>3. QED
    BY <2>1, <2>2, ChunkRead
<1>3. Len(manifest) \in Nat
  BY <1>1, LenProperties
<1>4. Types
  <2>1. IsMap(m_currentDocument, Adder)
    <3>1. m_currentDocument = [a \in Adder |-> NoDocument]
      BY DEF IngestionInit
    <3>2. QED
      BY <3>1 DEF IsMap
  <2>2. IsMap(postings, Column)
    <3>1. postings = [h \in Column |-> {}]
      BY DEF IngestionInit
    <3>2. QED
      BY <3>1 DEF IsMap
  <2>3. task \in [Adder -> {None, Finished} \cup 1 .. Len(manifest)]
        /\ m_next \in [Adder -> Nat \ {0}]
    BY DEF IngestionInit
  <2>4. manifest \in Manifests /\ m_nextTaskId = 1 /\ thrown = FALSE
    BY DEF IngestionInit
  <2>5. m_nextTaskId \in 1 .. Len(manifest) + 1
    BY <1>3, <2>4
  <2>6. QED
    BY <1>2, <2>1, <2>2, <2>3, <2>4, <2>5 DEF Types
<1>5. \A a \in Adder : task[a] = None /\ m_currentDocument[a] = NoDocument
  BY DEF IngestionInit
<1>6. \A a \in Adder : pc[a] = "idle" /\ location[a] = None
  BY DEF IngestionInit, Init, Thread
<1>7. \A a \in Adder : InHands(a)
  BY <1>5, <1>6 DEF InHands, InChunk
<1>8. Taken
  BY <1>5, NoneIsNotFinished DEF Taken, InChunk, IngestionInit
<1>9. QED
  BY <1>4, <1>7, <1>8 DEF Threads

(* The steps of a thread leave alone what the others have in their hands.  *)
OthersStay(t) ==
  \A b \in Adder : b # t =>
    /\ task'[b] = task[b] /\ m_next'[b] = m_next[b]
    /\ m_currentDocument'[b] = m_currentDocument[b]
    /\ pc'[b] = pc[b] /\ id'[b] = id[b] /\ location'[b] = location[b]

LEMMA OthersInHands ==
  ASSUME Threads, NEW t, OthersStay(t), chunks' = chunks, NEW b \in Adder, b # t,
         m_nextTaskId' \in {m_nextTaskId, m_nextTaskId + 1}
  PROVE  InHands(b)'
<1>1. /\ task'[b] = task[b] /\ m_next'[b] = m_next[b]
      /\ m_currentDocument'[b] = m_currentDocument[b]
      /\ pc'[b] = pc[b] /\ id'[b] = id[b] /\ location'[b] = location[b]
  BY DEF OthersStay
<1>2. m_nextTaskId \in Nat
  BY DEF Threads, Types
<1>3. InHands(b) /\ task[b] \in {None, Finished} \cup 1 .. Len(manifest)
  BY DEF Threads, Types
<1>4. QED
  BY <1>1, <1>2, <1>3 DEF InHands, InChunk, Documents

LEMMA IngestStays ==
  ASSUME TypeOK, Threads, NEW a \in Adder, IngestChunks(a)
  PROVE  OthersStay(a)
<1>1. /\ pc \in [Thread -> PC] /\ id \in [Thread -> DocId \cup {None}]
      /\ location \in [Thread -> Column \cup {None}] /\ Adder \subseteq Thread
      /\ task \in [Adder -> {None, Finished} \cup 1 .. Len(manifest)]
      /\ m_next \in [Adder -> Nat \ {0}] /\ IsMap(m_currentDocument, Adder)
  BY DEF TypeOK, Threads, Types, Thread
<1>2. CASE TakeChunk(a) \/ EndChunk(a) \/ ReaderThrows(a) \/ CacheDocument(a)
  BY <1>1, <1>2 DEF TakeChunk, EndChunk, ReaderThrows, CacheDocument, OthersStay, IsMap, vars
<1>3. CASE ReadDocument(a)
  BY <1>1, <1>3 DEF ReadDocument, CountDocument, Goto, OthersStay, IsMap
<1>4. CASE Allocate(a)
  BY <1>1, <1>4 DEF Allocate, AllocateDocument, Goto, OthersStay, reading
<1>5. CASE IngestorThrows(a)
  BY <1>1, <1>5 DEF IngestorThrows, AddThrows, Goto, Forget, OthersStay
<1>6. CASE Ingest(a) \/ EndAdd(a)
  BY <1>1, <1>6 DEF Ingest, EndAdd, Activate, MapAdd, Goto, Forget, OthersStay, reading
<1>7. QED
  BY <1>2, <1>3, <1>4, <1>5, <1>6 DEF IngestChunks

LEMMA DeleteStays ==
  ASSUME TypeOK, NEW d \in Deleter, DeleteDocument(d)
  PROVE  OthersStay(d)
<1>1. /\ pc \in [Thread -> PC] /\ id \in [Thread -> DocId \cup {None}]
      /\ location \in [Thread -> Column \cup {None}] /\ Adder \subseteq Thread
  BY DEF TypeOK, Thread
<1>2. UNCHANGED <<task, m_next, m_currentDocument>>
  BY DEF DeleteDocument, reading
<1>3. CASE \E i \in Deletable : LockDelete(d, i)
  BY <1>1, <1>2, <1>3 DEF LockDelete, Goto, OthersStay
<1>4. CASE Find(d)
  BY <1>1, <1>2, <1>4 DEF Find, Goto, OthersStay
<1>5. CASE MapDelete(d) \/ Expire(d)
  BY <1>1, <1>2, <1>5 DEF MapDelete, Expire, Goto, OthersStay
<1>6. CASE EndDelete(d)
  BY <1>1, <1>2, <1>6 DEF EndDelete, Goto, Forget, OthersStay
<1>7. QED
  BY <1>3, <1>4, <1>5, <1>6 DEF DeleteDocument

(* Where no task changes.                                                  *)
LEMMA ThreadsStay ==
  ASSUME Threads, NEW t, OthersStay(t), t \in Adder => task'[t] = task[t] /\ InHands(t)',
         UNCHANGED <<manifest, chunks, m_nextTaskId>>, Types',
         thrown' => thrown \/ \E b \in Adder : InChunk(b)
  PROVE  Threads'
<1>1. \A b \in Adder : InHands(b)'
  BY OthersInHands
<1>2. \A b \in Adder : task'[b] = task[b]
  BY DEF OthersStay
<1>3. Taken'
  BY <1>2 DEF Threads, Taken, InChunk
<1>4. QED
  BY <1>1, <1>3 DEF Threads

LEMMA TakeChunkThreads ==
  ASSUME TypeOK, Threads, NEW a \in Adder, TakeChunk(a), UNCHANGED <<manifest, chunks>>
  PROVE  Threads'
<1>1. OthersStay(a)
  BY IngestStays DEF IngestChunks
<1>2. /\ pc'[a] = "idle" /\ location'[a] = None /\ m_currentDocument'[a] = NoDocument
      /\ thrown' = thrown /\ m_currentDocument' = m_currentDocument /\ postings' = postings
      /\ task[a] = None
  BY DEF TakeChunk, HasNone, Threads, InHands, InChunk, vars
<1>3. /\ task \in [Adder -> {None, Finished} \cup 1 .. Len(manifest)]
      /\ m_next \in [Adder -> Nat \ {0}] /\ m_nextTaskId \in 1 .. Len(manifest) + 1
      /\ Len(manifest) \in Nat /\ None # Finished /\ None \notin Nat
  <2>1. Len(manifest) \in Nat
    BY IngestionAssumption, LenProperties DEF Threads, Types
  <2>2. QED
    BY <2>1, NoneIsNotFinished DEF Threads, Types
<1>4. CASE m_nextTaskId <= Len(manifest)
  <2>1. /\ task' = [task EXCEPT ![a] = m_nextTaskId] /\ m_nextTaskId' = m_nextTaskId + 1
        /\ m_next' = [m_next EXCEPT ![a] = 1]
    BY <1>4 DEF TakeChunk
  <2>2. m_nextTaskId \in 1 .. Len(manifest)
    BY <1>3, <1>4
  <2>3. task'[a] = m_nextTaskId /\ m_next'[a] = 1 /\ InChunk(a)'
    BY <1>3, <2>1, <2>2 DEF InChunk, Finished
  <2>4. Types'
    <3>1. task' \in [Adder -> {None, Finished} \cup 1 .. Len(manifest)]
      BY <1>3, <2>1, <2>2
    <3>2. m_next' \in [Adder -> Nat \ {0}] /\ m_nextTaskId' \in 1 .. Len(manifest) + 1
      BY <1>3, <2>1, <2>2
    <3>3. QED
      BY <1>2, <3>1, <3>2 DEF Threads, Types, IsMap
  <2>5. InHands(a)'
    <3>1. Len(chunks[m_nextTaskId].documents) \in Nat
      BY <2>2 DEF Threads, Types, OutOf
    <3>2. m_next'[a] <= Len(Documents(a)') + 1
      BY <2>3, <3>1 DEF Documents
    <3>3. task'[a] < m_nextTaskId'
      BY <1>3, <2>1, <2>3
    <3>4. QED
      BY <1>2, <3>2, <3>3 DEF InHands
  <2>6. \A b \in Adder : InHands(b)'
    BY <1>1, <2>1, <2>5, OthersInHands
  <2>7. \A b \in Adder : b # a => task'[b] = task[b] /\ task[b] # m_nextTaskId
    BY <1>1, <1>3, <2>2 DEF OthersStay, Threads, InHands, InChunk, Finished
  <2>8. Taken'
    <3>1. \A b, c \in Adder : b # c /\ InChunk(b)' => task'[b] # task'[c]
      BY <2>3, <2>7 DEF Threads, Taken, InChunk
    <3>2. \A b \in Adder : task'[b] # Finished
      BY <1>3, <2>2, <2>3, <2>7 DEF Threads, Taken, Finished
    <3>3. \E b \in Adder : InChunk(b)'
      BY <2>3
    <3>4. QED
      BY <3>1, <3>2, <3>3 DEF Taken, InChunk
  <2>9. QED
    BY <2>4, <2>6, <2>8 DEF Threads
<1>5. CASE ~(m_nextTaskId <= Len(manifest))
  <2>1. /\ task' = [task EXCEPT ![a] = Finished] /\ m_nextTaskId' = m_nextTaskId
        /\ m_next' = m_next
    BY <1>5 DEF TakeChunk
  <2>2. m_nextTaskId = Len(manifest) + 1
    BY <1>3, <1>5
  <2>3. task'[a] = Finished
    BY <1>3, <2>1
  <2>4. Types'
    <3>1. task' \in [Adder -> {None, Finished} \cup 1 .. Len(manifest)]
      BY <1>3, <2>1
    <3>2. QED
      BY <1>2, <2>1, <3>1 DEF Threads, Types, IsMap
  <2>5. InHands(a)'
    BY <1>2, <2>3 DEF InHands, InChunk
  <2>6. \A b \in Adder : InHands(b)'
    BY <1>1, <2>1, <2>5, OthersInHands
  <2>7. \A b \in Adder : b # a => task'[b] = task[b]
    BY <1>1 DEF OthersStay
  <2>8. Taken'
    BY <1>2, <2>1, <2>2, <2>3, <2>7 DEF Threads, Taken, InChunk
  <2>9. QED
    BY <2>4, <2>6, <2>8 DEF Threads
<1>6. QED
  BY <1>4, <1>5

LEMMA EndChunkThreads ==
  ASSUME TypeOK, Threads, NEW a \in Adder, EndChunk(a), ~thrown, UNCHANGED <<manifest, chunks>>
  PROVE  Threads'
<1>1. OthersStay(a)
  BY IngestStays DEF IngestChunks
<1>2. /\ task' = [task EXCEPT ![a] = None] /\ m_nextTaskId' = m_nextTaskId /\ m_next' = m_next
      /\ m_currentDocument' = m_currentDocument /\ postings' = postings /\ thrown' = thrown
      /\ m_currentDocument[a] = NoDocument /\ pc'[a] = "idle" /\ location'[a] = None
  BY DEF EndChunk, IsReading, Threads, InHands, vars
<1>3. task \in [Adder -> {None, Finished} \cup 1 .. Len(manifest)]
  BY DEF Threads, Types
<1>4. Types'
  BY <1>2, <1>3 DEF Threads, Types, IsMap
<1>5. task'[a] = None /\ \A b \in Adder : b # a => task'[b] = task[b]
  BY <1>1, <1>2, <1>3 DEF OthersStay
<1>6. InHands(a)'
  BY <1>2, <1>5 DEF InHands, InChunk
<1>7. \A b \in Adder : InHands(b)'
  BY <1>1, <1>2, <1>6, OthersInHands
<1>8. Taken'
  <2>1. \A b, c \in Adder : b # c /\ InChunk(b)' => task'[b] # task'[c]
    BY <1>5 DEF Threads, Taken, InChunk
  <2>2. \A b \in Adder : task'[b] = Finished => task[b] = Finished
    BY <1>5, NoneIsNotFinished
  <2>3. QED
    BY <1>2, <2>1, <2>2 DEF Threads, Taken, InChunk
<1>9. QED
  BY <1>4, <1>7, <1>8 DEF Threads

LEMMA ReadDocumentThreads ==
  ASSUME TypeOK, Threads, NEW a \in Adder, ReadDocument(a), UNCHANGED <<manifest, chunks>>
  PROVE  Threads'
<1>1. OthersStay(a)
  BY IngestStays DEF IngestChunks
<1>2. /\ InChunk(a) /\ m_next[a] \in 1 .. Len(chunks[task[a]].documents)
      /\ m_currentDocument'[a] = chunks[task[a]].documents[m_next[a]]
      /\ m_currentDocument'[a].m_docId \in DocId
  BY DocumentNext
<1>3. /\ task' = task /\ m_nextTaskId' = m_nextTaskId /\ thrown' = thrown /\ postings' = postings
      /\ m_next' = [m_next EXCEPT ![a] = @ + 1]
      /\ m_currentDocument' = [m_currentDocument EXCEPT ![a] = Documents(a)[m_next[a]]]
  BY DEF ReadDocument
<1>4. m_next \in [Adder -> Nat \ {0}] /\ IsMap(m_currentDocument, Adder)
  BY DEF Threads, Types
<1>5. Types'
  <2>1. m_next' \in [Adder -> Nat \ {0}]
    BY <1>3, <1>4
  <2>2. IsMap(m_currentDocument', Adder)
    BY <1>3, <1>4 DEF IsMap
  <2>3. QED
    BY <1>3, <2>1, <2>2 DEF Threads, Types, IsMap
<1>6. m_next'[a] = m_next[a] + 1 /\ m_next[a] \in Nat \ {0}
  BY <1>3, <1>4
<1>7. m_currentDocument'[a] # NoDocument
  BY <1>2, IngestorAssumption DEF NoDocument, NewDocument
<1>8. /\ pc'[a] = "allocate" /\ location'[a] = None
      /\ id'[a] = m_currentDocument'[a].m_docId
  <2>1. pc[a] = "idle" /\ location[a] = None
    BY DEF ReadDocument, IsReading, Threads, InHands
  <2>2. PICK i : i = m_currentDocument'[a].m_docId
    OBVIOUS
  <2>3. CountDocument(a, i)
    BY <2>2 DEF ReadDocument
  <2>4. pc \in [Thread -> PC] /\ id \in [Thread -> DocId \cup {None}] /\ a \in Thread
    BY DEF TypeOK, Thread
  <2>5. QED
    BY <2>1, <2>2, <2>3, <2>4 DEF CountDocument, Goto
<1>9. InHands(a)'
  <2>1. InChunk(a)' /\ task'[a] = task[a] /\ Documents(a)' = Documents(a)
    BY <1>2, <1>3 DEF InChunk, Documents
  <2>2. task'[a] < m_nextTaskId'
    BY <1>2, <1>3 DEF Threads, InHands
  <2>3. m_next'[a] <= Len(Documents(a)) + 1 /\ m_next'[a] > 1 /\ m_next'[a] - 1 = m_next[a]
    <3>1. Len(Documents(a)) \in Nat
      BY <1>2, InHandsIsRead
    <3>2. QED
      BY <1>2, <1>6, <3>1 DEF Documents
  <2>4. m_currentDocument'[a] = Documents(a)[m_next'[a] - 1]
    BY <1>2, <2>3 DEF Documents
  <2>5. QED
    BY <1>7, <1>8, <2>1, <2>2, <2>3, <2>4 DEF InHands
<1>10. QED
  BY <1>1, <1>3, <1>5, <1>9, ThreadsStay

LEMMA CacheDocumentThreads ==
  ASSUME TypeOK, Threads, NEW a \in Adder, CacheDocument(a), UNCHANGED <<manifest, chunks>>
  PROVE  Threads'
<1>1. OthersStay(a)
  BY IngestStays DEF IngestChunks
<1>2. /\ task' = task /\ m_nextTaskId' = m_nextTaskId /\ m_next' = m_next
      /\ m_currentDocument' = [m_currentDocument EXCEPT ![a] = NoDocument]
      /\ postings' = postings /\ thrown' = thrown
      /\ pc'[a] = "idle" /\ location'[a] = None
  BY DEF CacheDocument, Threads, InHands, vars
<1>3. IsMap(m_currentDocument', Adder) /\ m_currentDocument'[a] = NoDocument
  BY <1>2 DEF Threads, Types, IsMap
<1>4. Types'
  BY <1>2, <1>3 DEF Threads, Types, IsMap
<1>5. InHands(a)'
  BY <1>2, <1>3 DEF Threads, InHands, InChunk, Documents
<1>6. QED
  BY <1>1, <1>2, <1>4, <1>5, ThreadsStay

LEMMA AddThreads ==
  ASSUME TypeOK, Threads, NEW a \in Adder, Allocate(a) \/ Ingest(a) \/ EndAdd(a),
         UNCHANGED <<manifest, chunks>>
  PROVE  Threads'
<1>1. OthersStay(a)
  BY IngestStays DEF IngestChunks
<1>2. UNCHANGED reading
  BY DEF Allocate, Ingest, EndAdd
<1>3. UNCHANGED <<task, m_nextTaskId, m_next, m_currentDocument, thrown>>
  BY <1>2 DEF reading
<1>4. Types'
  <2>1. IsMap(postings', Column)
    <3>1. \/ postings' = postings
          \/ postings' = [postings EXCEPT ![location[a]] = m_currentDocument[a].m_postings]
      BY DEF Allocate, Ingest, EndAdd
    <3>2. QED
      BY <3>1 DEF Threads, Types, IsMap
  <2>2. QED
    BY <1>3, <2>1 DEF Threads, Types, IsMap
<1>5. InHands(a)'
  <2>1. pc \in [Thread -> PC] /\ a \in Thread /\ location \in [Thread -> Column \cup {None}]
    BY DEF TypeOK, Thread
  <2>2. CASE Allocate(a)
    BY <1>3, <2>1, <2>2 DEF Allocate, AllocateDocument, Goto, Threads, InHands, InChunk, Documents
  <2>3. CASE Ingest(a)
    BY <1>3, <2>1, <2>3 DEF Ingest, Activate, Goto, Threads, InHands, InChunk, Documents
  <2>4. CASE EndAdd(a)
    BY <1>3, <2>1, <2>4 DEF EndAdd, MapAdd, Goto, Forget, Threads, InHands, InChunk, Documents
  <2>5. QED
    BY <2>2, <2>3, <2>4
<1>6. QED
  BY <1>1, <1>3, <1>4, <1>5, ThreadsStay

(* What throws has a chunk in its hands.                                   *)
LEMMA ThrowThreads ==
  ASSUME TypeOK, Threads, NEW a \in Adder, ReaderThrows(a) \/ IngestorThrows(a),
         UNCHANGED <<manifest, chunks>>
  PROVE  Threads' /\ InChunk(a)
<1>1. OthersStay(a)
  BY IngestStays DEF IngestChunks
<1>2. /\ UNCHANGED <<task, m_nextTaskId, m_next, m_currentDocument, postings>>
      /\ thrown' = TRUE
  BY DEF ReaderThrows, IngestorThrows, AddThrows
<1>3. Types'
  BY <1>2 DEF Threads, Types, IsMap
<1>4. InHands(a)' /\ InChunk(a)
  <2>1. /\ pc \in [Thread -> PC] /\ a \in Thread /\ location \in [Thread -> Column \cup {None}]
        /\ id \in [Thread -> DocId \cup {None}]
    BY DEF TypeOK, Thread
  <2>2. CASE ReaderThrows(a)
    BY <1>2, <2>1, <2>2 DEF ReaderThrows, IsReading, vars, Threads, InHands, InChunk, Documents
  <2>3. CASE IngestorThrows(a)
    <3>1. pc[a] # "idle" /\ pc'[a] = "idle" /\ location'[a] = None
      BY <2>1, <2>3 DEF IngestorThrows, AddThrows, Goto, Forget
    <3>2. QED
      BY <1>2, <3>1 DEF Threads, InHands, InChunk, Documents
  <2>4. QED
    BY <2>2, <2>3
<1>5. QED
  BY <1>1, <1>2, <1>3, <1>4, ThreadsStay

LEMMA DeleteThreads ==
  ASSUME TypeOK, Threads, NEW d \in Deleter, DeleteDocument(d), UNCHANGED <<manifest, chunks>>
  PROVE  Threads'
<1>1. OthersStay(d) /\ d \notin Adder
  BY DeleteStays, IngestorAssumption
<1>2. UNCHANGED <<task, m_nextTaskId, m_next, m_currentDocument, postings, thrown>>
  BY DEF DeleteDocument, reading
<1>3. Types'
  BY <1>2 DEF Threads, Types, IsMap
<1>4. QED
  BY <1>1, <1>2, <1>3, ThreadsStay

LEMMA WalkThreads ==
  ASSUME Threads, UNCHANGED <<vars, manifest, chunks, reading, postings>>
  PROVE  Threads'
<1>1. UNCHANGED <<task, m_nextTaskId, m_next, m_currentDocument, thrown, pc, id, location>>
  BY DEF reading, vars
<1>2. QED
  BY <1>1 DEF Threads, Types, IsMap, InHands, InChunk, Documents, Taken

LEMMA NextThreads ==
  ASSUME TypeOK, Threads, [IngestionNext]_allVars
  PROVE  Threads'
<1>1. ASSUME NEW a \in Adder, IngestStep(a) PROVE Threads'
  <2>1. IngestChunks(a) /\ ~thrown /\ UNCHANGED <<manifest, chunks>>
    BY <1>1 DEF IngestStep, Beside
  <2>2. QED
    BY <2>1, TakeChunkThreads, ReadDocumentThreads, EndChunkThreads, CacheDocumentThreads,
       AddThreads, ThrowThreads DEF IngestChunks
<1>2. ASSUME NEW d \in Deleter, DeleteDocument(d), Beside PROVE Threads'
  BY <1>2, DeleteThreads DEF Beside
<1>3. CASE BeginWalk /\ UNCHANGED <<manifest, chunks>>
  BY <1>3, WalkThreads DEF BeginWalk
<1>4. CASE WalkStep
  BY <1>4, WalkThreads DEF WalkStep, Walk
<1>5. CASE UNCHANGED allVars
  BY <1>5, WalkThreads DEF allVars
<1>6. QED
  BY <1>1, <1>2, <1>3, <1>4, <1>5 DEF IngestionNext

(* What Ingestor's invariant and this one say together.                    *)
THEOREM ThreadsInvariant == IngestionSpec => [](IInv /\ Threads)
<1>1. IngestionInit => IInv /\ Threads
  BY InitIInv, InitThreads DEF IngestionInit
<1>2. IInv /\ Threads /\ [IngestionNext]_allVars => IInv' /\ Threads'
  <2>1. IInv => TypeOK
    BY DEF IInv
  <2>2. QED
    BY <2>1, StepIsIngestor, NextIInv, NextThreads
<1>3. QED
  BY <1>1, <1>2, PTL DEF IngestionSpec

(* Ingestion calls the ingestor as its clients may: it implements module   *)
(* Ingestor (ChunkIngestor.cpp:83-108), and what is proved there holds.    *)
THEOREM ImplementsIngestor == IngestionSpec => Spec
<1>1. IngestionInit => Init
  BY DEF IngestionInit
<1>2. Threads /\ [IngestionNext]_allVars => [Next]_vars
  BY StepIsIngestor
<1>3. QED
  BY <1>1, <1>2, ThreadsInvariant, PTL DEF IngestionSpec, Spec

(* So the index stays a set of documents while chunks are ingested.        *)
THEOREM IngestedIsASet == IngestionSpec => DocumentSetSpec
<1>1. QED
  BY ImplementsIngestor, ImplementsDocumentSet

(* What the map has is served, a Delete acts on what is there, and the     *)
(* count bounds what is served, while chunks are ingested.                 *)
THEOREM IngestionAgrees ==
  IngestionSpec => [](ContainedIsServed /\ DeleteIsNotStale /\ CountCoversServed)
<1>1. QED
  BY ImplementsIngestor, MapAndBitsAgree, CountCovers, PTL

(* Whatever has been ingested can be deleted, unless its DocId has been    *)
(* ingested again while the index had it.                                  *)
THEOREM IngestedIsReachable == IngestionSpec => []ServedCanBeDeleted
<1>1. QED
  BY ImplementsIngestor, ServedIsReachable, PTL

-----------------------------------------------------------------------------
(* What is served is what was written                                      *)

ServedAsWritten ==
  \A h \in active : \E document \in Written :
    document.id = columns[h] /\ postings[h] = GramsOf(document)

LEMMA SameServed ==
  ASSUME ServedAsWritten, manifest' = manifest, active' \subseteq active,
         \A h \in active' : columns'[h] = columns[h] /\ postings'[h] = postings[h]
  PROVE  ServedAsWritten'
BY DEF ServedAsWritten, Written

LEMMA IngestServed ==
  ASSUME IInv, Threads, ServedAsWritten, NEW a \in Adder, Ingest(a), manifest' = manifest
  PROVE  ServedAsWritten'
<1>1. PICK h : h = location[a]
  OBVIOUS
<1>2. /\ pc[a] = "ingest" /\ active' = active \cup {h} /\ columns' = columns
      /\ postings' = [postings EXCEPT ![h] = m_currentDocument[a].m_postings]
  BY <1>1 DEF Ingest, Activate, Goto
<1>3. h \in Column /\ h \notin active /\ columns[h] = id[a] /\ active \subseteq Column
  BY <1>1, <1>2 DEF IInv, TypeOK, ColumnsOwned, HasColumn
<1>4. /\ m_currentDocument[a] # NoDocument /\ id[a] = m_currentDocument[a].m_docId
      /\ InChunk(a) /\ m_currentDocument[a] = Documents(a)[m_next[a] - 1]
  BY <1>2 DEF Threads, InHands
<1>5. PICK document \in Written : AsWritten(m_currentDocument[a], document)
  BY <1>4, InHandsIsRead, ReadIsWritten DEF Threads, Documents
<1>6. postings'[h] = m_currentDocument[a].m_postings
      /\ \A g \in active : postings'[g] = postings[g]
  BY <1>2, <1>3 DEF Threads, Types, IsMap
<1>7. document.id = columns'[h] /\ postings'[h] = GramsOf(document)
  BY <1>2, <1>3, <1>4, <1>5, <1>6 DEF AsWritten
<1>8. \A g \in active : \E d \in Written : d.id = columns'[g] /\ postings'[g] = GramsOf(d)
  BY <1>2, <1>6 DEF ServedAsWritten
<1>9. Written' = Written
  BY DEF Written
<1>10. QED
  BY <1>2, <1>7, <1>8, <1>9 DEF ServedAsWritten

LEMMA NextServed ==
  ASSUME IInv, Threads, ServedAsWritten, [IngestionNext]_allVars
  PROVE  ServedAsWritten'
<1>1. manifest' = manifest
  BY DEF IngestionNext, IngestStep, Beside, WalkStep, allVars
<1>2. CASE UNCHANGED <<active, columns, postings>>
  BY <1>1, <1>2, SameServed
<1>3. ASSUME NEW a \in Adder, IngestChunks(a) PROVE ServedAsWritten'
  <2>1. CASE Allocate(a)
    <3>1. PICK h \in Column : columns[h] = None /\ columns' = [columns EXCEPT ![h] = id[a]]
      BY <2>1 DEF Allocate, AllocateDocument
    <3>2. active' = active /\ postings' = postings
      BY <2>1 DEF Allocate, AllocateDocument
    <3>3. \A g \in active : columns'[g] = columns[g]
      BY <3>1, IngestorAssumption DEF IInv, TypeOK, ColumnsOwned
    <3>4. QED
      BY <1>1, <3>2, <3>3, SameServed
  <2>2. CASE Ingest(a)
    BY <1>1, <2>2, IngestServed
  <2>3. CASE TakeChunk(a) \/ ReadDocument(a) \/ EndChunk(a) \/ CacheDocument(a)
    BY <1>2, <2>3 DEF TakeChunk, ReadDocument, EndChunk, CacheDocument, CountDocument, vars
  <2>4. CASE ReaderThrows(a) \/ IngestorThrows(a) \/ EndAdd(a)
    BY <1>2, <2>4 DEF ReaderThrows, IngestorThrows, AddThrows, EndAdd, MapAdd, vars
  <2>5. QED
    BY <1>3, <2>1, <2>2, <2>3, <2>4 DEF IngestChunks
<1>4. ASSUME NEW d \in Deleter, DeleteDocument(d) PROVE ServedAsWritten'
  <2>1. postings' = postings /\ columns' = columns /\ active' \subseteq active
    BY <1>4 DEF DeleteDocument, LockDelete, Find, MapDelete, Expire, EndDelete
  <2>2. QED
    BY <1>1, <2>1, SameServed
<1>5. CASE BeginWalk \/ WalkStep \/ UNCHANGED allVars
  BY <1>2, <1>5 DEF BeginWalk, WalkStep, Walk, allVars, vars
<1>6. QED
  BY <1>3, <1>4, <1>5 DEF IngestionNext, IngestStep

(* What is served under a DocId are the n-grams of the streams that the    *)
(* chunk file has for it, no more and no less, whatever was cut off; a     *)
(* file that is whole is read to its end (ChunkReader.cpp:42-134,          *)
(* Document.cpp:87-176, ChunkIngestor.cpp:58-108).                         *)
THEOREM ServedIsWritten == IngestionSpec => []IndexedAsWritten
<1>1. IngestionInit => ServedAsWritten
  BY DEF IngestionInit, Init, ServedAsWritten
<1>2. IInv /\ Threads /\ ServedAsWritten /\ [IngestionNext]_allVars => ServedAsWritten'
  BY NextServed
<1>3. Threads /\ ServedAsWritten => IndexedAsWritten
  BY DEF Threads, Types, OutOf, ServedAsWritten, IndexedAsWritten
<1>4. QED
  BY <1>1, <1>2, <1>3, ThreadsInvariant, PTL DEF IngestionSpec

-----------------------------------------------------------------------------
(* What is in the cache has been added                                     *)

Present(i) ==
  \/ Contains(i)
  \/ \E h \in Expired : columns[h] = i
  \/ \E d \in Deleter : pc[d] = "clear" /\ columns[location[d]] = i

FreeHands == \A a \in Adder : pc[a] \in {"idle", "allocate"} => location[a] = None

LEMMA PresentStays ==
  ASSUME IInv, FreeHands, [Next]_vars, NEW i \in DocId, Present(i)
  PROVE  Present(i)'
<1>0. /\ pc \in [Thread -> PC] /\ id \in [Thread -> DocId \cup {None}]
      /\ Adder \subseteq Thread /\ Deleter \subseteq Thread /\ Adder \cap Deleter = {}
      /\ location \in [Thread -> Column \cup {None}]
      /\ columns \in [Column -> DocId \cup {None}] /\ active \subseteq Column
      /\ m_docIdToDocHandle \in [DocId -> Column \cup {None}]
      /\ None \notin DocId /\ None \notin Column
      /\ \A h \in active : columns[h] \in DocId
      /\ \A d \in Deleter : pc[d] = "clear" => location[d] \in active
  BY IngestorAssumption DEF IInv, TypeOK, Thread, ColumnsOwned, DeleteIsNotStale
<1>1. CASE UNCHANGED vars
  BY <1>1 DEF vars, Present, Contains, Expired, Used
<1>2. ASSUME NEW a \in Adder, NEW j \in DocId, CountDocument(a, j)
      PROVE  Present(i)'
  <2>1. UNCHANGED <<columns, active, m_docIdToDocHandle, location>>
    BY <1>2 DEF CountDocument
  <2>2. \A d \in Deleter : pc'[d] = pc[d]
    BY <1>0, <1>2 DEF CountDocument, Goto
  <2>3. QED
    BY <2>1, <2>2 DEF Present, Contains, Expired, Used
<1>3. ASSUME NEW a \in Adder, AllocateDocument(a)
      PROVE  Present(i)'
  <2>1. PICK h \in Column :
          /\ columns[h] = None
          /\ columns' = [columns EXCEPT ![h] = id[a]]
          /\ location' = [location EXCEPT ![a] = h]
    BY <1>3 DEF AllocateDocument
  <2>2. UNCHANGED <<active, m_docIdToDocHandle>> /\ pc' = [pc EXCEPT ![a] = "ingest"]
    BY <1>3 DEF AllocateDocument, Goto
  <2>3. CASE Contains(i)
    BY <2>2, <2>3 DEF Present, Contains
  <2>4. ASSUME NEW g \in Expired, columns[g] = i PROVE Present(i)'
    <3>1. g \in Column /\ g # h /\ columns[g] # None /\ g \notin active
          /\ \A b \in Adder : location[b] # g
      BY <2>1, <2>4 DEF Expired, Used
    <3>2. columns'[g] = i /\ \A b \in Adder : location'[b] # g
      BY <1>0, <2>1, <2>4, <3>1
    <3>3. g \in Expired'
      BY <1>0, <2>2, <3>1, <3>2 DEF Expired, Used
    <3>4. QED
      BY <3>2, <3>3 DEF Present
  <2>5. ASSUME NEW d \in Deleter, pc[d] = "clear", columns[location[d]] = i
        PROVE  Present(i)'
    <3>1. location[d] \in active /\ location[d] # h
      BY <1>0, <2>1, <2>5
    <3>2. pc'[d] = "clear" /\ location'[d] = location[d] /\ columns'[location[d]] = i
      BY <1>0, <2>1, <2>2, <2>5, <3>1
    <3>3. QED
      BY <3>2 DEF Present
  <2>6. QED
    BY <2>3, <2>4, <2>5 DEF Present
<1>4. ASSUME NEW a \in Adder, AddThrows(a) \/ MapAdd(a)
      PROVE  Present(i)'
  <2>1. location' = [location EXCEPT ![a] = None] /\ UNCHANGED <<columns, active>>
    BY <1>4 DEF AddThrows, MapAdd, Forget
  <2>2. \A d \in Deleter : pc'[d] = pc[d] /\ location'[d] = location[d]
    BY <1>0, <1>4 DEF AddThrows, MapAdd, Forget, Goto
  <2>3. Contains(i) => Contains(i)'
    BY <1>0, <1>4 DEF AddThrows, MapAdd, Contains
  <2>4. Expired \subseteq Expired'
    <3>1. ASSUME NEW g \in Expired PROVE g \in Expired'
      <4>1. g \in Column /\ \A b \in Adder : location[b] # g
        BY DEF Expired, Used
      <4>2. \A b \in Adder : location'[b] # g
        BY <1>0, <2>1, <4>1
      <4>3. QED
        BY <2>1, <4>2 DEF Expired, Used
    <3>2. QED
      BY <3>1
  <2>5. QED
    BY <2>1, <2>2, <2>3, <2>4 DEF Present
<1>5. ASSUME NEW a \in Adder, Activate(a)
      PROVE  Present(i)'
  <2>1. UNCHANGED <<columns, location, m_docIdToDocHandle>>
        /\ active' = active \cup {location[a]}
    BY <1>5 DEF Activate
  <2>2. \A d \in Deleter : pc'[d] = pc[d]
    BY <1>0, <1>5 DEF Activate, Goto
  <2>3. Expired \subseteq Expired'
    BY <2>1 DEF Expired, Used
  <2>4. QED
    BY <2>1, <2>2, <2>3 DEF Present, Contains
<1>6. ASSUME NEW d \in Deleter, \/ \E j \in DocId : LockDelete(d, j)
                                \/ Find(d) \/ EndDelete(d)
      PROVE  Present(i)'
  <2>1. UNCHANGED <<columns, active, m_docIdToDocHandle>>
    BY <1>6 DEF LockDelete, Find, EndDelete
  <2>2. \A e \in Deleter : pc[e] = "clear" => pc'[e] = pc[e] /\ location'[e] = location[e]
    BY <1>0, <1>6 DEF LockDelete, Find, EndDelete, Goto, Forget
  <2>3. \A a \in Adder : location'[a] = location[a]
    BY <1>0, <1>6 DEF LockDelete, Find, EndDelete, Forget
  <2>4. Expired' = Expired
    BY <2>1, <2>3 DEF Expired, Used
  <2>5. QED
    BY <2>1, <2>2, <2>4 DEF Present, Contains
<1>7. ASSUME NEW d \in Deleter, MapDelete(d)
      PROVE  Present(i)'
  <2>1. /\ UNCHANGED <<columns, active, location>> /\ pc[d] = "erase"
        /\ pc' = [pc EXCEPT ![d] = "clear"]
        /\ m_docIdToDocHandle' = [m_docIdToDocHandle EXCEPT ![id[d]] = None]
    BY <1>7 DEF MapDelete, Goto
  <2>2. Expired' = Expired
    BY <2>1 DEF Expired, Used
  <2>3. \A e \in Deleter : pc[e] = "clear" => pc'[e] = "clear"
    BY <1>0, <2>1
  <2>4. CASE Contains(i) /\ i = id[d]
    <3>1. location[d] = m_docIdToDocHandle[i] /\ columns[m_docIdToDocHandle[i]] = i
      BY <2>1, <2>4 DEF IInv, DeleteIsNotStale, ContainedIsServed
    <3>2. pc'[d] = "clear"
      BY <1>0, <2>1
    <3>3. QED
      BY <2>1, <3>1, <3>2 DEF Present
  <2>5. CASE Contains(i) /\ i # id[d]
    BY <1>0, <2>1, <2>5 DEF Present, Contains
  <2>6. QED
    BY <2>1, <2>2, <2>3, <2>4, <2>5 DEF Present
<1>8. ASSUME NEW d \in Deleter, Expire(d)
      PROVE  Present(i)'
  <2>1. /\ UNCHANGED <<columns, location, m_docIdToDocHandle>> /\ pc[d] = "clear"
        /\ pc' = [pc EXCEPT ![d] = "unlock"] /\ active' = active \ {location[d]}
    BY <1>8 DEF Expire, Goto
  <2>2. Expired \subseteq Expired'
    BY <2>1 DEF Expired, Used
  <2>3. location[d] \in Expired'
    <3>1. location[d] \in Column /\ columns[location[d]] \in DocId
      BY <1>0, <2>1
    <3>2. \A a \in Adder : location[a] # location[d]
      <4>1. ASSUME NEW a \in Adder, location[a] = location[d] PROVE FALSE
        <5>1. location[a] # None
          BY <1>0, <3>1, <4>1
        <5>2. HasColumn(a)
          BY <5>1 DEF FreeHands, IInv, Calls, HasColumn
        <5>3. location[d] # location[a]
          BY <2>1, <5>2 DEF IInv, ColumnsOwned
        <5>4. QED
          BY <4>1, <5>3
      <4>2. QED
        BY <4>1
    <3>3. QED
      BY <1>0, <2>1, <3>1, <3>2 DEF Expired, Used
  <2>4. ASSUME NEW e \in Deleter, pc[e] = "clear", columns[location[e]] = i
        PROVE  Present(i)'
    <3>1. CASE e = d
      BY <2>1, <2>3, <2>4, <3>1 DEF Present
    <3>2. CASE e # d
      BY <1>0, <2>1, <2>4, <3>2 DEF Present
    <3>3. QED
      BY <3>1, <3>2
  <2>5. QED
    BY <2>1, <2>2, <2>4 DEF Present, Contains
<1>9. QED
  BY <1>1, <1>2, <1>3, <1>4, <1>5, <1>6, <1>7, <1>8 DEF Next

(* What has been added, and is not in the cache yet, is there as well.     *)
Arrived ==
  IF thrown THEN {}
  ELSE {m_currentDocument[a].m_docId :
          a \in {b \in Adder : pc[b] = "idle" /\ m_currentDocument[b] # NoDocument}}

Added == \A i \in m_documentCache \cup Arrived : i \in DocId /\ Present(i)

LEMMA ThreadsFree ==
  ASSUME Threads
  PROVE  FreeHands
BY DEF Threads, InHands, FreeHands

(* Where nothing arrives, but for what has just been added.                *)
LEMMA AddedStays ==
  ASSUME IInv, Threads, Added, [Next]_vars, NEW d,
         m_documentCache' \cup Arrived' \subseteq m_documentCache \cup Arrived \cup {d},
         d \in m_documentCache \cup Arrived \/ (d \in DocId /\ Present(d)')
  PROVE  Added'
<1>1. FreeHands
  BY ThreadsFree
<1>2. \A i \in DocId : Present(i) => Present(i)'
  BY <1>1, PresentStays
<1>3. ASSUME NEW i \in m_documentCache' \cup Arrived'
      PROVE  i \in DocId /\ Present(i)'
  <2>1. CASE i \in m_documentCache \cup Arrived
    <3>1. i \in DocId /\ Present(i)
      BY <2>1 DEF Added
    <3>2. QED
      BY <1>2, <3>1
  <2>2. CASE i = d /\ d \in DocId /\ Present(d)'
    BY <2>2
  <2>3. QED
    BY <1>3, <2>1, <2>2
<1>4. QED
  BY <1>3 DEF Added

LEMMA NothingArrives ==
  ASSUME IInv, Threads, Added, [Next]_vars,
         m_documentCache' \cup Arrived' \subseteq m_documentCache \cup Arrived
  PROVE  Added'
<1>1. FreeHands
  BY ThreadsFree
<1>2. \A i \in DocId : Present(i) => Present(i)'
  BY <1>1, PresentStays
<1>3. ASSUME NEW i \in m_documentCache' \cup Arrived'
      PROVE  i \in DocId /\ Present(i)'
  <2>1. i \in DocId /\ Present(i)
    BY <1>3 DEF Added
  <2>2. QED
    BY <1>2, <2>1
<1>4. QED
  BY <1>3 DEF Added

LEMMA EndAddAdded ==
  ASSUME IInv, Threads, Added, NEW a \in Adder, EndAdd(a), ~thrown
  PROVE  Added'
<1>1. PICK i : i = id[a]
  OBVIOUS
<1>2. pc[a] = "activated" /\ UNCHANGED <<m_documentCache, m_currentDocument, thrown>>
  BY DEF EndAdd, MapAdd, Goto, reading
<1>3. i \in DocId /\ location[a] \in Column /\ i = m_currentDocument[a].m_docId
  BY <1>1, <1>2 DEF IInv, Calls, Thread, ColumnsOwned, HasColumn, Threads, InHands
<1>4. Contains(i)'
  BY <1>1, <1>3, IngestorAssumption DEF EndAdd, MapAdd, Contains, IInv, TypeOK
<1>5. Present(i)'
  BY <1>4 DEF Present
<1>6. \A b \in Adder : b # a => pc'[b] = pc[b]
  BY DEF EndAdd, MapAdd, Goto, IInv, TypeOK, Thread
<1>7. Arrived' \subseteq Arrived \cup {i}
  BY <1>2, <1>3, <1>6 DEF Arrived
<1>8. [Next]_vars
  BY DEF EndAdd, Next
<1>9. m_documentCache' \cup Arrived' \subseteq m_documentCache \cup Arrived \cup {i}
  BY <1>2, <1>7
<1>10. QED
  BY <1>3, <1>5, <1>8, <1>9, AddedStays

LEMMA NextAdded ==
  ASSUME IInv, Threads, Added, [IngestionNext]_allVars
  PROVE  Added'
<1>1. [Next]_vars
  BY StepIsIngestor
<1>2. CASE m_documentCache' \cup Arrived' \subseteq m_documentCache \cup Arrived
  BY <1>1, <1>2, NothingArrives
<1>3. ASSUME NEW a \in Adder, IngestChunks(a), ~thrown PROVE Added'
  <2>1. OthersStay(a)
    BY <1>3, IngestStays DEF IInv
  <2>2. /\ pc \in [Thread -> PC] /\ Adder \subseteq Thread
        /\ IsMap(m_currentDocument, Adder)
    BY DEF IInv, TypeOK, Thread, Threads, Types
  <2>3. ASSUME \/ thrown'
               \/ pc'[a] # "idle" \/ m_currentDocument'[a] = NoDocument
               \/ pc[a] = "idle" /\ m_currentDocument'[a] = m_currentDocument[a]
        PROVE  Arrived' \subseteq Arrived
    BY <1>3, <2>1, <2>3 DEF Arrived, OthersStay
  <2>4. CASE TakeChunk(a) \/ EndChunk(a) \/ ReaderThrows(a)
    <3>1. UNCHANGED <<m_documentCache, m_currentDocument>> /\ pc[a] = "idle"
      BY <2>4 DEF TakeChunk, EndChunk, ReaderThrows, HasNone, IsReading
    <3>2. QED
      BY <1>2, <2>3, <3>1
  <2>5. CASE ReadDocument(a)
    <3>1. m_documentCache' = m_documentCache /\ pc'[a] = "allocate"
      BY <2>2, <2>5 DEF ReadDocument, CountDocument, Goto
    <3>2. QED
      BY <1>2, <2>3, <3>1
  <2>6. CASE Allocate(a) \/ Ingest(a)
    <3>1. m_documentCache' = m_documentCache /\ pc'[a] # "idle"
      BY <2>2, <2>6 DEF Allocate, AllocateDocument, Ingest, Activate, Goto, reading
    <3>2. QED
      BY <1>2, <2>3, <3>1
  <2>7. CASE IngestorThrows(a)
    <3>1. m_documentCache' = m_documentCache /\ thrown'
      BY <2>7 DEF IngestorThrows
    <3>2. QED
      BY <1>2, <2>3, <3>1
  <2>8. CASE CacheDocument(a)
    <3>1. PICK i : i = m_currentDocument[a].m_docId
      OBVIOUS
    <3>2. i \in Arrived
      BY <1>3, <2>8, <3>1 DEF CacheDocument, Arrived
    <3>3. m_documentCache' = m_documentCache \cup {i}
      BY <2>8, <3>1 DEF CacheDocument
    <3>4. m_currentDocument'[a] = NoDocument
      BY <2>2, <2>8 DEF CacheDocument, IsMap
    <3>5. QED
      BY <1>2, <2>3, <3>2, <3>3, <3>4
  <2>9. QED
    BY <1>3, <2>4, <2>5, <2>6, <2>7, <2>8, EndAddAdded DEF IngestChunks
<1>4. ASSUME NEW d \in Deleter, DeleteDocument(d) PROVE Added'
  <2>1. OthersStay(d) /\ d \notin Adder
    BY <1>4, DeleteStays, IngestorAssumption DEF IInv
  <2>2. m_documentCache' = m_documentCache /\ thrown' = thrown
    BY <1>4 DEF DeleteDocument, reading
  <2>3. Arrived' \subseteq Arrived
    BY <2>1, <2>2 DEF Arrived, OthersStay
  <2>4. QED
    BY <1>2, <2>2, <2>3
<1>5. CASE BeginWalk \/ WalkStep \/ UNCHANGED allVars
  <2>1. UNCHANGED <<m_documentCache, m_currentDocument, thrown, pc>>
    BY <1>5 DEF BeginWalk, WalkStep, Walk, allVars, vars, reading
  <2>2. Arrived' = Arrived
    BY <2>1 DEF Arrived
  <2>3. QED
    BY <1>2, <2>1, <2>2
<1>6. QED
  BY <1>3, <1>4, <1>5 DEF IngestionNext, IngestStep

LEMMA InitAdded == IngestionInit => Added
<1>1. IngestionInit => m_documentCache = {} /\ Arrived = {}
  BY DEF IngestionInit, Arrived
<1>2. QED
  BY <1>1 DEF Added

(* A document in the cache, which queries are verified against, has been   *)
(* added to the index, and nobody but a Delete has taken it out            *)
(* (ChunkIngestor.cpp:95-107).                                             *)
THEOREM CachedIsAdded == IngestionSpec => []CachedWasAdded
<1>1. IInv /\ Threads /\ Added /\ [IngestionNext]_allVars => Added'
  BY NextAdded
<1>2. Added => CachedWasAdded
  BY DEF Added, Present, CachedWasAdded
<1>3. QED
  BY <1>1, <1>2, InitAdded, ThreadsInvariant, PTL DEF IngestionSpec

-----------------------------------------------------------------------------
(* The walk beside the ingestion                                           *)

Walking ==
  IF at = "none" THEN m_sliceIndex = 0 /\ m_sliceOffset = 0 /\ visited = {}
  ELSE WalkProofs!IInv

(* The slices have numbers, and Shard keeps them in the order of these.    *)
LEMMA SlicesAreNumbers ==
  /\ IsFiniteSet({SliceOf(h) : h \in Column})
  /\ {SliceOf(h) : h \in Column} \subseteq Int
<1>1. IsFiniteSet(Column)
  BY IngestorAssumption, FS_Interval DEF Column
<1>2. IsFiniteSet({SliceOf(h) : h \in Column})
  <2>1. PICK T, f : T = {SliceOf(h) : h \in Column} /\ f = [h \in Column |-> SliceOf(h)]
    OBVIOUS
  <2>2. f \in Surjection(Column, T)
    BY <2>1 DEF Surjection
  <2>3. QED
    BY <1>1, <2>1, <2>2, FS_Surjection
<1>3. ASSUME NEW h \in Column PROVE SliceOf(h) \in Int
  BY IngestionAssumption DEF SliceOf, Place, Column
<1>4. QED
  BY <1>2, <1>3

LEMMA AscendingIsDistinct ==
  ASSUME NEW S, S \subseteq Int, IsFiniteSet(S), NEW list \in Ascending(S)
  PROVE  /\ list \in Seq(S)
         /\ \A i, j \in 1 .. Len(list) : list[i] = list[j] => i = j
<1>1. PICK n \in Nat : n = Cardinality(S)
  BY FS_CardinalityType
<1>2. list \in [1 .. n -> S] /\ \A i, j \in 1 .. n : i < j => list[i] < list[j]
  BY <1>1 DEF Ascending
<1>3. list \in Seq(S) /\ Len(list) = n
  BY <1>1, <1>2
<1>4. ASSUME NEW i \in 1 .. n, NEW j \in 1 .. n, list[i] = list[j] PROVE i = j
  <2>1. list[i] \in Int /\ list[j] \in Int
    BY <1>2
  <2>2. ~(i < j) /\ ~(j < i)
    BY <1>2, <1>4, <2>1
  <2>3. QED
    BY <2>2
<1>5. QED
  BY <1>3, <1>4

LEMMA BeginWalkHolds ==
  ASSUME IInv, Walking, BeginWalk
  PROVE  WalkProofs!IInv'
<1>1. PICK S : S \subseteq {SliceOf(h) : h \in Column} /\ m_sliceBuffers' \in Ascending(S)
  <2>1. {SliceOf(h) : h \in Used} \subseteq {SliceOf(h) : h \in Column}
    BY DEF Used
  <2>2. QED
    BY <2>1 DEF BeginWalk
<1>2. S \subseteq Int /\ IsFiniteSet(S)
  BY <1>1, SlicesAreNumbers, FS_Subset
<1>3. /\ m_sliceBuffers' \in Seq({SliceOf(h) : h \in Column})
      /\ \A i, j \in 1 .. Len(m_sliceBuffers') :
           m_sliceBuffers'[i] = m_sliceBuffers'[j] => i = j
  <2>1. PICK list : list = m_sliceBuffers'
    OBVIOUS
  <2>2. list \in Seq(S) /\ \A i, j \in 1 .. Len(list) : list[i] = list[j] => i = j
    BY <1>1, <1>2, <2>1, AscendingIsDistinct
  <2>3. list \in Seq({SliceOf(h) : h \in Column})
    BY <1>1, <2>2
  <2>4. QED
    BY <2>1, <2>2, <2>3
<1>4. active' = active /\ active \subseteq Column
  BY DEF BeginWalk, vars, IInv, TypeOK
<1>5. {Place(h) : h \in active'} \subseteq WalkProofs!Position
  BY <1>4, PlaceIsAPosition
<1>6. /\ at' = "search" /\ m_sliceIndex' = 0 /\ m_sliceOffset' = 0 /\ visited' = {}
      /\ stable' = {Place(h) : h \in active'}
  BY <1>4 DEF BeginWalk, Walking
<1>7. Len(m_sliceBuffers') \in Nat /\ m_sliceCapacity \in Nat \ {0}
  BY <1>3, IngestionAssumption
<1>8. WalkProofs!TypeOK'
  BY <1>3, <1>5, <1>6, <1>7 DEF WalkProofs!TypeOK
<1>9. WalkProofs!Distinct'
  BY <1>3 DEF WalkProofs!Distinct
<1>10. WalkProofs!VisitedIsPassed' /\ WalkProofs!Standing' /\ WalkProofs!OffsetKept'
  BY <1>6 DEF WalkProofs!VisitedIsPassed, WalkProofs!Standing, WalkProofs!OffsetKept
<1>11. WalkProofs!FirstSliceComplete'
  BY <1>5, <1>6 DEF WalkProofs!FirstSliceComplete, WalkProofs!Position
<1>12. QED
  BY <1>8, <1>9, <1>10, <1>11 DEF WalkProofs!IInv

LEMMA WalkHolds ==
  ASSUME Walking, Iterator!Walk
  PROVE  Walking'
<1>1. WalkProofs!IteratorAssumption
  BY IngestionAssumption DEF WalkProofs!IteratorAssumption
<1>2. at # "none" /\ at' # "none"
  BY DEF Iterator!Walk, Iterator!StopHere, Iterator!SkipInactive, Iterator!NextSlice,
    Iterator!ReachEnd, Iterator!Increment
<1>3. [WalkProofs!Next]_WalkProofs!vars
  BY DEF Iterator!Walk, Iterator!StopHere, Iterator!SkipInactive, Iterator!NextSlice,
    Iterator!ReachEnd, Iterator!Increment, Iterator!AtEnd, Iterator!Here,
    WalkProofs!Next, WalkProofs!Walk, WalkProofs!StopHere, WalkProofs!SkipInactive,
    WalkProofs!NextSlice, WalkProofs!ReachEnd, WalkProofs!Increment, WalkProofs!AtEnd,
    WalkProofs!Here
<1>4. WalkProofs!IInv'
  BY <1>1, <1>2, <1>3, WalkProofs!StepHolds DEF Walking
<1>5. QED
  BY <1>2, <1>4 DEF Walking

LEMMA NextWalking ==
  ASSUME IInv, IInv', Walking, [IngestionNext]_allVars
  PROVE  Walking'
<1>1. active' \subseteq Column
  BY DEF IInv, TypeOK
<1>2. CASE Beside
  <2>1. UNCHANGED <<m_sliceIndex, m_sliceOffset, at, visited>>
    BY <1>2 DEF Beside
  <2>2. CASE at = "none"
    BY <2>1, <2>2 DEF Walking
  <2>3. CASE at # "none"
    BY <1>1, <1>2, <2>1, <2>3, BesideWalk DEF Walking
  <2>4. QED
    BY <2>2, <2>3
<1>3. CASE BeginWalk
  <2>1. at' # "none"
    BY <1>3 DEF BeginWalk
  <2>2. QED
    BY <1>3, <2>1, BeginWalkHolds DEF Walking
<1>4. CASE WalkStep
  BY <1>4, WalkHolds DEF WalkStep, Walk
<1>5. CASE UNCHANGED allVars
  <2>1. UNCHANGED <<active, walk>>
    BY <1>5 DEF allVars, vars
  <2>2. stable' = stable \cap {Place(h) : h \in active'} \/ at = "none"
    BY <2>1 DEF walk, Walking, WalkProofs!IInv, WalkProofs!TypeOK
  <2>3. CASE at = "none"
    BY <2>1, <2>3 DEF walk, Walking
  <2>4. CASE at # "none"
    <3>1. Beside
      BY <1>5, <2>2, <2>4 DEF Beside, allVars, walk
    <3>2. QED
      BY <1>2, <3>1
  <2>5. QED
    BY <2>3, <2>4
<1>6. QED
  BY <1>2, <1>3, <1>4, <1>5 DEF IngestionNext, IngestStep

(* A client that walks the index while documents are added and deleted     *)
(* comes to every document of the first slice that it found that stays     *)
(* until the end (Shard::ConstIterator, Shard.cpp:538-602).                *)
THEOREM FirstSliceIsVisited == IngestionSpec => []FirstSliceComplete
<1>1. IngestionInit => Walking
  BY DEF IngestionInit, Walking
<1>2. IInv /\ IInv' /\ Walking /\ [IngestionNext]_allVars => Walking'
  BY NextWalking
<1>3. Walking => FirstSliceComplete
  BY DEF Walking, WalkProofs!IInv, FirstSliceComplete, Iterator!FirstSliceComplete,
    WalkProofs!FirstSliceComplete
<1>4. QED
  BY <1>1, <1>2, <1>3, ThreadsInvariant, PTL DEF IngestionSpec

(* And it comes to no document twice.                                      *)
THEOREM WalkedOnce == IngestionSpec => NeverTwice
<1>1. IngestionInit => Walking
  BY DEF IngestionInit, Walking
<1>2. IInv /\ IInv' /\ Walking /\ [IngestionNext]_allVars => Walking'
  BY NextWalking
<1>3. Walking /\ Iterator!StopHere => Iterator!Here \notin visited
  <2> SUFFICES ASSUME Walking, Iterator!StopHere PROVE Iterator!Here \notin visited
    OBVIOUS
  <2>1. WalkProofs!IteratorAssumption
    BY IngestionAssumption DEF WalkProofs!IteratorAssumption
  <2>2. WalkProofs!IInv /\ WalkProofs!StopHere
    BY DEF Walking, Iterator!StopHere, Iterator!AtEnd, Iterator!Here,
      WalkProofs!StopHere, WalkProofs!AtEnd, WalkProofs!Here
  <2>3. WalkProofs!Here \notin visited
    BY <2>1, <2>2, WalkProofs!StopIsNew
  <2>4. QED
    BY <2>3 DEF Iterator!Here, WalkProofs!Here
<1>4. Walking /\ [IngestionNext]_allVars
        => [Iterator!StopHere => Iterator!Here \notin visited]_Iterator!vars
  BY <1>3
<1>5. QED
  BY <1>1, <1>2, <1>4, ThreadsInvariant, PTL DEF IngestionSpec, NeverTwice, Iterator!NeverTwice

-----------------------------------------------------------------------------
(* Everything is ingested                                                  *)

(* A chunk that has been taken is still with a thread, or all it contains  *)
(* is in the cache; of a thread's own chunk all but the last document that *)
(* it has read is there; and nothing else.                                 *)
Through(c) ==
  /\ chunks[c].inside = "end of file"
  /\ \A k \in DocumentsOf(c) : manifest[c].documents[k].id \in m_documentCache

Behind(a) ==
  IF m_currentDocument[a] = NoDocument THEN 1 .. m_next[a] - 1 ELSE 1 .. m_next[a] - 2

CachedOf(a) ==
  InChunk(a) => \A k \in Behind(a) : manifest[task[a]].documents[k].id \in m_documentCache

Ids == {document.id : document \in Written}

Cached ==
  /\ \A c \in 1 .. m_nextTaskId - 1 : Through(c) \/ \E a \in Adder : task[a] = c
  /\ \A a \in Adder : CachedOf(a)
  /\ m_documentCache \subseteq Ids

LEMMA CachedStays ==
  ASSUME Threads, Cached, NEW t, OthersStay(t), UNCHANGED <<manifest, chunks>>,
         m_documentCache \subseteq m_documentCache', m_documentCache' \subseteq Ids,
         t \in Adder => CachedOf(t)',
         t \in Adder => \A c : task[t] = c => task'[t] = c \/ c = None \/ Through(c)',
         \A c \in 1 .. m_nextTaskId' - 1 :
           c \in 1 .. m_nextTaskId - 1 \/ (t \in Adder /\ task'[t] = c)
  PROVE  Cached'
<1>1. Ids' = Ids
  BY DEF Ids, Written
<1>2. ASSUME NEW b \in Adder, b # t PROVE CachedOf(b)'
  <2>1. CachedOf(b)
    BY DEF Cached
  <2>2. task'[b] = task[b] /\ m_next'[b] = m_next[b]
        /\ m_currentDocument'[b] = m_currentDocument[b]
    BY <1>2 DEF OthersStay
  <2>3. QED
    BY <2>1, <2>2 DEF CachedOf, Behind, InChunk
<1>3. ASSUME NEW c \in 1 .. m_nextTaskId' - 1
      PROVE  Through(c)' \/ \E a \in Adder : task'[a] = c
  <2>1. CASE t \in Adder /\ task'[t] = c
    BY <2>1
  <2>2. CASE c \in 1 .. m_nextTaskId - 1
    <3>1. CASE Through(c)
      BY <3>1 DEF Through, DocumentsOf
    <3>2. ASSUME NEW b \in Adder, task[b] = c PROVE Through(c)' \/ task'[b] = c
      <4>1. CASE b # t
        BY <3>2, <4>1 DEF OthersStay
      <4>2. CASE b = t
        <5>1. c # None
          BY <2>2, NoneIsNotFinished DEF Threads, Types
        <5>2. QED
          BY <3>2, <4>2, <5>1
      <4>3. QED
        BY <4>1, <4>2
    <3>3. QED
      BY <2>2, <3>1, <3>2 DEF Cached
  <2>3. QED
    BY <1>3, <2>1, <2>2
<1>4. QED
  BY <1>1, <1>2, <1>3 DEF Cached

LEMMA ChunkCached ==
  ASSUME Threads, Cached, NEW a \in Adder, TakeChunk(a) \/ EndChunk(a) \/ ReaderThrows(a),
         UNCHANGED <<manifest, chunks>>
  PROVE  Cached'
<1>1. OthersStay(a) /\ m_documentCache' = m_documentCache /\ m_documentCache \subseteq Ids
  BY DEF TakeChunk, EndChunk, ReaderThrows, Threads, Types, OthersStay, IsMap, vars, Cached
<1>2. task \in [Adder -> {None, Finished} \cup 1 .. Len(manifest)]
      /\ m_next \in [Adder -> Nat \ {0}]
  BY DEF Threads, Types
<1>0. m_nextTaskId \in Nat
  BY DEF Threads, Types
<1> DEFINE Known ==
      \A c \in 1 .. m_nextTaskId' - 1 :
        c \in 1 .. m_nextTaskId - 1 \/ (a \in Adder /\ task'[a] = c)
<1>7. m_nextTaskId' = m_nextTaskId => Known
  BY <1>0
<1>3. CASE TakeChunk(a)
  <2>1. CachedOf(a)'
    <3>1. InChunk(a)' => m_next'[a] = 1
      BY <1>2, <1>3 DEF TakeChunk, InChunk
    <3>2. InChunk(a)' => Behind(a)' = {}
      BY <3>1 DEF Behind
    <3>3. QED
      BY <3>2 DEF CachedOf
  <2>2. task[a] = None
    BY <1>3 DEF TakeChunk, HasNone
  <2>3. Known
    <3>1. CASE m_nextTaskId <= Len(manifest)
      <4>1. m_nextTaskId' = m_nextTaskId + 1 /\ task'[a] = m_nextTaskId
        BY <1>2, <1>3, <3>1 DEF TakeChunk
      <4>2. QED
        BY <1>0, <4>1
    <3>2. CASE ~(m_nextTaskId <= Len(manifest))
      BY <1>3, <1>7, <3>2 DEF TakeChunk
    <3>3. QED
      BY <3>1, <3>2
  <2>4. QED
    BY <1>1, <2>1, <2>2, <2>3, CachedStays
<1>4. CASE EndChunk(a)
  <2>1. /\ InChunk(a) /\ m_currentDocument[a] = NoDocument
        /\ m_next[a] > Len(Documents(a)) /\ chunks[task[a]].inside = "end of file"
    BY <1>4 DEF EndChunk, IsReading, EndsWith, InChunk
  <2>2. task[a] \in 1 .. Len(manifest) /\ Len(Documents(a)) \in Nat
    BY <2>1, InHandsIsRead
  <2>3. Len(Documents(a)) = Len(manifest[task[a]].documents)
    BY <2>1, <2>2 DEF Threads, Types, OutOf, Documents
  <2>4. DocumentsOf(task[a]) \subseteq Behind(a)
    <3>1. m_next[a] \in Nat /\ Len(Documents(a)) <= m_next[a] - 1
      <4>1. m_next[a] \in Nat
        BY <1>2
      <4>2. m_next[a] > Len(Documents(a))
        BY <2>1
      <4>3. QED
        BY <2>2, <4>1, <4>2
    <3>2. DocumentsOf(task[a]) = 1 .. Len(Documents(a))
      BY <2>3 DEF DocumentsOf
    <3>3. Behind(a) = 1 .. m_next[a] - 1
      BY <2>1 DEF Behind
    <3>4. QED
      BY <2>2, <3>1, <3>2, <3>3
  <2>5. Through(task[a])
    BY <2>1, <2>4 DEF Through, Cached, CachedOf
  <2>6. \A c : task[a] = c => Through(c)'
    BY <1>1, <2>5 DEF Through, DocumentsOf
  <2>7. task'[a] = None /\ m_nextTaskId' = m_nextTaskId
    BY <1>2, <1>4 DEF EndChunk
  <2>8. CachedOf(a)'
    BY <2>7 DEF CachedOf, InChunk
  <2>9. Known
    BY <1>7, <2>7
  <2>10. QED
    BY <1>1, <2>6, <2>8, <2>9, CachedStays
<1>5. CASE ReaderThrows(a)
  <2>1. UNCHANGED <<task, m_next, m_currentDocument, m_nextTaskId>>
    BY <1>5 DEF ReaderThrows
  <2>2. CachedOf(a)'
    BY <1>1, <2>1 DEF Cached, CachedOf, Behind, InChunk
  <2>3. Known
    BY <1>7, <2>1
  <2>4. \A c : task[a] = c => task'[a] = c \/ c = None \/ Through(c)'
    BY <2>1
  <2>5. QED
    BY <1>1, <2>2, <2>3, <2>4, CachedStays
<1>6. QED
  BY <1>3, <1>4, <1>5

LEMMA ReadCached ==
  ASSUME Threads, Cached, NEW a \in Adder, ReadDocument(a) \/ CacheDocument(a),
         OthersStay(a), UNCHANGED <<manifest, chunks>>
  PROVE  Cached'
<1>1. UNCHANGED <<task, m_nextTaskId>> /\ IsMap(m_currentDocument, Adder)
  BY DEF ReadDocument, CacheDocument, Threads, Types
<1>2. m_nextTaskId \in Nat /\ m_next[a] \in Nat \ {0}
  BY DEF Threads, Types
<1>3. /\ \A c \in 1 .. m_nextTaskId' - 1 :
           c \in 1 .. m_nextTaskId - 1 \/ (a \in Adder /\ task'[a] = c)
      /\ \A c : task[a] = c => task'[a] = c \/ c = None \/ Through(c)'
  BY <1>1, <1>2
<1>4. InChunk(a) /\ m_documentCache \subseteq Ids
  BY DEF ReadDocument, IsReading, CacheDocument, InChunk, Threads, InHands, Cached
<1>5. CASE ReadDocument(a)
  <2>1. m_documentCache' = m_documentCache /\ m_currentDocument[a] = NoDocument
        /\ m_next'[a] = m_next[a] + 1
    BY <1>5 DEF ReadDocument, IsReading, Threads, Types
  <2>2. Behind(a)' \subseteq Behind(a)
    <3>1. Behind(a) = 1 .. m_next[a] - 1
      BY <2>1 DEF Behind
    <3>2. m_next'[a] - 2 = m_next[a] - 1 \/ ~(m_currentDocument'[a] # NoDocument)
      BY <1>2, <2>1
    <3>3. m_currentDocument'[a] # NoDocument
      <4>1. m_currentDocument'[a].m_docId \in DocId
        BY <1>5, DocumentNext
      <4>2. QED
        BY <4>1, IngestorAssumption DEF NoDocument, NewDocument
    <3>4. QED
      BY <3>1, <3>2, <3>3 DEF Behind
  <2>3. CachedOf(a)'
    BY <1>1, <1>4, <2>1, <2>2 DEF Cached, CachedOf, InChunk
  <2>4. QED
    BY <1>3, <1>4, <2>1, <2>3, CachedStays
<1>6. CASE CacheDocument(a)
  <2>1. /\ m_documentCache' = m_documentCache \cup {m_currentDocument[a].m_docId}
        /\ m_currentDocument[a] # NoDocument /\ m_next' = m_next
    BY <1>6 DEF CacheDocument
  <2>2. m_currentDocument'[a] = NoDocument
    BY <1>1, <1>6 DEF CacheDocument, IsMap
  <2>3. PICK c, k : c = task[a] /\ k = m_next[a] - 1
    OBVIOUS
  <2>4. c \in 1 .. Len(manifest) /\ k \in 1 .. Len(chunks[c].documents)
    BY <1>4, <2>1, <2>3, InHandsIsRead
  <2>5. /\ m_currentDocument[a] = chunks[c].documents[k]
        /\ manifest[c].documents[k] \in Written
        /\ AsWritten(chunks[c].documents[k], manifest[c].documents[k])
    BY <2>1, <2>3, <2>4, ReadIsWritten DEF Threads, InHands, Documents
  <2>6. m_currentDocument[a].m_docId = manifest[c].documents[k].id
    BY <2>5 DEF AsWritten
  <2>7. manifest[c].documents[k].id \in Ids
    BY <2>5 DEF Ids
  <2>8. Behind(a)' \subseteq Behind(a) \cup {k}
    <3>1. Behind(a) = 1 .. m_next[a] - 2 /\ Behind(a)' = 1 .. m_next[a] - 1
      BY <2>1, <2>2 DEF Behind
    <3>2. QED
      BY <1>2, <2>3, <3>1
  <2>9. CachedOf(a)'
    <3>1. ASSUME NEW j \in Behind(a)' PROVE manifest[c].documents[j].id \in m_documentCache'
      <4>1. CASE j = k
        BY <2>1, <2>6, <4>1
      <4>2. CASE j \in Behind(a)
        BY <1>4, <2>1, <2>3, <4>2 DEF Cached, CachedOf
      <4>3. QED
        BY <2>8, <3>1, <4>1, <4>2
    <3>2. QED
      BY <1>1, <2>3, <3>1 DEF CachedOf
  <2>10. m_documentCache \subseteq m_documentCache' /\ m_documentCache' \subseteq Ids
    BY <1>4, <2>1, <2>6, <2>7
  <2>11. QED
    BY <1>3, <2>9, <2>10, CachedStays
<1>7. QED
  BY <1>5, <1>6

LEMMA NextCached ==
  ASSUME IInv, Threads, Cached, [IngestionNext]_allVars
  PROVE  Cached'
<1>0. m_nextTaskId \in Nat /\ m_documentCache \subseteq Ids
  BY DEF Threads, Types, Cached
<1>1. ASSUME NEW t, OthersStay(t), UNCHANGED <<manifest, chunks>>, UNCHANGED reading
      PROVE  Cached'
  <2>1. UNCHANGED <<m_nextTaskId, task, m_next, m_currentDocument, m_documentCache>>
    BY <1>1 DEF reading
  <2>2. t \in Adder => CachedOf(t)'
    BY <1>1, <2>1 DEF Cached, CachedOf, Behind, InChunk
  <2>3. /\ \A c \in 1 .. m_nextTaskId' - 1 :
             c \in 1 .. m_nextTaskId - 1 \/ (t \in Adder /\ task'[t] = c)
        /\ t \in Adder => \A c : task[t] = c => task'[t] = c \/ c = None \/ Through(c)'
    BY <1>0, <2>1
  <2>4. QED
    BY <1>0, <1>1, <2>1, <2>2, <2>3, CachedStays
<1>2. ASSUME NEW a \in Adder, IngestChunks(a), Beside PROVE Cached'
  <2>1. OthersStay(a) /\ UNCHANGED <<manifest, chunks>>
    BY <1>2, IngestStays DEF IInv, Beside
  <2>2. CASE TakeChunk(a) \/ EndChunk(a) \/ ReaderThrows(a)
    BY <2>1, <2>2, ChunkCached
  <2>3. CASE ReadDocument(a) \/ CacheDocument(a)
    BY <2>1, <2>3, ReadCached
  <2>4. CASE Allocate(a) \/ Ingest(a) \/ EndAdd(a)
    <3>1. UNCHANGED reading
      BY <2>4 DEF Allocate, Ingest, EndAdd
    <3>2. QED
      BY <1>1, <2>1, <3>1
  <2>5. CASE IngestorThrows(a)
    <3>1. UNCHANGED <<m_nextTaskId, task, m_next, m_currentDocument, m_documentCache>>
      BY <2>5 DEF IngestorThrows
    <3>2. CachedOf(a)'
      BY <2>1, <3>1 DEF Cached, CachedOf, Behind, InChunk
    <3>3. /\ \A c \in 1 .. m_nextTaskId' - 1 :
               c \in 1 .. m_nextTaskId - 1 \/ (a \in Adder /\ task'[a] = c)
          /\ a \in Adder => \A c : task[a] = c => task'[a] = c \/ c = None \/ Through(c)'
      BY <1>0, <3>1
    <3>4. QED
      BY <1>0, <2>1, <3>1, <3>2, <3>3, CachedStays
  <2>6. QED
    BY <1>2, <2>2, <2>3, <2>4, <2>5 DEF IngestChunks
<1>3. ASSUME NEW d \in Deleter, DeleteDocument(d), Beside PROVE Cached'
  <2>1. OthersStay(d) /\ UNCHANGED <<manifest, chunks>> /\ UNCHANGED reading
    BY <1>3, DeleteStays DEF IInv, Beside, DeleteDocument
  <2>2. QED
    BY <1>1, <2>1
<1>4. CASE (BeginWalk /\ UNCHANGED <<manifest, chunks>>) \/ WalkStep \/ UNCHANGED allVars
  <2>1. OthersStay(None) /\ UNCHANGED <<manifest, chunks>> /\ UNCHANGED reading
    BY <1>4 DEF BeginWalk, WalkStep, Walk, allVars, vars, reading, OthersStay
  <2>2. QED
    BY <1>1, <2>1
<1>5. QED
  BY <1>2, <1>3, <1>4 DEF IngestionNext, IngestStep

LEMMA InitCached == IngestionInit => Cached
<1> SUFFICES ASSUME IngestionInit PROVE Cached
  OBVIOUS
<1>1. m_nextTaskId = 1 /\ m_documentCache = {} /\ \A a \in Adder : task[a] = None
  BY DEF IngestionInit
<1>2. \A a \in Adder : CachedOf(a)
  BY <1>1 DEF CachedOf, InChunk
<1>3. QED
  BY <1>1, <1>2 DEF Cached

(* A column is given out for each document of the chunks that have been    *)
(* taken, but for those that their thread has still before it.             *)
Ahead(a, p) ==
  /\ task[a] = p[1]
  /\ p[2] >= m_next[a] \/ (p[2] = m_next[a] - 1 /\ pc[a] = "allocate")

PairsTo(n) == UNION {{c} \X DocumentsOf(c) : c \in 1 .. n}
Mine(t) == {p \in PairsTo(m_nextTaskId - 1) : t \in Adder => ~Ahead(t, p)}
Placed == {p \in PairsTo(m_nextTaskId - 1) : \A a \in Adder : ~Ahead(a, p)}

Counted == ~thrown => IsFiniteSet(Placed) /\ Cardinality(Used) = Cardinality(Placed)

LEMMA PairOf ==
  ASSUME NEW n, NEW p
  PROVE  p \in PairsTo(n) <=>
           p = <<p[1], p[2]>> /\ p[1] \in 1 .. n /\ p[2] \in DocumentsOf(p[1])
BY DEF PairsTo

LEMMA CountedStays ==
  ASSUME Counted, NEW t, OthersStay(t), Mine(t)' = Mine(t), columns' = columns,
         thrown' = FALSE => thrown = FALSE, thrown \in BOOLEAN, thrown' \in BOOLEAN
  PROVE  Counted'
<1>1. \A b \in Adder : b # t => \A p : Ahead(b, p)' = Ahead(b, p)
  BY DEF OthersStay, Ahead
<1>2. Placed = {p \in Mine(t) : \A b \in Adder : b # t => ~Ahead(b, p)}
  BY DEF Placed, Mine
<1>3. Placed' = {p \in Mine(t)' : \A b \in Adder : b # t => ~Ahead(b, p)'}
  BY DEF Placed, Mine
<1>4. Placed' = Placed
  BY <1>1, <1>2, <1>3
<1>5. Used' = Used
  BY DEF Used
<1>6. QED
  BY <1>4, <1>5 DEF Counted

(* Where a thread does not come nearer to a column, nothing changes.       *)
LEMMA SameAhead ==
  ASSUME Counted, NEW a \in Adder, OthersStay(a), UNCHANGED <<manifest, columns>>,
         UNCHANGED <<task, m_nextTaskId, m_next, thrown>>, thrown \in BOOLEAN,
         pc[a] = "allocate" <=> pc'[a] = "allocate"
  PROVE  Counted'
<1>1. \A p : Ahead(a, p)' = Ahead(a, p)
  BY DEF Ahead
<1>2. Mine(a)' = Mine(a)
  BY <1>1 DEF Mine, PairsTo, DocumentsOf
<1>3. QED
  BY <1>2, CountedStays

LEMMA ChunkCounted ==
  ASSUME Threads, Counted, NEW a \in Adder, TakeChunk(a) \/ EndChunk(a), OthersStay(a),
         UNCHANGED <<manifest, chunks>>
  PROVE  Counted'
<1>1. /\ m_nextTaskId \in Nat /\ m_nextTaskId >= 1 /\ thrown \in BOOLEAN
      /\ task \in [Adder -> {None, Finished} \cup 1 .. Len(manifest)]
      /\ m_next \in [Adder -> Nat \ {0}]
  BY DEF Threads, Types
<1>2. thrown' = thrown /\ columns' = columns /\ pc' = pc /\ pc[a] = "idle"
  BY DEF TakeChunk, EndChunk, HasNone, IsReading, vars
<1>3. ASSUME NEW p, p \in PairsTo(m_nextTaskId - 1), task[a] \in {None, Finished}
      PROVE  ~Ahead(a, p)
  BY <1>3, PairOf, NoneIsNotFinished DEF Ahead, Finished
<1>4. CASE TakeChunk(a) /\ m_nextTaskId <= Len(manifest)
  <2>1. PICK c : c = m_nextTaskId
    OBVIOUS
  <2>2. task[a] = None /\ task'[a] = c /\ m_nextTaskId' = c + 1 /\ m_next'[a] = 1
    BY <1>1, <1>4, <2>1 DEF TakeChunk, HasNone
  <2>3. \A d : DocumentsOf(d)' = DocumentsOf(d)
    BY DEF DocumentsOf
  <2>4. ASSUME NEW p PROVE p \in Mine(a)' <=> p \in Mine(a)
    <3>1. p \in PairsTo(m_nextTaskId - 1)' <=>
            p = <<p[1], p[2]>> /\ p[1] \in 1 .. c /\ p[2] \in DocumentsOf(p[1])
      BY <1>1, <2>1, <2>2, <2>3 DEF PairsTo
    <3>2. p \in PairsTo(m_nextTaskId - 1) <=>
            p = <<p[1], p[2]>> /\ p[1] \in 1 .. c - 1 /\ p[2] \in DocumentsOf(p[1])
      BY <2>1, PairOf
    <3>3. p[2] \in DocumentsOf(p[1]) => p[2] \in Nat /\ p[2] >= 1
      BY DEF DocumentsOf
    <3>4. p[2] \in DocumentsOf(p[1]) => (Ahead(a, p)' <=> p[1] = c)
      BY <1>2, <2>2, <3>3 DEF Ahead
    <3>5. p \in PairsTo(m_nextTaskId - 1) => ~Ahead(a, p)
      BY <1>3, <2>2
    <3>6. c \in Nat /\ c >= 1
      BY <1>1, <2>1
    <3>7. p[1] \in 1 .. c /\ p[1] # c <=> p[1] \in 1 .. c - 1
      BY <3>6
    <3>8. QED
      BY <3>1, <3>2, <3>4, <3>5, <3>7 DEF Mine
  <2>5. Mine(a)' = Mine(a)
    BY <2>4 DEF Mine
  <2>6. QED
    BY <1>1, <1>2, <2>5, CountedStays
<1>5. CASE TakeChunk(a) /\ ~(m_nextTaskId <= Len(manifest))
  <2>1. task[a] = None /\ task'[a] = Finished /\ m_nextTaskId' = m_nextTaskId
    BY <1>1, <1>5 DEF TakeChunk, HasNone
  <2>2. PairsTo(m_nextTaskId - 1)' = PairsTo(m_nextTaskId - 1)
    BY <2>1 DEF PairsTo, DocumentsOf
  <2>3. \A p \in PairsTo(m_nextTaskId - 1) : ~Ahead(a, p) /\ ~Ahead(a, p)'
    <3>1. ASSUME NEW p \in PairsTo(m_nextTaskId - 1) PROVE ~Ahead(a, p)'
      <4>1. p[1] # Finished
        BY PairOf DEF Finished
      <4>2. QED
        BY <2>1, <4>1 DEF Ahead
    <3>2. QED
      BY <1>3, <2>1, <3>1
  <2>4. Mine(a)' = Mine(a)
    BY <2>2, <2>3 DEF Mine
  <2>5. QED
    BY <1>1, <1>2, <2>4, CountedStays
<1>6. CASE EndChunk(a)
  <2>1. /\ InChunk(a) /\ chunks[task[a]].inside = "end of file"
        /\ m_next[a] > Len(Documents(a))
    BY <1>6 DEF EndChunk, IsReading, EndsWith, InChunk
  <2>2. task[a] \in 1 .. Len(manifest) /\ Len(Documents(a)) \in Nat
    BY <2>1, InHandsIsRead
  <2>3. Len(Documents(a)) = Len(manifest[task[a]].documents)
    BY <2>1, <2>2 DEF Threads, Types, OutOf, Documents
  <2>4. task'[a] = None /\ m_nextTaskId' = m_nextTaskId
    BY <1>1, <1>6 DEF EndChunk
  <2>5. PairsTo(m_nextTaskId - 1)' = PairsTo(m_nextTaskId - 1)
    BY <2>4 DEF PairsTo, DocumentsOf
  <2>6. ASSUME NEW p \in PairsTo(m_nextTaskId - 1) PROVE ~Ahead(a, p) /\ ~Ahead(a, p)'
    <3>1. p[1] \in Nat /\ p[2] \in DocumentsOf(p[1])
      BY PairOf
    <3>2. ~Ahead(a, p)'
      BY <2>4, <3>1, NoneIsNotFinished DEF Ahead
    <3>3. CASE p[1] = task[a]
      <4>1. p[2] \in 1 .. Len(Documents(a))
        BY <2>3, <3>1, <3>3 DEF DocumentsOf
      <4>2. m_next[a] \in Nat /\ m_next[a] > Len(Documents(a))
        BY <1>1, <2>1
      <4>3. ~(p[2] >= m_next[a])
        BY <2>2, <4>1, <4>2
      <4>4. QED
        BY <1>2, <3>2, <4>3 DEF Ahead
    <3>4. CASE p[1] # task[a]
      BY <3>2, <3>4 DEF Ahead
    <3>5. QED
      BY <3>3, <3>4
  <2>7. Mine(a)' = Mine(a)
    BY <2>5, <2>6 DEF Mine
  <2>8. QED
    BY <1>1, <1>2, <2>7, CountedStays
<1>7. QED
  BY <1>4, <1>5, <1>6

LEMMA ReadCounted ==
  ASSUME TypeOK, Threads, Counted, NEW a \in Adder, ReadDocument(a), OthersStay(a),
         UNCHANGED <<manifest, chunks>>
  PROVE  Counted'
<1>1. /\ pc \in [Thread -> PC] /\ a \in Thread /\ thrown \in BOOLEAN
      /\ m_next \in [Adder -> Nat \ {0}]
  BY DEF TypeOK, Thread, Threads, Types
<1>2. /\ UNCHANGED <<task, m_nextTaskId, thrown, columns>>
      /\ m_next' = [m_next EXCEPT ![a] = @ + 1]
      /\ pc[a] = "idle" /\ pc' = [pc EXCEPT ![a] = "allocate"]
  BY DEF ReadDocument, CountDocument, Goto
<1>3. pc'[a] = "allocate" /\ m_next'[a] = m_next[a] + 1
  BY <1>1, <1>2
<1>4. PICK n \in Nat : n = m_next[a]
  BY <1>1
<1>5. PairsTo(m_nextTaskId - 1)' = PairsTo(m_nextTaskId - 1)
  BY <1>2 DEF PairsTo, DocumentsOf
<1>6. ASSUME NEW p \in PairsTo(m_nextTaskId - 1) PROVE Ahead(a, p)' <=> Ahead(a, p)
  <2>1. p[2] \in Nat
    BY PairOf DEF DocumentsOf
  <2>2. p[2] >= n + 1 \/ p[2] = (n + 1) - 1 <=> p[2] >= n
    BY <2>1, <1>4
  <2>3. Ahead(a, p)' <=> task[a] = p[1] /\ p[2] >= n
    BY <1>2, <1>3, <1>4, <2>2 DEF Ahead
  <2>4. Ahead(a, p) <=> task[a] = p[1] /\ p[2] >= n
    BY <1>2, <1>4 DEF Ahead
  <2>5. QED
    BY <2>3, <2>4
<1>7. Mine(a)' = Mine(a)
  BY <1>5, <1>6 DEF Mine
<1>8. QED
  BY <1>1, <1>2, <1>7, CountedStays

(* The column that is given out is the one of the document.                *)
LEMMA AllocateCounted ==
  ASSUME TypeOK, Threads, Counted, NEW a \in Adder, Allocate(a), OthersStay(a),
         UNCHANGED <<manifest, chunks>>, ~thrown
  PROVE  Counted'
<1>1. /\ pc \in [Thread -> PC] /\ a \in Thread /\ m_next \in [Adder -> Nat \ {0}]
      /\ m_nextTaskId \in Nat /\ columns \in [Column -> DocId \cup {None}]
  BY DEF TypeOK, Thread, Threads, Types
<1>2. /\ UNCHANGED <<task, m_nextTaskId, m_next, m_currentDocument, thrown>>
      /\ pc[a] = "allocate" /\ pc' = [pc EXCEPT ![a] = "ingest"]
  BY DEF Allocate, AllocateDocument, Goto, reading
<1>3. /\ InChunk(a) /\ m_currentDocument[a] # NoDocument /\ id[a] = m_currentDocument[a].m_docId
      /\ task[a] < m_nextTaskId
  BY <1>2 DEF Threads, InHands
<1>4. PICK c, k : c = task[a] /\ k = m_next[a] - 1
  OBVIOUS
<1>5. PICK p : p = <<c, k>>
  OBVIOUS
<1>6. c \in 1 .. Len(manifest) /\ k \in 1 .. Len(chunks[c].documents) /\ k + 1 = m_next[a]
  <2>1. k \in 1 .. Len(chunks[c].documents)
    BY <1>3, <1>4, InHandsIsRead
  <2>2. PICK n \in Nat : n = m_next[a]
    BY <1>1
  <2>3. QED
    BY <1>3, <1>4, <2>1, <2>2, InHandsIsRead
<1>7. p \in PairsTo(m_nextTaskId - 1) /\ p[1] = c /\ p[2] = k
  <2>1. k \in DocumentsOf(c)
    BY <1>6, ReadIsWritten DEF Threads
  <2>2. c \in 1 .. m_nextTaskId - 1
    <3>1. c \in Nat /\ c >= 1 /\ c < m_nextTaskId
      BY <1>3, <1>4, <1>6
    <3>2. QED
      BY <1>1, <3>1
  <2>3. QED
    BY <1>5, <2>1, <2>2, PairOf
<1>8. PairsTo(m_nextTaskId - 1)' = PairsTo(m_nextTaskId - 1)
  BY <1>2 DEF PairsTo, DocumentsOf
<1>9. Ahead(a, p) /\ \A q \in PairsTo(m_nextTaskId - 1) : Ahead(a, q)' <=> Ahead(a, q) /\ q # p
  <2>1. pc'[a] = "ingest"
    BY <1>1, <1>2
  <2>2. Ahead(a, p)
    BY <1>2, <1>4, <1>7 DEF Ahead
  <2>3. ASSUME NEW q \in PairsTo(m_nextTaskId - 1)
        PROVE  Ahead(a, q)' <=> Ahead(a, q) /\ q # p
    <3>1. q = <<q[1], q[2]>> /\ q[2] \in Nat
      BY PairOf DEF DocumentsOf
    <3>2. q = p <=> q[1] = c /\ q[2] = k
      BY <1>5, <3>1
    <3>3. Ahead(a, q)' <=> c = q[1] /\ q[2] >= k + 1
      BY <1>2, <1>4, <1>6, <2>1 DEF Ahead
    <3>4. Ahead(a, q) <=> c = q[1] /\ (q[2] >= k + 1 \/ q[2] = k)
      BY <1>2, <1>4, <1>6 DEF Ahead
    <3>5. k \in Nat
      BY <1>6
    <3>6. q[2] >= k + 1 => q[2] # k
      BY <3>1, <3>5
    <3>7. QED
      BY <3>2, <3>3, <3>4, <3>6
  <2>4. QED
    BY <2>2, <2>3
<1>10. \A b \in Adder : b # a => \A q : Ahead(b, q)' = Ahead(b, q)
  BY DEF OthersStay, Ahead
<1>11. \A b \in Adder : b # a => ~Ahead(b, p)
  BY <1>3, <1>4, <1>7 DEF Ahead, Threads, Taken
<1>12. Placed' = Placed \cup {p} /\ p \notin Placed
  <2>1. ASSUME NEW q PROVE q \in Placed' <=> q \in Placed \/ q = p
    BY <1>7, <1>8, <1>9, <1>10, <1>11 DEF Placed
  <2>2. p \notin Placed
    BY <1>9 DEF Placed
  <2>3. QED
    BY <2>1, <2>2
<1>13. PICK h \in Column : columns[h] = None /\ columns' = [columns EXCEPT ![h] = id[a]]
  BY DEF Allocate, AllocateDocument
<1>14. Used' = Used \cup {h} /\ h \notin Used
  <2>1. id[a] # None
    <3>1. m_currentDocument[a] = chunks[c].documents[k]
      BY <1>3, <1>4 DEF Threads, InHands, Documents
    <3>2. AsWritten(chunks[c].documents[k], manifest[c].documents[k])
          /\ manifest[c].documents[k].id \in DocId
      BY <1>6, ReadIsWritten DEF Threads
    <3>3. id[a] \in DocId
      BY <1>3, <3>1, <3>2 DEF AsWritten
    <3>4. QED
      BY <3>3, IngestorAssumption
  <2>2. QED
    BY <1>1, <1>13, <2>1 DEF Used
<1>15. IsFiniteSet(Used)
  <2>1. IsFiniteSet(Column)
    BY IngestorAssumption, FS_Interval DEF Column
  <2>2. Used \subseteq Column
    BY DEF Used
  <2>3. QED
    BY <2>1, <2>2, FS_Subset
<1>16. IsFiniteSet(Placed) /\ Cardinality(Used) = Cardinality(Placed)
  BY DEF Counted
<1>17. /\ IsFiniteSet(Placed') /\ Cardinality(Placed') = Cardinality(Placed) + 1
       /\ Cardinality(Used') = Cardinality(Used) + 1
  BY <1>12, <1>14, <1>15, <1>16, FS_AddElement
<1>18. QED
  BY <1>16, <1>17 DEF Counted

LEMMA NextCounted ==
  ASSUME IInv, Threads, Threads', Counted, [IngestionNext]_allVars
  PROVE  Counted'
<1>0. /\ pc \in [Thread -> PC] /\ Adder \subseteq Thread /\ thrown \in BOOLEAN
      /\ thrown' \in BOOLEAN
  BY DEF IInv, TypeOK, Thread, Threads, Types
<1>1. ASSUME NEW a \in Adder, IngestChunks(a), Beside, ~thrown PROVE Counted'
  <2>1. OthersStay(a) /\ UNCHANGED <<manifest, chunks>>
    BY <1>1, IngestStays DEF IInv, Beside
  <2>2. CASE TakeChunk(a) \/ EndChunk(a)
    BY <2>1, <2>2, ChunkCounted
  <2>3. CASE ReadDocument(a)
    BY <2>1, <2>3, ReadCounted DEF IInv
  <2>4. CASE Allocate(a)
    BY <1>1, <2>1, <2>4, AllocateCounted DEF IInv
  <2>5. CASE ReaderThrows(a) \/ IngestorThrows(a)
    BY <2>5 DEF ReaderThrows, IngestorThrows, Counted
  <2>6. CASE Ingest(a) \/ EndAdd(a) \/ CacheDocument(a)
    <3>1. UNCHANGED <<columns, task, m_nextTaskId, m_next, thrown>>
      BY <2>6 DEF Ingest, EndAdd, CacheDocument, Activate, MapAdd, reading, vars
    <3>2. pc[a] # "allocate" /\ pc'[a] # "allocate"
      BY <1>0, <2>6 DEF Ingest, EndAdd, CacheDocument, Activate, MapAdd, Goto, vars
    <3>3. QED
      BY <1>0, <2>1, <3>1, <3>2, SameAhead
  <2>7. QED
    BY <1>1, <2>2, <2>3, <2>4, <2>5, <2>6 DEF IngestChunks
<1>2. ASSUME NEW t, OthersStay(t), t \notin Adder,
             UNCHANGED <<manifest, columns, m_nextTaskId, thrown>>
      PROVE  Counted'
  <2>1. Mine(t)' = Mine(t)
    BY <1>2 DEF Mine, PairsTo, DocumentsOf
  <2>2. QED
    BY <1>0, <1>2, <2>1, CountedStays
<1>3. ASSUME NEW d \in Deleter, DeleteDocument(d), Beside PROVE Counted'
  <2>1. OthersStay(d) /\ d \notin Adder
    BY <1>3, DeleteStays, IngestorAssumption DEF IInv
  <2>2. UNCHANGED <<manifest, columns, m_nextTaskId, thrown>>
    BY <1>3 DEF DeleteDocument, LockDelete, Find, MapDelete, Expire, EndDelete, reading, Beside
  <2>3. QED
    BY <1>2, <2>1, <2>2
<1>4. CASE (BeginWalk /\ UNCHANGED <<manifest, chunks>>) \/ WalkStep \/ UNCHANGED allVars
  <2>1. /\ OthersStay(None) /\ None \notin Adder
        /\ UNCHANGED <<manifest, columns, m_nextTaskId, thrown>>
    BY <1>4, IngestorAssumption
    DEF BeginWalk, WalkStep, Walk, allVars, vars, reading, OthersStay, Thread
  <2>2. QED
    BY <1>2, <2>1
<1>5. QED
  BY <1>1, <1>3, <1>4 DEF IngestionNext, IngestStep

LEMMA InitCounted == IngestionInit => Counted
<1> SUFFICES ASSUME IngestionInit PROVE Counted
  OBVIOUS
<1>1. Used = {}
  BY DEF IngestionInit, Init, Used
<1>2. Placed = {}
  BY DEF IngestionInit, Placed, PairsTo
<1>3. QED
  BY <1>1, <1>2, FS_EmptySet DEF Counted

LEMMA AllIsIngested ==
  ASSUME Threads, Cached, Counted, CachedWasAdded, \A a \in Adder : task[a] = Finished
  PROVE  EverythingIngested
<1>1. PICK a \in Adder : TRUE
  <2>1. Adder # {}
    BY FS_EmptySet, IngestionAssumption
  <2>2. QED
    BY <2>1
<1>2. ~thrown /\ m_nextTaskId = Len(manifest) + 1
  BY <1>1 DEF Threads, Taken, InChunk
<1>3. Len(manifest) \in Nat /\ m_nextTaskId - 1 = Len(manifest)
  <2>1. Len(manifest) \in Nat
    BY IngestionAssumption, LenProperties DEF Threads, Types
  <2>2. QED
    BY <1>2, <2>1
<1>4. ASSUME NEW document \in Written PROVE document.id \in m_documentCache
  <2>1. PICK c \in 1 .. Len(manifest) : \E k \in DocumentsOf(c) : document = manifest[c].documents[k]
    BY DEF Written, DocumentsOf
  <2>2. c # Finished
    BY DEF Finished
  <2>3. Through(c)
    BY <1>3, <2>2 DEF Cached
  <2>4. QED
    BY <2>1, <2>3 DEF Through
<1>5. m_documentCache = {document.id : document \in Written}
  BY <1>4 DEF Cached, Ids
<1>6. \A document \in Written :
        \/ Contains(document.id)
        \/ \E h \in Expired : columns[h] = document.id
        \/ \E d \in Deleter : pc[d] = "clear" /\ columns[location[d]] = document.id
  BY <1>4 DEF CachedWasAdded
<1>7. PairsTo(Len(manifest)) = UNION {{c} \X DocumentsOf(c) : c \in 1 .. Len(manifest)}
  BY DEF PairsTo
<1>8. Placed = PairsTo(Len(manifest))
  <2>1. ASSUME NEW p \in PairsTo(Len(manifest)), NEW b \in Adder PROVE ~Ahead(b, p)
    BY PairOf DEF Ahead, Finished
  <2>2. QED
    BY <1>3, <2>1 DEF Placed
<1>9. Cardinality(Used) = Cardinality(UNION {{c} \X DocumentsOf(c) : c \in 1 .. Len(manifest)})
  BY <1>2, <1>7, <1>8 DEF Counted
<1>10. QED
  BY <1>5, <1>6, <1>9 DEF EverythingIngested

(* When the threads have all ended, every document of every chunk of the   *)
(* manifest has been given one column and no more, it is in the index or   *)
(* has been deleted from it, and it is in the cache, with nothing else     *)
(* (IngestChunks.h:29-35).                                                 *)
THEOREM ChunksAreIngested == IngestionSpec => []EverythingIngested
<1>1. IngestionInit => Cached /\ Counted
  BY InitCached, InitCounted
<1>2. IInv /\ Threads /\ Threads' /\ Cached /\ Counted /\ [IngestionNext]_allVars
        => Cached' /\ Counted'
  BY NextCached, NextCounted
<1>3. Threads /\ Cached /\ Counted /\ CachedWasAdded => EverythingIngested
  BY AllIsIngested DEF EverythingIngested
<1>4. QED
  BY <1>1, <1>2, <1>3, ThreadsInvariant, CachedIsAdded, PTL DEF IngestionSpec
=============================================================================
