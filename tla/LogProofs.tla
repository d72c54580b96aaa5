------------------------------- MODULE LogProofs -------------------------------
(***************************************************************************)
(* Proofs about the log: the ring buffer (RingBuffer), and the block of    *)
(* persistent memory that holds it (PersistentLog, which extends it); for  *)
(* every Size, MaxLen, Message and number of boots within their            *)
(* assumptions.                                                            *)
(*                                                                         *)
(* The ring: ReadsBack is not inductive.  That a store leaves the older    *)
(* items alone follows from where they lie (ItemsApart), and that the      *)
(* removal loop stops before the buffer is empty follows from              *)
(* SizeAssumption.  Inv adds both, and Bytes says in terms of cells what   *)
(* Peek says of sequences.                                                 *)
(*                                                                         *)
(* The block: the ring's invariant holds whenever nobody is between two    *)
(* stores of u8_ringbuffer_add.  In between, Stored says what is there     *)
(* already, and Torn why a boot will not accept the block: its header is   *)
(* another than the one its CRC was computed from.                         *)
(***************************************************************************)
EXTENDS PersistentLog, SequenceTheorems, TLAPS

Ends ==
    /\ items = Len(live)
    /\ items = 0 => head = 0 /\ tail = 0
    /\ items > 0 => head = live[1].at /\ tail = live[items].at

Chain ==
    \A i, j \in 1 .. Len(live) :
        j = i + 1 => live[j].at = DataCell(live[i].at, Footprint(live[i].msg))

HasBytes(b, o, m) ==
    /\ b[o] = Len(m)
    /\ \A k \in 1 .. Len(m) : b[DataCell(o, k)] = m[k]

Bytes == \A i \in 1 .. Len(live) : HasBytes(buf, live[i].at, live[i].msg)

Inv == TypeOK /\ Ends /\ Chain /\ Bytes /\ ItemsApart

\* What is true of the items held whatever the tail says, which moves before
\* the new item is stored and counted
HeadEnd ==
    /\ items = Len(live)
    /\ items = 0 => head = 0
    /\ items > 0 => head = live[1].at

Kept == TypeOK /\ HeadEnd /\ Chain /\ Bytes /\ ItemsApart

-------------------------------------------------------------------------------
(* Arithmetic on offsets *)

LEMMA SizeFacts ==
    /\ Size \in Nat /\ MaxLen \in 1 .. 255 /\ Size >= 2 * (MaxLen + 2)
    /\ \A m \in Message :
          /\ m \in Seq(0 .. 255) /\ Len(m) \in 1 .. MaxLen
          /\ Footprint(m) = Len(m) + 2
          /\ Footprint(m) \in 3 .. MaxLen + 2
  BY SizeAssumption, MessageAssumption DEF Footprint

\* DataCell wraps at most once.
LEMMA WrapOnce ==
    ASSUME NEW o \in Offset, NEW k \in 0 .. Size
    PROVE  /\ DataCell(o, k) = IF o + k < Size THEN o + k ELSE o + k - Size
           /\ DataCell(o, k) \in Offset
  <1>1. Size \in Nat \ {0}
    BY SizeFacts
  <1> QED
    BY <1>1 DEF Offset, DataCell

\* Moving on by k cells moves k away from the head, until the head is met.
LEMMA DistanceGrows ==
    ASSUME head \in Offset, NEW o \in Offset, NEW k \in Nat,
           Distance(o) + k < Size
    PROVE  /\ DataCell(o, k) \in Offset
           /\ Distance(DataCell(o, k)) = Distance(o) + k
  <1>1. Size \in Nat /\ Distance(o) \in 0 .. Size - 1 /\ k \in 0 .. Size
    BY SizeFacts DEF Offset, Distance, DistanceFrom
  <1>2. /\ DataCell(o, k) = IF o + k < Size THEN o + k ELSE o + k - Size
        /\ DataCell(o, k) \in Offset
    BY <1>1, WrapOnce
  <1>3. head \in 0 .. Size - 1 /\ o \in 0 .. Size - 1
    BY DEF Offset
  <1> QED
    BY <1>1, <1>2, <1>3 DEF Distance, DistanceFrom

\* The unwrapped step to the closing length may leave the array by one cell.
LEMMA DistanceOfSuffix ==
    ASSUME head \in Offset, NEW q \in Offset, Distance(q) < Size - 1
    PROVE  /\ q + 1 \in Cell
           /\ q + 1 \in Offset => Distance(q + 1) = Distance(q) + 1
  <1>1. Size \in Nat
    BY SizeFacts
  <1> QED
    BY <1>1 DEF Offset, Cell, Distance, DistanceFrom

\* What a store of m at o does to a cell, by the cell's distance.
LEMMA WriteItemEffect ==
    ASSUME head \in Offset, buf \in [Cell -> 0 .. 255],
           NEW o \in Offset, NEW m \in Message,
           Distance(o) + Footprint(m) <= Size
    PROVE  /\ WriteItem(buf, o, m) \in [Cell -> 0 .. 255]
           /\ \A c \in Offset :
                 Distance(c) < Distance(o) => WriteItem(buf, o, m)[c] = buf[c]
           /\ HasBytes(WriteItem(buf, o, m), o, m)
  <1> DEFINE n == Len(m)
             w == WriteItem(buf, o, m)
             s == SuffixCell(o, n)
  <1>m. m \in Seq(0 .. 255) /\ n = Len(m)
    BY SizeFacts
  <1>n. n \in 1 .. MaxLen /\ Footprint(m) = n + 2
    BY SizeFacts
  <1> HIDE DEF n, s, w
  <1>1. /\ Size \in Nat /\ n \in 1 .. 255 /\ o \in Cell
        /\ Distance(o) \in 0 .. Size - 1 /\ Distance(o) + n + 2 <= Size
    BY <1>n, SizeFacts DEF Offset, Distance, DistanceFrom, Cell
  <1>2. \A k \in 1 .. n : /\ DataCell(o, k) \in Offset
                          /\ Distance(DataCell(o, k)) = Distance(o) + k
    BY <1>1, DistanceGrows
  <1>3. s \in Cell /\ (s \in Offset => Distance(s) = Distance(o) + n + 1)
    <2>1. /\ DataCell(o, n) \in Offset
          /\ Distance(DataCell(o, n)) = Distance(o) + n
      BY <1>1, <1>2
    <2>2. s = DataCell(o, n) + 1
      BY DEF s, SuffixCell
    <2>3. Distance(DataCell(o, n)) < Size - 1
      BY <1>1, <2>1
    <2>4. /\ s \in Cell
          /\ s \in Offset => Distance(s) = Distance(DataCell(o, n)) + 1
      BY <2>1, <2>2, <2>3, DistanceOfSuffix
    <2> QED
      BY <1>1, <2>1, <2>4
  <1>4. \A j, k \in 1 .. n : DataCell(o, j) = DataCell(o, k) => j = k
    BY <1>1, <1>2
  <1>5. \A k \in 1 .. n : DataCell(o, k) # o /\ DataCell(o, k) # s
    BY <1>1, <1>2, <1>3
  <1>6. w \in [Cell -> 0 .. 255]
    <2> SUFFICES ASSUME NEW c \in Cell
                 PROVE  w[c] \in 0 .. 255
      BY DEF w, WriteItem
    <2>1. CASE \E k \in 1 .. n : c = DataCell(o, k)
      <3> DEFINE k == CHOOSE j \in 1 .. n : c = DataCell(o, j)
      <3>1. k \in 1 .. n
        BY <2>1
      <3>2. m[k] \in 0 .. 255
        BY <1>m, <3>1
      <3>3. w[c] = IF c = s \/ c = o THEN n ELSE m[k]
        BY <1>m, <2>1 DEF w, s, n, WriteItem
      <3> QED
        BY <1>1, <3>2, <3>3
    <2>2. CASE ~ \E k \in 1 .. n : c = DataCell(o, k)
      <3>1. w[c] = IF c = s \/ c = o THEN n ELSE buf[c]
        BY <1>m, <2>2 DEF w, s, n, WriteItem
      <3> QED
        BY <1>1, <3>1
    <2> QED
      BY <2>1, <2>2
  <1>7. ASSUME NEW c \in Offset, Distance(c) < Distance(o)
        PROVE  w[c] = buf[c]
    <2>1. c # o /\ c # s /\ \A k \in 1 .. n : c # DataCell(o, k)
      BY <1>1, <1>2, <1>3, <1>7
    <2>2. c \in Cell
      BY <1>1 DEF Offset, Cell
    <2> QED
      BY <2>1, <2>2 DEF w, s, n, WriteItem
  <1>8. w[o] = n
    BY <1>1 DEF w, s, n, WriteItem
  <1>9. ASSUME NEW k \in 1 .. n
        PROVE  w[DataCell(o, k)] = m[k]
    <2>1. DataCell(o, k) \in Cell
      BY <1>1, <1>2 DEF Offset, Cell
    <2>2. (CHOOSE j \in 1 .. n : DataCell(o, k) = DataCell(o, j)) = k
      BY <1>4
    <2> QED
      BY <1>5, <2>1, <2>2 DEF w, s, n, WriteItem
  <1> QED
    BY <1>6, <1>7, <1>8, <1>9 DEF w, n, HasBytes

-------------------------------------------------------------------------------
(* The invariant holds at first and every step keeps it *)

LEMMA InvInit == Init => Inv
  <1> SUFFICES ASSUME Init PROVE Inv
    OBVIOUS
  <1>1. Size \in Nat \ {0}
    BY SizeFacts
  <1>2. TypeOK
    BY <1>1 DEF Init, TypeOK, Cell, Offset, Idle
  <1>3. live = <<>> /\ Len(live) = 0 /\ Size - free = 0
    BY <1>1 DEF Init
  <1>4. Ends
    BY <1>3 DEF Init, Ends
  <1>5. Chain /\ Bytes
    BY <1>3 DEF Chain, Bytes
  <1>6. ItemsApart
    BY <1>3 DEF ItemsApart
  <1> QED
    BY <1>2, <1>4, <1>5, <1>6 DEF Inv

LEMMA InvKept == Inv => Kept
  BY DEF Inv, Kept, Ends, HeadEnd

\* What the invariant says of one item, and of the last one.
LEMMA ItemFacts ==
    ASSUME Kept, NEW i \in 1 .. Len(live)
    PROVE  /\ live[i] \in [at : Offset, msg : Message]
           /\ live[i].at \in Offset /\ live[i].msg \in Message
           /\ Footprint(live[i].msg) \in 3 .. MaxLen + 2
           /\ Distance(live[i].at) \in 0 .. Size - 1
           /\ End(live[i]) = Distance(live[i].at) + Footprint(live[i].msg)
           /\ End(live[i]) <= Size - free
           /\ buf[live[i].at] + 2 = Footprint(live[i].msg)
           /\ NextItemOffset(buf, live[i].at)
                 = DataCell(live[i].at, Footprint(live[i].msg))
  <1>0. /\ live \in Seq([at : Offset, msg : Message])
        /\ head \in Offset /\ free \in 0 .. Size
        /\ buf \in [Cell -> 0 .. 255]
    BY DEF Kept, TypeOK
  <1>1. \A j \in 1 .. Len(live) :
            /\ live[j] \in [at : Offset, msg : Message]
            /\ live[j].at \in Offset /\ live[j].msg \in Message
    <2> TAKE j \in 1 .. Len(live)
    <2>1. live[j] \in [at : Offset, msg : Message]
      BY <1>0, ElementOfSeq
    <2> QED
      BY <2>1
  <1>2. live[i].at \in Offset /\ live[i].msg \in Message
    BY <1>1
  <1>n. MaxLen \in Nat /\ Size \in Nat
    BY SizeFacts
  <1>m. \A j \in 1 .. Len(live) : Footprint(live[j].msg) \in 3 .. MaxLen + 2
    BY <1>1, SizeFacts
  <1>3. Footprint(live[i].msg) \in 3 .. MaxLen + 2
    BY <1>m
  <1>d. \A o \in Offset : Distance(o) \in 0 .. Size - 1
    BY <1>0, <1>n DEF Distance, DistanceFrom, Offset
  <1>4. Distance(live[i].at) \in 0 .. Size - 1
    BY <1>2, <1>d
  <1>5. End(live[i]) = Distance(live[i].at) + Footprint(live[i].msg)
    BY DEF End
  <1> DEFINE o == live[i].at
             f == Footprint(live[i].msg)
  <1>6. buf[o] + 2 = f
    BY DEF Kept, Bytes, HasBytes, Footprint
  <1>7. NextItemOffset(buf, o) = DataCell(o, f)
    <2>1. o \in Offset
      BY <1>2
    <2> HIDE DEF o, f
    <2>2. o \in Cell /\ o \in Int
      BY <1>n, <2>1 DEF Offset, Cell
    <2>3. buf[o] \in 0 .. 255
      BY <1>0, <2>2
    <2>4. o + buf[o] + 2 = o + f
      <3> DEFINE v == buf[o]
      <3>1. v \in 0 .. 255 /\ v + 2 = f
        BY <1>6, <2>3
      <3> HIDE DEF v
      <3>2. o + v + 2 = o + (v + 2)
        BY <2>2, <3>1
      <3> QED
        BY <3>1, <3>2 DEF v
    <2> QED
      BY <2>4 DEF NextItemOffset, DataCell
  <1>8. End(live[i]) <= Size - free
    <2> DEFINE l == Len(live)
    <2>1. l \in Nat /\ l \in 1 .. l /\ live # <<>>
      BY <1>0
    <2>2. Size - free = End(live[l])
      BY <2>1 DEF Kept, ItemsApart
    <2>3. CASE i = l
      BY <2>2, <2>3, <1>3, <1>4, <1>5, <1>n
    <2>4. CASE i < l
      <3>1. End(live[i]) <= Distance(live[l].at)
        BY <2>1, <2>4 DEF Kept, ItemsApart
      <3>2. /\ Distance(live[l].at) \in 0 .. Size - 1
            /\ Footprint(live[l].msg) \in 3 .. MaxLen + 2
        BY <2>1, <1>1, <1>d, <1>m
      <3>3. End(live[l]) = Distance(live[l].at) + Footprint(live[l].msg)
        BY DEF End
      <3> QED
        BY <2>2, <3>1, <3>2, <3>3, <1>3, <1>4, <1>5, <1>n
    <2> QED
      BY <2>1, <2>3, <2>4
  <1> QED
    BY <1>1, <1>2, <1>3, <1>4, <1>5, <1>6, <1>7, <1>8

\* A call and a refusal leave the buffer as it is.
LEMMA SameRing ==
    ASSUME Inv, UNCHANGED <<ring, live>>,
           adding' \in {Idle} \cup [msg : Message, overwrite : BOOLEAN]
    PROVE  Inv'
  BY DEF Inv, TypeOK, Ends, Chain, Bytes, HasBytes, ItemsApart, End, Distance,
         DistanceFrom, ring

LEMMA AddingFacts ==
    ASSUME Inv, adding # Idle
    PROVE  /\ adding.msg \in Message /\ adding.overwrite \in BOOLEAN
           /\ Footprint(adding.msg) \in 3 .. MaxLen + 2
  <1>1. adding \in [msg : Message, overwrite : BOOLEAN]
    BY DEF Inv, TypeOK
  <1>2. adding.msg \in Message /\ adding.overwrite \in BOOLEAN
    BY <1>1
  <1> QED
    BY <1>2, SizeFacts

\* While the new message does not fit, at least two items are held, so the
\* removal loop always leaves one for the tail to stand on.
LEMMA RemovalLeavesOne ==
    ASSUME Inv, adding # Idle, free < Footprint(adding.msg)
    PROVE  items >= 2
  <1>1. /\ items \in Nat /\ items = Len(live) /\ free \in 0 .. Size
        /\ head \in Offset /\ live \in Seq([at : Offset, msg : Message])
    BY DEF Inv, TypeOK, Ends
  <1>2. /\ Size \in Nat /\ MaxLen \in 1 .. 255 /\ Size >= 2 * (MaxLen + 2)
        /\ Footprint(adding.msg) \in 3 .. MaxLen + 2
    BY SizeFacts, AddingFacts
  <1>3. free < MaxLen + 2
    BY <1>1, <1>2
  <1>4. CASE items = 0
    <2>1. Size - free = 0
      BY <1>1, <1>4, EmptySeq DEF Inv, ItemsApart
    <2> QED
      BY <1>1, <1>2, <1>3, <2>1
  <1>5. CASE items = 1
    <2> DEFINE f == Footprint(live[1].msg)
               d == Distance(live[1].at)
    <2>1. 1 \in 1 .. Len(live) /\ live # <<>>
      <3>1. Len(live) = 1
        BY <1>1, <1>5
      <3> QED
        BY <3>1, EmptySeq
    <2>2. Size - free = End(live[1]) /\ live[1].at = head
      BY <1>1, <1>5, <2>1 DEF Inv, ItemsApart, Ends
    <2>3. End(live[1]) = d + f /\ f \in 3 .. MaxLen + 2
      BY <2>1, ItemFacts, InvKept
    <2>4. d = 0
      BY <1>1, <1>2, <2>2 DEF Distance, DistanceFrom, Offset
    <2> HIDE DEF d, f
    <2> QED
      BY <1>1, <1>2, <1>3, <2>2, <2>3, <2>4
  <1> QED
    BY <1>1, <1>4, <1>5

\* When the head moves on by f cells, every item behind it comes nearer by f.
LEMMA HeadMoves ==
    ASSUME NEW h \in Offset, NEW k \in Offset, NEW o \in Offset,
           DistanceFrom(h, o) >= DistanceFrom(h, k)
    PROVE  DistanceFrom(k, o) = DistanceFrom(h, o) - DistanceFrom(h, k)
  <1>1. Size \in Nat /\ h \in 0 .. Size - 1 /\ k \in 0 .. Size - 1
        /\ o \in 0 .. Size - 1
    BY SizeFacts DEF Offset
  <1> QED
    BY <1>1 DEF DistanceFrom

\* One turn of the removal loop
LEMMA RemoveFirstItemInv ==
    ASSUME Inv, RemoveFirstItem
    PROVE  Inv'
  <1> DEFINE n == Len(live)
             f == Footprint(live[1].msg)
             at(i) == live[i].at
  <1>1. /\ n \in Nat /\ n >= 2 /\ n = items
        /\ live \in Seq([at : Offset, msg : Message]) /\ live # <<>>
    <2>1. items >= 2
      BY RemovalLeavesOne DEF RemoveFirstItem
    <2>2. items = n /\ live \in Seq([at : Offset, msg : Message])
      BY DEF Inv, TypeOK, Ends
    <2>3. n \in Nat
      BY <2>2, LenProperties
    <2> QED
      BY <2>1, <2>2, <2>3, EmptySeq
  <1>2. /\ head \in Offset /\ free \in 0 .. Size /\ Size \in Nat
        /\ MaxLen \in Nat
    BY SizeFacts DEF Inv, TypeOK
  <1>3. /\ Len(live') = n - 1
        /\ live' \in Seq([at : Offset, msg : Message])
        /\ \A i \in 1 .. n - 1 : live'[i] = live[i + 1]
    BY <1>1, HeadTailProperties DEF RemoveFirstItem
  <1>4. /\ 1 \in 1 .. n /\ 2 \in 1 .. n /\ n \in 1 .. n
        /\ head = at(1) /\ tail = at(n)
    BY <1>1 DEF Inv, Ends
  <1>5. /\ f \in 3 .. MaxLen + 2 /\ End(live[1]) = Distance(at(1)) + f
        /\ Distance(at(1)) = 0
        /\ f <= Size - free
        /\ buf[head] + 2 = f
        /\ NextItemOffset(buf, head) = DataCell(head, f)
    <2>1. Distance(head) = 0
      BY <1>2 DEF Distance, DistanceFrom, Offset
    <2>2. f \in 3 .. MaxLen + 2 /\ End(live[1]) = Distance(at(1)) + f
      BY <1>4, ItemFacts, InvKept
    <2>3. End(live[1]) <= Size - free
      BY <1>4, ItemFacts, InvKept
    <2>4. buf[head] + 2 = f /\ NextItemOffset(buf, head) = DataCell(head, f)
      BY <1>4, ItemFacts, InvKept
    <2> HIDE DEF f
    <2> QED
      BY <1>2, <1>4, <2>1, <2>2, <2>3, <2>4
  <1>6. \A i \in 2 .. n : f <= Distance(at(i))
    <2> TAKE i \in 2 .. n
    <2>1. i \in 1 .. n /\ 1 < i
      BY <1>1
    <2>2. End(live[1]) <= Distance(at(i))
      BY <1>4, <2>1 DEF Inv, ItemsApart
    <2> QED
      BY <2>2, <1>5
  <1>7. head' = at(2) /\ head' \in Offset /\ Distance(head') = f
    <2>1. at(2) = DataCell(head, f)
      BY <1>4 DEF Inv, Chain
    <2>2. f <= Distance(at(2)) /\ Distance(at(2)) < Size /\ at(2) \in Offset
      <3>1. 2 \in 2 .. n
        BY <1>1
      <3>2. Distance(at(2)) \in 0 .. Size - 1 /\ at(2) \in Offset
        BY <1>4, ItemFacts, InvKept
      <3> QED
        BY <1>2, <1>6, <3>1, <3>2
    <2>3. f \in Nat /\ Distance(head) = 0
      BY <1>2, <1>4, <1>5
    <2>4. Distance(DataCell(head, f)) = f
      <3> HIDE DEF f
      <3>1. Distance(head) + f < Size
        <4> DEFINE d == Distance(at(2))
        <4>1. f <= d /\ d < Size /\ d \in 0 .. Size - 1
          BY <1>4, <2>2, ItemFacts, InvKept
        <4> HIDE DEF d
        <4> QED
          BY <1>2, <2>3, <4>1
      <3> QED
        BY <1>2, <2>3, <3>1, DistanceGrows
    <2> QED
      BY <1>5, <2>1, <2>2, <2>4 DEF RemoveFirstItem
  <1>8. \A i \in 1 .. n - 1 :
            /\ i + 1 \in 1 .. n
            /\ live'[i] = live[i + 1]
            /\ Distance(live[i].at)' = Distance(at(i + 1)) - f
            /\ End(live[i])' = End(live[i + 1]) - f
    <2> SUFFICES ASSUME NEW i \in 1 .. n - 1, NEW j \in 2 .. n, j = i + 1
                 PROVE  /\ j \in 1 .. n
                        /\ live'[i] = live[j]
                        /\ Distance(live[i].at)' = Distance(at(j)) - f
                        /\ End(live[i])' = End(live[j]) - f
      BY <1>1
    <2>1. j \in 1 .. n /\ live'[i] = live[j]
      BY <1>1, <1>3
    <2> DEFINE o == at(j)
               g == Footprint(live[j].msg)
               d == Distance(o)
               d2 == DistanceFrom(head', o)
    <2>2. /\ o \in Offset /\ g \in 3 .. MaxLen + 2
          /\ d \in 0 .. Size - 1
          /\ End(live[j]) = d + g
      BY <2>1, ItemFacts, InvKept
    <2>3. d >= f
      BY <1>6
    <2>4. Distance(live[i].at)' = d2 /\ End(live[i])' = d2 + g
      BY <2>1 DEF End, Distance, Footprint
    <2>5. d2 = d - f
      <3> HIDE DEF o, f
      <3>1. DistanceFrom(head, head') = f /\ d = DistanceFrom(head, o)
        BY <1>7 DEF Distance
      <3> QED
        BY <1>2, <1>7, <2>2, <2>3, <3>1, HeadMoves
    <2> HIDE DEF o, g, f, d, d2
    <2>6. d2 + g = (d + g) - f
      BY <1>2, <1>5, <2>2, <2>5
    <2> QED
      BY <2>1, <2>2, <2>4, <2>5, <2>6 DEF d, o
  <1>9. free' = free + f /\ free' \in 0 .. Size
    <2>1. free' = free + f
      <3> DEFINE v == buf[head]
      <3>1. free' = free + v + 2 /\ v + 2 = f /\ v \in 0 .. 255
        BY <1>2, <1>5 DEF RemoveFirstItem, Inv, TypeOK, Offset, Cell
      <3> HIDE DEF v, f
      <3> QED
        BY <1>2, <3>1
    <2> HIDE DEF f
    <2> QED
      BY <1>2, <1>5, <2>1
  <1>10. TypeOK'
    <2>1. items' = items - 1 /\ UNCHANGED <<buf, tail, adding>>
      BY DEF RemoveFirstItem
    <2> QED
      BY <1>1, <1>3, <1>7, <1>9, <2>1 DEF Inv, TypeOK
  <1>11. Ends'
    <2>1. /\ items' = n - 1 /\ items' > 0 /\ tail' = tail
          /\ 1 \in 1 .. n - 1 /\ n - 1 \in 1 .. n - 1
          /\ (n - 1) + 1 = n /\ 1 + 1 = 2
      BY <1>1 DEF RemoveFirstItem
    <2>2. live'[1] = live[2] /\ live'[n - 1] = live[n]
      BY <1>3, <2>1
    <2> QED
      BY <1>3, <1>4, <1>7, <2>1, <2>2 DEF Ends
  <1>12. Chain' /\ Bytes'
    <2>1. Chain'
      <3> SUFFICES ASSUME NEW i \in 1 .. n - 1, NEW j \in 1 .. n - 1, j = i + 1
                   PROVE  live'[j].at
                            = DataCell(live'[i].at, Footprint(live'[i].msg))
        BY <1>3 DEF Chain
      <3>1. i + 1 \in 1 .. n /\ j + 1 \in 1 .. n /\ j + 1 = (i + 1) + 1
        BY <1>1
      <3>2. live[j + 1].at = DataCell(at(i + 1), Footprint(live[i + 1].msg))
        BY <3>1 DEF Inv, Chain
      <3> QED
        BY <1>8, <3>2
    <2>2. Bytes'
      <3> SUFFICES ASSUME NEW i \in 1 .. n - 1
                   PROVE  HasBytes(buf, live'[i].at, live'[i].msg)
        BY <1>3 DEF Bytes, RemoveFirstItem
      <3> QED
        BY <1>8 DEF Inv, Bytes
    <2> QED
      BY <2>1, <2>2
  <1>13. ItemsApart'
    <2>1. ASSUME NEW i \in 1 .. n - 1, NEW j \in 1 .. n - 1, i < j
          PROVE  (End(live[i]) <= Distance(live[j].at))'
      <3>1. i + 1 \in 1 .. n /\ j + 1 \in 1 .. n /\ i + 1 < j + 1
        BY <1>1, <2>1
      <3> DEFINE e == End(live[i + 1])
                 d == Distance(at(j + 1))
                 e2 == End(live[i])'
                 d2 == Distance(live[j].at)'
      <3>2. e <= d
        BY <3>1 DEF Inv, ItemsApart
      <3>3. d \in 0 .. Size - 1 /\ e2 = e - f /\ d2 = d - f
        BY <3>1, <1>8, ItemFacts, InvKept
      <3>4. e \in Int
        <4> DEFINE g == Footprint(live[i + 1].msg)
                   c == Distance(at(i + 1))
        <4>1. e = c + g /\ c \in 0 .. Size - 1 /\ g \in 3 .. MaxLen + 2
          BY <3>1, ItemFacts, InvKept
        <4> HIDE DEF c, g, e
        <4> QED
          BY <1>2, <4>1
      <3> HIDE DEF e, d, e2, d2, f
      <3>5. e2 <= d2
        BY <1>2, <1>5, <3>2, <3>3, <3>4
      <3> QED
        BY <3>5 DEF e2, d2
    <2>2. \A k \in 1 .. n - 1 : k + 1 = n => Size - free' = End(live[k])'
      <3> TAKE k \in 1 .. n - 1
      <3> HAVE k + 1 = n
      <3>2. End(live[k])' = End(live[n]) - f
        BY <1>8
      <3>3. Size - free = End(live[n])
        BY <1>1 DEF Inv, ItemsApart
      <3> HIDE DEF f
      <3> QED
        BY <1>2, <1>5, <1>9, <3>2, <3>3
    <2>3. live' # <<>>
      BY <1>1, <1>3, EmptySeq
    <2>4. Len(live') = n - 1
      BY <1>3
    <2> QED
      BY <2>1, <2>2, <2>3, <2>4 DEF ItemsApart
  <1> QED
    BY <1>10, <1>11, <1>12, <1>13 DEF Inv

\* The new item starts where the last one ends.
LEMMA StoreOffsetFacts ==
    ASSUME Inv, adding # Idle, free >= Footprint(adding.msg)
    PROVE  /\ StoreOffset \in Offset
           /\ Distance(StoreOffset) = Size - free
           /\ items > 0 => StoreOffset
                = DataCell(live[items].at, Footprint(live[items].msg))
  <1>1. /\ head \in Offset /\ free \in 0 .. Size /\ Size \in Nat
        /\ items \in Nat /\ items = Len(live)
        /\ live \in Seq([at : Offset, msg : Message])
        /\ free > 0
    <2>1. /\ head \in Offset /\ free \in 0 .. Size /\ Size \in Nat
          /\ items \in Nat /\ items = Len(live)
          /\ live \in Seq([at : Offset, msg : Message])
      BY SizeFacts DEF Inv, TypeOK, Ends
    <2>2. free > 0
      BY <2>1, AddingFacts, SizeFacts
    <2> QED
      BY <2>1, <2>2
  <1>2. CASE items = 0
    <2>1. live = <<>>
      BY <1>1, <1>2, EmptySeq
    <2>2. StoreOffset = 0 /\ head = 0
      BY <1>2 DEF Inv, Ends, StoreOffset
    <2>3. Size - free = 0
      BY <2>1 DEF Inv, ItemsApart
    <2> QED
      BY <1>1, <1>2, <2>2, <2>3 DEF Distance, DistanceFrom, Offset
  <1>3. CASE items > 0
    <2>1. /\ items \in 1 .. Len(live) /\ live # <<>>
          /\ tail = live[items].at
      BY <1>1, <1>3 DEF Inv, Ends
    <2>2. Size - free = End(live[items])
      BY <1>1, <2>1 DEF Inv, ItemsApart
    <2> DEFINE o == live[items].at
               f == Footprint(live[items].msg)
               d == Distance(o)
    <2>3. StoreOffset = DataCell(o, f)
      BY <1>3, <2>1, ItemFacts, InvKept DEF StoreOffset
    <2>4. /\ o \in Offset /\ f \in 3 .. MaxLen + 2 /\ d \in 0 .. Size - 1
          /\ d + f = Size - free
      BY <2>1, <2>2, ItemFacts, InvKept
    <2>5. DataCell(o, f) \in Offset /\ Distance(DataCell(o, f)) = d + f
      <3> HIDE DEF o, f, d
      <3>1. f \in Nat /\ d + f < Size
        BY <1>1, <2>4, SizeFacts
      <3>2. Distance(o) + f < Size /\ Distance(o) = d
        BY <3>1 DEF d
      <3> QED
        BY <1>1, <2>4, <3>1, <3>2, DistanceGrows
    <2> QED
      BY <2>3, <2>4, <2>5
  <1> QED
    BY <1>1, <1>2, <1>3

\* The place behind the last item
BehindLast(p) ==
    /\ Distance(p) = Size - free
    /\ items = 0 => p = 0
    /\ items > 0 =>
          p = DataCell(live[items].at, Footprint(live[items].msg))

\* What the stores of u8_ringbuffer_add come to, when m goes to p: the bytes,
\* without harm to those of the other items, and the header
BytesStored(p, m) ==
    /\ buf' \in [Cell -> 0 .. 255]
    /\ \A c \in Offset : Distance(c) < Distance(p) => buf'[c] = buf[c]
    /\ HasBytes(buf', p, m)

ItemCounted(p, m) ==
    /\ head' = head /\ tail' = p /\ items' = items + 1
    /\ free' = free - Footprint(m) /\ adding' = Idle
    /\ live' = Append(live, [at |-> p, msg |-> m])

\* ... so the items that are held read as before
LEMMA OlderBytesStay ==
    ASSUME Kept, NEW p, NEW m, Distance(p) = Size - free, BytesStored(p, m),
           NEW i \in 1 .. Len(live)
    PROVE  HasBytes(buf', live[i].at, live[i].msg)
  <1> DEFINE o == live[i].at
             x == live[i].msg
             d == Distance(o)
             f == Footprint(x)
  <1>1. /\ Size \in Nat /\ MaxLen \in Nat /\ head \in Offset /\ free \in 0 .. Size
    BY SizeFacts DEF Kept, TypeOK
  <1>2. /\ o \in Offset /\ x \in Message /\ d \in 0 .. Size - 1
        /\ f \in 3 .. MaxLen + 2 /\ End(live[i]) = d + f
        /\ End(live[i]) <= Size - free
    BY ItemFacts
  <1>3. HasBytes(buf, o, x)
    BY DEF Kept, Bytes
  <1>4. f = Len(x) + 2 /\ Len(x) \in 1 .. MaxLen
    BY <1>2, SizeFacts
  <1> HIDE DEF o, x, f
  <1>5. \A c \in Offset : Distance(c) < Distance(p) => buf'[c] = buf[c]
    BY DEF BytesStored
  <1>6. buf'[o] = buf[o]
    <2> HIDE DEF d
    <2>1. d < Distance(p)
      BY <1>1, <1>2
    <2> QED
      BY <1>2, <1>5, <2>1 DEF d
  <1>7. ASSUME NEW k \in 1 .. Len(x)
        PROVE  buf'[DataCell(o, k)] = buf[DataCell(o, k)]
    <2> DEFINE l == Len(x)
    <2>1. k \in 1 .. l /\ l \in 1 .. MaxLen /\ f = l + 2
      BY <1>4
    <2> HIDE DEF l, d
    <2>2. d + k < Size - free /\ k \in Nat /\ d + k < Size
      BY <1>1, <1>2, <2>1
    <2>3. /\ DataCell(o, k) \in Offset
          /\ Distance(DataCell(o, k)) = d + k
      BY <1>1, <1>2, <2>2, DistanceGrows DEF d
    <2> QED
      BY <1>5, <2>2, <2>3
  <1> QED
    BY <1>3, <1>6, <1>7 DEF HasBytes, o, x

LEMMA BehindLastLeavesRoom ==
    ASSUME free \in 0 .. Size, NEW p, NEW m \in Message, BehindLast(p),
           Footprint(m) <= free
    PROVE  Distance(p) + Footprint(m) <= Size
  <1> DEFINE d == Distance(p)
             g == Footprint(m)
  <1>1. /\ d = Size - free /\ g \in 3 .. MaxLen + 2 /\ g <= free
        /\ Size \in Nat /\ MaxLen \in Nat
    BY SizeFacts DEF BehindLast
  <1> HIDE DEF d, g
  <1>2. d + g <= Size
    BY <1>1
  <1> QED
    BY <1>2 DEF d, g

\* An item that is written behind the last one, counted and made the last
LEMMA AppendItem ==
    ASSUME Kept, NEW p \in Offset, NEW m \in Message, Footprint(m) <= free,
           BehindLast(p), BytesStored(p, m), ItemCounted(p, m)
    PROVE  Inv'
  <1> DEFINE n == Len(live)
             g == Footprint(m)
  <1>1. /\ n \in Nat /\ n = items /\ Len(live') = n + 1
        /\ live \in Seq([at : Offset, msg : Message])
        /\ live' \in Seq([at : Offset, msg : Message])
        /\ \A i \in 1 .. n : live'[i] = live[i]
        /\ live'[n + 1] = [at |-> p, msg |-> m]
    <2>1. n = items /\ live \in Seq([at : Offset, msg : Message])
      BY DEF Kept, TypeOK, HeadEnd
    <2>2. [at |-> p, msg |-> m] \in [at : Offset, msg : Message]
      OBVIOUS
    <2> QED
      BY <2>1, <2>2, AppendProperties, LenProperties DEF ItemCounted
  <1>2. /\ head \in Offset /\ free \in 0 .. Size /\ Size \in Nat
        /\ buf \in [Cell -> 0 .. 255] /\ MaxLen \in Nat
    BY SizeFacts DEF Kept, TypeOK
  <1>3. /\ p \in Offset /\ Distance(p) = Size - free
        /\ m \in Message /\ g \in 3 .. MaxLen + 2 /\ g <= free
    BY SizeFacts DEF BehindLast
  <1>5. /\ buf' \in [Cell -> 0 .. 255]
        /\ \A c \in Offset : Distance(c) < Distance(p) => buf'[c] = buf[c]
        /\ HasBytes(buf', p, m)
    BY DEF BytesStored
  <1>6. /\ head' = head /\ tail' = p /\ items' = n + 1
        /\ free' = free - g /\ adding' = Idle
    BY <1>1 DEF ItemCounted
  <1>7. TypeOK'
    <2>1. free - g \in 0 .. Size
      <3> HIDE DEF g
      <3> QED
        BY <1>2, <1>3
    <2> QED
      BY <1>1, <1>2, <1>3, <1>5, <1>6, <2>1 DEF TypeOK
  <1>8. Ends'
    <2>1. n + 1 \in 1 .. n + 1 /\ n + 1 > 0
      BY <1>1
    <2>2. head = live'[1].at
      <3>1. CASE n = 0
        <4>1. head = 0 /\ p = 0
          BY <1>1, <3>1 DEF Kept, HeadEnd, BehindLast
        <4> QED
          BY <1>1, <3>1, <4>1
      <3>2. CASE n > 0
        BY <1>1, <3>2 DEF Kept, HeadEnd
      <3> QED
        BY <1>1, <3>1, <3>2
    <2> QED
      BY <1>1, <1>6, <2>1, <2>2 DEF Ends
  <1>9. Chain'
    <2> SUFFICES ASSUME NEW i \in 1 .. n + 1, NEW j \in 1 .. n + 1, j = i + 1
                 PROVE  live'[j].at
                          = DataCell(live'[i].at, Footprint(live'[i].msg))
      BY <1>1 DEF Chain
    <2>1. i \in 1 .. n /\ live'[i] = live[i]
      BY <1>1
    <2>2. CASE j \in 1 .. n
      BY <1>1, <2>1, <2>2 DEF Kept, Chain
    <2>3. CASE j = n + 1
      <3>1. i = n /\ items > 0 /\ live'[j] = [at |-> p, msg |-> m]
        BY <1>1, <2>1, <2>3
      <3>2. p = DataCell(live[items].at, Footprint(live[items].msg))
        BY <3>1 DEF BehindLast
      <3> QED
        BY <1>1, <2>1, <3>1, <3>2
    <2> QED
      BY <1>1, <2>2, <2>3
  <1>10. \A i \in 1 .. n : HasBytes(buf', live[i].at, live[i].msg)
    BY OlderBytesStay DEF BehindLast
  <1>11. Bytes'
    <2> SUFFICES ASSUME NEW i \in 1 .. n + 1
                 PROVE  HasBytes(buf', live'[i].at, live'[i].msg)
      BY <1>1 DEF Bytes
    <2>1. CASE i \in 1 .. n
      BY <1>1, <1>10, <2>1
    <2>2. CASE i = n + 1
      BY <1>1, <1>5, <2>2
    <2> QED
      BY <1>1, <2>1, <2>2
  <1>12. \A i \in 1 .. n + 1 :
            /\ i \in 1 .. n => /\ Distance(live[i].at)' = Distance(live[i].at)
                             /\ End(live[i])' = End(live[i])
            /\ i = n + 1 => /\ Distance(live[i].at)' = Distance(p)
                            /\ End(live[i])' = Distance(p) + g
    BY <1>1, <1>6 DEF Distance, End, Footprint
  <1>13. ItemsApart'
    <2>1. ASSUME NEW i \in 1 .. n + 1, NEW j \in 1 .. n + 1, i < j
          PROVE  (End(live[i]) <= Distance(live[j].at))'
      <3>1. i \in 1 .. n /\ End(live[i])' = End(live[i])
        BY <1>1, <1>12, <2>1
      <3>2. CASE j \in 1 .. n
        BY <1>12, <2>1, <3>1, <3>2 DEF Kept, ItemsApart
      <3>3. CASE j = n + 1
        BY <1>3, <1>12, <3>1, <3>3, ItemFacts
      <3> QED
        BY <1>1, <3>2, <3>3
    <2>2. \A k \in 1 .. n + 1 : k = n + 1 => Size - free' = End(live[k])'
      <3> TAKE k \in 1 .. n + 1
      <3> HAVE k = n + 1
      <3>1. End(live[k])' = (Size - free) + g
        BY <1>3, <1>12
      <3>2. Size - free' = (Size - free) + g
        <4>1. free' = free - g /\ free \in Nat /\ Size \in Nat /\ g \in Nat
          BY <1>2, <1>3, <1>6
        <4> HIDE DEF g
        <4> QED
          BY <4>1
      <3> QED
        BY <3>1, <3>2
    <2>3. live' # <<>>
      BY <1>1, EmptySeq
    <2> QED
      BY <1>1, <2>1, <2>2, <2>3 DEF ItemsApart
  <1> QED
    BY <1>7, <1>8, <1>9, <1>11, <1>13 DEF Inv

\* The stores of u8_ringbuffer_add
LEMMA StoreInv ==
    ASSUME Inv, Store
    PROVE  Inv'
  <1> DEFINE m == adding.msg
             p == StoreOffset
  <1>1. p \in Offset /\ m \in Message /\ Footprint(m) \in 3 .. MaxLen + 2
    BY StoreOffsetFacts, AddingFacts DEF Store
  <1>2. BehindLast(p) /\ Footprint(m) <= free
    BY StoreOffsetFacts DEF Store, Inv, Ends, StoreOffset, BehindLast
  <1>3. buf' = WriteItem(buf, p, m) /\ ItemCounted(p, m)
    BY DEF Store, ItemCounted
  <1> HIDE DEF m, p
  <1>4. /\ head \in Offset /\ free \in 0 .. Size /\ Size \in Nat
        /\ MaxLen \in Nat /\ buf \in [Cell -> 0 .. 255]
    BY SizeFacts DEF Inv, TypeOK
  <1>5. BytesStored(p, m)
    BY <1>1, <1>2, <1>3, <1>4, BehindLastLeavesRoom, WriteItemEffect DEF BytesStored
  <1> QED
    BY <1>1, <1>2, <1>3, <1>5, InvKept, AppendItem

LEMMA InvNext == Inv /\ [Next]_vars => Inv'
  <1> SUFFICES ASSUME Inv, [Next]_vars PROVE Inv'
    OBVIOUS
  <1>1. ASSUME NEW m \in Message, NEW o \in BOOLEAN, AddCall(m, o)
        PROVE  Inv'
    BY <1>1, SameRing DEF AddCall
  <1>2. CASE RemoveFirstItem
    BY <1>2, RemoveFirstItemInv
  <1>3. CASE Reject
    BY <1>3, SameRing DEF Reject
  <1>4. CASE Store
    BY <1>4, StoreInv
  <1>5. CASE UNCHANGED vars
    <2>1. UNCHANGED <<ring, live>> /\ adding' = adding
      BY <1>5 DEF vars
    <2> QED
      BY <2>1, SameRing DEF Inv, TypeOK
  <1> QED
    BY <1>1, <1>2, <1>3, <1>4, <1>5 DEF Next

LEMMA Invariance == Spec => []Inv
  BY InvInit, InvNext, PTL DEF Spec

-------------------------------------------------------------------------------
(* The theorems *)

\* The header fields of the ring stay in range: head and tail inside the
\* array, free between nothing and all of it, every cell a byte.
THEOREM TypeCorrect == Spec => []TypeOK
  <1>1. Inv => TypeOK
    BY DEF Inv
  <1> QED
    BY <1>1, Invariance, PTL

\* No item is overwritten by a store, whatever was added and removed before:
\* items never overlap and rb->free is what they leave of the array.
THEOREM ItemsStayApart == Spec => []ItemsApart
  <1>1. Inv => ItemsApart
    BY DEF Inv
  <1> QED
    BY <1>1, Invariance, PTL

LEMMA SeqIsFunction ==
    ASSUME NEW S, NEW s \in Seq(S)
    PROVE  s = [i \in 1 .. Len(s) |-> s[i]]
  OBVIOUS

\* u8_ringbuffer_peek returns the bytes that were added.
LEMMA PeekReturnsItem ==
    ASSUME Kept, NEW i \in 1 .. Len(live)
    PROVE  Peek(buf, live[i].at) = live[i].msg
  <1> DEFINE o == live[i].at
             m == live[i].msg
  <1>1. HasBytes(buf, o, m)
    BY DEF Kept, Bytes
  <1>2. m \in Seq(0 .. 255)
    BY ItemFacts, SizeFacts
  <1> HIDE DEF o, m
  <1>3. Peek(buf, o) = [k \in 1 .. Len(m) |-> m[k]]
    BY <1>1 DEF Peek, HasBytes
  <1>4. m = [k \in 1 .. Len(m) |-> m[k]]
    BY <1>2
  <1> QED
    BY <1>3, <1>4 DEF o, m

LEMMA InvReadsBack ==
    ASSUME Inv PROVE ReadsBack
  <1>1. items = Len(live)
    BY DEF Inv, Ends
  <1>2. items > 0 => head = live[1].at /\ tail = live[items].at
    BY DEF Inv, Ends
  <1>3. \A i \in 1 .. items : Peek(buf, live[i].at) = live[i].msg
    BY <1>1, PeekReturnsItem, InvKept
  <1>4. \A i \in 1 .. items :
           i < items => live[i + 1].at = NextItemOffset(buf, live[i].at)
    <2> TAKE i \in 1 .. items
    <2> HAVE i < items
    <2>1. i \in 1 .. Len(live) /\ i + 1 \in 1 .. Len(live)
      <3>1. items \in Nat
        BY DEF Inv, TypeOK
      <3> QED
        BY <1>1, <3>1
    <2>2. live[i + 1].at = DataCell(live[i].at, Footprint(live[i].msg))
      BY <2>1 DEF Inv, Chain
    <2> QED
      BY <2>1, <2>2, ItemFacts, InvKept
  <1> QED
    BY <1>1, <1>2, <1>3, <1>4 DEF ReadsBack

\* A reader that follows the stored lengths from rb->head finds exactly the
\* messages held, oldest first, unchanged.
THEOREM LogReadsBack == Spec => []ReadsBack
  BY InvReadsBack, Invariance, PTL

-------------------------------------------------------------------------------
(* The ring buffer implements MessageLog *)

LEMMA HeldIsLive == Inv => /\ items = Len(live)
                           /\ Held = [i \in 1 .. items |-> live[i].msg]
  <1> SUFFICES ASSUME Inv
               PROVE  /\ items = Len(live)
                      /\ Held = [i \in 1 .. items |-> live[i].msg]
    OBVIOUS
  <1>1. items = Len(live)
    BY DEF Inv, Ends
  <1>2. \A i \in 1 .. items : Peek(buf, live[i].at) = live[i].msg
    BY <1>1, PeekReturnsItem, InvKept
  <1> QED
    BY <1>1, <1>2 DEF Held

LEMMA RefinesInit == Init => Queue!Init
  <1> SUFFICES ASSUME Init PROVE Queue!Init
    OBVIOUS
  <1>1. Held = <<>>
    BY DEF Init, Held
  <1>2. Size - free = 0
    BY SizeFacts DEF Init
  <1> QED
    BY <1>1, <1>2 DEF Init, Idle, Queue!Init, Queue!Nothing

LEMMA RefinesNext ==
    ASSUME Inv, Inv', [Next]_vars
    PROVE  [Queue!Next]_<<Held, Size - free, adding>>
  <1> DEFINE m == adding.msg
             n == Len(live)
  <1>1. items = n /\ Held = [i \in 1 .. n |-> live[i].msg]
    BY HeldIsLive
  <1>2. Held' = [i \in 1 .. Len(live') |-> live'[i].msg]
    <2>1. (Inv => /\ items = Len(live)
                  /\ Held = [i \in 1 .. items |-> live[i].msg])'
      BY HeldIsLive, PTL
    <2> QED
      BY <2>1
  <1>3. /\ Size \in Nat /\ free \in 0 .. Size /\ MaxLen \in Nat
        /\ live \in Seq([at : Offset, msg : Message]) /\ n \in Nat
        /\ Held \in Seq(Message) /\ Len(Held) = n
    <2>1. /\ Size \in Nat /\ free \in 0 .. Size /\ MaxLen \in Nat
          /\ live \in Seq([at : Offset, msg : Message])
      BY SizeFacts DEF Inv, TypeOK
    <2>2. n \in Nat
      BY <2>1, LenProperties
    <2>3. \A i \in 1 .. n : live[i].msg \in Message
      BY ItemFacts, InvKept
    <2> HIDE DEF n
    <2>4. Held \in [1 .. n -> Message]
      BY <1>1, <2>3
    <2> QED
      BY <2>1, <2>2, <2>4
  <1>4. UNCHANGED <<ring, live>> => UNCHANGED <<Held, Size - free>>
    BY <1>1, <1>2 DEF ring
  <1>5. adding # Idle =>
            (Queue!Fits(m) <=> Footprint(m) <= free)
    <2> SUFFICES ASSUME adding # Idle
                 PROVE  (Size - free) + (Len(m) + 2) <= Size
                          <=> Footprint(m) <= free
      BY DEF Queue!Fits, Queue!Cost
    <2>1. Len(m) + 2 = Footprint(m) /\ Footprint(m) \in 3 .. MaxLen + 2
      BY AddingFacts DEF Footprint
    <2> HIDE DEF m
    <2> QED
      BY <1>3, <2>1
  <1>6. ASSUME NEW x \in Message, NEW o \in BOOLEAN, AddCall(x, o)
        PROVE  Queue!Next
    <2>1. Queue!Offer(x, o)
      BY <1>4, <1>6 DEF AddCall, Idle, Queue!Offer, Queue!Nothing
    <2> QED
      BY <2>1 DEF Queue!Next
  <1>7. CASE RemoveFirstItem
    <2>1. items >= 2 /\ Held # <<>> /\ live # <<>> /\ 1 \in 1 .. n
      <3>1. items >= 2
        BY <1>7, RemovalLeavesOne DEF RemoveFirstItem
      <3> QED
        BY <1>1, <1>3, <3>1, EmptySeq
    <2>2. Held' = Tail(Held)
      <3>1. /\ live' = Tail(live) /\ Len(live') = n - 1
            /\ \A i \in 1 .. n - 1 : live'[i] = live[i + 1]
        BY <1>3, <1>7, <2>1, HeadTailProperties DEF RemoveFirstItem
      <3>2. /\ Len(Tail(Held)) = n - 1
            /\ Tail(Held) \in Seq(Message)
            /\ \A i \in 1 .. n - 1 : Tail(Held)[i] = Held[i + 1]
        BY <1>3, <2>1, HeadTailProperties
      <3>3. \A i \in 1 .. n - 1 : Held[i + 1] = live[i + 1].msg
        BY <1>1, <1>3
      <3>4. Held' = [i \in 1 .. n - 1 |-> Tail(Held)[i]]
        BY <1>2, <3>1, <3>2, <3>3
      <3> DEFINE t == Tail(Held)
      <3>5. t = [i \in 1 .. Len(t) |-> t[i]]
        BY <3>2, SeqIsFunction
      <3> HIDE DEF t, n
      <3>6. t = [i \in 1 .. n - 1 |-> t[i]]
        BY <3>2, <3>5 DEF t
      <3> QED
        BY <3>4, <3>6 DEF t
    <2>3. (Size - free)' = (Size - free) - Queue!Cost(Head(Held))
      <3> DEFINE v == buf[head]
                 c == Len(Head(Held)) + 2
      <3>1. free' = free + v + 2
        BY <1>7 DEF RemoveFirstItem
      <3>2. head = live[1].at /\ Head(Held) = live[1].msg
        BY <1>1, <1>3, <2>1 DEF Inv, Ends
      <3>3. v + 2 = c /\ v \in 0 .. 255
        <4>1. v + 2 = c
          BY <2>1, <3>2, ItemFacts, InvKept DEF Footprint
        <4>2. head \in Cell /\ buf \in [Cell -> 0 .. 255]
          BY <1>3 DEF Inv, TypeOK, Offset, Cell
        <4> QED
          BY <4>1, <4>2
      <3> HIDE DEF v, c
      <3>4. Size - free' = (Size - free) - c
        BY <1>3, <3>1, <3>3
      <3> QED
        BY <3>4 DEF c, Queue!Cost
    <2>4. Queue!DropOldest
      BY <1>3, <1>5, <1>7, <2>1, <2>2, <2>3, AddingFacts
         DEF RemoveFirstItem, Idle, Queue!DropOldest, Queue!Nothing
    <2> QED
      BY <2>4 DEF Queue!Next
  <1>8. CASE Reject
    <2>1. items >= 2
      BY <1>8, RemovalLeavesOne DEF Reject
    <2>2. ~adding.overwrite
      BY <1>1, <1>3, <1>8, <2>1 DEF Reject
    <2>3. ~Queue!Fits(m)
      BY <1>3, <1>5, <1>8, AddingFacts DEF Reject
    <2>4. Queue!Refuse
      BY <1>4, <1>8, <2>2, <2>3
         DEF Reject, Idle, Queue!Refuse, Queue!Nothing
    <2> QED
      BY <2>4 DEF Queue!Next
  <1>9. CASE Store
    <2> DEFINE item == [at |-> StoreOffset, msg |-> m]
    <2>1. m \in Message /\ item \in [at : Offset, msg : Message]
      BY <1>9, AddingFacts, StoreOffsetFacts DEF Store
    <2>2. Held' = Append(Held, m)
      <3>1. /\ Len(live') = n + 1 /\ live'[n + 1] = item
            /\ \A i \in 1 .. n : live'[i] = live[i]
        <4>1. live' = Append(live, item)
          BY <1>9 DEF Store
        <4> HIDE DEF item
        <4> QED
          BY <1>3, <2>1, <4>1, AppendProperties
      <3>2. Held' = [i \in 1 .. n + 1 |-> IF i = n + 1 THEN m ELSE Held[i]]
        BY <1>1, <1>2, <1>3, <3>1
      <3> DEFINE a == Append(Held, m)
      <3> HIDE DEF n, m
      <3>3. /\ a \in Seq(Message) /\ Len(a) = n + 1 /\ a[n + 1] = m
            /\ \A i \in 1 .. n : a[i] = Held[i]
        BY <1>3, <2>1, AppendProperties
      <3> HIDE DEF a
      <3>4. a = [i \in 1 .. n + 1 |-> a[i]]
        BY <3>3, SeqIsFunction
      <3>5. \A i \in 1 .. n + 1 : a[i] = IF i = n + 1 THEN m ELSE Held[i]
        BY <1>3, <3>3
      <3> QED
        BY <3>2, <3>4, <3>5 DEF a
    <2>3. (Size - free)' = (Size - free) + Queue!Cost(m)
      <3>1. /\ free' = free - Footprint(m) /\ Queue!Cost(m) = Footprint(m)
            /\ Footprint(m) \in 3 .. MaxLen + 2
        BY <1>9, AddingFacts DEF Store, Footprint, Queue!Cost
      <3> HIDE DEF m
      <3> QED
        BY <1>3, <3>1
    <2>4. Queue!Accept
      <3>1. Queue!Fits(m)
        BY <1>3, <1>5, <1>9, AddingFacts DEF Store
      <3> QED
        BY <1>9, <2>2, <2>3, <3>1
           DEF Store, Idle, Queue!Accept, Queue!Nothing
    <2> QED
      BY <2>4 DEF Queue!Next
  <1>10. CASE UNCHANGED vars
    BY <1>4, <1>10 DEF vars
  <1> QED
    BY <1>6, <1>7, <1>8, <1>9, <1>10 DEF Next

\* Every call of u8_ringbuffer_add, with its removal loop, is a call of the
\* abstract log: the new message goes to the end, and the oldest are given up
\* one by one, only while it does not fit.
THEOREM KeepsQueuePromise == Spec => KeepsQueue
  <1>1. Inv /\ Inv' /\ [Next]_vars
          => [Queue!Next]_<<Held, Size - free, adding>>
    BY RefinesNext
  <1> QED
    BY RefinesInit, Invariance, <1>1, PTL DEF Spec, KeepsQueue, Queue!Spec

-------------------------------------------------------------------------------
(* The block of persistent memory *)

Busy == {"add", "data", "count", "crc", "time"}

\* Who holds pmem_mutex, and where the holder is
Locks ==
    /\ pc \in [Agent -> Busy \cup {"idle", "length", "bytes"}]
    /\ mutex \in Agent \cup {Nobody}
    /\ \A a \in Agent : pc[a] \in Busy <=> mutex = a
    /\ \A a \in Agent : pc[a] \in {"time", "length", "bytes"} => a = Core0
    /\ booting => pc = AllIdle

Doing(places) == \E a \in Agent : mutex = a /\ pc[a] \in places

Storing == Doing({"data", "count"})

Calls ==
    /\ Doing({"add", "data", "count"}) <=> adding # Idle
    /\ adding # Idle => adding.overwrite

\* The CRC fits the block, or the header has changed since
Sealed ==
    /\ ~booting => id
    /\ ~booting /\ mutex = Nobody => crc = Covered
    /\ booting /\ quiet => id /\ crc = Covered
    /\ Doing({"add"}) =>
          crc.ring = header \/ (crc.ring[4] \in Nat /\ items < crc.ring[4])

Torn == items = 0 \/ header # crc.ring

Stored ==
    /\ Kept /\ BehindLast(tail) /\ Footprint(adding.msg) <= free
    /\ Doing({"count"}) => HasBytes(buf, tail, adding.msg)

Ring ==
    /\ booting /\ id /\ crc = Covered => Inv
    /\ ~booting /\ ~Storing => Inv
    /\ Storing => Stored /\ Torn

\* Where cmd_mem_log is, among the items held
Place ==
    Reading /\ reader.nth > 0 =>
        /\ reader.nth \in 1 .. Len(live) + 1
        /\ reader.nth <= Len(live) => reader.at = live[reader.nth].at
        /\ reader.nth = Len(live) + 1 =>
                reader.at = tail /\ (items = 0 \/ Storing)
        /\ pc[Core0] = "bytes" /\ reader.whole =>
                /\ reader.nth <= Len(live)
                /\ reader.len = Len(live[reader.nth].msg)

Reader ==
    /\ reader \in [at : Offset, len : 0 .. 255, nth : Nat, whole : BOOLEAN]
    /\ Place

PInv == Locks /\ Calls /\ Sealed /\ Ring /\ Reader

-------------------------------------------------------------------------------
(* Who holds the mutex, and what that says of the rest *)

LEMMA Holder ==
    ASSUME Locks, NEW a \in Agent, pc[a] \in Busy, NEW S
    PROVE  mutex = a /\ ~booting /\ (Doing(S) <=> pc[a] \in S)
<1>1. mutex = a
    BY DEF Locks
<1>2. ~booting
    BY DEF Locks, AllIdle, Busy
<1> QED BY <1>1, <1>2 DEF Doing

LEMMA NoHolder ==
    ASSUME mutex = Nobody, NEW S
    PROVE  ~Doing(S)
BY DEF Doing, Agent, Nobody, Core0, Core1, Irq

LEMMA NextHolder ==
    ASSUME NEW a \in Agent, NEW to, mutex' = a, pc'[a] = to, NEW S
    PROVE  Doing(S)' <=> to \in S
BY DEF Doing

LEMMA NoNextHolder ==
    ASSUME mutex' = Nobody, NEW S
    PROVE  ~Doing(S)'
BY DEF Doing, Agent, Nobody, Core0, Core1, Irq

\* One agent goes from one place to another; the others stay
LEMMA OneMoves ==
    ASSUME Locks, NEW a \in Agent, NEW to,
           At(a, pc[a]), Goto(a, to), booting' = booting,
           to \in Busy \cup {"idle", "length", "bytes"},
           to \in {"time", "length", "bytes"} => a = Core0,
           to \in Busy <=> mutex' = a,
           mutex' = mutex \/ (mutex = Nobody /\ mutex' = a)
                \/ (mutex = a /\ mutex' = Nobody)
    PROVE  /\ Locks' /\ pc' \in [Agent -> Busy \cup {"idle", "length", "bytes"}]
           /\ pc'[a] = to /\ \A b \in Agent \ {a} : pc'[b] = pc[b]
           /\ ~booting /\ ~booting'
<1>1. ~booting
    BY DEF At, CanRun
<1>2. /\ pc' \in [Agent -> Busy \cup {"idle", "length", "bytes"}]
      /\ pc'[a] = to /\ \A b \in Agent \ {a} : pc'[b] = pc[b]
    BY DEF Goto, Locks
<1>3. Nobody \notin Agent
    BY DEF Nobody, Agent, Core0, Core1, Irq
<1>4. mutex' \in Agent \cup {Nobody}
    BY DEF Locks
<1>5. \A b \in Agent : pc'[b] \in Busy <=> mutex' = b
    BY <1>2, <1>3 DEF Locks
<1>6. \A b \in Agent : pc'[b] \in {"time", "length", "bytes"} => b = Core0
    BY <1>2 DEF Locks
<1>7. Locks'
    BY <1>1, <1>2, <1>4, <1>5, <1>6 DEF Locks
<1> QED BY <1>1, <1>2, <1>7

\* The reader stays where it is while the items do
LEMMA ReaderStays ==
    ASSUME Reader, UNCHANGED <<live, tail, items, reader>>,
           pc[Core0]' = pc[Core0] \/ pc[Core0]' \notin {"length", "bytes"},
           Storing => Storing'
    PROVE  Reader'
<1>1. reader' = reader /\ live' = live /\ tail' = tail /\ items' = items
    OBVIOUS
<1>2. CASE pc[Core0]' \notin {"length", "bytes"}
    BY <1>1, <1>2 DEF Reader, Place, Reading
<1>3. CASE pc[Core0]' = pc[Core0]
    BY <1>1, <1>3 DEF Reader, Place, Reading
<1> QED BY <1>2, <1>3

-------------------------------------------------------------------------------
(* log_msg *)

\* A new item begins elsewhere than the last one, if there is one
LEMMA AppendingMovesTail ==
    ASSUME Inv, adding # Idle, free >= Footprint(adding.msg), items # 0
    PROVE  StoreOffset # tail
<1>1. /\ items \in Nat /\ items = Len(live) /\ tail = live[items].at
      /\ live \in Seq([at : Offset, msg : Message])
    BY DEF Inv, TypeOK, Ends
<1>2. items \in 1 .. Len(live) /\ live # <<>>
    BY <1>1, EmptySeq
<1>3. Distance(StoreOffset) = Size - free /\ Size - free = End(live[items])
    BY <1>1, <1>2, StoreOffsetFacts DEF Inv, ItemsApart
<1> DEFINE d == Distance(live[items].at)
           f == Footprint(live[items].msg)
<1>4. End(live[items]) = d + f /\ d \in 0 .. Size - 1 /\ f \in 3 .. MaxLen + 2
    BY <1>2, ItemFacts, InvKept
<1>5. d = Distance(tail)
    BY <1>1
<1> HIDE DEF d, f
<1>6. Distance(StoreOffset) # d
    BY <1>3, <1>4, SizeFacts
<1> QED BY <1>5, <1>6

LEMMA LogEnterInv ==
    ASSUME PInv, NEW a \in Agent, NEW m \in Message, LogEnter(a, m)
    PROVE  PInv'
<1> USE DEF PInv
<1>1. /\ mutex = Nobody /\ mutex' = a /\ pc[a] = "idle" /\ ~booting
      /\ adding' = [msg |-> m, overwrite |-> TRUE] /\ adding = Idle
      /\ UNCHANGED <<ring, live>> /\ UNCHANGED <<block, run, booting, quiet, reader>>
    BY DEF LogEnter, At, CanRun, AddCall
<1>2. Locks' /\ pc'[a] = "add" /\ \A b \in Agent \ {a} : pc'[b] = pc[b]
    BY <1>1, OneMoves DEF LogEnter, Busy, At
<1>3. /\ \A S : ~Doing(S)
      /\ Doing({"add", "data", "count"})' /\ Doing({"add"})'
      /\ ~Doing({"data", "count"})' /\ ~Doing({"count"})'
    BY <1>1, <1>2, NoHolder, NextHolder
<1>4. ~Storing /\ ~Storing'
    BY <1>3 DEF Storing
<1>5. Calls'
  <2>1. adding' # Idle /\ adding'.overwrite
    <3>1. m # <<>>
        BY SizeFacts
    <3> QED BY <1>1, <3>1 DEF Idle
  <2> QED BY <1>3, <2>1 DEF Calls
<1>6. Sealed'
  <2>1. crc = Covered
      BY <1>1 DEF Sealed
  <2>2. crc.ring = header
      BY <2>1 DEF Covered, Crc
  <2>3. header' = header /\ crc' = crc /\ id' = id /\ mutex' # Nobody
      BY <1>1 DEF ring, header, block, Agent, Nobody, Core0, Core1, Irq
  <2> QED BY <1>1, <2>2, <2>3 DEF Sealed
<1>7. Ring'
  <2>1. Inv
      BY <1>1, <1>4 DEF Ring
  <2>2. Inv'
      BY <1>1, <2>1, SameRing
  <2> QED BY <1>1, <1>4, <2>2 DEF Ring
<1>8. Reader'
  <2>1. UNCHANGED <<live, tail, items, reader>>
      BY <1>1 DEF ring
  <2>2. pc[Core0]' = pc[Core0] \/ pc[Core0]' \notin {"length", "bytes"}
      BY <1>2 DEF Agent
  <2> QED BY <1>4, <2>1, <2>2, ReaderStays
<1> QED BY <1>2, <1>5, <1>6, <1>7, <1>8

\* What every store of the holder of the mutex has in common
LEMMA HolderMoves ==
    ASSUME PInv, NEW a \in Agent, NEW to \in Busy, At(a, pc[a]), pc[a] \in Busy,
           Goto(a, to), to = "time" => pc[a] = "time",
           UNCHANGED <<block, mutex, run, booting, quiet>>
    PROVE  /\ Locks' /\ ~booting /\ ~booting' /\ id' /\ mutex' # Nobody
           /\ \A S : Doing(S) <=> pc[a] \in S
           /\ \A S : Doing(S)' <=> to \in S
           /\ pc[Core0]' = pc[Core0] \/ pc[Core0]' \notin {"length", "bytes"}
           /\ crc' = crc
<1> USE DEF PInv
<1>1. mutex = a /\ ~booting /\ \A S : Doing(S) <=> pc[a] \in S
    BY Holder
<1>2. mutex' = a
    BY <1>1
<1>3. Locks' /\ pc'[a] = to /\ \A b \in Agent \ {a} : pc'[b] = pc[b]
  <2>1. to \in Busy \cup {"idle", "length", "bytes"}
      OBVIOUS
  <2>2. to \in {"time", "length", "bytes"} => a = Core0
      BY DEF Busy, Locks
  <2> QED BY <1>1, <1>2, <2>1, <2>2, OneMoves
<1>4. \A S : Doing(S)' <=> to \in S
    BY <1>2, <1>3, NextHolder
<1>5. pc[Core0]' = pc[Core0] \/ pc[Core0]' \notin {"length", "bytes"}
    BY <1>3 DEF Agent, Busy
<1>6. id' /\ mutex' # Nobody /\ crc' = crc /\ ~booting'
    BY <1>1 DEF Sealed, block, Agent, Nobody, Core0, Core1, Irq
<1> QED BY <1>1, <1>3, <1>4, <1>5, <1>6

LEMMA SetTailInv ==
    ASSUME PInv, NEW a \in Agent, SetTail(a)
    PROVE  PInv'
<1> USE DEF PInv
<1>1. /\ pc[a] = "add" /\ free >= Footprint(adding.msg) /\ tail' = StoreOffset
      /\ UNCHANGED <<buf, head, free, items, adding, live>> /\ reader' = reader
    BY DEF SetTail, At
<1>2. /\ Locks' /\ ~booting /\ ~booting' /\ id' /\ mutex' # Nobody
      /\ \A S : Doing(S) <=> "add" \in S
      /\ \A S : Doing(S)' <=> "data" \in S
      /\ pc[Core0]' = pc[Core0] \/ pc[Core0]' \notin {"length", "bytes"}
      /\ crc' = crc
    BY <1>1, HolderMoves DEF SetTail, Busy, At
<1>3. ~Storing /\ Storing'
    BY <1>2 DEF Storing
<1>4. Inv /\ adding # Idle
    BY <1>2, <1>3 DEF Ring, Calls
<1>5. Calls'
    BY <1>1, <1>2, <1>4 DEF Calls
<1>6. Sealed'
    BY <1>2 DEF Sealed
<1>7. /\ StoreOffset \in Offset /\ BehindLast(StoreOffset)
      /\ items = 0 => StoreOffset = tail
    BY <1>1, <1>4, StoreOffsetFacts DEF BehindLast, StoreOffset, Inv, Ends
<1>8. Stored'
  <2>1. Kept'
      BY <1>1, <1>4, <1>7, InvKept DEF Kept, TypeOK, HeadEnd, Chain, Bytes,
         HasBytes, ItemsApart, End, Distance, DistanceFrom
  <2>2. BehindLast(tail)'
      BY <1>1, <1>7 DEF BehindLast, Distance
  <2> QED BY <1>1, <1>2, <2>1, <2>2 DEF Stored
<1>9. Torn'
  <2> SUFFICES ASSUME items # 0 PROVE header' # crc.ring
      BY <1>1, <1>2 DEF Torn
  <2>1. crc.ring = header \/ (crc.ring[4] \in Nat /\ items < crc.ring[4])
      BY <1>2 DEF Sealed
  <2>2. header' = <<head, StoreOffset, free, items>>
      BY <1>1 DEF header
  <2>3. CASE crc.ring = header
    <3>1. StoreOffset # tail
        BY <1>1, <1>4, AppendingMovesTail
    <3> QED BY <2>2, <2>3, <3>1 DEF header
  <2>4. CASE crc.ring[4] \in Nat /\ items < crc.ring[4]
    <3>1. items \in Nat
        BY <1>4 DEF Inv, TypeOK
    <3>2. header'[4] = items
        BY <2>2
    <3> QED BY <2>4, <3>1, <3>2
  <2> QED BY <2>1, <2>3, <2>4
<1>10. Ring'
    BY <1>2, <1>3, <1>8, <1>9 DEF Ring
<1>11. Reader'
  <2>1. Reading' => Reading
      BY <1>2 DEF Reading
  <2>2. Place'
    <3> SUFFICES ASSUME Reading', reader'.nth > 0 PROVE Place'
        BY DEF Place
    <3>1. Reading /\ reader.nth > 0 /\ pc[Core0]' = pc[Core0]
        BY <1>1, <1>2, <2>1 DEF Reading
    <3>2. /\ reader.nth \in 1 .. Len(live) + 1
          /\ reader.nth <= Len(live) => reader.at = live[reader.nth].at
          /\ reader.nth = Len(live) + 1 => reader.at = tail /\ items = 0
          /\ pc[Core0] = "bytes" /\ reader.whole =>
                /\ reader.nth <= Len(live)
                /\ reader.len = Len(live[reader.nth].msg)
        BY <1>3, <3>1 DEF Reader, Place
    <3>3. reader.nth = Len(live) + 1 => reader.at = tail' /\ items' = 0
        BY <1>1, <1>7, <3>2
    <3> QED BY <1>1, <3>1, <3>2, <3>3 DEF Place
  <2> QED BY <1>1, <2>2 DEF Reader
<1> QED BY <1>2, <1>5, <1>6, <1>10, <1>11

\* An item is evicted under the reader's feet
LEMMA EvictInv ==
    ASSUME PInv, NEW a \in Agent, Evict(a)
    PROVE  PInv'
<1> USE DEF PInv
<1>1. /\ pc[a] = "add" /\ RemoveFirstItem /\ adding' = adding
      /\ items' = items - 1 /\ live' = Tail(live)
      /\ UNCHANGED <<block, mutex, pc, run, booting, quiet>>
    BY DEF Evict, At, RemoveFirstItem
<1>2. mutex = a /\ ~booting /\ \A S : Doing(S) <=> "add" \in S
    BY <1>1, Holder DEF Busy
<1>3. \A S : Doing(S)' <=> "add" \in S
    BY <1>1, <1>2 DEF Doing
<1>4. ~Storing /\ ~Storing'
    BY <1>2, <1>3 DEF Storing
<1>5. Inv
    BY <1>2, <1>4 DEF Ring
<1>6. Inv'
    BY <1>1, <1>5, RemoveFirstItemInv
<1>7. /\ items \in Nat /\ items >= 2 /\ items = Len(live)
      /\ live \in Seq([at : Offset, msg : Message])
  <2>1. items >= 2
      BY <1>1, <1>5, RemovalLeavesOne DEF RemoveFirstItem
  <2> QED BY <1>5, <2>1 DEF Inv, TypeOK, Ends
<1>8. /\ Len(live') = Len(live) - 1
      /\ \A k \in 1 .. Len(live) - 1 : live'[k] = live[k + 1]
  <2>1. live # <<>>
      BY <1>7, EmptySeq
  <2> QED BY <1>1, <1>7, <2>1, HeadTailProperties
<1>9. Locks' /\ Calls'
    BY <1>1, <1>2, <1>3 DEF Locks, Calls
<1>10. Sealed'
  <2>1. crc' = crc /\ id' = id /\ booting' = booting /\ mutex' # Nobody
      BY <1>1, <1>2 DEF block, Agent, Nobody, Core0, Core1, Irq
  <2>2. crc.ring = header \/ (crc.ring[4] \in Nat /\ items < crc.ring[4])
      BY <1>2 DEF Sealed
  <2>3. crc.ring[4] \in Nat /\ items' < crc.ring[4]
      BY <1>1, <1>7, <2>2 DEF header
  <2> QED BY <1>2, <2>1, <2>3 DEF Sealed
<1>11. Ring'
    BY <1>4, <1>6 DEF Ring
<1>12. Reader'
  <2>1. reader \in [at : Offset, len : 0 .. 255, nth : Nat, whole : BOOLEAN]
      BY DEF Reader
  <2>2. CASE reader.nth = 0
    <3>1. reader' = reader
        BY <2>2 DEF Evict
    <3> QED BY <2>1, <2>2, <3>1 DEF Reader, Place
  <2>3. CASE reader.nth > 0
    <3> DEFINE n == reader.nth
    <3>1. /\ reader'.at = reader.at /\ reader'.len = reader.len
          /\ reader'.nth = n - 1 /\ reader'.whole = reader.whole
          /\ reader' \in [at : Offset, len : 0 .. 255, nth : Nat, whole : BOOLEAN]
        BY <2>1, <2>3 DEF Evict
    <3>2. Reading' <=> Reading
        BY <1>1 DEF Reading
    <3>3. Place'
      <4> SUFFICES ASSUME Reading, n - 1 > 0 PROVE Place'
          BY <3>1, <3>2 DEF Place
      <4>1. /\ n \in 1 .. Len(live) + 1
            /\ n <= Len(live) => reader.at = live[n].at
            /\ n = Len(live) + 1 => items = 0
            /\ pc[Core0] = "bytes" /\ reader.whole =>
                  n <= Len(live) /\ reader.len = Len(live[n].msg)
          BY <1>4, <2>3 DEF Reader, Place
      <4> HIDE DEF n
      <4>2. n \in 2 .. Len(live) /\ n - 1 \in 1 .. Len(live) - 1
          BY <1>7, <4>1
      <4>3. live'[n - 1] = live[n]
          BY <1>7, <1>8, <4>2
      <4>4. n - 1 \in 1 .. Len(live') /\ n - 1 # Len(live') + 1
          BY <1>7, <1>8, <4>2
      <4> QED BY <1>1, <3>1, <4>1, <4>2, <4>3, <4>4 DEF Place
    <3> QED BY <3>1, <3>3 DEF Reader
  <2> QED BY <2>1, <2>2, <2>3
<1> QED BY <1>9, <1>10, <1>11, <1>12

\* The bytes are stored where no item is
LEMMA CopyDataInv ==
    ASSUME PInv, NEW a \in Agent, CopyData(a)
    PROVE  PInv'
<1> USE DEF PInv
<1> DEFINE m == adding.msg
<1>1. /\ pc[a] = "data" /\ buf' = WriteItem(buf, tail, m)
      /\ UNCHANGED <<header, adding, live>> /\ reader' = reader
    BY DEF CopyData, At
<1>2. /\ Locks' /\ ~booting /\ ~booting' /\ id' /\ mutex' # Nobody
      /\ \A S : Doing(S) <=> "data" \in S
      /\ \A S : Doing(S)' <=> "count" \in S
      /\ pc[Core0]' = pc[Core0] \/ pc[Core0]' \notin {"length", "bytes"}
      /\ crc' = crc
    BY <1>1, HolderMoves DEF CopyData, Busy, At
<1>3. Storing /\ Storing'
    BY <1>2 DEF Storing
<1>4. /\ Kept /\ BehindLast(tail) /\ Footprint(m) <= free /\ Torn
      /\ adding # Idle
    BY <1>2, <1>3 DEF Ring, Stored, Calls
<1>5. Calls' /\ Sealed'
    BY <1>1, <1>2, <1>4 DEF Calls, Sealed
<1>6. /\ tail' = tail /\ head' = head /\ free' = free /\ items' = items
      /\ live' = live /\ adding' = adding
    BY <1>1 DEF header
<1>7. /\ head \in Offset /\ tail \in Offset /\ free \in 0 .. Size
      /\ buf \in [Cell -> 0 .. 255] /\ m \in Message
    BY <1>4 DEF Kept, TypeOK
<1>8. BytesStored(tail, m)
  <2>1. Distance(tail) + Footprint(m) <= Size
      BY <1>4, <1>7, BehindLastLeavesRoom
  <2> QED BY <1>1, <1>7, <2>1, WriteItemEffect DEF BytesStored
<1>9. Stored'
  <2>1. HasBytes(buf', tail, m) /\ buf' \in [Cell -> 0 .. 255]
      BY <1>8 DEF BytesStored
  <2>2. \A i \in 1 .. Len(live) : HasBytes(buf', live[i].at, live[i].msg)
      BY <1>4, <1>8, OlderBytesStay DEF BehindLast
  <2>3. Kept'
      BY <1>4, <1>6, <2>1, <2>2 DEF Kept, TypeOK, HeadEnd, Chain, Bytes, ItemsApart,
         End, Distance
  <2>4. BehindLast(tail)'
      BY <1>4, <1>6 DEF BehindLast, Distance
  <2> QED BY <1>4, <1>6, <2>1, <2>3, <2>4 DEF Stored
<1>10. Torn'
    BY <1>1, <1>2, <1>4, <1>6 DEF Torn
<1>11. Ring'
    BY <1>2, <1>3, <1>9, <1>10 DEF Ring
<1>12. Reader'
    BY <1>1, <1>2, <1>3, <1>6, ReaderStays
<1> QED BY <1>2, <1>5, <1>11, <1>12

\* The item is counted, and the ring is whole again
LEMMA CountItemInv ==
    ASSUME PInv, NEW a \in Agent, CountItem(a)
    PROVE  PInv'
<1> USE DEF PInv
<1> DEFINE m == adding.msg
           new == [at |-> tail, msg |-> m]
<1>1. /\ pc[a] = "count" /\ ItemCounted(tail, m) /\ buf' = buf
      /\ tail' = tail /\ reader' = reader
    BY DEF CountItem, At, ItemCounted
<1>2. /\ Locks' /\ ~booting /\ ~booting' /\ id' /\ mutex' # Nobody
      /\ \A S : Doing(S) <=> "count" \in S
      /\ \A S : Doing(S)' <=> "crc" \in S
      /\ pc[Core0]' = pc[Core0] \/ pc[Core0]' \notin {"length", "bytes"}
      /\ crc' = crc
    BY <1>1, HolderMoves DEF CountItem, Busy, At
<1>3. Storing /\ ~Storing'
    BY <1>2 DEF Storing
<1>4. /\ Kept /\ BehindLast(tail) /\ Footprint(m) <= free /\ adding # Idle
      /\ HasBytes(buf, tail, m)
    BY <1>2, <1>3 DEF Ring, Stored, Calls
<1>5. tail \in Offset /\ m \in Message /\ buf \in [Cell -> 0 .. 255]
    BY <1>4 DEF Kept, TypeOK
<1>6. BytesStored(tail, m)
    BY <1>1, <1>4, <1>5 DEF BytesStored
<1>7. Inv'
    BY <1>1, <1>4, <1>5, <1>6, AppendItem
<1>8. Calls' /\ Sealed'
    BY <1>1, <1>2 DEF Calls, Sealed, ItemCounted
<1>9. Ring'
    BY <1>2, <1>3, <1>7 DEF Ring
<1>10. /\ Len(live) \in Nat /\ Len(live') = Len(live) + 1
       /\ \A i \in 1 .. Len(live) : live'[i] = live[i]
       /\ live'[Len(live) + 1] = new
  <2>1. live \in Seq([at : Offset, msg : Message]) /\ live' = Append(live, new)
      BY <1>1, <1>4 DEF Kept, TypeOK, ItemCounted
  <2>2. new \in [at : Offset, msg : Message]
      BY <1>5
  <2> HIDE DEF new
  <2> QED BY <2>1, <2>2, AppendProperties, LenProperties
<1>11. Place'
  <2> SUFFICES ASSUME Reading', reader.nth > 0 PROVE Place'
      BY <1>1 DEF Place
  <2> DEFINE n == reader.nth
  <2>1. Reading /\ pc[Core0]' = pc[Core0]
      BY <1>2 DEF Reading
  <2>2. /\ n \in 1 .. Len(live) + 1
        /\ n <= Len(live) => reader.at = live[n].at
        /\ n = Len(live) + 1 => reader.at = tail
        /\ pc[Core0] = "bytes" /\ reader.whole =>
              n <= Len(live) /\ reader.len = Len(live[n].msg)
      BY <2>1 DEF Reader, Place
  <2> HIDE DEF n
  <2>3. n \in 1 .. Len(live') /\ n # Len(live') + 1 /\ n <= Len(live')
      BY <1>10, <2>2
  <2>4. reader.at = live'[n].at
    <3>1. CASE n \in 1 .. Len(live)
        BY <1>10, <2>2, <3>1
    <3>2. CASE n = Len(live) + 1
        BY <1>10, <2>2, <3>2
    <3> QED BY <1>10, <2>2, <3>1, <3>2
  <2>5. pc[Core0] = "bytes" /\ reader.whole => reader.len = Len(live'[n].msg)
    <3> HAVE pc[Core0] = "bytes" /\ reader.whole
    <3>1. n \in 1 .. Len(live) /\ reader.len = Len(live[n].msg)
        BY <1>10, <2>2
    <3> QED BY <1>10, <3>1
  <2>6. n \in 1 .. Len(live') + 1
      BY <1>10, <2>3
  <2> QED BY <1>1, <2>1, <2>3, <2>4, <2>5, <2>6 DEF Place, n
<1>12. Reader'
    BY <1>1, <1>11 DEF Reader
<1> QED BY <1>2, <1>8, <1>9, <1>12

LEMMA SealInv ==
    ASSUME PInv, NEW a \in Agent, Seal(a)
    PROVE  PInv'
<1> USE DEF PInv
<1>1. /\ pc[a] = "crc" /\ mutex' = Nobody /\ crc' = Covered
      /\ UNCHANGED <<vars, id, uptime, prevUptime, run, booting, quiet, reader>>
    BY DEF Seal, At
<1>2. mutex = a /\ ~booting /\ \A S : Doing(S) <=> "crc" \in S
    BY <1>1, Holder DEF Busy
<1>3. Locks' /\ ~booting' /\ pc'[a] = "idle" /\ \A b \in Agent \ {a} : pc'[b] = pc[b]
  <2>1. Nobody # a
      BY DEF Agent, Nobody, Core0, Core1, Irq
  <2> QED BY <1>1, <1>2, <2>1, OneMoves DEF Seal, Busy, At
<1>4. \A S : ~Doing(S)'
    BY <1>1, NoNextHolder
<1>5. ~Storing /\ ~Storing'
    BY <1>2, <1>4 DEF Storing
<1>6. Calls'
    BY <1>1, <1>2, <1>4 DEF Calls, vars
<1>7. Sealed'
  <2>1. Covered' = Covered
      BY <1>1 DEF Covered, header, vars, ring
  <2> QED BY <1>1, <1>2, <1>3, <1>4, <2>1 DEF Sealed
<1>8. Ring'
  <2>1. Inv
      BY <1>2, <1>5 DEF Ring
  <2>2. Inv'
      BY <1>1, <2>1, SameRing DEF vars, Inv, TypeOK
  <2> QED BY <1>3, <1>5, <2>2 DEF Ring
<1>9. Reader'
  <2>1. UNCHANGED <<live, tail, items, reader>>
      BY <1>1 DEF vars, ring
  <2>2. pc[Core0]' = pc[Core0] \/ pc[Core0]' \notin {"length", "bytes"}
      BY <1>3 DEF Agent
  <2> QED BY <1>5, <2>1, <2>2, ReaderStays
<1> QED BY <1>3, <1>6, <1>7, <1>8, <1>9

-------------------------------------------------------------------------------
(* update_persistent_memory *)

LEMMA UpdateEnterInv ==
    ASSUME PInv, UpdateEnter
    PROVE  PInv'
<1> USE DEF PInv
<1>0. Core0 \in Agent
    BY DEF Agent
<1>1. /\ mutex = Nobody /\ mutex' = Core0 /\ pc[Core0] = "idle" /\ ~booting
      /\ UNCHANGED <<vars, block, run, booting, quiet, reader>>
    BY DEF UpdateEnter, At, CanRun
<1>2. Locks' /\ pc'[Core0] = "time"
    BY <1>0, <1>1, OneMoves DEF UpdateEnter, Busy, At
<1>3. \A S : ~Doing(S) /\ (Doing(S)' <=> "time" \in S)
    BY <1>0, <1>1, <1>2, NoHolder, NextHolder
<1>4. ~Storing /\ ~Storing'
    BY <1>3 DEF Storing
<1>5. Calls'
    BY <1>1, <1>3 DEF Calls, vars
<1>6. Sealed'
    BY <1>1, <1>3 DEF Sealed, block, Nobody, Core0
<1>7. Ring'
  <2>1. Inv
      BY <1>1, <1>4 DEF Ring
  <2>2. Inv'
      BY <1>1, <2>1, SameRing DEF vars, Inv, TypeOK
  <2> QED BY <1>1, <1>4, <2>2 DEF Ring
<1>8. Reader'
  <2>1. UNCHANGED <<live, tail, items, reader>>
      BY <1>1 DEF vars, ring
  <2> QED BY <1>2, <1>4, <2>1, ReaderStays
<1> QED BY <1>2, <1>5, <1>6, <1>7, <1>8

LEMMA UpdateTimesInv ==
    ASSUME PInv, UpdateTimes
    PROVE  PInv'
<1> USE DEF PInv
<1>0. Core0 \in Agent
    BY DEF Agent
<1>1. /\ pc[Core0] = "time"
      /\ UNCHANGED <<vars, id, prevUptime, crc, mutex, run, booting, quiet, reader>>
    BY DEF UpdateTimes, At
<1>2. mutex = Core0 /\ ~booting /\ \A S : Doing(S) <=> "time" \in S
    BY <1>0, <1>1, Holder DEF Busy
<1>3. Locks' /\ pc'[Core0] = "crc"
    BY <1>0, <1>1, <1>2, OneMoves DEF UpdateTimes, Busy, At
<1>4. \A S : Doing(S)' <=> "crc" \in S
    BY <1>0, <1>1, <1>2, <1>3, NextHolder
<1>5. ~Storing /\ ~Storing'
    BY <1>2, <1>4 DEF Storing
<1>6. Calls'
    BY <1>1, <1>2, <1>4 DEF Calls, vars
<1>7. Sealed'
    BY <1>1, <1>2, <1>4 DEF Sealed, Nobody, Core0
<1>8. Ring'
  <2>1. Inv
      BY <1>2, <1>5 DEF Ring
  <2>2. Inv'
      BY <1>1, <2>1, SameRing DEF vars, Inv, TypeOK
  <2> QED BY <1>1, <1>2, <1>5, <2>2 DEF Ring
<1>9. Reader'
  <2>1. UNCHANGED <<live, tail, items, reader>>
      BY <1>1 DEF vars, ring
  <2> QED BY <1>3, <1>5, <2>1, ReaderStays
<1> QED BY <1>3, <1>6, <1>7, <1>8, <1>9

-------------------------------------------------------------------------------
(* cmd_mem_log *)

\* A step of the reader changes nothing of the block
LEMMA ReaderMoves ==
    ASSUME PInv, NEW to \in {"idle", "length", "bytes"},
           At(Core0, pc[Core0]), pc[Core0] \notin Busy, Goto(Core0, to),
           UNCHANGED <<vars, block, mutex, run, booting, quiet>>
    PROVE  /\ Locks' /\ Calls' /\ Sealed' /\ Ring'
           /\ pc'[Core0] = to /\ ~booting
           /\ Storing' <=> Storing
<1> USE DEF PInv
<1>0. Core0 \in Agent
    BY DEF Agent
<1>1. mutex # Core0 /\ mutex' = mutex /\ booting' = booting
    BY <1>0 DEF Locks
<1>2. to \in Busy \cup {"idle", "length", "bytes"} /\ to \notin Busy
    BY DEF Busy
<1>3. /\ Locks' /\ pc'[Core0] = to /\ ~booting
      /\ \A b \in Agent \ {Core0} : pc'[b] = pc[b]
    BY <1>0, <1>1, <1>2, OneMoves
<1>4. \A S : Doing(S)' <=> Doing(S)
    BY <1>0, <1>1, <1>3 DEF Doing
<1>5. Storing' <=> Storing
    BY <1>4 DEF Storing
<1>6. Calls'
    BY <1>4 DEF Calls, vars
<1>7. Sealed'
    BY <1>4 DEF Sealed, vars, ring, block, header, Covered
<1>8. Ring'
  <2>1. Inv => Inv'
      BY SameRing DEF vars, Inv, TypeOK
  <2>2. Stored => Stored'
      BY <1>4 DEF Stored, Kept, TypeOK, HeadEnd, Chain, Bytes, ItemsApart, End, Distance,
         BehindLast, vars, ring
  <2>3. Torn => Torn'
      BY DEF Torn, vars, ring, block, header
  <2> QED BY <1>1, <1>3, <1>5, <2>1, <2>2, <2>3 DEF Ring
<1> QED BY <1>3, <1>5, <1>6, <1>7, <1>8

\* Wherever a writer is, the items counted are there
LEMMA ItemsAreKept ==
    ASSUME PInv, ~booting
    PROVE  Kept /\ (Storing => BehindLast(tail)) /\ (~Storing => Inv)
BY InvKept DEF PInv, Ring, Stored

LEMMA NothingToRead ==
    ASSUME reader' = NoReader, pc'[Core0] = "idle"
    PROVE  Reader'
<1>1. 0 \in Offset
    BY SizeFacts DEF Offset
<1> QED BY <1>1 DEF Reader, Place, Reading, NoReader

LEMMA ReaderRecord ==
    ASSUME NEW at \in Offset, NEW len \in 0 .. 255, NEW nth \in Nat,
           NEW whole \in BOOLEAN,
           NEW r, r = [at |-> at, len |-> len, nth |-> nth, whole |-> whole]
    PROVE  /\ r.at = at /\ r.len = len /\ r.nth = nth /\ r.whole = whole
           /\ r \in [at : Offset, len : 0 .. 255, nth : Nat, whole : BOOLEAN]
OBVIOUS

LEMMA MemLogInv ==
    ASSUME PInv, MemLog
    PROVE  PInv'
<1>1. /\ Locks' /\ Calls' /\ Sealed' /\ Ring'
      /\ pc'[Core0] = "length" /\ ~booting
      /\ UNCHANGED <<vars, block, mutex, run, booting, quiet>>
    BY ReaderMoves DEF MemLog, At, Busy
<1>2. Kept
    BY <1>1, ItemsAreKept
<1>3. /\ reader'.at = head /\ reader'.nth = 1 /\ reader'.whole = FALSE
      /\ reader' \in [at : Offset, len : 0 .. 255, nth : Nat, whole : BOOLEAN]
  <2>1. reader' = [at |-> head, len |-> 0, nth |-> 1, whole |-> FALSE]
      BY DEF MemLog, NoReader
  <2>2. head \in Offset
      BY <1>2 DEF Kept, TypeOK
  <2>3. 0 \in 0 .. 255 /\ 1 \in Nat /\ FALSE \in BOOLEAN
      OBVIOUS
  <2> QED BY <2>1, <2>2, <2>3, ReaderRecord
<1>4. live' = live /\ items' = items /\ tail' = tail /\ head' = head
    BY <1>1 DEF vars, ring
<1>5. /\ Len(live) \in Nat /\ items = Len(live)
      /\ items > 0 => head = live[1].at
      /\ items = 0 => head = 0 /\ tail = 0
    BY <1>1, <1>2, ItemsAreKept DEF Kept, TypeOK, HeadEnd, BehindLast, Inv, Ends
<1>6. Place'
    BY <1>1, <1>3, <1>4, <1>5 DEF Place
<1> QED BY <1>1, <1>3, <1>6 DEF PInv, Reader

LEMMA PeekLengthInv ==
    ASSUME PInv, PeekLength
    PROVE  PInv'
<1>1. /\ pc[Core0] = "length" /\ At(Core0, pc[Core0])
      /\ UNCHANGED <<vars, block, mutex, run, booting, quiet>>
    BY DEF PeekLength, At
<1>2. CASE items < 1
  <2>1. Goto(Core0, "idle") /\ reader' = NoReader
      BY <1>2 DEF PeekLength, MemLogEnds
  <2>2. Locks' /\ Calls' /\ Sealed' /\ Ring' /\ pc'[Core0] = "idle"
      BY <1>1, <2>1, ReaderMoves DEF Busy
  <2> QED BY <2>1, <2>2, NothingToRead DEF PInv
<1>3. CASE ~(items < 1)
  <2>1. Goto(Core0, "bytes")
      BY <1>3 DEF PeekLength
  <2>2. /\ Locks' /\ Calls' /\ Sealed' /\ Ring' /\ pc'[Core0] = "bytes"
        /\ ~booting /\ (Storing' <=> Storing)
      BY <1>1, <2>1, ReaderMoves DEF Busy
  <2>3. Kept
      BY <2>2, ItemsAreKept
  <2>4. reader \in [at : Offset, len : 0 .. 255, nth : Nat, whole : BOOLEAN]
      BY DEF PInv, Reader
  <2>5. reader.at \in Offset /\ buf[reader.at] \in 0 .. 255
    <3>1. Offset \subseteq Cell /\ buf \in [Cell -> 0 .. 255]
        BY <2>3, SizeFacts DEF Kept, TypeOK, Offset, Cell
    <3> QED BY <2>4, <3>1
  <2> DEFINE n == reader.nth
  <2>6. /\ reader'.at = reader.at /\ reader'.nth = n
        /\ reader'.len = buf[reader.at] /\ reader'.whole = (n <= Len(live))
        /\ reader' \in [at : Offset, len : 0 .. 255, nth : Nat, whole : BOOLEAN]
    <3> DEFINE v == buf[reader.at]
               w == (n <= Len(live))
    <3>1. reader' = [reader EXCEPT !.len = v, !.whole = w]
        BY <1>3 DEF PeekLength
    <3>2. w \in BOOLEAN /\ v \in 0 .. 255
        BY <2>5
    <3> HIDE DEF v, w
    <3>3. reader' = [at |-> reader.at, len |-> v, nth |-> reader.nth, whole |-> w]
        BY <2>4, <3>1
    <3> QED BY <2>4, <3>2, <3>3, ReaderRecord DEF v, w
  <2>7. live' = live /\ items' = items /\ tail' = tail
      BY <1>1 DEF vars, ring
  <2>8. n > 0 =>
          /\ n \in 1 .. Len(live) + 1
          /\ n <= Len(live) => reader.at = live[n].at
          /\ n = Len(live) + 1 => reader.at = tail /\ (items = 0 \/ Storing)
      BY <1>1 DEF PInv, Reader, Place, Reading
  <2>9. n > 0 /\ n <= Len(live) => buf[reader.at] = Len(live[n].msg)
      BY <2>3, <2>8 DEF Kept, Bytes, HasBytes
  <2> HIDE DEF n
  <2>10. Place'
      BY <2>2, <2>6, <2>7, <2>8, <2>9 DEF Place
  <2> QED BY <2>2, <2>6, <2>10 DEF PInv, Reader
<1> QED BY <1>2, <1>3

\* The reader comes to the next item, or to the one that is being added
LEMMA PeekNextInv ==
    ASSUME PInv, PeekNext
    PROVE  PInv'
<1>1. /\ pc[Core0] = "bytes" /\ At(Core0, pc[Core0])
      /\ UNCHANGED <<vars, block, mutex, run, booting, quiet>>
    BY DEF PeekNext, At
<1>2. CASE reader.at = tail \/ reader.len = 0
  <2>1. Goto(Core0, "idle") /\ reader' = NoReader
      BY <1>2 DEF PeekNext, MemLogEnds
  <2>2. Locks' /\ Calls' /\ Sealed' /\ Ring' /\ pc'[Core0] = "idle"
      BY <1>1, <2>1, ReaderMoves DEF Busy
  <2> QED BY <2>1, <2>2, NothingToRead DEF PInv
<1>3. CASE ~(reader.at = tail \/ reader.len = 0)
  <2>1. Goto(Core0, "length")
      BY <1>3 DEF PeekNext
  <2>2. /\ Locks' /\ Calls' /\ Sealed' /\ Ring' /\ pc'[Core0] = "length"
        /\ ~booting /\ (Storing' <=> Storing)
      BY <1>1, <2>1, ReaderMoves DEF Busy
  <2>3. Kept /\ (Storing => BehindLast(tail)) /\ (~Storing => Inv)
      BY <2>2, ItemsAreKept
  <2>4. reader \in [at : Offset, len : 0 .. 255, nth : Nat, whole : BOOLEAN]
      BY DEF PInv, Reader
  <2> DEFINE n == reader.nth
             next == NextItemOffset(buf, reader.at)
  <2>5. next \in Offset
    <3> DEFINE o == reader.at
               v == buf[o]
    <3>1. Offset \subseteq Cell /\ buf \in [Cell -> 0 .. 255]
        BY <2>3, SizeFacts DEF Kept, TypeOK, Offset, Cell
    <3>2. o \in Offset /\ v \in 0 .. 255
        BY <2>4, <3>1
    <3> HIDE DEF o, v
    <3>3. (o + v + 2) % Size \in 0 .. Size - 1
        BY <3>2, SizeFacts DEF Offset
    <3> QED BY <3>3 DEF NextItemOffset, o, v, Offset
  <2>6. /\ reader'.at = next /\ reader'.len = reader.len
        /\ reader'.nth = (IF n = 0 THEN 0 ELSE n + 1)
        /\ reader' \in [at : Offset, len : 0 .. 255, nth : Nat, whole : BOOLEAN]
    <3> HIDE DEF next
    <3>1. reader' = [reader EXCEPT !.at = next, !.nth = IF @ = 0 THEN 0 ELSE @ + 1]
        BY <1>3 DEF PeekNext, next
    <3> DEFINE k == IF n = 0 THEN 0 ELSE n + 1
    <3>2. k \in Nat
        BY <2>4
    <3>3. reader' = [at |-> next, len |-> reader.len, nth |-> k, whole |-> reader.whole]
        BY <2>4, <3>1
    <3> HIDE DEF k
    <3> QED BY <2>4, <2>5, <3>2, <3>3, ReaderRecord DEF k
  <2>7. live' = live /\ items' = items /\ tail' = tail
      BY <1>1 DEF vars, ring
  <2>8. Place'
    <3> SUFFICES ASSUME n > 0 PROVE Place'
        BY <2>4, <2>6 DEF Place
    <3>1. /\ n \in 1 .. Len(live) + 1
          /\ n <= Len(live) => reader.at = live[n].at
          /\ n = Len(live) + 1 => reader.at = tail
        BY <1>1 DEF PInv, Reader, Place, Reading
    <3>2. /\ items = Len(live) /\ items \in Nat
        BY <2>3 DEF Kept, TypeOK, HeadEnd
    <3> HIDE DEF n
    <3>3. n \in 1 .. Len(live)
        BY <1>3, <3>1, <3>2
    <3>4. next = DataCell(live[n].at, Footprint(live[n].msg))
        BY <2>3, <3>1, <3>3, ItemFacts
    <3>5. n + 1 <= Len(live) => next = live[n + 1].at
        BY <2>3, <3>2, <3>3, <3>4 DEF Kept, Chain
    <3>6. n = Len(live) => next = tail /\ Storing
      <4> HAVE n = Len(live)
      <4>1. items > 0 /\ n = items
          BY <3>2, <3>3
      <4>2. Storing
          BY <1>3, <2>3, <3>1, <3>3, <4>1 DEF Inv, Ends
      <4> QED BY <2>3, <3>4, <4>1, <4>2 DEF BehindLast
    <3> HIDE DEF next
    <3>7. /\ n + 1 \in 1 .. Len(live) + 1
          /\ n + 1 = Len(live) + 1 => n = Len(live)
          /\ reader'.nth = n + 1
      <4>1. reader'.nth = n + 1
          BY <2>6, <3>3 DEF n
      <4> QED BY <3>2, <3>3, <4>1
    <3> QED BY <2>2, <2>6, <2>7, <3>5, <3>6, <3>7 DEF Place
  <2> QED BY <2>2, <2>6, <2>8 DEF PInv, Reader
<1> QED BY <1>2, <1>3

-------------------------------------------------------------------------------
(* Reset and boot *)

LEMMA HeaderIsCovered == crc = Covered => crc.ring = header
BY DEF Covered, Crc

\* Where a reset leaves the ring: a header that its CRC fits is either the one
\* of a whole ring, or that of an empty one, of which every byte is free
LEMMA CoveredRing ==
    ASSUME PInv, ~booting, crc = Covered
    PROVE  Inv
<1>1. CASE ~Storing
    BY <1>1, ItemsAreKept
<1>2. CASE Storing
  <2>1. Kept /\ BehindLast(tail) /\ items = 0
      BY <1>2, HeaderIsCovered DEF PInv, Ring, Stored, Torn
  <2> QED BY <2>1 DEF Kept, BehindLast, HeadEnd, Inv, Ends
<1> QED BY <1>1, <1>2

LEMMA AllStop ==
    ASSUME pc' = AllIdle, mutex' = Nobody, adding' = Idle, booting' = TRUE,
           reader' = NoReader
    PROVE  Locks' /\ Calls' /\ Reader' /\ ~Storing' /\ ~Doing({"add"})'
<1>1. Core0 \in Agent /\ Nobody \notin Agent
    BY DEF Agent, Nobody, Core0, Core1, Irq
<1>2. \A S : ~Doing(S)'
    BY NoNextHolder
<1>3. Locks'
    BY <1>1 DEF Locks, AllIdle, Busy
<1>4. Calls'
    BY <1>2 DEF Calls
<1>5. Reader'
    BY <1>1, NothingToRead DEF AllIdle
<1> QED BY <1>2, <1>3, <1>4, <1>5 DEF Storing

LEMMA ResetInv ==
    ASSUME PInv, Reset
    PROVE  PInv'
<1>1. /\ ~booting /\ booting' = TRUE /\ quiet' = (mutex = Nobody)
      /\ pc' = AllIdle /\ mutex' = Nobody /\ adding' = Idle /\ reader' = NoReader
      /\ UNCHANGED <<ring, live, block>>
    BY DEF Reset
<1>2. Locks' /\ Calls' /\ Reader' /\ ~Storing' /\ ~Doing({"add"})'
    BY <1>1, AllStop
<1>3. Covered' = Covered /\ crc' = crc /\ id' = id
    BY <1>1 DEF Covered, header, ring, block
<1>4. Sealed'
    BY <1>1, <1>2, <1>3 DEF PInv, Sealed
<1>5. Ring'
  <2>1. crc = Covered => Inv'
      BY <1>1, CoveredRing, SameRing
  <2> QED BY <1>1, <1>2, <1>3, <2>1 DEF Ring
<1> QED BY <1>2, <1>4, <1>5 DEF PInv

LEMMA PowerLossInv ==
    ASSUME PInv, PowerLoss
    PROVE  PInv'
<1>1. /\ booting' = TRUE /\ quiet' = FALSE /\ id' = FALSE
      /\ pc' = AllIdle /\ mutex' = Nobody /\ adding' = Idle /\ reader' = NoReader
    BY DEF PowerLoss
<1>2. Locks' /\ Calls' /\ Reader' /\ ~Storing' /\ ~Doing({"add"})'
    BY <1>1, AllStop
<1>3. Sealed' /\ Ring'
    BY <1>1, <1>2 DEF Sealed, Ring
<1> QED BY <1>2, <1>3 DEF PInv

\* Before init_persistent_memory nobody holds the mutex or logs
LEMMA BootingStill ==
    ASSUME PInv, booting
    PROVE  /\ mutex = Nobody /\ pc = AllIdle /\ adding = Idle
           /\ \A S : ~Doing(S)
<1>1. mutex = Nobody /\ pc = AllIdle
    BY DEF PInv, Locks, AllIdle, Busy
<1>2. \A S : ~Doing(S)
    BY <1>1, NoHolder
<1> QED BY <1>1, <1>2 DEF PInv, Calls

\* What the two ends of init_persistent_memory have in common
LEMMA BootDone ==
    ASSUME PInv, booting, booting' = FALSE, UNCHANGED <<adding, mutex, pc, reader>>,
           id', crc' = Covered', Inv'
    PROVE  PInv'
<1>1. /\ mutex' = Nobody /\ pc' = AllIdle /\ adding' = Idle
      /\ \A S : ~Doing(S)
    BY BootingStill
<1>2. \A S : ~Doing(S)'
    BY <1>1, NoNextHolder
<1>3. Locks' /\ Calls' /\ Sealed' /\ Ring'
    BY <1>1, <1>2 DEF PInv, Locks, Calls, Sealed, Ring, Storing
<1>4. Reader'
  <2>1. ~Reading'
      BY <1>1 DEF Reading, AllIdle, Agent
  <2> QED BY <2>1 DEF PInv, Reader, Place
<1> QED BY <1>3, <1>4 DEF PInv

LEMMA AcceptBlockInv ==
    ASSUME PInv, AcceptBlock
    PROVE  PInv'
<1>1. /\ booting /\ id /\ crc = Covered /\ booting' = FALSE
      /\ crc' = (IF uptime # 0 THEN Crc(id, uptime, prevUptime', header) ELSE crc)
      /\ prevUptime' = (IF uptime # 0 THEN uptime ELSE prevUptime)
      /\ UNCHANGED <<vars, id, uptime, mutex, pc, run, quiet, reader>>
    BY DEF AcceptBlock
<1>2. Inv /\ Inv'
  <2>1. Inv
      BY <1>1 DEF PInv, Ring
  <2> QED BY <1>1, <2>1, SameRing DEF vars, Inv, TypeOK
<1>3. header' = header
    BY <1>1 DEF vars, ring, header
<1>4. crc' = Covered'
    BY <1>1, <1>3 DEF Covered, Crc
<1> QED BY <1>1, <1>2, <1>4, BootDone DEF vars

LEMMA WipeBlockInv ==
    ASSUME PInv, WipeBlock
    PROVE  PInv'
<1>1. /\ booting /\ booting' = FALSE /\ id' = TRUE
      /\ UNCHANGED <<adding, mutex, pc, reader>> /\ adding = Idle
    BY BootingStill DEF WipeBlock
<1>2. Init'
    BY <1>1 DEF WipeBlock, Init
<1>3. (Init => Inv)'
    BY InvInit, PTL
<1>4. crc' = Covered'
    BY DEF WipeBlock, Covered
<1> QED BY <1>1, <1>2, <1>3, <1>4, BootDone

-------------------------------------------------------------------------------
(* The invariant *)

LEMMA PInvInit == PInit => PInv
<1> SUFFICES ASSUME PInit PROVE PInv
    OBVIOUS
<1>1. Core0 \in Agent /\ Nobody \notin Agent
    BY DEF Agent, Nobody, Core0, Core1, Irq
<1>2. \A S : ~Doing(S)
    BY NoHolder DEF PInit
<1>3. Locks
    BY <1>1 DEF PInit, Locks, AllIdle, Busy
<1>4. Calls /\ Sealed /\ Ring
    BY <1>2 DEF PInit, Init, Calls, Sealed, Ring, Storing
<1>5. Reader
  <2>1. 0 \in Offset /\ 0 \in 0 .. 255 /\ 0 \in Nat /\ FALSE \in BOOLEAN
      BY SizeFacts DEF Offset
  <2>2. reader \in [at : Offset, len : 0 .. 255, nth : Nat, whole : BOOLEAN]
      BY <2>1 DEF PInit, NoReader
  <2>3. ~Reading
      BY <1>1 DEF PInit, AllIdle, Reading
  <2> QED BY <2>2, <2>3 DEF Reader, Place
<1> QED BY <1>3, <1>4, <1>5 DEF PInv

LEMMA NothingHappens ==
    ASSUME PInv, UNCHANGED pvars
    PROVE  PInv'
<1>1. /\ vars' = vars /\ block' = block /\ mutex' = mutex /\ pc' = pc
      /\ run' = run /\ booting' = booting /\ quiet' = quiet /\ reader' = reader
    BY DEF pvars
<1>2. \A S : Doing(S)' <=> Doing(S)
    BY <1>1 DEF Doing
<1>3. Locks' /\ Calls' /\ Sealed'
    BY <1>1, <1>2 DEF PInv, Locks, Calls, Sealed, vars, ring, block, header, Covered
<1>4. Inv => Inv'
    BY <1>1, SameRing DEF vars, Inv, TypeOK
<1>5. Stored => Stored'
    BY <1>1, <1>2 DEF Stored, Kept, TypeOK, HeadEnd, Chain, Bytes, ItemsApart, End,
       Distance, BehindLast, vars, ring
<1>6. Ring'
    BY <1>1, <1>2, <1>4, <1>5 DEF PInv, Ring, Storing, Torn, vars, ring, block,
       header, Covered
<1>7. Reader'
    BY <1>1, <1>2 DEF PInv, Reader, Place, Reading, Storing, vars, ring
<1> QED BY <1>3, <1>6, <1>7 DEF PInv

LEMMA PInvNext == PInv /\ [PNext]_pvars => PInv'
<1> SUFFICES ASSUME PInv, [PNext]_pvars PROVE PInv'
    OBVIOUS
<1>1. ASSUME NEW a \in Agent, NEW m \in Message, LogEnter(a, m) PROVE PInv'
    BY <1>1, LogEnterInv
<1>2. ASSUME NEW a \in Agent, Evict(a) PROVE PInv'
    BY <1>2, EvictInv
<1>3. ASSUME NEW a \in Agent, SetTail(a) PROVE PInv'
    BY <1>3, SetTailInv
<1>4. ASSUME NEW a \in Agent, CopyData(a) PROVE PInv'
    BY <1>4, CopyDataInv
<1>5. ASSUME NEW a \in Agent, CountItem(a) PROVE PInv'
    BY <1>5, CountItemInv
<1>6. ASSUME NEW a \in Agent, Seal(a) PROVE PInv'
    BY <1>6, SealInv
<1>7. CASE UpdateEnter \/ UpdateTimes
    BY <1>7, UpdateEnterInv, UpdateTimesInv
<1>8. CASE MemLog \/ PeekLength \/ PeekNext
    BY <1>8, MemLogInv, PeekLengthInv, PeekNextInv
<1>9. CASE Reset \/ PowerLoss
    BY <1>9, ResetInv, PowerLossInv
<1>10. CASE AcceptBlock \/ WipeBlock
    BY <1>10, AcceptBlockInv, WipeBlockInv
<1>11. CASE UNCHANGED pvars
    BY <1>11, NothingHappens
<1> QED BY <1>1, <1>2, <1>3, <1>4, <1>5, <1>6, <1>7, <1>8, <1>9, <1>10, <1>11 DEF PNext

LEMMA PInvariance == PSpec => []PInv
BY PInvInit, PInvNext, PTL DEF PSpec

-------------------------------------------------------------------------------
(* The theorems *)

\* Whoever finds pmem_mutex free finds the identifier set and a CRC that fits
\* the header, so that a reset at that moment keeps the block.
THEOREM FreeMeansSealed == PSpec => []SealedWhenFree
<1>1. PInv => SealedWhenFree
    BY DEF PInv, Sealed, SealedWhenFree
<1> QED BY <1>1, PInvariance, PTL

\* A log that a boot accepts reads back item by item, wherever the reset cut
\* u8_ringbuffer_add short: the CRC of the header is enough, although the
\* bytes have none.
THEOREM BootAcceptsWholeLogs == PSpec => []AcceptedLogIntact
<1>1. PInv => AcceptedLogIntact
  <2> SUFFICES ASSUME PInv, ~booting, mutex = Nobody
               PROVE  ReadsBack /\ ItemsApart
      BY DEF AcceptedLogIntact
  <2>1. ~Storing
      BY NoHolder DEF Storing
  <2>2. Inv
      BY <2>1, ItemsAreKept
  <2> QED BY <2>2, InvReadsBack DEF Inv
<1> QED BY <1>1, PInvariance, PTL

\* A reader without the mutex that is not overtaken stands on an item that is
\* held or on the one that is being added, and prints what was complete when
\* it came to it as it was added.
THEOREM ReaderStaysOnTrack == PSpec => []ReaderOnTrack
<1>1. PInv => ReaderOnTrack
  <2> SUFFICES ASSUME PInv, Reading, reader.nth > 0
               PROVE  ReaderOnTrack
      BY DEF ReaderOnTrack
  <2> DEFINE n == reader.nth
  <2>1. ~booting
      BY DEF PInv, Locks, Reading, AllIdle, Agent
  <2>2. Kept
      BY <2>1, ItemsAreKept
  <2>3. /\ n \in 1 .. Len(live) + 1
        /\ n <= Len(live) => reader.at = live[n].at
        /\ n = Len(live) + 1 => reader.at = tail
        /\ pc[Core0] = "bytes" /\ reader.whole =>
              n <= Len(live) /\ reader.len = Len(live[n].msg)
      BY DEF PInv, Reader, Place
  <2>4. items = Len(live) /\ items \in Nat
      BY <2>2 DEF Kept, TypeOK, HeadEnd
  <2> HIDE DEF n
  <2>5. ASSUME pc[Core0] = "bytes", reader.whole
        PROVE  [k \in 1 .. reader.len |-> buf[DataCell(reader.at, k)]]
                    = live[n].msg
    <3>1. n \in 1 .. Len(live)
        BY <2>3, <2>4, <2>5
    <3>2. Peek(buf, live[n].at) = live[n].msg
        BY <2>2, <3>1, PeekReturnsItem
    <3>3. reader.at = live[n].at /\ reader.len = buf[reader.at]
        BY <2>2, <2>3, <2>5, <3>1 DEF Kept, Bytes, HasBytes
    <3> QED BY <3>2, <3>3 DEF Peek
  <2>6. n <= Len(live) \/ n = Len(live) + 1
      BY <2>3, <2>4
  <2> QED BY <2>3, <2>5, <2>6 DEF ReaderOnTrack, n
<1> QED BY <1>1, PInvariance, PTL

\* Only the two ends of init_persistent_memory end a boot
LEMMA BootEnds ==
    ASSUME booting, ~booting', [PNext]_pvars
    PROVE  AcceptBlock \/ WipeBlock
<1>1. ~(\E a \in Agent : \E m \in Message : LogEnter(a, m))
    BY DEF LogEnter, At, CanRun
<1>2. ~(\E a \in Agent : Evict(a) \/ SetTail(a) \/ CopyData(a) \/ CountItem(a) \/ Seal(a))
    BY DEF Evict, SetTail, CopyData, CountItem, Seal, At, CanRun
<1>3. ~(UpdateEnter \/ UpdateTimes \/ MemLog \/ PeekLength \/ PeekNext)
    BY DEF UpdateEnter, UpdateTimes, MemLog, PeekLength, PeekNext, At, CanRun
<1>4. ~(Reset \/ PowerLoss)
    BY DEF Reset, PowerLoss
<1>5. ~UNCHANGED pvars
    BY DEF pvars
<1> QED BY <1>1, <1>2, <1>3, <1>4, <1>5 DEF PNext

\* A block whose writers were all done is always accepted
LEMMA QuietIsAccepted ==
    ASSUME PInv, booting, ~booting', quiet, [PNext]_pvars
    PROVE  AcceptBlock
<1>1. id /\ crc = Covered
    BY DEF PInv, Sealed
<1>2. ~WipeBlock
    BY <1>1 DEF WipeBlock
<1> QED BY <1>2, BootEnds

\* A soft reset that finds pmem_mutex free loses no message of the log.
THEOREM QuietResetIsSafe == PSpec => QuietResetKeepsLog
<1>1. PInv /\ [PNext]_pvars
        => [booting /\ ~booting' /\ quiet => live' = live]_pvars
    BY QuietIsAccepted DEF AcceptBlock, vars
<1> QED BY <1>1, PInvariance, PTL DEF PSpec, QuietResetKeepsLog

\* The boot after it reports the uptime of the run that was reset.
THEOREM UptimeIsHandedOver == PSpec => UptimeHandedOver
<1>1. PInv /\ [PNext]_pvars
        => [booting /\ ~booting' /\ quiet /\ uptime = run - 1 /\ uptime # 0
              => prevUptime' = run - 1]_pvars
    BY QuietIsAccepted DEF AcceptBlock
<1> QED BY <1>1, PInvariance, PTL DEF PSpec, UptimeHandedOver

===============================================================================
