------------------------------ MODULE RingBuffer ------------------------------
(***************************************************************************)
(* The byte ring buffer of src/ringbuffer.c, which holds the in-memory log *)
(* (cmd_mem_log prints it, it survives a soft reset).  An item occupies    *)
(* consecutive cells, modulo Size: its length, its bytes, its length       *)
(* again.  log.c adds with overwrite = true: the oldest items are removed  *)
(* one by one until the new one fits.                                      *)
(*                                                                         *)
(* One call of u8_ringbuffer_add is a sequence of steps here (the call,    *)
(* each turn of its removal loop, the store), because a reader that holds  *)
(* no lock, and a reset, can fall between them.                            *)
(***************************************************************************)
EXTENDS Integers, Sequences

CONSTANTS
    Size,       \* rb->size: cells of the buffer (8192 in brickpico.h)
    MaxLen,     \* longest message in bytes (255: log_msg's rbuf)
    Message     \* the messages added: byte sequences

ASSUME MessageAssumption ==
    /\ MaxLen \in Nat \ {0}
    /\ MaxLen <= 255
    /\ \A m \in Message : m \in Seq(0 .. 255) /\ Len(m) \in 1 .. MaxLen

\* Two items of the largest size fit: then the removal loop never empties
\* the buffer, whose head would pass its tail (8192 >= 2 * 257).
ASSUME SizeAssumption == Size \in Nat /\ Size >= 2 * (MaxLen + 2)

VARIABLES
    buf,        \* rb->buf; index Size is the byte that follows the array
    head,       \* rb->head: offset of the oldest item
    tail,       \* rb->tail: offset of the newest item
    free,       \* rb->free
    items,      \* rb->items
    adding,     \* the message and overwrite flag of the call in progress
    live        \* auxiliary: the items held, oldest first, with their offsets

ring == <<buf, head, tail, free, items>>
vars == <<ring, adding, live>>

Cell == 0 .. Size
Offset == 0 .. Size - 1
Idle == [msg |-> <<>>, overwrite |-> FALSE]

-------------------------------------------------------------------------------
(* The helpers of ringbuffer.c *)

\* Mutant: the closing length is not counted
FootprintWithoutSuffix(m) == Len(m) + 1

Footprint(m) == Len(m) + 2      \* item_len: data, PREFIX_LEN and SUFFIX_LEN

\* Mutant: the offset is not wrapped
UnwrappedNextItemOffset(b, o) == o + b[o] + 2

\* u8_next_item_offset
NextItemOffset(b, o) == (o + b[o] + 2) % Size

\* The cell of the k-th data byte of an item at o: the copy loops of
\* u8_ringbuffer_add and u8_ringbuffer_peek wrap before each byte.
DataCell(o, k) == (o + k) % Size

\* The cell u8_ringbuffer_add gives the second length: the one after the last
\* data byte, without a wrap, so that it is index Size when the data end
\* exactly at the end of the array.
SuffixCell(o, len) == DataCell(o, len) + 1

\* u8_ringbuffer_add's stores into the buffer of message m at offset o
WriteItem(b, o, m) ==
    [c \in Cell |->
        IF c = SuffixCell(o, Len(m)) THEN Len(m)
        ELSE IF c = o THEN Len(m)
        ELSE IF \E k \in 1 .. Len(m) : c = DataCell(o, k)
             THEN m[CHOOSE k \in 1 .. Len(m) : c = DataCell(o, k)]
             ELSE b[c]]

\* u8_ringbuffer_peek: the bytes of the item at o
Peek(b, o) == [k \in 1 .. b[o] |-> b[DataCell(o, k)]]

-------------------------------------------------------------------------------
\* u8_ringbuffer_init on a zeroed block (init_persistent_memory)
Init ==
    /\ buf = [c \in Cell |-> 0]
    /\ head = 0 /\ tail = 0
    /\ free = Size
    /\ items = 0
    /\ adding = Idle
    /\ live = <<>>

\* u8_ringbuffer_add, entry: the argument and header checks pass
AddCall(m, overwrite) ==
    /\ adding = Idle
    /\ tail < Size /\ free <= Size
    /\ adding' = [msg |-> m, overwrite |-> overwrite]
    /\ UNCHANGED <<ring, live>>

\* Mutant: the loop removes one item more than the new one needs
RemoveFirstItemEagerly ==
    /\ adding # Idle
    /\ adding.overwrite
    /\ free <= Footprint(adding.msg)
    /\ items >= 1 /\ head < Size
    /\ head' = NextItemOffset(buf, head)
    /\ free' = free + buf[head] + 2
    /\ items' = items - 1
    /\ live' = Tail(live)
    /\ UNCHANGED <<buf, tail, adding>>

\* u8_ringbuffer_remove_first_item, as a turn of the removal loop
RemoveFirstItem ==
    /\ adding # Idle
    /\ adding.overwrite
    /\ free < Footprint(adding.msg)
    /\ items >= 1 /\ head < Size
    /\ head' = NextItemOffset(buf, head)
    /\ free' = free + buf[head] + 2
    /\ items' = items - 1
    /\ live' = Tail(live)
    /\ UNCHANGED <<buf, tail, adding>>

\* No room and nothing may be removed: u8_ringbuffer_add returns -2
Reject ==
    /\ adding # Idle
    /\ free < Footprint(adding.msg)
    /\ ~adding.overwrite \/ items < 1
    /\ adding' = Idle
    /\ UNCHANGED <<ring, live>>

\* Mutant: the tail moves on although the buffer holds no item
StoreOffsetAlwaysNext == NextItemOffset(buf, tail)

\* The rest of u8_ringbuffer_add: the item goes after the newest one
StoreOffset == IF items > 0 THEN NextItemOffset(buf, tail) ELSE tail

Store ==
    /\ adding # Idle
    /\ free >= Footprint(adding.msg)
    /\ tail' = StoreOffset
    /\ buf' = WriteItem(buf, StoreOffset, adding.msg)
    /\ free' = free - Footprint(adding.msg)
    /\ items' = items + 1
    /\ live' = Append(live, [at |-> StoreOffset, msg |-> adding.msg])
    /\ adding' = Idle
    /\ UNCHANGED head

Next ==
    \/ \E m \in Message, o \in BOOLEAN : AddCall(m, o)
    \/ RemoveFirstItem
    \/ Reject
    \/ Store

Spec == Init /\ [][Next]_vars

-------------------------------------------------------------------------------
TypeOK ==
    /\ buf \in [Cell -> 0 .. 255]
    /\ head \in Offset /\ tail \in Offset
    /\ free \in 0 .. Size
    /\ items \in Nat
    /\ adding \in {Idle} \cup [msg : Message, overwrite : BOOLEAN]
    /\ live \in Seq([at : Offset, msg : Message])

(***************************************************************************)
(* What a reader finds: starting at rb->head and following the stored      *)
(* lengths (cmd_mem_log), it meets exactly the messages held, oldest       *)
(* first, each with the bytes that were added, and stops at rb->tail after *)
(* rb->items of them, whatever was overwritten on the way.                 *)
(***************************************************************************)
ReadsBack ==
    /\ items = Len(live)
    /\ items > 0 => head = live[1].at /\ tail = live[items].at
    /\ \A i \in 1 .. items :
          /\ Peek(buf, live[i].at) = live[i].msg
          /\ i < items => live[i + 1].at = NextItemOffset(buf, live[i].at)

(***************************************************************************)
(* The items lie apart: measured from rb->head around the buffer, each     *)
(* starts where the one before it ends or later, and the last one ends     *)
(* where the free space begins, so rb->free is exactly what the items      *)
(* leave and the next store overwrites none of them.                       *)
(***************************************************************************)
DistanceFrom(h, o) == IF o >= h THEN o - h ELSE o - h + Size
Distance(o) == DistanceFrom(head, o)

End(item) == Distance(item.at) + Footprint(item.msg)

ItemsApart ==
    /\ \A i, j \in 1 .. Len(live) : i < j => End(live[i]) <= Distance(live[j].at)
    /\ Size - free = IF live = <<>> THEN 0 ELSE End(live[Len(live)])

(***************************************************************************)
(* u8_ringbuffer_add keeps its promise to the log: the messages read back  *)
(* from the bytes form a queue that takes each new message at its end and  *)
(* gives up its oldest only while the new one does not fit.                *)
(***************************************************************************)
Held == [i \in 1 .. items |-> Peek(buf, live[i].at)]

Queue == INSTANCE MessageLog
            WITH Capacity <- Size, queue <- Held, used <- Size - free,
                 pending <- adding
KeepsQueue == Queue!Spec

===============================================================================
