------------------------------ MODULE MessageLog ------------------------------
(***************************************************************************)
(* What the log promises, without bytes or offsets: a queue of messages    *)
(* that fits its capacity.  A message that may overwrite costs the oldest  *)
(* ones, and only as far as it needs their room.                           *)
(***************************************************************************)
EXTENDS Integers, Sequences

CONSTANTS
    Capacity,   \* bytes the log may use
    Message     \* messages: sequences of bytes

VARIABLES
    queue,      \* the messages held, oldest first
    used,       \* the bytes they use
    pending     \* the message being added; its msg is empty when there is none

Nothing == [msg |-> <<>>, overwrite |-> FALSE]
Cost(m) == Len(m) + 2
Fits(m) == used + Cost(m) <= Capacity

Init == queue = <<>> /\ used = 0 /\ pending = Nothing

Offer(m, overwrite) ==
    /\ pending = Nothing
    /\ pending' = [msg |-> m, overwrite |-> overwrite]
    /\ UNCHANGED <<queue, used>>

DropOldest ==
    /\ pending # Nothing
    /\ pending.overwrite /\ ~Fits(pending.msg)
    /\ queue # <<>>
    /\ queue' = Tail(queue)
    /\ used' = used - Cost(Head(queue))
    /\ UNCHANGED pending

Accept ==
    /\ pending # Nothing
    /\ Fits(pending.msg)
    /\ queue' = Append(queue, pending.msg)
    /\ used' = used + Cost(pending.msg)
    /\ pending' = Nothing

\* Only a message that may not overwrite is ever refused.
Refuse ==
    /\ pending # Nothing
    /\ ~pending.overwrite /\ ~Fits(pending.msg)
    /\ pending' = Nothing
    /\ UNCHANGED <<queue, used>>

Next ==
    \/ \E m \in Message, o \in BOOLEAN : Offer(m, o)
    \/ DropOldest
    \/ Accept
    \/ Refuse

Spec == Init /\ [][Next]_<<queue, used, pending>>

===============================================================================
