------------------------------- MODULE Bitmasks -------------------------------
(***************************************************************************)
(* Masks of outputs, pins and weekdays as text (src/util.c): a mask is the *)
(* set of its bits, a text a set of ranges <<first, last>>, "3" being      *)
(* <<3, 3>> and "*" All.  Bit 0 is written base.                           *)
(***************************************************************************)
EXTENDS Integers

\* "*"
All == {<<-1, -1>>}

\* bitmask_to_str, with ranges: the first and the last bit of each run
BitmaskToStr(mask, base) ==
    {<<r[1] + base, r[2] + base>> : r \in {q \in mask \X mask :
        q[1] <= q[2] /\ q[1] .. q[2] \subseteq mask
        /\ q[1] - 1 \notin mask /\ q[2] + 1 \notin mask}}

\* Mutant: a range stops before its last bit
StrToBitmaskShort(ranges, len, base) ==
    IF ranges = All THEN 0 .. len - 1
    ELSE UNION {LET a == r[1] - base  b == r[2] - base
                IN  ({a} \cap (0 .. len - 1))
                    \cup (IF b < len THEN a + 1 .. b - 1 ELSE {})
                : r \in ranges}

\* str_to_bitmask: a number that is out of range sets no bit of its own
StrToBitmask(ranges, len, base) ==
    IF ranges = All THEN 0 .. len - 1
    ELSE UNION {LET a == r[1] - base  b == r[2] - base
                IN  ({a} \cap (0 .. len - 1))
                    \cup (IF b < len THEN a + 1 .. b ELSE {})
                : r \in ranges}

===============================================================================
