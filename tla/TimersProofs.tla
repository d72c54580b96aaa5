----------------------------- MODULE TimersProofs -----------------------------
(***************************************************************************)
(* No minute is missed, no entry is applied twice in one, and what is      *)
(* listed can be typed again; for any lengths of minute, hour and day, any *)
(* clock, table and commands.                                              *)
(*                                                                         *)
(* The gate of handle_timer_events is a time per slot, and commands move   *)
(* entries between slots.  The invariant says for each entry what its slot *)
(* knows of it (SlotKnows, SlotTrue), and of the minute that passes and    *)
(* the one before whether they are settled (ThisMinute, LastMinute,        *)
(* Steady), which NoMinuteMissed, about minutes that are over, does not.   *)
(***************************************************************************)
EXTENDS Timers, SequenceTheorems, WellFoundedInduction, TLAPS

-------------------------------------------------------------------------------
(* The invariant *)

Entry ==
    [minute : {Star} \cup (0 .. MinutesPerHour - 1),
     hour : {Star} \cup (0 .. HoursPerDay - 1),
     wday : SUBSET (0 .. 6), action : Actions, mask : SUBSET Output,
     name : Seq(STRING)]

Types ==
    /\ running \in BOOLEAN /\ now \in Nat
    /\ idle \in 0 .. PollEvery + Slack
    /\ events \in Seq(Entry) /\ Len(events) <= MaxEvents
    /\ since \in Seq(Nat) /\ Len(since) = Len(events)
    /\ applied \in Seq(Nat \cup {Never}) /\ Len(applied) = Len(events)
    /\ lastevent \in [Slots -> Nat]

(* Of an entry e that is undisturbed since s and was applied at a, in a slot  *)
(* with the time l, at t, d seconds after the last poll                       *)

\* What the entry was applied at is not in the future, and the slot knows it
\* unless the entry was disturbed since.
SlotKnows(s, a, l, t) == a <= t /\ (a <= l \/ a <= s)

\* The slot's time after the last disturbance is that of the entry itself.
SlotTrue(e, s, a, l) == l <= s \/ (a = l /\ Matches(e, l))

\* The entry names minute c, and nobody disturbed it for the minute before.
Expected(e, s, c) == e.minute >= 0 /\ Matches(e, c) /\ s + Minute <= c

\* This minute is settled once it has been polled, the one before for good.
ThisMinute(e, s, a, t, d) ==
    Expected(e, s, MinuteStart(t)) /\ MinuteStart(t) <= t - d => MinuteStart(t) <= a
LastMinute(e, s, a, t) ==
    Expected(e, s, MinuteStart(t) - Minute) => MinuteStart(t) - Minute <= a

\* An entry that has matched all the time was due at the last poll, or gated.
Steady(e, s, l, t, d) ==
    (\A u \in s .. t : Matches(e, u)) => t - d <= s \/ t - d < l + Minute

Kept(e, s, a, l, t) == SlotKnows(s, a, l, t) /\ SlotTrue(e, s, a, l)
Timely(e, s, a, l, t, d) ==
    ThisMinute(e, s, a, t, d) /\ LastMinute(e, s, a, t) /\ Steady(e, s, l, t, d)

AllKept ==
    \A i \in DOMAIN events :
        Kept(events[i], since[i], applied[i], lastevent[i], now)
AllTimely ==
    running => \A i \in DOMAIN events :
        Timely(events[i], since[i], applied[i], lastevent[i], now, idle)

Inv == Types /\ AllKept /\ AllTimely

-------------------------------------------------------------------------------
(* Arithmetic of the clock *)

LEMMA LeastOfNumbers ==
    ASSUME NEW S, S \subseteq Nat, S # {}
    PROVE  \E x \in S : \A y \in S : x <= y
<1>1. PICK x \in S : \A y \in S : ~ (<<y, x>> \in OpToRel(<, Nat))
  BY NatLessThanWellFounded, WFMin
<1>2. \A y \in S : ~ (y < x)
  BY <1>1 DEF OpToRel
<1>3. \A y \in S : x <= y
  BY <1>2
<1> QED  BY <1>3

\* A number between two multiples of a that follow each other
LEMMA Quotient ==
    ASSUME NEW a \in Nat \ {0}, NEW t \in Nat, NEW q \in Nat,
           a * q <= t, t < a * q + a
    PROVE  t \div a = q
OBVIOUS

LEMMA Between ==
    ASSUME NEW a \in Nat \ {0}, NEW t \in Nat
    PROVE  /\ t \div a \in Nat
           /\ a * (t \div a) <= t /\ t < a * (t \div a) + a
<1> DEFINE S == {k \in Nat : t < a * k}
<1>1. t + 1 \in S
  <2>1. \A k \in Nat : k <= a * k
    OBVIOUS
  <2>2. t + 1 <= a * (t + 1) /\ a * (t + 1) \in Nat
    BY <2>1
  <2> QED  BY <2>2
<1>2. PICK k \in S : \A x \in S : k <= x
  <2> HIDE DEF S
  <2>1. S \subseteq Nat
    BY DEF S
  <2> QED  BY <1>1, <2>1, LeastOfNumbers
<1>3. k \in Nat /\ k # 0 /\ t < a * k
  BY <1>2
<1>4. PICK q \in Nat : k = q + 1
  <2>1. k - 1 \in Nat /\ k = (k - 1) + 1
    BY <1>3
  <2> QED  BY <2>1
<1>5. q \notin S
  BY <1>2, <1>4
<1>6. a * q \in Nat /\ a * (q + 1) = a * q + a
  OBVIOUS
<1>7. a * q <= t /\ t < a * q + a
  BY <1>3, <1>4, <1>5, <1>6
<1>8. t \div a = q
  BY <1>7, Quotient
<1> QED  BY <1>7, <1>8

LEMMA Remainder ==
    ASSUME NEW a \in Nat \ {0}, NEW t \in Nat, NEW q \in Nat, NEW r \in 0 .. a - 1,
           t = a * q + r
    PROVE  t % a = r
OBVIOUS

LEMMA Neighbours ==
    ASSUME NEW h \in Nat \ {0, 1}, NEW q \in Nat
    PROVE  q % h # (q + 1) % h
<1>1. PICK d \in Nat : h * d <= q /\ q < h * d + h
  BY Between
<1>2. h * d \in Nat /\ h * (d + 1) = h * d + h /\ d + 1 \in Nat
  BY <1>1
<1>3. PICK r \in 0 .. h - 1 : q = h * d + r
  <2>1. q - h * d \in 0 .. h - 1 /\ q = h * d + (q - h * d)
    BY <1>1, <1>2
  <2> QED  BY <2>1
<1>4. q % h = r
  BY <1>3, Remainder
<1>5. CASE r + 1 < h
  <2>1. PICK x \in 0 .. h - 1 : x = r + 1
    BY <1>5
  <2>2. PICK p \in Nat : p = q + 1
    OBVIOUS
  <2>3. p = h * d + x
    BY <1>2, <1>3, <2>1, <2>2
  <2>4. p % h = x
    BY <2>3, Remainder
  <2> QED  BY <1>4, <2>1, <2>2, <2>4
<1>6. CASE r + 1 = h
  <2>1. PICK k \in Nat : k = d + 1
    BY <1>1
  <2>2. PICK p \in Nat : p = q + 1
    OBVIOUS
  <2>3. 0 \in 0 .. h - 1 /\ p = h * k + 0 /\ r # 0
    BY <1>2, <1>3, <1>6, <2>1, <2>2
  <2>4. p % h = 0
    BY <2>3, Remainder
  <2> QED  BY <1>4, <2>2, <2>3, <2>4
<1> QED  BY <1>5, <1>6

-------------------------------------------------------------------------------
(* Minutes *)

LEMMA Numbers ==
    /\ Minute \in Nat \ {0} /\ MinutesPerHour \in Nat \ {0, 1}
    /\ HoursPerDay \in Nat \ {0} /\ PollEvery \in Nat \ {0} /\ Slack \in Nat
    /\ PollEvery + Slack <= Minute
    /\ OutputCount \in 1 .. 32 /\ MaxEvents \in Nat \ {0}
BY TimersAssumption

LEMMA MinuteHolds ==
    ASSUME NEW t \in Nat
    PROVE  /\ MinuteOf(t) \in Nat /\ MinuteStart(t) \in Nat
           /\ MinuteStart(t) <= t /\ t < MinuteStart(t) + Minute
BY Numbers, Between DEF MinuteOf, MinuteStart

\* The seconds of a minute are in the same minute.
LEMMA SameMinute ==
    ASSUME NEW t \in Nat, NEW u \in Nat,
           MinuteStart(t) <= u, u < MinuteStart(t) + Minute
    PROVE  MinuteOf(u) = MinuteOf(t)
BY Numbers, MinuteHolds, Quotient DEF MinuteOf, MinuteStart

LEMMA SameMatch ==
    ASSUME NEW t, NEW u, NEW e, MinuteOf(t) = MinuteOf(u)
    PROVE  Matches(e, t) <=> Matches(e, u)
BY DEF Matches, OnDay, tm_min, tm_hour, tm_wday

LEMMA StartInMinute ==
    ASSUME NEW t \in Nat
    PROVE  /\ MinuteOf(MinuteStart(t)) = MinuteOf(t)
           /\ \A e : Matches(e, MinuteStart(t)) <=> Matches(e, t)
<1>1. MinuteOf(MinuteStart(t)) = MinuteOf(t)
  BY Numbers, MinuteHolds, SameMinute
<1> QED  BY <1>1, SameMatch

\* An entry for one minute of the hour matches no two minutes that follow each
\* other.
LEMMA OneOfTwo ==
    ASSUME NEW t \in Nat, NEW u \in Nat, NEW e, e.minute \in Int, e.minute >= 0,
           u < MinuteStart(t), MinuteStart(t) - Minute <= u
    PROVE  ~ (Matches(e, t) /\ Matches(e, u))
<1>1. Minute \in Nat \ {0} /\ MinuteOf(t) \in Nat
  BY Numbers, MinuteHolds
<1>2. PICK q \in Nat : MinuteOf(t) = q + 1
  <2>1. MinuteOf(t) # 0
    <3> SUFFICES ASSUME MinuteOf(t) = 0 PROVE FALSE
      OBVIOUS
    <3>1. MinuteStart(t) = 0
      BY <1>1 DEF MinuteStart
    <3> QED  BY <3>1
  <2>2. MinuteOf(t) - 1 \in Nat /\ MinuteOf(t) = (MinuteOf(t) - 1) + 1
    BY <1>1, <2>1
  <2> QED  BY <2>2
<1>3. Minute * q \in Nat /\ MinuteStart(t) = Minute * q + Minute
  BY <1>1, <1>2 DEF MinuteStart
<1>4. MinuteOf(u) = q
  <2>1. Minute * q <= u /\ u < Minute * q + Minute
    BY <1>1, <1>3
  <2> QED  BY <1>1, <2>1, Quotient DEF MinuteOf
<1>5. tm_min(u) # tm_min(t)
  BY <1>2, <1>4, Neighbours, Numbers DEF tm_min
<1> QED  BY <1>5 DEF Matches

-------------------------------------------------------------------------------
(* What befalls one entry *)

Time(s, a, l, t) == s \in Nat /\ a \in Nat \cup {Never} /\ l \in Nat /\ t \in Nat

\* An entry that was just disturbed
LEMMA Disturbed ==
    ASSUME NEW e \in Entry, NEW s, NEW a, NEW l, NEW t, Time(s, a, l, t),
           NEW d \in Nat, t <= s, l <= s, a <= t
    PROVE  Kept(e, s, a, l, t) /\ Timely(e, s, a, l, t, d)
<1>1. MinuteStart(t) \in Nat /\ MinuteStart(t) <= t /\ Minute \in Nat \ {0}
  BY MinuteHolds, Numbers DEF Time
<1>2. Kept(e, s, a, l, t)
  BY DEF Kept, SlotKnows, SlotTrue, Time, Never
<1>3. ~ Expected(e, s, MinuteStart(t)) /\ ~ Expected(e, s, MinuteStart(t) - Minute)
  BY <1>1 DEF Expected, Time
<1>4. Steady(e, s, l, t, d)
  BY DEF Steady, Time
<1> QED  BY <1>2, <1>3, <1>4 DEF Timely, ThisMinute, LastMinute

\* A second passes.
LEMMA Waited ==
    ASSUME NEW e \in Entry, NEW s, NEW a, NEW l, NEW t, Time(s, a, l, t),
           NEW d \in Nat, d < PollEvery + Slack,
           Kept(e, s, a, l, t), Timely(e, s, a, l, t, d)
    PROVE  Timely(e, s, a, l, t + 1, d + 1)
<1> DEFINE c == MinuteStart(t)
<1>1. c \in Nat /\ c <= t /\ t < c + Minute /\ Minute \in Nat \ {0} /\ d + 1 <= Minute
  BY MinuteHolds, Numbers DEF Time
<1>2. t \in Nat /\ t + 1 \in Nat /\ s \in Nat /\ l \in Nat /\ a \in Int
      /\ (t + 1) - (d + 1) = t - d
  BY DEF Time, Never
<1>3. ThisMinute(e, s, a, t, d) /\ LastMinute(e, s, a, t) /\ Steady(e, s, l, t, d)
  BY DEF Timely
<1>4. Steady(e, s, l, t + 1, d + 1)
  <2>1. \A u \in s .. t : u \in s .. t + 1
    BY <1>2
  <2> QED  BY <1>2, <1>3, <2>1 DEF Steady
<1>5. CASE t + 1 < c + Minute
  <2>1. MinuteStart(t + 1) = c
    <3>1. MinuteOf(t + 1) = MinuteOf(t)
      BY <1>1, <1>2, <1>5, SameMinute
    <3> QED  BY <3>1 DEF MinuteStart
  <2>2. ThisMinute(e, s, a, t + 1, d + 1)
    BY <1>2, <1>3, <2>1 DEF ThisMinute
  <2>3. LastMinute(e, s, a, t + 1)
    BY <1>3, <2>1 DEF LastMinute
  <2> QED  BY <1>4, <2>2, <2>3 DEF Timely
<1>6. CASE t + 1 = c + Minute
  <2>1. MinuteStart(t + 1) = c + Minute
    <3>1. MinuteOf(t) \in Nat /\ c = Minute * MinuteOf(t)
      BY <1>2, MinuteHolds DEF MinuteStart
    <3>2. Minute * (MinuteOf(t) + 1) = c + Minute
      BY <1>1, <3>1
    <3>3. MinuteOf(t + 1) = MinuteOf(t) + 1
      <4>1. Minute * (MinuteOf(t) + 1) <= t + 1
            /\ t + 1 < Minute * (MinuteOf(t) + 1) + Minute
            /\ MinuteOf(t) + 1 \in Nat
        BY <1>1, <1>2, <1>6, <3>1, <3>2
      <4> QED  BY <1>1, <1>2, <4>1, Quotient DEF MinuteOf
    <3> QED  BY <3>2, <3>3 DEF MinuteStart
  <2>2. ThisMinute(e, s, a, t + 1, d + 1)
    BY <1>1, <1>2, <1>6, <2>1 DEF ThisMinute
  <2>3. MinuteStart(t + 1) - Minute = c /\ c <= t - d
    BY <1>1, <1>2, <1>6, <2>1
  <2>4. LastMinute(e, s, a, t + 1)
    BY <1>3, <2>3 DEF LastMinute, ThisMinute
  <2> QED  BY <1>4, <2>2, <2>4 DEF Timely
<1> QED  BY <1>1, <1>2, <1>5, <1>6

\* The entry is applied.
LEMMA Applied ==
    ASSUME NEW e \in Entry, NEW s, NEW a, NEW l, NEW t, Time(s, a, l, t), Matches(e, t)
    PROVE  Kept(e, s, t, t, t) /\ Timely(e, s, t, t, t, 0)
<1>1. MinuteStart(t) \in Nat /\ MinuteStart(t) <= t /\ Minute \in Nat \ {0}
  BY MinuteHolds, Numbers DEF Time
<1> QED
  BY <1>1 DEF Kept, SlotKnows, SlotTrue, Timely, ThisMinute, LastMinute, Steady, Time

\* The entry is left alone by a poll: it does not match, or it is gated.
LEMMA Spared ==
    ASSUME NEW e \in Entry, NEW s, NEW a, NEW l, NEW t, Time(s, a, l, t),
           NEW d \in Nat, Kept(e, s, a, l, t), Timely(e, s, a, l, t, d),
           ~ Matches(e, t) \/ t < l + Minute
    PROVE  Timely(e, s, a, l, t, 0)
<1> DEFINE c == MinuteStart(t)
<1>1. c \in Nat /\ c <= t /\ t < c + Minute /\ Minute \in Nat \ {0}
  BY MinuteHolds, Numbers DEF Time
<1>2. t \in Nat /\ s \in Nat /\ l \in Nat /\ a \in Int /\ e.minute \in Int /\ t - 0 = t
  BY DEF Time, Never, Entry, Star
<1>3. Steady(e, s, l, t, 0)
  <2>1. CASE t < s
    BY <1>2, <2>1 DEF Steady
  <2>2. CASE s <= t
    <3>1. t \in s .. t
      BY <1>2, <2>2
    <3> QED  BY <1>2, <3>1 DEF Steady
  <2> QED  BY <1>2, <2>1, <2>2
<1>4. ThisMinute(e, s, a, t, 0)
  <2> SUFFICES ASSUME Expected(e, s, c) PROVE c <= a
    BY DEF ThisMinute
  <2>1. Matches(e, t) /\ s + Minute <= c /\ e.minute >= 0
    BY <1>2, StartInMinute DEF Expected
  <2>2. s < l /\ c - Minute <= l
    BY <1>1, <1>2, <2>1
  <2>3. a = l /\ Matches(e, l)
    BY <1>2, <2>2 DEF Kept, SlotTrue
  <2>4. ~ (l < c)
    BY <1>2, <2>1, <2>2, <2>3, OneOfTwo
  <2> QED  BY <1>1, <1>2, <2>3, <2>4
<1>5. LastMinute(e, s, a, t)
  BY DEF Timely
<1> QED  BY <1>3, <1>4, <1>5 DEF Timely

-------------------------------------------------------------------------------
(* The table *)

LEMMA Built ==
    ASSUME NEW S, NEW n \in Nat, NEW f, f \in [1 .. n -> S]
    PROVE  f \in Seq(S) /\ Len(f) = n /\ DOMAIN f = 1 .. n
<1>1. f \in Seq(S)
  BY SeqDef
<1> QED  BY <1>1, LenProperties

LEMMA Removed ==
    ASSUME NEW S, NEW s \in Seq(S), NEW k \in 1 .. Len(s)
    PROVE  /\ RemoveAt(s, k) \in Seq(S) /\ Len(RemoveAt(s, k)) = Len(s) - 1
           /\ \A i \in 1 .. Len(s) - 1 :
                 RemoveAt(s, k)[i] = IF i < k THEN s[i] ELSE s[i + 1]
<1> DEFINE u == SubSeq(s, 1, k - 1)
           v == SubSeq(s, k + 1, Len(s))
<1>1. Len(s) \in Nat /\ k \in Nat
  BY LenProperties
<1>2. u \in Seq(S) /\ Len(u) = k - 1 /\ \A i \in 1 .. k - 1 : u[i] = s[i]
  BY <1>1, SubSeqProperties
<1>3. v \in Seq(S) /\ Len(v) = Len(s) - k
      /\ \A i \in 1 .. Len(s) - k : v[i] = s[k + i]
  BY <1>1, SubSeqProperties
<1> HIDE DEF u, v
<1>4. /\ u \o v \in Seq(S) /\ Len(u \o v) = Len(s) - 1
      /\ \A i \in 1 .. Len(s) - 1 :
            (u \o v)[i] = IF i <= k - 1 THEN u[i] ELSE v[i - (k - 1)]
  <2>1. /\ u \o v \in Seq(S) /\ Len(u \o v) = Len(u) + Len(v)
        /\ \A i \in 1 .. Len(u) + Len(v) :
              (u \o v)[i] = IF i <= Len(u) THEN u[i] ELSE v[i - Len(u)]
    BY <1>2, <1>3, ConcatProperties
  <2>2. Len(u) = k - 1 /\ Len(u) + Len(v) = Len(s) - 1
    BY <1>1, <1>2, <1>3
  <2> QED  BY <2>1, <2>2
<1>5. ASSUME NEW i \in 1 .. Len(s) - 1
      PROVE  (u \o v)[i] = IF i < k THEN s[i] ELSE s[i + 1]
  <2>1. CASE i < k
    BY <1>1, <1>2, <1>4, <2>1
  <2>2. CASE ~ (i < k)
    <3>1. (u \o v)[i] = v[i - (k - 1)] /\ i - (k - 1) \in 1 .. Len(s) - k
      BY <1>1, <1>4, <2>2
    <3>2. v[i - (k - 1)] = s[k + (i - (k - 1))] /\ k + (i - (k - 1)) = i + 1
      BY <1>1, <1>3, <3>1
    <3> QED  BY <2>2, <3>1, <3>2
  <2> QED  BY <2>1, <2>2
<1> QED  BY <1>4, <1>5 DEF RemoveAt, u, v

\* The time from which an entry counts as undisturbed
LEMMA UndisturbedTyped ==
    ASSUME NEW i \in Slots, NEW t \in Nat, lastevent \in [Slots -> Nat]
    PROVE  /\ Undisturbed(i, t) \in Nat /\ t <= Undisturbed(i, t)
           /\ lastevent[i] <= Undisturbed(i, t)
<1> DEFINE S == {t, lastevent[i]}
<1>1. lastevent[i] \in Nat
  OBVIOUS
<1>2. \E x \in S : \A y \in S : x >= y
  BY <1>1
<1>3. Max(S) \in S /\ \A y \in S : Max(S) >= y
  BY <1>2 DEF Max
<1> QED  BY <1>1, <1>3 DEF Undisturbed

LEMMA TextRead ==
    ASSUME NEW text \in MaskText, NEW len \in Nat, NEW base \in {0, 1}
    PROVE  StrToBitmask(text, len, base) \subseteq 0 .. len - 1
<1> DEFINE Span(r) == ({r[1] - base} \cap (0 .. len - 1))
                        \cup (IF r[2] - base < len THEN r[1] - base + 1 .. r[2] - base
                              ELSE {})
<1>1. CASE text = All
  BY <1>1 DEF StrToBitmask
<1>2. CASE text # All
  <2>1. text \subseteq Nat \X Nat
    BY <1>2 DEF MaskText
  <2>2. StrToBitmask(text, len, base) = UNION {Span(r) : r \in text}
    BY <1>2 DEF StrToBitmask
  <2>3. ASSUME NEW r \in text PROVE Span(r) \subseteq 0 .. len - 1
    <3>1. r[1] \in Nat /\ r[2] \in Nat
      BY <2>1
    <3> QED  BY <3>1
  <2> HIDE DEF Span
  <2> QED  BY <2>2, <2>3
<1> QED  BY <1>1, <1>2

LEMMA EntryRead ==
    ASSUME NEW words \in Words, Accepted(words)
    PROVE  ParseTimerEvent(words) \in Entry
<1> DEFINE day == StrToBitmask(words.wday, 7, 0)
           bits == StrToBitmask(words.mask, OutputCount, 1)
<1>1. day \subseteq 0 .. 6
  <2>1. words.wday \in MaskText
    BY DEF Words
  <2> QED  BY <2>1, TextRead
<1>2. bits \subseteq Output
  <2>1. words.mask \in MaskText /\ OutputCount \in Nat
    BY Numbers DEF Words
  <2> QED  BY <2>1, TextRead DEF Output
<1> HIDE DEF day, bits
<1>3. ParseTimerEvent(words) = [words EXCEPT !.wday = day, !.mask = bits]
  BY DEF ParseTimerEvent, day, bits
<1> HIDE DEF MaskText
<1> QED  BY <1>1, <1>2, <1>3 DEF Words, Entry, Accepted

-------------------------------------------------------------------------------
(* Every step keeps the invariant. *)

LEMMA Places ==
    ASSUME Types
    PROVE  /\ DOMAIN events = 1 .. Len(events) /\ Len(events) \in 0 .. MaxEvents
           /\ \A i \in DOMAIN events :
                 /\ i \in Slots /\ events[i] \in Entry
                 /\ Time(since[i], applied[i], lastevent[i], now)
<1>1. DOMAIN events = 1 .. Len(events) /\ Len(events) \in 0 .. MaxEvents
      /\ 1 .. Len(events) \subseteq Slots
  BY Numbers, LenProperties DEF Types, Slots
<1>2. ASSUME NEW i \in 1 .. Len(events)
      PROVE  /\ events[i] \in Entry /\ since[i] \in Nat
             /\ applied[i] \in Nat \cup {Never} /\ lastevent[i] \in Nat
  BY <1>1, ElementOfSeq DEF Types
<1> QED  BY <1>1, <1>2 DEF Types, Time

LEMMA Starts == Init => Inv
<1> SUFFICES ASSUME Init PROVE Inv
  OBVIOUS
<1>1. running \in BOOLEAN /\ now \in Nat /\ idle = 0 /\ now >= Minute
  BY TimersAssumption DEF Init
<1>2. PICK start \in StartTable :
        events = [i \in DOMAIN start |-> ParseTimerEvent(start[i])]
  BY DEF Init
<1>3. start \in Seq(Words) /\ Len(start) <= MaxEvents
      /\ \A i \in DOMAIN start : Accepted(start[i])
  BY TimersAssumption
<1>4. DOMAIN start = 1 .. Len(start) /\ Len(start) \in Nat
  BY <1>3, LenProperties
<1>5. \A i \in 1 .. Len(start) : ParseTimerEvent(start[i]) \in Entry
  BY <1>3, <1>4, EntryRead, ElementOfSeq
<1>6. events \in [1 .. Len(start) -> Entry]
  BY <1>2, <1>4, <1>5
<1>7. events \in Seq(Entry) /\ Len(events) = Len(start) /\ DOMAIN events = 1 .. Len(start)
  BY <1>4, <1>6, Built
<1>8. /\ since \in [1 .. Len(start) -> Nat]
      /\ applied \in [1 .. Len(start) -> Nat \cup {Never}]
      /\ lastevent \in [Slots -> Nat]
  BY <1>1, <1>7 DEF Init
<1>9. /\ since \in Seq(Nat) /\ Len(since) = Len(events)
      /\ applied \in Seq(Nat \cup {Never}) /\ Len(applied) = Len(events)
  BY <1>4, <1>7, <1>8, Built
<1>10. Types
  BY <1>1, <1>3, <1>7, <1>8, <1>9, Numbers DEF Types
<1>11. ASSUME NEW i \in DOMAIN events
       PROVE  /\ Kept(events[i], since[i], applied[i], lastevent[i], now)
              /\ Timely(events[i], since[i], applied[i], lastevent[i], now, idle)
  <2>1. since[i] = now /\ applied[i] = Never /\ lastevent[i] = 0
    BY <1>10, Places DEF Init
  <2>2. events[i] \in Entry /\ Time(since[i], applied[i], lastevent[i], now)
    BY <1>10, Places
  <2> QED  BY <1>1, <2>1, <2>2, Disturbed DEF Never
<1> QED  BY <1>10, <1>11 DEF Inv, AllKept, AllTimely

\* Steps that leave the table and its slots alone, and go no further in time
LEMMA Unmoved ==
    ASSUME Inv, UNCHANGED <<clock, idle, table, lastevent>>
    PROVE  Inv'
BY DEF Inv, Types, AllKept, AllTimely, clock, table

LEMMA TickKeeps == Inv /\ Tick => Inv'
<1> SUFFICES ASSUME Inv, Tick PROVE Inv'
  OBVIOUS
<1>1. /\ idle' = idle + 1 /\ idle < PollEvery + Slack /\ now' = IF running THEN now + 1 ELSE now
      /\ UNCHANGED <<running, events, since, applied, lastevent>>
  BY DEF Tick, table
<1>2. now \in Nat /\ now' \in Nat /\ now <= now' /\ idle \in Nat
  BY <1>1, Numbers DEF Inv, Types
<1>3. Types'
  <2>1. idle' \in 0 .. PollEvery + Slack
    BY <1>1, <1>2, Numbers
  <2> QED  BY <1>1, <1>2, <2>1 DEF Inv, Types
<1>4. ASSUME NEW i \in DOMAIN events
      PROVE  Kept(events[i], since[i], applied[i], lastevent[i], now')
  <2>1. Kept(events[i], since[i], applied[i], lastevent[i], now)
        /\ Time(since[i], applied[i], lastevent[i], now)
    BY Places DEF Inv, AllKept
  <2> QED  BY <1>2, <2>1 DEF Kept, SlotKnows, Time, Never
<1>5. ASSUME running, NEW i \in DOMAIN events
      PROVE  Timely(events[i], since[i], applied[i], lastevent[i], now + 1, idle + 1)
  <2>1. /\ Kept(events[i], since[i], applied[i], lastevent[i], now)
        /\ Timely(events[i], since[i], applied[i], lastevent[i], now, idle)
        /\ events[i] \in Entry /\ Time(since[i], applied[i], lastevent[i], now)
    BY <1>5, Places DEF Inv, AllKept, AllTimely
  <2> QED  BY <1>1, <1>2, <2>1, Waited
<1>6. AllKept'
  BY <1>1, <1>4 DEF AllKept
<1>7. AllTimely'
  BY <1>1, <1>5 DEF AllTimely
<1> QED  BY <1>3, <1>6, <1>7 DEF Inv

LEMMA PollKeeps == Inv /\ Poll => Inv'
<1> SUFFICES ASSUME Inv, Poll PROVE Inv'
  OBVIOUS
<1> DEFINE due == IF running THEN Due ELSE {}
<1>1. /\ idle' = 0 /\ UNCHANGED <<running, now, events, since>>
      /\ lastevent' = [i \in Slots |-> IF i \in due THEN now ELSE lastevent[i]]
      /\ applied' = [i \in DOMAIN events |-> IF i \in due THEN now ELSE applied[i]]
  BY DEF Poll, clock
<1>2. Types
  BY DEF Inv
<1>3. due \subseteq DOMAIN events
  BY DEF Due
<1>4. ASSUME NEW i \in DOMAIN events
      PROVE  /\ i \in due => running /\ Matches(events[i], now)
             /\ running /\ i \notin due =>
                    ~ Matches(events[i], now) \/ now < lastevent[i] + Minute
  BY DEF Due, Gated
<1> HIDE DEF due
<1>5. Types'
  <2>1. applied' \in [1 .. Len(events) -> Nat \cup {Never}]
    BY <1>1, <1>2, Places DEF Types, Time
  <2>2. applied' \in Seq(Nat \cup {Never}) /\ Len(applied') = Len(events)
    BY <1>2, <2>1, Built, Places
  <2>3. lastevent' \in [Slots -> Nat]
    BY <1>1, <1>2 DEF Types
  <2> QED  BY <1>1, <1>2, <2>2, <2>3, Numbers DEF Types
<1>6. ASSUME NEW i \in DOMAIN events
      PROVE  /\ Kept(events[i], since[i], applied[i], lastevent[i], now)'
             /\ running => Timely(events[i], since[i], applied[i], lastevent[i], now, idle)'
  <2>1. /\ Kept(events[i], since[i], applied[i], lastevent[i], now)
        /\ running => Timely(events[i], since[i], applied[i], lastevent[i], now, idle)
        /\ i \in Slots /\ events[i] \in Entry /\ idle \in Nat
        /\ Time(since[i], applied[i], lastevent[i], now)
    BY <1>2, Places, Numbers DEF Inv, AllKept, AllTimely, Types
  <2>2. CASE i \in due
    <3>1. applied'[i] = now /\ lastevent'[i] = now
      BY <1>1, <2>1, <2>2
    <3>2. /\ Kept(events[i], since[i], now, now, now)
          /\ Timely(events[i], since[i], now, now, now, 0)
      BY <1>4, <2>1, <2>2, Applied
    <3> QED  BY <1>1, <3>1, <3>2
  <2>3. CASE i \notin due
    <3>1. applied'[i] = applied[i] /\ lastevent'[i] = lastevent[i]
      BY <1>1, <2>1, <2>3
    <3>2. ASSUME running
          PROVE  Timely(events[i], since[i], applied[i], lastevent[i], now, 0)
      BY <1>4, <2>1, <2>3, <3>2, Spared
    <3> QED  BY <1>1, <2>1, <3>1, <3>2
  <2> QED  BY <2>2, <2>3
<1> QED  BY <1>1, <1>5, <1>6 DEF Inv, AllKept, AllTimely

\* A step that leaves the clock and the slots alone keeps the invariant if each
\* entry of the new table was there undisturbed, or has just been disturbed.
LEMMA TableChanged ==
    ASSUME Inv, UNCHANGED <<clock, idle, lastevent>>, Types',
           \A i \in DOMAIN events' :
              \/ /\ i \in DOMAIN events /\ events'[i] = events[i]
                 /\ since'[i] = since[i] /\ applied'[i] = applied[i]
              \/ now <= since'[i] /\ lastevent[i] <= since'[i] /\ applied'[i] <= now
    PROVE  Inv'
<1>1. Types /\ now \in Nat /\ idle \in Nat /\ UNCHANGED <<running, now>>
  BY Numbers DEF Inv, Types, clock
<1>2. ASSUME NEW i \in DOMAIN events'
      PROVE  /\ Kept(events[i], since[i], applied[i], lastevent[i], now)'
             /\ running => Timely(events[i], since[i], applied[i], lastevent[i], now, idle)'
  <2>1. CASE /\ i \in DOMAIN events /\ events'[i] = events[i]
             /\ since'[i] = since[i] /\ applied'[i] = applied[i]
    BY <1>1, <2>1 DEF Inv, AllKept, AllTimely
  <2>2. CASE now <= since'[i] /\ lastevent[i] <= since'[i] /\ applied'[i] <= now
    <3>1. events'[i] \in Entry /\ Time(since'[i], applied'[i], lastevent'[i], now')
      <4>1. i \in 1 .. Len(events') /\ i \in Slots
        BY Numbers, LenProperties DEF Types, Slots
      <4> QED  BY <4>1, ElementOfSeq DEF Types, Time
    <3>2. /\ Kept(events'[i], since'[i], applied'[i], lastevent'[i], now')
          /\ Timely(events'[i], since'[i], applied'[i], lastevent'[i], now', idle)
      BY <1>1, <2>2, <3>1, Disturbed
    <3> QED  BY <1>1, <3>2
  <2> QED  BY <2>1, <2>2
<1> QED  BY <1>1, <1>2 DEF Inv, AllKept, AllTimely

LEMMA AddTimerKeeps ==
    ASSUME Inv, NEW words \in Definition, AddTimer(words)
    PROVE  Inv'
<1> DEFINE n == Len(events)
<1>1. /\ Accepted(words) /\ n < MaxEvents /\ words \in Words
      /\ events' = Append(events, ParseTimerEvent(words))
      /\ since' = Append(since, Undisturbed(n + 1, now))
      /\ applied' = Append(applied, Never)
      /\ UNCHANGED <<running, now, idle, lastevent>>
  BY TimersAssumption DEF AddTimer, clock
<1>2. Types /\ n \in Nat /\ n + 1 \in Slots
  BY <1>1, Places, Numbers DEF Inv, Slots
<1>3. /\ ParseTimerEvent(words) \in Entry
      /\ Undisturbed(n + 1, now) \in Nat /\ now <= Undisturbed(n + 1, now)
      /\ lastevent[n + 1] <= Undisturbed(n + 1, now)
  BY <1>1, <1>2, EntryRead, UndisturbedTyped DEF Types
<1>4. /\ events' \in Seq(Entry) /\ Len(events') = n + 1
      /\ \A i \in 1 .. n : events'[i] = events[i]
  BY <1>1, <1>2, <1>3, AppendProperties DEF Types
<1>5. /\ since' \in Seq(Nat) /\ Len(since') = n + 1
      /\ \A i \in 1 .. n : since'[i] = since[i]
      /\ since'[n + 1] = Undisturbed(n + 1, now)
  BY <1>1, <1>2, <1>3, AppendProperties DEF Types
<1>6. /\ applied' \in Seq(Nat \cup {Never}) /\ Len(applied') = n + 1
      /\ \A i \in 1 .. n : applied'[i] = applied[i]
      /\ applied'[n + 1] = Never
  BY <1>1, <1>2, AppendProperties DEF Types
<1>7. Types'
  <2>1. Len(events') <= MaxEvents
    BY <1>1, <1>2, <1>4, Numbers
  <2> QED  BY <1>1, <1>2, <1>4, <1>5, <1>6, <2>1 DEF Types
<1>8. ASSUME NEW i \in DOMAIN events'
      PROVE  \/ /\ i \in DOMAIN events /\ events'[i] = events[i]
                /\ since'[i] = since[i] /\ applied'[i] = applied[i]
             \/ now <= since'[i] /\ lastevent[i] <= since'[i] /\ applied'[i] <= now
  <2>1. DOMAIN events' = 1 .. n + 1 /\ DOMAIN events = 1 .. n /\ now \in Nat
    BY <1>2, <1>4, LenProperties DEF Types
  <2>2. CASE i \in 1 .. n
    BY <1>4, <1>5, <1>6, <2>1, <2>2
  <2>3. CASE i = n + 1
    BY <1>3, <1>5, <1>6, <2>1, <2>3 DEF Never
  <2> QED  BY <1>2, <2>1, <2>2, <2>3
<1> HIDE DEF n
<1> QED  BY <1>1, <1>7, <1>8, TableChanged DEF clock

LEMMA DeleteTimerKeeps ==
    ASSUME Inv, NEW k \in DOMAIN events, DeleteTimer(k)
    PROVE  Inv'
<1> DEFINE n == Len(events) - 1
<1>1. /\ events' = RemoveAt(events, k)
      /\ since' = [i \in 1 .. n |-> IF i < k THEN since[i] ELSE Undisturbed(i, now)]
      /\ applied' = RemoveAt(applied, k)
      /\ UNCHANGED <<running, now, idle, lastevent>>
  BY DEF DeleteTimer, clock
<1>2. /\ Types /\ k \in 1 .. Len(events) /\ n \in Nat /\ n < MaxEvents
      /\ DOMAIN events = 1 .. n + 1 /\ Len(events) = n + 1
      /\ \A i \in 1 .. n : i \in Slots /\ i \in DOMAIN events /\ i + 1 \in DOMAIN events
  BY Places, Numbers DEF Inv, Slots
<1>3. /\ events' \in Seq(Entry) /\ Len(events') = n
      /\ \A i \in 1 .. n : i < k => events'[i] = events[i]
  BY <1>1, <1>2, Removed DEF Types
<1>4. /\ applied' \in Seq(Nat \cup {Never}) /\ Len(applied') = n
      /\ \A i \in 1 .. n : applied'[i] = IF i < k THEN applied[i] ELSE applied[i + 1]
  <2>1. /\ applied \in Seq(Nat \cup {Never}) /\ Len(applied) = n + 1 /\ k \in 1 .. n + 1
        /\ Len(applied) - 1 = n
    BY <1>2 DEF Types
  <2> HIDE DEF n
  <2> QED  BY <1>1, <2>1, Removed
<1>5. \A i \in 1 .. n : /\ since[i] \in Nat /\ Undisturbed(i, now) \in Nat
                        /\ now <= Undisturbed(i, now)
                        /\ lastevent[i] <= Undisturbed(i, now)
  BY <1>2, Places, UndisturbedTyped DEF Types, Time
<1>6. since' \in [1 .. n -> Nat]
  BY <1>1, <1>5
<1>7. since' \in Seq(Nat) /\ Len(since') = n
  BY <1>2, <1>6, Built
<1>8. Types'
  <2>1. Len(events') <= MaxEvents
    BY <1>2, <1>3, Numbers
  <2> HIDE DEF n
  <2> QED  BY <1>1, <1>2, <1>3, <1>4, <1>7, <2>1 DEF Types
<1>9. ASSUME NEW i \in DOMAIN events'
      PROVE  \/ /\ i \in DOMAIN events /\ events'[i] = events[i]
                /\ since'[i] = since[i] /\ applied'[i] = applied[i]
             \/ now <= since'[i] /\ lastevent[i] <= since'[i] /\ applied'[i] <= now
  <2>1. i \in 1 .. n
    BY <1>3, LenProperties
  <2>2. CASE i < k
    BY <1>1, <1>2, <1>3, <1>4, <2>1, <2>2
  <2>3. CASE ~ (i < k)
    <3>1. applied'[i] = applied[i + 1] /\ since'[i] = Undisturbed(i, now)
      BY <1>1, <1>4, <2>1, <2>3
    <3>2. applied[i + 1] <= now
      <4>1. i + 1 \in DOMAIN events
        BY <1>2, <2>1
      <4> QED  BY <4>1 DEF Inv, AllKept, Kept, SlotKnows
    <3> QED  BY <1>5, <2>1, <3>1, <3>2
  <2> QED  BY <2>2, <2>3
<1> HIDE DEF n
<1> QED  BY <1>1, <1>8, <1>9, TableChanged DEF clock

LEMMA SetClockKeeps ==
    ASSUME Inv, NEW t \in ClockTime, SetClock(t)
    PROVE  Inv'
<1>1. /\ running' = TRUE /\ now' = t /\ t \in Nat
      /\ since' = [i \in DOMAIN events |-> Undisturbed(i, t)]
      /\ applied' = [i \in DOMAIN events |-> Never]
      /\ UNCHANGED <<idle, events, lastevent>>
  BY TimersAssumption DEF SetClock
<1>2. /\ Types /\ DOMAIN events = 1 .. Len(events) /\ Len(events) \in Nat /\ idle \in Nat
      /\ \A i \in DOMAIN events : i \in Slots
  BY Places, Numbers DEF Inv, Types
<1>3. \A i \in DOMAIN events : /\ Undisturbed(i, t) \in Nat /\ t <= Undisturbed(i, t)
                               /\ lastevent[i] <= Undisturbed(i, t)
  BY <1>1, <1>2, UndisturbedTyped DEF Types
<1>4. /\ since' \in [1 .. Len(events) -> Nat]
      /\ applied' \in [1 .. Len(events) -> Nat \cup {Never}]
  BY <1>1, <1>2, <1>3
<1>5. /\ since' \in Seq(Nat) /\ Len(since') = Len(events)
      /\ applied' \in Seq(Nat \cup {Never}) /\ Len(applied') = Len(events)
  BY <1>2, <1>4, Built
<1>6. Types'
  BY <1>1, <1>2, <1>5 DEF Types
<1>7. ASSUME NEW i \in DOMAIN events
      PROVE  /\ Kept(events[i], since[i], applied[i], lastevent[i], now)'
             /\ Timely(events[i], since[i], applied[i], lastevent[i], now, idle)'
  <2>1. /\ events[i] \in Entry /\ lastevent[i] \in Nat
        /\ since'[i] = Undisturbed(i, t) /\ applied'[i] = Never
    BY <1>1, <1>2, Places DEF Time
  <2>2. Time(since'[i], applied'[i], lastevent[i], t) /\ applied'[i] <= t
    BY <1>1, <1>3, <2>1 DEF Time, Never
  <2>3. /\ Kept(events[i], since'[i], applied'[i], lastevent[i], t)
        /\ Timely(events[i], since'[i], applied'[i], lastevent[i], t, idle)
    BY <1>2, <1>3, <2>1, <2>2, Disturbed
  <2> QED  BY <1>1, <2>3
<1> QED  BY <1>1, <1>6, <1>7 DEF Inv, AllKept, AllTimely

THEOREM Invariance == Spec => []Inv
<1>1. Init => Inv
  BY Starts
<1>2. Inv /\ [Next]_vars => Inv'
  <2> SUFFICES ASSUME Inv, [Next]_vars PROVE Inv'
    OBVIOUS
  <2>1. CASE Tick
    BY <2>1, TickKeeps
  <2>2. CASE Poll
    BY <2>2, PollKeeps
  <2>3. ASSUME NEW words \in Definition, AddTimer(words) PROVE Inv'
    BY <2>3, AddTimerKeeps
  <2>4. ASSUME NEW words \in Definition, RefuseTimer(words) PROVE Inv'
    BY <2>4, Unmoved DEF RefuseTimer
  <2>5. ASSUME NEW k \in DOMAIN events, DeleteTimer(k) PROVE Inv'
    BY <2>5, DeleteTimerKeeps
  <2>6. ASSUME NEW t \in ClockTime, SetClock(t) PROVE Inv'
    BY <2>6, SetClockKeeps
  <2>7. ASSUME NEW o \in Output, NEW v \in {0, 1}, WriteState(o, v) PROVE Inv'
    BY <2>7, Unmoved DEF WriteState
  <2>8. CASE UNCHANGED vars
    BY <2>8, Unmoved DEF vars
  <2> QED  BY <2>1, <2>2, <2>3, <2>4, <2>5, <2>6, <2>7, <2>8 DEF Next
<1> QED  BY <1>1, <1>2, PTL DEF Spec

-------------------------------------------------------------------------------
(***************************************************************************)
(* No minute is missed: for any table, clock and commands, an entry for a  *)
(* minute of the hour is applied in it, and one for every minute again     *)
(* within a minute and a poll (handle_timer_events, polled from main).     *)
(***************************************************************************)
THEOREM EveryMinuteServed == Spec => []NoMinuteMissed
<1> SUFFICES Inv => NoMinuteMissed
  BY Invariance, PTL
<1> SUFFICES ASSUME Inv, running, NEW i \in DOMAIN events
             PROVE  /\ events[i].minute >= 0 /\ Matches(events[i], MinuteStart(now) - Minute)
                            /\ since[i] + Minute <= MinuteStart(now) - Minute
                        => applied[i] >= MinuteStart(now) - Minute
                    /\ (\A t \in since[i] .. now : Matches(events[i], t))
                        => \/ now - lastevent[i] <= Minute + PollEvery + Slack
                           \/ now - since[i] <= Minute + PollEvery + Slack
  BY DEF NoMinuteMissed
<1>1. /\ Timely(events[i], since[i], applied[i], lastevent[i], now, idle)
      /\ Time(since[i], applied[i], lastevent[i], now)
      /\ now \in Nat /\ idle \in 0 .. PollEvery + Slack
  BY Places DEF Inv, AllTimely, Types
<1>2. MinuteStart(now) \in Nat
  BY <1>1, MinuteHolds
<1>3. /\ events[i].minute >= 0 /\ Matches(events[i], MinuteStart(now) - Minute)
              /\ since[i] + Minute <= MinuteStart(now) - Minute
          => applied[i] >= MinuteStart(now) - Minute
  BY <1>1, <1>2, Numbers DEF Timely, LastMinute, Expected, Time, Never
<1>4. (\A t \in since[i] .. now : Matches(events[i], t))
          => now - idle <= since[i] \/ now - idle < lastevent[i] + Minute
  BY <1>1 DEF Timely, Steady
<1>5. /\ now - idle <= since[i] => now - since[i] <= Minute + PollEvery + Slack
      /\ now - idle < lastevent[i] + Minute
            => now - lastevent[i] <= Minute + PollEvery + Slack
  BY <1>1, Numbers DEF Time
<1> QED  BY <1>3, <1>4, <1>5

(***************************************************************************)
(* An entry is applied at most once in a minute, unless in that very       *)
(* minute it changed slots or the clock was set (the gate of               *)
(* handle_timer_events, on times that belong to slots).                    *)
(***************************************************************************)
THEOREM AppliedOnce == Spec => OncePerMinute
<1>1. Inv /\ [Next]_vars =>
        [\A i \in DOMAIN events :
            /\ lastevent'[i] # lastevent[i]
            /\ since[i] < MinuteStart(now)
            => applied[i] < MinuteStart(now)]_vars
  <2> SUFFICES ASSUME Inv, Next, NEW i \in DOMAIN events,
                      lastevent'[i] # lastevent[i], since[i] < MinuteStart(now)
               PROVE  applied[i] < MinuteStart(now)
    OBVIOUS
  <2>1. Poll
    BY DEF Next, Tick, AddTimer, RefuseTimer, DeleteTimer, SetClock, WriteState
  <2>2. i \in Slots /\ Time(since[i], applied[i], lastevent[i], now)
        /\ Kept(events[i], since[i], applied[i], lastevent[i], now)
    BY Places DEF Inv, AllKept
  <2>3. ~ Gated(i)
    BY <2>1, <2>2 DEF Poll, Due
  <2>4. /\ MinuteStart(now) \in Nat /\ now < MinuteStart(now) + Minute
        /\ Minute \in Nat
    BY <2>2, MinuteHolds, Numbers DEF Time
  <2>5. lastevent[i] < MinuteStart(now)
    BY <2>2, <2>3, <2>4 DEF Gated, Time
  <2> QED  BY <2>2, <2>4, <2>5 DEF Kept, SlotKnows, Time, Never
<1> QED  BY <1>1, Invariance, PTL DEF Spec, OncePerMinute

-------------------------------------------------------------------------------
(* Masks *)

LEMMA MinOfNumbers ==
    ASSUME NEW S, S \subseteq Nat, S # {}
    PROVE  Min(S) \in S /\ \A x \in S : Min(S) <= x
<1>1. PICK x \in S : \A y \in S : x <= y
  BY LeastOfNumbers
<1> QED  BY <1>1 DEF Min

\* The largest of numbers that have a bound
LEMMA MaxOfBounded ==
    ASSUME NEW b \in Nat, NEW S, S \subseteq 0 .. b, S # {}
    PROVE  Max(S) \in S /\ \A x \in S : x <= Max(S)
<1> DEFINE D == {b - x : x \in S}
<1>1. D \subseteq Nat /\ D # {}
  <2>1. \A x \in S : b - x \in Nat
    OBVIOUS
  <2> QED  BY <2>1
<1>2. Min(D) \in D /\ \A y \in D : Min(D) <= y
  <2> HIDE DEF D
  <2> QED  BY <1>1, MinOfNumbers
<1>3. PICK x \in S : Min(D) = b - x
  BY <1>2
<1>4. \A y \in S : b - y \in D
  OBVIOUS
<1>5. ASSUME NEW y \in S PROVE x >= y
  <2>1. b - x <= b - y
    BY <1>2, <1>3, <1>4
  <2>2. x \in Nat /\ y \in Nat
    OBVIOUS
  <2> QED  BY <2>1, <2>2
<1> QED  BY <1>5 DEF Max

Runs(v) ==
    {q \in v \X v : /\ q[1] <= q[2] /\ q[1] .. q[2] \subseteq v
                    /\ q[1] - 1 \notin v /\ q[2] + 1 \notin v}

\* Every bit of a mask is in a run.
LEMMA BitInRun ==
    ASSUME NEW len \in Nat, NEW v, v \subseteq 0 .. len - 1, NEW x \in v
    PROVE  \E q \in Runs(v) : x \in q[1] .. q[2]
<1> DEFINE B == {y \in 0 .. x : y .. x \subseteq v}
           A == {y \in x .. len - 1 : x .. y \subseteq v}
           lo == Min(B)
           hi == Max(A)
<1>1. x \in Nat /\ x \in 0 .. len - 1 /\ x .. x = {x}
  OBVIOUS
<1>2. B \subseteq Nat /\ x \in B
  BY <1>1
<1>3. lo \in B /\ \A y \in B : lo <= y
  <2> HIDE DEF B
  <2> QED  BY <1>2, MinOfNumbers
<1>4. A \subseteq 0 .. len /\ x \in A
  BY <1>1
<1>5. hi \in A /\ \A y \in A : y <= hi
  <2> HIDE DEF A
  <2> QED  BY <1>4, MaxOfBounded
<1>6. lo \in 0 .. x /\ lo .. x \subseteq v /\ hi \in x .. len - 1 /\ x .. hi \subseteq v
  BY <1>3, <1>5
<1> HIDE DEF lo, hi
<1>7. lo .. hi \subseteq v /\ lo \in v /\ hi \in v /\ lo <= hi /\ x \in lo .. hi
  <2>1. lo \in lo .. x /\ hi \in x .. hi /\ lo <= hi /\ x \in lo .. hi
    BY <1>1, <1>6
  <2>2. \A y \in lo .. hi : y \in lo .. x \/ y \in x .. hi
    BY <1>1, <1>6
  <2> QED  BY <1>6, <2>1, <2>2
<1>8. lo - 1 \notin v
  <2> SUFFICES ASSUME lo - 1 \in v PROVE FALSE
    OBVIOUS
  <2>1. lo - 1 \in 0 .. x /\ \A y \in lo - 1 .. x : y = lo - 1 \/ y \in lo .. x
    BY <1>1, <1>6
  <2>2. lo - 1 \in B
    BY <1>6, <2>1
  <2> QED  BY <1>3, <1>6, <2>2
<1>9. hi + 1 \notin v
  <2> SUFFICES ASSUME hi + 1 \in v PROVE FALSE
    OBVIOUS
  <2>1. hi + 1 \in x .. len - 1 /\ \A y \in x .. hi + 1 : y = hi + 1 \/ y \in x .. hi
    BY <1>1, <1>6
  <2>2. hi + 1 \in A
    BY <1>6, <2>1
  <2> QED  BY <1>5, <1>6, <2>2
<1>10. <<lo, hi>> \in Runs(v)
  BY <1>7, <1>8, <1>9 DEF Runs
<1> QED  BY <1>7, <1>10

\* str_to_bitmask reads what bitmask_to_str wrote.
LEMMA MaskBack ==
    ASSUME NEW len \in Nat, NEW v, v \subseteq 0 .. len - 1, NEW base \in {0, 1}
    PROVE  StrToBitmask(BitmaskToStr(v, base), len, base) = v
<1> DEFINE Str(q) == <<q[1] + base, q[2] + base>>
           Span(r) == ({r[1] - base} \cap (0 .. len - 1))
                        \cup (IF r[2] - base < len THEN r[1] - base + 1 .. r[2] - base
                              ELSE {})
           R == {Str(q) : q \in Runs(v)}
<1>1. \A q \in Runs(v) : /\ q[1] \in 0 .. len - 1 /\ q[2] \in 0 .. len - 1
                         /\ q[1] <= q[2] /\ q[1] .. q[2] \subseteq v
  BY DEF Runs
<1>2. BitmaskToStr(v, base) = R
  BY DEF BitmaskToStr, Runs
<1>3. R # All
  <2>1. ASSUME NEW q \in Runs(v) PROVE Str(q) # <<-1, -1>>
    <3>1. q[1] + base # -1
      BY <1>1
    <3> QED  BY <3>1
  <2>2. <<-1, -1>> \notin R
    BY <2>1
  <2> QED  BY <2>2 DEF All
<1>4. StrToBitmask(R, len, base) = UNION {Span(r) : r \in R}
  BY <1>3 DEF StrToBitmask
<1>5. ASSUME NEW q \in Runs(v) PROVE Span(Str(q)) = q[1] .. q[2]
  <2>1. q[1] \in 0 .. len - 1 /\ q[2] \in 0 .. len - 1 /\ q[1] <= q[2]
    BY <1>1
  <2>2. Str(q)[1] - base = q[1] /\ Str(q)[2] - base = q[2]
    BY <2>1
  <2>3. Span(Str(q)) = {q[1]} \cup (q[1] + 1 .. q[2])
    BY <2>1, <2>2
  <2>4. {q[1]} \cup (q[1] + 1 .. q[2]) = q[1] .. q[2]
    BY <2>1
  <2> QED  BY <2>3, <2>4
<1> HIDE DEF Span, Str
<1>6. UNION {Span(r) : r \in R} \subseteq v
  BY <1>1, <1>5
<1>7. ASSUME NEW x \in v PROVE x \in UNION {Span(r) : r \in R}
  <2>1. PICK q \in Runs(v) : x \in q[1] .. q[2]
    BY BitInRun
  <2>2. x \in Span(Str(q)) /\ Str(q) \in R
    BY <1>5, <2>1
  <2> QED  BY <2>2
<1> QED  BY <1>2, <1>4, <1>6, <1>7


\* A text that says all stands for all.
LEMMA AllRead == ASSUME NEW len, NEW base PROVE StrToBitmask(All, len, base) = 0 .. len - 1
BY DEF StrToBitmask

\* The text of a mask is a text, and not empty.
LEMMA TextWritten ==
    ASSUME NEW len \in Nat, NEW v, v \subseteq 0 .. len - 1, v # {}, NEW base \in {0, 1}
    PROVE  BitmaskToStr(v, base) # {}
<1>1. PICK x \in v : TRUE
  OBVIOUS
<1>2. PICK q \in Runs(v) : TRUE
  BY <1>1, BitInRun
<1>3. <<q[1] + base, q[2] + base>> \in BitmaskToStr(v, base)
  BY <1>2 DEF BitmaskToStr, Runs
<1> QED  BY <1>3

-------------------------------------------------------------------------------
(***************************************************************************)
(* What CONF:TIMERS? lists can be typed again: for any entry with outputs  *)
(* parse_timer_event_str makes of timer_event_str's line an entry that     *)
(* switches the same outputs at the same times.                            *)
(***************************************************************************)
THEOREM ListedEntriesComeBack == Spec => []ListingAddsBack
<1> SUFFICES Inv => ListingAddsBack
  BY Invariance, PTL
<1> SUFFICES ASSUME Inv, NEW i \in DOMAIN events, events[i].mask # {}
             PROVE  LET e == events[i]
                        words == TimerEventStr(e)
                        f == ParseTimerEvent(words)
                    IN  /\ Accepted(words)
                        /\ [f EXCEPT !.wday = {}] = [e EXCEPT !.wday = {}]
                        /\ \A day \in 0 .. 6 : OnDay(f, day) <=> OnDay(e, day)
  BY DEF ListingAddsBack
<1> DEFINE e == events[i]
           words == TimerEventStr(e)
           f == ParseTimerEvent(words)
<1>1. e \in Entry /\ e.mask # {}
  BY Places DEF Inv
<1>2. e.wday \subseteq 0 .. 7 - 1 /\ e.mask \subseteq 0 .. OutputCount - 1
      /\ OutputCount \in Nat
  BY <1>1, Numbers DEF Entry, Output
<1> HIDE DEF e
<1> DEFINE dayText == IF e.wday # {} THEN BitmaskToStr(e.wday, 0) ELSE All
           maskText == BitmaskToStr(e.mask, 1)
           day == IF e.wday # {} THEN e.wday ELSE 0 .. 6
<1>3. StrToBitmask(dayText, 7, 0) = day /\ dayText # {}
  <2>1. CASE e.wday # {}
    BY <1>2, <2>1, MaskBack, TextWritten
  <2>2. CASE e.wday = {}
    BY <2>2, AllRead DEF All
  <2> QED  BY <2>1, <2>2
<1>4. StrToBitmask(maskText, OutputCount, 1) = e.mask /\ maskText # {}
  BY <1>1, <1>2, MaskBack, TextWritten
<1>5. words = [e EXCEPT !.wday = dayText, !.mask = maskText]
  BY <1>1 DEF TimerEventStr
<1> HIDE DEF dayText, maskText, words
<1>6. f = [words EXCEPT !.wday = StrToBitmask(words.wday, 7, 0),
                        !.mask = StrToBitmask(words.mask, OutputCount, 1)]
  BY DEF ParseTimerEvent
<1>7. words.wday = dayText /\ words.mask = maskText /\ words.minute = e.minute
      /\ words.hour = e.hour /\ words.action = e.action
  BY <1>1, <1>5 DEF Entry
<1>8. Accepted(words)
  BY <1>1, <1>3, <1>4, <1>7 DEF Accepted, Entry
<1> HIDE DEF f, day
<1>9. f = [e EXCEPT !.wday = day]
  BY <1>1, <1>3, <1>4, <1>5, <1>6, <1>7 DEF Entry
<1>10. [f EXCEPT !.wday = {}] = [e EXCEPT !.wday = {}]
  BY <1>1, <1>9 DEF Entry
<1>11. f.wday = day
  BY <1>1, <1>9 DEF Entry
<1>12. \A d \in 0 .. 6 : OnDay(f, d) <=> OnDay(e, d)
  BY <1>11 DEF OnDay, day
<1> QED  BY <1>8, <1>10, <1>12 DEF e, f, words
===============================================================================
