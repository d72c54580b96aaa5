-------------------------------- MODULE Timers --------------------------------
(***************************************************************************)
(* The timer table (cron-like switching of outputs by the wall clock).     *)
(* The main loop polls it every ten seconds; an entry that matches the     *)
(* clock is applied unless its SLOT was applied less than a minute ago.    *)
(* Deleting an entry moves the later entries down one slot, but not the    *)
(* times kept per slot, and CONF:TIMERS commands, SYS:TIME and SNTP come   *)
(* between any two polls.                                                  *)
(*                                                                         *)
(* An entry is typed as words: minute, hour, weekdays, action, outputs and *)
(* those of a comment.  The words for days and outputs are texts of masks. *)
(***************************************************************************)
EXTENDS Bitmasks, SequencesExt

CONSTANTS
    OutputCount,        \* OUTPUT_COUNT
    Minute,             \* seconds in a minute, also the gate on a slot
    MinutesPerHour, HoursPerDay,
    PollEvery, Slack,   \* a poll comes PollEvery to PollEvery + Slack after
                        \* the one before
    MaxEvents,          \* MAX_EVENT_COUNT
    Definition,         \* the words an operator may add an entry with
    StartTable,         \* tables loaded from the configuration, in words
    ClockTime,          \* times the clock may start with or be set to
    MaxTime,            \* bound: the last second modelled
    MaxCommands         \* bound: commands

VARIABLES
    running, now,       \* the real time clock: started?, and its seconds
    idle,               \* seconds since t_timer, the last poll
    events,             \* conf->events[0 .. event_count - 1]
    lastevent,          \* lastevent[], by slot
    pwr,                \* brickpico_state->pwr
    since, applied,     \* history, by entry: undisturbed since, last applied
                        \* (Never: not since the clock was set)
    commands            \* commands so far

-----------------------------------------------------------------------------
(* parse_timer_event_str and timer_event_str *)

Output == 0 .. OutputCount - 1
Actions == {"on", "off"}

\* "*" for a minute or an hour; a word that is no number is as good as any
\* number out of range
Star == -1

\* The text of a mask; {} is a word that is missing
MaskText == {All} \cup SUBSET (Nat \X Nat)

Words ==
    [minute : Int, hour : Int, wday : MaskText, action : Actions \cup {"none"},
     mask : MaskText, name : Seq(STRING)]

\* The words are read one by one; the first that is not what it should be, or
\* the end before the outputs, refuses the entry.  A word for a mask is always
\* good: what it has out of range is left out.
Accepted(words) ==
    /\ words.minute \in {Star} \cup (0 .. MinutesPerHour - 1)
    /\ words.hour \in {Star} \cup (0 .. HoursPerDay - 1)
    /\ words.wday # {} /\ words.action \in Actions /\ words.mask # {}

ParseTimerEvent(words) ==
    [words EXCEPT !.wday = StrToBitmask(@, 7, 0),
                  !.mask = StrToBitmask(@, OutputCount, 1)]

\* What CONF:TIMERS? lists
TimerEventStr(e) ==
    [e EXCEPT !.wday = IF @ # {} THEN BitmaskToStr(@, 0) ELSE All,
              !.mask = IF @ # {} THEN BitmaskToStr(@, 1) ELSE All]

\* A table that the configuration holds was made by commands.
ASSUME TimersAssumption ==
    /\ Minute \in Nat \ {0} /\ MinutesPerHour \in Nat \ {0, 1}
    /\ HoursPerDay \in Nat \ {0} /\ PollEvery \in Nat \ {0} /\ Slack \in Nat
    /\ PollEvery + Slack <= Minute
    /\ OutputCount \in 1 .. 32
    /\ MaxEvents \in Nat \ {0} /\ MaxTime \in Nat /\ MaxCommands \in Nat
    /\ ClockTime \subseteq Minute .. MaxTime
    /\ Definition \subseteq Words
    /\ \A start \in StartTable :
           /\ start \in Seq(Words) /\ Len(start) <= MaxEvents
           /\ \A i \in DOMAIN start : Accepted(start[i])

-----------------------------------------------------------------------------
clock == <<running, now>>
table == <<events, since, applied>>
vars == <<clock, idle, table, lastevent, pwr, commands>>

Never == -1
Slots == 1 .. MaxEvents

\* localtime_r, by the number of the minute t is in; and when that minute began
MinuteOf(t) == t \div Minute
tm_min(t) == MinuteOf(t) % MinutesPerHour
tm_hour(t) == (MinuteOf(t) \div MinutesPerHour) % HoursPerDay
tm_wday(t) == ((MinuteOf(t) \div MinutesPerHour) \div HoursPerDay) % 7
MinuteStart(t) == Minute * MinuteOf(t)


-----------------------------------------------------------------------------
OnDay(e, day) == e.wday # {} => day \in e.wday

\* check_timer_event: -1 and the empty set of days match everything.
Matches(e, t) ==
    /\ e.minute >= 0 => e.minute = tm_min(t)
    /\ e.hour >= 0 => e.hour = tm_hour(t)
    /\ OnDay(e, tm_wday(t))

\* Variants of Gated: a gate too short, and one too long.
GatedHalfMinute(i) == now < lastevent[i] + Minute \div 2
GatedTwoMinutes(i) == now < lastevent[i] + 2 * Minute

\* The slot was applied less than a minute ago (or later than now, when the
\* clock was set back).
Gated(i) == now < lastevent[i] + Minute

Due == {i \in DOMAIN events : ~Gated(i) /\ Matches(events[i], now)}

\* An entry put in slot i, or a clock set, at t leaves the entry undisturbed
\* from then on; if the slot carries a later time, only from that time on.
Undisturbed(i, t) == Max({t, lastevent[i]})

-----------------------------------------------------------------------------
\* main reads the configuration; lastevent[] is all zeroes.
Init ==
    /\ running \in BOOLEAN /\ now \in ClockTime /\ idle = 0
    /\ \E start \in StartTable :
            events = [i \in DOMAIN start |-> ParseTimerEvent(start[i])]
    /\ lastevent = [i \in Slots |-> 0]
    /\ pwr \in [Output -> {0, 1}]
    /\ since = [i \in DOMAIN events |-> now]
    /\ applied = [i \in DOMAIN events |-> Never]
    /\ commands = 0

\* A second passes; the main loop reaches the poll within Slack.
Tick ==
    /\ now < MaxTime /\ idle < PollEvery + Slack
    /\ now' = IF running THEN now + 1 ELSE now
    /\ idle' = idle + 1
    /\ UNCHANGED <<running, table, lastevent, pwr, commands>>

\* handle_timer_events: nothing without a clock.  Due entries are applied in
\* the order of the table, so the last of them decides an output.
Poll ==
    /\ idle >= PollEvery
    /\ idle' = 0
    /\ LET due == IF running THEN Due ELSE {}
           on(o) == {i \in due : o \in events[i].mask}
       IN  /\ pwr' = [o \in Output |-> IF on(o) = {} THEN pwr[o]
                                       ELSE IF events[Max(on(o))].action = "on"
                                            THEN 1 ELSE 0]
           /\ lastevent' = [i \in Slots |->
                                IF i \in due THEN now ELSE lastevent[i]]
           /\ applied' = [i \in DOMAIN events |->
                                IF i \in due THEN now ELSE applied[i]]
    /\ UNCHANGED <<clock, events, since, commands>>

Command == commands < MaxCommands /\ commands' = commands + 1

\* cmd_timer_add; lastevent[] of the slot may still hold the time of an entry
\* deleted from it.
AddTimer(words) ==
    /\ Command
    /\ Accepted(words) /\ Len(events) < MaxEvents
    /\ events' = Append(events, ParseTimerEvent(words))
    /\ since' = Append(since, Undisturbed(Len(events) + 1, now))
    /\ applied' = Append(applied, Never)
    /\ UNCHANGED <<clock, idle, lastevent, pwr>>

RefuseTimer(words) ==
    /\ Command
    /\ ~Accepted(words) \/ Len(events) = MaxEvents
    /\ UNCHANGED <<clock, idle, table, lastevent, pwr>>

\* cmd_timer_del: the entries after k move down a slot.
DeleteTimer(k) ==
    /\ Command
    /\ events' = RemoveAt(events, k)
    /\ since' = [i \in 1 .. Len(events) - 1 |->
                    IF i < k THEN since[i] ELSE Undisturbed(i, now)]
    /\ applied' = RemoveAt(applied, k)
    /\ UNCHANGED <<clock, idle, lastevent, pwr>>

\* cmd_time and the SNTP callback set the clock, or start it.
SetClock(t) ==
    /\ Command
    /\ running' = TRUE /\ now' = t
    /\ since' = [i \in DOMAIN events |-> Undisturbed(i, t)]
    /\ applied' = [i \in DOMAIN events |-> Never]
    /\ UNCHANGED <<idle, events, lastevent, pwr>>

\* cmd_write_state: the operator switches an output by hand.
WriteState(o, v) ==
    /\ Command
    /\ pwr' = [pwr EXCEPT ![o] = v]
    /\ UNCHANGED <<clock, idle, table, lastevent>>

Next ==
    \/ Tick
    \/ Poll
    \/ \E words \in Definition : AddTimer(words) \/ RefuseTimer(words)
    \/ \E k \in DOMAIN events : DeleteTimer(k)
    \/ \E t \in ClockTime : SetClock(t)
    \/ \E o \in Output, v \in {0, 1} : WriteState(o, v)

Spec == Init /\ [][Next]_vars

-----------------------------------------------------------------------------
\* An entry for one minute of the hour is never missed: when a whole minute
\* that it names has gone by, and for that minute and the one before nobody
\* set the clock or moved the entry to another slot (and the clock is not
\* behind the slot's time), the entry was applied in that minute, however
\* late the polls come within Slack.  An entry for every minute is applied
\* again within a minute and one poll (the minutes it is applied in drift: it
\* may skip one).
NoMinuteMissed ==
    running =>
        \A i \in DOMAIN events :
            LET m == MinuteStart(now) - Minute
                pace == Minute + PollEvery + Slack
            IN  /\ events[i].minute >= 0 /\ Matches(events[i], m)
                        /\ since[i] + Minute <= m
                    => applied[i] >= m
                /\ (\A t \in since[i] .. now : Matches(events[i], t))
                    => now - lastevent[i] <= pace \/ now - since[i] <= pace

\* An entry is applied at most once in a minute, so that what an operator
\* switches by hand afterwards stays switched; unless in that very minute
\* the entry changed slots or the clock was set.
OncePerMinute ==
    [][\A i \in DOMAIN events :
            /\ lastevent'[i] # lastevent[i]
            /\ since[i] < MinuteStart(now)
            => applied[i] < MinuteStart(now)]_vars

\* What CONF:TIMERS? lists can be typed again (an entry moves so from one
\* controller to another, or back after CONF:TIMERS:DEL): the entry switches
\* the same outputs at the same times.  Only an entry without outputs, which
\* is listed like one of all outputs, does not come back.
ListingAddsBack ==
    \A i \in DOMAIN events :
        LET e == events[i]
            words == TimerEventStr(e)
            f == ParseTimerEvent(words)
        IN  e.mask # {} =>
                /\ Accepted(words)
                /\ [f EXCEPT !.wday = {}] = [e EXCEPT !.wday = {}]
                /\ \A day \in 0 .. 6 : OnDay(f, day) <=> OnDay(e, day)

=============================================================================
