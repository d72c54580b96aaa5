----------------------------- MODULE OutputState -----------------------------
(***************************************************************************)
(* How a change of an output's PWM or power reaches its pin.  Commands,    *)
(* timers and lwIP's callbacks write system_state on core0; core0 copies   *)
(* it to transfer_state (update_core1_state), core1 copies that to its own *)
(* core1_state, and core1's effect tick writes the pin when the level it   *)
(* computes differs from the one it remembers (src/brickpico.c).           *)
(*                                                                         *)
(* The two copies exclude each other with state_mutex.  The callbacks take *)
(* no mutex: they interrupt core0 anywhere, also in the middle of a copy.  *)
(* Copies proceed field by field, all of pwm before all of pwr, as the     *)
(* arrays lie in struct brickpico_state.                                   *)
(*                                                                         *)
(* The web server answers from network_init on, before setup has written   *)
(* the defaults to the pins and main has copied the state for core1: its   *)
(* callbacks fall between the steps of the start, too.                     *)
(***************************************************************************)
EXTENDS Integers, FiniteSets

CONSTANTS
    OutputCount,    \* OUTPUT_COUNT
    MaxPwm,         \* largest duty cycle (100 in the program)
    Default,        \* default_pwm and default_state of each output
    MaxWrites       \* bound: changes of system_state

VARIABLES
    sys,        \* system_state
    xfer,       \* transfer_state
    c1,         \* core1_state
    mutex,      \* the holder of state_mutex, or Nobody
    pc0,        \* core0: "pin", "pwm", "pwr" and "main" in the start, then
                \* "idle", "enter" or "copy"
    pos0,       \* the output it sets up or the field it copies next
    pc1,        \* core1: "off" until it is launched, then "idle" or "copy"
    pos1,
    hw,         \* the level on each pin
    cache,      \* core1_main's pwm[]: the level it believes is there
    ticked,     \* core1's first effect tick is done
    writes,     \* number of changes so far
    whole,      \* auxiliary: the last completed transfer
    got,        \* auxiliary: the transfer core1 took last (main's copy at first)
    early       \* auxiliary: the outputs a callback changed after setup had
                \* set their pins and before main had copied them, until core1
                \* writes the pin

core0 == <<xfer, pc0, pos0, whole>>
core1 == <<c1, pc1, pos1, hw, cache, ticked, got>>
vars == <<sys, core0, core1, mutex, writes, early>>

Nobody == "nobody"
Output == 1 .. OutputCount
Field == 1 .. 2 * OutputCount       \* pwm of each output, then pwr of each
Pwm(o) == o
Pwr(o) == OutputCount + o
Values(f) == IF f <= OutputCount THEN 0 .. MaxPwm ELSE {0, 1}
State == {s \in [Field -> 0 .. MaxPwm] : \A f \in Field : s[f] \in Values(f)}
Cleared == [f \in Field |-> 0]      \* clear_state

ASSUME OutputAssumption ==
    /\ OutputCount \in Nat \ {0} /\ MaxPwm \in Nat \ {0} /\ MaxWrites \in Nat
    /\ Default \in State

\* light_effect for an output without an effect
Level(s, o) == IF s[Pwr(o)] = 1 THEN s[Pwm(o)] ELSE 0

\* main clears the states; network_init has started the web server, and setup
\* is about to enter its loop over the outputs, whose pins are still dark
Init ==
    /\ sys = Cleared /\ xfer = Cleared /\ c1 = Cleared
    /\ whole = Cleared /\ got = Cleared
    /\ hw = [o \in Output |-> 0] /\ cache = [o \in Output |-> 0]
    /\ mutex = Nobody
    /\ pc0 = "pin" /\ pos0 = 1 /\ pc1 = "off" /\ pos1 = 1
    /\ ticked = FALSE /\ writes = 0 /\ early = {}

-------------------------------------------------------------------------------
(* Writers of system_state *)

\* setup has yet to set up the outputs, or main to copy them
Starting == pc0 \in {"pin", "pwm", "pwr", "main"}

Change(s) ==
    /\ writes < MaxWrites /\ s # sys
    /\ sys' = s /\ writes' = writes + 1

\* cmd_write_pwm and cmd_write_state, from the console or an MQTT command:
\* update_core1_state follows at once
Command ==
    /\ pc0 = "idle" /\ pc1 # "off"
    /\ \E f \in Field : \E v \in Values(f) : Change([sys EXCEPT ![f] = v])
    /\ pc0' = "enter"
    /\ UNCHANGED <<xfer, pos0, whole, core1, mutex, early>>

\* handle_timer_events: the outputs of an event; nothing follows
Timer ==
    /\ pc0 = "idle" /\ pc1 # "off"
    /\ \E on \in {0, 1}, m \in SUBSET Output :
          Change([f \in Field |-> IF f - OutputCount \in m THEN on ELSE sys[f]])
    /\ UNCHANGED <<core0, core1, mutex, early>>

\* The web form and Home Assistant's ON: pwm, power or both, between any two
\* steps of core0, those of the start included; a form for several outputs is
\* several of these
Callback ==
    /\ \E o \in Output, p \in 0 .. MaxPwm, on \in {0, 1} :
          /\ Change([sys EXCEPT ![Pwm(o)] = p, ![Pwr(o)] = on])
          /\ early' = IF Starting THEN early \union {o} ELSE early
    /\ UNCHANGED <<core0, core1, mutex>>

-------------------------------------------------------------------------------
(* The start: setup's loop over the outputs, main's copy for core1 *)

\* set_pwm_duty_cycle with the default level (a linear duty cycle, where the
\* effect tick writes a lightness; the level stands for both)
SetupPin ==
    /\ pc0 = "pin"
    /\ hw' = [hw EXCEPT ![pos0] = Level(Default, pos0)]
    /\ pc0' = "pwm"
    /\ UNCHANGED <<sys, xfer, pos0, whole, c1, pc1, pos1, cache, ticked, got,
                   mutex, writes, early>>

\* What a callback has stored before is overwritten
SetupPwm ==
    /\ pc0 = "pwm"
    /\ sys' = [sys EXCEPT ![Pwm(pos0)] = Default[Pwm(pos0)]]
    /\ early' = early \ {pos0}
    /\ pc0' = "pwr"
    /\ UNCHANGED <<xfer, pos0, whole, core1, mutex, writes>>

SetupPwr ==
    /\ pc0 = "pwr"
    /\ sys' = [sys EXCEPT ![Pwr(pos0)] = Default[Pwr(pos0)]]
    /\ IF pos0 < OutputCount
       THEN pos0' = pos0 + 1 /\ pc0' = "pin"
       ELSE pos0' = 1 /\ pc0' = "main"
    /\ UNCHANGED <<xfer, whole, core1, mutex, writes, early>>

\* memcpy(&core1_state, &system_state), then update_core1_state
MainCopy ==
    /\ pc0 = "main"
    /\ IF pos0 \in Field
       THEN /\ c1' = [c1 EXCEPT ![pos0] = sys[pos0]]
            /\ pos0' = pos0 + 1 /\ pc0' = pc0
       ELSE pos0' = 1 /\ pc0' = "enter" /\ c1' = c1
    /\ UNCHANGED <<sys, xfer, whole, pc1, pos1, hw, cache, ticked, got, mutex,
                   writes, early>>

\* multicore_launch_core1: core1's memory of the pins is zero
Launch ==
    /\ pc0 = "idle" /\ pc1 = "off"
    /\ pc1' = "idle" /\ got' = c1
    /\ UNCHANGED <<sys, core0, c1, pos1, hw, cache, ticked, mutex, writes, early>>

-------------------------------------------------------------------------------
(* update_core1_state, on core0 *)

\* Each second, and before display_status
Tick ==
    /\ pc0 = "idle" /\ pc1 # "off" /\ pc0' = "enter"
    /\ UNCHANGED <<sys, xfer, pos0, whole, core1, mutex, writes, early>>

\* Mutant: no mutex
Enter0Unlocked ==
    /\ pc0 = "enter"
    /\ pc0' = "copy" /\ pos0' = 1
    /\ UNCHANGED <<sys, xfer, whole, core1, mutex, writes, early>>

\* mutex_enter_blocking(state_mutex)
Enter0 ==
    /\ pc0 = "enter" /\ mutex = Nobody
    /\ mutex' = "core0"
    /\ pc0' = "copy" /\ pos0' = 1
    /\ UNCHANGED <<sys, xfer, whole, core1, writes, early>>

\* Mutant: the arrays are copied in the wrong order
Copy0Crossed ==
    /\ pc0 = "copy" /\ pos0 \in Field
    /\ xfer' = [xfer EXCEPT ![pos0] =
                    sys[IF pos0 > OutputCount THEN pos0 - OutputCount
                        ELSE pos0 + OutputCount]]
    /\ pos0' = pos0 + 1
    /\ UNCHANGED <<sys, pc0, whole, core1, mutex, writes, early>>

Copy0 ==
    /\ pc0 = "copy" /\ pos0 \in Field
    /\ xfer' = [xfer EXCEPT ![pos0] = sys[pos0]]
    /\ pos0' = pos0 + 1
    /\ UNCHANGED <<sys, pc0, whole, core1, mutex, writes, early>>

Exit0 ==
    /\ pc0 = "copy" /\ pos0 \notin Field
    /\ mutex' = Nobody
    /\ pc0' = "idle" /\ pos0' = 1
    /\ whole' = xfer
    /\ UNCHANGED <<sys, xfer, core1, writes, early>>

-------------------------------------------------------------------------------
(* core1_main *)

\* Mutant: the state is read before the first effect tick
Enter1Early ==
    /\ pc1 = "idle" /\ mutex = Nobody
    /\ mutex' = "core1"
    /\ pc1' = "copy" /\ pos1' = 1
    /\ got' = whole
    /\ UNCHANGED <<sys, core0, c1, hw, cache, ticked, writes, early>>

\* Every 250ms: mutex_enter_timeout_us(state_mutex, 100) succeeds; when it
\* does not, core1 goes on without the copy.  The first effect tick is due
\* after 100ms and comes first.
Enter1 ==
    /\ pc1 = "idle" /\ mutex = Nobody /\ ticked
    /\ mutex' = "core1"
    /\ pc1' = "copy" /\ pos1' = 1
    /\ got' = whole
    /\ UNCHANGED <<sys, core0, c1, hw, cache, ticked, writes, early>>

Copy1 ==
    /\ pc1 = "copy" /\ pos1 \in Field
    /\ c1' = [c1 EXCEPT ![pos1] = xfer[pos1]]
    /\ pos1' = pos1 + 1
    /\ UNCHANGED <<sys, core0, pc1, hw, cache, ticked, got, mutex, writes, early>>

Exit1 ==
    /\ pc1 = "copy" /\ pos1 \notin Field
    /\ mutex' = Nobody
    /\ pc1' = "idle" /\ pos1' = 1
    /\ UNCHANGED <<sys, core0, c1, hw, cache, ticked, got, writes, early>>

\* Mutant: the tick forgets what it wrote
EffectTickForgetful ==
    /\ pc1 = "idle"
    /\ hw' = [o \in Output |->
                IF Level(c1, o) # cache[o] THEN Level(c1, o) ELSE hw[o]]
    /\ ticked' = TRUE
    /\ early' = early \ {o \in Output : Level(c1, o) # cache[o]}
    /\ UNCHANGED <<sys, core0, c1, pc1, pos1, cache, got, mutex, writes>>

\* Every 100ms, for outputs without an effect: write the pins that changed
EffectTick ==
    /\ pc1 = "idle"
    /\ hw' = [o \in Output |->
                IF Level(c1, o) # cache[o] THEN Level(c1, o) ELSE hw[o]]
    /\ cache' = [o \in Output |-> Level(c1, o)]
    /\ ticked' = TRUE
    /\ early' = early \ {o \in Output : Level(c1, o) # cache[o]}
    /\ UNCHANGED <<sys, core0, c1, pc1, pos1, got, mutex, writes>>

Next ==
    \/ SetupPin \/ SetupPwm \/ SetupPwr \/ MainCopy \/ Launch
    \/ Command \/ Timer \/ Callback
    \/ Tick \/ Enter0 \/ Copy0 \/ Exit0
    \/ Enter1 \/ Copy1 \/ Exit1 \/ EffectTick

\* Nothing in the start waits.  Both cores loop for ever, each task at its
\* period: core1 returns to the effect tick however often it copies.  Either
\* core finds the mutex free again and again, since the other one holds it only
\* while it copies.
Fairness ==
    /\ WF_vars(SetupPin \/ SetupPwm \/ SetupPwr \/ MainCopy \/ Launch)
    /\ WF_vars(Tick) /\ SF_vars(Enter0) /\ WF_vars(Copy0 \/ Exit0)
    /\ SF_vars(Enter1) /\ WF_vars(Copy1 \/ Exit1) /\ SF_vars(EffectTick)

Spec == Init /\ [][Next]_vars /\ Fairness

-------------------------------------------------------------------------------
TypeOK ==
    /\ {sys, xfer, c1, whole, got} \subseteq State
    /\ mutex \in {Nobody, "core0", "core1"}
    /\ pc0 \in {"pin", "pwm", "pwr", "main", "idle", "enter", "copy"}
    /\ pc1 \in {"off", "idle", "copy"}
    /\ pos0 \in 1 .. 2 * OutputCount + 1 /\ pos1 \in 1 .. 2 * OutputCount + 1
    /\ hw \in [Output -> 0 .. MaxPwm] /\ cache \in [Output -> 0 .. MaxPwm]
    /\ ticked \in BOOLEAN /\ writes \in 0 .. MaxWrites /\ early \subseteq Output

(***************************************************************************)
(* The state core1 works with is a whole transfer: core0 never changes     *)
(* transfer_state under core1's copy, so no output is shown with the pwm   *)
(* of one transfer and the power of another (state_mutex).  Until its      *)
(* first copy it works with the one main made for it.                      *)
(***************************************************************************)
CopiedWhole == pc1 = "idle" => c1 = got

\* Output o was switched off by a callback while the program started; its pin
\* keeps the level setup gave it, and core1 takes it to be dark
LeftLit(o) == o \in early /\ cache[o] = 0 /\ hw[o] = Level(Default, o)

(***************************************************************************)
(* What core1 remembers of the pins is what is on them, though it starts   *)
(* from zeroes while setup has already written the defaults: a level that  *)
(* core1 believes to be there is never left out wrongly.  The one          *)
(* exception is an output that a web request changed between setup's loop  *)
(* and main's copy, and only until core1 writes its pin for the first time *)
(***************************************************************************)
CacheTrue ==
    ticked => \A o \in Output : LeftLit(o) \/ (o \notin early /\ cache[o] = hw[o])

(***************************************************************************)
(* When the changes stop, every pin comes to show its output's PWM and     *)
(* power, and keeps showing it: whatever a callback tore, a timer left for *)
(* the next second or a missed mutex delayed is made good.  What is not    *)
(* made good is an output that a web request switched off in the start:    *)
(* when nothing lights it, its pin stays at the default level.             *)
(***************************************************************************)
Converges ==
    <>[](\A o \in Output :
            \/ hw[o] = Level(sys, o)
            \/ LeftLit(o) /\ Level(sys, o) = 0)

===============================================================================
