-------------------------------- MODULE Effects --------------------------------
(***************************************************************************)
(* The light effects of one output as core1 runs them (src/effects*.c):    *)
(* every 100ms, or somewhat later, the effect's function computes the      *)
(* level from its context, the time and core1's copy of the output's PWM   *)
(* and power.  Between two ticks core1 may have copied a new state or, with *)
(* a new configuration, a new effect (modules OutputState, EffectConfig).  *)
(*                                                                         *)
(* A tick is the unit of time.                                             *)
(***************************************************************************)
EXTENDS Integers, Sequences

CONSTANTS
    HalfSecond,     \* ticks in half a second (5 in the program)
    Arguments,      \* the arguments an effect may be configured with
    MaxPwm,
    Late,           \* a tick comes up to so much later
    MaxTime,        \* bound: the last tick
    MaxCopies       \* bound: changes of state or configuration

\* What an argument may be besides a duration
Unreadable == -2
Negative == -1

ASSUME EffectsAssumption ==
    /\ HalfSecond \in Nat \ {0} /\ MaxPwm \in Nat \ {0}
    /\ Arguments \subseteq Seq(Nat \cup {Unreadable, Negative})
    /\ Late \in Nat /\ MaxTime \in Nat /\ MaxCopies \in Nat

VARIABLES
    kind, context,  \* the output's effect, and its context
    pwr, pwm,       \* core1_state
    now,            \* the time of the last tick
    level,          \* what light_effect returned then
    done,           \* history: a tick has come since the last change
    since,          \* history: the last tick before that change
    edge,           \* history: the undisturbed tick that last switched the
                    \* light on or off, or Never
    copies

input == <<kind, pwr, pwm>>
lightVars == <<input, context, now, level, done, since, edge, copies>>

Never == -1
Kinds == {"none", "fade", "blink", "pulse"}
NoContext == [len |-> <<>>]

\* What division by zero may leave in a byte
AnyLevel == 0 .. MaxPwm + 1

-------------------------------------------------------------------------------
(* effect_parse_args: durations, a default for one that is negative or that   *)
(* is not there                                                               *)

Given(args, i) == i <= Len(args) /\ args[i] >= 0

\* fade and blink read no further when the first cannot be read
TwoArgs(args, default) ==
    LET stop == Len(args) > 0 /\ args[1] = Unreadable
    IN  [i \in 1 .. 2 |-> IF Given(args, i) /\ ~stop THEN args[i] ELSE default[i]]

\* pulse: where each section ends
FourArgs(args, default) ==
    LET len(i) == IF Given(args, i) THEN args[i] ELSE default[i]
    IN  <<len(1), len(1) + len(2), len(1) + len(2) + len(3),
          len(1) + len(2) + len(3) + len(4)>>

Idle(len) == [len |-> len, last |-> 0, mode |-> 0, start |-> 0]

EffectParseArgs(effect, args) ==
    CASE effect = "none"  -> NoContext
      [] effect = "fade"  -> Idle(TwoArgs(args, <<2 * HalfSecond, 2 * HalfSecond>>))
      [] effect = "blink" -> Idle(TwoArgs(args, <<HalfSecond, 3 * HalfSecond>>))
      [] effect = "pulse" ->
            [len |-> FourArgs(args, <<4 * HalfSecond, HalfSecond,
                                      4 * HalfSecond, HalfSecond>>)]

-------------------------------------------------------------------------------
(* The effects' functions: a level, and the context left behind *)

\* The context as a change of power, or the end of a phase, leaves it
Phase(c, mode, t) == [c EXCEPT !.last = pwr, !.mode = mode, !.start = t]

Result(l, c) == [level |-> l, ctx |-> c]

\* Mutant: the turn is noted, but not acted on
FadeTurnNoted(c, t) == Result(IF pwr = 1 THEN 0 ELSE pwm, Phase(c, c.mode, t))

\* effect_fade: 1 fading in, 2 on, 3 fading out, 4 off (0 from the start)
FadeTurn(c, t) ==
    IF pwr = 1 THEN Result(0, Phase(c, 1, t)) ELSE Result(pwm, Phase(c, 3, t))

FadeIn(c, d) ==
    IF d < c.len[1] THEN Result((pwm * d) \div c.len[1], c)
                    ELSE Result(pwm, [c EXCEPT !.mode = 2])

\* Mutant: the level rises
FadeOutRising(c, d) ==
    IF d < c.len[2] THEN Result((pwm * d) \div c.len[2], c)
                    ELSE Result(0, [c EXCEPT !.mode = 4])

FadeOut(c, d) ==
    IF d < c.len[2] THEN Result(pwm - (pwm * d) \div c.len[2], c)
                    ELSE Result(0, [c EXCEPT !.mode = 4])

Fade(c, t) ==
    IF c.last # pwr THEN FadeTurn(c, t)
    ELSE CASE c.mode = 1 -> FadeIn(c, t - c.start)
           [] c.mode = 2 -> Result(pwm, c)
           [] c.mode = 3 -> FadeOut(c, t - c.start)
           [] c.mode \in {0, 4} -> Result(0, c)

\* Mutant: the light goes out, its time runs on
BlinkOnRunning(c, t) ==
    IF t - c.start < c.len[1] THEN Result(pwm, c)
                              ELSE Result(0, [c EXCEPT !.mode = 0])

\* effect_blink: 1 lit, 0 dark
BlinkOn(c, t) ==
    IF t - c.start < c.len[1] THEN Result(pwm, c) ELSE Result(0, Phase(c, 0, t))

BlinkOff(c, t) ==
    IF t - c.start < c.len[2] THEN Result(0, c) ELSE Result(pwm, Phase(c, 1, t))

Blink(c, t) ==
    CASE pwr # c.last -> Result(pwr * pwm, Phase(c, pwr, t))
      [] pwr = c.last /\ pwr = 0 -> Result(0, c)
      [] pwr = c.last /\ pwr = 1 ->
            IF c.mode = 1 THEN BlinkOn(c, t) ELSE BlinkOff(c, t)

\* effect_pulse: where the time since boot falls among the sections
Pulse(c, t) ==
    LET end == c.len
        at == t % end[4]
    IN  Result(
            CASE pwr = 0 -> 0
              [] pwr = 1 /\ at < end[1] -> (pwm * at) \div end[1]
              [] pwr = 1 /\ at \in end[1] .. end[2] - 1 -> pwm
              [] pwr = 1 /\ at \in end[2] .. end[3] - 1 ->
                    pwm - (pwm * (at - end[2])) \div (end[3] - end[2])
              [] pwr = 1 /\ at >= end[3] -> 0,
            c)

LightEffect(t) ==
    CASE kind = "none"  -> Result(pwr * pwm, context)
      [] kind = "fade"  -> Fade(context, t)
      [] kind = "blink" -> Blink(context, t)
      [] kind = "pulse" -> Pulse(context, t)

-------------------------------------------------------------------------------
(* clear_state and setup: whatever is configured; core1 takes the pins for   *)
(* dark                                                                      *)
LightInit ==
    /\ kind \in Kinds
    /\ \E args \in Arguments : context = EffectParseArgs(kind, args)
    /\ pwr \in {0, 1} /\ pwm \in 0 .. MaxPwm
    /\ now = 0 /\ level = 0
    /\ done = FALSE /\ since = 0 /\ edge = Never /\ copies = 0

\* An effect is about to divide by zero: a pulse whose sections have no length
Divides == kind = "pulse" /\ pwr = 1 /\ context.len[4] = 0

Time(t) ==
    /\ now' = t /\ t <= MaxTime
    /\ edge' = CASE ~done -> Never
                 [] done /\ (level' > 0) # (level > 0) -> t
                 [] done /\ (level' > 0) = (level > 0) -> edge
    /\ done' = TRUE

\* The effect tick of core1_main
EffectTick ==
    \E t \in now + 1 .. now + 1 + Late :
        /\ ~Divides
        /\ level' = LightEffect(t).level /\ context' = LightEffect(t).ctx
        /\ Time(t)
        /\ UNCHANGED <<input, since, copies>>

DividingTick ==
    \E t \in now + 1 .. now + 1 + Late :
        /\ Divides
        /\ level' \in AnyLevel
        /\ Time(t)
        /\ UNCHANGED <<input, context, since, copies>>

Disturb ==
    /\ copies < MaxCopies /\ copies' = copies + 1
    /\ done' = FALSE /\ since' = now /\ edge' = Never

\* core1 copies a state in which the output's power, its PWM or both differ
CopyState ==
    /\ pwr' \in {0, 1} /\ pwm' \in 0 .. MaxPwm
    /\ <<pwr, pwm>>' # <<pwr, pwm>>
    /\ Disturb
    /\ UNCHANGED <<kind, context, now, level>>

\* core1 copies a configuration with another effect, or the same one anew
CopyConfig ==
    /\ kind' \in Kinds
    /\ \E args \in Arguments : context' = EffectParseArgs(kind', args)
    /\ Disturb
    /\ UNCHANGED <<pwr, pwm, now, level>>

LightNext == EffectTick \/ DividingTick \/ CopyState \/ CopyConfig

LightSpec == LightInit /\ [][LightNext]_lightVars

-------------------------------------------------------------------------------
(***************************************************************************)
(* However power, PWM and effect changed before, in the middle of a fade   *)
(* or of a blink: the first tick has an output that is off dark, and one   *)
(* without an effect at its PWM; a fade gets there in its time, counted    *)
(* from the first tick, and a tick late.  At no time does the level leave  *)
(* the range of the pin (but for a division by zero).                      *)
(***************************************************************************)
Settles ==
    /\ done /\ ~Divides => level \in 0 .. MaxPwm
    /\ LET length == IF kind # "fade" THEN 0
                     ELSE 1 + Late + (IF context.len[2 - pwr] = 0
                                      THEN 1 ELSE context.len[2 - pwr])
       IN  done /\ now - since >= length
               /\ (pwr = 1 => kind \in {"none", "fade"})
           => level = pwr * pwm

(***************************************************************************)
(* A fade has one direction: as long as nobody changes anything the level  *)
(* does not fall while the output is on, nor rise while it is off.         *)
(***************************************************************************)
FadeMonotone ==
    [][kind = "fade" /\ done /\ done' =>
        IF pwr = 1 THEN level' >= level ELSE level' <= level]_lightVars

(***************************************************************************)
(* A blinking output that nobody touches keeps its light on, and off, for  *)
(* the configured time from the tick that switched it, and no longer than  *)
(* to the first tick after it: late ticks do not add up.                   *)
(***************************************************************************)
BlinkKeepsTime ==
    [][kind = "blink" /\ pwr = 1 /\ pwm > 0 /\ done /\ done' /\ edge # Never =>
        LET lit == level > 0
            length == IF lit THEN context.len[1] ELSE context.len[2]
        IN  (level' > 0) = (IF now' - edge < length THEN lit ELSE ~lit)]_lightVars

===============================================================================
