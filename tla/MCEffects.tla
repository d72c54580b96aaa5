------------------------------- MODULE MCEffects -------------------------------
(* The two modules about light effects in one run.  As modelled they share no *)
(* state, so a behaviour is one of either: the contexts on the heap, while    *)
(* the light stays dark, or the light, while no output has a context.         *)
EXTENDS EffectConfig, Effects

VARIABLE part

parts == <<vars, lightVars, part>>

\* Durations of none, two and three ticks, arguments that are missing, negative
\* or cannot be read, and a pulse without any length
ArgumentsC ==
    {<<>>, <<3>>, <<2, 3>>, <<0, 2>>, <<Unreadable, 2>>, <<Negative, 0>>,
     <<2, 0, 3, 1>>, <<0, 0, 0, 0>>, <<0, 2, 0, Unreadable>>}

NoLight == LightInit /\ kind = "none" /\ pwr = 0 /\ pwm = 0
NoContexts == Init /\ effect = [o \in Output |-> NoEffect]

InitEither ==
    \/ part = "contexts" /\ Init /\ NoLight
    \/ part = "light" /\ LightInit /\ NoContexts

NextEither ==
    /\ UNCHANGED part
    /\ \/ part = "contexts" /\ Next /\ UNCHANGED lightVars
       \/ part = "light" /\ LightNext /\ UNCHANGED vars

SpecEither == InitEither /\ [][NextEither]_parts /\ Fairness

===============================================================================
