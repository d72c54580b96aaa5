------------------------------ MODULE EffectProofs ------------------------------
(***************************************************************************)
(* Light effects, for any constants.  First their contexts on the heap     *)
(* (EffectConfig): each stays accounted for, and core1 copies no effect     *)
(* with another's context.  HeapAccounted says nothing of the time when     *)
(* core0 holds the mutex; the invariant does: who owns each context        *)
(* between any two stores of cmd_out_effect.                               *)
(*                                                                         *)
(* Then what they do with the light (Effects, from LightTypes on): the     *)
(* properties speak of an output some ticks after it was last touched, the *)
(* invariant of every tick: where in its fade or blink the effect is, from *)
(* its context and the time.                                               *)
(***************************************************************************)
EXTENDS EffectConfig, Effects, WellFoundedInduction, TLAPS

Types ==
    /\ effect \in [Output -> Effects] /\ ctx \in [Output -> Pointer]
    /\ heap \in [Addr -> Effects]
    /\ c1effect \in [Output -> Effects] /\ c1ctx \in [Output -> Pointer]
    /\ new \in Pointer /\ cmd.kind \in Effects
    /\ pc0 # "idle" => cmd.out \in Output
    /\ todo \in SUBSET Output

\* A core holds the mutex exactly while it is inside
Locks ==
    /\ pc0 \in {"idle", "parse", "effect", "free", "ctx", "exit"}
    /\ pc0 # "idle" <=> mutex = "core0"
    /\ pc1 = "copy" => mutex = "core1"

\* The output whose fields do not agree, while there is one
Unsettled(o) == pc0 \in {"free", "ctx"} /\ o = cmd.out

OfItsKind(e, c) ==
    IF e = NoEffect THEN c = Null ELSE c \in Addr /\ heap[c] = e

Settled == \A o \in Output : Unsettled(o) \/ OfItsKind(effect[o], ctx[o])

NotShared == \A o, p \in Output : ctx[o] = ctx[p] /\ ctx[o] # Null => o = p

\* new_ctx belongs to the command, until it is stored
Pending == pc0 \in {"effect", "free", "ctx"}

NewContext ==
    /\ Pending => OfItsKind(cmd.kind, new)
    /\ Pending => \A o \in Output : ctx[o] = new => new = Null
    /\ pc0 \in {"free", "ctx"} => effect[cmd.out] = cmd.kind

\* A context in use has an owner; the freed one of SetCtx's output has none
Owned ==
    \A a \in Addr : heap[a] # NoEffect <=>
        \/ Pending /\ new = a
        \/ \E o \in Output : ctx[o] = a /\ ~(pc0 = "ctx" /\ o = cmd.out)

Inv == Types /\ Locks /\ Settled /\ NotShared /\ NewContext /\ Owned

-------------------------------------------------------------------------------
\* Between commands the invariant is what HeapAccounted promises
LEMMA InvPaired ==
    Inv /\ mutex # "core0" => Paired
<1> SUFFICES ASSUME Inv, mutex # "core0" PROVE Paired
    OBVIOUS
<1>1. pc0 = "idle"
    BY DEF Inv, Locks
<1>2. \A o \in Output : IF effect[o] = NoEffect THEN ctx[o] = Null
                        ELSE ctx[o] \in Addr /\ heap[ctx[o]] = effect[o]
    BY <1>1 DEF Inv, Settled, Unsettled, OfItsKind
<1>3. \A a \in Addr : heap[a] # NoEffect <=> \E o \in Output : ctx[o] = a
    BY <1>1 DEF Inv, Owned, Pending
<1>4. \A o \in Output : ctx[o] \in Addr \cup {Null}
    BY DEF Inv, Types, Pointer
<1>5. {a \in Addr : heap[a] # NoEffect} = {ctx[o] : o \in Output} \ {Null}
    BY <1>3, <1>4, EffectAssumption
<1> QED BY <1>2, <1>5 DEF Inv, NotShared, Paired

\* main starts core1 with a configuration that agrees with itself
LEMMA InitInv ==
    Init => Inv
<1> SUFFICES ASSUME Init PROVE Inv
    OBVIOUS
<1> USE EffectAssumption
<1>1. pc0 = "idle" /\ pc1 = "idle" /\ mutex = Nobody /\ new = Null
      /\ cmd.kind = NoEffect /\ todo = {}
    BY DEF Init, NoCommand
<1>2. Types
    BY <1>1 DEF Init, Types, Effects, Pointer
<1>3. Locks
    BY <1>1 DEF Locks, Nobody
<1>4. \A o \in Output : OfItsKind(effect[o], ctx[o])
    BY DEF Init, Paired, OfItsKind
<1>5. Settled /\ NotShared
    BY <1>4 DEF Settled, Init, Paired, NotShared
<1>6. NewContext
    BY <1>1 DEF NewContext, Pending
<1>7. \A a \in Addr : heap[a] # NoEffect <=> a \in {ctx[o] : o \in Output} \ {Null}
    BY DEF Init, Paired
<1>8. Owned
    BY <1>1, <1>7 DEF Owned, Pending
<1> QED BY <1>2, <1>3, <1>5, <1>6, <1>8 DEF Inv

\* Each step leaves the invariant as it is; the four stores of the command need
\* the ownership
LEMMA StepInv ==
    Inv /\ [Next]_vars => Inv'
<1> SUFFICES ASSUME Inv, [Next]_vars PROVE Inv'
    OBVIOUS
<1> USE EffectAssumption
<1> USE DEF Inv
<1>1. ASSUME NEW o \in Output, NEW k \in Effects, LockConfig(o, k) PROVE Inv'
  <2> USE <1>1 DEF LockConfig
  <2>1. Types' /\ Locks'
      BY DEF Types, Locks, Nobody, core1
  <2>2. Settled' /\ NotShared'
      BY DEF Settled, Unsettled, OfItsKind, NotShared, core1
  <2>3. NewContext' /\ Owned'
      BY DEF NewContext, Owned, Pending
  <2> QED BY <2>1, <2>2, <2>3
<1>2. CASE ParseArgs
  <2> USE <1>2 DEF ParseArgs
  <2>1. Types'
      BY DEF Types, core1, Pointer, Effects
  <2>2. Locks' /\ NotShared'
      BY DEF Locks, core1, NotShared
  <2>3. CASE cmd.kind = NoEffect
    <3>1. Settled' /\ NewContext' /\ Owned'
        BY <2>3 DEF Settled, Unsettled, OfItsKind, NewContext, Owned, Pending, Types
    <3> QED BY <2>1, <2>2, <3>1
  <2>4. CASE cmd.kind # NoEffect
    <3>1. PICK a \in Addr : heap[a] = NoEffect /\ new' = a
                            /\ heap' = [heap EXCEPT ![a] = cmd.kind]
        BY <2>4
    <3>2. \A o \in Output : ctx[o] # a
        BY <3>1 DEF Owned
    <3>3. \A b \in Addr : heap'[b] = IF b = a THEN cmd.kind ELSE heap[b]
        BY <3>1 DEF Types
    <3>4. Settled'
        BY <3>2, <3>3 DEF Settled, Unsettled, OfItsKind
    <3>5. NewContext'
        BY <3>1, <3>2, <3>3 DEF NewContext, Pending, OfItsKind
    <3>6. Owned'
        BY <2>4, <3>1, <3>2, <3>3 DEF Owned, Pending
    <3> QED BY <2>1, <2>2, <3>4, <3>5, <3>6
  <2> QED BY <2>3, <2>4
<1>3. CASE ParseFails
  <2> USE <1>3 DEF ParseFails
  <2>1. Types' /\ Locks' /\ NotShared'
      BY DEF Types, Locks, core1, NotShared
  <2>2. Settled' /\ NewContext' /\ Owned'
      BY DEF Settled, Unsettled, OfItsKind, NewContext, Owned, Pending
  <2> QED BY <2>1, <2>2
<1>4. CASE SetEffect
  <2> USE <1>4 DEF SetEffect
  <2>1. cmd.out \in Output /\ cmd.kind \in Effects
      BY DEF Types
  <2>2. \A o \in Output : effect'[o] = IF o = cmd.out THEN cmd.kind ELSE effect[o]
      BY DEF Types
  <2>3. Types' /\ Locks' /\ NotShared'
      BY <2>1 DEF Types, Locks, core1, NotShared
  <2>4. Settled' /\ NewContext' /\ Owned'
      BY <2>1, <2>2 DEF Settled, Unsettled, OfItsKind, NewContext, Owned, Pending
  <2> QED BY <2>3, <2>4
<1>5. CASE FreeOld
  <2> USE <1>5 DEF FreeOld
  <2>1. cmd.out \in Output
      BY DEF Types
  <2>2. \A b \in Addr : heap'[b] = IF b = ctx[cmd.out] THEN NoEffect ELSE heap[b]
      OBVIOUS
  <2>3. Types' /\ Locks' /\ NotShared'
      BY <2>2 DEF Types, Locks, core1, NotShared, Effects
  <2>4. Settled'
      BY <2>1, <2>2 DEF Settled, Unsettled, OfItsKind, NotShared
  <2>5. NewContext'
      BY <2>1, <2>2 DEF NewContext, Pending, OfItsKind
  <2>6. Owned'
      BY <2>1, <2>2 DEF Owned, Pending, NotShared, NewContext, OfItsKind
  <2> QED BY <2>3, <2>4, <2>5, <2>6
<1>6. CASE SetCtx
  <2> USE <1>6 DEF SetCtx
  <2>1. cmd.out \in Output
      BY DEF Types
  <2>2. \A o \in Output : ctx'[o] = IF o = cmd.out THEN new ELSE ctx[o]
      BY DEF Types
  <2>3. Types' /\ Locks'
      BY <2>1 DEF Types, Locks, core1
  <2>4. Settled' /\ NewContext'
      BY <2>1, <2>2 DEF Settled, Unsettled, OfItsKind, NewContext, Pending
  <2>5. NotShared'
      BY <2>1, <2>2 DEF NotShared, NewContext, Pending
  <2>6. Owned'
      BY <2>1, <2>2 DEF Owned, Pending
  <2> QED BY <2>3, <2>4, <2>5, <2>6
<1>7. CASE UnlockConfig
  <2> USE <1>7 DEF UnlockConfig
  <2>1. Types' /\ Locks'
      BY DEF Types, Locks, core1, NoCommand, Effects, Pointer, Nobody
  <2>2. Settled' /\ NotShared'
      BY DEF Settled, Unsettled, OfItsKind, NotShared, core1
  <2>3. NewContext' /\ Owned'
      BY DEF NewContext, Owned, Pending
  <2> QED BY <2>1, <2>2, <2>3
<1>8. CASE StartCopy
  <2> USE <1>8 DEF StartCopy, core0
  <2>1. Types' /\ Locks'
      BY DEF Types, Locks, Nobody
  <2>2. Settled' /\ NotShared' /\ NewContext' /\ Owned'
      BY DEF Settled, Unsettled, OfItsKind, NotShared, NewContext, Owned, Pending
  <2> QED BY <2>1, <2>2
<1>9. ASSUME NEW o \in Output, CopyOutput(o) PROVE Inv'
  <2> USE <1>9 DEF CopyOutput, core0
  <2>1. Types' /\ Locks'
      BY DEF Types, Locks
  <2>2. Settled' /\ NotShared' /\ NewContext' /\ Owned'
      BY DEF Settled, Unsettled, OfItsKind, NotShared, NewContext, Owned, Pending
  <2> QED BY <2>1, <2>2
<1>10. CASE EndCopy
  <2> USE <1>10 DEF EndCopy, core0
  <2>1. Types' /\ Locks'
      BY DEF Types, Locks, Nobody
  <2>2. Settled' /\ NotShared' /\ NewContext' /\ Owned'
      BY DEF Settled, Unsettled, OfItsKind, NotShared, NewContext, Owned, Pending
  <2> QED BY <2>1, <2>2
<1>11. CASE UNCHANGED vars
  <2> USE <1>11 DEF vars, core0, core1
  <2>1. Types' /\ Locks'
      BY DEF Types, Locks
  <2>2. Settled' /\ NotShared' /\ NewContext' /\ Owned'
      BY DEF Settled, Unsettled, OfItsKind, NotShared, NewContext, Owned, Pending
  <2> QED BY <2>1, <2>2
<1> QED
    BY <1>1, <1>2, <1>3, <1>4, <1>5, <1>6, <1>7, <1>8, <1>9, <1>10, <1>11
    DEF Next, Core0Step, Core1Step

LEMMA Invariance ==
    Spec => []Inv
<1> QED BY InitInv, StepInv, PTL DEF Spec

-------------------------------------------------------------------------------
(***************************************************************************)
(* Between commands no context is leaked, freed twice or shared, however   *)
(* many commands there were and whichever allocations failed.              *)
(***************************************************************************)
THEOREM HeapStaysAccounted ==
    Spec => []HeapAccounted
<1>1. Inv => HeapAccounted
    BY InvPaired DEF HeapAccounted
<1> QED BY <1>1, Invariance, PTL

(***************************************************************************)
(* Whenever core1 copies an output's effect and context the two are one    *)
(* configured pair: a live context, made for that effect, of that output;  *)
(* and between copies core1 keeps what it has.                             *)
(***************************************************************************)
THEOREM CopiesStayPaired ==
    Spec => CopiedPaired
<1> USE EffectAssumption
<1>1. ASSUME Inv, NEW o \in Output, CopyOutput(o)
      PROVE  \A p \in Output :
                IF p \in todo \ todo'
                THEN OneConfigured(p, c1effect'[p], c1ctx'[p])
                ELSE c1effect'[p] = c1effect[p] /\ c1ctx'[p] = c1ctx[p]
  <2>1. Paired
      BY <1>1, InvPaired DEF CopyOutput, Inv, Locks
  <2>2. \A p \in Output :
            /\ c1effect'[p] = (IF p = o THEN effect[o] ELSE c1effect[p])
            /\ c1ctx'[p] = (IF p = o THEN ctx[o] ELSE c1ctx[p])
            /\ p \in todo \ todo' <=> p = o
      BY <1>1 DEF CopyOutput, Inv, Types
  <2>3. OneConfigured(o, effect[o], ctx[o])
      BY <2>1 DEF OneConfigured, Paired
  <2> QED BY <2>2, <2>3
<1>2. ASSUME Inv, [Next]_vars, ~\E o \in Output : CopyOutput(o)
      PROVE  UNCHANGED <<c1effect, c1ctx>> /\ todo \ todo' = {}
  <2>1. UNCHANGED <<c1effect, c1ctx>>
      BY <1>2 DEF Next, Core0Step, Core1Step, LockConfig, ParseArgs, ParseFails,
                  SetEffect, FreeOld, SetCtx, UnlockConfig, StartCopy, EndCopy,
                  vars, core0, core1
  <2>2. todo' = todo \/ todo' = Output
      BY <1>2 DEF Next, Core0Step, Core1Step, LockConfig, ParseArgs, ParseFails,
                  SetEffect, FreeOld, SetCtx, UnlockConfig, StartCopy, EndCopy,
                  vars, core0, core1
  <2> QED BY <1>2, <2>1, <2>2 DEF Inv, Types
<1>3. Inv /\ [Next]_vars =>
        [\A o \in Output :
          IF o \in todo \ todo'
          THEN OneConfigured(o, c1effect'[o], c1ctx'[o])
          ELSE c1effect'[o] = c1effect[o] /\ c1ctx'[o] = c1ctx[o]]_vars
  <2> SUFFICES ASSUME Inv, [Next]_vars
               PROVE  \A p \in Output :
                IF p \in todo \ todo'
                THEN OneConfigured(p, c1effect'[p], c1ctx'[p])
                ELSE c1effect'[p] = c1effect[p] /\ c1ctx'[p] = c1ctx[p]
      OBVIOUS
  <2>1. CASE \E o \in Output : CopyOutput(o)
      BY <1>1, <2>1
  <2>2. CASE ~\E o \in Output : CopyOutput(o)
      BY <1>2, <2>2
  <2> QED BY <2>1, <2>2
<1> QED BY <1>3, Invariance, PTL DEF Spec, CopiedPaired

-------------------------------------------------------------------------------
(* Arithmetic *)

LEMMA LeastOfNumbers ==
    ASSUME NEW S, S \subseteq Nat, S # {}
    PROVE  \E x \in S : \A y \in S : x <= y
<1>1. PICK x \in S : \A y \in S : ~ (<<y, x>> \in OpToRel(<, Nat))
  BY NatLessThanWellFounded, WFMin
<1>2. \A y \in S : ~ (y < x)
  BY <1>1 DEF OpToRel
<1>3. \A y \in S : x <= y
  BY <1>2
<1> QED  BY <1>3

\* A number between two multiples of a that follow each other
LEMMA Quotient ==
    ASSUME NEW a \in Nat \ {0}, NEW t \in Nat, NEW q \in Nat,
           a * q <= t, t < a * q + a
    PROVE  t \div a = q
OBVIOUS

LEMMA Between ==
    ASSUME NEW a \in Nat \ {0}, NEW t \in Nat
    PROVE  /\ t \div a \in Nat
           /\ a * (t \div a) <= t /\ t < a * (t \div a) + a
<1> DEFINE S == {k \in Nat : t < a * k}
<1>1. t + 1 \in S
  <2>1. \A k \in Nat : k <= a * k
    OBVIOUS
  <2>2. t + 1 <= a * (t + 1) /\ a * (t + 1) \in Nat
    BY <2>1
  <2> QED  BY <2>2
<1>2. PICK k \in S : \A x \in S : k <= x
  <2> HIDE DEF S
  <2>1. S \subseteq Nat
    BY DEF S
  <2> QED  BY <1>1, <2>1, LeastOfNumbers
<1>3. k \in Nat /\ k # 0 /\ t < a * k
  BY <1>2
<1>4. PICK q \in Nat : k = q + 1
  <2>1. k - 1 \in Nat /\ k = (k - 1) + 1
    BY <1>3
  <2> QED  BY <2>1
<1>5. q \notin S
  BY <1>2, <1>4
<1>6. a * q \in Nat /\ a * (q + 1) = a * q + a
  OBVIOUS
<1>7. a * q <= t /\ t < a * q + a
  BY <1>3, <1>4, <1>5, <1>6
<1>8. t \div a = q
  BY <1>7, Quotient
<1> QED  BY <1>7, <1>8

LEMMA TimesMonotone ==
    ASSUME NEW a \in Nat, NEW x \in Nat, NEW y \in Nat, x <= y
    PROVE  a * x <= a * y
<1>1. PICK d \in Nat : y = x + d
  <2>1. y - x \in Nat /\ y = x + (y - x)
    OBVIOUS
  <2> QED  BY <2>1
<1>2. a * (x + d) = a * x + a * d /\ a * d \in Nat /\ a * x \in Nat
  OBVIOUS
<1> QED  BY <1>1, <1>2

\* Part d of a ramp of length n up to p, and a later part
LEMMA Ramp ==
    ASSUME NEW n \in Nat \ {0}, NEW p \in Nat, NEW d \in Nat, NEW e \in Nat, d <= e
    PROVE  /\ (p * d) \div n \in Nat
           /\ (p * d) \div n <= (p * e) \div n
           /\ d <= n => (p * d) \div n <= p
           /\ (p * 0) \div n = 0
<1> DEFINE u == (p * d) \div n
           v == (p * e) \div n
<1>1. p * d \in Nat /\ p * e \in Nat /\ p * d <= p * e /\ p * 0 = 0
  BY TimesMonotone
<1>2. /\ u \in Nat /\ n * u <= p * d /\ p * d < n * u + n
      /\ v \in Nat /\ n * v <= p * e /\ p * e < n * v + n
  BY <1>1, Between
<1> HIDE DEF u, v
<1>3. u <= v
  <2> SUFFICES ASSUME v + 1 <= u PROVE FALSE
    BY <1>2
  <2>1. n * (v + 1) <= n * u /\ n * (v + 1) = n * v + n /\ n * u \in Nat /\ n * v \in Nat
    BY <1>2, TimesMonotone
  <2> QED  BY <1>1, <1>2, <2>1
<1>4. ASSUME d <= n PROVE u <= p
  <2> SUFFICES ASSUME p + 1 <= u PROVE FALSE
    BY <1>2
  <2>1. n * (p + 1) <= n * u /\ n * (p + 1) = n * p + n /\ n * u \in Nat /\ n * p \in Nat
    BY <1>2, TimesMonotone
  <2>2. p * d <= p * n /\ p * n = n * p
    BY <1>4, TimesMonotone
  <2> QED  BY <1>1, <1>2, <2>1, <2>2
<1>5. (p * 0) \div n = 0
  BY <1>1
<1> QED  BY <1>2, <1>3, <1>4, <1>5 DEF u, v

-------------------------------------------------------------------------------
(* The invariant of Effects *)

TwoLengths == [1 .. 2 -> Nat]

\* A context of fade or blink, at t
Timed(c, modes, t) ==
    /\ c = [len |-> c.len, last |-> c.last, mode |-> c.mode, start |-> c.start]
    /\ c.len \in TwoLengths /\ c.last \in {0, 1} /\ c.mode \in modes
    /\ c.start \in Nat /\ c.start <= t

FadeContext(c, t) ==
    /\ Timed(c, 0 .. 4, t)
    /\ IF c.last = 1 THEN c.mode \in {1, 2} ELSE c.mode \in {0, 3, 4}

BlinkContext(c, t) == Timed(c, {0, 1}, t)

PulseContext(c) ==
    /\ c = [len |-> c.len]
    /\ \A i \in 1 .. 4 : c.len[i] \in Nat
    /\ c.len[1] <= c.len[2] /\ c.len[2] <= c.len[3] /\ c.len[3] <= c.len[4]

Fits(k, c, t) ==
    /\ k = "fade" => FadeContext(c, t)
    /\ k = "blink" => BlinkContext(c, t)
    /\ k = "pulse" => PulseContext(c)

LightTypes ==
    /\ kind \in Kinds /\ pwr \in {0, 1} /\ pwm \in 0 .. MaxPwm
    /\ now \in Nat /\ level \in Int /\ done \in BOOLEAN
    /\ since \in Nat /\ since <= now /\ (~ done => since = now)

\* The part d of a fade of length n to the level w, and how long it takes at least
Share(w, n, d) == IF n = 0 THEN 0 ELSE (w * d) \div n
Takes(n) == IF n = 0 THEN 1 ELSE n

\* After a tick at t a fade with the level l is where its context says, and began
\* when it first could.
Faded(c, l, p, w, t) ==
    /\ c.last = p
    /\ c.start <= since + 1 + Late
    /\ c.mode = 1 => t - c.start < Takes(c.len[1]) /\ l = Share(w, c.len[1], t - c.start)
    /\ c.mode = 2 => l = w
    /\ c.mode = 3 =>
          t - c.start < Takes(c.len[2]) /\ l = w - Share(w, c.len[2], t - c.start)
    /\ c.mode \in {0, 4} => l = 0

\* The light is on in mode 1, and was switched when the mode began.
Blinked(c, l, p, w, e) ==
    /\ c.last = p
    /\ l = IF p = 1 /\ c.mode = 1 THEN w ELSE 0
    /\ p = 1 /\ w > 0 /\ e # Never => e = c.start

Shown ==
    /\ kind = "none" => level = pwr * pwm
    /\ kind = "fade" => Faded(context, level, pwr, pwm, now)
    /\ kind = "blink" => Blinked(context, level, pwr, pwm, edge)
    /\ kind = "pulse" /\ pwr = 0 => level = 0
    /\ ~ Divides => level \in 0 .. MaxPwm

LightInv == LightTypes /\ Fits(kind, context, now) /\ (done => Shown)

-------------------------------------------------------------------------------
(* Contexts *)

LEMMA GivenTyped ==
    ASSUME NEW args \in Arguments, NEW i \in Nat \ {0}, Given(args, i)
    PROVE  args[i] \in Nat
<1>1. args \in Seq(Nat \cup {Unreadable, Negative})
  BY EffectsAssumption
<1>2. i \in 1 .. Len(args) /\ args[i] >= 0
  BY <1>1 DEF Given
<1>3. args[i] \in Nat \cup {Unreadable, Negative}
  BY <1>1, <1>2
<1> QED  BY <1>2, <1>3 DEF Unreadable, Negative

\* A context of fade or blink, field by field
Timing(l, a, m, s) == [len |-> l, last |-> a, mode |-> m, start |-> s]

LEMMA Fields ==
    ASSUME NEW l, NEW a, NEW m, NEW s
    PROVE  /\ Timing(l, a, m, s).len = l /\ Timing(l, a, m, s).last = a
           /\ Timing(l, a, m, s).mode = m /\ Timing(l, a, m, s).start = s
BY DEF Timing

LEMMA Turned ==
    ASSUME NEW l, NEW a, NEW m, NEW s, NEW x, NEW t
    PROVE  Phase(Timing(l, a, m, s), x, t) = Timing(l, pwr, x, t)
<1> DEFINE c == Timing(l, a, m, s)
<1>1. Phase(c, x, t) = [[[c EXCEPT !.last = pwr] EXCEPT !.mode = x] EXCEPT !.start = t]
  BY Zenon DEF Phase
<1>2. [Timing(l, a, m, s) EXCEPT !.last = pwr] = Timing(l, pwr, m, s)
  BY DEF Timing
<1>3. [Timing(l, pwr, m, s) EXCEPT !.mode = x] = Timing(l, pwr, x, s)
  BY DEF Timing
<1>4. [Timing(l, pwr, x, s) EXCEPT !.start = t] = Timing(l, pwr, x, t)
  BY DEF Timing
<1> QED  BY Zenon, <1>1, <1>2, <1>3, <1>4

LEMMA Moved ==
    ASSUME NEW l, NEW a, NEW m, NEW s, NEW x
    PROVE  [Timing(l, a, m, s) EXCEPT !.mode = x] = Timing(l, a, x, s)
BY DEF Timing

LEMMA TimingFits ==
    ASSUME NEW l \in TwoLengths, NEW a \in {0, 1}, NEW m, NEW s \in Nat, NEW t \in Nat, s <= t,
           NEW modes, m \in modes
    PROVE  Timed(Timing(l, a, m, s), modes, t)
<1> DEFINE c == Timing(l, a, m, s)
<1>1. c.len = l /\ c.last = a /\ c.mode = m /\ c.start = s
  BY Fields
<1>2. c = [len |-> l, last |-> a, mode |-> m, start |-> s]
  BY DEF Timing
<1> HIDE DEF c
<1>3. Timed(c, modes, t)
  BY <1>1, <1>2 DEF Timed
<1> QED  BY <1>3 DEF c

LEMMA TimedIs ==
    ASSUME NEW c, NEW modes, NEW t, Timed(c, modes, t)
    PROVE  c = Timing(c.len, c.last, c.mode, c.start)
BY DEF Timed, Timing

LEMMA IdleTyped ==
    ASSUME NEW args \in Arguments, NEW a \in Nat, NEW b \in Nat, NEW t \in Nat
    PROVE  /\ FadeContext(Idle(TwoArgs(args, <<a, b>>)), t)
           /\ BlinkContext(Idle(TwoArgs(args, <<a, b>>)), t)
<1> DEFINE l == TwoArgs(args, <<a, b>>)
<1>1. l \in TwoLengths
  <2>1. \A i \in 1 .. 2 : <<a, b>>[i] \in Nat /\ (Given(args, i) => args[i] \in Nat)
    BY GivenTyped
  <2> QED  BY <2>1 DEF TwoArgs, TwoLengths
<1> HIDE DEF l
<1> DEFINE c == Timing(l, 0, 0, 0)
<1>2. Idle(l) = c
  BY DEF Idle, Timing
<1>3. c.last = 0 /\ c.mode = 0 /\ Timed(c, 0 .. 4, t) /\ Timed(c, {0, 1}, t)
  BY <1>1, Fields, TimingFits
<1> HIDE DEF c
<1> QED  BY <1>2, <1>3 DEF FadeContext, BlinkContext, l

LEMMA ParseFits ==
    ASSUME NEW k \in Kinds, NEW args \in Arguments, NEW t \in Nat
    PROVE  Fits(k, EffectParseArgs(k, args), t)
<1>1. HalfSecond \in Nat
  BY EffectsAssumption
<1>2. CASE k = "none"
  BY <1>2 DEF Fits
<1>3. CASE k = "fade"
  <2>1. 2 * HalfSecond \in Nat
    BY <1>1
  <2>2. EffectParseArgs(k, args) = Idle(TwoArgs(args, <<2 * HalfSecond, 2 * HalfSecond>>))
    BY <1>3 DEF EffectParseArgs
  <2> QED  BY <1>3, <2>1, <2>2, IdleTyped DEF Fits
<1>4. CASE k = "blink"
  <2>1. 3 * HalfSecond \in Nat
    BY <1>1
  <2>2. EffectParseArgs(k, args) = Idle(TwoArgs(args, <<HalfSecond, 3 * HalfSecond>>))
    BY <1>4 DEF EffectParseArgs
  <2> QED  BY <1>1, <1>4, <2>1, <2>2, IdleTyped DEF Fits
<1>5. CASE k = "pulse"
  <2> DEFINE default == <<4 * HalfSecond, HalfSecond, 4 * HalfSecond, HalfSecond>>
             len(i) == IF Given(args, i) THEN args[i] ELSE default[i]
             end == <<len(1), len(1) + len(2), len(1) + len(2) + len(3),
                      len(1) + len(2) + len(3) + len(4)>>
  <2>1. default[1] \in Nat /\ default[2] \in Nat /\ default[3] \in Nat /\ default[4] \in Nat
    BY <1>1
  <2> HIDE DEF default
  <2>2. len(1) \in Nat /\ len(2) \in Nat /\ len(3) \in Nat /\ len(4) \in Nat
    BY <2>1, GivenTyped
  <2>3. EffectParseArgs(k, args) = [len |-> end]
    BY <1>5 DEF EffectParseArgs, FourArgs, default
  <2> HIDE DEF len
  <2>4. /\ \A i \in 1 .. 4 : end[i] \in Nat
        /\ end[1] <= end[2] /\ end[2] <= end[3] /\ end[3] <= end[4]
    BY <2>2
  <2> HIDE DEF end
  <2> QED  BY <1>5, <2>3, <2>4 DEF Fits, PulseContext
<1> QED  BY <1>2, <1>3, <1>4, <1>5 DEF Kinds

LEMMA ShareBounds ==
    ASSUME NEW w \in Nat, NEW n \in Nat, NEW d \in Nat, NEW e \in Nat, d <= e
    PROVE  /\ Share(w, n, d) \in Nat /\ Share(w, n, d) <= Share(w, n, e)
           /\ d <= Takes(n) => Share(w, n, d) <= w
<1>1. CASE n = 0
  BY <1>1 DEF Share
<1>2. CASE n # 0
  <2>1. Takes(n) = n /\ n \in Nat \ {0}
    BY <1>2 DEF Takes
  <2>2. /\ (w * d) \div n \in Nat /\ (w * d) \div n <= (w * e) \div n
        /\ d <= n => (w * d) \div n <= w
    BY <2>1, Ramp
  <2> QED  BY <1>2, <2>1, <2>2 DEF Share
<1> QED  BY <1>1, <1>2

LEMMA ShareOfNone ==
    ASSUME NEW w \in Nat, NEW n \in Nat
    PROVE  Share(w, n, 0) = 0 /\ 0 < Takes(n)
<1>1. CASE n = 0
  BY <1>1 DEF Share, Takes
<1>2. CASE n # 0
  BY <1>2, Ramp DEF Share, Takes
<1> QED  BY <1>1, <1>2

-------------------------------------------------------------------------------
(* Ticks *)

\* What every tick does
Ticks(t) ==
    /\ t \in Nat /\ now < t /\ t <= now + 1 + Late /\ now' = t
    /\ UNCHANGED <<input, since>>
    /\ done' = TRUE
    /\ edge' = CASE ~done -> Never
                 [] done /\ (level' > 0) # (level > 0) -> t
                 [] done /\ (level' > 0) = (level > 0) -> edge

\* What a fade is to leave behind
FadeGoes(x, t) ==
    /\ FadeContext(x.ctx, t) /\ Faded(x.ctx, x.level, pwr, pwm, t)
    /\ x.level \in 0 .. MaxPwm

LEMMA FadeLeft ==
    ASSUME NEW l \in TwoLengths, NEW t \in Nat, NEW m \in 0 .. 4, NEW s \in Nat, NEW y \in 0 .. MaxPwm,
           pwr \in {0, 1}, s <= t, s <= since + 1 + Late,
           IF pwr = 1 THEN m \in {1, 2} ELSE m \in {0, 3, 4},
           m = 1 => t - s < Takes(l[1]) /\ y = Share(pwm, l[1], t - s),
           m = 2 => y = pwm,
           m = 3 => t - s < Takes(l[2]) /\ y = pwm - Share(pwm, l[2], t - s),
           m \in {0, 4} => y = 0
    PROVE  FadeGoes(Result(y, Timing(l, pwr, m, s)), t)
<1> DEFINE z == Timing(l, pwr, m, s)
           x == Result(y, z)
<1>1. z.len = l /\ z.last = pwr /\ z.mode = m /\ z.start = s /\ Timed(z, 0 .. 4, t)
  BY Fields, TimingFits
<1> HIDE DEF z
<1>2. x.level = y /\ x.ctx = z
  BY DEF Result
<1> HIDE DEF x
<1>3. FadeContext(z, t)
  BY <1>1 DEF FadeContext
<1>4. Faded(z, y, pwr, pwm, t)
  BY <1>1 DEF Faded
<1>5. FadeGoes(x, t)
  BY <1>2, <1>3, <1>4 DEF FadeGoes
<1> QED  BY <1>5 DEF x, z

LEMMA FadeStep ==
    ASSUME LightInv, kind = "fade", NEW t, Ticks(t)
    PROVE  FadeGoes(Fade(context, t), t)
<1> DEFINE l == context.len
           a == context.last
           m == context.mode
           s == context.start
<1>1. FadeContext(context, now) /\ (done => Faded(context, level, pwr, pwm, now))
  BY DEF LightInv, Fits, Shown
<1>2. /\ context = Timing(l, a, m, s)
      /\ l \in TwoLengths /\ a \in {0, 1} /\ m \in 0 .. 4 /\ s \in Nat /\ s <= now
      /\ IF a = 1 THEN m \in {1, 2} ELSE m \in {0, 3, 4}
  BY <1>1, TimedIs DEF FadeContext, Timed
<1>3. /\ pwm \in Nat /\ pwm \in 0 .. MaxPwm /\ 0 \in 0 .. MaxPwm /\ pwr \in {0, 1}
      /\ now \in Nat /\ t \in Nat /\ now < t /\ since \in Nat /\ since <= now
      /\ Late \in Nat /\ t <= now + 1 + Late /\ (~ done => since = now)
  BY EffectsAssumption DEF LightInv, LightTypes, Ticks
<1>4. l[1] \in Nat /\ l[2] \in Nat /\ t - s \in Nat /\ t - t = 0 /\ s <= t /\ t <= t
  BY <1>2, <1>3 DEF TwoLengths
<1>5. s <= since + 1 + Late /\ (done => a = pwr)
  BY <1>1, <1>2, <1>3 DEF Faded
<1>6. \A i \in {1, 2} :
         /\ Share(pwm, l[i], t - t) = 0 /\ 0 < Takes(l[i])
         /\ t - s < l[i] =>
               /\ t - s < Takes(l[i]) /\ Share(pwm, l[i], t - s) \in 0 .. MaxPwm
               /\ Share(pwm, l[i], t - s) = (pwm * (t - s)) \div l[i]
               /\ pwm - Share(pwm, l[i], t - s) \in 0 .. MaxPwm
  <2> TAKE i \in {1, 2}
  <2>1. l[i] \in Nat
    BY <1>4
  <2>2. Share(pwm, l[i], t - t) = 0 /\ 0 < Takes(l[i])
    BY <1>3, <1>4, <2>1, ShareOfNone
  <2>3. t - s <= t - s
    BY <1>4
  <2>4. ASSUME t - s < l[i]
        PROVE  /\ t - s < Takes(l[i])
               /\ Share(pwm, l[i], t - s) = (pwm * (t - s)) \div l[i]
    BY <1>4, <2>1, <2>4 DEF Takes, Share
  <2>5. ASSUME t - s < l[i]
        PROVE  Share(pwm, l[i], t - s) \in Nat /\ Share(pwm, l[i], t - s) <= pwm
    <3>1. t - s <= Takes(l[i])
      BY <1>4, <2>1, <2>4, <2>5 DEF Takes
    <3> QED  BY <1>3, <1>4, <2>1, <2>3, <3>1, ShareBounds
  <2>6. ASSUME NEW q \in Nat, q <= pwm
        PROVE  q \in 0 .. MaxPwm /\ pwm - q \in 0 .. MaxPwm
    BY <1>3, <2>6, EffectsAssumption
  <2> QED  BY <2>2, <2>4, <2>5, <2>6
<1> HIDE DEF l, a, m, s
<1>fields. context.len = l /\ context.last = a /\ context.mode = m /\ context.start = s
  BY DEF l, a, m, s
<1>7. CASE a # pwr /\ pwr = 1
  <2>1. Fade(context, t) = Result(0, Timing(l, pwr, 1, t))
    <3>1. Fade(context, t) = Result(0, Phase(context, 1, t))
      BY <1>fields, <1>7 DEF Fade, FadeTurn
    <3> QED  BY <1>2, <3>1, Turned
  <2>2. t <= since + 1 + Late
    BY <1>3, <1>5, <1>7
  <2>3. 0 = Share(pwm, l[1], t - t) /\ t - t < Takes(l[1])
    BY <1>4, <1>6
  <2> QED  BY <1>2, <1>3, <1>4, <1>7, <2>1, <2>2, <2>3, FadeLeft
<1>8. CASE a # pwr /\ pwr = 0
  <2>1. Fade(context, t) = Result(pwm, Timing(l, pwr, 3, t))
    <3>1. Fade(context, t) = Result(pwm, Phase(context, 3, t))
      BY <1>fields, <1>8 DEF Fade, FadeTurn
    <3> QED  BY <1>2, <3>1, Turned
  <2>2. t <= since + 1 + Late
    BY <1>3, <1>5, <1>8
  <2>3. pwm = pwm - Share(pwm, l[2], t - t) /\ t - t < Takes(l[2])
    BY <1>3, <1>4, <1>6
  <2> QED  BY <1>2, <1>3, <1>4, <1>8, <2>1, <2>2, <2>3, FadeLeft
<1>9. CASE a = pwr /\ m = 1
  <2>1. Fade(context, t) = FadeIn(context, t - s) /\ pwr = 1
    BY <1>2, <1>3, <1>fields, <1>9 DEF Fade
  <2>2. CASE t - s < l[1]
    <3>1. Fade(context, t) = Result(Share(pwm, l[1], t - s), Timing(l, pwr, 1, s))
      BY <1>2, <1>6, <1>fields, <1>9, <2>1, <2>2 DEF FadeIn
    <3>2. t - s < Takes(l[1]) /\ Share(pwm, l[1], t - s) \in 0 .. MaxPwm
      BY <1>6, <2>2
    <3> QED  BY <1>2, <1>3, <1>4, <1>5, <2>1, <3>1, <3>2, FadeLeft
  <2>3. CASE ~ (t - s < l[1])
    <3>1. Fade(context, t) = Result(pwm, [context EXCEPT !.mode = 2])
      BY <1>fields, <2>1, <2>3 DEF FadeIn
    <3>2. Fade(context, t) = Result(pwm, Timing(l, pwr, 2, s))
      BY <1>2, <1>9, <3>1, Moved
    <3> QED  BY <1>2, <1>3, <1>4, <1>5, <2>1, <3>2, FadeLeft
  <2> QED  BY <2>2, <2>3
<1>10. CASE a = pwr /\ m = 2
  <2>1. Fade(context, t) = Result(pwm, Timing(l, pwr, 2, s)) /\ pwr = 1
    BY <1>2, <1>3, <1>fields, <1>10 DEF Fade
  <2> QED  BY <1>2, <1>3, <1>4, <1>5, <2>1, FadeLeft
<1>11. CASE a = pwr /\ m = 3
  <2>1. Fade(context, t) = FadeOut(context, t - s) /\ pwr = 0
    BY <1>2, <1>3, <1>fields, <1>11 DEF Fade
  <2>2. CASE t - s < l[2]
    <3>1. Fade(context, t) = Result(pwm - Share(pwm, l[2], t - s), Timing(l, pwr, 3, s))
      BY <1>2, <1>6, <1>fields, <1>11, <2>1, <2>2 DEF FadeOut
    <3>2. t - s < Takes(l[2]) /\ pwm - Share(pwm, l[2], t - s) \in 0 .. MaxPwm
      BY <1>6, <2>2
    <3> QED  BY <1>2, <1>3, <1>4, <1>5, <2>1, <3>1, <3>2, FadeLeft
  <2>3. CASE ~ (t - s < l[2])
    <3>1. Fade(context, t) = Result(0, [context EXCEPT !.mode = 4])
      BY <1>fields, <2>1, <2>3 DEF FadeOut
    <3>2. Fade(context, t) = Result(0, Timing(l, pwr, 4, s))
      BY <1>2, <1>11, <3>1, Moved
    <3> QED  BY <1>2, <1>3, <1>4, <1>5, <2>1, <3>2, FadeLeft
  <2> QED  BY <2>2, <2>3
<1>12. CASE a = pwr /\ m \in {0, 4}
  <2>1. Fade(context, t) = Result(0, Timing(l, pwr, m, s)) /\ pwr = 0
    BY <1>2, <1>3, <1>fields, <1>12 DEF Fade
  <2> QED  BY <1>2, <1>3, <1>4, <1>5, <1>12, <2>1, FadeLeft
<1> QED  BY <1>2, <1>3, <1>7, <1>8, <1>9, <1>10, <1>11, <1>12

\* The fade goes on from where the last tick left it
LEMMA FadeOnward ==
    ASSUME LightInv, kind = "fade", done, NEW t, Ticks(t)
    PROVE  IF pwr = 1 THEN Fade(context, t).level >= level
                      ELSE Fade(context, t).level <= level
<1> DEFINE l == context.len
           m == context.mode
           s == context.start
           y == Fade(context, t).level
<1>1. /\ FadeContext(context, now) /\ Faded(context, level, pwr, pwm, now)
      /\ level \in Int
  BY DEF LightInv, Fits, Shown, LightTypes
<1>2. /\ context.last = pwr /\ m \in 0 .. 4 /\ s \in Nat /\ s <= now
      /\ l[1] \in Nat /\ l[2] \in Nat
      /\ IF pwr = 1 THEN m \in {1, 2} ELSE m \in {0, 3, 4}
  BY <1>1 DEF FadeContext, Timed, Faded, TwoLengths
<1>3. pwm \in Nat /\ pwr \in {0, 1} /\ now \in Nat /\ t \in Nat /\ now < t
  BY EffectsAssumption DEF LightInv, LightTypes, Ticks
<1>4. now - s \in Nat /\ t - s \in Nat /\ now - s <= t - s
  BY <1>2, <1>3
<1>5. \A i \in {1, 2} :
         /\ t - s < l[i] =>
               /\ Share(pwm, l[i], t - s) = (pwm * (t - s)) \div l[i]
               /\ Share(pwm, l[i], now - s) <= Share(pwm, l[i], t - s)
         /\ now - s < Takes(l[i]) => Share(pwm, l[i], now - s) <= pwm
         /\ Share(pwm, l[i], now - s) \in Nat /\ Share(pwm, l[i], t - s) \in Nat
  <2> TAKE i \in {1, 2}
  <2>1. l[i] \in Nat
    BY <1>2
  <2>2. t - s <= t - s /\ (now - s < Takes(l[i]) => now - s <= Takes(l[i]))
    BY <1>4, <2>1 DEF Takes
  <2>3. /\ Share(pwm, l[i], now - s) \in Nat /\ Share(pwm, l[i], t - s) \in Nat
        /\ Share(pwm, l[i], now - s) <= Share(pwm, l[i], t - s)
        /\ now - s <= Takes(l[i]) => Share(pwm, l[i], now - s) <= pwm
    BY <1>3, <1>4, <2>1, <2>2, ShareBounds
  <2>4. t - s < l[i] => Share(pwm, l[i], t - s) = (pwm * (t - s)) \div l[i]
    BY <1>4, <2>1 DEF Share
  <2> QED  BY <2>2, <2>3, <2>4
<1>6. \A v, c : Result(v, c).level = v
  BY DEF Result
<1>7. ASSUME m = 1 PROVE y >= level /\ pwr = 1
  <2>1. pwr = 1 /\ y = FadeIn(context, t - s).level
    BY <1>2, <1>3, <1>7 DEF Fade
  <2>2. now - s < Takes(l[1]) /\ level = Share(pwm, l[1], now - s)
    BY <1>1, <1>7 DEF Faded
  <2>3. CASE t - s < l[1]
    <3>1. y = Share(pwm, l[1], t - s)
      BY <1>5, <1>6, <2>1, <2>3 DEF FadeIn
    <3> HIDE DEF y
    <3> QED  BY <1>5, <2>1, <2>2, <2>3, <3>1
  <2>4. CASE ~ (t - s < l[1])
    <3>1. y = pwm
      BY <1>6, <2>1, <2>4 DEF FadeIn
    <3> HIDE DEF y
    <3> QED  BY <1>3, <1>5, <2>1, <2>2, <3>1
  <2> QED  BY <2>3, <2>4
<1>8. ASSUME m = 3 PROVE y <= level /\ pwr = 0
  <2>1. pwr = 0 /\ y = FadeOut(context, t - s).level
    BY <1>2, <1>3, <1>8 DEF Fade
  <2>2. now - s < Takes(l[2]) /\ level = pwm - Share(pwm, l[2], now - s)
    BY <1>1, <1>8 DEF Faded
  <2>3. CASE t - s < l[2]
    <3>1. y = pwm - Share(pwm, l[2], t - s)
      BY <1>5, <1>6, <2>1, <2>3 DEF FadeOut
    <3> HIDE DEF y
    <3> QED  BY <1>3, <1>5, <2>1, <2>2, <2>3, <3>1
  <2>4. CASE ~ (t - s < l[2])
    <3>1. y = 0
      BY <1>6, <2>1, <2>4 DEF FadeOut
    <3> HIDE DEF y
    <3> QED  BY <1>3, <1>5, <2>1, <2>2, <3>1
  <2> QED  BY <2>3, <2>4
<1>9. ASSUME m \in {0, 2, 4} PROVE y = level
  <2>1. y = IF m = 2 THEN pwm ELSE 0
    BY <1>2, <1>6, <1>9 DEF Fade
  <2>2. level = IF m = 2 THEN pwm ELSE 0
    BY <1>1, <1>9 DEF Faded
  <2> QED  BY <2>1, <2>2
<1>10. m = 1 \/ m = 3 \/ m \in {0, 2, 4}
  BY <1>2
<1> HIDE DEF y, m
<1>11. IF pwr = 1 THEN y >= level ELSE y <= level
  BY <1>1, <1>7, <1>8, <1>9, <1>10
<1> QED  BY <1>11 DEF y

\* What a blink is to leave behind
BlinkGoes(x, t, e) ==
    /\ BlinkContext(x.ctx, t) /\ Blinked(x.ctx, x.level, pwr, pwm, e)
    /\ x.level \in 0 .. MaxPwm

LEMMA BlinkLeft ==
    ASSUME NEW l \in TwoLengths, NEW t \in Nat, NEW m \in {0, 1}, NEW s \in Nat,
           NEW y \in 0 .. MaxPwm, NEW e, pwr \in {0, 1}, s <= t,
           y = IF pwr = 1 /\ m = 1 THEN pwm ELSE 0,
           pwr = 1 /\ pwm > 0 /\ e # Never => e = s
    PROVE  BlinkGoes(Result(y, Timing(l, pwr, m, s)), t, e)
<1> DEFINE z == Timing(l, pwr, m, s)
           x == Result(y, z)
<1>1. z.last = pwr /\ z.mode = m /\ z.start = s /\ Timed(z, {0, 1}, t)
  BY Fields, TimingFits
<1> HIDE DEF z
<1>2. x.level = y /\ x.ctx = z
  BY DEF Result
<1> HIDE DEF x
<1>3. BlinkContext(z, t) /\ Blinked(z, y, pwr, pwm, e)
  BY <1>1 DEF BlinkContext, Blinked
<1>4. BlinkGoes(x, t, e)
  BY <1>2, <1>3 DEF BlinkGoes
<1> QED  BY <1>4 DEF x, z

LEMMA BlinkStep ==
    ASSUME LightInv, kind = "blink", NEW t, Ticks(t), level' = Blink(context, t).level
    PROVE  BlinkGoes(Blink(context, t), t, edge')
<1> DEFINE l == context.len
           a == context.last
           m == context.mode
           s == context.start
<1>1. BlinkContext(context, now) /\ (done => Blinked(context, level, pwr, pwm, edge))
  BY DEF LightInv, Fits, Shown
<1>2. /\ context = Timing(l, a, m, s)
      /\ l \in TwoLengths /\ a \in {0, 1} /\ m \in {0, 1} /\ s \in Nat /\ s <= now
  BY <1>1, TimedIs DEF BlinkContext, Timed
<1>3. /\ pwm \in Nat /\ pwm \in 0 .. MaxPwm /\ 0 \in 0 .. MaxPwm /\ pwr \in {0, 1}
      /\ now \in Nat /\ t \in Nat /\ now < t /\ s <= t /\ t <= t
  BY <1>2, EffectsAssumption DEF LightInv, LightTypes, Ticks
<1>4. done => /\ a = pwr
              /\ level = IF pwr = 1 /\ m = 1 THEN pwm ELSE 0
              /\ pwr = 1 /\ pwm > 0 /\ edge # Never => edge = s
  BY <1>1 DEF Blinked
<1>5. /\ ~ done => edge' = Never
      /\ done /\ (level' > 0) # (level > 0) => edge' = t
      /\ done /\ (level' > 0) = (level > 0) => edge' = edge
  BY DEF Ticks, LightInv, LightTypes
<1> HIDE DEF l, a, m, s
<1>fields. context.len = l /\ context.last = a /\ context.mode = m /\ context.start = s
  BY DEF l, a, m, s
<1>6. \A v, c : Result(v, c).level = v
  BY DEF Result
<1>7. CASE a # pwr
  <2>1. Blink(context, t) = Result(pwr * pwm, Timing(l, pwr, pwr, t))
    <3>1. Blink(context, t) = Result(pwr * pwm, Phase(context, pwr, t))
      BY <1>fields, <1>7 DEF Blink
    <3> QED  BY <1>2, <3>1, Turned
  <2>2. pwr * pwm = IF pwr = 1 /\ pwr = 1 THEN pwm ELSE 0
    BY <1>3
  <2>3. edge' = Never
    BY <1>4, <1>5, <1>7
  <2>4. pwr * pwm \in 0 .. MaxPwm
    BY <1>3, <2>2
  <2> HIDE DEF Never
  <2> QED  BY <1>2, <1>3, <2>1, <2>2, <2>3, <2>4, BlinkLeft
<1>8. CASE a = pwr /\ pwr = 0
  <2>1. Blink(context, t) = Result(0, Timing(l, pwr, m, s))
    BY <1>2, <1>fields, <1>8 DEF Blink
  <2> QED  BY <1>2, <1>3, <1>8, <2>1, BlinkLeft
<1>9. CASE a = pwr /\ pwr = 1 /\ m = 1
  <2>1. Blink(context, t) = BlinkOn(context, t)
    BY <1>fields, <1>9 DEF Blink
  <2>2. CASE t - s < l[1]
    <3>1. Blink(context, t) = Result(pwm, Timing(l, pwr, 1, s))
      BY <1>2, <1>fields, <1>9, <2>1, <2>2 DEF BlinkOn
    <3>2. level' = pwm
      BY <1>6, <3>1
    <3>3. pwm > 0 /\ edge' # Never => edge' = s
      BY <1>3, <1>4, <1>5, <1>9, <3>2
    <3> QED  BY <1>2, <1>3, <1>9, <3>1, <3>3, BlinkLeft
  <2>3. CASE ~ (t - s < l[1])
    <3>1. Blink(context, t) = Result(0, Phase(context, 0, t))
      BY <1>fields, <2>1, <2>3 DEF BlinkOn
    <3>2. Blink(context, t) = Result(0, Timing(l, pwr, 0, t))
      BY <1>2, <3>1, Turned
    <3>3. level' = 0
      BY <1>6, <3>2
    <3>4. pwm > 0 /\ edge' # Never => edge' = t
      BY <1>3, <1>4, <1>5, <1>9, <3>3
    <3> QED  BY <1>2, <1>3, <1>9, <3>2, <3>4, BlinkLeft
  <2> QED  BY <2>2, <2>3
<1>10. CASE a = pwr /\ pwr = 1 /\ m = 0
  <2>1. Blink(context, t) = BlinkOff(context, t)
    BY <1>fields, <1>10 DEF Blink
  <2>2. CASE t - s < l[2]
    <3>1. Blink(context, t) = Result(0, Timing(l, pwr, 0, s))
      BY <1>2, <1>fields, <1>10, <2>1, <2>2 DEF BlinkOff
    <3>2. level' = 0
      BY <1>6, <3>1
    <3>3. pwm > 0 /\ edge' # Never => edge' = s
      BY <1>3, <1>4, <1>5, <1>10, <3>2
    <3> QED  BY <1>2, <1>3, <1>10, <3>1, <3>3, BlinkLeft
  <2>3. CASE ~ (t - s < l[2])
    <3>1. Blink(context, t) = Result(pwm, Phase(context, 1, t))
      BY <1>fields, <2>1, <2>3 DEF BlinkOff
    <3>2. Blink(context, t) = Result(pwm, Timing(l, pwr, 1, t))
      BY <1>2, <3>1, Turned
    <3>3. level' = pwm
      BY <1>6, <3>2
    <3>4. pwm > 0 /\ edge' # Never => edge' = t
      BY <1>3, <1>4, <1>5, <1>10, <3>3
    <3> QED  BY <1>2, <1>3, <1>10, <3>2, <3>4, BlinkLeft
  <2> QED  BY <2>2, <2>3
<1> QED  BY <1>2, <1>3, <1>7, <1>8, <1>9, <1>10

LEMMA Rest ==
    ASSUME NEW t \in Nat, NEW n \in Nat \ {0}
    PROVE  t % n \in Nat /\ t % n < n
OBVIOUS

LEMMA PulseStep ==
    ASSUME LightInv, kind = "pulse", NEW t \in Nat
    PROVE  /\ Pulse(context, t).ctx = context
           /\ pwr = 0 => Pulse(context, t).level = 0
           /\ ~ Divides => Pulse(context, t).level \in 0 .. MaxPwm
<1> DEFINE e1 == context.len[1]
           e2 == context.len[2]
           e3 == context.len[3]
           e4 == context.len[4]
           at == t % e4
           y == Pulse(context, t).level
<1>1. /\ e1 \in Nat /\ e2 \in Nat /\ e3 \in Nat /\ e4 \in Nat
      /\ e1 <= e2 /\ e2 <= e3 /\ e3 <= e4
      /\ pwm \in Nat /\ pwm <= MaxPwm /\ MaxPwm \in Nat /\ pwr \in {0, 1}
  BY EffectsAssumption DEF LightInv, Fits, PulseContext, LightTypes
<1>2. /\ Pulse(context, t).ctx = context
      /\ pwr = 0 => y = 0
      /\ pwr = 1 /\ at \in Nat /\ at < e1 => y = (pwm * at) \div e1
      /\ pwr = 1 /\ ~ (at < e1) /\ at \in e1 .. e2 - 1 => y = pwm
      /\ pwr = 1 /\ ~ (at < e1) /\ ~ (at \in e1 .. e2 - 1) /\ at \in e2 .. e3 - 1 =>
            y = pwm - (pwm * (at - e2)) \div (e3 - e2)
      /\ pwr = 1 /\ ~ (at < e1) /\ ~ (at \in e1 .. e2 - 1) /\ ~ (at \in e2 .. e3 - 1) /\ at >= e3
            => y = 0
  <2> DEFINE up == (pwm * at) \div e1
             down == pwm - (pwm * (at - e2)) \div (e3 - e2)
             value == CASE pwr = 0 -> 0
                        [] pwr = 1 /\ at < e1 -> up
                        [] pwr = 1 /\ at \in e1 .. e2 - 1 -> pwm
                        [] pwr = 1 /\ at \in e2 .. e3 - 1 -> down
                        [] pwr = 1 /\ at >= e3 -> 0
  <2>1. Pulse(context, t) = Result(value, context)
    BY Zenon DEF Pulse
  <2> HIDE DEF value
  <2>2. Pulse(context, t).ctx = context /\ y = value
    BY <2>1 DEF Result
  <2> HIDE DEF up, down, y
  <2>3. /\ pwr = 0 => value = 0
        /\ pwr = 1 /\ at \in Nat /\ at < e1 => value = up
        /\ pwr = 1 /\ ~ (at < e1) /\ at \in e1 .. e2 - 1 => value = pwm
        /\ pwr = 1 /\ ~ (at < e1) /\ ~ (at \in e1 .. e2 - 1) /\ at \in e2 .. e3 - 1 =>
              value = down
        /\ pwr = 1 /\ ~ (at < e1) /\ ~ (at \in e1 .. e2 - 1) /\ ~ (at \in e2 .. e3 - 1) /\ at >= e3
              => value = 0
    <3> HIDE DEF at, e1, e2, e3
    <3>0. pwr = 0 => value = 0
      BY DEF value
    <3>1. pwr = 1 /\ at \in Nat /\ at < e1 => value = up
      BY <1>1 DEF value
    <3> QED  BY <1>1, <3>0, <3>1 DEF value
  <2> QED  BY <2>2, <2>3 DEF up, down
<1>3. ASSUME pwr = 1, e4 # 0 PROVE y \in 0 .. MaxPwm
  <2>1. at \in Nat
    BY <1>1, <1>3, Rest
  <2> HIDE DEF e1, e2, e3, e4, at, y
  <2>2. CASE at < e1
    <3>1. e1 \in Nat \ {0} /\ at <= at /\ at <= e1
      BY <1>1, <2>1, <2>2
    <3> DEFINE q == (pwm * at) \div e1
    <3>2. q \in Nat /\ q <= pwm
      BY <1>1, <2>1, <3>1, Ramp
    <3>3. y = q
      BY <1>2, <1>3, <2>1, <2>2
    <3> HIDE DEF q
    <3> QED  BY <1>1, <3>2, <3>3
  <2>3. CASE ~ (at < e1) /\ at \in e1 .. e2 - 1
    BY <1>1, <1>2, <1>3, <2>3
  <2>4. CASE ~ (at < e1) /\ ~ (at \in e1 .. e2 - 1) /\ at \in e2 .. e3 - 1
    <3> DEFINE d == at - e2
               n == e3 - e2
               q == (pwm * d) \div n
    <3>1. d \in Nat /\ n \in Nat \ {0} /\ d <= n /\ d <= d
      BY <1>1, <2>1, <2>4
    <3>2. y = pwm - q
      BY <1>2, <1>3, <2>4
    <3> HIDE DEF d, n
    <3>3. q \in Nat /\ q <= pwm
      BY <1>1, <3>1, Ramp
    <3> HIDE DEF q
    <3> QED  BY <1>1, <3>2, <3>3
  <2>5. CASE ~ (at < e1) /\ ~ (at \in e1 .. e2 - 1) /\ ~ (at \in e2 .. e3 - 1)
    <3>1. at >= e3
      BY <1>1, <2>1, <2>5
    <3> QED  BY <1>1, <1>2, <1>3, <2>5, <3>1
  <2> QED  BY <2>2, <2>3, <2>4, <2>5
<1>4. ASSUME pwr = 0 PROVE y \in 0 .. MaxPwm
  BY <1>1, <1>2, <1>4
<1>5. ~ Divides /\ pwr = 1 => e4 # 0
  BY DEF Divides
<1> QED  BY <1>1, <1>2, <1>3, <1>4, <1>5

-------------------------------------------------------------------------------
(* The invariant holds *)

LEMMA FitsInit ==
    ASSUME LightInit
    PROVE  LightInv
<1>1. PICK args \in Arguments : context = EffectParseArgs(kind, args)
  BY DEF LightInit
<1>2. kind \in Kinds /\ now = 0 /\ level = 0 /\ done = FALSE /\ since = 0
      /\ pwr \in {0, 1} /\ pwm \in 0 .. MaxPwm
  BY DEF LightInit
<1>3. Fits(kind, context, now)
  BY <1>1, <1>2, ParseFits
<1>4. done \in BOOLEAN /\ ~ done
  BY <1>2
<1>5. now \in Nat /\ level \in Int /\ since \in Nat /\ since <= now /\ since = now
  BY <1>2
<1>6. LightTypes
  BY <1>2, <1>4, <1>5 DEF LightTypes
<1> QED  BY <1>3, <1>4, <1>6 DEF LightInv

LEMMA LaterFits ==
    ASSUME NEW k, NEW c, NEW u \in Nat, NEW t \in Nat, u <= t, Fits(k, c, u)
    PROVE  Fits(k, c, t)
<1>1. ASSUME NEW modes, Timed(c, modes, u) PROVE Timed(c, modes, t)
  BY <1>1 DEF Timed
<1> QED  BY <1>1 DEF Fits, FadeContext, BlinkContext

LEMMA AfterTick ==
    ASSUME LightInv, EffectTick
    PROVE  \E t : /\ Ticks(t) /\ ~ Divides
                  /\ level' = LightEffect(t).level /\ context' = LightEffect(t).ctx
BY EffectsAssumption DEF LightInv, LightTypes, EffectTick, Ticks, Time, input

LEMMA TickKeeps ==
    ASSUME LightInv, EffectTick
    PROVE  LightInv'
<1>1. PICK t : /\ Ticks(t) /\ ~ Divides
               /\ level' = LightEffect(t).level /\ context' = LightEffect(t).ctx
  BY AfterTick
<1>2. /\ kind' = kind /\ pwr' = pwr /\ pwm' = pwm /\ since' = since /\ now' = t /\ done' = TRUE
      /\ t \in Nat /\ now \in Nat /\ now <= t /\ since <= t /\ since \in Nat
  BY <1>1 DEF Ticks, input, LightInv, LightTypes
<1>3. kind \in Kinds /\ pwr \in {0, 1} /\ pwm \in 0 .. MaxPwm /\ pwm \in Nat /\ MaxPwm \in Nat
  BY EffectsAssumption DEF LightInv, LightTypes
<1>4. SUFFICES /\ level' \in Int /\ Fits(kind, context', t)
               /\ kind = "none" => level' = pwr * pwm
               /\ kind = "fade" => Faded(context', level', pwr, pwm, t)
               /\ kind = "blink" => Blinked(context', level', pwr, pwm, edge')
               /\ kind = "pulse" /\ pwr = 0 => level' = 0
               /\ ~ Divides' => level' \in 0 .. MaxPwm
  <2>1. LightTypes'
    BY <1>2, <1>3, <1>4 DEF LightTypes
  <2>2. Fits(kind, context, now)'
    BY <1>2, <1>4
  <2>3. Shown'
    <3>1. Faded(context', level', pwr, pwm, t) =>
             Faded(context', level', pwr', pwm', now')
      BY <1>2
    <3>2. Faded(context', level', pwr', pwm', now') => Faded(context, level, pwr, pwm, now)'
      BY <1>2 DEF Faded
    <3>3. Blinked(context', level', pwr, pwm, edge') => Blinked(context, level, pwr, pwm, edge)'
      BY <1>2 DEF Blinked
    <3> QED  BY <1>2, <1>4, <3>1, <3>2, <3>3 DEF Shown
  <2> QED  BY <2>1, <2>2, <2>3 DEF LightInv
<1>5. ASSUME level' \in 0 .. MaxPwm PROVE level' \in Int
  BY <1>3, <1>5
<1>6. CASE kind = "none"
  <2>1. level' = pwr * pwm
    BY <1>1, <1>6 DEF LightEffect, Result
  <2>2. pwr * pwm \in 0 .. MaxPwm
    BY <1>3
  <2> QED  BY <1>5, <1>6, <2>1, <2>2 DEF Fits
<1>7. CASE kind = "fade"
  <2>1. LightEffect(t) = Fade(context, t)
    BY <1>7 DEF LightEffect
  <2>2. FadeGoes(Fade(context, t), t)
    BY <1>1, <1>7, FadeStep
  <2>3. FadeContext(context', t) /\ Faded(context', level', pwr, pwm, t) /\ level' \in 0 .. MaxPwm
    BY <1>1, <2>1, <2>2 DEF FadeGoes
  <2> QED  BY <1>5, <1>7, <2>3 DEF Fits
<1>8. CASE kind = "blink"
  <2>1. LightEffect(t) = Blink(context, t)
    BY <1>8 DEF LightEffect
  <2>2. BlinkGoes(Blink(context, t), t, edge')
    BY <1>1, <1>8, <2>1, BlinkStep
  <2>3. BlinkContext(context', t) /\ Blinked(context', level', pwr, pwm, edge')
        /\ level' \in 0 .. MaxPwm
    BY <1>1, <2>1, <2>2 DEF BlinkGoes
  <2> QED  BY <1>5, <1>8, <2>3 DEF Fits
<1>9. CASE kind = "pulse"
  <2>1. LightEffect(t) = Pulse(context, t)
    BY <1>9 DEF LightEffect
  <2>2. context' = context /\ (pwr = 0 => level' = 0) /\ level' \in 0 .. MaxPwm
    BY <1>1, <1>2, <1>9, <2>1, PulseStep
  <2>3. PulseContext(context)
    BY <1>9 DEF LightInv, Fits
  <2> QED  BY <1>5, <1>9, <2>2, <2>3 DEF Fits
<1> QED  BY <1>3, <1>6, <1>7, <1>8, <1>9 DEF Kinds

LEMMA DividingKeeps ==
    ASSUME LightInv, DividingTick
    PROVE  LightInv'
<1>1. PICK t \in now + 1 .. now + 1 + Late :
        /\ Divides /\ level' \in AnyLevel /\ Time(t)
        /\ UNCHANGED <<input, context, since, copies>>
  BY DEF DividingTick
<1>2. /\ kind' = kind /\ pwr' = pwr /\ pwm' = pwm /\ since' = since /\ now' = t /\ done' = TRUE
      /\ context' = context
      /\ t \in Nat /\ now \in Nat /\ now <= t /\ since <= t /\ since \in Nat
      /\ kind = "pulse" /\ pwr = 1 /\ Divides'
  BY <1>1, EffectsAssumption DEF Time, input, LightInv, LightTypes, Divides
<1>3. LightTypes'
  BY <1>1, <1>2, EffectsAssumption DEF LightInv, LightTypes, AnyLevel
<1>4. Fits(kind, context, now)'
  BY <1>2, LaterFits DEF LightInv
<1>5. Shown'
  BY <1>2 DEF Shown
<1> QED  BY <1>3, <1>4, <1>5 DEF LightInv

LEMMA CopyKeeps ==
    ASSUME LightInv, CopyState \/ CopyConfig
    PROVE  LightInv'
<1>1. done' = FALSE /\ since' = now /\ now' = now /\ level' = level
  BY DEF CopyState, CopyConfig, Disturb
<1>2. /\ kind' \in Kinds /\ pwr' \in {0, 1} /\ pwm' \in 0 .. MaxPwm
      /\ Fits(kind', context', now)
  <2>1. CASE CopyState
    BY <2>1 DEF CopyState, LightInv, LightTypes
  <2>2. CASE CopyConfig
    <3>1. PICK args \in Arguments : context' = EffectParseArgs(kind', args)
      BY <2>2 DEF CopyConfig
    <3>2. kind' \in Kinds /\ pwr' = pwr /\ pwm' = pwm /\ now \in Nat
      BY <2>2 DEF CopyConfig, LightInv, LightTypes
    <3> QED  BY <3>1, <3>2, ParseFits DEF LightInv, LightTypes
  <2> QED  BY <2>1, <2>2
<1>3. LightTypes'
  <2>1. done' \in BOOLEAN /\ ~ done'
    BY <1>1
  <2>2. /\ level' \in Int /\ now' \in Nat /\ since' \in Nat /\ since' <= now' /\ since' = now'
    BY <1>1 DEF LightInv, LightTypes
  <2> QED  BY <1>2, <2>1, <2>2 DEF LightTypes
<1>4. Fits(kind, context, now)'
  BY <1>1, <1>2
<1> QED  BY <1>1, <1>3, <1>4 DEF LightInv

LEMMA StayingKeeps ==
    ASSUME LightInv, UNCHANGED lightVars
    PROVE  LightInv'
<1>1. /\ kind' = kind /\ context' = context /\ pwr' = pwr /\ pwm' = pwm /\ now' = now
      /\ level' = level /\ done' = done /\ since' = since /\ edge' = edge
  BY DEF lightVars, input
<1> QED  BY <1>1 DEF LightInv, LightTypes, Fits, FadeContext, BlinkContext, PulseContext, Timed,
                    Shown, Faded, Blinked, Divides

(***************************************************************************)
(* After every tick the level is the one that the effect's context, the    *)
(* time and core1's copy of the output's state call for.                   *)
(***************************************************************************)
THEOREM LightsKnown == LightSpec => []LightInv
<1>1. LightInit => LightInv
  BY FitsInit
<1>2. LightInv /\ [LightNext]_lightVars => LightInv'
  BY TickKeeps, DividingKeeps, CopyKeeps, StayingKeeps DEF LightNext
<1> QED  BY <1>1, <1>2, PTL DEF LightSpec

-------------------------------------------------------------------------------
(* What follows from it *)

LEMMA SettledFade ==
    ASSUME LightInv, done, kind = "fade", now - since >= 1 + Late + Takes(context.len[2 - pwr])
    PROVE  level = pwr * pwm
<1>1. FadeContext(context, now) /\ Faded(context, level, pwr, pwm, now)
  BY DEF LightInv, Fits, Shown
<1>2. /\ pwr \in {0, 1} /\ pwm \in Nat /\ now \in Nat /\ since \in Nat /\ Late \in Nat
  BY EffectsAssumption DEF LightInv, LightTypes
<1>3. context.start \in Nat /\ context.start <= since + 1 + Late
  BY <1>1 DEF FadeContext, Timed, Faded
<1>4. CASE pwr = 1
  <2>1. context.mode \in {1, 2} /\ context.len[1] \in Nat
    BY <1>1, <1>4 DEF FadeContext, Timed, Faded, TwoLengths
  <2>2. Takes(context.len[1]) \in Nat /\ 2 - pwr = 1
    BY <1>4, <2>1 DEF Takes
  <2>3. ~ (now - context.start < Takes(context.len[1]))
    BY <1>2, <1>3, <2>2
  <2> QED  BY <1>1, <1>2, <1>4, <2>1, <2>3 DEF Faded
<1>5. CASE pwr = 0
  <2>1. context.mode \in {0, 3, 4} /\ context.len[2] \in Nat
    BY <1>1, <1>5 DEF FadeContext, Timed, Faded, TwoLengths
  <2>2. Takes(context.len[2]) \in Nat /\ 2 - pwr = 2
    BY <1>5, <2>1 DEF Takes
  <2>3. ~ (now - context.start < Takes(context.len[2]))
    BY <1>2, <1>3, <2>2
  <2> QED  BY <1>1, <1>2, <1>5, <2>1, <2>3 DEF Faded
<1> QED  BY <1>2, <1>4, <1>5

LEMMA SettlesFrom ==
    ASSUME LightInv
    PROVE  Settles
<1>1. done /\ ~ Divides => level \in 0 .. MaxPwm
  BY DEF LightInv, Shown
<1>2. kind \in Kinds /\ pwr \in {0, 1} /\ pwm \in Nat
  BY EffectsAssumption DEF LightInv, LightTypes
<1>3. ASSUME done, pwr = 1 => kind \in {"none", "fade"}, kind # "fade"
      PROVE  level = pwr * pwm
  <2>1. CASE kind = "none"
    BY <1>3, <2>1 DEF LightInv, Shown
  <2>2. CASE kind = "blink"
    BY <1>2, <1>3, <2>2 DEF LightInv, Shown, Blinked
  <2>3. CASE kind = "pulse"
    BY <1>2, <1>3, <2>3 DEF LightInv, Shown
  <2> QED  BY <1>2, <1>3, <2>1, <2>2, <2>3 DEF Kinds
<1>4. ASSUME done, kind = "fade",
             now - since >= 1 + Late + (IF context.len[2 - pwr] = 0
                                        THEN 1 ELSE context.len[2 - pwr])
      PROVE  level = pwr * pwm
  <2>1. now - since >= 1 + Late + Takes(context.len[2 - pwr])
    BY <1>4 DEF Takes
  <2> QED  BY <1>4, <2>1, SettledFade
<1> QED  BY <1>1, <1>3, <1>4 DEF Settles

(***************************************************************************)
(* However power, PWM and effect change, an output settles: one that is    *)
(* off is dark, one without an effect is at its PWM, and a fade gets there  *)
(* in its time, whatever the lengths and however late the ticks.           *)
(***************************************************************************)
THEOREM LightsSettle == LightSpec => []Settles
BY LightsKnown, SettlesFrom, PTL

\* A step after which a tick has come and before which one had is a tick
LEMMA TickOnly ==
    ASSUME LightInv, LightNext, done', kind # "pulse"
    PROVE  EffectTick
BY DEF LightNext, DividingTick, Divides, CopyState, CopyConfig, Disturb

(***************************************************************************)
(* A fade that nobody disturbs goes in one direction only.                 *)
(***************************************************************************)
THEOREM FadesOneWay == LightSpec => FadeMonotone
<1>1. ASSUME LightInv, [LightNext]_lightVars
      PROVE  [kind = "fade" /\ done /\ done' =>
                 IF pwr = 1 THEN level' >= level ELSE level' <= level]_lightVars
  <2> SUFFICES ASSUME LightNext, kind = "fade", done, done'
               PROVE  IF pwr = 1 THEN level' >= level ELSE level' <= level
    BY <1>1
  <2>1. EffectTick
    BY <1>1, TickOnly
  <2>2. PICK t : /\ Ticks(t) /\ ~ Divides
                 /\ level' = LightEffect(t).level /\ context' = LightEffect(t).ctx
    BY <1>1, <2>1, AfterTick
  <2>3. LightEffect(t) = Fade(context, t)
    BY DEF LightEffect
  <2>4. IF pwr = 1 THEN Fade(context, t).level >= level ELSE Fade(context, t).level <= level
    BY <1>1, <2>2, FadeOnward
  <2> QED  BY <2>2, <2>3, <2>4
<1> QED  BY <1>1, LightsKnown, PTL DEF LightSpec, FadeMonotone

LEMMA BlinkOnward ==
    ASSUME LightInv, kind = "blink", pwr = 1, pwm > 0, done, edge # Never, NEW t, Ticks(t),
           level' = Blink(context, t).level
    PROVE  LET lit == level > 0
               length == IF lit THEN context.len[1] ELSE context.len[2]
           IN  (level' > 0) = (IF t - edge < length THEN lit ELSE ~lit)
<1>1. BlinkContext(context, now) /\ Blinked(context, level, pwr, pwm, edge)
  BY DEF LightInv, Fits, Shown
<1>2. /\ context.last = 1 /\ context.mode \in {0, 1} /\ edge = context.start /\ pwm \in Nat
      /\ level = IF context.mode = 1 THEN pwm ELSE 0
  BY <1>1, EffectsAssumption DEF BlinkContext, Timed, Blinked, LightInv, LightTypes
<1>3. \A v, c : Result(v, c).level = v
  BY DEF Result
<1>4. CASE context.mode = 1
  <2>1. level > 0
    BY <1>2, <1>4
  <2>2. Blink(context, t) = BlinkOn(context, t)
    BY <1>2, <1>4 DEF Blink
  <2>3. level' = IF t - edge < context.len[1] THEN pwm ELSE 0
    BY <1>2, <1>3, <2>2 DEF BlinkOn
  <2>4. (level' > 0) = (t - edge < context.len[1])
    BY <1>2, <2>3
  <2> QED  BY <2>1, <2>4
<1>5. CASE context.mode = 0
  <2>1. ~ (level > 0)
    BY <1>2, <1>5
  <2>2. Blink(context, t) = BlinkOff(context, t)
    BY <1>2, <1>5 DEF Blink
  <2>3. level' = IF t - edge < context.len[2] THEN 0 ELSE pwm
    BY <1>2, <1>3, <2>2 DEF BlinkOff
  <2>4. (level' > 0) = ~ (t - edge < context.len[2])
    BY <1>2, <2>3
  <2> QED  BY <2>1, <2>4
<1> QED  BY <1>2, <1>4, <1>5

(***************************************************************************)
(* A blinking output that nobody touches keeps to its times.               *)
(***************************************************************************)
THEOREM BlinksInTime == LightSpec => BlinkKeepsTime
<1>1. ASSUME LightInv, [LightNext]_lightVars
      PROVE  [kind = "blink" /\ pwr = 1 /\ pwm > 0 /\ done /\ done' /\ edge # Never =>
                 LET lit == level > 0
                     length == IF lit THEN context.len[1] ELSE context.len[2]
                 IN  (level' > 0) = (IF now' - edge < length THEN lit ELSE ~lit)]_lightVars
  <2> DEFINE Kept == LET lit == level > 0
                         length == IF lit THEN context.len[1] ELSE context.len[2]
                     IN  (level' > 0) = (IF now' - edge < length THEN lit ELSE ~lit)
  <2> SUFFICES ASSUME LightNext, kind = "blink", pwr = 1, pwm > 0, done, done', edge # Never
               PROVE  Kept
    BY <1>1
  <2>1. EffectTick
    BY <1>1, TickOnly
  <2>2. PICK t : /\ Ticks(t) /\ ~ Divides
                 /\ level' = LightEffect(t).level /\ context' = LightEffect(t).ctx
    BY <1>1, <2>1, AfterTick
  <2>3. LightEffect(t) = Blink(context, t) /\ now' = t
    BY <2>2 DEF LightEffect, Ticks
  <2> QED  BY <1>1, <2>2, <2>3, BlinkOnward
<1> QED  BY <1>1, LightsKnown, PTL DEF LightSpec, BlinkKeepsTime
===============================================================================
