-------------------------- MODULE OutputStateProofs --------------------------
(***************************************************************************)
(* Proofs about OutputState, for every OutputCount, MaxPwm, Default and    *)
(* MaxWrites.                                                              *)
(*                                                                         *)
(* CopiedWhole rests on the exclusion of the two copies (Locks), on        *)
(* transfer_state being complete whenever core0 does not copy (Complete)   *)
(* and on how far core1's copy has come (Progress).  CacheTrue rests on    *)
(* what the start leaves behind (Start): until its first effect tick core1 *)
(* reads no transfer (Boot), the pins hold the defaults (Pins), and main's *)
(* copy has the defaults, too, for every output but the early ones         *)
(* (Stored, MainCopied).                                                   *)
(***************************************************************************)
EXTENDS OutputState, TLAPS

StateType ==
    /\ sys \in State /\ xfer \in State /\ c1 \in State
    /\ whole \in State /\ got \in State

ControlType ==
    /\ mutex \in {Nobody, "core0", "core1"}
    /\ pc0 \in {"pin", "pwm", "pwr", "main", "idle", "enter", "copy"}
    /\ pc1 \in {"off", "idle", "copy"}
    /\ pc0 \in {"pin", "pwm", "pwr"} => pos0 \in Output
    /\ pos0 \in 1 .. 2 * OutputCount + 1 /\ pos1 \in 1 .. 2 * OutputCount + 1
    /\ ticked \in BOOLEAN /\ writes \in 0 .. MaxWrites /\ early \subseteq Output

LevelType ==
    /\ hw \in [Output -> 0 .. MaxPwm] /\ cache \in [Output -> 0 .. MaxPwm]

Locks ==
    /\ pc0 = "copy" <=> mutex = "core0"
    /\ pc1 = "copy" <=> mutex = "core1"

Complete == pc0 # "copy" => xfer = whole

Progress ==
    /\ pc1 = "copy" => /\ got = whole
                       /\ \A f \in Field : f < pos1 => c1[f] = xfer[f]
    /\ pc1 = "idle" => c1 = got

Boot ==
    /\ Starting => pc1 = "off"
    /\ ticked => pc1 # "off"
    /\ ~ticked => pc1 # "copy" /\ \A o \in Output : cache[o] = 0

\* setup's loop has passed the pin, the pwm or the power of output o
PinSet(o) == /\ pc0 = "pin" => o < pos0
             /\ pc0 \in {"pwm", "pwr"} => o <= pos0
PwmSet(o) == /\ pc0 \in {"pin", "pwm"} => o < pos0
             /\ pc0 = "pwr" => o <= pos0
PwrSet(o) == pc0 \in {"pin", "pwm", "pwr"} => o < pos0
InMain(f) == Starting => pc0 = "main" /\ f < pos0

Pins == ~ticked => \A o \in Output : PinSet(o) => hw[o] = Level(Default, o)

Stored ==
    Starting => \A o \in Output \ early :
                   /\ PwmSet(o) => sys[Pwm(o)] = Default[Pwm(o)]
                   /\ PwrSet(o) => sys[Pwr(o)] = Default[Pwr(o)]

MainCopied ==
    ~ticked => \A o \in Output \ early :
                  /\ InMain(Pwm(o)) => c1[Pwm(o)] = Default[Pwm(o)]
                  /\ InMain(Pwr(o)) => c1[Pwr(o)] = Default[Pwr(o)]

Start == Boot /\ Pins /\ Stored /\ MainCopied

Inv ==
    /\ StateType /\ ControlType /\ LevelType
    /\ Locks /\ Complete /\ Progress /\ Start /\ CacheTrue

-------------------------------------------------------------------------------
LEMMA Counts ==
    /\ OutputCount \in Nat \ {0} /\ MaxPwm \in Nat \ {0} /\ MaxWrites \in Nat
    /\ "core0" # Nobody /\ "core1" # Nobody
    /\ Default \in State
  BY OutputAssumption DEF Nobody

\* Writing one field with a value of that field gives a state again.
LEMMA FieldWrite ==
    ASSUME NEW s \in State, NEW f \in Field, NEW v \in Values(f)
    PROVE  [s EXCEPT ![f] = v] \in State
  BY Counts DEF State, Values

LEMMA LevelInRange ==
    ASSUME NEW s \in State, NEW o \in Output
    PROVE  Level(s, o) \in 0 .. MaxPwm
  <1>1. Pwm(o) \in Field /\ Pwr(o) \in Field
    BY Counts DEF Pwm, Pwr, Field, Output
  <1> QED
    BY <1>1, Counts DEF Level, State

LEMMA FieldOf ==
    ASSUME NEW o \in Output
    PROVE  /\ Pwm(o) \in Field /\ Pwr(o) \in Field
           /\ Values(Pwm(o)) = 0 .. MaxPwm /\ Values(Pwr(o)) = {0, 1}
  BY Counts DEF Pwm, Pwr, Field, Output, Values

LEMMA InvInit == Init => Inv
  <1> SUFFICES ASSUME Init PROVE Inv
    OBVIOUS
  <1>0. 1 \in Output /\ 1 \in 1 .. 2 * OutputCount + 1 /\ 0 \in 0 .. MaxWrites
    BY Counts DEF Output
  <1>1. StateType
    <2>1. Cleared \in State
      BY Counts DEF Cleared, State, Values, Field
    <2> QED
      BY <2>1 DEF Init, StateType
  <1>2. ControlType
    BY <1>0 DEF Init, ControlType
  <1>3. LevelType
    BY Counts DEF Init, LevelType
  <1>4. Locks /\ Complete /\ Progress /\ CacheTrue
    BY Counts DEF Init, Locks, Complete, Progress, CacheTrue
  <1>5. Start
    <2>1. Boot
      BY DEF Init, Boot, Starting
    <2>2. \A o \in Output : ~(o < 1)
      BY Counts DEF Output
    <2> QED
      BY <2>1, <2>2 DEF Init, Start, Pins, Stored, MainCopied, PinSet, PwmSet,
                        PwrSet, InMain, Starting
  <1> QED
    BY <1>1, <1>2, <1>3, <1>4, <1>5 DEF Inv

\* Once the start is over, only core1's tick and launch touch what it left.
LEMMA StartKept ==
    ASSUME Inv, ~Starting, ~Starting',
           UNCHANGED <<hw, cache, ticked, early>>,
           ~ticked => c1' = c1 /\ pc1' = pc1,
           ticked => pc1' # "off"
    PROVE  Start' /\ CacheTrue'
  <1>1. Boot'
    BY DEF Inv, Start, Boot
  <1>2. Pins'
    BY DEF Inv, Start, Pins, PinSet, Starting, Level
  <1>3. Stored'
    BY DEF Stored
  <1>4. MainCopied'
    BY DEF Inv, Start, MainCopied, InMain
  <1>5. CacheTrue'
    BY DEF Inv, CacheTrue, LeftLit
  <1> QED
    BY <1>1, <1>2, <1>3, <1>4, <1>5 DEF Start

\* A writer changes nothing but system_state; in the start it is a callback.
LEMMA WriterInv ==
    ASSUME Inv, NEW s \in State, Change(s), UNCHANGED <<core1, mutex>>,
           UNCHANGED <<xfer, pos0, whole>>,
           pc0' = pc0 \/ (pc0 = "idle" /\ pc0' = "enter"),
           ~Starting, early' = early
    PROVE  Inv'
  <1>1. StateType'
    BY DEF Inv, StateType, Change, core1
  <1>2. ControlType'
    BY Counts DEF Inv, ControlType, Change, core1
  <1>3. LevelType'
    BY DEF Inv, LevelType, core1
  <1>4. Locks' /\ Complete'
    BY Counts DEF Inv, Locks, Complete, core1
  <1>5. Progress'
    BY DEF Inv, Progress, core1
  <1>6. Start' /\ CacheTrue'
    <2>1. ~Starting'
      BY DEF Starting
    <2>2. ticked => pc1' # "off"
      BY DEF Inv, Start, Boot, core1
    <2> QED
      BY <2>1, <2>2, StartKept DEF core1
  <1> QED
    BY <1>1, <1>2, <1>3, <1>4, <1>5, <1>6 DEF Inv

LEMMA CommandInv == ASSUME Inv, Command PROVE Inv'
  <1>0. PICK f \in Field : \E v \in Values(f) : Change([sys EXCEPT ![f] = v])
    BY DEF Command
  <1>1. PICK v \in Values(f) : Change([sys EXCEPT ![f] = v])
    BY <1>0
  <1>2. [sys EXCEPT ![f] = v] \in State
    BY FieldWrite DEF Inv, StateType
  <1>3. ~Starting
    BY DEF Command, Starting
  <1> QED
    BY <1>1, <1>2, <1>3, WriterInv DEF Command

LEMMA TimerInv == ASSUME Inv, Timer PROVE Inv'
  <1>1. PICK on \in {0, 1}, m \in SUBSET Output :
          Change([f \in Field |-> IF f - OutputCount \in m THEN on ELSE sys[f]])
    BY DEF Timer
  <1> DEFINE s == [f \in Field |-> IF f - OutputCount \in m THEN on ELSE sys[f]]
  <1>2. s \in State
    <2>1. \A f \in Field : f - OutputCount \in m => Values(f) = {0, 1}
      BY Counts DEF Field, Output, Values
    <2>2. \A f \in Field : sys[f] \in Values(f)
      BY DEF Inv, StateType, State
    <2>3. \A f \in Field : Values(f) \subseteq 0 .. MaxPwm
      BY Counts DEF Values
    <2> QED
      BY <2>1, <2>2, <2>3 DEF State
  <1>3. ~Starting
    BY DEF Timer, Starting
  <1> QED
    BY <1>1, <1>2, <1>3, WriterInv DEF Timer, core0

LEMMA CallbackInv == ASSUME Inv, Callback PROVE Inv'
  <1>1. PICK o \in Output, p \in 0 .. MaxPwm, on \in {0, 1} :
          /\ Change([sys EXCEPT ![Pwm(o)] = p, ![Pwr(o)] = on])
          /\ early' = IF Starting THEN early \union {o} ELSE early
    BY DEF Callback
  <1>2. [sys EXCEPT ![Pwm(o)] = p] \in State
    BY FieldOf, FieldWrite DEF Inv, StateType
  <1>3. [sys EXCEPT ![Pwm(o)] = p, ![Pwr(o)] = on] \in State
    BY <1>2, FieldOf, FieldWrite
  <1>4. CASE ~Starting
    BY <1>1, <1>3, <1>4, WriterInv DEF Callback, core0
  <1>5. CASE Starting
    <2>a. /\ sys' = [sys EXCEPT ![Pwm(o)] = p, ![Pwr(o)] = on]
          /\ early' = early \union {o}
          /\ UNCHANGED <<core0, core1, mutex>>
      BY <1>1, <1>5 DEF Callback, Change
    <2>b. writes' \in 0 .. MaxWrites
      BY <1>1, Counts DEF Change, Inv, ControlType
    <2>c. Starting'
      BY <1>5, <2>a DEF Starting, core0
    <2>0. /\ sys' = [sys EXCEPT ![Pwm(o)] = p, ![Pwr(o)] = on]
          /\ writes' \in 0 .. MaxWrites
          /\ early' = early \union {o}
          /\ UNCHANGED <<core0, core1, mutex>> /\ Starting'
      BY <2>a, <2>b, <2>c
    <2>1. StateType' /\ ControlType' /\ LevelType'
      BY <2>0, <1>3 DEF Inv, StateType, ControlType, LevelType, core0, core1
    <2>2. Locks' /\ Complete' /\ Progress' /\ Boot' /\ Pins'
      BY <2>0, <1>5 DEF Inv, Locks, Complete, Progress, Start, Boot, Pins,
                        PinSet, Level, core0, core1
    <2>3. Stored'
      <3> SUFFICES ASSUME NEW q \in Output, q \notin early'
                   PROVE  /\ PwmSet(q)' => sys'[Pwm(q)] = Default[Pwm(q)]
                          /\ PwrSet(q)' => sys'[Pwr(q)] = Default[Pwr(q)]
        BY DEF Stored
      <3>1. q \notin early /\ q # o
        BY <2>0
      <3>2. /\ Pwm(q) # Pwm(o) /\ Pwm(q) # Pwr(o)
            /\ Pwr(q) # Pwm(o) /\ Pwr(q) # Pwr(o)
        BY <3>1, Counts DEF Pwm, Pwr, Output
      <3>3. sys'[Pwm(q)] = sys[Pwm(q)] /\ sys'[Pwr(q)] = sys[Pwr(q)]
        BY <2>0, <3>2, FieldOf DEF Inv, StateType, State
      <3>4. PwmSet(q)' = PwmSet(q) /\ PwrSet(q)' = PwrSet(q)
        BY <2>0 DEF PwmSet, PwrSet, core0
      <3> QED
        BY <1>5, <3>1, <3>3, <3>4 DEF Inv, Start, Stored
    <2>4. MainCopied'
      BY <2>0, <1>5 DEF Inv, Start, MainCopied, InMain, core0, core1, Starting
    <2>5. CacheTrue'
      BY <2>0, <1>5 DEF Inv, Start, Boot, CacheTrue, core1
    <2> QED
      BY <2>1, <2>2, <2>3, <2>4, <2>5 DEF Inv, Start
  <1> QED
    BY <1>4, <1>5

-------------------------------------------------------------------------------
(* The start *)

LEMMA SetupPinInv == ASSUME Inv, SetupPin PROVE Inv'
  <1>1. /\ pos0 \in Output /\ ~ticked /\ pc1 = "off" /\ pc0' = "pwm"
        /\ Starting /\ Starting'
    BY DEF SetupPin, Inv, ControlType, Start, Boot, Starting
  <1>2. LevelType'
    BY <1>1, LevelInRange, Counts DEF SetupPin, Inv, LevelType
  <1>3. StateType' /\ ControlType'
    BY <1>1 DEF SetupPin, Inv, StateType, ControlType
  <1>4. Locks' /\ Complete' /\ Progress' /\ Boot' /\ CacheTrue'
    BY <1>1 DEF SetupPin, Inv, Locks, Complete, Progress, Start, Boot, CacheTrue
  <1>5. Pins'
    <2> SUFFICES ASSUME NEW o \in Output, o <= pos0
                 PROVE  hw'[o] = Level(Default, o)
      BY <1>1 DEF Pins, PinSet, SetupPin, Level
    <2>1. CASE o = pos0
      BY <2>1, <1>1 DEF SetupPin, Inv, LevelType
    <2>2. CASE o # pos0
      <3>1. o < pos0
        BY <2>2, <1>1, Counts DEF Output
      <3>2. PinSet(o)
        BY <3>1 DEF PinSet, SetupPin
      <3> QED
        BY <2>2, <3>2, <1>1 DEF SetupPin, Inv, Start, Pins, LevelType
    <2> QED
      BY <2>1, <2>2
  <1>6. Stored' /\ MainCopied'
    BY <1>1 DEF SetupPin, Inv, Start, Stored, PwmSet, PwrSet, MainCopied, InMain
  <1> QED
    BY <1>2, <1>3, <1>4, <1>5, <1>6 DEF Inv, Start

LEMMA SetupPwmInv == ASSUME Inv, SetupPwm PROVE Inv'
  <1>1. /\ pos0 \in Output /\ ~ticked /\ pc1 = "off" /\ pc0' = "pwr"
        /\ Starting /\ Starting'
    BY DEF SetupPwm, Inv, ControlType, Start, Boot, Starting
  <1>2. StateType'
    <2>1. Default[Pwm(pos0)] \in Values(Pwm(pos0))
      BY <1>1, FieldOf, Counts DEF State
    <2>2. sys' \in State
      BY <1>1, <2>1, FieldOf, FieldWrite DEF SetupPwm, Inv, StateType
    <2> QED
      BY <2>2 DEF SetupPwm, Inv, StateType, core1
  <1>3. ControlType' /\ LevelType'
    BY <1>1 DEF SetupPwm, Inv, ControlType, LevelType, core1
  <1>4. Locks' /\ Complete' /\ Progress' /\ Boot' /\ CacheTrue'
    BY <1>1 DEF SetupPwm, Inv, Locks, Complete, Progress, Start, Boot,
                CacheTrue, core1
  <1>5. Pins'
    BY <1>1 DEF SetupPwm, Inv, Start, Pins, PinSet, Level, core1
  <1>6. Stored'
    <2> SUFFICES ASSUME NEW o \in Output, o \notin early'
                 PROVE  /\ o <= pos0 => sys'[Pwm(o)] = Default[Pwm(o)]
                        /\ o < pos0 => sys'[Pwr(o)] = Default[Pwr(o)]
      BY <1>1 DEF Stored, PwmSet, PwrSet, SetupPwm, core0
    <2>0. DOMAIN sys = Field /\ Pwm(pos0) \in Field
      BY <1>1, FieldOf DEF Inv, StateType, State
    <2>1. CASE o = pos0
      BY <2>0, <2>1, <1>1, Counts DEF SetupPwm, Output
    <2>2. CASE o # pos0
      <3>1. o \notin early
        BY <2>2 DEF SetupPwm
      <3>2. Pwm(o) # Pwm(pos0) /\ Pwr(o) # Pwm(pos0)
        BY <2>2, <1>1, Counts DEF Pwm, Pwr, Output
      <3>3. sys'[Pwm(o)] = sys[Pwm(o)] /\ sys'[Pwr(o)] = sys[Pwr(o)]
        BY <2>0, <3>2, FieldOf DEF SetupPwm
      <3>4. o <= pos0 => o < pos0
        BY <2>2, <1>1, Counts DEF Output
      <3>5. o < pos0 => PwmSet(o) /\ PwrSet(o)
        BY DEF PwmSet, PwrSet, SetupPwm
      <3> QED
        BY <1>1, <3>1, <3>3, <3>4, <3>5 DEF Inv, Start, Stored
    <2> QED
      BY <2>1, <2>2
  <1>7. MainCopied'
    BY <1>1 DEF MainCopied, InMain
  <1> QED
    BY <1>2, <1>3, <1>4, <1>5, <1>6, <1>7 DEF Inv, Start

LEMMA SetupPwrInv == ASSUME Inv, SetupPwr PROVE Inv'
  <1>1. /\ pos0 \in Output /\ ~ticked /\ pc1 = "off"
        /\ Starting /\ Starting'
    BY DEF SetupPwr, Inv, ControlType, Start, Boot, Starting
  <1>2. StateType'
    <2>1. Default[Pwr(pos0)] \in Values(Pwr(pos0))
      BY <1>1, FieldOf, Counts DEF State
    <2>2. sys' \in State
      BY <1>1, <2>1, FieldOf, FieldWrite DEF SetupPwr, Inv, StateType
    <2> QED
      BY <2>2 DEF SetupPwr, Inv, StateType, core1
  <1>3. ControlType' /\ LevelType'
    <2>1. pos0' \in 1 .. 2 * OutputCount + 1 /\ (pc0' = "pin" => pos0' \in Output)
      BY <1>1, Counts DEF SetupPwr, Output
    <2> QED
      BY <1>1, <2>1 DEF SetupPwr, Inv, ControlType, LevelType, core1
  <1>4. Locks' /\ Complete' /\ Progress' /\ Boot' /\ CacheTrue'
    BY <1>1 DEF SetupPwr, Inv, Locks, Complete, Progress, Start, Boot,
                CacheTrue, core1
  \* An output behind the loop's next position was behind it or is this one.
  <1>5. ASSUME NEW o \in Output, pc0' = "pin" => o < pos0'
        PROVE  o <= pos0
    BY <1>1, <1>5, Counts DEF SetupPwr, Output
  <1>6. Pins'
    <2> SUFFICES ASSUME NEW o \in Output, PinSet(o)'
                 PROVE  hw'[o] = Level(Default, o)
      BY DEF Pins, Level
    <2>1. PinSet(o)
      BY <1>5 DEF PinSet, SetupPwr
    <2> QED
      BY <1>1, <2>1 DEF SetupPwr, Inv, Start, Pins, core1
  <1>7. Stored'
    <2> SUFFICES ASSUME NEW o \in Output, o \notin early,
                        PwmSet(o)' \/ PwrSet(o)'
                 PROVE  /\ sys'[Pwm(o)] = Default[Pwm(o)]
                        /\ sys'[Pwr(o)] = Default[Pwr(o)]
      BY <1>1 DEF Stored, SetupPwr
    <2>0. DOMAIN sys = Field /\ Pwr(pos0) \in Field
      BY <1>1, FieldOf DEF Inv, StateType, State
    <2>1. o <= pos0
      BY <1>5 DEF PwmSet, PwrSet, SetupPwr
    <2>2. sys[Pwm(o)] = Default[Pwm(o)]
      BY <1>1, <2>1 DEF Inv, Start, Stored, PwmSet, SetupPwr
    <2>3. Pwm(o) # Pwr(pos0)
      BY <1>1, Counts DEF Pwm, Pwr, Output
    <2>4. sys'[Pwr(o)] = Default[Pwr(o)]
      <3>1. CASE o = pos0
        BY <2>0, <3>1 DEF SetupPwr
      <3>2. CASE o # pos0
        <4>1. Pwr(o) # Pwr(pos0) /\ o < pos0
          BY <3>2, <2>1, <1>1, Counts DEF Pwr, Output
        <4>2. sys[Pwr(o)] = Default[Pwr(o)]
          BY <1>1, <4>1 DEF Inv, Start, Stored, PwrSet
        <4> QED
          BY <2>0, <4>1, <4>2, FieldOf DEF SetupPwr
      <3> QED
        BY <3>1, <3>2
    <2> QED
      BY <2>0, <2>2, <2>3, <2>4, FieldOf DEF SetupPwr
  <1>8. MainCopied'
    <2>1. \A o \in Output : ~(Pwm(o) < 1) /\ ~(Pwr(o) < 1)
      BY Counts DEF Pwm, Pwr, Output
    <2>2. pc0' = "main" => pos0' = 1
      BY <1>1 DEF SetupPwr
    <2> QED
      BY <1>1, <2>1, <2>2 DEF MainCopied, InMain, Pwm, Pwr
  <1> QED
    BY <1>2, <1>3, <1>4, <1>6, <1>7, <1>8 DEF Inv, Start

LEMMA MainCopyInv == ASSUME Inv, MainCopy PROVE Inv'
  <1>1. ~ticked /\ pc1 = "off" /\ Starting
    BY DEF MainCopy, Inv, ControlType, Start, Boot, Starting
  <1>2. StateType'
    <2>1. CASE pos0 \in Field
      <3>1. sys[pos0] \in Values(pos0)
        BY <2>1 DEF Inv, StateType, State
      <3>2. c1' \in State
        BY <2>1, <3>1, FieldWrite DEF MainCopy, Inv, StateType
      <3> QED
        BY <3>2 DEF MainCopy, Inv, StateType
    <2>2. CASE pos0 \notin Field
      BY <2>2 DEF MainCopy, Inv, StateType
    <2> QED
      BY <2>1, <2>2
  <1>3. ControlType' /\ LevelType'
    <2>1. pos0' \in 1 .. 2 * OutputCount + 1
      BY Counts DEF MainCopy, Inv, ControlType, Field
    <2>2. pc0' \in {"main", "enter"}
      BY DEF MainCopy
    <2> QED
      BY <1>1, <2>1, <2>2 DEF MainCopy, Inv, ControlType, LevelType
  <1>4. Locks' /\ Complete' /\ Progress' /\ Boot' /\ CacheTrue'
    <2>1. pc0' # "copy" /\ pc0 # "copy"
      BY DEF MainCopy
    <2> QED
      BY <1>1, <2>1 DEF MainCopy, Inv, Locks, Complete, Progress, Start, Boot,
                        CacheTrue
  <1>5. Pins' /\ Stored'
    BY <1>1 DEF MainCopy, Inv, Start, Pins, PinSet, Stored, PwmSet, PwrSet,
                Starting, Level
  <1>6. ASSUME NEW o \in Output \ early, NEW f \in {Pwm(o), Pwr(o)}, InMain(f)'
        PROVE  c1'[f] = Default[f]
    <2>0. /\ f \in Field /\ DOMAIN c1 = Field /\ sys[f] = Default[f]
          /\ pos0 \in 1 .. 2 * OutputCount + 1
      BY <1>1, FieldOf DEF Inv, StateType, State, Start, Stored, PwmSet, PwrSet,
                           MainCopy, ControlType
    <2>1. CASE pos0 \in Field
      <3>1. f < pos0 + 1 /\ c1' = [c1 EXCEPT ![pos0] = sys[pos0]]
        BY <2>1, <1>6 DEF MainCopy, InMain, Starting
      <3>2. CASE f = pos0
        BY <2>0, <3>1, <3>2
      <3>3. CASE f # pos0
        <4>1. f < pos0
          BY <2>0, <3>1, <3>3, Counts DEF Field
        <4>2. InMain(f)
          BY <4>1 DEF InMain, MainCopy
        <4>3. c1[f] = Default[f]
          BY <1>1, <4>2 DEF Inv, Start, MainCopied
        <4> QED
          BY <2>0, <3>1, <3>3, <4>3
      <3> QED
        BY <3>2, <3>3
    <2>2. CASE pos0 \notin Field
      <3>1. f < pos0
        BY <2>0, <2>2, Counts DEF Field
      <3>2. InMain(f)
        BY <3>1 DEF InMain, MainCopy
      <3>3. c1[f] = Default[f]
        BY <1>1, <3>2 DEF Inv, Start, MainCopied
      <3> QED
        BY <2>2, <3>3 DEF MainCopy
    <2> QED
      BY <2>1, <2>2
  <1>7. MainCopied'
    BY <1>6 DEF MainCopied, MainCopy, Pwm, Pwr
  <1> QED
    BY <1>2, <1>3, <1>4, <1>5, <1>7 DEF Inv, Start

LEMMA LaunchInv == ASSUME Inv, Launch PROVE Inv'
  <1>1. ~Starting /\ ~Starting' /\ ~ticked
    BY DEF Launch, Starting, core0, Inv, Start, Boot
  <1>2. StateType' /\ ControlType' /\ LevelType'
    BY DEF Launch, Inv, StateType, ControlType, LevelType, core0
  <1>3. Locks' /\ Complete' /\ Progress' /\ CacheTrue'
    BY <1>1 DEF Launch, Inv, Locks, Complete, Progress, CacheTrue, core0
  <1>4. Start'
    BY <1>1 DEF Launch, Inv, Start, Boot, Pins, PinSet, Stored, MainCopied,
                InMain, Level, core0
  <1> QED
    BY <1>2, <1>3, <1>4 DEF Inv

-------------------------------------------------------------------------------
(* The copies *)

\* Tick, Enter0, Exit0: core0's control and the mutex only.
LEMMA Core0Inv ==
    ASSUME Inv, Tick \/ Enter0 \/ Exit0
    PROVE  Inv'
  <1>0. /\ UNCHANGED <<sys, core1, xfer, writes, early>>
        /\ ~Starting /\ ~Starting'
        /\ pc0' \in {"idle", "enter", "copy"}
    BY DEF Tick, Enter0, Exit0, Starting
  <1>1. StateType' /\ LevelType'
    BY <1>0 DEF Tick, Enter0, Exit0, Inv, StateType, LevelType, core1
  <1>2. ControlType'
    <2>1. 1 \in 1 .. 2 * OutputCount + 1
      BY Counts
    <2>2. mutex' \in {Nobody, "core0", "core1"} /\ pos0' \in 1 .. 2 * OutputCount + 1
      BY <2>1 DEF Tick, Enter0, Exit0, Inv, ControlType
    <2> QED
      BY <1>0, <2>2 DEF Inv, ControlType, core1
  <1>3. Start' /\ CacheTrue'
    <2>1. ticked => pc1' # "off"
      BY <1>0 DEF Inv, Start, Boot, core1
    <2> QED
      BY <1>0, <2>1, StartKept DEF core1
  <1>4. Locks' /\ Complete' /\ Progress'
    <2>1. CASE Tick
      BY <2>1, Counts DEF Tick, Inv, Locks, Complete, Progress, core1
    <2>2. CASE Enter0
      BY <2>2, Counts DEF Enter0, Inv, Locks, Complete, Progress, core1
    <2>3. CASE Exit0
      BY <2>3, Counts DEF Exit0, Inv, Locks, Complete, Progress, core1
    <2> QED
      BY <2>1, <2>2, <2>3
  <1> QED
    BY <1>1, <1>2, <1>3, <1>4 DEF Inv

\* core0 changes transfer_state only while core1 does not copy.
LEMMA Copy0Inv ==
    ASSUME Inv, Copy0
    PROVE  Inv'
  <1>1. mutex = "core0" /\ pc1 # "copy" /\ pos0 \in Field
    BY Counts DEF Copy0, Inv, Locks, ControlType
  <1>2. StateType'
    <2>1. sys[pos0] \in Values(pos0)
      BY <1>1 DEF Inv, StateType, State
    <2>2. xfer' \in State
      BY <1>1, <2>1, FieldWrite DEF Copy0, Inv, StateType
    <2> QED
      BY <2>2 DEF Copy0, Inv, StateType, core1
  <1>3. ControlType'
    <2>1. pos0 + 1 \in 1 .. 2 * OutputCount + 1
      BY <1>1, Counts DEF Field
    <2> QED
      BY <2>1 DEF Copy0, Inv, ControlType, core1
  <1>4. LevelType' /\ Start' /\ CacheTrue'
    <2>1. /\ UNCHANGED <<hw, cache, ticked, early, c1, pc1>>
          /\ ~Starting /\ ~Starting'
      BY DEF Copy0, Starting, core1
    <2>2. ticked => pc1' # "off"
      BY <2>1 DEF Inv, Start, Boot
    <2>3. Start' /\ CacheTrue'
      BY <2>1, <2>2, StartKept
    <2> QED
      BY <2>1, <2>3 DEF Inv, LevelType
  <1>5. Locks' /\ Complete' /\ Progress'
    BY <1>1, Counts DEF Copy0, Inv, Locks, Complete, Progress, core1
  <1> QED
    BY <1>2, <1>3, <1>4, <1>5 DEF Inv

LEMMA Enter1Inv ==
    ASSUME Inv, Enter1
    PROVE  Inv'
  <1>1. pc0 # "copy" /\ xfer = whole /\ ticked /\ ~Starting /\ ~Starting'
    BY Counts DEF Enter1, Inv, Locks, Complete, Start, Boot, Starting, core0
  <1>2. StateType' /\ LevelType' /\ Start' /\ CacheTrue'
    <2>1. StateType' /\ LevelType'
      BY <1>1 DEF Enter1, Inv, StateType, LevelType, core0
    <2>2. Start' /\ CacheTrue'
      BY <1>1, StartKept DEF Enter1
    <2> QED
      BY <2>1, <2>2
  <1>3. ControlType'
    <2>1. 1 \in 1 .. 2 * OutputCount + 1
      BY Counts
    <2> QED
      BY <2>1 DEF Enter1, Inv, ControlType, core0
  <1>4. Locks' /\ Complete'
    BY Counts DEF Enter1, Inv, Locks, Complete, core0
  <1>5. Progress'
    <2>1. \A f \in Field : ~(f < 1)
      BY Counts DEF Field
    <2> QED
      BY <2>1 DEF Enter1, Progress, core0
  <1> QED
    BY <1>2, <1>3, <1>4, <1>5 DEF Inv

LEMMA Copy1Inv ==
    ASSUME Inv, Copy1
    PROVE  Inv'
  <1>1. /\ mutex = "core1" /\ pc0 # "copy" /\ ticked /\ pos1 \in Field
        /\ ~Starting /\ ~Starting'
    BY Counts DEF Copy1, Inv, Locks, Start, Boot, Starting, core0
  <1>2. StateType'
    <2>1. xfer[pos1] \in Values(pos1)
      BY <1>1 DEF Inv, StateType, State
    <2>2. c1' \in State
      BY <1>1, <2>1, FieldWrite DEF Copy1, Inv, StateType
    <2> QED
      BY <2>2 DEF Copy1, Inv, StateType, core0
  <1>3. ControlType'
    <2>1. pos1 + 1 \in 1 .. 2 * OutputCount + 1
      BY <1>1, Counts DEF Field
    <2> QED
      BY <2>1 DEF Copy1, Inv, ControlType, core0
  <1>4. LevelType' /\ Start' /\ CacheTrue' /\ Locks' /\ Complete'
    <2>1. LevelType' /\ Locks' /\ Complete'
      BY <1>1 DEF Copy1, Inv, LevelType, Locks, Complete, core0
    <2>2. Start' /\ CacheTrue'
      BY <1>1, StartKept DEF Copy1
    <2> QED
      BY <2>1, <2>2
  <1>5. Progress'
    <2>1. pc1' = "copy" /\ got' = whole' /\ pos1' = pos1 + 1
      BY DEF Copy1, Inv, Progress, core0
    <2>2. ASSUME NEW f \in Field, f < pos1 + 1
          PROVE  c1'[f] = xfer[f]
      <3>1. c1' = [c1 EXCEPT ![pos1] = xfer[pos1]]
            /\ DOMAIN c1 = Field
        BY DEF Copy1, Inv, StateType, State
      <3>2. CASE f = pos1
        BY <1>1, <3>1, <3>2
      <3>3. CASE f < pos1
        <4>1. c1[f] = xfer[f]
          BY <3>3 DEF Copy1, Inv, Progress
        <4>2. f # pos1
          BY <3>3, <1>1, Counts DEF Field
        <4> QED
          BY <3>1, <4>1, <4>2
      <3> QED
        BY <1>1, <2>2, <3>2, <3>3, Counts DEF Field
    <2> QED
      BY <2>1, <2>2 DEF Copy1, Progress, core0
  <1> QED
    BY <1>2, <1>3, <1>4, <1>5 DEF Inv

\* At the end of core1's copy every field comes from the same transfer.
LEMMA Exit1Inv ==
    ASSUME Inv, Exit1
    PROVE  Inv'
  <1>1. /\ mutex = "core1" /\ pc0 # "copy" /\ ticked
        /\ pos1 = 2 * OutputCount + 1 /\ ~Starting /\ ~Starting'
    BY Counts DEF Exit1, Inv, Locks, Start, Boot, Starting, ControlType, Field,
                  core0
  <1>2. c1 = got
    <2>1. \A f \in Field : c1[f] = xfer[f]
      <3>1. \A f \in Field : f < pos1
        BY <1>1, Counts DEF Field
      <3> QED
        BY <3>1 DEF Exit1, Inv, Progress
    <2>2. xfer = whole /\ got = whole
      BY <1>1 DEF Exit1, Inv, Complete, Progress
    <2> QED
      BY <2>1, <2>2 DEF Inv, StateType, State
  <1>3. StateType' /\ LevelType' /\ Start' /\ CacheTrue' /\ Progress'
    <2>1. StateType' /\ LevelType' /\ Progress'
      BY <1>1, <1>2 DEF Exit1, Inv, StateType, LevelType, Progress, core0
    <2>2. Start' /\ CacheTrue'
      BY <1>1, StartKept DEF Exit1
    <2> QED
      BY <2>1, <2>2
  <1>4. ControlType'
    <2>1. 1 \in 1 .. 2 * OutputCount + 1
      BY Counts
    <2> QED
      BY <2>1 DEF Exit1, Inv, ControlType, core0
  <1>5. Locks' /\ Complete'
    BY <1>1, Counts DEF Exit1, Inv, Locks, Complete, core0
  <1> QED
    BY <1>3, <1>4, <1>5 DEF Inv

\* The first tick finds the defaults on the pins and in core1's copy but for
\* the early outputs; later ticks find on the pins what earlier ones wrote.
LEMMA EffectTickInv ==
    ASSUME Inv, EffectTick
    PROVE  Inv'
  <1>1. \A o \in Output : Level(c1, o) \in 0 .. MaxPwm
    BY LevelInRange DEF Inv, StateType
  <1>2. LevelType'
    BY <1>1 DEF EffectTick, Inv, LevelType
  <1>3. ~Starting /\ ~Starting' /\ pc1 = "idle"
    BY DEF EffectTick, Inv, Start, Boot, Starting, core0
  <1>4. CacheTrue'
    <2> SUFFICES ASSUME NEW o \in Output
                 PROVE  \/ /\ o \in early' /\ cache'[o] = 0
                           /\ hw'[o] = Level(Default, o)
                        \/ o \notin early' /\ cache'[o] = hw'[o]
      BY DEF CacheTrue, LeftLit, Level
    <2>1. CASE Level(c1, o) # cache[o]
      BY <2>1 DEF EffectTick
    <2>2. CASE Level(c1, o) = cache[o]
      <3>1. /\ hw'[o] = hw[o] /\ cache'[o] = cache[o]
            /\ o \in early' <=> o \in early
        BY <2>2 DEF EffectTick
      <3>2. CASE ticked
        BY <3>1, <3>2 DEF Inv, CacheTrue, LeftLit
      <3>3. CASE ~ticked
        <4>1. cache[o] = 0 /\ hw[o] = Level(Default, o)
          BY <3>3, <1>3 DEF Inv, Start, Boot, Pins, PinSet, Starting
        <4>2. o \notin early => Level(c1, o) = Level(Default, o)
          BY <3>3, <1>3 DEF Inv, Start, MainCopied, InMain, Level
        <4> QED
          BY <2>2, <3>1, <4>1, <4>2
      <3> QED
        BY <3>2, <3>3
    <2> QED
      BY <2>1, <2>2
  <1>5. Start'
    BY <1>3 DEF EffectTick, Start, Boot, Pins, Stored, MainCopied
  <1>6. StateType' /\ ControlType' /\ Locks' /\ Complete' /\ Progress'
    BY DEF EffectTick, Inv, StateType, ControlType, Locks, Complete, Progress,
           core0
  <1> QED
    BY <1>2, <1>4, <1>5, <1>6 DEF Inv

LEMMA InvNext == Inv /\ [Next]_vars => Inv'
  <1> SUFFICES ASSUME Inv, [Next]_vars PROVE Inv'
    OBVIOUS
  <1>1. CASE UNCHANGED vars
    <2>1. /\ UNCHANGED <<sys, xfer, pc0, pos0, whole, c1, pc1, pos1, hw, cache>>
          /\ UNCHANGED <<ticked, got, mutex, writes, early>>
      BY <1>1 DEF vars, core0, core1
    <2>2. StateType' /\ ControlType' /\ LevelType' /\ Locks' /\ Complete'
      BY <2>1 DEF Inv, StateType, ControlType, LevelType, Locks, Complete
    <2>3. Progress' /\ CacheTrue' /\ Boot' /\ Pins'
      BY <2>1 DEF Inv, Progress, CacheTrue, LeftLit, Start, Boot, Starting,
                  Pins, PinSet, Level
    <2>4. Stored' /\ MainCopied'
      BY <2>1 DEF Inv, Start, Starting, Stored, PwmSet, PwrSet, MainCopied, InMain
    <2> QED
      BY <2>2, <2>3, <2>4 DEF Inv, Start
  <1>2. CASE Next
    BY <1>2, CommandInv, TimerInv, CallbackInv, SetupPinInv, SetupPwmInv,
       SetupPwrInv, MainCopyInv, LaunchInv, Core0Inv, Copy0Inv, Enter1Inv,
       Copy1Inv, Exit1Inv, EffectTickInv DEF Next
  <1> QED
    BY <1>1, <1>2

LEMMA Invariance == Spec => []Inv
  BY InvInit, InvNext, PTL DEF Spec

-------------------------------------------------------------------------------
\* Every copy of the state stays within what the program may hold: duty cycles
\* and power flags in range in all three copies, and on the pins.
THEOREM TypeCorrect == Spec => []TypeOK
  <1>1. Inv => TypeOK
    BY DEF Inv, StateType, ControlType, LevelType, TypeOK
  <1> QED
    BY <1>1, Invariance, PTL

\* core1 never works with a mixture of two transfers.
THEOREM CopiesAreWhole == Spec => []CopiedWhole
  <1>1. Inv => CopiedWhole
    BY DEF Inv, Progress, CopiedWhole
  <1> QED
    BY <1>1, Invariance, PTL

\* core1's memory of the pins is true from its first effect tick on, whatever
\* the web server changed while the program started, but for an output it
\* switched off between setup's loop and main's copy: that pin keeps the level
\* of the defaults, and the memory zero, until core1 first writes it.
THEOREM CacheStaysTrue == Spec => []CacheTrue
  <1>1. Inv => CacheTrue
    BY DEF Inv
  <1> QED
    BY <1>1, Invariance, PTL

===============================================================================
