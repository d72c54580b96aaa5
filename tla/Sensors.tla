------------------------------- MODULE Sensors -------------------------------
(***************************************************************************)
(* The virtual sensors (src/temp.c, src/i2c.c): core0's main loop          *)
(* recomputes all of them every few seconds, reads those on the I2C bus    *)
(* one poll at a time, and executes the commands that write a sensor or    *)
(* give it another source between any two of these steps.                  *)
(*                                                                         *)
(* Temperatures are integers, an average is rounded; a tick is a second.   *)
(* When a poll is due is left open, except that a delay that is not        *)
(* positive ends the polling of the bus.                                   *)
(***************************************************************************)
EXTENDS Integers, FiniteSets, SequencesExt

CONSTANTS
    N,              \* VSENSOR_COUNT
    Boot,           \* the sources of all sensors that a start may find
    Orders,         \* what vsensor_source may be told, for each sensor
    Temps,          \* temperatures written or measured
    MaxChanges      \* bound: commands that change a source

Sensor == 1 .. N
Pico == 101             \* what is above 100 is no sensor of the table

\* struct vsensor_input
VsensorInput ==
    [mode : STRING, default : Int, timeout : Nat, list : Seq(Sensor \cup {Pico})]

ASSUME SensorAssumption ==
    /\ N \in Nat \ {0} /\ N <= 100 /\ Temps \subseteq Int /\ MaxChanges \in Nat
    /\ \A c \in Boot : c \in [Sensor -> VsensorInput]
    /\ DOMAIN Orders = Sensor
    /\ \A i \in Sensor : Orders[i] \subseteq VsensorInput

VARIABLES
    source,         \* conf->vsensors: mode, default_temp, timeout, sensors
    context,        \* the sensors that have an i2c_context
    temp,           \* st->temp: the processor's own temperature
    vtemp,          \* st->vtemp
    age,            \* seconds since vtemp_updated, up to MaxAge
    step, sensor,   \* i2c_read_temps's static variables; sensor from 1 on
    delay,          \* i2c_temp_delay
    changes,        \* commands so far
    polls,          \* history: polls since an input changed, up to N + 1
    given,          \* history: seconds since a value was written or read
    steady, reads   \* history: on the bus since the round began; its readings

bus == <<step, sensor, delay, steady, reads>>
values == <<temp, vtemp, age, given, polls>>
vars == <<source, context, bus, values, changes>>

Direct == {"manual", "i2c"}
Timeouts(sources) == {s.timeout : s \in sources}
MaxAge ==
    2 + Max(UNION {Timeouts(Orders[i]) : i \in Sensor}
            \cup UNION {Timeouts(Range(c)) : c \in Boot})
Older(s) == IF s < MaxAge THEN s + 1 ELSE s

OnBus(i) == source[i].mode = "i2c" /\ i \in context

\* setup_i2c_bus: sensors that answer get a context; clear_state: all is zero
Init ==
    /\ source \in Boot
    /\ context \in SUBSET {i \in Sensor : source[i].mode = "i2c"}
    /\ temp = 0 /\ vtemp = [i \in Sensor |-> 0]
    /\ age = [i \in Sensor |-> 0] /\ given = age
    /\ step = 0 /\ sensor = 1 /\ delay = 1000
    /\ changes = 0 /\ polls = 0 /\ steady = {} /\ reads = <<>>

-------------------------------------------------------------------------------
(* update_temp *)

\* The sources of a derived sensor, together
Combined(mode, vals) ==
    IF vals = <<>> THEN 0
    ELSE CASE mode = "max" -> Max(Range(vals))
           [] mode = "min" -> Min(Range(vals))
           [] mode = "avg" -> FoldLeft(LAMBDA a, b : a + b, 0, vals) \div Len(vals)
           [] mode = "delta" -> IF Len(vals) = 1 THEN vals[1] ELSE vals[1] - vals[2]

\* get_vsensor, with the temperatures v
GetVsensor(i, t, v) ==
    LET s == source[i]
        Value(j) == IF j > 100 THEN t ELSE v[j]
    IN  IF s.mode \in Direct
        THEN IF s.timeout > 0 /\ v[i] # s.default /\ age[i] > s.timeout
             THEN s.default ELSE v[i]
        ELSE IF s.mode = "pico" THEN t
        ELSE Combined(s.mode, [k \in DOMAIN s.list |-> Value(s.list[k])])

\* Mutant: each sensor is computed from the values before the poll
UpdatedAtOnce(t) == [i \in Sensor |-> GetVsensor(i, t, vtemp)]

\* One after the other: a sensor sees the new values of those before it
Updated(t) ==
    LET v[i \in 0 .. N] ==
            IF i = 0 THEN vtemp
            ELSE [v[i - 1] EXCEPT ![i] = GetVsensor(i, t, v[i - 1])]
    IN  v[N]

UpdateTemp ==
    /\ temp' \in Temps
    /\ vtemp' = Updated(temp')
    /\ polls' = IF \/ temp' # temp
                   \/ \E i \in Sensor :
                        source[i].mode \in Direct /\ vtemp'[i] # vtemp[i]
                THEN 1 ELSE IF polls <= N THEN polls + 1 ELSE polls
    /\ UNCHANGED <<source, context, bus, age, given, changes>>

-------------------------------------------------------------------------------
(* i2c_read_temps *)

\* Mutant: nothing to wait for is a delay of zero
FirstWaitZero(times) == Max(times \cup {0})

\* The longest conversion; 15 seconds when there is none
FirstWait(times) == IF \E t \in times : t > 0 THEN Max(times) ELSE 15000

\* No sensor has answered at the start: there is no other poll
NoBus ==
    /\ delay > 0 /\ context = {}
    /\ delay' = -1
    /\ UNCHANGED <<source, context, step, sensor, steady, reads, values, changes>>

\* All sensors are told to convert; some may fail, some need no time
StartRound ==
    /\ delay > 0 /\ context # {} /\ step # 1
    /\ LET on == {i \in Sensor : OnBus(i)}
       IN  /\ \E times \in SUBSET {-1, 0, 750} :
                /\ on = {} <=> times = {} /\ Cardinality(times) <= Cardinality(on)
                /\ delay' = FirstWait(times)
           /\ steady' = on
    /\ step' = 1 /\ sensor' = 1 /\ reads' = <<>>
    /\ UNCHANGED <<source, context, values, changes>>

\* Mutant: the search for the next sensor starts one too late
AfterSkipping(i) == i + 2

\* Where the next poll goes on
After(i) == i + 1

\* Nothing is left to read, or the last sensor was
Rest(i) ==
    /\ sensor' = After(i)
    /\ IF After(i) > N THEN step' = 2 /\ delay' = 10000
                       ELSE step' = 1 /\ delay' = 50

NextOnBus == {i \in sensor .. N : OnBus(i)}

\* A measurement, or an error, of the next sensor
ReadNext ==
    /\ delay > 0 /\ context # {} /\ step = 1 /\ NextOnBus # {}
    /\ LET i == Min(NextOnBus)
       IN  /\ Rest(i)
           /\ reads' = Append(reads, i)
           /\ \/ \E t \in Temps :
                    /\ vtemp' = [vtemp EXCEPT ![i] = t]
                    /\ age' = [age EXCEPT ![i] = 0]
                    /\ given' = [given EXCEPT ![i] = 0]
                    /\ polls' = 0
              \/ UNCHANGED <<vtemp, age, given, polls>>
    /\ UNCHANGED <<source, context, temp, steady, changes>>

NoneLeft ==
    /\ delay > 0 /\ context # {} /\ step = 1 /\ NextOnBus = {}
    /\ Rest(N)
    /\ UNCHANGED <<source, context, steady, reads, values, changes>>

I2cPoll == NoBus \/ StartRound \/ ReadNext \/ NoneLeft

-------------------------------------------------------------------------------
(* Commands, and time *)

\* Mutant: the time of the value is not noted
WriteUnstamped(i, t) ==
    /\ source[i].mode = "manual"
    /\ vtemp' = [vtemp EXCEPT ![i] = t]
    /\ given' = [given EXCEPT ![i] = 0]
    /\ polls' = 0
    /\ UNCHANGED <<source, context, bus, temp, age, changes>>

\* cmd_vsensor_write
Write(i, t) ==
    /\ source[i].mode = "manual"
    /\ vtemp' = [vtemp EXCEPT ![i] = t]
    /\ age' = [age EXCEPT ![i] = 0]
    /\ given' = [given EXCEPT ![i] = 0]
    /\ polls' = 0
    /\ UNCHANGED <<source, context, bus, temp, changes>>

\* cmd_vsensor_source stores what belongs to the mode; the value, its time and
\* the context stay as they are
SetSource(i, s) ==
    /\ changes < MaxChanges /\ changes' = changes + 1
    /\ source' = [source EXCEPT ![i] =
            CASE s.mode = "manual" -> [s EXCEPT !.list = source[i].list]
              [] s.mode = "i2c" -> [source[i] EXCEPT !.mode = "i2c"]
              [] OTHER -> [source[i] EXCEPT !.mode = s.mode, !.list = s.list]]
    /\ polls' = 0
    /\ steady' = IF s.mode = "i2c" THEN steady ELSE steady \ {i}
    /\ UNCHANGED <<context, step, sensor, delay, reads, temp, vtemp, age, given>>

Tick ==
    /\ age' = [i \in Sensor |-> Older(age[i])]
    /\ given' = [i \in Sensor |-> Older(given[i])]
    /\ UNCHANGED <<source, context, bus, temp, vtemp, polls, changes>>

Next ==
    \/ UpdateTemp \/ I2cPoll \/ Tick
    \/ \E i \in Sensor :
        \/ \E t \in Temps : Write(i, t)
        \/ \E s \in Orders[i] : SetSource(i, s)

\* The main loop comes round to the bus for ever
Fairness == WF_vars(I2cPoll)

Spec == Init /\ [][Next]_vars /\ Fairness

-------------------------------------------------------------------------------
\* Polls until a change of any input has reached sensor i; more than N + 1 when
\* it depends on itself
Derived(i) == source[i].mode \notin Direct \cup {"pico"}
SourcesOf(i) == Range(source[i].list) \ {Pico}

Lag(i) ==
    LET lag[n \in 0 .. N] ==
            [j \in Sensor |->
                IF ~Derived(j) THEN 0
                ELSE IF n = 0 THEN N + 2
                ELSE Max({0} \cup {lag[n - 1][k] + (IF k > j THEN 1 ELSE 0) :
                                        k \in SourcesOf(j)})]
    IN  lag[N][i]

(***************************************************************************)
(* A sensor derived from others agrees with them, through any chain of     *)
(* sources and whatever was written, read or timed out, after one poll     *)
(* more than there are sources on the chain that come after the sensor     *)
(* that uses them (update_temp goes through the table once).               *)
(***************************************************************************)
FollowsSources ==
    \A i \in Sensor :
        source[i].mode \notin Direct /\ polls > Lag(i)
            => vtemp[i] = GetVsensor(i, temp, vtemp)

(***************************************************************************)
(* A round on the bus reads every sensor that was on it all the time, once *)
(* each and in their order, although commands take sensors off the bus and *)
(* put them on while it lasts.                                             *)
(***************************************************************************)
RoundReadsAll ==
    /\ \A j, k \in DOMAIN reads : j < k => reads[j] < reads[k]
    /\ step = 2 => steady \subseteq Range(reads)

(***************************************************************************)
(* A value that was written or measured lasts for its timeout ("timeout    *)
(* (in seconds) when temperature will revert back to default temperature   *)
(* after last update"); then it is the default, and nothing else.          *)
(***************************************************************************)
LastsForTimeout ==
    [][\A i \in Sensor :
        source[i].mode \in Direct /\ vtemp'[i] # vtemp[i] /\ given'[i] # 0 =>
            /\ source[i].timeout > 0 /\ given[i] > source[i].timeout
            /\ vtemp'[i] = source[i].default]_vars

(***************************************************************************)
(* A sensor that has answered at the start is read again and again for as  *)
(* long as it is on the bus: the polling never comes to a stop.            *)
(***************************************************************************)
ReadForEver ==
    \A i \in Sensor : []<>(~OnBus(i) \/ (reads # <<>> /\ Last(reads) = i))

===============================================================================
