---------------------------- MODULE SensorsProofs ----------------------------
(***************************************************************************)
(* A round on the bus reads each sensor that stays on it (RoundReadsAll),  *)
(* derived sensors agree with their sources (FollowsSources), and values   *)
(* last for their timeout (LastsForTimeout); for any number of sensors,    *)
(* sources and commands.                                                   *)
(*                                                                         *)
(* RoundReadsAll speaks of the end of a round.  The invariant says what    *)
(* holds in the middle of one: the sensors read lie before the place where *)
(* the next poll goes on, and of those that stayed on the bus all that lie *)
(* before it have been read.                                               *)
(*                                                                         *)
(* FollowsSources is about a pass over the table (update_temp) and the     *)
(* length of chains, which Sensors defines by recursion.  That a pass      *)
(* computes each sensor from new values before it and old ones behind      *)
(* (UpdatedEach), and that a sensor lags behind each source (LagsBehind),  *)
(* are shown first, by counting up the table and the chains (CountingUp).  *)
(***************************************************************************)
EXTENDS Sensors, TLAPS, WellFoundedInduction

Types ==
    /\ source \in [Sensor -> VsensorInput]
    /\ sensor \in Nat \ {0} /\ reads \in Seq(Sensor)
    /\ steady \subseteq Sensor

StillOnBus == step = 1 => \A i \in steady : OnBus(i)

InOrder == \A j, k \in DOMAIN reads : j < k => reads[j] < reads[k]

Behind == step = 1 => \A j \in DOMAIN reads : reads[j] < sensor

AllBehind ==
    /\ step = 1 => \A i \in steady : i < sensor => i \in Range(reads)
    /\ step = 2 => steady \subseteq Range(reads)

Inv == Types /\ StillOnBus /\ InOrder /\ Behind /\ AllBehind

-------------------------------------------------------------------------------
LEMMA SensorsAreNumbers ==
    N \in Nat \ {0} /\ Sensor \subseteq Nat \ {0}
<1> QED BY SensorAssumption DEF Sensor

\* The search for the next sensor finds the first one
LEMMA MinOfSensors ==
    ASSUME NEW S, S \subseteq Nat, S # {}
    PROVE  Min(S) \in S /\ \A x \in S : Min(S) <= x
<1>1. PICK x \in S : \A y \in S : ~ (<<y, x>> \in OpToRel(<, Nat))
    BY NatLessThanWellFounded, WFMin
<1>2. \A y \in S : ~ (y < x)
    BY <1>1 DEF OpToRel
<1>3. \A y \in S : x <= y
    BY <1>2
<1> QED BY <1>3 DEF Min

\* One more reading
LEMMA OneMore ==
    ASSUME NEW s \in Seq(Sensor), NEW i \in Sensor
    PROVE  /\ Append(s, i) \in Seq(Sensor)
           /\ DOMAIN Append(s, i) = 1 .. Len(s) + 1 /\ DOMAIN s = 1 .. Len(s)
           /\ \A j \in DOMAIN s : Append(s, i)[j] = s[j]
           /\ Append(s, i)[Len(s) + 1] = i
           /\ Range(Append(s, i)) = Range(s) \cup {i}
<1>1. /\ Append(s, i) \in Seq(Sensor)
      /\ DOMAIN Append(s, i) = 1 .. Len(s) + 1 /\ DOMAIN s = 1 .. Len(s)
      /\ \A j \in DOMAIN s : Append(s, i)[j] = s[j]
      /\ Append(s, i)[Len(s) + 1] = i
    OBVIOUS
<1>2. \A j \in 1 .. Len(s) + 1 : j \in 1 .. Len(s) \/ j = Len(s) + 1
    OBVIOUS
<1>3. Range(Append(s, i)) = Range(s) \cup {i}
    BY <1>1, <1>2 DEF Range
<1> QED BY <1>1, <1>3

\* Induction up to M, for a set instead of a predicate: the least number that
\* is not in it cannot be
LEMMA CountingUp ==
    ASSUME NEW M \in Nat, NEW S, 0 \in S,
           \A n \in 0 .. M : n \in S /\ n < M => n + 1 \in S
    PROVE  0 .. M \subseteq S
<1> DEFINE Left == (0 .. M) \ S
<1> SUFFICES ASSUME Left # {} PROVE FALSE
  OBVIOUS
<1>0. Left \subseteq Nat
  OBVIOUS
<1> HIDE DEF Left
<1>1. PICK x \in Left : \A y \in Left : ~ (<<y, x>> \in OpToRel(<, Nat))
  BY <1>0, NatLessThanWellFounded, WFMin
<1>2. \A y \in Left : ~ (y < x)
  BY <1>0, <1>1 DEF OpToRel
<1> USE DEF Left
<1>3. x \in 1 .. M /\ x - 1 \in 0 .. M /\ x - 1 < x /\ x - 1 < M
  OBVIOUS
<1>4. x - 1 \in S
  BY <1>2, <1>3
<1> QED  BY <1>3, <1>4

-------------------------------------------------------------------------------
(* update_temp's pass over the table *)

NextOf(i, t, v) == [v EXCEPT ![i] = GetVsensor(i, t, v)]

LEMMA UpdatedRec ==
    ASSUME N \in Nat, NEW t
    PROVE  \E v : /\ v = [i \in 0 .. N |-> IF i = 0 THEN vtemp ELSE NextOf(i, t, v[i - 1])]
                  /\ Updated(t) = v[N]
<1> DEFINE Upto(m, f) == f = [i \in 0 .. m |-> IF i = 0 THEN vtemp ELSE NextOf(i, t, f[i - 1])]
           S == {m \in 0 .. N : \E f : Upto(m, f)}
<1>1. 0 \in S
  <2>1. Upto(0, [i \in 0 .. 0 |-> vtemp])
    OBVIOUS
  <2> HIDE DEF Upto
  <2>2. \E f : Upto(0, f)
    BY <2>1
  <2> QED  BY <2>2
<1>2. ASSUME NEW m \in 0 .. N, m \in S, m < N PROVE m + 1 \in S
  <2>1. PICK f : Upto(m, f)
    BY <1>2
  <2> DEFINE g == [i \in 0 .. m + 1 |-> IF i <= m THEN f[i] ELSE NextOf(i, t, f[i - 1])]
  <2>2. \A i \in 0 .. m + 1 : g[i] = IF i = 0 THEN vtemp ELSE NextOf(i, t, g[i - 1])
    <3> SUFFICES ASSUME NEW i \in 0 .. m + 1
                 PROVE  g[i] = IF i = 0 THEN vtemp ELSE NextOf(i, t, g[i - 1])
      OBVIOUS
    <3>1. CASE i = 0
      BY <2>1, <3>1
    <3>2. CASE i # 0
      <4>1. g[i - 1] = f[i - 1]
        BY <3>2
      <4> HIDE DEF g
      <4>2. g[i] = IF i <= m THEN f[i] ELSE NextOf(i, t, f[i - 1])
        BY DEF g
      <4>3. ASSUME i <= m PROVE f[i] = NextOf(i, t, f[i - 1])
        <5>1. i \in 0 .. m
          BY <4>3
        <5> QED  BY <2>1, <3>2, <5>1
      <4> QED  BY <3>2, <4>1, <4>2, <4>3
    <3> QED  BY <3>1, <3>2
  <2>3. Upto(m + 1, g)
    BY <2>2
  <2> HIDE DEF Upto
  <2>4. \E v : Upto(m + 1, v)
    BY <2>3
  <2> QED  BY <1>2, <2>4
<1> HIDE DEF S
<1>3. N \in S
  BY <1>1, <1>2, CountingUp
<1>4. \E v : Upto(N, v)
  BY <1>3 DEF S
<1>5. Updated(t) = (CHOOSE v : Upto(N, v))[N]
  BY Zenon DEF Updated, NextOf
<1> QED  BY <1>4, <1>5

\* The value of a sensor is computed from the new values of the sensors before
\* it and the old ones of the others.
Mixed(i, v) == [j \in Sensor |-> IF j < i THEN v[j] ELSE vtemp[j]]

LEMMA UpdatedEach ==
    ASSUME vtemp = [j \in Sensor |-> vtemp[j]], NEW t
    PROVE  /\ Updated(t) = [j \in Sensor |-> Updated(t)[j]]
           /\ \A i \in Sensor :
                Updated(t)[i] = GetVsensor(i, t, Mixed(i, Updated(t)))
<1>1. N \in Nat \ {0} /\ Sensor = 1 .. N
  BY SensorAssumption DEF Sensor
<1>2. PICK v : /\ v = [i \in 0 .. N |-> IF i = 0 THEN vtemp ELSE NextOf(i, t, v[i - 1])]
               /\ Updated(t) = v[N]
  BY <1>1, UpdatedRec
<1>3. v[0] = vtemp /\ \A n \in 0 .. N : n < N => v[n + 1] = NextOf(n + 1, t, v[n])
  <2>1. v[0] = vtemp
    BY <1>1, <1>2
  <2>2. ASSUME NEW n \in 0 .. N, n < N PROVE v[n + 1] = NextOf(n + 1, t, v[n])
    <3>1. n + 1 \in 0 .. N /\ n + 1 # 0 /\ (n + 1) - 1 = n
      BY <1>1, <2>2
    <3> QED  BY <1>2, <3>1
  <2> QED  BY <2>1, <2>2
<1> DEFINE S == {n \in 0 .. N :
                    /\ v[n] = [j \in Sensor |-> v[n][j]]
                    /\ \A j \in Sensor : j > n => v[n][j] = vtemp[j]
                    /\ \A j \in Sensor : j <= n =>
                            /\ v[n][j] = v[j][j]
                            /\ v[j][j] = GetVsensor(j, t, v[j - 1])}
<1>4. 0 \in S
  BY <1>1, <1>3
<1>5. ASSUME NEW n \in 0 .. N, n \in S, n < N PROVE n + 1 \in S
  <2>1. v[n + 1] = [v[n] EXCEPT ![n + 1] = GetVsensor(n + 1, t, v[n])]
    BY <1>3, <1>5 DEF NextOf
  <2>2. n + 1 \in Sensor /\ (n + 1) - 1 = n
    BY <1>1, <1>5
  <2>3. v[n + 1] = [j \in Sensor |-> v[n + 1][j]] /\ v[n + 1][n + 1] = GetVsensor(n + 1, t, v[n])
    BY <1>5, <2>1, <2>2
  <2>4. \A j \in Sensor : j # n + 1 => v[n + 1][j] = v[n][j]
    BY <1>5, <2>1
  <2>5. \A j \in Sensor : j > n + 1 => v[n + 1][j] = vtemp[j]
    BY <1>1, <1>5, <2>4
  <2>6. ASSUME NEW j \in Sensor, j <= n + 1
        PROVE  v[n + 1][j] = v[j][j] /\ v[j][j] = GetVsensor(j, t, v[j - 1])
    <3>1. CASE j = n + 1
      BY <2>2, <2>3, <3>1
    <3>2. CASE j <= n
      BY <1>1, <1>5, <2>4, <3>2
    <3> QED  BY <1>1, <2>6, <3>1, <3>2
  <2> HIDE DEF S
  <2>7. n + 1 \in 0 .. N
    BY <1>1, <1>5
  <2> QED  BY <2>3, <2>5, <2>6, <2>7 DEF S
<1> HIDE DEF S
<1>6. 0 .. N \subseteq S
  BY <1>1, <1>4, <1>5, CountingUp
<1>7. N \in S /\ \A j \in Sensor : j <= N
  BY <1>1, <1>6
<1>8. v[N] = [j \in Sensor |-> v[N][j]] /\ \A j \in Sensor : v[N][j] = v[j][j]
  BY <1>7 DEF S
<1>9. ASSUME NEW i \in Sensor PROVE v[N][i] = GetVsensor(i, t, Mixed(i, v[N]))
  <2>1. i - 1 \in S /\ i \in S
    BY <1>1, <1>6
  <2>2. v[i - 1] = [j \in Sensor |-> v[i - 1][j]]
    BY <2>1 DEF S
  <2>3. \A j \in Sensor : v[i - 1][j] = IF j < i THEN v[N][j] ELSE vtemp[j]
    BY <1>1, <1>8, <2>1 DEF S
  <2>4. v[N][i] = GetVsensor(i, t, v[i - 1])
    BY <1>1, <1>8, <2>1 DEF S
  <2>5. v[i - 1] = Mixed(i, v[N])
    BY <2>2, <2>3 DEF Mixed
  <2> QED  BY <2>4, <2>5
<1> QED  BY <1>2, <1>8, <1>9


-------------------------------------------------------------------------------
(* How far a sensor lies behind its sources *)

\* The largest of numbers that have a bound
LEMMA MaxOfBounded ==
    ASSUME NEW b \in Nat, NEW S, S \subseteq 0 .. b, S # {}
    PROVE  Max(S) \in S /\ \A x \in S : x <= Max(S)
<1> DEFINE D == {b - x : x \in S}
<1>1. D \subseteq Nat /\ D # {}
  <2>1. \A x \in S : b - x \in Nat
    OBVIOUS
  <2> QED  BY <2>1
<1>2. Min(D) \in D /\ \A y \in D : Min(D) <= y
  <2> HIDE DEF D
  <2> QED  BY <1>1, MinOfSensors
<1>3. PICK x \in S : Min(D) = b - x
  BY <1>2
<1>4. \A y \in S : b - y \in D
  OBVIOUS
<1>5. ASSUME NEW y \in S PROVE x >= y
  <2>1. b - x <= b - y
    BY <1>2, <1>3, <1>4
  <2>2. x \in Nat /\ y \in Nat
    OBVIOUS
  <2> QED  BY <2>1, <2>2
<1> QED  BY <1>5 DEF Max

\* What the sources of sensor j give it, if they lag behind by l
Gives(j, l) == {l[k] + (IF k > j THEN 1 ELSE 0) : k \in SourcesOf(j)}
LagOf(n, j, l) ==
    IF ~Derived(j) THEN 0 ELSE IF n = 0 THEN N + 2 ELSE Max({0} \cup Gives(j, l))

LEMMA LagRec ==
    \E lag : /\ lag = [n \in 0 .. N |-> [j \in Sensor |-> LagOf(n, j, lag[n - 1])]]
             /\ \A i \in Sensor : Lag(i) = lag[N][i]
<1> DEFINE Upto(m, f) == f = [n \in 0 .. m |-> [j \in Sensor |-> LagOf(n, j, f[n - 1])]]
           S == {m \in 0 .. N : \E f : Upto(m, f)}
<1>1. 0 \in S
  <2> DEFINE f == [n \in 0 .. 0 |-> [j \in Sensor |-> IF ~Derived(j) THEN 0 ELSE N + 2]]
  <2>1. Upto(0, f)
    BY DEF LagOf
  <2> HIDE DEF Upto
  <2>2. \E g : Upto(0, g)
    BY <2>1
  <2> QED  BY <2>2, SensorAssumption
<1>2. ASSUME NEW m \in 0 .. N, m \in S, m < N PROVE m + 1 \in S
  <2>1. PICK f : Upto(m, f)
    BY <1>2
  <2> DEFINE g == [n \in 0 .. m + 1 |->
                    IF n <= m THEN f[n] ELSE [j \in Sensor |-> LagOf(n, j, f[n - 1])]]
  <2>2. \A n \in 0 .. m + 1 : g[n] = [j \in Sensor |-> LagOf(n, j, g[n - 1])]
    <3> SUFFICES ASSUME NEW n \in 0 .. m + 1
                 PROVE  g[n] = [j \in Sensor |-> LagOf(n, j, g[n - 1])]
      OBVIOUS
    <3>1. CASE n = 0
      BY <2>1, <3>1 DEF LagOf
    <3>2. CASE n # 0
      <4>1. g[n - 1] = f[n - 1]
        BY <3>2
      <4> HIDE DEF g
      <4>2. g[n] = IF n <= m THEN f[n] ELSE [j \in Sensor |-> LagOf(n, j, f[n - 1])]
        BY DEF g
      <4>3. ASSUME n <= m PROVE f[n] = [j \in Sensor |-> LagOf(n, j, f[n - 1])]
        <5>1. n \in 0 .. m
          BY <4>3
        <5> QED  BY <2>1, <5>1
      <4> QED  BY <3>2, <4>1, <4>2, <4>3
    <3> QED  BY <3>1, <3>2
  <2>3. Upto(m + 1, g)
    BY <2>2
  <2> HIDE DEF Upto
  <2>4. \E f1 : Upto(m + 1, f1)
    BY <2>3
  <2> QED  BY <1>2, <2>4, SensorAssumption
<1> HIDE DEF S
<1>3. N \in S
  BY <1>1, <1>2, CountingUp, SensorAssumption
<1>4. \E f : Upto(N, f)
  BY <1>3 DEF S
<1>5. \A i \in Sensor : Lag(i) = (CHOOSE f : Upto(N, f))[N][i]
  BY Zenon DEF Lag, LagOf, Gives
<1> QED  BY <1>4, <1>5

\* A sensor that does not depend on itself lags behind its sources.
LEMMA LagsBehind ==
    ASSUME Types, NEW i \in Sensor
    PROVE  /\ Lag(i) \in Nat /\ (~Derived(i) => Lag(i) = 0)
           /\ Derived(i) /\ Lag(i) <= N + 1 =>
                /\ i \notin SourcesOf(i)
                /\ \A k \in SourcesOf(i) :
                    Lag(k) + (IF k > i THEN 1 ELSE 0) <= Lag(i)
<1>1. N \in Nat \ {0} /\ Sensor = 1 .. N /\ Sensor \subseteq Nat
  BY SensorAssumption DEF Sensor
<1>2. PICK lag : /\ lag = [n \in 0 .. N |-> [j \in Sensor |-> LagOf(n, j, lag[n - 1])]]
                 /\ \A j \in Sensor : Lag(j) = lag[N][j]
  BY LagRec
<1>3. \A j \in Sensor : lag[0][j] = IF ~Derived(j) THEN 0 ELSE N + 2
  <2>1. 0 \in 0 .. N
    BY <1>1
  <2> QED  BY <1>2, <2>1 DEF LagOf
<1>4. \A n \in 0 .. N : n < N =>
        \A j \in Sensor : lag[n + 1][j] =
            IF ~Derived(j) THEN 0 ELSE Max({0} \cup Gives(j, lag[n]))
  <2> SUFFICES ASSUME NEW n \in 0 .. N, n < N, NEW j \in Sensor
               PROVE  lag[n + 1][j] =
                        IF ~Derived(j) THEN 0 ELSE Max({0} \cup Gives(j, lag[n]))
    OBVIOUS
  <2>1. n + 1 \in 0 .. N /\ n + 1 # 0 /\ (n + 1) - 1 = n
    BY <1>1
  <2>2. lag[n + 1] = [k \in Sensor |-> LagOf(n + 1, k, lag[n])]
    BY <1>2, <2>1
  <2> QED  BY <2>1, <2>2 DEF LagOf
<1>5. \A j \in Sensor : SourcesOf(j) \subseteq Sensor
  <2> SUFFICES ASSUME NEW j \in Sensor PROVE SourcesOf(j) \subseteq Sensor
    OBVIOUS
  <2>1. source[j].list \in Seq(Sensor \cup {Pico})
    BY DEF Types, VsensorInput
  <2>2. Range(source[j].list) \subseteq Sensor \cup {Pico}
    BY <2>1 DEF Range
  <2> QED  BY <2>2 DEF SourcesOf
\* All are numbers, and one for each source is at most that of the sensor.
<1> DEFINE S == {n \in 0 .. N : \A j \in Sensor : lag[n][j] \in 0 .. N + 2 + n}
<1>6. ASSUME NEW n \in S, NEW j \in Sensor
      PROVE  /\ Max({0} \cup Gives(j, lag[n])) \in 0 .. N + 2 + (n + 1)
             /\ \A x \in Gives(j, lag[n]) : x <= Max({0} \cup Gives(j, lag[n]))
  <2> DEFINE G == Gives(j, lag[n])
             b == N + 2 + (n + 1)
  <2>1. n \in Nat /\ b \in Nat
    BY <1>1
  <2>2. G \subseteq 0 .. b
    <3> SUFFICES ASSUME NEW k \in SourcesOf(j)
                 PROVE  lag[n][k] + (IF k > j THEN 1 ELSE 0) \in 0 .. b
      BY DEF Gives
    <3>1. lag[n][k] \in 0 .. N + 2 + n
      BY <1>5, <1>6
    <3> QED  BY <1>1, <2>1, <3>1
  <2>3. {0} \cup G \subseteq 0 .. b /\ {0} \cup G # {}
    BY <2>1, <2>2
  <2> HIDE DEF G, b
  <2>4. Max({0} \cup G) \in {0} \cup G /\ \A x \in {0} \cup G : x <= Max({0} \cup G)
    BY <2>1, <2>3, MaxOfBounded
  <2>5. Max({0} \cup G) \in 0 .. b
    BY <2>3, <2>4
  <2> QED  BY <2>4, <2>5 DEF G, b
<1>7. 0 .. N \subseteq S
  <2>1. 0 \in S
    BY <1>1, <1>3
  <2>2. ASSUME NEW n \in 0 .. N, n \in S, n < N PROVE n + 1 \in S
    <3>1. n + 1 \in 0 .. N
      BY <1>1, <2>2
    <3>2. ASSUME NEW j \in Sensor PROVE lag[n + 1][j] \in 0 .. N + 2 + (n + 1)
      <4>1. 0 \in 0 .. N + 2 + (n + 1)
        BY <1>1
      <4> HIDE DEF S
      <4>2. Max({0} \cup Gives(j, lag[n])) \in 0 .. N + 2 + (n + 1)
        BY <1>6, <2>2
      <4> QED  BY <1>4, <2>2, <4>1, <4>2
    <3> QED  BY <3>1, <3>2
  <2> HIDE DEF S
  <2> QED  BY <1>1, <2>1, <2>2, CountingUp
<1>8. \A n \in 0 .. N, j \in Sensor : lag[n][j] \in Nat
  BY <1>1, <1>7
<1> HIDE DEF S
<1>9. \A n \in 0 .. N : n < N =>
        \A j \in Sensor : Derived(j) =>
            \A k \in SourcesOf(j) :
                lag[n][k] + (IF k > j THEN 1 ELSE 0) <= lag[n + 1][j]
  <2> SUFFICES ASSUME NEW n \in 0 .. N, n < N, NEW j \in Sensor, Derived(j),
                      NEW k \in SourcesOf(j)
               PROVE  lag[n][k] + (IF k > j THEN 1 ELSE 0) <= lag[n + 1][j]
    OBVIOUS
  <2>1. lag[n][k] + (IF k > j THEN 1 ELSE 0) \in Gives(j, lag[n])
    BY DEF Gives
  <2>2. n \in S
    BY <1>7
  <2>3. lag[n][k] + (IF k > j THEN 1 ELSE 0) <= Max({0} \cup Gives(j, lag[n]))
    BY <1>6, <2>1, <2>2
  <2> QED  BY <1>4, <2>3
\* A sensor that is its own source stays at the bound.
<1>10. ASSUME NEW j \in Sensor, Derived(j), j \in SourcesOf(j)
       PROVE  lag[N][j] >= N + 2
  <2> DEFINE L == {n \in 0 .. N : lag[n][j] >= N + 2}
  <2>1. 0 \in L
    BY <1>1, <1>3, <1>10
  <2>2. ASSUME NEW n \in 0 .. N, n \in L, n < N PROVE n + 1 \in L
    <3>1. lag[n][j] + (IF j > j THEN 1 ELSE 0) <= lag[n + 1][j]
      BY <1>9, <1>10, <2>2
    <3>2. n + 1 \in 0 .. N
      BY <1>1, <2>2
    <3>3. lag[n][j] \in Nat /\ lag[n + 1][j] \in Nat
      BY <1>8, <3>2
    <3>4. lag[n][j] <= lag[n + 1][j]
      BY <1>1, <3>1, <3>3
    <3> QED  BY <1>1, <2>2, <3>2, <3>3, <3>4
  <2> HIDE DEF L
  <2>3. 0 .. N \subseteq L
    BY <1>1, <2>1, <2>2, CountingUp
  <2>4. N \in L
    BY <1>1, <2>3
  <2> QED  BY <2>4 DEF L
\* A chain that has ended is the same when one more link is looked at.
<1> DEFINE E == {n \in 0 .. N : n < N =>
                    \A j \in Sensor : lag[n][j] <= N + 1 => lag[n + 1][j] = lag[n][j]}
<1>11. 0 .. N \subseteq E
  <2>1. 0 \in E
    <3>1. 0 \in 0 .. N /\ 0 < N
      BY <1>1
    <3>2. ASSUME NEW j \in Sensor, lag[0][j] <= N + 1
          PROVE  lag[0 + 1][j] = lag[0][j]
      <4>1. ~Derived(j)
        BY <1>1, <1>3, <3>2
      <4> QED  BY <1>3, <1>4, <3>1, <4>1
    <3> QED  BY <3>1, <3>2
  <2>2. ASSUME NEW n \in 0 .. N, n \in E, n < N PROVE n + 1 \in E
    <3>1. n + 1 \in 0 .. N
      BY <1>1, <2>2
    <3>2. ASSUME n + 1 < N, NEW j \in Sensor, lag[n + 1][j] <= N + 1
          PROVE  lag[(n + 1) + 1][j] = lag[n + 1][j]
      <4>1. CASE ~Derived(j)
        BY <1>4, <2>2, <3>1, <3>2, <4>1
      <4>2. CASE Derived(j)
        <5>1. ASSUME NEW k \in SourcesOf(j) PROVE lag[n + 1][k] = lag[n][k]
          <6>1. k \in Sensor /\ lag[n][k] \in Nat /\ lag[n + 1][j] \in Nat
            BY <1>5, <1>8, <3>1
          <6>2. lag[n][k] + (IF k > j THEN 1 ELSE 0) <= lag[n + 1][j]
            BY <1>9, <2>2, <4>2
          <6>3. lag[n][k] <= N + 1
            BY <1>1, <3>2, <6>1, <6>2
          <6> QED  BY <2>2, <6>1, <6>3
        <5>2. Gives(j, lag[n + 1]) = Gives(j, lag[n])
          BY <5>1 DEF Gives
        <5> QED  BY <1>4, <2>2, <3>1, <3>2, <4>2, <5>2
      <4> QED  BY <4>1, <4>2
    <3> QED  BY <3>1, <3>2
  <2> HIDE DEF E
  <2> QED  BY <1>1, <2>1, <2>2, CountingUp
<1>12. N - 1 \in 0 .. N /\ N - 1 < N /\ (N - 1) + 1 = N /\ N \in 0 .. N
  BY <1>1
<1>13. ~Derived(i) => lag[N][i] = 0
  BY <1>4, <1>12
<1>14. ASSUME Derived(i), lag[N][i] <= N + 1, NEW k \in SourcesOf(i)
       PROVE  lag[N][k] + (IF k > i THEN 1 ELSE 0) <= lag[N][i]
  <2>1. lag[N - 1][k] + (IF k > i THEN 1 ELSE 0) <= lag[N][i]
    BY <1>9, <1>12, <1>14
  <2>2. k \in Sensor /\ lag[N - 1][k] \in Nat /\ lag[N][i] \in Nat
    BY <1>5, <1>8, <1>12
  <2>3. lag[N - 1][k] <= N + 1
    BY <1>1, <1>14, <2>1, <2>2
  <2>4. N - 1 \in E
    BY <1>11, <1>12
  <2>5. lag[N][k] = lag[N - 1][k]
    BY <1>12, <2>2, <2>3, <2>4
  <2> QED  BY <2>1, <2>5
<1>15. lag[N][i] \in Nat
  BY <1>8, <1>12
<1>16. Derived(i) /\ lag[N][i] <= N + 1 => i \notin SourcesOf(i)
  BY <1>1, <1>10, <1>15
<1> QED  BY <1>2, <1>5, <1>13, <1>14, <1>15, <1>16

-------------------------------------------------------------------------------
(* The round on the bus *)

LEMMA InitInv ==
    Init => Inv
<1> SUFFICES ASSUME Init PROVE Inv
    OBVIOUS
<1>1. Types
    BY SensorAssumption DEF Init, Types, Sensor
<1>2. StillOnBus /\ InOrder /\ Behind /\ AllBehind
    BY DEF Init, StillOnBus, InOrder, Behind, AllBehind
<1> QED BY <1>1, <1>2 DEF Inv

LEMMA StartRoundInv ==
    ASSUME Inv, StartRound
    PROVE  Inv'
<1> USE DEF Inv, StartRound, values
<1>1. source' = source /\ steady' = {i \in Sensor : OnBus(i)} /\ reads' = <<>>
      /\ step' = 1 /\ sensor' = 1 /\ context' = context
    OBVIOUS
<1>2. Types'
    BY <1>1 DEF Types
<1>3. StillOnBus'
    BY <1>1 DEF StillOnBus, OnBus
<1>4. InOrder' /\ Behind'
    BY <1>1 DEF InOrder, Behind
<1>5. AllBehind'
    BY <1>1, SensorsAreNumbers DEF AllBehind
<1> QED BY <1>2, <1>3, <1>4, <1>5

LEMMA ReadNextInv ==
    ASSUME Inv, ReadNext
    PROVE  Inv'
<1> USE DEF Inv
<1> DEFINE i == Min(NextOnBus)
<1>1. NextOnBus \subseteq Nat /\ NextOnBus # {}
    BY SensorsAreNumbers DEF ReadNext, NextOnBus, Types
<1>2. i \in NextOnBus /\ \A x \in NextOnBus : i <= x
    BY <1>1, MinOfSensors
<1>3. i \in Sensor /\ sensor <= i /\ i \in Nat
    BY <1>2, SensorsAreNumbers DEF NextOnBus, Types, Sensor
<1>4. /\ sensor' = i + 1 /\ (step' = 1 \/ (step' = 2 /\ i + 1 > N))
      /\ reads' = Append(reads, i) /\ UNCHANGED <<source, context, steady>>
      /\ step = 1
    BY DEF ReadNext, Rest, After
<1> HIDE DEF i
<1>5. /\ reads' \in Seq(Sensor) /\ Range(reads') = Range(reads) \cup {i}
      /\ DOMAIN reads' = 1 .. Len(reads) + 1 /\ DOMAIN reads = 1 .. Len(reads)
      /\ \A j \in DOMAIN reads : reads'[j] = reads[j]
      /\ reads'[Len(reads) + 1] = i
    BY <1>3, <1>4, OneMore DEF Types
<1>6. \A j \in DOMAIN reads : reads[j] < i /\ reads[j] \in Nat
  <2>1. \A j \in DOMAIN reads : reads[j] \in Sensor
      BY DEF Types
  <2>2. \A j \in DOMAIN reads : reads[j] \in Nat /\ reads[j] < sensor
      BY <1>4, <2>1, SensorsAreNumbers DEF Behind
  <2>3. sensor \in Nat
      BY DEF Types
  <2> QED BY <1>3, <2>2, <2>3
<1>7. Len(reads) \in Nat
    BY DEF Types
<1>8. Types'
    BY <1>3, <1>4, <1>5 DEF Types
<1>9. StillOnBus'
    BY <1>4 DEF StillOnBus, OnBus
<1>10. InOrder'
  <2> SUFFICES ASSUME NEW j \in DOMAIN reads', NEW k \in DOMAIN reads', j < k
               PROVE  reads'[j] < reads'[k]
      BY DEF InOrder
  <2>1. j \in DOMAIN reads
      BY <1>5, <1>7
  <2>2. CASE k \in DOMAIN reads
      BY <1>5, <2>1, <2>2 DEF InOrder
  <2>3. CASE k = Len(reads) + 1
      BY <1>5, <1>6, <2>1, <2>3
  <2> QED BY <1>5, <1>7, <2>2, <2>3
<1>11. Behind'
  <2> SUFFICES ASSUME NEW j \in DOMAIN reads'
               PROVE  reads'[j] < i + 1
      BY <1>4 DEF Behind
  <2>1. CASE j \in DOMAIN reads
      BY <1>3, <1>5, <1>6, <2>1
  <2>2. CASE j = Len(reads) + 1
      BY <1>3, <1>5, <2>2
  <2> QED BY <1>5, <1>7, <2>1, <2>2
<1>12. \A x \in steady : x <= i => x \in Range(reads')
  <2> SUFFICES ASSUME NEW x \in steady, x <= i
               PROVE  x \in Range(reads')
      OBVIOUS
  <2>1. x \in Sensor /\ x \in Nat /\ OnBus(x)
      BY <1>4, SensorsAreNumbers DEF Types, StillOnBus
  <2>2. CASE x < sensor
      BY <1>4, <1>5, <2>2 DEF AllBehind
  <2>3. CASE x >= sensor
    <3>1. x \in NextOnBus
        BY <2>1, <2>3, SensorsAreNumbers DEF NextOnBus, Sensor, Types
    <3>2. x = i
        BY <1>2, <1>3, <2>1, <3>1
    <3> QED BY <1>5, <3>2
  <2> QED BY <2>1, <2>2, <2>3 DEF Types
<1>13. AllBehind'
  <2>1. \A x \in steady : x \in Nat /\ x <= N
      BY SensorsAreNumbers DEF Types, Sensor
  <2>2. \A x \in steady : x < i + 1 => x <= i
      BY <1>3, <2>1
  <2>3. i + 1 > N => \A x \in steady : x <= i
      BY <1>3, <2>1, SensorsAreNumbers
  <2> QED BY <1>4, <1>12, <2>2, <2>3 DEF AllBehind
<1> QED BY <1>8, <1>9, <1>10, <1>11, <1>13

LEMMA NoneLeftInv ==
    ASSUME Inv, NoneLeft
    PROVE  Inv'
<1> USE DEF Inv
<1>1. /\ sensor' = N + 1 /\ step' = 2 /\ step = 1
      /\ UNCHANGED <<source, context, steady, reads>>
    BY SensorsAreNumbers DEF NoneLeft, Rest, After
<1>2. \A x \in steady : x < sensor
  <2> SUFFICES ASSUME NEW x \in steady, x >= sensor PROVE FALSE
      BY SensorsAreNumbers DEF Types
  <2>1. x \in Sensor /\ OnBus(x)
      BY <1>1 DEF Types, StillOnBus
  <2>2. x \in NextOnBus
      BY <2>1, SensorsAreNumbers DEF NextOnBus, Sensor, Types
  <2> QED BY <2>2 DEF NoneLeft
<1>3. Types'
    BY <1>1, SensorsAreNumbers DEF Types
<1>4. StillOnBus' /\ InOrder' /\ Behind'
    BY <1>1 DEF StillOnBus, InOrder, Behind
<1>5. AllBehind'
    BY <1>1, <1>2 DEF AllBehind
<1> QED BY <1>3, <1>4, <1>5

\* A sensor with another source has left the bus, unless it is put on it
LEMMA SetSourceInv ==
    ASSUME Inv, NEW i \in Sensor, NEW s \in Orders[i], SetSource(i, s)
    PROVE  Inv'
<1> USE DEF Inv
<1>1. s \in VsensorInput /\ source[i] \in VsensorInput
    BY SensorAssumption DEF Types, Sensor
<1> DEFINE new == CASE s.mode = "manual" -> [s EXCEPT !.list = source[i].list]
                    [] s.mode = "i2c" -> [source[i] EXCEPT !.mode = "i2c"]
                    [] OTHER -> [source[i] EXCEPT !.mode = s.mode, !.list = s.list]
<1>2. new \in VsensorInput /\ new.mode = s.mode
  <2>1. CASE s.mode = "manual"
      BY <1>1, <2>1 DEF VsensorInput
  <2>2. CASE s.mode = "i2c"
      BY <1>1, <2>2 DEF VsensorInput
  <2>3. CASE s.mode \notin {"manual", "i2c"}
      BY <1>1, <2>3 DEF VsensorInput
  <2> QED BY <2>1, <2>2, <2>3
<1>3. /\ source' = [source EXCEPT ![i] = new]
      /\ steady' = (IF s.mode = "i2c" THEN steady ELSE steady \ {i})
      /\ UNCHANGED <<context, step, sensor, reads>>
    BY DEF SetSource
<1> HIDE DEF new
<1>4. Types'
    BY <1>2, <1>3 DEF Types
<1>5. \A j \in Sensor : source'[j] = (IF j = i THEN new ELSE source[j])
    BY <1>3 DEF Types
<1>6. StillOnBus'
    BY <1>2, <1>3, <1>5 DEF StillOnBus, OnBus, Types
<1>7. InOrder' /\ Behind' /\ AllBehind'
    BY <1>3 DEF InOrder, Behind, AllBehind, Types
<1> QED BY <1>4, <1>6, <1>7

\* All else leaves the round alone
LEMMA ElsewhereInv ==
    ASSUME Inv, UNCHANGED <<source, context, step, sensor, reads, steady>>
    PROVE  Inv'
<1> QED BY DEF Inv, Types, StillOnBus, OnBus, InOrder, Behind, AllBehind

LEMMA StepInv ==
    Inv /\ [Next]_vars => Inv'
<1> SUFFICES ASSUME Inv, [Next]_vars PROVE Inv'
    OBVIOUS
<1>1. CASE UpdateTemp \/ NoBus \/ Tick \/ UNCHANGED vars
    BY <1>1, ElsewhereInv DEF UpdateTemp, NoBus, Tick, vars, bus
<1>2. ASSUME NEW i \in Sensor, NEW t \in Temps, Write(i, t) PROVE Inv'
    BY <1>2, ElsewhereInv DEF Write, bus
<1>3. ASSUME NEW i \in Sensor, NEW s \in Orders[i], SetSource(i, s) PROVE Inv'
    BY <1>3, SetSourceInv
<1> QED
    BY <1>1, <1>2, <1>3, StartRoundInv, ReadNextInv, NoneLeftInv DEF Next, I2cPoll

(***************************************************************************)
(* However commands change the table while a round lasts, a sensor that    *)
(* stays on the bus is read in it, once, and in the table's order          *)
(* (i2c_read_temps's search for the next sensor).                          *)
(***************************************************************************)
THEOREM RoundsAreComplete ==
    Spec => []RoundReadsAll
<1>1. Inv => RoundReadsAll
    BY DEF Inv, InOrder, AllBehind, RoundReadsAll
<1> QED BY <1>1, InitInv, StepInv, PTL DEF Spec

-------------------------------------------------------------------------------
(* The values *)

Values ==
    /\ vtemp = [i \in Sensor |-> vtemp[i]] /\ DOMAIN age = Sensor
    /\ given = age
    /\ polls \in 0 .. N + 1

ValueInv == Values /\ FollowsSources

\* A derived sensor looks at its sources and nothing else.
LEMMA SameSources ==
    ASSUME Types, NEW i \in Sensor, Derived(i), NEW t, NEW v, NEW w,
           \A k \in SourcesOf(i) : v[k] = w[k]
    PROVE  GetVsensor(i, t, v) = GetVsensor(i, t, w)
<1> DEFINE s == source[i]
           Value(x, j) == IF j > 100 THEN t ELSE x[j]
<1>1. s.list \in Seq(Sensor \cup {Pico})
  BY DEF Types, VsensorInput
<1>2. \A k \in DOMAIN s.list : Value(v, s.list[k]) = Value(w, s.list[k])
  <2> SUFFICES ASSUME NEW k \in DOMAIN s.list
               PROVE  Value(v, s.list[k]) = Value(w, s.list[k])
    OBVIOUS
  <2>1. CASE s.list[k] = Pico
    BY <2>1 DEF Pico
  <2>2. CASE s.list[k] # Pico
    <3>1. s.list[k] \in SourcesOf(i)
      BY <2>2 DEF SourcesOf, Range
    <3> QED  BY <3>1
  <2> QED  BY <2>1, <2>2
<1>3. [k \in DOMAIN s.list |-> Value(v, s.list[k])]
        = [k \in DOMAIN s.list |-> Value(w, s.list[k])]
  BY <1>2
<1>4. \A x : GetVsensor(i, t, x) =
                Combined(s.mode, [k \in DOMAIN s.list |-> Value(x, s.list[k])])
  BY DEF GetVsensor, Derived
<1> QED  BY <1>3, <1>4

LEMMA PicoValue ==
    ASSUME NEW i, source[i].mode = "pico", NEW t, NEW v
    PROVE  GetVsensor(i, t, v) = t
BY DEF GetVsensor, Direct

LEMMA SourcesAreSensors ==
    ASSUME Types, NEW i \in Sensor
    PROVE  SourcesOf(i) \subseteq Sensor
<1>1. source[i].list \in Seq(Sensor \cup {Pico})
  BY DEF Types, VsensorInput
<1>2. Range(source[i].list) \subseteq Sensor \cup {Pico}
  BY <1>1 DEF Range
<1> QED  BY <1>2 DEF SourcesOf

\* The lag is that of the sources of the state.
LEMMA LagStays ==
    ASSUME source' = source, NEW i
    PROVE  Lag(i)' = Lag(i)
BY DEF Lag, Derived, SourcesOf

\* A poll that finds the same inputs leaves the values that have arrived alone.
LEMMA ArrivedStays ==
    ASSUME Types, ValueInv, UpdateTemp, temp' = temp,
           \A i \in Sensor : source[i].mode \in Direct => vtemp'[i] = vtemp[i]
    PROVE  \A i \in Sensor : polls > Lag(i) => vtemp'[i] = vtemp[i]
<1>1. N \in Nat \ {0} /\ Sensor = 1 .. N /\ Sensor \subseteq Nat
  BY SensorAssumption DEF Sensor
<1>2. \A i \in Sensor : vtemp'[i] = GetVsensor(i, temp, Mixed(i, vtemp'))
  BY UpdatedEach DEF UpdateTemp, ValueInv, Values
<1> DEFINE S == {n \in 0 .. N : \A i \in Sensor :
                    i <= n /\ polls > Lag(i) => vtemp'[i] = vtemp[i]}
<1>3. 0 \in S
  BY <1>1
<1>4. ASSUME NEW n \in 0 .. N, n \in S, n < N PROVE n + 1 \in S
  <2> DEFINE i == n + 1
  <2>1. i \in Sensor /\ i \in 0 .. N
    BY <1>1, <1>4
  <2>2. ASSUME polls > Lag(i) PROVE vtemp'[i] = vtemp[i]
    <3>1. CASE source[i].mode \in Direct
      BY <2>1, <3>1
    <3>2. CASE source[i].mode = "pico"
      <4>1. vtemp[i] = GetVsensor(i, temp, vtemp)
        BY <2>1, <2>2, <3>2 DEF ValueInv, FollowsSources, Direct
      <4> QED  BY <1>2, <2>1, <3>2, <4>1, PicoValue
    <3>3. CASE Derived(i)
      <4>1. /\ Lag(i) \in Nat /\ polls \in Nat /\ Lag(i) <= N + 1
        <5>1. Lag(i) \in Nat /\ polls \in 0 .. N + 1
          BY <2>1, LagsBehind DEF ValueInv, Values
        <5> QED  BY <1>1, <2>2, <5>1
      <4>2. ASSUME NEW k \in SourcesOf(i)
            PROVE  Mixed(i, vtemp')[k] = vtemp[k]
        <5>1. k \in Sensor
          BY <2>1, SourcesAreSensors
        <5>2. CASE k < i
          <6>1. Lag(k) \in Nat /\ Lag(k) + (IF k > i THEN 1 ELSE 0) <= Lag(i)
            BY <2>1, <3>3, <4>1, <5>1, LagsBehind
          <6>2. k <= n /\ polls > Lag(k)
            BY <1>1, <2>2, <4>1, <5>1, <5>2, <6>1
          <6>3. vtemp'[k] = vtemp[k]
            BY <1>4, <5>1, <6>2
          <6> QED  BY <5>1, <5>2, <6>3 DEF Mixed
        <5>3. CASE ~(k < i)
          BY <5>1, <5>3 DEF Mixed
        <5> QED  BY <5>2, <5>3
      <4>3. GetVsensor(i, temp, Mixed(i, vtemp')) = GetVsensor(i, temp, vtemp)
        BY <2>1, <3>3, <4>2, SameSources
      <4>4. vtemp[i] = GetVsensor(i, temp, vtemp)
        BY <2>1, <2>2, <3>3 DEF ValueInv, FollowsSources, Derived
      <4> QED  BY <1>2, <2>1, <4>3, <4>4
    <3> QED  BY <3>1, <3>2, <3>3 DEF Derived
  <2>3. \A j \in Sensor : j <= n + 1 => j <= n \/ j = i
    BY <1>1, <1>4
  <2>4. \A j \in Sensor : j <= n + 1 /\ polls > Lag(j) => vtemp'[j] = vtemp[j]
    BY <1>4, <2>2, <2>3
  <2> QED  BY <2>1, <2>4
<1> HIDE DEF S
<1>5. 0 .. N \subseteq S
  BY <1>1, <1>3, <1>4, CountingUp
<1>6. N \in S /\ \A i \in Sensor : i <= N
  BY <1>1, <1>5
<1> QED  BY <1>6 DEF S

\* After the poll those have arrived whose sources had, or come before them.
LEMMA UpdateTempValues ==
    ASSUME Types, ValueInv, UpdateTemp
    PROVE  ValueInv'
<1>1. N \in Nat \ {0} /\ Sensor = 1 .. N /\ Sensor \subseteq Nat
  BY SensorAssumption DEF Sensor
<1>2. /\ vtemp' = [i \in Sensor |-> vtemp'[i]]
      /\ \A i \in Sensor : vtemp'[i] = GetVsensor(i, temp', Mixed(i, vtemp'))
  BY UpdatedEach DEF UpdateTemp, ValueInv, Values
<1>3. UNCHANGED <<source, age, given>>
  BY DEF UpdateTemp
<1>4. polls \in 0 .. N + 1
  BY DEF ValueInv, Values
<1>5. /\ polls' \in 0 .. N + 1
      /\ \/ polls' = 1
         \/ /\ temp' = temp /\ polls' <= polls + 1
            /\ \A i \in Sensor : source[i].mode \in Direct => vtemp'[i] = vtemp[i]
  BY <1>1, <1>4 DEF UpdateTemp
<1>6. Values'
  BY <1>2, <1>3, <1>5 DEF ValueInv, Values
<1>7. ASSUME NEW i \in Sensor, source[i].mode \notin Direct, polls' > Lag(i)
      PROVE  vtemp'[i] = GetVsensor(i, temp', vtemp')
  <2>1. CASE source[i].mode = "pico"
    BY <1>2, <2>1, PicoValue
  <2>2. CASE Derived(i)
    <3>1. Lag(i) \in Nat /\ Lag(i) <= N + 1
      <4>1. Lag(i) \in Nat
        BY LagsBehind
      <4> QED  BY <1>1, <1>5, <1>7, <4>1
    <3>2. ASSUME NEW k \in SourcesOf(i)
          PROVE  vtemp'[k] = Mixed(i, vtemp')[k]
      <4>1. k \in Sensor /\ k # i /\ Lag(k) \in Nat
        BY <2>2, <3>1, SourcesAreSensors, LagsBehind
      <4>2. CASE k < i
        BY <4>1, <4>2 DEF Mixed
      <4>3. CASE ~(k < i)
        <5>1. k > i
          BY <1>1, <4>1, <4>3
        <5>2. Lag(k) + (IF k > i THEN 1 ELSE 0) <= Lag(i)
          BY <2>2, <3>1, LagsBehind
        <5>3. Lag(k) + 1 <= Lag(i)
          BY <5>1, <5>2
        <5>4. polls' # 1 /\ (polls' <= polls + 1 => polls > Lag(k))
          BY <1>1, <1>4, <1>5, <1>7, <3>1, <4>1, <5>3
        <5>5. vtemp'[k] = vtemp[k]
          BY <1>5, <4>1, <5>4, ArrivedStays
        <5> QED  BY <4>1, <4>3, <5>5 DEF Mixed
      <4> QED  BY <4>2, <4>3
    <3>3. GetVsensor(i, temp', vtemp') = GetVsensor(i, temp', Mixed(i, vtemp'))
      BY <2>2, <3>2, SameSources
    <3> QED  BY <1>2, <3>3
  <2> QED  BY <1>7, <2>1, <2>2 DEF Derived
<1>8. \A i \in Sensor : GetVsensor(i, temp, vtemp)' = GetVsensor(i, temp', vtemp')
  BY <1>3 DEF GetVsensor
<1>9. \A i \in Sensor : Lag(i)' = Lag(i)
  BY <1>3, LagStays
<1>10. FollowsSources'
  BY <1>3, <1>7, <1>8, <1>9 DEF FollowsSources
<1> QED  BY <1>6, <1>10 DEF ValueInv

\* A change of an input or of a source starts the count anew.
LEMMA ChangeValues ==
    ASSUME Types', ValueInv, polls' = 0, Values'
    PROVE  ValueInv'
<1>1. ASSUME NEW i \in Sensor PROVE Lag(i)' \in Nat
  <2>1. (Types => Lag(i) \in Nat)'
    BY LagsBehind, PTL
  <2> QED  BY <2>1
<1>2. \A i \in Sensor : ~(polls' > Lag(i)')
  BY <1>1
<1> QED  BY <1>2 DEF ValueInv, FollowsSources

\* Time, and what does not change a value, is nothing to a derived sensor.
LEMMA KeepValues ==
    ASSUME ValueInv, UNCHANGED <<source, temp, vtemp, polls>>, Values'
    PROVE  ValueInv'
<1>1. \A i \in Sensor : Lag(i)' = Lag(i)
  BY LagStays
<1>2. ASSUME NEW i \in Sensor, source[i].mode \notin Direct
      PROVE  GetVsensor(i, temp, vtemp)' = GetVsensor(i, temp, vtemp)
  BY <1>2 DEF GetVsensor
<1> QED  BY <1>1, <1>2 DEF ValueInv, FollowsSources

LEMMA InitValues ==
    Init => ValueInv
<1> SUFFICES ASSUME Init PROVE ValueInv
  OBVIOUS
<1>1. Values
  BY SensorAssumption DEF Init, Values
<1>2. Types
  BY InitInv DEF Inv
<1>3. \A i \in Sensor : ~(polls > Lag(i))
  BY <1>2, LagsBehind DEF Init
<1> QED  BY <1>1, <1>3 DEF ValueInv, FollowsSources

LEMMA StepValues ==
    Inv /\ ValueInv /\ [Next]_vars => ValueInv'
<1> SUFFICES ASSUME Inv, ValueInv, [Next]_vars PROVE ValueInv'
  OBVIOUS
<1>1. Types /\ Types'
  BY StepInv DEF Inv
<1>2. N \in Nat
  BY SensorAssumption
<1>3. CASE UpdateTemp
  BY <1>1, <1>3, UpdateTempValues
<1>4. CASE UNCHANGED <<source, temp, vtemp, age, given, polls>>
  BY <1>4, KeepValues DEF ValueInv, Values
<1>5. CASE NoBus \/ StartRound \/ NoneLeft \/ UNCHANGED vars
  BY <1>4, <1>5 DEF NoBus, StartRound, NoneLeft, vars, values
<1>6. ASSUME NEW i, NEW t,
             vtemp' = [vtemp EXCEPT ![i] = t], age' = [age EXCEPT ![i] = 0],
             given' = [given EXCEPT ![i] = 0], polls' = 0
      PROVE  ValueInv'
  <2>1. vtemp' = [j \in Sensor |-> vtemp'[j]]
    BY <1>6 DEF ValueInv, Values
  <2>2. DOMAIN age' = Sensor /\ given' = age' /\ polls' \in 0 .. N + 1
    BY <1>2, <1>6 DEF ValueInv, Values
  <2>3. Values'
    BY <2>1, <2>2 DEF Values
  <2> QED  BY <1>1, <1>6, <2>3, ChangeValues
<1>7. CASE ReadNext
  BY <1>4, <1>6, <1>7 DEF ReadNext
<1>8. ASSUME NEW i \in Sensor, NEW t \in Temps, Write(i, t) PROVE ValueInv'
  BY <1>6, <1>8 DEF Write
<1>9. ASSUME NEW i \in Sensor, NEW s \in Orders[i], SetSource(i, s) PROVE ValueInv'
  <2>1. polls' = 0 /\ UNCHANGED <<vtemp, age, given>>
    BY <1>9 DEF SetSource
  <2>2. Values'
    BY <1>2, <2>1 DEF ValueInv, Values
  <2> QED  BY <1>1, <2>1, <2>2, ChangeValues
<1>10. CASE Tick
  <2>1. Values'
    BY <1>10 DEF Tick, ValueInv, Values
  <2> QED  BY <1>10, <2>1, KeepValues DEF Tick
<1> QED
  BY <1>3, <1>5, <1>7, <1>8, <1>9, <1>10 DEF Next, I2cPoll

LEMMA Invariance == Spec => [](Inv /\ ValueInv)
<1>1. Init => Inv /\ ValueInv
  BY InitInv, InitValues
<1>2. (Inv /\ ValueInv) /\ [Next]_vars => (Inv /\ ValueInv)'
  BY StepInv, StepValues
<1> QED  BY <1>1, <1>2, PTL DEF Spec

(***************************************************************************)
(* However long the chains of sources and wherever they lie in the table,  *)
(* a derived sensor agrees with its sources when update_temp has been      *)
(* through the table once more than its chain runs against it.             *)
(***************************************************************************)
THEOREM DerivedFollowSources ==
    Spec => []FollowsSources
<1>1. ValueInv => FollowsSources
  BY DEF ValueInv
<1> QED  BY <1>1, Invariance, PTL

(***************************************************************************)
(* What was written or measured stays until its timeout is over, and then  *)
(* the default takes its place (get_vsensor); no other command, reading or *)
(* poll of any sensor touches it.                                          *)
(***************************************************************************)
THEOREM ValuesLast ==
    Spec => LastsForTimeout
<1> DEFINE Kept(i) ==
        source[i].mode \in Direct /\ vtemp'[i] # vtemp[i] /\ given'[i] # 0 =>
            /\ source[i].timeout > 0 /\ given[i] > source[i].timeout
            /\ vtemp'[i] = source[i].default
<1>1. ASSUME Inv, ValueInv, [Next]_vars PROVE \A i \in Sensor : Kept(i)
  <2> SUFFICES ASSUME NEW i \in Sensor PROVE Kept(i)
    OBVIOUS
  <2>1. CASE UpdateTemp
    <3>1. vtemp'[i] = GetVsensor(i, temp', Mixed(i, vtemp')) /\ given = age
      BY <1>1, <2>1, UpdatedEach DEF UpdateTemp, ValueInv, Values
    <3>2. Mixed(i, vtemp')[i] = vtemp[i]
      BY SensorAssumption DEF Mixed, Sensor
    <3> QED  BY <3>1, <3>2 DEF GetVsensor
  <2>2. CASE UNCHANGED vtemp
    BY <2>2
  <2>3. ASSUME NEW k, NEW t, vtemp' = [vtemp EXCEPT ![k] = t],
               given' = [given EXCEPT ![k] = 0]
        PROVE  Kept(i)
    <3>1. DOMAIN given = Sensor /\ vtemp = [j \in Sensor |-> vtemp[j]]
      BY <1>1 DEF ValueInv, Values
    <3> QED  BY <2>3, <3>1
  <2>4. CASE ReadNext
    BY <2>2, <2>3, <2>4 DEF ReadNext
  <2>5. CASE \E k \in Sensor, t \in Temps : Write(k, t)
    BY <2>3, <2>5 DEF Write
  <2>6. CASE \/ NoBus \/ StartRound \/ NoneLeft \/ Tick \/ UNCHANGED vars
             \/ \E k \in Sensor : \E s \in Orders[k] : SetSource(k, s)
    BY <2>2, <2>6 DEF NoBus, StartRound, NoneLeft, Tick, SetSource, vars, values
  <2> QED  BY <1>1, <2>1, <2>4, <2>5, <2>6 DEF Next, I2cPoll
<1> QED  BY <1>1, Invariance, PTL DEF Spec, LastsForTimeout

===============================================================================
