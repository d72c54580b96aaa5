-------------------------- MODULE ConfigStoreProofs --------------------------
(***************************************************************************)
(* Proofs about ConfigStore: the bytes of the files keep the promise of    *)
(* whole configurations (SavedConfig), for any configurations, file names, *)
(* lengths and bounds.                                                     *)
(*                                                                         *)
(* Every step of the bytes is a step of the promise or none: what a file   *)
(* holds does not change before it is closed, and a document that is       *)
(* written over a longer one is read as if it stood alone.                 *)
(***************************************************************************)
EXTENDS ConfigStore, SequenceTheorems, TLAPS

Chars == Config \cup {NUL}
Content == {Absent} \cup Seq(Chars)

\* The document that is about to be in the file is the configuration's
Handle ==
    /\ pc \notin {"write", "close"} => handle = Absent
    /\ pc = "write" => handle \in Seq(Chars)
    /\ pc = "close" =>
          handle = Broken \/ (handle \in Seq(Chars) /\ Parse(handle) = config)

Inv ==
    /\ config \in Config /\ files \in [Name -> Content]
    /\ pc \in {"mount", "read", "run", "open", "write", "close"}
    /\ safe \in BOOLEAN /\ faults \in Nat
    /\ Handle

-------------------------------------------------------------------------------
(* Documents *)

\* s begins with configuration c
Begins(c, s) == Length[c] <= Len(s) /\ \A i \in 1 .. Length[c] : s[i] = c

LEMMA BodyFacts ==
    ASSUME NEW c \in Config
    PROVE  /\ Length[c] \in Nat \ {0}
           /\ Body(c) \in Seq(Config) /\ Len(Body(c)) = Length[c]
           /\ \A i \in 1 .. Length[c] : Body(c)[i] = c
<1>1. Length[c] \in Nat \ {0}
    BY StoreAssumption
<1> DEFINE n == Length[c]
<1> HIDE DEF n
<1>2. [i \in 1 .. n |-> c] \in Seq(Config) /\ Len([i \in 1 .. n |-> c]) = n
    BY <1>1 DEF n
<1> QED BY <1>1, <1>2 DEF Body, n

LEMMA PrefixBegins ==
    ASSUME NEW S, NEW s \in Seq(S), NEW c \in Config
    PROVE  IsPrefix(Body(c), s) <=> Begins(c, s)
<1> DEFINE b == Body(c)
           n == Length[c]
<1>1. /\ n \in Nat \ {0} /\ b \in Seq(Config) /\ Len(b) = n
      /\ \A i \in 1 .. n : b[i] = c
    BY BodyFacts
<1>2. IsPrefix(b, s) <=> n <= Len(s) /\ SubSeq(b, 1, n) = SubSeq(s, 1, n)
    BY <1>1 DEF IsPrefix
<1> HIDE DEF b, n
<1>3. SubSeq(b, 1, n) = [i \in 1 .. n |-> b[i]]
    BY <1>1
<1>4. n <= Len(s) => SubSeq(s, 1, n) = [i \in 1 .. n |-> s[i]]
    BY <1>1
<1> QED BY <1>1, <1>2, <1>3, <1>4 DEF Begins, b, n

\* Only one configuration's document begins so, and Parse finds it
LEMMA ParseFinds ==
    ASSUME NEW S, NEW s \in Seq(S)
    PROVE  /\ Parse(s) \in Config \cup {NoConfig}
           /\ \A c \in Config : Parse(s) = c <=> Begins(c, s)
<1>1. \A c \in Config : IsPrefix(Body(c), s) <=> Begins(c, s)
    BY PrefixBegins
<1>2. \A c, d \in Config : Begins(c, s) /\ Begins(d, s) => c = d
  <2> SUFFICES ASSUME NEW c \in Config, NEW d \in Config, Begins(c, s), Begins(d, s)
               PROVE  c = d
      OBVIOUS
  <2>1. 1 \in 1 .. Length[c] /\ 1 \in 1 .. Length[d]
      BY BodyFacts
  <2> QED BY <2>1 DEF Begins
<1>3. NoConfig \notin Config
    BY StoreAssumption
<1>4. CASE \E c \in Config : Begins(c, s)
  <2>1. Parse(s) = CHOOSE c \in Config : IsPrefix(Body(c), s)
      BY <1>1, <1>4 DEF Parse
  <2>2. Parse(s) \in Config /\ IsPrefix(Body(Parse(s)), s)
      BY <1>1, <1>4, <2>1
  <2> QED BY <1>1, <1>2, <2>2
<1>5. CASE ~ \E c \in Config : Begins(c, s)
    BY <1>1, <1>3, <1>5 DEF Parse
<1> QED BY <1>4, <1>5

LEMMA NothingInside ==
    Parse(Absent) = NoConfig /\ Parse(<<>>) = NoConfig
<1>1. Absent \in Seq({Absent[1]}) /\ Len(Absent) = 1
    BY DEF Absent
<1>2. \A c \in Config : ~Begins(c, Absent)
  <2> SUFFICES ASSUME NEW c \in Config, Begins(c, Absent) PROVE FALSE
      OBVIOUS
  <2>1. 1 \in 1 .. Length[c]
      BY BodyFacts
  <2>2. Absent[1] = c
      BY <2>1 DEF Begins
  <2> QED BY <2>2, StoreAssumption
<1>3. \A c \in Config : ~Begins(c, <<>>)
    BY BodyFacts DEF Begins
<1>4. <<>> \in Seq(Chars)
    OBVIOUS
<1> QED BY <1>1, <1>2, <1>3, <1>4, ParseFinds

\* A document that is written over another is found, whatever is left behind it
LEMMA OverwriteParses ==
    ASSUME NEW c \in Config, NEW old \in Seq(Chars)
    PROVE  /\ Overwrite(old, Document(c)) \in Seq(Chars)
           /\ Parse(Overwrite(old, Document(c))) = c
<1> DEFINE b == Body(c)
           d == Document(c)
           n == Length[c]
           rest == SubSeq(old, Len(d) + 1, Len(old))
           new == Overwrite(old, d)
<1>1. /\ n \in Nat \ {0} /\ b \in Seq(Config) /\ Len(b) = n
      /\ \A i \in 1 .. n : b[i] = c
    BY BodyFacts
<1>2. d = b \o <<NUL>> /\ new = d \o rest
    BY DEF Document, Overwrite
<1> HIDE DEF b, d, n, new
<1>3. b \in Seq(Chars) /\ <<NUL>> \in Seq(Chars)
    BY <1>1 DEF Chars
<1>4. d \in Seq(Chars) /\ Len(d) = n + 1 /\ \A i \in 1 .. n : d[i] = b[i]
    BY <1>1, <1>2, <1>3
<1>5. rest \in Seq(Chars)
    BY <1>4
<1> HIDE DEF rest
<1>6. new \in Seq(Chars) /\ n <= Len(new) /\ \A i \in 1 .. n : new[i] = d[i]
    BY <1>1, <1>2, <1>4, <1>5
<1>7. Begins(c, new)
    BY <1>1, <1>4, <1>6 DEF Begins, n
<1> QED BY <1>6, <1>7, ParseFinds DEF new, d

\* What a copy that breaks off has written is the same configuration or none
LEMMA BeginningParses ==
    ASSUME NEW s \in Seq(Chars), NEW k \in 0 .. Len(s)
    PROVE  /\ SubSeq(s, 1, k) \in Seq(Chars)
           /\ Parse(SubSeq(s, 1, k)) \in {Parse(s), NoConfig}
<1> DEFINE t == SubSeq(s, 1, k)
<1>1. t \in Seq(Chars) /\ Len(t) = k /\ \A i \in 1 .. k : t[i] = s[i]
    OBVIOUS
<1> HIDE DEF t
<1>2. \A c \in Config : Begins(c, t) => Begins(c, s)
    BY <1>1, BodyFacts DEF Begins
<1>3. Parse(t) \in Config => Parse(t) = Parse(s)
    BY <1>1, <1>2, ParseFinds
<1>4. Parse(t) \in Config \cup {NoConfig}
    BY <1>1, ParseFinds
<1> QED BY <1>1, <1>3, <1>4 DEF t

LEMMA BrokenIsNoContent ==
    Broken \notin Seq(Chars) /\ Absent \notin Seq(Chars) /\ Broken # Absent
<1>1. Broken[1] \notin Chars /\ Absent[1] \notin Chars
    BY StoreAssumption DEF Chars, Broken, Absent, NUL
<1>2. Len(Broken) = 1 /\ Len(Absent) = 1 /\ 1 \in 1 .. 1
    BY DEF Broken, Absent
<1>3. \A s \in Seq(Chars) : Len(s) = 1 => s[1] \in Chars
    OBVIOUS
<1> QED BY <1>1, <1>2, <1>3 DEF Broken, Absent

-------------------------------------------------------------------------------
(* The invariant *)

LEMMA InitInv == Init => Inv
BY StoreAssumption DEF Init, Inv, Handle, Content

LEMMA NextInv == Inv /\ [Next]_vars => Inv'
<1> SUFFICES ASSUME Inv, [Next]_vars PROVE Inv'
    OBVIOUS
<1> USE DEF Inv
<1>1. CASE Mount \/ MountFails
  <2>1. [n \in Name |-> Absent] \in [Name -> Content]
      BY DEF Content
  <2> QED BY <1>1, <2>1 DEF Mount, MountFails, Fault, Handle
<1>2. CASE ReadConfig \/ ReadFails \/ Change
  <2>1. config' \in Config
    <3>1. files[Cfg] = Absent \/ files[Cfg] \in Seq(Chars)
        BY StoreAssumption DEF Content
    <3>2. Parse(files[Cfg]) \in Config \cup {NoConfig}
        BY <3>1, NothingInside, ParseFinds
    <3> QED BY <1>2, <3>2, StoreAssumption DEF ReadConfig, ReadFails, Change
  <2> QED BY <1>2, <2>1 DEF ReadConfig, ReadFails, Change, Fault, Handle
<1>3. CASE Save \/ SaveFails
    BY <1>3 DEF Save, SaveFails, Fault, Handle
<1>4. CASE Open
  <2> DEFINE f == IF files[Cfg] = Absent THEN <<>> ELSE files[Cfg]
  <2>1. files' = [files EXCEPT ![Cfg] = f] /\ handle' = files'[Cfg]
      BY <1>4 DEF Open
  <2>2. f \in Seq(Chars)
      BY StoreAssumption DEF Content
  <2> HIDE DEF f
  <2>3. handle' = f /\ files' \in [Name -> Content]
      BY <2>1, <2>2, StoreAssumption DEF Content
  <2> QED BY <1>4, <2>2, <2>3 DEF Open, Handle
<1>5. CASE Write
  <2>1. handle \in Seq(Chars)
      BY <1>5 DEF Write, Handle
  <2>2. handle' \in Seq(Chars) /\ Parse(handle') = config
      BY <1>5, <2>1, OverwriteParses DEF Write
  <2> QED BY <1>5, <2>2 DEF Write, Handle
<1>6. CASE WriteFails \/ CloseFails
    BY <1>6 DEF WriteFails, CloseFails, Fault, Handle
<1>7. CASE Close
  <2>1. handle = Broken \/ handle \in Content
      BY <1>7 DEF Close, Handle, Content
  <2>2. files' = [files EXCEPT ![Cfg] = IF handle = Broken THEN @ ELSE handle]
      BY <1>7 DEF Close
  <2>3. files' \in [Name -> Content]
      BY <2>1, <2>2
  <2> QED BY <1>7, <2>3 DEF Close, Handle
<1>8. ASSUME NEW n \in Name, Delete(n) PROVE Inv'
    BY <1>8 DEF Delete, Handle, Content
<1>9. ASSUME NEW n \in Name, NEW m \in Name, Rename(n, m) PROVE Inv'
    BY <1>9 DEF Rename, Handle, Content
<1>10. ASSUME NEW n \in Name, NEW m \in Name, Copy(n, m) PROVE Inv'
  <2>1. files[n] \in Seq(Chars)
      BY <1>10 DEF Copy, Content
  <2>2. \A k \in 0 .. Len(files[n]) - 1 : SubSeq(files[n], 1, k) \in Content
    <3> TAKE k \in 0 .. Len(files[n]) - 1
    <3>1. k \in 0 .. Len(files[n])
        BY <2>1
    <3> QED BY <2>1, <3>1, BeginningParses DEF Content
  <2>3. PICK f \in Content : files' = [files EXCEPT ![m] = f]
      BY <1>10, <2>1, <2>2 DEF Copy, Content
  <2>4. files' \in [Name -> Content]
      BY <2>3
  <2>5. faults' \in Nat
      BY <1>10 DEF Copy, Fault
  <2> QED BY <1>10, <2>4, <2>5 DEF Copy, Handle
<1>11. CASE FormatAll
    BY <1>11 DEF FormatAll, Handle, Content
<1>12. CASE Reset
    BY <1>12 DEF Reset, Fault, Handle
<1>13. CASE UNCHANGED vars
    BY <1>13 DEF vars, Handle
<1> QED BY <1>1, <1>2, <1>3, <1>4, <1>5, <1>6, <1>7, <1>8, <1>9, <1>10, <1>11,
           <1>12, <1>13 DEF Next

LEMMA Invariance == Spec => []Inv
BY InitInv, NextInv, PTL DEF Spec

-------------------------------------------------------------------------------
(* The promise, step by step *)

LEMMA StoredIs ==
    \A n \in Name : Stored[n] = Parse(files[n])
BY DEF Stored

LEMMA PromiseInit == Init => Promise!Init
<1> SUFFICES ASSUME Init PROVE Promise!Init
    OBVIOUS
<1>1. Stored = [n \in Name |-> NoConfig]
    BY NothingInside DEF Init, Stored
<1>2. On = FALSE /\ Saving = "no"
    BY DEF Init, On, Saving
<1> QED BY <1>1, <1>2 DEF Init, Promise!Init

\* A step that changes one file changes what that file holds
LEMMA OneFile ==
    ASSUME Inv, NEW m \in Name, NEW f, files' = [files EXCEPT ![m] = f]
    PROVE  Stored' = [Stored EXCEPT ![m] = Parse(f)]
BY DEF Stored, Inv

LEMMA StartRefines ==
    ASSUME Inv, Mount \/ MountFails \/ ReadConfig \/ ReadFails
    PROVE  [Promise!Next]_<<config, Stored, On, safe, Saving, faults>>
<1> USE DEF On, Saving, Promise!Next
<1>1. CASE Mount
  <2>1. Stored' = Stored
      BY <1>1 DEF Mount, Stored
  <2> QED BY <1>1, <2>1 DEF Mount
<1>2. CASE MountFails
  <2>1. Stored' = [n \in Name |-> NoConfig]
      BY <1>2, NothingInside DEF MountFails, Stored
  <2>2. faults' > faults
      BY <1>2 DEF MountFails, Fault, Inv
  <2>3. Promise!StartError
      BY <1>2, <2>1, <2>2 DEF MountFails, Promise!StartError
  <2> QED BY <2>3
<1>3. CASE ReadConfig
  <2>1. Stored' = Stored
      BY <1>3 DEF ReadConfig, Stored
  <2>2. config' = IF safe \/ Stored[Cfg] = NoConfig THEN Default ELSE Stored[Cfg]
      BY <1>3, StoredIs, StoreAssumption DEF ReadConfig
  <2>3. Promise!Start
      BY <1>3, <2>1, <2>2 DEF ReadConfig, Promise!Start
  <2> QED BY <2>3
<1>4. CASE ReadFails
  <2>1. Stored' = Stored
      BY <1>4 DEF ReadFails, Stored
  <2>2. faults' > faults
      BY <1>4 DEF ReadFails, Fault, Inv
  <2>3. Promise!StartError
      BY <1>4, <2>1, <2>2 DEF ReadFails, Promise!StartError
  <2> QED BY <2>3
<1> QED BY <1>1, <1>2, <1>3, <1>4

LEMMA SaveRefines ==
    ASSUME Inv, Save \/ SaveFails \/ Open \/ Write \/ WriteFails \/ Close \/ CloseFails
    PROVE  [Promise!Next]_<<config, Stored, On, safe, Saving, faults>>
<1> USE DEF On, Saving, Promise!Next
<1>1. CASE Save
  <2>1. Stored' = Stored /\ handle # Broken
      BY <1>1, BrokenIsNoContent DEF Save, Stored, Inv, Handle
  <2>2. Promise!StartSave
      BY <1>1, <2>1 DEF Save, Promise!StartSave, Promise!Idle
  <2> QED BY <2>2
<1>2. CASE SaveFails
  <2>1. Stored' = Stored /\ handle # Broken
      BY <1>2, BrokenIsNoContent DEF SaveFails, Stored, Inv, Handle
  <2>2. faults' > faults
      BY <1>2 DEF SaveFails, Fault, Inv
  <2>3. Promise!SaveError
      BY <1>2, <2>1, <2>2 DEF SaveFails, Promise!SaveError
  <2> QED BY <2>3
<1>3. CASE Open
  <2> DEFINE f == IF files[Cfg] = Absent THEN <<>> ELSE files[Cfg]
  <2>1. files' = [files EXCEPT ![Cfg] = f] /\ Parse(f) = Parse(files[Cfg])
      BY <1>3, NothingInside DEF Open
  <2>2. Stored' = [Stored EXCEPT ![Cfg] = Parse(f)]
      BY <2>1, OneFile, StoreAssumption
  <2>3. Stored' = Stored
      BY <2>1, <2>2, StoredIs, StoreAssumption DEF Stored
  <2>4. handle' # Broken /\ handle # Broken
    <3>1. f \in Seq(Chars)
        BY StoreAssumption DEF Inv, Content
    <3>2. handle' = f
        BY <1>3, <2>1, StoreAssumption DEF Open, Inv
    <3>3. handle = Absent
        BY <1>3 DEF Open, Inv, Handle
    <3> QED BY <3>1, <3>2, <3>3, BrokenIsNoContent
  <2> QED BY <1>3, <2>3, <2>4 DEF Open
<1>4. CASE Write
  <2>1. handle \in Seq(Chars) /\ Stored' = Stored
      BY <1>4 DEF Write, Stored, Inv, Handle
  <2>2. handle' \in Seq(Chars)
      BY <1>4, <2>1, OverwriteParses DEF Write, Inv
  <2> QED BY <1>4, <2>1, <2>2, BrokenIsNoContent DEF Write
<1>5. CASE WriteFails
  <2>1. handle # Broken /\ Stored' = Stored
      BY <1>5, BrokenIsNoContent DEF WriteFails, Stored, Inv, Handle
  <2>2. faults' > faults
      BY <1>5 DEF WriteFails, Fault, Inv
  <2>3. Promise!SaveError
      BY <1>5, <2>1, <2>2 DEF WriteFails, Promise!SaveError
  <2> QED BY <2>3
<1>6. CASE Close /\ handle = Broken
  <2>1. files' = files
      BY <1>6 DEF Close, Inv
  <2>2. Stored' = Stored
      BY <2>1 DEF Stored
  <2>3. Promise!EndFailedSave
      BY <1>6, <2>2 DEF Close, Inv, Promise!EndFailedSave
  <2> QED BY <2>3
<1>7. CASE Close /\ handle # Broken
  <2>1. files' = [files EXCEPT ![Cfg] = handle] /\ Parse(handle) = config
      BY <1>7 DEF Close, Inv, Handle
  <2>2. Stored' = [Stored EXCEPT ![Cfg] = config]
      BY <2>1, OneFile, StoreAssumption
  <2>3. Promise!EndSave
      BY <1>7, <2>2 DEF Close, Promise!EndSave
  <2> QED BY <2>3
<1>8. CASE CloseFails
  <2>1. Stored' = Stored
      BY <1>8 DEF CloseFails, Stored
  <2>2. faults' > faults /\ faults' >= faults
      BY <1>8 DEF CloseFails, Fault, Inv
  <2>3. Promise!SaveError \/ Promise!EndFailedSave
      BY <1>8, <2>1, <2>2 DEF CloseFails, Promise!SaveError, Promise!EndFailedSave
  <2> QED BY <2>3
<1> QED BY <1>1, <1>2, <1>3, <1>4, <1>5, <1>6, <1>7, <1>8

LEMMA FileCommandRefines ==
    ASSUME Inv, NEW n \in Name, NEW m \in Name,
           Delete(n) \/ Rename(n, m) \/ Copy(n, m) \/ FormatAll
    PROVE  Promise!Next
<1> USE DEF On, Saving, Promise!Next, Promise!Idle
<1>1. CASE Delete(n)
  <2>1. Stored' = [Stored EXCEPT ![n] = NoConfig]
      BY <1>1, OneFile, NothingInside DEF Delete
  <2>2. Promise!Remove
      BY <1>1, <2>1 DEF Delete, Promise!Remove
  <2> QED BY <2>2
<1>2. CASE Rename(n, m)
  <2>1. files' = [files EXCEPT ![m] = files[n], ![n] = Absent] /\ n # m
      BY <1>2 DEF Rename
  <2>2. Stored' = [Stored EXCEPT ![m] = Stored[n], ![n] = NoConfig]
      BY <2>1, NothingInside DEF Stored, Inv
  <2>3. Promise!Rename
      BY <1>2, <2>1, <2>2 DEF Rename, Promise!Rename
  <2> QED BY <2>3
<1>3. CASE Copy(n, m)
  <2>1. /\ pc = "run" /\ pc' = "run" /\ UNCHANGED <<config, safe>>
        /\ files[n] \in Seq(Chars) /\ files[m] = Absent
      BY <1>3 DEF Copy, Inv, Content
  <2>2. faults' >= faults
      BY <1>3 DEF Copy, Fault, Inv
  <2>3. PICK f : /\ files' = [files EXCEPT ![m] = f]
                 /\ Parse(f) \in {Parse(files[n]), NoConfig}
    <3>1. CASE files' = [files EXCEPT ![m] = files[n]]
        BY <3>1
    <3>2. ASSUME NEW k \in 0 .. Len(files[n]) - 1,
                 files' = [files EXCEPT ![m] = SubSeq(files[n], 1, k)]
          PROVE  \E f : /\ files' = [files EXCEPT ![m] = f]
                        /\ Parse(f) \in {Parse(files[n]), NoConfig}
      <4>1. k \in 0 .. Len(files[n])
          BY <2>1
      <4> QED BY <2>1, <3>2, <4>1, BeginningParses
    <3> QED BY <1>3, <3>1, <3>2 DEF Copy
  <2>4. Stored[m] = NoConfig
      BY <2>1, StoredIs, NothingInside
  <2>5. Stored' = [Stored EXCEPT ![m] = Stored[n]] \/ Stored' = [Stored EXCEPT ![m] = Stored[m]]
      BY <2>3, <2>4, OneFile, StoredIs
  <2>6. Promise!Copy
      BY <2>1, <2>2, <2>4, <2>5 DEF Promise!Copy
  <2> QED BY <2>6
<1>4. CASE FormatAll
  <2>1. Stored' = [x \in Name |-> NoConfig]
      BY <1>4, NothingInside DEF FormatAll, Stored
  <2>2. Promise!Format
      BY <1>4, <2>1 DEF FormatAll, Promise!Format
  <2> QED BY <2>2
<1> QED BY <1>1, <1>2, <1>3, <1>4

LEMMA PromiseNext ==
    ASSUME Inv, [Next]_vars
    PROVE  [Promise!Next]_<<config, Stored, On, safe, Saving, faults>>
<1>1. CASE Change
  <2>1. Stored' = Stored
      BY <1>1 DEF Change, Stored
  <2>2. Promise!Change
      BY <1>1, <2>1 DEF Change, On, Saving, Promise!Change, Promise!Idle
  <2> QED BY <2>2 DEF Promise!Next
<1>2. CASE Reset
  <2>1. Stored' = Stored
      BY <1>2 DEF Reset, Stored
  <2>2. faults' >= faults
      BY <1>2 DEF Reset, Fault, Inv
  <2>3. Promise!Stop
      BY <1>2, <2>1, <2>2 DEF Reset, On, Saving, Promise!Stop
  <2> QED BY <2>3 DEF Promise!Next
<1>3. CASE UNCHANGED vars
    BY <1>3 DEF vars, Stored, On, Saving
<1>4. ASSUME NEW n \in Name, NEW m \in Name,
             Delete(n) \/ Rename(n, m) \/ Copy(n, m) \/ FormatAll
      PROVE  Promise!Next
    BY <1>4, FileCommandRefines
<1>5. CASE FormatAll
    BY <1>4, <1>5, StoreAssumption
<1> QED BY <1>1, <1>2, <1>3, <1>4, <1>5, StartRefines, SaveRefines DEF Next

\* With a reset or an error at any place, and whatever the files held before,
\* CONF:SAVe, the file commands and the start of the device deal in whole
\* configurations: the last one saved, the one a file command put there, or
\* the default.
THEOREM StoreKeepsPromise == Spec => KeepsPromise
<1>1. Inv /\ [Next]_vars
        => [Promise!Next]_<<config, Stored, On, safe, Saving, faults>>
    BY PromiseNext
<1> QED BY PromiseInit, Invariance, <1>1, PTL
        DEF Spec, KeepsPromise, Promise!Spec, Promise!vars

==============================================================================
