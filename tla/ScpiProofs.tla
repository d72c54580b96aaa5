------------------------------ MODULE ScpiProofs ------------------------------
(***************************************************************************)
(* That the interpreter never mistakes one command's word for another's    *)
(* (ParentNamed), that a command changes no output but the one it names    *)
(* (OnlyNamedOutput), and nothing when it fails (FailedChangesNothing);    *)
(* that what is stored keeps its type (TypeOK), and that the file gives    *)
(* back what it was written from (SaveLosesNothing): for any settings,     *)
(* outputs, sensors and bounds.                                            *)
(***************************************************************************)
EXTENDS Scpi, TLAPS, SequenceTheorems, WellFoundedInduction

\* The level searched is a table of the tree, and the path is made of words.
Place ==
    /\ level \in DOMAIN Table
    /\ path \in Seq(Words)
    /\ ParentNamed

\* The parts that all handlers leave in place
Parts == {"set", "output", "keys", "acl", "source"}
Shape(c) == DOMAIN c = Parts /\ DOMAIN c.output = Output

Complete ==
    /\ Shape(conf) /\ (file # NoFile => DOMAIN file.output = Output)
    /\ DOMAIN pwr = Output /\ DOMAIN pwm = Output

\* An output is named by the last word, if at all, and its table is searched.
OfOutput == {"output_c", "output_w"}
Said ==
    \A i \in 1 .. Len(path) :
        path[i].name = "OUTPUT" => i = Len(path) /\ level \in OfOutput

Inv == Place /\ Complete /\ Said

\* Each table that an entry opens is there (command.c: no dangling subcmds).
LEMMA SubTables ==
    /\ "root" \in DOMAIN Table
    /\ \A e \in Commands : e.sub # None => e.sub \in DOMAIN Table
<1> DEFINE At == {e.at : e \in Commands}
<1>1. DOMAIN Table = At
  BY DEF Table
<1>2. {"root", "config", "defaults", "output_c", "vsensor_c", "write",
       "output_w", "system", "pubkey"} \subseteq At
  <2>1. \A at, name, sub, func :
            Entry(at, name, sub, func) \in Commands => at \in At
    <3> SUFFICES ASSUME NEW at, NEW name, NEW sub, NEW func,
                        Entry(at, name, sub, func) \in Commands
                 PROVE  at \in At
      OBVIOUS
    <3> QED  BY Entry(at, name, sub, func).at = at DEF Entry
  <2>2. /\ Entry("root", "WRITE", "write", None) \in Commands
        /\ Entry("config", "SAVE", None, "cmd_save_config") \in Commands
        /\ Entry("defaults", "PWM", None, "cmd_defaults_pwm") \in Commands
        /\ Entry("output_c", "NAME", None, "cmd_out_name") \in Commands
        /\ Entry("vsensor_c", "SOURCE", None, "cmd_vsensor_source") \in Commands
        /\ Entry("write", "OUTPUT", "output_w", "cmd_write_state") \in Commands
        /\ Entry("output_w", "PWM", None, "cmd_write_pwm") \in Commands
        /\ Entry("system", "ERR", None, "cmd_err") \in Commands
        /\ Entry("pubkey", "ADD", None, "cmd_ssh_pubkey_add") \in Commands
    BY DEF Commands
  <2> HIDE DEF At
  <2> QED  BY <2>1, <2>2
<1>3. \A e \in Commands : e.sub \in {None, "config", "defaults", "output_c",
        "vsensor_c", "write", "output_w", "system", "pubkey"}
  BY DEF Commands, Entry
<1> QED  BY <1>1, <1>2, <1>3

-------------------------------------------------------------------------------
(* What the handlers do to the outputs' part of the configuration *)

ForOutput == {"cmd_out_name", "cmd_out_default_pwm", "cmd_out_default_state"}
ForState == {"cmd_write_state", "cmd_write_pwm"}
ForAll == {"cmd_defaults_pwm", "cmd_defaults_state"}

\* A handler that fails has changed nothing; most touch no output, some one
Answered == Shape(conf') /\ (res' # 0 => conf' = conf)
TouchesNone == Answered /\ conf'.output = conf.output
TouchesOne(n) ==
    Answered /\ \A o \in Output : o # n => conf'.output[o] = conf.output[o]

LEMMA SettingCareful ==
    ASSUME Shape(conf), NEW s, SettingCommand(s)
    PROVE  TouchesNone
<1>1. ASSUME NEW v, Store(s, v) PROVE TouchesNone
    BY <1>1 DEF Store, Answered, TouchesNone, TouchesOne, Shape, Parts
<1>2. ASSUME NEW code, Fail(code) PROVE TouchesNone
    BY <1>2 DEF Fail, Answered, TouchesNone, TouchesOne
<1>3. CASE TextCommand(s)
    BY <1>1, <1>2, <1>3 DEF TextCommand, StringSetting, ListedSetting
<1>4. CASE SwitchCommand(s)
    BY <1>1, <1>2, <1>4 DEF SwitchCommand, BoolSetting
<1>5. CASE NumberCommand(s)
  <2>1. ASSUME NEW x, Uint8Setting(s, x) PROVE TouchesNone
      BY <1>1, <1>2, <2>1 DEF Uint8Setting
  <2>2. ASSUME NEW x, Uint32Setting(s, x) PROVE TouchesNone
      BY <1>1, <1>2, <2>2 DEF Uint32Setting
  <2>3. ASSUME NEW x, DebugSetting(s, x) PROVE TouchesNone
      BY <1>1, <1>2, <2>3 DEF DebugSetting
  <2> QED BY <1>5, <2>1, <2>2, <2>3 DEF NumberCommand
<1>6. CASE MaskCommand(s)
    BY <1>1, <1>6 DEF MaskCommand, Bitmask16Setting
<1>7. CASE AddressCommand(s)
    BY <1>1, <1>2, <1>7 DEF AddressCommand, IpChange
<1> QED BY <1>3, <1>4, <1>5, <1>6, <1>7 DEF SettingCommand

LEMMA ListCareful ==
    ASSUME Shape(conf),
           \/ \E nets : AclListChange(nets)
           \/ \E k : PubkeyAdd(k)
           \/ \E x : PubkeyDel(x)
    PROVE  TouchesNone
<1>1. ASSUME NEW code, Fail(code) PROVE TouchesNone
    BY <1>1 DEF Fail, Answered, TouchesNone, TouchesOne
<1>2. ASSUME NEW nets, AclListChange(nets) PROVE TouchesNone
  <2>1. PICK acl : Fail(1) \/ (conf' = [conf EXCEPT !.acl = acl] /\ res' = 0)
      BY <1>2 DEF AclListChange
  <2> QED BY <1>1, <2>1 DEF Answered, TouchesNone, TouchesOne, Shape, Parts
<1>3. ASSUME NEW k, PubkeyAdd(k) PROVE TouchesNone
  <2>1. PICK i : Fail(0) \/ Fail(2) \/ (conf' = [conf EXCEPT !.keys[i] = k] /\ res' = 0)
      BY <1>3 DEF PubkeyAdd
  <2> QED BY <1>1, <2>1 DEF Answered, TouchesNone, TouchesOne, Shape, Parts
<1>4. ASSUME NEW x, PubkeyDel(x) PROVE TouchesNone
  <2>1. PICK keys : Fail(2) \/ (conf' = [conf EXCEPT !.keys = keys] /\ res' = 0)
      BY <1>4 DEF PubkeyDel
  <2> QED BY <1>1, <2>1 DEF Answered, TouchesNone, TouchesOne, Shape, Parts
<1> QED BY <1>2, <1>3, <1>4

LEMMA SourceCareful ==
    ASSUME Shape(conf), NEW v, NEW arg, NEW list,
           NEW mode \in {"manual", "i2c", "picotemp", "max"},
           VsensorSource(v, mode, arg, list)
    PROVE  TouchesNone
<1>1. ASSUME NEW code, Fail(code) PROVE TouchesNone
    BY <1>1 DEF Fail, Answered, TouchesNone, TouchesOne
<1>2. ASSUME NEW field, NEW x, res' = 0,
             conf' = [conf EXCEPT !.source[v].mode = mode, !.source[v][field] = x]
      PROVE  TouchesNone
    BY <1>2 DEF Answered, TouchesNone, TouchesOne, Shape, Parts
<1>3. \/ Fail(2)
      \/ \E field, x : /\ res' = 0
                       /\ conf' = [conf EXCEPT !.source[v].mode = mode,
                                               !.source[v][field] = x]
    BY DEF VsensorSource
<1> QED BY <1>1, <1>2, <1>3

LEMMA OutputCareful ==
    ASSUME Shape(conf), NEW n,
           \/ \E v : OutputSetting(n, "name", v)
           \/ \E x : OutputPwm(n, x)
           \/ \E word : OutputState(n, word)
    PROVE  TouchesOne(n)
<1>1. ASSUME NEW code, Fail(code) PROVE TouchesOne(n)
    BY <1>1 DEF Fail, Answered, TouchesNone, TouchesOne
<1>2. ASSUME NEW field, NEW v, OutputSetting(n, field, v) PROVE TouchesOne(n)
    BY <1>2 DEF OutputSetting, Answered, TouchesNone, TouchesOne, Shape, Parts
<1>3. ASSUME NEW x, OutputPwm(n, x) PROVE TouchesOne(n)
    BY <1>1, <1>2, <1>3 DEF OutputPwm
<1>4. ASSUME NEW word, OutputState(n, word) PROVE TouchesOne(n)
    BY <1>2, <1>4 DEF OutputState
<1> QED BY <1>2, <1>3, <1>4

LEMMA ConfigureCareful ==
    ASSUME Shape(conf), NEW f, NEW n, Configure(f, n)
    PROVE  TouchesNone \/ (f \in ForOutput /\ TouchesOne(n))
<1> DEFINE Named == f = "cmd_out_name" /\ \E v \in Texts : OutputSetting(n, "name", v)
           Pwm == f = "cmd_out_default_pwm" /\ \E x \in Counts : OutputPwm(n, x)
           State == f = "cmd_out_default_state"
                    /\ \E word \in {"on", "off", Empty} : OutputState(n, word)
           Source == \E mode \in {"manual", "i2c", "picotemp", "max"},
                       arg \in {Empty, "new"}, list \in SensorLists :
                            VsensorSource(n, mode, arg, list)
           Acl == \E nets \in NetLists : AclListChange(nets)
           Add == \E k \in Key \cup {NoKey} : PubkeyAdd(k)
           Del == \E x \in Counts : PubkeyDel(x)
<1>1. SettingCommand(f) \/ Named \/ Pwm \/ State \/ Source \/ Acl \/ Add \/ Del
  BY DEF Configure
<1>2. CASE SettingCommand(f)
  BY <1>2, SettingCareful
<1>3. CASE Named \/ Pwm \/ State
  <2>1. \/ \E v : OutputSetting(n, "name", v)
        \/ \E x : OutputPwm(n, x)
        \/ \E word : OutputState(n, word)
    BY <1>3
  <2>2. f \in ForOutput
    BY <1>3 DEF ForOutput
  <2> QED  BY <2>1, <2>2, OutputCareful
<1>4. CASE Source
  <2>1. PICK mode \in {"manual", "i2c", "picotemp", "max"},
             arg \in {Empty, "new"}, list \in SensorLists :
                 VsensorSource(n, mode, arg, list)
    BY <1>4
  <2> QED  BY <2>1, SourceCareful
<1>5. CASE Acl \/ Add \/ Del
  <2>1. \/ \E nets : AclListChange(nets)
        \/ \E k : PubkeyAdd(k)
        \/ \E x : PubkeyDel(x)
    BY <1>5
  <2> QED  BY <2>1, ListCareful
<1> QED  BY <1>1, <1>2, <1>3, <1>4, <1>5
-------------------------------------------------------------------------------
(* The tables *)

\* What the entries of an output's tables are, and where the handlers that
\* change an output are found
LEMMA EntryFacts ==
    ASSUME NEW e \in Commands
    PROVE  /\ e.sub \in OfOutput => e.name = "OUTPUT"
           /\ e.sub # None /\ e.name = "OUTPUT" => e.sub \in OfOutput
           /\ e.sub = "write" => e.name = "WRITE"
           /\ e.at \in OfOutput => e.sub = None
           /\ e.func \in ForOutput \cup ForState =>
                \/ e.at \in OfOutput /\ e.name # "OUTPUT"
                \/ e.func = "cmd_write_state" /\ e.at = "write" /\ e.name = "OUTPUT"
           /\ e.func \in ForAll => e.at = "defaults"
           /\ e.at = "defaults" => e.sub = None
<1>1. CASE e \in {Entry("system", s, None, s) : s \in Setting}
  <2>1. PICK s \in Setting : e = Entry("system", s, None, s)
    BY <1>1
  <2>2. s \notin ForOutput \cup ForState \cup ForAll
    BY ScpiAssumption DEF ForOutput, ForState, ForAll, ByNumber, NoQuery
  <2> QED  BY <2>1, <2>2 DEF Entry, OfOutput, None
<1>2. CASE e \notin {Entry("system", s, None, s) : s \in Setting}
  BY <1>2 DEF Commands, Entry, OfOutput, ForOutput, ForState, ForAll, None
<1> QED  BY <1>1, <1>2

LEMMA MatchFacts ==
    ASSUME Place, NEW w, NEW e \in Match(w)
    PROVE  e \in Commands /\ e.name = w.name /\ e.at = level
BY DEF Match, Table, Place

\* A single word that names an output says which
LEMMA OneSaid ==
    ASSUME NEW words, NEW k \in 1 .. Len(words),
           \A i \in 1 .. Len(words) : words[i].name = "OUTPUT" <=> i = k
    PROVE  OutputsSaid(words) = {words[k].n}
<1>1. {j \in 1 .. Len(words) : words[j].name = "OUTPUT"} = {k}
  OBVIOUS
<1> QED  BY <1>1 DEF OutputsSaid

\* In an output's table the last word has named the output, and no other did.
LEMMA NamedBefore ==
    ASSUME Inv, level \in OfOutput, NEW w, w.name # "OUTPUT"
    PROVE  prev.name = "OUTPUT" /\ OutputsSaid(Append(path, w)) = {prev.n}
<1> DEFINE words == Append(path, w)
<1>1. path \in Seq(Words) /\ path # <<>> /\ prev = Last(path)
  BY DEF Inv, Place, ParentNamed, OfOutput
<1>2. prev = path[Len(path)] /\ Len(path) \in 1 .. Len(path)
  BY <1>1 DEF Last
<1>3. prev.name = "OUTPUT"
  <2>1. PICK e \in Commands : e.name = prev.name /\ e.sub = level
    BY <1>1 DEF Inv, Place, ParentNamed
  <2> QED  BY <2>1, EntryFacts
<1>4. /\ Len(words) = Len(path) + 1 /\ words[Len(path) + 1] = w
      /\ \A i \in 1 .. Len(path) : words[i] = path[i]
  BY <1>1
<1>5. \A i \in 1 .. Len(words) : words[i].name = "OUTPUT" <=> i = Len(path)
  BY <1>2, <1>3, <1>4 DEF Inv, Said
<1>6. Len(path) \in 1 .. Len(words) /\ words[Len(path)].n = prev.n
  BY <1>2, <1>4
<1> HIDE DEF words
<1>7. OutputsSaid(words) = {prev.n}
  BY <1>5, <1>6, OneSaid
<1> QED  BY <1>3, <1>7 DEF words

\* Elsewhere no word has yet named one; this one may.
LEMMA NamedNow ==
    ASSUME Inv, level \notin OfOutput, NEW w, w.name = "OUTPUT"
    PROVE  OutputsSaid(Append(path, w)) = {w.n}
<1> DEFINE words == Append(path, w)
           k == Len(path) + 1
<1>1. path \in Seq(Words) /\ Len(path) \in Nat
  BY DEF Inv, Place
<1>2. /\ Len(words) = k /\ words[k] = w
      /\ \A i \in 1 .. Len(path) : words[i] = path[i]
  BY <1>1
<1>3. \A i \in 1 .. Len(words) : words[i].name = "OUTPUT" <=> i = k
  BY <1>1, <1>2 DEF Inv, Said
<1>4. k \in 1 .. Len(words)
  BY <1>1, <1>2
<1> HIDE DEF words, k
<1>5. OutputsSaid(words) = {words[k].n}
  BY <1>3, <1>4, OneSaid
<1> QED  BY <1>2, <1>5 DEF words

\* So the number that a handler for an output takes is that of the output said.
LEMMA NumberIsSaid ==
    ASSUME Inv, NEW w, NEW e \in Match(w), e.func \in ForOutput \cup ForState
    PROVE  OutputsSaid(Append(path, w)) = {NumberFor(e.func, w)}
<1>1. e \in Commands /\ e.name = w.name /\ e.at = level
  BY MatchFacts DEF Inv
<1>2. CASE level \in OfOutput /\ w.name # "OUTPUT"
  BY <1>2, NamedBefore DEF NumberFor
<1>3. CASE e.func = "cmd_write_state" /\ level = "write" /\ w.name = "OUTPUT"
  <2>1. prev.name = "WRITE"
    <3>1. PICK x \in Commands : x.name = prev.name /\ x.sub = level
      BY <1>3 DEF Inv, Place, ParentNamed
    <3> QED  BY <3>1, <1>3, EntryFacts
  <2>2. level \notin OfOutput
    BY <1>3 DEF OfOutput
  <2> QED  BY <1>3, <2>1, <2>2, NamedNow DEF NumberFor
<1> QED  BY <1>1, <1>2, <1>3, EntryFacts

-------------------------------------------------------------------------------
(* The handlers as a whole *)

Same(o) == <<conf.output[o], pwr[o], pwm[o]>>' = <<conf.output[o], pwr[o], pwm[o]>>

\* What a handler may do: change the output whose number it takes, or all of
\* them if it is for all; and nothing if it fails
Handled(f, w) ==
    /\ Complete'
    /\ res' # 0 /\ f \notin ForAll => UNCHANGED <<conf, file, outputs>>
    /\ \A o \in Output :
        \/ Same(o) \/ f \in ForAll
        \/ f \in ForOutput \cup ForState /\ NumberFor(f, w) = o

LEMMA HandlerHandled ==
    ASSUME Complete, NEW f, NEW w, Handler(f, w)
    PROVE  Handled(f, w)
<1> DEFINE n == NumberFor(f, w)
<1>1. ASSUME NEW code, Refuse(code) PROVE Handled(f, w)
  BY <1>1 DEF Refuse, Handled, Complete, Same, outputs
<1>2. CASE Configure(f, n) /\ UNCHANGED <<file, outputs>>
  <2>1. TouchesNone \/ (f \in ForOutput /\ TouchesOne(n))
    BY <1>2, ConfigureCareful DEF Complete
  <2>2. Answered
    BY <2>1 DEF TouchesNone, TouchesOne
  <2>3. Complete' /\ (res' # 0 => UNCHANGED <<conf, file, outputs>>)
    BY <1>2, <2>2 DEF Answered, Complete, outputs
  <2>4. ASSUME NEW o \in Output
        PROVE  Same(o) \/ (f \in ForOutput /\ n = o)
    BY <1>2, <2>1 DEF TouchesNone, TouchesOne, Same, outputs
  <2> QED  BY <2>3, <2>4 DEF Handled
<1>3. CASE Defaults(f) /\ UNCHANGED <<file, outputs>>
  <2>1. f \in ForAll
    BY <1>3 DEF Defaults, ForAll
  <2>2. Shape(conf')
    BY <1>3 DEF Defaults, Complete, Shape, Parts
  <2>3. Complete'
    BY <1>3, <2>2 DEF Complete, outputs
  <2> QED  BY <2>1, <2>3 DEF Handled
<1>4. CASE f = "cmd_write_state" /\ WriteState(n) /\ UNCHANGED <<conf, file, pwm>>
  <2>1. DOMAIN pwr' = DOMAIN pwr /\ \A o \in DOMAIN pwr : o # n => pwr'[o] = pwr[o]
    BY <1>4 DEF WriteState
  <2>2. res' # 0 => pwr' = pwr
    BY <1>4 DEF WriteState
  <2>3. Complete'
    BY <1>4, <2>1 DEF Complete
  <2>4. \A o \in Output : Same(o) \/ o = n
    BY <1>4, <2>1 DEF Complete, Same
  <2> QED  BY <1>4, <2>2, <2>3, <2>4 DEF Handled, ForState, outputs
<1>5. CASE f = "cmd_write_pwm" /\ WritePwm(n) /\ UNCHANGED <<conf, file, pwr>>
  <2>1. DOMAIN pwm' = DOMAIN pwm /\ \A o \in DOMAIN pwm : o # n => pwm'[o] = pwm[o]
    BY <1>5 DEF WritePwm
  <2>2. res' # 0 => pwm' = pwm
    BY <1>5 DEF WritePwm
  <2>3. Complete'
    BY <1>5, <2>1 DEF Complete
  <2>4. \A o \in Output : Same(o) \/ o = n
    BY <1>5, <2>1 DEF Complete, Same
  <2> QED  BY <1>5, <2>2, <2>3, <2>4 DEF Handled, ForState, outputs
<1>6. CASE (SaveConfig \/ DeleteConfig) /\ UNCHANGED outputs
  <2>1. conf' = conf /\ res' = 0
    BY <1>6 DEF SaveConfig, DeleteConfig
  <2>2. ConfigToJson(conf).output = conf.output
    BY DEF ConfigToJson
  <2>3. file' # NoFile => DOMAIN file'.output = Output
    BY <1>6, <2>2 DEF SaveConfig, DeleteConfig, Complete, Shape
  <2>4. Complete'
    BY <1>6, <2>1, <2>3 DEF Complete, outputs
  <2> QED  BY <1>6, <2>1, <2>4 DEF Handled, Same, outputs
<1>7. \/ Refuse(0) \/ Refuse(1)
      \/ Configure(f, n) /\ UNCHANGED <<file, outputs>>
      \/ Defaults(f) /\ UNCHANGED <<file, outputs>>
      \/ f = "cmd_write_state" /\ WriteState(n) /\ UNCHANGED <<conf, file, pwm>>
      \/ f = "cmd_write_pwm" /\ WritePwm(n) /\ UNCHANGED <<conf, file, pwr>>
      \/ (SaveConfig \/ DeleteConfig) /\ UNCHANGED outputs
  BY Zenon DEF Handler
<1> QED  BY <1>1, <1>2, <1>3, <1>4, <1>5, <1>6, <1>7

\* After a start there is everything again
LEMMA RestartComplete ==
    ASSUME Complete, NEW safemode \in BOOLEAN, Restart(safemode)
    PROVE  Complete'
<1>1. Shape(ClearConfig)
  BY DEF ClearConfig, Shape, Parts
<1>2. ASSUME file # NoFile PROVE Shape(JsonToConfig(file))
  BY <1>2 DEF JsonToConfig, Shape, Parts, Complete
<1>3. Shape(conf') /\ file' = file
  BY <1>1, <1>2 DEF Restart, ReadConfig
<1>4. DOMAIN pwr' = Output /\ DOMAIN pwm' = Output
  BY DEF Restart
<1> QED  BY <1>3, <1>4 DEF Complete

-------------------------------------------------------------------------------
(* The invariant *)

LEMMA InitInv == Init => Inv
<1> SUFFICES ASSUME Init PROVE Inv
  OBVIOUS
<1>1. path \in Seq(Words) /\ Len(path) = 0
  BY DEF Init
<1>2. Place
  BY <1>1, SubTables DEF Init, Place, ParentNamed
<1>3. Shape(conf)
  BY DEF Init, ClearConfig, Shape, Parts
<1>4. Complete
  BY <1>3 DEF Init, Complete
<1> QED  BY <1>1, <1>2, <1>4 DEF Inv, Said

LEMMA NextInv == Inv /\ [Next]_vars => Inv'
<1> SUFFICES ASSUME Inv, [Next]_vars PROVE Inv'
  OBVIOUS
<1> DEFINE Fresh == level' = "root" /\ prev' = NoWord /\ path' = <<>>
<1>1. ASSUME UNCHANGED interpreter PROVE Place' /\ Said'
  BY <1>1 DEF Inv, Place, ParentNamed, Said, interpreter
<1>2. ASSUME Fresh PROVE Place' /\ Said'
  <2>1. path' \in Seq(Words) /\ Len(path') = 0
    BY <1>2
  <2> QED  BY <1>2, <2>1, SubTables DEF Place, ParentNamed, Said
<1>3. ASSUME UNCHANGED everything PROVE Complete'
  BY <1>3 DEF Inv, Complete, everything, outputs
<1>4. ASSUME NEW w \in WordsFor[level], Descend(w) PROVE Inv'
  <2>1. w \in Words
    BY DEF WordsFor, Inv, Place
  <2>2. PICK e \in Match(w) : e.sub # None /\ level' = e.sub
    BY <1>4 DEF Descend
  <2>3. e \in Commands /\ e.name = w.name /\ e.at = level
    BY MatchFacts DEF Inv
  <2>4. prev' = w /\ path' = Append(path, w)
    BY <1>4 DEF Descend
  <2>5. path \in Seq(Words) /\ Len(path) \in Nat
    BY DEF Inv, Place
  <2>6. path' \in Seq(Words) /\ path' # <<>> /\ Last(path') = w
    BY <2>1, <2>4, <2>5 DEF Last
  <2>7. level' \in DOMAIN Table
    BY <2>2, <2>3, SubTables
  <2>8. Place'
    BY <2>2, <2>3, <2>4, <2>6, <2>7 DEF Place, ParentNamed
  <2>9. level \notin OfOutput /\ (w.name = "OUTPUT" => level' \in OfOutput)
    BY <2>2, <2>3, EntryFacts
  <2>10. /\ Len(path') = Len(path) + 1 /\ path'[Len(path) + 1] = w
         /\ \A i \in 1 .. Len(path) : path'[i] = path[i]
    BY <2>4, <2>5
  <2>11. Said'
    BY <2>5, <2>9, <2>10 DEF Inv, Said
  <2>12. UNCHANGED everything
    BY <1>4 DEF Descend
  <2> QED  BY <1>3, <2>8, <2>11, <2>12 DEF Inv
<1>5. ASSUME NEW reset \in BOOLEAN, BeginCommand(reset) PROVE Inv'
  BY <1>1, <1>2, <1>3, <1>5 DEF BeginCommand, Inv
<1>6. CASE BeginLine \/ EndLine
  BY <1>2, <1>3, <1>6 DEF BeginLine, EndLine, Inv
<1>7. CASE EndCommand
  BY <1>1, <1>3, <1>7 DEF EndCommand, Inv
<1>8. ASSUME NEW w \in WordsFor[level], NotFound(w) PROVE Inv'
  BY <1>1, <1>3, <1>8 DEF NotFound, Inv
<1>9. ASSUME NEW w \in WordsFor[level], NEW more \in BOOLEAN, Run(w, more)
      PROVE Inv'
  <2>1. PICK e \in Match(w) : Handler(e.func, w)
    BY <1>9 DEF Run
  <2>2. Complete'
    BY <2>1, HandlerHandled DEF Inv, Handled
  <2> QED  BY <1>1, <1>9, <2>2 DEF Run, Inv
<1>10. ASSUME NEW safemode \in BOOLEAN, Restart(safemode) PROVE Inv'
  BY <1>2, <1>10, RestartComplete DEF Restart, Inv
<1>11. CASE UNCHANGED vars
  BY <1>1, <1>3, <1>11 DEF vars, everything, outputs, Inv
<1> QED
  BY <1>4, <1>5, <1>6, <1>7, <1>8, <1>9, <1>10, <1>11 DEF Next

LEMMA Invariance == Spec => []Inv
BY InitInv, NextInv, PTL DEF Spec

(***************************************************************************)
(* run_cmd's cmd_level and *prev_subcmd always belong together, so that no *)
(* handler reads an output's or sensor's number from the wrong word.       *)
(***************************************************************************)
THEOREM PrevOpensLevel == Spec => []ParentNamed
<1>1. Inv => ParentNamed
  BY DEF Inv, Place
<1> QED  BY Invariance, <1>1, PTL

-------------------------------------------------------------------------------
(* What steps do *)

\* All steps but a handler's and a restart leave the configuration and the
\* outputs alone.
LEMMA OtherSteps ==
    ASSUME [Next]_vars, ~(\E safemode \in BOOLEAN : Restart(safemode)),
           ~(\E w \in WordsFor[level], more \in BOOLEAN : Run(w, more))
    PROVE  UNCHANGED <<conf, file, outputs>>
BY DEF Next, BeginLine, EndLine, EndCommand, BeginCommand, Descend, NotFound,
       vars, everything, outputs

(***************************************************************************)
(* Whatever commands came before it on the line, a command changes the     *)
(* configuration and state of no output but the one its path names.        *)
(***************************************************************************)
THEOREM CommandsKeepToTheirOutput == Spec => OnlyNamedOutput
<1> DEFINE Step == \A o \in Output :
              \/ <<conf.output[o], pwr[o], pwm[o]>>' = <<conf.output[o], pwr[o], pwm[o]>>
              \/ level = "defaults" \/ \E safemode \in BOOLEAN : Restart(safemode)
              \/ \E w \in WordsFor[level], more \in BOOLEAN :
                    Run(w, more) /\ OutputsSaid(Append(path, w)) = {o}
<1>1. ASSUME Inv, [Next]_vars PROVE Step
  <2>1. ASSUME NEW w \in WordsFor[level], NEW more \in BOOLEAN, Run(w, more),
               NEW o \in Output
        PROVE  \/ Same(o) \/ level = "defaults"
               \/ OutputsSaid(Append(path, w)) = {o}
    <3>1. PICK e \in Match(w) : Handler(e.func, w)
      BY <2>1 DEF Run
    <3>2. \/ Same(o) \/ e.func \in ForAll
          \/ e.func \in ForOutput \cup ForState /\ NumberFor(e.func, w) = o
      BY <1>1, <3>1, HandlerHandled DEF Inv, Handled
    <3>3. e \in Commands /\ e.at = level
      BY <1>1, MatchFacts DEF Inv
    <3> QED  BY <1>1, <3>2, <3>3, EntryFacts, NumberIsSaid
  <2>2. CASE UNCHANGED <<conf, file, outputs>>
    BY <2>2 DEF outputs
  <2> QED  BY <1>1, <2>1, <2>2, OtherSteps DEF Same
<1> QED  BY <1>1, Invariance, PTL DEF Spec, OnlyNamedOutput

\* During a command, what its last handler to answer 0 left is still there, be
\* the handlers after it as many as they are.
Marked == pc \in {"word", "end"} /\ level # "defaults" => everything = mark

LEMMA NextMarked == Inv /\ Marked /\ [Next]_vars => Marked'
<1> SUFFICES ASSUME Inv, Marked, [Next]_vars PROVE Marked'
  OBVIOUS
<1>1. CASE BeginLine \/ EndLine \/ EndCommand
  BY <1>1 DEF BeginLine, EndLine, EndCommand, Marked
<1>2. ASSUME NEW reset \in BOOLEAN, BeginCommand(reset) PROVE Marked'
  <2>1. mark' = everything /\ everything' = everything
    BY <1>2 DEF BeginCommand, everything, outputs
  <2> QED  BY <2>1 DEF Marked
<1>3. ASSUME NEW w \in WordsFor[level], pc = "word", Descend(w) PROVE Marked'
  <2>1. PICK e \in Match(w) : e.sub # None
    BY <1>3 DEF Descend
  <2>2. level # "defaults"
    BY <2>1, MatchFacts, EntryFacts DEF Inv
  <2>3. mark' = mark /\ everything' = everything
    BY <1>3 DEF Descend, everything, outputs
  <2> QED  BY <1>3, <2>2, <2>3 DEF Marked
<1>4. ASSUME NEW w \in WordsFor[level], pc = "word", NotFound(w) PROVE Marked'
  <2>1. mark' = mark /\ everything' = everything /\ level' = level
    BY <1>4 DEF NotFound, everything, outputs, interpreter
  <2> QED  BY <1>4, <2>1 DEF Marked
<1>5. ASSUME NEW w \in WordsFor[level], NEW more \in BOOLEAN, pc = "word",
             Run(w, more)
      PROVE  Marked'
  <2>1. PICK e \in Match(w) : Handler(e.func, w)
    BY <1>5 DEF Run
  <2>2. level' = level /\ mark' = IF res' = 0 THEN everything' ELSE mark
    BY <1>5 DEF Run, interpreter
  <2>3. ASSUME res' # 0, level # "defaults" PROVE everything' = mark
    <3>1. e.func \notin ForAll
      BY <2>1, <2>3, MatchFacts, EntryFacts DEF Inv
    <3>2. everything' = everything
      BY <2>1, <2>3, <3>1, HandlerHandled DEF Inv, Handled, everything, outputs
    <3> QED  BY <1>5, <2>3, <3>2 DEF Marked
  <2> QED  BY <2>2, <2>3 DEF Marked
<1>6. ASSUME NEW safemode \in BOOLEAN, Restart(safemode) PROVE Marked'
  BY <1>6 DEF Restart, Marked
<1>7. CASE UNCHANGED vars
  BY <1>7 DEF vars, Marked, everything, outputs, interpreter
<1> QED  BY <1>1, <1>2, <1>3, <1>4, <1>5, <1>6, <1>7 DEF Next

(***************************************************************************)
(* A command that is answered with an error has changed nothing in the     *)
(* configuration, the file or the outputs since it began, but for what     *)
(* the handlers of surplus words did that answered 0 before its last one.  *)
(***************************************************************************)
THEOREM ErrorsChangeNothing == Spec => []FailedChangesNothing
<1>1. Init => Marked
  BY DEF Init, Marked
<1>2. Marked => FailedChangesNothing
  BY DEF Marked, FailedChangesNothing
<1> QED  BY <1>1, <1>2, NextMarked, Invariance, PTL DEF Spec

-------------------------------------------------------------------------------
(* Numbers *)

LEMMA MinOfNumbers ==
    ASSUME NEW S, S \subseteq Nat, S # {}
    PROVE  Min(S) \in S /\ \A x \in S : Min(S) <= x
<1>1. PICK x \in S : \A y \in S : ~ (<<y, x>> \in OpToRel(<, Nat))
  BY NatLessThanWellFounded, WFMin
<1>2. \A y \in S : ~ (y < x)
  BY <1>1 DEF OpToRel
<1>3. \A y \in S : x <= y
  BY <1>2
<1> QED  BY <1>3 DEF Min

\* The largest of numbers that have a bound
LEMMA MaxOfBounded ==
    ASSUME NEW b \in Nat, NEW S, S \subseteq 0 .. b, S # {}
    PROVE  Max(S) \in S /\ \A x \in S : x <= Max(S)
<1> DEFINE D == {b - x : x \in S}
<1>1. D \subseteq Nat /\ D # {}
  <2>1. \A x \in S : b - x \in Nat
    OBVIOUS
  <2> QED  BY <2>1
<1>2. Min(D) \in D /\ \A y \in D : Min(D) <= y
  <2> HIDE DEF D
  <2> QED  BY <1>1, MinOfNumbers
<1>3. PICK x \in S : Min(D) = b - x
  BY <1>2
<1>4. \A y \in S : b - y \in D
  OBVIOUS
<1>5. ASSUME NEW y \in S PROVE x >= y
  <2>1. b - x <= b - y
    BY <1>2, <1>3, <1>4
  <2>2. x \in Nat /\ y \in Nat
    OBVIOUS
  <2> QED  BY <2>1, <2>2
<1> QED  BY <1>5 DEF Max

\* Induction up to M, for a set instead of a predicate: the least number that
\* is not in it cannot be
LEMMA CountingUp ==
    ASSUME NEW M \in Nat, NEW S, 0 \in S,
           \A n \in 0 .. M : n \in S /\ n < M => n + 1 \in S
    PROVE  0 .. M \subseteq S
<1> DEFINE Left == (0 .. M) \ S
<1> SUFFICES ASSUME Left # {} PROVE FALSE
  OBVIOUS
<1>0. Left \subseteq Nat
  OBVIOUS
<1> HIDE DEF Left
<1>1. PICK x \in Left : \A y \in Left : ~ (<<y, x>> \in OpToRel(<, Nat))
  BY <1>0, NatLessThanWellFounded, WFMin
<1>2. \A y \in Left : ~ (y < x)
  BY <1>0, <1>1 DEF OpToRel
<1> USE DEF Left
<1>3. x \in 1 .. M /\ x - 1 \in 0 .. M /\ x - 1 < x /\ x - 1 < M
  OBVIOUS
<1>4. x - 1 \in S
  BY <1>2, <1>3
<1> QED  BY <1>3, <1>4

-------------------------------------------------------------------------------
(* Lists *)

Upto(list, S, m, f) ==
    f = [i \in 0 .. m |->
            IF i = 0 THEN <<>>
            ELSE IF list[i] \in S THEN Append(f[i - 1], list[i]) ELSE f[i - 1]]

LEMMA ThoseRec ==
    ASSUME NEW list, Len(list) \in Nat, NEW S
    PROVE  \E f : Upto(list, S, Len(list), f) /\ Those(list, S) = f[Len(list)]
<1> DEFINE L == Len(list)
           M == {m \in 0 .. L : \E f : Upto(list, S, m, f)}
<1>1. 0 \in M
  <2>1. Upto(list, S, 0, [i \in 0 .. 0 |-> <<>>])
    BY DEF Upto
  <2> QED  BY <2>1
<1>2. ASSUME NEW m \in 0 .. L, m \in M, m < L PROVE m + 1 \in M
  <2>1. PICK f : Upto(list, S, m, f)
    BY <1>2
  <2> DEFINE N(i, x) == IF list[i] \in S THEN Append(x, list[i]) ELSE x
             g == [i \in 0 .. m + 1 |-> IF i <= m THEN f[i] ELSE N(i, f[i - 1])]
  <2>2. \A i \in 0 .. m + 1 : g[i] = IF i = 0 THEN <<>> ELSE N(i, g[i - 1])
    <3> SUFFICES ASSUME NEW i \in 0 .. m + 1
                 PROVE  g[i] = IF i = 0 THEN <<>> ELSE N(i, g[i - 1])
      OBVIOUS
    <3>1. CASE i = 0
      BY <2>1, <3>1 DEF Upto
    <3>2. CASE i # 0
      <4>1. g[i - 1] = f[i - 1]
        BY <3>2
      <4>2. g[i] = IF i <= m THEN f[i] ELSE N(i, f[i - 1])
        OBVIOUS
      <4>3. ASSUME i <= m PROVE f[i] = N(i, f[i - 1])
        <5>1. i \in 0 .. m
          BY <4>3
        <5> QED  BY <2>1, <3>2, <5>1 DEF Upto
      <4> HIDE DEF g, N
      <4> QED  BY <3>2, <4>1, <4>2, <4>3
    <3> QED  BY <3>1, <3>2
  <2>3. Upto(list, S, m + 1, g)
    BY <2>2 DEF Upto
  <2>4. \E h : Upto(list, S, m + 1, h)
    BY <2>3
  <2> QED  BY <1>2, <2>4
<1> HIDE DEF M
<1>3. 0 .. L \subseteq M
  BY <1>1, <1>2, CountingUp
<1>4. \E f : Upto(list, S, L, f)
  BY <1>3 DEF M
<1>5. Those(list, S) = (CHOOSE f : Upto(list, S, L, f))[L]
  BY Zenon DEF Those, Upto
<1> QED  BY <1>4, <1>5

\* Its steps, for a list of a type
LEMMA ThoseSteps ==
    ASSUME NEW T, NEW list \in Seq(T), NEW S
    PROVE  \E f : /\ f[0] = <<>> /\ Those(list, S) = f[Len(list)]
                  /\ \A i \in 0 .. Len(list) : i < Len(list) =>
                        f[i + 1] = IF list[i + 1] \in S THEN Append(f[i], list[i + 1])
                                                       ELSE f[i]
<1>1. Len(list) \in Nat
  OBVIOUS
<1>2. PICK f : Upto(list, S, Len(list), f) /\ Those(list, S) = f[Len(list)]
  BY <1>1, ThoseRec
<1>3. f[0] = <<>>
  BY <1>1, <1>2 DEF Upto
<1>4. ASSUME NEW i \in 0 .. Len(list), i < Len(list)
      PROVE  f[i + 1] = IF list[i + 1] \in S THEN Append(f[i], list[i + 1]) ELSE f[i]
  <2>1. i + 1 \in 0 .. Len(list) /\ i + 1 # 0 /\ (i + 1) - 1 = i
    BY <1>1, <1>4
  <2> QED  BY <1>2, <2>1 DEF Upto
<1> QED  BY <1>2, <1>3, <1>4

Items(list) == {list[i] : i \in 1 .. Len(list)}

LEMMA AppendItems ==
    ASSUME NEW T, NEW s \in Seq(T), NEW x \in T
    PROVE  /\ Append(s, x) \in Seq(T) /\ Len(Append(s, x)) = Len(s) + 1
           /\ Items(Append(s, x)) = Items(s) \cup {x}
<1>1. /\ Append(s, x) \in Seq(T) /\ Len(Append(s, x)) = Len(s) + 1 /\ Len(s) \in Nat
      /\ \A i \in 1 .. Len(s) : Append(s, x)[i] = s[i]
      /\ Append(s, x)[Len(s) + 1] = x
  OBVIOUS
<1>2. 1 .. Len(s) + 1 = 1 .. Len(s) \cup {Len(s) + 1}
  BY <1>1
<1> QED  BY <1>1, <1>2 DEF Items

\* What is left are the list's items that are in S, no more of them
LEMMA ThoseItems ==
    ASSUME NEW T, NEW list \in Seq(T), NEW S
    PROVE  /\ Those(list, S) \in Seq(T \cap S) /\ Len(Those(list, S)) <= Len(list)
           /\ Items(Those(list, S)) = Items(list) \cap S
<1> DEFINE L == Len(list)
<1>1. L \in Nat
  OBVIOUS
<1>2. PICK f : /\ f[0] = <<>> /\ Those(list, S) = f[L]
               /\ \A i \in 0 .. L : i < L =>
                    f[i + 1] = IF list[i + 1] \in S THEN Append(f[i], list[i + 1])
                                                   ELSE f[i]
  BY ThoseSteps
<1> DEFINE G(m) == /\ f[m] \in Seq(T \cap S) /\ Len(f[m]) <= m
                   /\ Items(f[m]) = {list[i] : i \in 1 .. m} \cap S
           M == {m \in 0 .. L : G(m)}
<1>3. 0 \in M
  <2>1. f[0] \in Seq(T \cap S) /\ Len(f[0]) = 0
    BY <1>2
  <2>2. Items(f[0]) = {}
    BY <2>1 DEF Items
  <2> QED  BY <1>1, <2>1, <2>2
<1>4. ASSUME NEW m \in 0 .. L, m \in M, m < L PROVE m + 1 \in M
  <2>1. /\ m + 1 \in 0 .. L /\ m + 1 \in 1 .. L /\ m \in Nat
        /\ 1 .. m + 1 = 1 .. m \cup {m + 1}
    BY <1>1, <1>4
  <2>2. list[m + 1] \in T
    BY <2>1
  <2>3. {list[i] : i \in 1 .. m + 1} = {list[i] : i \in 1 .. m} \cup {list[m + 1]}
    BY <2>1
  <2>4. G(m)
    BY <1>4
  <2>5. CASE list[m + 1] \in S
    <3>1. f[m + 1] = Append(f[m], list[m + 1])
      BY <1>2, <1>4, <2>5
    <3>2. /\ f[m + 1] \in Seq(T \cap S) /\ Len(f[m + 1]) = Len(f[m]) + 1
          /\ Items(f[m + 1]) = Items(f[m]) \cup {list[m + 1]}
      BY <2>2, <2>4, <2>5, <3>1, AppendItems
    <3>3. Len(f[m]) \in Nat /\ Len(f[m]) + 1 <= m + 1
      BY <2>1, <2>4
    <3>4. G(m + 1)
      BY <2>3, <2>4, <2>5, <3>2, <3>3
    <3> QED  BY <2>1, <3>4
  <2>6. CASE list[m + 1] \notin S
    <3>1. f[m + 1] = f[m]
      BY <1>2, <1>4, <2>6
    <3>2. Len(f[m]) \in Nat /\ Len(f[m]) <= m + 1
      BY <2>1, <2>4
    <3>3. G(m + 1)
      BY <2>3, <2>4, <2>6, <3>1, <3>2
    <3> QED  BY <2>1, <3>3
  <2> QED  BY <2>5, <2>6
<1> HIDE DEF M
<1>5. L \in M
  <2>1. 0 .. L \subseteq M
    BY <1>1, <1>3, <1>4, CountingUp
  <2> QED  BY <1>1, <2>1
<1> QED  BY <1>2, <1>5 DEF M, Items

\* Nothing else is lost: a list whose first n items are in S, and no others,
\* is cut after them
LEMMA ThoseFirst ==
    ASSUME NEW T, NEW list \in Seq(T), NEW S, NEW n \in 0 .. Len(list),
           \A i \in 1 .. n : list[i] \in S,
           \A i \in n + 1 .. Len(list) : list[i] \notin S
    PROVE  Those(list, S) = SubSeq(list, 1, n)
<1> DEFINE L == Len(list)
<1>1. L \in Nat /\ n \in Nat
  OBVIOUS
<1>2. PICK f : /\ f[0] = <<>> /\ Those(list, S) = f[L]
               /\ \A i \in 0 .. L : i < L =>
                    f[i + 1] = IF list[i + 1] \in S THEN Append(f[i], list[i + 1])
                                                   ELSE f[i]
  BY ThoseSteps
<1> DEFINE cut(m) == IF m <= n THEN m ELSE n
           M == {m \in 0 .. L : f[m] = SubSeq(list, 1, cut(m))}
<1>3. 0 \in M
  <2>1. SubSeq(list, 1, 0) = <<>>
    OBVIOUS
  <2>2. cut(0) = 0 /\ 0 \in 0 .. L
    BY <1>1
  <2> HIDE DEF cut
  <2> QED  BY <1>2, <2>1, <2>2
<1>4. ASSUME NEW m \in 0 .. L, m \in M, m < L PROVE m + 1 \in M
  <2>1. m + 1 \in 0 .. L /\ m \in Nat /\ f[m] = SubSeq(list, 1, cut(m))
    BY <1>1, <1>4
  <2>2. CASE m < n
    <3>1. m + 1 \in 1 .. n
      BY <1>1, <2>1, <2>2
    <3>2. cut(m) = m /\ cut(m + 1) = m + 1
      BY <1>1, <2>1, <2>2
    <3>3. f[m + 1] = Append(f[m], list[m + 1])
      BY <1>2, <1>4, <3>1
    <3>4. Append(SubSeq(list, 1, m), list[m + 1]) = SubSeq(list, 1, m + 1)
      BY <1>1, <1>4, <2>1
    <3> HIDE DEF cut
    <3>5. f[m + 1] = SubSeq(list, 1, cut(m + 1))
      BY <2>1, <3>2, <3>3, <3>4
    <3> QED  BY <2>1, <3>5
  <2>3. CASE ~(m < n)
    <3>1. m + 1 \in n + 1 .. L
      BY <1>1, <1>4, <2>1, <2>3
    <3>2. f[m + 1] = f[m]
      BY <1>2, <1>4, <3>1
    <3>3. cut(m) = n /\ cut(m + 1) = n
      BY <1>1, <2>1, <2>3
    <3> HIDE DEF cut
    <3>4. f[m + 1] = SubSeq(list, 1, cut(m + 1))
      BY <2>1, <3>2, <3>3
    <3> QED  BY <2>1, <3>4
  <2> QED  BY <2>2, <2>3
<1> HIDE DEF M
<1>5. L \in M
  <2>1. 0 .. L \subseteq M
    BY <1>1, <1>3, <1>4, CountingUp
  <2> QED  BY <1>1, <2>1
<1>6. f[L] = SubSeq(list, 1, cut(L)) /\ cut(L) = n
  BY <1>1, <1>5 DEF M
<1> QED  BY <1>2, <1>6

LEMMA WholeSubSeq ==
    ASSUME NEW T, NEW list \in Seq(T)
    PROVE  SubSeq(list, 1, Len(list)) = list
OBVIOUS

LEMMA ThoseAll ==
    ASSUME NEW S, NEW list \in Seq(S)
    PROVE  Those(list, S) = list
<1>1. Len(list) \in Nat /\ Len(list) \in 0 .. Len(list)
  OBVIOUS
<1>2. /\ \A i \in 1 .. Len(list) : list[i] \in S
      /\ \A i \in Len(list) + 1 .. Len(list) : list[i] \notin S
  BY <1>1
<1> QED  BY <1>1, <1>2, ThoseFirst, WholeSubSeq

-------------------------------------------------------------------------------
(* Masks *)

Runs(v) ==
    {q \in v \X v : /\ q[1] <= q[2] /\ q[1] .. q[2] \subseteq v
                    /\ q[1] - 1 \notin v /\ q[2] + 1 \notin v}

\* Every bit of a mask is in a run.
LEMMA BitInRun ==
    ASSUME NEW len \in Nat, NEW v, v \subseteq 0 .. len - 1, NEW x \in v
    PROVE  \E q \in Runs(v) : x \in q[1] .. q[2]
<1> DEFINE B == {y \in 0 .. x : y .. x \subseteq v}
           A == {y \in x .. len - 1 : x .. y \subseteq v}
           lo == Min(B)
           hi == Max(A)
<1>1. x \in Nat /\ x \in 0 .. len - 1 /\ x .. x = {x}
  OBVIOUS
<1>2. B \subseteq Nat /\ x \in B
  BY <1>1
<1>3. lo \in B /\ \A y \in B : lo <= y
  <2> HIDE DEF B
  <2> QED  BY <1>2, MinOfNumbers
<1>4. A \subseteq 0 .. len /\ x \in A
  BY <1>1
<1>5. hi \in A /\ \A y \in A : y <= hi
  <2> HIDE DEF A
  <2> QED  BY <1>4, MaxOfBounded
<1>6. lo \in 0 .. x /\ lo .. x \subseteq v /\ hi \in x .. len - 1 /\ x .. hi \subseteq v
  BY <1>3, <1>5
<1> HIDE DEF lo, hi
<1>7. lo .. hi \subseteq v /\ lo \in v /\ hi \in v /\ lo <= hi /\ x \in lo .. hi
  <2>1. lo \in lo .. x /\ hi \in x .. hi /\ lo <= hi /\ x \in lo .. hi
    BY <1>1, <1>6
  <2>2. \A y \in lo .. hi : y \in lo .. x \/ y \in x .. hi
    BY <1>1, <1>6
  <2> QED  BY <1>6, <2>1, <2>2
<1>8. lo - 1 \notin v
  <2> SUFFICES ASSUME lo - 1 \in v PROVE FALSE
    OBVIOUS
  <2>1. lo - 1 \in 0 .. x /\ \A y \in lo - 1 .. x : y = lo - 1 \/ y \in lo .. x
    BY <1>1, <1>6
  <2>2. lo - 1 \in B
    BY <1>6, <2>1
  <2> QED  BY <1>3, <1>6, <2>2
<1>9. hi + 1 \notin v
  <2> SUFFICES ASSUME hi + 1 \in v PROVE FALSE
    OBVIOUS
  <2>1. hi + 1 \in x .. len - 1 /\ \A y \in x .. hi + 1 : y = hi + 1 \/ y \in x .. hi
    BY <1>1, <1>6
  <2>2. hi + 1 \in A
    BY <1>6, <2>1
  <2> QED  BY <1>5, <1>6, <2>2
<1>10. <<lo, hi>> \in Runs(v)
  BY <1>7, <1>8, <1>9 DEF Runs
<1> QED  BY <1>7, <1>10

\* str_to_bitmask reads what bitmask_to_str wrote.
LEMMA MaskBack ==
    ASSUME NEW len \in Nat, NEW v, v \subseteq 0 .. len - 1, NEW base \in {0, 1}
    PROVE  StrToBitmask(BitmaskToStr(v, base), len, base) = v
<1> DEFINE Str(q) == <<q[1] + base, q[2] + base>>
           Span(r) == ({r[1] - base} \cap (0 .. len - 1))
                        \cup (IF r[2] - base < len THEN r[1] - base + 1 .. r[2] - base
                              ELSE {})
           R == {Str(q) : q \in Runs(v)}
<1>1. \A q \in Runs(v) : /\ q[1] \in 0 .. len - 1 /\ q[2] \in 0 .. len - 1
                         /\ q[1] <= q[2] /\ q[1] .. q[2] \subseteq v
  BY DEF Runs
<1>2. BitmaskToStr(v, base) = R
  BY DEF BitmaskToStr, Runs
<1>3. R # All
  <2>1. ASSUME NEW q \in Runs(v) PROVE Str(q) # <<-1, -1>>
    <3>1. q[1] + base # -1
      BY <1>1
    <3> QED  BY <3>1
  <2>2. <<-1, -1>> \notin R
    BY <2>1
  <2> QED  BY <2>2 DEF All
<1>4. StrToBitmask(R, len, base) = UNION {Span(r) : r \in R}
  BY <1>3 DEF StrToBitmask
<1>5. ASSUME NEW q \in Runs(v) PROVE Span(Str(q)) = q[1] .. q[2]
  <2>1. q[1] \in 0 .. len - 1 /\ q[2] \in 0 .. len - 1 /\ q[1] <= q[2]
    BY <1>1
  <2>2. Str(q)[1] - base = q[1] /\ Str(q)[2] - base = q[2]
    BY <2>1
  <2>3. Span(Str(q)) = {q[1]} \cup (q[1] + 1 .. q[2])
    BY <2>1, <2>2
  <2>4. {q[1]} \cup (q[1] + 1 .. q[2]) = q[1] .. q[2]
    BY <2>1
  <2> QED  BY <2>3, <2>4
<1> HIDE DEF Span, Str
<1>6. UNION {Span(r) : r \in R} \subseteq v
  BY <1>1, <1>5
<1>7. ASSUME NEW x \in v PROVE x \in UNION {Span(r) : r \in R}
  <2>1. PICK q \in Runs(v) : x \in q[1] .. q[2]
    BY BitInRun
  <2>2. x \in Span(Str(q)) /\ Str(q) \in R
    BY <1>5, <2>1
  <2> QED  BY <2>2
<1> QED  BY <1>2, <1>4, <1>6, <1>7

-------------------------------------------------------------------------------
(* What a saved configuration means *)

SetTyped(x) == x = [s \in Setting |-> x[s]] /\ \A s \in Setting : x[s] \in Values(s)

OutputTyped(x) == x = [o \in Output |-> x[o]] /\ \A o \in Output : x[o] \in Fields(o)
KeysTyped(x) == x \in [1 .. MaxKeys -> Key \cup {NoKey}]
AclTyped(x) == x \in Seq(Net \cup {AnyNet}) /\ Len(x) <= MaxAcl
SourceTyped(x) ==
    /\ x = [v \in Sensor |-> x[v]]
    /\ \A v \in Sensor : x[v] \in Sources /\ Len(x[v].sensors) <= MaxSources

Record(c) ==
    c = [set |-> c.set, output |-> c.output, keys |-> c.keys, acl |-> c.acl,
         source |-> c.source]

Typed(c) ==
    /\ Record(c) /\ SetTyped(c.set) /\ OutputTyped(c.output) /\ KeysTyped(c.keys)
    /\ AclTyped(c.acl) /\ SourceTyped(c.source)

SetToJson(x) ==
    [s \in {t \in Setting : ~Omitted(t, x[t])} |->
        IF KindOf[s] = "mask" THEN BitmaskToStr(x[s], 1) ELSE x[s]]

RenamedSetting(s, v) == IF KindOf[s] = "named" /\ v = Empty THEN Given ELSE v

LEMMA ItemBack ==
    ASSUME NEW x, SetTyped(x), NEW s \in Setting
    PROVE  ReadItem(s, SetToJson(x)) = RenamedSetting(s, x[s])
<1>1. KindOf[s] \in Kinds /\ x[s] \in Values(s)
  BY SettingsAssumption DEF SetTyped
<1>2. CASE Omitted(s, x[s])
  <2>1. ReadItem(s, SetToJson(x)) = Default(s)
    BY <1>2 DEF ReadItem, SetToJson
  <2>2. CASE KindOf[s] \in Word
    <3>1. x[s] = Empty
      BY <1>2, <2>2 DEF Omitted
    <3>2. KindOf[s] \in {"text", "named"}
      BY <1>1, <2>2, <3>1 DEF Values, Word
    <3>3. Default(s) = RenamedSetting(s, Empty)
      BY <3>2 DEF Default, RenamedSetting
    <3> QED  BY <2>1, <3>1, <3>3
  <2>3. CASE KindOf[s] \notin Word
    <3>1. KindOf[s] \notin {"switch", "small", "debug"}
      BY <1>2, <2>3 DEF Omitted, Word
    <3>2. x[s] = Default(s)
      BY <1>2, <2>3, <3>1 DEF Omitted
    <3>3. KindOf[s] # "named"
      BY <2>3 DEF Word
    <3> QED  BY <2>1, <3>2, <3>3 DEF RenamedSetting
  <2> QED  BY <2>2, <2>3
<1>3. CASE ~Omitted(s, x[s])
  <2>1. s \in DOMAIN SetToJson(x)
    BY <1>3 DEF SetToJson
  <2>2. CASE KindOf[s] = "mask"
    <3>1. x[s] \subseteq 0 .. Bits - 1 /\ Bits \in Nat
      BY <1>1, <2>2, SettingsAssumption DEF Values
    <3>2. StrToBitmask(BitmaskToStr(x[s], 1), Bits, 1) = x[s]
      BY <3>1, MaskBack
    <3> QED  BY <1>3, <2>1, <2>2, <3>2 DEF ReadItem, SetToJson, RenamedSetting
  <2>3. CASE KindOf[s] # "mask"
    <3>1. ReadItem(s, SetToJson(x)) = x[s]
      BY <1>3, <2>1, <2>3 DEF ReadItem, SetToJson
    <3>2. KindOf[s] = "named" => x[s] # Empty
      BY <1>3 DEF Omitted, Word
    <3> QED  BY <3>1, <3>2 DEF RenamedSetting
  <2> QED  BY <2>2, <2>3
<1> QED  BY <1>2, <1>3

\* The keys that are there, in the first slots
LEMMA KeysBack ==
    ASSUME NEW keys, KeysTyped(keys)
    PROVE  /\ KeysTyped(ReadKeys(Occupied(keys)))
           /\ Occupied(ReadKeys(Occupied(keys))) = Occupied(keys)
<1> DEFINE T == Key \cup {NoKey}
           kept == Occupied(keys)
           read == ReadKeys(kept)
<1>1. MaxKeys \in Nat /\ NoKey \notin Key /\ keys \in [1 .. MaxKeys -> T]
  BY SettingsAssumption DEF KeysTyped
<1>2. keys \in Seq(T) /\ Len(keys) = MaxKeys
  BY <1>1
<1>3. kept \in Seq(T \cap Key) /\ Len(kept) <= MaxKeys
  BY <1>2, ThoseItems DEF Occupied
<1>4. kept \in Seq(Key) /\ Len(kept) \in 0 .. MaxKeys
  <2>1. T \cap Key = Key
    OBVIOUS
  <2> QED  BY <1>1, <1>3, <2>1
<1> HIDE DEF kept
<1>5. /\ read = [i \in 1 .. MaxKeys |-> IF i <= Len(kept) THEN kept[i] ELSE NoKey]
  BY DEF ReadKeys
<1>6. \A i \in 1 .. MaxKeys : read[i] \in T
  BY <1>1, <1>4, <1>5
<1>7. read \in [1 .. MaxKeys -> T]
  BY <1>5, <1>6
<1>8. read \in Seq(T) /\ Len(read) = MaxKeys
  BY <1>1, <1>7
<1>9. /\ \A i \in 1 .. Len(kept) : read[i] = kept[i] /\ read[i] \in Key
      /\ \A i \in Len(kept) + 1 .. Len(read) : read[i] \notin Key
  BY <1>1, <1>4, <1>5, <1>8
<1> HIDE DEF read
<1>10. Those(read, Key) = SubSeq(read, 1, Len(kept))
  BY <1>4, <1>8, <1>9, ThoseFirst
<1>11. SubSeq(read, 1, Len(kept)) = kept
  BY <1>4, <1>8, <1>9
<1>12. Occupied(read) = kept
  BY <1>10, <1>11 DEF Occupied
<1> QED  BY <1>7, <1>12 DEF kept, read, KeysTyped

\* The closed networks, in their order
LEMMA AclBack ==
    ASSUME NEW acl, AclTyped(acl)
    PROVE  /\ AclTyped(ReadAcl(Closed(acl)))
           /\ Items(ReadAcl(Closed(acl))) \ {AnyNet} = Items(acl) \ {AnyNet}
<1> DEFINE T == Net \cup {AnyNet}
           closed == Closed(acl)
<1>1. acl \in Seq(T) /\ Len(acl) <= MaxAcl /\ MaxAcl \in Nat /\ AnyNet \notin Net
  BY SettingsAssumption DEF AclTyped
<1>2. /\ closed \in Seq(T \cap Net) /\ Len(closed) <= Len(acl)
      /\ Items(closed) = Items(acl) \cap Net
  BY <1>1, ThoseItems DEF Closed
<1>3. closed \in Seq(T) /\ Len(closed) \in Nat /\ Len(closed) <= MaxAcl
  BY <1>1, <1>2
<1> HIDE DEF closed
<1>4. Min({Len(closed), MaxAcl}) = Len(closed)
  <2>1. {Len(closed), MaxAcl} \subseteq Nat /\ {Len(closed), MaxAcl} # {}
    BY <1>1, <1>3
  <2>2. /\ Min({Len(closed), MaxAcl}) \in {Len(closed), MaxAcl}
        /\ Min({Len(closed), MaxAcl}) <= Len(closed)
    BY <2>1, MinOfNumbers
  <2> QED  BY <1>1, <1>3, <2>2
<1>5. ReadAcl(closed) = closed
  BY <1>3, <1>4, WholeSubSeq DEF ReadAcl
<1>6. Items(acl) \subseteq T
  BY <1>1 DEF Items
<1>7. Items(acl) \ {AnyNet} = Items(closed) \ {AnyNet}
  BY <1>1, <1>2, <1>6
<1> QED  BY <1>3, <1>5, <1>7 DEF AclTyped, closed

\* The fields of a sensor's mode; a sensor on the bus is left with another
\* timeout and default
KeptSource(x, manual) ==
    IF x.mode = "i2c" THEN [x EXCEPT !.manual = manual] ELSE x

LEMMA SourceBack ==
    ASSUME NEW x \in Sources, Len(x.sensors) <= MaxSources,
           NEW y \in Sources, Len(y.sensors) <= MaxSources
    PROVE  /\ ReadSource(y, SourceToJson(x)) \in Sources
           /\ Len(ReadSource(y, SourceToJson(x)).sensors) <= MaxSources
           /\ SourceMeaning(ReadSource(y, SourceToJson(x)))
                = SourceMeaning(KeptSource(x, y.manual))
<1> DEFINE S == Sensor \cup {PicoTemp}
           r == ReadSource(y, SourceToJson(x))
<1>1. /\ DOMAIN y = {"mode", "manual", "i2c", "sensors"}
      /\ x.mode \in {"manual", "i2c", "picotemp", "max"}
      /\ x.manual \in Text /\ x.i2c \in Text /\ x.sensors \in Seq(S)
      /\ y.manual \in Text /\ y.i2c \in Text /\ y.sensors \in Seq(S)
  BY DEF Sources
<1>2. ReadSensors(x.sensors) = x.sensors
  <2>1. Those(x.sensors, S) = x.sensors
    BY <1>1, ThoseAll
  <2>2. Len(x.sensors) \in Nat /\ MaxSources \in Nat
    BY <1>1, SettingsAssumption
  <2>3. Min({Len(x.sensors), MaxSources}) = Len(x.sensors)
    <3>1. {Len(x.sensors), MaxSources} \subseteq Nat /\ {Len(x.sensors), MaxSources} # {}
      BY <2>2
    <3>2. /\ Min({Len(x.sensors), MaxSources}) \in {Len(x.sensors), MaxSources}
          /\ Min({Len(x.sensors), MaxSources}) <= Len(x.sensors)
      BY <3>1, MinOfNumbers
    <3> QED  BY <2>2, <3>2
  <2> QED  BY <1>1, <2>1, <2>3, WholeSubSeq DEF ReadSensors
<1>3. CASE x.mode = "manual"
  <2>1. r = [mode |-> x.mode, manual |-> x.manual, i2c |-> y.i2c, sensors |-> y.sensors]
    BY <1>1, <1>3 DEF ReadSource, SourceToJson
  <2> HIDE DEF r
  <2>2. KeptSource(x, y.manual) = x
    BY <1>3 DEF KeptSource
  <2>3. SourceMeaning(r) = SourceMeaning(x)
    BY <1>3, <2>1 DEF SourceMeaning, SourceToJson
  <2> QED  BY <1>1, <1>3, <2>1, <2>2, <2>3 DEF Sources, r
<1>4. CASE x.mode = "i2c"
  <2>1. r = [mode |-> x.mode, manual |-> y.manual, i2c |-> x.i2c, sensors |-> y.sensors]
    BY <1>1, <1>4 DEF ReadSource, SourceToJson
  <2> HIDE DEF r
  <2> DEFINE k == [x EXCEPT !.manual = y.manual]
  <2>2. KeptSource(x, y.manual) = k
    BY <1>4 DEF KeptSource
  <2>3. k.mode = x.mode /\ k.i2c = x.i2c /\ k.manual = y.manual
    BY DEF Sources
  <2> HIDE DEF k
  <2>4. SourceMeaning(r) = SourceMeaning(k)
    BY <1>4, <2>1, <2>3 DEF SourceMeaning
  <2> QED  BY <1>1, <1>4, <2>1, <2>2, <2>4 DEF Sources, r
<1>5. CASE x.mode \in {"picotemp", "max"}
  <2>1. r = [mode |-> x.mode, manual |-> y.manual, i2c |-> y.i2c, sensors |-> x.sensors]
    BY <1>1, <1>2, <1>5 DEF ReadSource, SourceToJson
  <2> HIDE DEF r
  <2>2. KeptSource(x, y.manual) = x
    BY <1>5 DEF KeptSource
  <2>3. SourceMeaning(r) = SourceMeaning(x)
    BY <1>5, <2>1 DEF SourceMeaning, SourceToJson
  <2> QED  BY <1>1, <1>5, <2>1, <2>2, <2>3 DEF Sources, r
<1> QED  BY <1>1, <1>3, <1>4, <1>5

MeaningOf(set, output, keys, acl, source) ==
    [set |-> set, output |-> output, keys |-> keys, acl |-> acl, source |-> source]

LEMMA MeaningParts ==
    ASSUME NEW c, Record(c)
    PROVE  Meaning(c) = MeaningOf(c.set, c.output, Occupied(c.keys),
                                  Items(c.acl) \ {AnyNet},
                                  [v \in Sensor |-> SourceMeaning(c.source[v])])
<1> DEFINE K == Occupied(c.keys)
           A == Items(c.acl) \ {AnyNet}
           S == [v \in Sensor |-> SourceMeaning(c.source[v])]
<1>1. Meaning(c) = [c EXCEPT !.keys = K, !.acl = A, !.source = S]
  BY DEF Meaning, Items
<1> HIDE DEF K, A, S
<1>2. PICK a, b, k, l, x : c = [set |-> a, output |-> b, keys |-> k, acl |-> l, source |-> x]
  BY DEF Record
<1>3. Meaning(c) = MeaningOf(c.set, c.output, K, A, S)
  BY <1>1, <1>2 DEF MeaningOf
<1> QED  BY <1>3 DEF K, A, S

LEMMA KeptParts ==
    ASSUME NEW c, Record(c)
    PROVE  Kept(c) = [set |-> [s \in Setting |-> RenamedSetting(s, c.set[s])],
                      output |-> c.output, keys |-> c.keys, acl |-> c.acl,
                      source |-> [v \in Sensor |->
                        KeptSource(c.source[v], ClearConfig.source[v].manual)]]
<1> DEFINE S == [s \in Setting |-> RenamedSetting(s, c.set[s])]
           X == [v \in Sensor |->
                    KeptSource(c.source[v], ClearConfig.source[v].manual)]
<1>1. Kept(c) = [c EXCEPT !.set = S, !.source = X]
  BY DEF Kept, RenamedSetting, KeptSource
<1> HIDE DEF S, X
<1>2. PICK a, b, k, l, x : c = [set |-> a, output |-> b, keys |-> k, acl |-> l, source |-> x]
  BY DEF Record
<1>3. Kept(c) = [set |-> S, output |-> c.output, keys |-> c.keys, acl |-> c.acl,
                 source |-> X]
  BY <1>1, <1>2
<1> QED  BY <1>3 DEF S, X

LEMMA ReadParts ==
    ASSUME NEW c, Record(c)
    PROVE  JsonToConfig(ConfigToJson(c)) =
            [set    |-> [s \in Setting |-> ReadItem(s, SetToJson(c.set))],
             output |-> c.output,
             keys   |-> ReadKeys(Occupied(c.keys)),
             acl    |-> ReadAcl(Closed(c.acl)),
             source |-> [v \in Sensor |->
                            ReadSource(ClearConfig.source[v], SourceToJson(c.source[v]))]]
<1>1. ConfigToJson(c) = [set |-> SetToJson(c.set), output |-> c.output,
                         keys |-> Occupied(c.keys), acl |-> Closed(c.acl),
                         source |-> [v \in Sensor |-> SourceToJson(c.source[v])]]
  BY DEF ConfigToJson, SetToJson, KeysToJson
<1> QED  BY <1>1 DEF JsonToConfig

LEMMA DefaultTyped ==
    ASSUME NEW s \in Setting
    PROVE  Default(s) \in Values(s)
<1>1. KindOf[s] \in Kinds /\ Bits \in Nat
  BY SettingsAssumption
<1>2. CASE KindOf[s] \in {"text", "named"}
  BY <1>2 DEF Default, Values, Text, Given, Empty
<1>3. CASE KindOf[s] \in {"checked", "listed"}
  <2>1. Given \in Text \ {Empty}
    BY DEF Text, Given, Empty
  <2> QED  BY <1>3, <2>1 DEF Default, Values
<1>4. CASE KindOf[s] = "address"
  BY <1>4 DEF Default, Values, Address, AnyIp
<1>5. CASE KindOf[s] \in {"switch", "guard"}
  BY <1>5 DEF Default, Values
<1>6. CASE KindOf[s] \in {"small", "debug", "mask"}
  BY <1>6 DEF Default, Values
<1>7. CASE KindOf[s] \in {"number", "interval"}
  <2>1. 0 \in Wide /\ Interval \in Wide
    BY DEF Wide, Interval
  <2> QED  BY <1>7, <2>1 DEF Default, Values
<1> QED  BY <1>1, <1>2, <1>3, <1>4, <1>5, <1>6, <1>7 DEF Kinds

LEMMA ClearTyped == Typed(ClearConfig)
<1>1. ClearConfig = [set |-> ClearConfig.set, output |-> ClearConfig.output,
                     keys |-> ClearConfig.keys, acl |-> ClearConfig.acl,
                     source |-> ClearConfig.source]
  BY DEF ClearConfig
<1>2. SetTyped(ClearConfig.set)
  <2>1. ClearConfig.set = [s \in Setting |-> Default(s)]
    BY DEF ClearConfig
  <2> QED  BY <2>1, DefaultTyped DEF SetTyped
<1>3. OutputTyped(ClearConfig.output)
  <2> DEFINE f == [name |-> Given, pwm |-> 100, state |-> FALSE]
  <2>1. ClearConfig.output = [o \in Output |-> f]
    BY DEF ClearConfig
  <2>2. \A o \in Output : f \in Fields(o)
    BY DEF Fields, Text
  <2> HIDE DEF f
  <2> QED  BY <2>1, <2>2 DEF OutputTyped
<1>4. KeysTyped(ClearConfig.keys)
  BY DEF ClearConfig, KeysTyped
<1>5. AclTyped(ClearConfig.acl)
  BY SettingsAssumption DEF ClearConfig, AclTyped
<1>6. SourceTyped(ClearConfig.source)
  <2> DEFINE f(m) == [mode |-> m, manual |-> Empty, i2c |-> Empty, sensors |-> <<>>]
             first(v) == f(IF v = 1 THEN "picotemp" ELSE "manual")
  <2>1. ClearConfig.source = [v \in Sensor |-> first(v)]
    BY DEF ClearConfig
  <2>2. ASSUME NEW m \in {"picotemp", "manual"}
        PROVE  f(m) \in Sources /\ Len(f(m).sensors) <= MaxSources
    <3>1. <<>> \in Seq(Sensor \cup {PicoTemp}) /\ Len(<<>>) = 0 /\ MaxSources \in Nat
      BY SettingsAssumption
    <3>2. Empty \in Text
      BY DEF Text
    <3>3. f(m).sensors = <<>>
      OBVIOUS
    <3> QED  BY <3>1, <3>2, <3>3 DEF Sources
  <2> HIDE DEF f
  <2>3. \A v \in Sensor : first(v) \in Sources /\ Len(first(v).sensors) <= MaxSources
    BY <2>2
  <2> HIDE DEF first
  <2> QED  BY <2>1, <2>3 DEF SourceTyped
<1> QED  BY <1>1, <1>2, <1>3, <1>4, <1>5, <1>6 DEF Typed, Record

\* A file gives back a configuration of its type that means what it meant.
LEMMA RoundTrip ==
    ASSUME NEW c, Typed(c)
    PROVE  /\ Typed(JsonToConfig(ConfigToJson(c)))
           /\ Meaning(JsonToConfig(ConfigToJson(c))) = Meaning(Kept(c))
<1> DEFINE d == JsonToConfig(ConfigToJson(c))
           r == Kept(c)
           set == [s \in Setting |-> RenamedSetting(s, c.set[s])]
           from(v) == ReadSource(ClearConfig.source[v], SourceToJson(c.source[v]))
           source == [v \in Sensor |-> from(v)]
           kept(v) == KeptSource(c.source[v], ClearConfig.source[v].manual)
           keptsource == [v \in Sensor |-> kept(v)]
<1>1. /\ Record(c) /\ SetTyped(c.set) /\ OutputTyped(c.output) /\ KeysTyped(c.keys)
      /\ AclTyped(c.acl) /\ SourceTyped(c.source) /\ SourceTyped(ClearConfig.source)
  BY ClearTyped DEF Typed
<1>2. d = [set |-> set, output |-> c.output, keys |-> ReadKeys(Occupied(c.keys)),
           acl |-> ReadAcl(Closed(c.acl)), source |-> source]
  <2>1. [s \in Setting |-> ReadItem(s, SetToJson(c.set))] = set
    BY <1>1, ItemBack
  <2> HIDE DEF set
  <2> QED  BY <1>1, <2>1, ReadParts
<1>3. r = [set |-> set, output |-> c.output, keys |-> c.keys, acl |-> c.acl,
           source |-> keptsource]
  BY <1>1, KeptParts
<1>4. SetTyped(set)
  <2>1. ASSUME NEW s \in Setting
        PROVE  set[s] \in Values(s)
    <3>1. CASE RenamedSetting(s, c.set[s]) = c.set[s]
      BY <1>1, <3>1 DEF SetTyped
    <3>2. CASE KindOf[s] = "named" /\ c.set[s] = Empty
      <4>1. set[s] = Given
        BY <3>2 DEF RenamedSetting
      <4>2. Values(s) = Text
        BY <3>2 DEF Values
      <4> HIDE DEF set
      <4> QED  BY <4>1, <4>2 DEF Text
    <3> QED  BY <3>1, <3>2 DEF RenamedSetting
  <2> QED  BY <2>1 DEF SetTyped
<1>5. ASSUME NEW v \in Sensor
      PROVE  /\ from(v) \in Sources /\ Len(from(v).sensors) <= MaxSources
             /\ SourceMeaning(from(v)) = SourceMeaning(kept(v))
  <2>1. /\ c.source[v] \in Sources /\ Len(c.source[v].sensors) <= MaxSources
        /\ ClearConfig.source[v] \in Sources
        /\ Len(ClearConfig.source[v].sensors) <= MaxSources
    BY <1>1 DEF SourceTyped
  <2> QED  BY <2>1, SourceBack
<1> HIDE DEF set, from, kept
<1>6. SourceTyped(source)
  BY <1>5 DEF SourceTyped
<1>7. [v \in Sensor |-> SourceMeaning(source[v])]
        = [v \in Sensor |-> SourceMeaning(keptsource[v])]
  BY <1>5
<1> HIDE DEF source, keptsource, d, r
<1>8. Record(d) /\ Record(r)
  BY <1>2, <1>3 DEF Record
<1>9. Typed(d)
  BY <1>1, <1>2, <1>4, <1>6, <1>8, KeysBack, AclBack DEF Typed
<1>10. /\ d.set = r.set /\ d.output = r.output
       /\ Occupied(d.keys) = Occupied(r.keys)
       /\ Items(d.acl) \ {AnyNet} = Items(r.acl) \ {AnyNet}
       /\ [v \in Sensor |-> SourceMeaning(d.source[v])]
            = [v \in Sensor |-> SourceMeaning(r.source[v])]
  BY <1>1, <1>2, <1>3, <1>7, KeysBack, AclBack
<1>11. Meaning(d) = Meaning(r)
  BY <1>8, <1>10, MeaningParts
<1> QED  BY <1>9, <1>11 DEF d, r

-------------------------------------------------------------------------------
(* The commands keep the types *)

\* What a command leaves
Stays == Typed(conf') /\ res' \in -1 .. 2

LEMMA FailStays ==
    ASSUME Typed(conf), NEW code \in 0 .. 2, Fail(code)
    PROVE  Stays
BY DEF Fail, Stays

LEMMA StoreStays ==
    ASSUME Typed(conf), NEW s \in Setting, NEW v \in Values(s), Store(s, v)
    PROVE  Stays
<1> DEFINE set == [conf.set EXCEPT ![s] = v]
<1>1. conf' = [conf EXCEPT !.set[s] = v] /\ res' = 0
  BY DEF Store
<1>2. conf' = [set |-> set, output |-> conf.output, keys |-> conf.keys,
               acl |-> conf.acl, source |-> conf.source]
  <2>1. PICK a, b, k, l, x :
            conf = [set |-> a, output |-> b, keys |-> k, acl |-> l, source |-> x]
    BY DEF Typed, Record
  <2> QED  BY <1>1, <2>1
<1>3. SetTyped(set)
  BY DEF Typed, SetTyped
<1> HIDE DEF set
<1> QED  BY <1>1, <1>2, <1>3 DEF Typed, Record, Stays

LEMMA TextStays ==
    ASSUME Typed(conf), NEW s \in Setting, TextCommand(s)
    PROVE  Stays
<1>1. CASE KindOf[s] \in {"text", "named", "checked"} /\ \E v \in Texts : StringSetting(s, v)
  <2>1. PICK v \in Texts : StringSetting(s, v)
    BY <1>1
  <2>2. CASE KindOf[s] = "checked" /\ v = Empty
    BY <2>1, <2>2, FailStays DEF StringSetting
  <2>3. CASE ~(KindOf[s] = "checked" /\ v = Empty)
    <3>1. v \in Text
      BY <2>1 DEF Texts, Text
    <3>2. v \in Values(s)
      BY <1>1, <2>3, <3>1 DEF Values
    <3> QED  BY <2>1, <2>3, <3>2, StoreStays DEF StringSetting
  <2> QED  BY <2>2, <2>3
<1>2. CASE KindOf[s] = "listed" /\ \E v \in Texts : ListedSetting(s, v)
  <2>1. PICK v \in Texts : ListedSetting(s, v)
    BY <1>2
  <2>2. CASE v = Empty
    BY <2>1, <2>2, FailStays DEF ListedSetting
  <2>3. CASE v # Empty
    <3>1. v \in Text \ {Empty}
      BY <2>1, <2>3 DEF Texts, Text
    <3>2. v \in Values(s)
      BY <1>2, <3>1 DEF Values
    <3> QED  BY <2>1, <2>3, <3>2, StoreStays DEF ListedSetting
  <2> QED  BY <2>2, <2>3
<1> QED  BY <1>1, <1>2 DEF TextCommand

LEMMA SwitchStays ==
    ASSUME Typed(conf), NEW s \in Setting, SwitchCommand(s)
    PROVE  Stays
<1>1. PICK b \in Switches : BoolSetting(s, b)
  BY DEF SwitchCommand
<1>2. CASE b = <<>>
  BY <1>1, <1>2, FailStays DEF BoolSetting
<1>3. CASE b # <<>>
  <2>1. b[1] \in BOOLEAN
    <3>1. PICK x \in BOOLEAN : b = <<x>>
      BY <1>3, Zenon DEF Switches
    <3> QED  BY <3>1
  <2>2. Values(s) = BOOLEAN
    BY DEF SwitchCommand, Values
  <2> QED  BY <1>1, <1>3, <2>1, <2>2, StoreStays DEF BoolSetting
<1> QED  BY <1>2, <1>3

LEMMA NumberStays ==
    ASSUME Typed(conf), NEW s \in Setting, NumberCommand(s)
    PROVE  Stays
<1>1. CASE KindOf[s] = "small" /\ \E n \in Counts : Uint8Setting(s, n)
  <2>1. PICK n \in Counts : Uint8Setting(s, n)
    BY <1>1
  <2>2. CASE n # <<>> /\ n[1] % 256 \in 0 .. 2
    <3>1. n[1] % 256 \in Values(s)
      BY <1>1, <2>2 DEF Values
    <3> QED  BY <2>1, <2>2, <3>1, StoreStays DEF Uint8Setting
  <2>3. CASE ~(n # <<>> /\ n[1] % 256 \in 0 .. 2)
    BY <2>1, <2>3, FailStays DEF Uint8Setting
  <2> QED  BY <2>2, <2>3
<1>2. CASE KindOf[s] \in {"number", "interval"} /\ \E n \in Large : Uint32Setting(s, n)
  <2>1. PICK n \in Large : Uint32Setting(s, n)
    BY <1>2
  <2>2. CASE n # <<>> /\ n[1] \in Wide
    <3>1. n[1] \in Values(s)
      BY <1>2, <2>2 DEF Values
    <3> QED  BY <2>1, <2>2, <3>1, StoreStays DEF Uint32Setting
  <2>3. CASE ~(n # <<>> /\ n[1] \in Wide)
    BY <2>1, <2>3, FailStays DEF Uint32Setting
  <2> QED  BY <2>2, <2>3
<1>3. CASE KindOf[s] = "debug" /\ \E n \in Levels : DebugSetting(s, n)
  <2>1. PICK n \in Levels : DebugSetting(s, n)
    BY <1>3
  <2>2. CASE n = <<>>
    BY <2>1, <2>2, FailStays DEF DebugSetting
  <2>3. CASE n # <<>>
    <3>1. n[1] \in {-1, 1}
      BY <2>3 DEF Levels
    <3>2. Max({n[1], 0}) \in Nat
      <4>1. n[1] = 1 => \E x \in {n[1], 0} : \A y \in {n[1], 0} : x >= y
        OBVIOUS
      <4>2. n[1] = -1 => \E x \in {n[1], 0} : \A y \in {n[1], 0} : x >= y
        OBVIOUS
      <4>3. /\ Max({n[1], 0}) \in {n[1], 0}
            /\ \A y \in {n[1], 0} : Max({n[1], 0}) >= y
        BY <3>1, <4>1, <4>2 DEF Max
      <4> QED  BY <3>1, <4>3
    <3>3. Max({n[1], 0}) \in Values(s)
      BY <1>3, <3>2 DEF Values
    <3> QED  BY <2>1, <2>3, <3>3, StoreStays DEF DebugSetting
  <2> QED  BY <2>2, <2>3
<1> QED  BY <1>1, <1>2, <1>3 DEF NumberCommand

LEMMA MaskStays ==
    ASSUME Typed(conf), NEW s \in Setting, MaskCommand(s)
    PROVE  Stays
<1>1. PICK r \in Ranges : Bitmask16Setting(s, r)
  BY DEF MaskCommand
<1>2. /\ Bits \in Nat
      /\ \A q \in r : q[2] \in Int
  BY SettingsAssumption DEF Ranges
<1>3. StrToBitmask(r, Bits, 1) \subseteq 0 .. Bits - 1
  <2> DEFINE Span(q) == ({q[1] - 1} \cap (0 .. Bits - 1))
                          \cup (IF q[2] - 1 < Bits THEN q[1] - 1 + 1 .. q[2] - 1 ELSE {})
  <2>1. CASE r = All
    BY <2>1 DEF StrToBitmask
  <2>2. CASE r # All
    <3>1. StrToBitmask(r, Bits, 1) = UNION {Span(q) : q \in r}
      BY <2>2 DEF StrToBitmask
    <3>2. ASSUME NEW q \in r PROVE Span(q) \subseteq 0 .. Bits - 1
      <4>1. q[1] \in Nat /\ q[2] \in Nat
        BY DEF Ranges
      <4> QED  BY <1>2, <4>1
    <3> HIDE DEF Span
    <3> QED  BY <3>1, <3>2
  <2> QED  BY <2>1, <2>2
<1>4. StrToBitmask(r, Bits, 1) \in Values(s)
  BY <1>3 DEF MaskCommand, Values
<1> QED  BY <1>1, <1>4, StoreStays DEF Bitmask16Setting

LEMMA AddressStays ==
    ASSUME Typed(conf), NEW s \in Setting, AddressCommand(s)
    PROVE  Stays
<1>1. PICK ip \in Addresses : IpChange(s, ip)
  BY DEF AddressCommand
<1>2. CASE ip = Empty
  BY <1>1, <1>2, FailStays DEF IpChange
<1>3. CASE ip # Empty
  <2>1. ip \in Values(s)
    BY <1>3 DEF Addresses, AddressCommand, Values
  <2> QED  BY <1>1, <1>3, <2>1, StoreStays DEF IpChange
<1> QED  BY <1>2, <1>3

LEMMA SettingStays ==
    ASSUME Typed(conf), NEW s \in Setting, SettingCommand(s)
    PROVE  Stays
BY TextStays, SwitchStays, NumberStays, MaskStays, AddressStays DEF SettingCommand

LEMMA OutputStays ==
    ASSUME Typed(conf), NEW o \in Output, NEW f \in Fields(o),
           conf' = [conf EXCEPT !.output[o] = f], res' = 0
    PROVE  Stays
<1> DEFINE output == [conf.output EXCEPT ![o] = f]
<1>1. conf' = [set |-> conf.set, output |-> output, keys |-> conf.keys,
               acl |-> conf.acl, source |-> conf.source]
  <2>1. PICK a, b, k, l, x :
            conf = [set |-> a, output |-> b, keys |-> k, acl |-> l, source |-> x]
    BY DEF Typed, Record
  <2> QED  BY <2>1
<1>2. OutputTyped(output)
  <2>1. OutputTyped(conf.output)
    BY DEF Typed
  <2>2. \A p \in Output : Fields(p) = Fields(o)
    BY DEF Fields
  <2> QED  BY <2>1, <2>2 DEF OutputTyped
<1> HIDE DEF output
<1> QED  BY <1>1, <1>2 DEF Typed, Record, Stays

LEMMA NameStays ==
    ASSUME Typed(conf), NEW o \in Output, NEW v \in Texts, OutputSetting(o, "name", v)
    PROVE  Stays
<1> DEFINE f == [conf.output[o] EXCEPT !.name = v]
<1>1. conf.output[o] \in Fields(o) /\ v \in Text
  BY DEF Typed, OutputTyped, Texts, Text
<1>2. f \in Fields(o)
  BY <1>1 DEF Fields
<1>3. conf' = [conf EXCEPT !.output[o] = f] /\ res' = 0
  BY DEF OutputSetting
<1> HIDE DEF f
<1> QED  BY <1>2, <1>3, OutputStays

LEMMA StateStays ==
    ASSUME Typed(conf), NEW o \in Output, NEW word, OutputState(o, word)
    PROVE  Stays
<1> DEFINE f == [conf.output[o] EXCEPT !.state = word # "off"]
<1>1. conf.output[o] \in Fields(o)
  BY DEF Typed, OutputTyped
<1>2. f \in Fields(o)
  BY <1>1 DEF Fields
<1>3. conf' = [conf EXCEPT !.output[o] = f] /\ res' = 0
  BY DEF OutputSetting, OutputState
<1> HIDE DEF f
<1> QED  BY <1>2, <1>3, OutputStays

LEMMA PwmStays ==
    ASSUME Typed(conf), NEW o \in Output, NEW n, OutputPwm(o, n)
    PROVE  Stays
<1>1. CASE n # <<>> /\ n[1] \in 0 .. 100
  <2> DEFINE f == [conf.output[o] EXCEPT !.pwm = n[1]]
  <2>1. conf.output[o] \in Fields(o)
    BY DEF Typed, OutputTyped
  <2>2. f \in Fields(o)
    BY <1>1, <2>1 DEF Fields
  <2>3. conf' = [conf EXCEPT !.output[o] = f] /\ res' = 0
    BY <1>1 DEF OutputSetting, OutputPwm
  <2> HIDE DEF f
  <2> QED  BY <2>2, <2>3, OutputStays
<1>2. CASE ~(n # <<>> /\ n[1] \in 0 .. 100)
  BY <1>2, FailStays DEF OutputPwm
<1> QED  BY <1>1, <1>2

LEMMA DefaultsStay ==
    ASSUME Typed(conf), pwr \in [Output -> BOOLEAN], pwm \in [Output -> 0 .. 100],
           NEW f, Defaults(f)
    PROVE  Stays
<1> DEFINE F(o) == conf.output[o]
           withPwm == [o \in Output |-> [F(o) EXCEPT !.pwm = pwm[o]]]
           withState == [o \in Output |-> [F(o) EXCEPT !.state = pwr[o]]]
<1>1. \A o \in Output : F(o) \in Fields(o) /\ pwm[o] \in 0 .. 100 /\ pwr[o] \in BOOLEAN
  BY DEF Typed, OutputTyped
<1>2. ASSUME NEW out, OutputTyped(out), conf' = [conf EXCEPT !.output = out],
             res' \in {0, 1}
      PROVE  Stays
  <2>1. conf' = [set |-> conf.set, output |-> out, keys |-> conf.keys,
                 acl |-> conf.acl, source |-> conf.source]
    <3>1. PICK a, b, k, l, x :
              conf = [set |-> a, output |-> b, keys |-> k, acl |-> l, source |-> x]
      BY DEF Typed, Record
    <3> QED  BY <1>2, <3>1
  <2> QED  BY <1>2, <2>1 DEF Typed, Record, Stays
<1>3. OutputTyped(withPwm)
  <2>1. \A o \in Output : [F(o) EXCEPT !.pwm = pwm[o]] \in Fields(o)
    BY <1>1 DEF Fields
  <2> QED  BY <2>1 DEF OutputTyped
<1>4. OutputTyped(withState)
  <2>1. ASSUME NEW o \in Output PROVE [F(o) EXCEPT !.state = pwr[o]] \in Fields(o)
    <3>1. PICK a, b, c : F(o) = [name |-> a, pwm |-> b, state |-> c]
                         /\ a \in Text /\ b \in 0 .. 100
      BY <1>1 DEF Fields
    <3>2. [F(o) EXCEPT !.state = pwr[o]] = [name |-> a, pwm |-> b, state |-> pwr[o]]
      BY <3>1
    <3> QED  BY <1>1, <3>1, <3>2 DEF Fields
  <2> QED  BY <2>1 DEF OutputTyped
<1>5. \/ conf' = [conf EXCEPT !.output = withPwm] /\ res' = 0
      \/ conf' = [conf EXCEPT !.output = withState] /\ res' = 1
  BY DEF Defaults
<1> HIDE DEF withPwm, withState
<1> QED  BY <1>2, <1>3, <1>4, <1>5

LEMMA KeysStay ==
    ASSUME Typed(conf), NEW keys, KeysTyped(keys),
           conf' = [conf EXCEPT !.keys = keys], res' = 0
    PROVE  Stays
<1>1. conf' = [set |-> conf.set, output |-> conf.output, keys |-> keys,
               acl |-> conf.acl, source |-> conf.source]
  <2>1. PICK a, b, k, l, x :
            conf = [set |-> a, output |-> b, keys |-> k, acl |-> l, source |-> x]
    BY DEF Typed, Record
  <2> QED  BY <2>1
<1> QED  BY <1>1 DEF Typed, Record, Stays

LEMMA KeyAddStays ==
    ASSUME Typed(conf), NEW k \in Key \cup {NoKey}, PubkeyAdd(k)
    PROVE  Stays
<1> DEFINE free == {i \in 1 .. MaxKeys : conf.keys[i] = NoKey}
           keys == [conf.keys EXCEPT ![Min(free)] = k]
<1>1. CASE k # NoKey /\ free # {}
  <2>1. conf' = [conf EXCEPT !.keys = keys] /\ res' = 0
    BY <1>1 DEF PubkeyAdd
  <2>2. KeysTyped(keys)
    BY DEF Typed, KeysTyped
  <2> HIDE DEF keys
  <2> QED  BY <2>1, <2>2, KeysStay
<1>2. CASE ~(k # NoKey /\ free # {})
  BY <1>2, FailStays DEF PubkeyAdd
<1> QED  BY <1>1, <1>2

LEMMA KeyDelStays ==
    ASSUME Typed(conf), NEW n, PubkeyDel(n)
    PROVE  Stays
<1> DEFINE bad == n = <<>> \/ n[1] \notin 1 .. MaxKeys
           keys == WithoutSlot(conf.keys, n[1])
<1>1. CASE ~bad
  <2>1. conf' = [conf EXCEPT !.keys = keys] /\ res' = 0
    BY <1>1 DEF PubkeyDel
  <2>2. KeysTyped(keys)
    BY DEF Typed, KeysTyped, WithoutSlot
  <2> HIDE DEF keys
  <2> QED  BY <2>1, <2>2, KeysStay
<1>2. CASE bad
  BY <1>2, FailStays DEF PubkeyDel
<1> QED  BY <1>1, <1>2

LEMMA AclStays ==
    ASSUME Typed(conf), NEW nets \in NetLists, AclListChange(nets)
    PROVE  Stays
<1> DEFINE T == Net \cup {AnyNet}
           open == {i \in 1 .. Len(nets) : nets[i] = AnyNet}
           S == {Len(nets), MaxAcl} \cup open
           acl == SubSeq(nets, 1, Min(S))
<1>1. nets \in Seq(T) /\ MaxAcl \in Nat
  <2>1. <<>> \in Seq(T)
    OBVIOUS
  <2>2. ASSUME NEW a \in Net, NEW b \in T PROVE <<a, b>> \in Seq(T)
    OBVIOUS
  <2>3. nets = <<>> \/ \E a \in Net, b \in T : nets = <<a, b>>
    BY DEF NetLists
  <2> QED  BY <2>1, <2>2, <2>3, SettingsAssumption
<1>2. CASE nets # <<>>
  <2>1. conf' = [conf EXCEPT !.acl = acl] /\ res' = 0
    BY <1>2 DEF AclListChange
  <2>2. S \subseteq Nat /\ S # {}
    BY <1>1
  <2>3. Min(S) \in Nat /\ Min(S) <= Len(nets) /\ Min(S) <= MaxAcl
    <3>1. Min(S) \in S /\ \A x \in S : Min(S) <= x
      <4> HIDE DEF S
      <4> QED  BY <2>2, MinOfNumbers
    <3>2. Len(nets) \in S /\ MaxAcl \in S
      OBVIOUS
    <3> HIDE DEF S
    <3> QED  BY <2>2, <3>1, <3>2
  <2> HIDE DEF S
  <2>4. acl \in Seq(T) /\ Len(acl) = Min(S)
    BY <1>1, <2>3
  <2>5. AclTyped(acl)
    BY <2>3, <2>4 DEF AclTyped
  <2> HIDE DEF acl
  <2>6. conf' = [set |-> conf.set, output |-> conf.output, keys |-> conf.keys,
                 acl |-> acl, source |-> conf.source]
    <3>1. PICK a, b, k, l, x :
              conf = [set |-> a, output |-> b, keys |-> k, acl |-> l, source |-> x]
      BY DEF Typed, Record
    <3> QED  BY <2>1, <3>1
  <2> QED  BY <2>1, <2>5, <2>6 DEF Typed, Record, Stays
<1>3. CASE nets = <<>>
  BY <1>3, FailStays DEF AclListChange
<1> QED  BY <1>2, <1>3

LEMMA SourceStays ==
    ASSUME Typed(conf), NEW v \in Sensor, NEW x \in Sources, Len(x.sensors) <= MaxSources,
           conf' = [conf EXCEPT !.source[v] = x], res' = 0
    PROVE  Stays
<1> DEFINE source == [conf.source EXCEPT ![v] = x]
<1>1. conf' = [set |-> conf.set, output |-> conf.output, keys |-> conf.keys,
               acl |-> conf.acl, source |-> source]
  <2>1. PICK a, b, k, l, y :
            conf = [set |-> a, output |-> b, keys |-> k, acl |-> l, source |-> y]
    BY DEF Typed, Record
  <2> QED  BY <2>1
<1>2. SourceTyped(source)
  BY DEF Typed, SourceTyped
<1> HIDE DEF source
<1> QED  BY <1>1, <1>2 DEF Typed, Record, Stays

Modes == {"manual", "i2c", "picotemp", "max"}

Src(m, a, b, l) == [mode |-> m, manual |-> a, i2c |-> b, sensors |-> l]
Changed(y, m, f, x) == [y EXCEPT !.mode = m, ![f] = x]

LEMMA FieldChanged ==
    ASSUME NEW m0, NEW a, NEW b, NEW l, NEW m, NEW x
    PROVE  /\ Changed(Src(m0, a, b, l), m, "manual", x) = Src(m, x, b, l)
           /\ Changed(Src(m0, a, b, l), m, "i2c", x) = Src(m, a, x, l)
           /\ Changed(Src(m0, a, b, l), m, "sensors", x) = Src(m, a, b, x)
<1>1. PICK y : y = Src(m0, a, b, l)
  OBVIOUS
<1>2. PICK z : z = [y EXCEPT !.mode = m]
  OBVIOUS
<1>3. z = [mode |-> m, manual |-> a, i2c |-> b, sensors |-> l]
  BY <1>1, <1>2 DEF Src
<1>4. \A f : Changed(y, m, f, x) = [z EXCEPT ![f] = x]
  BY <1>2 DEF Changed
<1>5. [z EXCEPT !["manual"] = x] = Src(m, x, b, l)
  BY <1>3 DEF Src
<1>6. [z EXCEPT !["i2c"] = x] = Src(m, a, x, l)
  BY <1>3 DEF Src
<1>7. [z EXCEPT !["sensors"] = x] = Src(m, a, b, x)
  BY <1>3 DEF Src
<1> QED  BY <1>1, <1>4, <1>5, <1>6, <1>7

\* A sensor's mode and the fields of the mode
LEMMA VsensorStays ==
    ASSUME Typed(conf), NEW v \in Sensor, NEW mode \in Modes, NEW arg \in {Empty, "new"},
           NEW list \in SensorLists, VsensorSource(v, mode, arg, list)
    PROVE  Stays
<1> DEFINE S == Sensor \cup {PicoTemp}
           y == conf.source[v]
           valid == Those(list, S)
           m == Min({Len(valid), MaxSources})
           sensors == SubSeq(valid, 1, m)
<1>1. y \in Sources /\ Len(y.sensors) <= MaxSources /\ MaxSources \in Nat
  BY SettingsAssumption DEF Typed, SourceTyped
<1>2. /\ y = Src(y.mode, y.manual, y.i2c, y.sensors)
      /\ y.manual \in Text /\ y.i2c \in Text /\ y.sensors \in Seq(S)
  BY <1>1 DEF Sources, Src
<1>3. sensors \in Seq(S) /\ Len(sensors) <= MaxSources
  <2>1. list \in Seq(Nat)
    <3>1. 1 \in Nat /\ PicoTemp \in Nat /\ 99 \in Nat
      BY DEF PicoTemp
    <3>2. <<>> \in Seq(Nat) /\ <<1>> \in Seq(Nat)
      OBVIOUS
    <3>3. <<1, PicoTemp>> \in Seq(Nat)
      BY <3>1
    <3>4. <<PicoTemp, 99, 1>> \in Seq(Nat)
      BY <3>1
    <3> QED  BY <3>2, <3>3, <3>4, Zenon DEF SensorLists
  <2>2. valid \in Seq(Nat \cap S)
    BY <2>1, ThoseItems
  <2>3. valid \in Seq(S) /\ Len(valid) \in Nat
    BY <2>2
  <2> HIDE DEF valid
  <2>4. {Len(valid), MaxSources} \subseteq Nat /\ {Len(valid), MaxSources} # {}
    BY <1>1, <2>3
  <2>5. m \in Nat /\ m <= Len(valid) /\ m <= MaxSources
    BY <2>4, MinOfNumbers
  <2> HIDE DEF m
  <2> QED  BY <2>3, <2>5
<1> DEFINE Change(f, x) ==
              /\ conf' = [conf EXCEPT !.source[v].mode = mode, !.source[v][f] = x]
              /\ res' = 0
           R(f, x) == Changed(y, mode, f, x)
<1>4. \/ mode = "picotemp" /\ Change("sensors", <<>>)
      \/ mode = "max" /\ Change("sensors", sensors)
      \/ mode \in {"manual", "i2c"} /\ arg # Empty /\ Change(mode, arg)
      \/ Fail(2)
  <2>1. CASE mode = "picotemp"
    <3>1. Change("sensors", <<>>)
      BY <2>1 DEF VsensorSource
    <3> QED  BY <2>1, <3>1
  <2>2. CASE mode = "max"
    <3>1. IF Len(sensors) < 2 THEN Fail(2) ELSE Change("sensors", sensors)
      BY <2>2 DEF VsensorSource
    <3> QED  BY <2>2, <3>1
  <2>3. CASE mode \in {"manual", "i2c"}
    <3>1. IF arg = Empty THEN Fail(2) ELSE Change(mode, arg)
      BY <2>3 DEF VsensorSource
    <3> QED  BY <2>3, <3>1
  <2> QED  BY <2>1, <2>2, <2>3 DEF Modes
<1> HIDE DEF sensors, y
<1>5. ASSUME NEW f \in {"manual", "i2c", "sensors"}, NEW x, Change(f, x)
      PROVE  conf' = [conf EXCEPT !.source[v] = R(f, x)] /\ res' = 0
  <2>1. PICK a, b, k, l, src :
            conf = [set |-> a, output |-> b, keys |-> k, acl |-> l, source |-> src]
    BY DEF Typed, Record
  <2>2. conf' = [set |-> a, output |-> b, keys |-> k, acl |-> l,
                 source |-> [[src EXCEPT ![v].mode = mode] EXCEPT ![v][f] = x]]
    BY <1>5, <2>1
  <2>3. src = [u \in Sensor |-> src[u]]
    BY <2>1 DEF Typed, SourceTyped
  <2>4. [[src EXCEPT ![v].mode = mode] EXCEPT ![v][f] = x]
          = [src EXCEPT ![v] = [src[v] EXCEPT !.mode = mode, ![f] = x]]
    BY <2>3
  <2>5. R(f, x) = [src[v] EXCEPT !.mode = mode, ![f] = x]
    BY <2>1 DEF y, Changed
  <2> HIDE DEF R
  <2>6. conf' = [set |-> a, output |-> b, keys |-> k, acl |-> l,
                 source |-> [src EXCEPT ![v] = R(f, x)]]
    BY <2>2, <2>4, <2>5
  <2>7. conf' = [conf EXCEPT !.source[v] = R(f, x)]
    BY <2>1, <2>6
  <2> QED  BY <1>5, <2>7
<1>S. ASSUME NEW a \in Text, NEW b \in Text, NEW l \in Seq(S), Len(l) <= MaxSources,
             conf' = [conf EXCEPT !.source[v] = Src(mode, a, b, l)], res' = 0
      PROVE  Stays
  <2>1. Src(mode, a, b, l) \in Sources /\ Src(mode, a, b, l).sensors = l
    BY DEF Src, Sources, Modes
  <2> QED  BY <1>S, <2>1, SourceStays
<1>6. CASE mode = "picotemp" /\ Change("sensors", <<>>)
  <2>1. R("sensors", <<>>) = Src(mode, y.manual, y.i2c, <<>>)
    BY <1>2, FieldChanged
  <2>2. <<>> \in Seq(S) /\ Len(<<>>) = 0
    OBVIOUS
  <2> HIDE DEF R, Change
  <2>3. conf' = [conf EXCEPT !.source[v] = Src(mode, y.manual, y.i2c, <<>>)] /\ res' = 0
    BY <1>5, <1>6, <2>1
  <2>4. Len(<<>>) <= MaxSources
    BY <1>1, <2>2
  <2> QED  BY <1>2, <1>S, <2>2, <2>3, <2>4
<1>7. CASE mode = "max" /\ Change("sensors", sensors)
  <2>1. R("sensors", sensors) = Src(mode, y.manual, y.i2c, sensors)
    BY <1>2, FieldChanged
  <2> HIDE DEF R, Change
  <2>2. conf' = [conf EXCEPT !.source[v] = Src(mode, y.manual, y.i2c, sensors)] /\ res' = 0
    BY <1>5, <1>7, <2>1
  <2> QED  BY <1>2, <1>3, <1>S, <2>2
<1>8. CASE mode \in {"manual", "i2c"} /\ arg # Empty /\ Change(mode, arg)
  <2>1. arg \in Text
    BY DEF Text
  <2>2. mode = "manual" => R(mode, arg) = Src(mode, arg, y.i2c, y.sensors)
    BY <1>2, FieldChanged
  <2>3. mode = "i2c" => R(mode, arg) = Src(mode, y.manual, arg, y.sensors)
    BY <1>2, FieldChanged
  <2> HIDE DEF R, Change
  <2> QED  BY <1>1, <1>2, <1>5, <1>8, <1>S, <2>1, <2>2, <2>3
<1>9. CASE Fail(2)
  BY <1>9, FailStays
<1> HIDE DEF Change
<1> QED  BY <1>4, <1>6, <1>7, <1>8, <1>9

-------------------------------------------------------------------------------
(* All of the interpreter's steps keep them *)

LEMMA ConfigureStays ==
    ASSUME Typed(conf), NEW f, NEW n, Configure(f, n),
           f \in {"cmd_out_name", "cmd_out_default_pwm", "cmd_out_default_state"}
                => n \in Output,
           f = "cmd_vsensor_source" => n \in Sensor
    PROVE  Stays
<1>1. CASE f \in Setting /\ SettingCommand(f)
  BY <1>1, SettingStays
<1>2. CASE f = "cmd_out_name" /\ \E v \in Texts : OutputSetting(n, "name", v)
  BY <1>2, NameStays
<1>3. CASE f = "cmd_out_default_pwm" /\ \E x \in Counts : OutputPwm(n, x)
  BY <1>3, PwmStays
<1>4. CASE /\ f = "cmd_out_default_state"
           /\ \E word \in {"on", "off", Empty} : OutputState(n, word)
  BY <1>4, StateStays
<1>5. CASE /\ f = "cmd_vsensor_source"
           /\ \E mode \in {"manual", "i2c", "picotemp", "max"},
                 arg \in {Empty, "new"}, list \in SensorLists :
                    VsensorSource(n, mode, arg, list)
  <2>1. PICK mode \in Modes, arg \in {Empty, "new"}, list \in SensorLists :
                VsensorSource(n, mode, arg, list)
    BY <1>5 DEF Modes
  <2> QED  BY <1>5, <2>1, VsensorStays
<1>6. CASE \E nets \in NetLists : AclListChange(nets)
  BY <1>6, AclStays
<1>7. CASE \E k \in Key \cup {NoKey} : PubkeyAdd(k)
  BY <1>7, KeyAddStays
<1>8. CASE \E x \in Counts : PubkeyDel(x)
  BY <1>8, KeyDelStays
<1> HIDE DEF Stays
<1> QED  BY <1>1, <1>2, <1>3, <1>4, <1>5, <1>6, <1>7, <1>8, Zenon DEF Configure

\* A file was written from a configuration of its type.
Saved == file = NoFile \/ \E c : Typed(c) /\ file = ConfigToJson(c)

Types ==
    /\ Typed(conf) /\ Saved
    /\ pwr \in [Output -> BOOLEAN] /\ pwm \in [Output -> 0 .. 100]
    /\ res \in -1 .. 2

LEMMA HandlerTypes ==
    ASSUME Types, NEW f, NEW w, Handler(f, w)
    PROVE  Types'
<1> DEFINE n == NumberFor(f, w)
           known == f \in ByNumber =>
                        n \in (IF f = "cmd_vsensor_source" THEN Sensor ELSE Output)
<1>1. CASE Refuse(0) \/ Refuse(1)
  BY <1>1 DEF Refuse, Types, Saved, outputs
<1>2. CASE Stays /\ UNCHANGED <<file, outputs>>
  BY <1>2 DEF Stays, Types, Saved, outputs
<1>3. CASE known /\ Configure(f, n) /\ UNCHANGED <<file, outputs>>
  <2>1. /\ f \in {"cmd_out_name", "cmd_out_default_pwm", "cmd_out_default_state"}
                => n \in Output
        /\ f = "cmd_vsensor_source" => n \in Sensor
    BY <1>3 DEF ByNumber
  <2>2. Typed(conf)
    BY DEF Types
  <2> HIDE DEF n, known
  <2>3. Stays
    BY <1>3, <2>1, <2>2, ConfigureStays
  <2> QED  BY <1>2, <1>3, <2>3
<1>4. CASE Defaults(f) /\ UNCHANGED <<file, outputs>>
  BY <1>2, <1>4, DefaultsStay DEF Types
<1>5. CASE WriteState(n) /\ UNCHANGED <<conf, file, pwm>>
  <2>1. pwr' \in [Output -> BOOLEAN] /\ res' \in -1 .. 2
    BY <1>5 DEF WriteState, Types
  <2> QED  BY <1>5, <2>1 DEF Types, Saved
<1>6. CASE WritePwm(n) /\ UNCHANGED <<conf, file, pwr>>
  <2>1. pwm' \in [Output -> 0 .. 100] /\ res' \in -1 .. 2
    <3>1. \/ UNCHANGED pwm /\ res' \in {1, 2}
          \/ \E z \in 0 .. 100 : pwm' = [pwm EXCEPT ![n] = z] /\ res' = 0
      <4>1. PICK x \in Counts :
                IF x = <<>> THEN res' = 1 /\ UNCHANGED pwm
                ELSE IF x[1] \in 0 .. 100
                     THEN res' = 0 /\ pwm' = [pwm EXCEPT ![n] = x[1]]
                     ELSE res' = 2 /\ UNCHANGED pwm
        BY <1>6 DEF WritePwm
      <4> HIDE DEF n
      <4> QED  BY <4>1, Zenon
    <3> HIDE DEF n
    <3>2. pwm \in [Output -> 0 .. 100]
      BY DEF Types
    <3>3. CASE UNCHANGED pwm /\ res' \in {1, 2}
      BY <3>2, <3>3
    <3>4. ASSUME NEW z \in 0 .. 100, pwm' = [pwm EXCEPT ![n] = z], res' = 0
          PROVE  pwm' \in [Output -> 0 .. 100] /\ res' \in -1 .. 2
      <4>1. \A m : [pwm EXCEPT ![m] = z] \in [Output -> 0 .. 100]
        BY <3>2
      <4> QED  BY <3>4, <4>1
    <3> QED  BY <3>1, <3>3, <3>4
  <2> QED  BY <1>6, <2>1 DEF Types, Saved
<1>7. CASE (SaveConfig \/ DeleteConfig) /\ UNCHANGED outputs
  <2>1. conf' = conf /\ res' = 0
    BY <1>7 DEF SaveConfig, DeleteConfig
  <2>2. file' \in {ConfigToJson(conf), file, NoFile}
    BY <1>7 DEF SaveConfig, DeleteConfig
  <2>3. Saved'
    BY <2>2 DEF Saved, Types
  <2> QED  BY <1>7, <2>1, <2>3 DEF Types, outputs
<1>8. \/ Refuse(0) \/ Refuse(1)
      \/ known /\ Configure(f, n) /\ UNCHANGED <<file, outputs>>
      \/ Defaults(f) /\ UNCHANGED <<file, outputs>>
      \/ WriteState(n) /\ UNCHANGED <<conf, file, pwm>>
      \/ WritePwm(n) /\ UNCHANGED <<conf, file, pwr>>
      \/ (SaveConfig \/ DeleteConfig) /\ UNCHANGED outputs
  BY Zenon DEF Handler
<1> QED  BY <1>1, <1>3, <1>4, <1>5, <1>6, <1>7, <1>8

LEMMA RestartTypes ==
    ASSUME Types, NEW safemode \in BOOLEAN, Restart(safemode)
    PROVE  Types'
<1>1. Typed(conf')
  <2>1. conf' \in {ClearConfig, JsonToConfig(file)}
        /\ (file = NoFile => conf' = ClearConfig)
    BY DEF Restart, ReadConfig
  <2> QED  BY <2>1, ClearTyped, RoundTrip DEF Types, Saved
<1>2. \A o \in Output : conf'.output[o] \in Fields(o)
  BY <1>1 DEF Typed, OutputTyped
<1>3. pwr' \in [Output -> BOOLEAN] /\ pwm' \in [Output -> 0 .. 100]
  BY <1>2 DEF Restart, Fields
<1>4. Saved' /\ res' \in -1 .. 2
  BY DEF Restart, Types, Saved
<1> QED  BY <1>1, <1>3, <1>4 DEF Types

LEMMA InitTypes == Init => Types
<1> SUFFICES ASSUME Init PROVE Types
  OBVIOUS
<1>1. Typed(conf)
  BY ClearTyped DEF Init
<1>2. \A o \in Output : conf.output[o] \in Fields(o)
  BY <1>1 DEF Typed, OutputTyped
<1>3. pwr \in [Output -> BOOLEAN] /\ pwm \in [Output -> 0 .. 100]
  BY <1>2 DEF Init, Fields
<1> QED  BY <1>1, <1>3 DEF Init, Types, Saved

Counted == pc \in {"idle", "line", "word", "end"} /\ changes \in 0 .. MaxChanges

LEMMA NextCounted == Counted /\ [Next]_vars => Counted'
<1> SUFFICES ASSUME Counted, [Next]_vars PROVE Counted'
  OBVIOUS
<1>1. MaxChanges \in Nat
  BY ScpiAssumption
<1>2. ASSUME NEW w, NEW more \in BOOLEAN, Run(w, more) PROVE Counted'
  <2>1. pc' \in {"word", "end"}
    BY <1>2 DEF Run
  <2>2. changes' \in 0 .. MaxChanges
    BY <1>1, <1>2 DEF Run, Counted
  <2> QED  BY <2>1, <2>2 DEF Counted
<1>3. ASSUME NEW w, Descend(w) \/ NotFound(w) PROVE Counted'
  BY <1>3 DEF Descend, NotFound, Counted
<1>4. ASSUME NEW safemode, Restart(safemode) PROVE Counted'
  BY <1>1, <1>4 DEF Restart, Counted
<1>5. ASSUME NEW reset, BeginCommand(reset) PROVE Counted'
  BY <1>5 DEF BeginCommand, Counted
<1>6. CASE BeginLine \/ EndLine \/ EndCommand
  BY <1>6 DEF BeginLine, EndLine, EndCommand, Counted
<1>7. CASE UNCHANGED vars
  BY <1>7 DEF vars, Counted
<1> QED  BY <1>2, <1>3, <1>4, <1>5, <1>6, <1>7 DEF Next

LEMMA NextTypes == Types /\ [Next]_vars => Types'
<1> SUFFICES ASSUME Types, [Next]_vars PROVE Types'
  OBVIOUS
<1>1. ASSUME NEW w, NEW more \in BOOLEAN, Run(w, more) PROVE Types'
  <2>1. PICK e \in Match(w) : Handler(e.func, w)
    BY <1>1 DEF Run
  <2> QED  BY <2>1, HandlerTypes
<1>2. ASSUME UNCHANGED everything, res' \in -1 .. 2 PROVE Types'
  BY <1>2 DEF Types, Saved, everything, outputs
<1>3. ASSUME NEW w, Descend(w) \/ NotFound(w) PROVE Types'
  BY <1>2, <1>3 DEF Descend, NotFound, Types
<1>4. ASSUME NEW safemode \in BOOLEAN, Restart(safemode) PROVE Types'
  BY <1>4, RestartTypes
<1>5. ASSUME NEW reset, BeginCommand(reset) PROVE Types'
  BY <1>2, <1>5 DEF BeginCommand
<1>6. CASE BeginLine \/ EndLine \/ EndCommand
  BY <1>2, <1>6 DEF BeginLine, EndLine, EndCommand, Types
<1>7. CASE UNCHANGED vars
  BY <1>2, <1>7 DEF vars, everything, outputs, Types
<1> QED  BY <1>1, <1>3, <1>4, <1>5, <1>6, <1>7 DEF Next

LEMMA AlwaysTypes == Spec => [](Types /\ Counted)
<1>1. Init => Counted
  BY ScpiAssumption DEF Init, Counted
<1> QED  BY <1>1, InitTypes, NextTypes, NextCounted, PTL DEF Spec

(***************************************************************************)
(* Whatever the commands, what the configuration holds is within the       *)
(* bounds that its command has for it, after any file as well.             *)
(***************************************************************************)
THEOREM ValuesKeepTheirTypes == Spec => []TypeOK
<1>1. Types /\ Counted => TypeOK
  BY DEF Types, Counted, Typed, SetTyped, OutputTyped, KeysTyped, AclTyped,
         SourceTyped, TypeOK
<1> QED  BY <1>1, AlwaysTypes, PTL

(***************************************************************************)
(* CONF:SAVE and a restart give back a configuration of the same meaning,  *)
(* whatever commands, files and restarts made it, but for a text that is   *)
(* back and for the timeout and default of a sensor on the I2C bus.        *)
(***************************************************************************)
THEOREM SavingLosesNothing == Spec => []SaveLosesNothing
<1>1. Types => SaveLosesNothing
  BY RoundTrip DEF Types, SaveLosesNothing
<1> QED  BY <1>1, AlwaysTypes, PTL

===============================================================================
