--------------------------------- MODULE Scpi ---------------------------------
(***************************************************************************)
(* The command interpreter (process_command and run_cmd, src/command.c) on *)
(* a line of commands, with the handlers of module Settings and those for  *)
(* the outputs' state.                                                     *)
(*                                                                         *)
(* A line is read lazily: which command comes next, and which word comes   *)
(* next in it, is decided when run_cmd gets there.  A word is its entry's  *)
(* name (what matches by prefix is the same word), a number, and whether a *)
(* "?" follows.  Lines are run one after the other by core0's main loop.   *)
(***************************************************************************)
EXTENDS Settings

CONSTANT MaxChanges     \* bound: commands that are not queries, and restarts;
                        \* no command begins after the last of them

VARIABLES
    pwr, pwm,   \* brickpico_state: what WRITE and MEASURE are about
    level,      \* cmd_level, the table to search
    prev,       \* *prev_subcmd, or NoWord
    pc,         \* "idle", "line", "word" or "end" (of a command)
    path,       \* history: the words that led from the root to the level
    mark,       \* history: what the commands change, as it was when this command
                \* began or its last handler to answer 0 returned; <<>> between
                \* commands
    changes

interpreter == <<level, prev, path>>
vars == <<conf, file, res, pwr, pwm, interpreter, pc, mark, changes>>

None == "none"
NoWord == [name |-> None, n |-> 0, query |-> FALSE]

-------------------------------------------------------------------------------
(* The tables, one command for each kind of handler.  *RST is Restart. *)

Entry(at, name, sub, func) ==
    [at |-> at, name |-> name, sub |-> sub, func |-> func]

Commands ==
    {Entry("root", "CONF", "config", "cmd_print_config"),
     Entry("root", "WRITE", "write", None),
     Entry("root", "SYS", "system", None),
     Entry("config", "DEFAULTS", "defaults", None),
     Entry("config", "DELETE", None, "cmd_delete_config"),
     Entry("config", "OUTPUT", "output_c", None),
     Entry("config", "SAVE", None, "cmd_save_config"),
     Entry("config", "VSENSOR", "vsensor_c", None),
     Entry("defaults", "PWM", None, "cmd_defaults_pwm"),
     Entry("defaults", "STATE", None, "cmd_defaults_state"),
     Entry("output_c", "NAME", None, "cmd_out_name"),
     Entry("output_c", "PWM", None, "cmd_out_default_pwm"),
     Entry("output_c", "STATE", None, "cmd_out_default_state"),
     Entry("vsensor_c", "SOURCE", None, "cmd_vsensor_source"),
     Entry("write", "OUTPUT", "output_w", "cmd_write_state"),
     Entry("output_w", "PWM", None, "cmd_write_pwm"),
     Entry("output_w", "STATE", None, "cmd_write_state"),
     Entry("system", "ERR", None, "cmd_err"),
     Entry("system", "ACLS", None, "cmd_ssh_acls"),
     Entry("system", "PUBKEY", "pubkey", "cmd_ssh_pubkey"),
     Entry("pubkey", "ADD", None, "cmd_ssh_pubkey_add"),
     Entry("pubkey", "DEL", None, "cmd_ssh_pubkey_del")}
    \cup {Entry("system", s, None, s) : s \in Setting}

Numbered == {"OUTPUT", "VSENSOR"}
Numbers == 0 .. 2       \* 0: no number, or out of range
Words ==
    {w \in [name : {e.name : e \in Commands} \cup {"?"}, n : Numbers,
            query : BOOLEAN] : w.n # 0 => w.name \in Numbered}

\* A table, and the words for it: one word that it does not have is like another
Table == [at \in {e.at : e \in Commands} |-> {e \in Commands : e.at = at}]
WordsFor ==
    [at \in DOMAIN Table |->
        {w \in Words : w.name \in {e.name : e \in Table[at]} \cup {"?"}}]

\* Handlers that answer queries only, and those that answer none
QueryOnly == {"cmd_print_config", "cmd_err", "cmd_ssh_pubkey"}
NoQuery ==
    {"cmd_save_config", "cmd_delete_config", "cmd_defaults_pwm",
     "cmd_defaults_state", "cmd_write_pwm", "cmd_write_state",
     "cmd_ssh_pubkey_add", "cmd_ssh_pubkey_del"}
ByNumber ==
    {"cmd_out_name", "cmd_out_default_pwm", "cmd_out_default_state",
     "cmd_write_pwm", "cmd_write_state", "cmd_vsensor_source"}

\* No setting is called as a handler of its own is
ASSUME ScpiAssumption ==
    /\ MaxChanges \in Nat
    /\ Setting \cap (QueryOnly \cup NoQuery \cup ByNumber \cup {"cmd_ssh_acls"}) = {}

\* Arguments: enough to be accepted, refused, and misread
Texts == {Empty, "new"}
Counts == {<<>>, <<1>>, <<257>>, <<300>>}
Large == {<<>>, <<0>>, <<257>>, <<70000>>}
Levels == {<<>>, <<-1>>, <<1>>}
Addresses == Address \cup {Empty}
Switches == {<<>>, <<TRUE>>, <<FALSE>>}
Ranges == {{}, {<<1, 1>>, <<3, 4>>}, {<<0, 2>>}}
NetLists == {<<>>} \cup (Net \X (Net \cup {AnyNet}))
SensorLists == {<<>>, <<1>>, <<1, PicoTemp>>, <<PicoTemp, 99, 1>>}

-------------------------------------------------------------------------------
Init ==
    /\ conf = ClearConfig /\ file = NoFile /\ res = 0
    /\ pwr = [o \in Output |-> conf.output[o].state]
    /\ pwm = [o \in Output |-> conf.output[o].pwm]
    /\ level = "root" /\ prev = NoWord /\ path = <<>>
    /\ pc = "idle" /\ mark = <<>> /\ changes = 0

outputs == <<pwr, pwm>>
everything == <<conf, file, outputs>>

\* process_command takes a line
BeginLine ==
    /\ pc = "idle" /\ pc' = "line"
    /\ level' = "root" /\ prev' = NoWord /\ path' = <<>>
    /\ UNCHANGED <<everything, res, mark, changes>>

EndLine ==
    /\ pc = "line" /\ pc' = "idle"
    /\ level' = "root" /\ prev' = NoWord /\ path' = <<>>
    /\ UNCHANGED <<everything, res, mark, changes>>

\* Mutant: the level is reset, the last subcommand is not
BeginCommandHalf(reset) ==
    /\ pc = "line" /\ changes < MaxChanges /\ pc' = "word"
    /\ IF reset THEN level' = "root" /\ path' = <<>> /\ UNCHANGED prev
                ELSE UNCHANGED interpreter
    /\ res' = -1 /\ mark' = everything
    /\ UNCHANGED <<everything, changes>>

\* run_cmd: a command that starts with ":" or "*" starts from the root, others
\* where the last one ended
BeginCommand(reset) ==
    /\ pc = "line" /\ changes < MaxChanges /\ pc' = "word"
    /\ IF reset THEN level' = "root" /\ prev' = NoWord /\ path' = <<>>
                ELSE UNCHANGED interpreter
    /\ res' = -1 /\ mark' = everything
    /\ UNCHANGED <<everything, changes>>

Match(w) == {e \in Table[level] : e.name = w.name}

\* Another word follows, and the entry has a table for it ("?" does not matter)
Descend(w) ==
    /\ ~w.query
    /\ \E e \in Match(w) : e.sub # None /\ level' = e.sub
    /\ prev' = w /\ path' = Append(path, w)
    /\ UNCHANGED <<everything, res, pc, mark, changes>>

\* No entry, or one for which a word is missing
NotFound(w) ==
    /\ pc' = "end"
    /\ \A e \in Match(w) : e.func = None
    /\ UNCHANGED <<everything, res, interpreter, mark, changes>>

\* last_error_num now tells of res: 0, -100 for 1, -102 for 2, -113 for -1
EndCommand ==
    /\ pc = "end" /\ pc' = "line" /\ mark' = <<>>
    /\ UNCHANGED <<everything, res, interpreter, changes>>

-------------------------------------------------------------------------------
(* Handlers *)

\* Mutant: counted from 1
NumberForNext(f, w) ==
    LET own == f = "cmd_write_state" /\ prev.name # "OUTPUT"
    IN  (IF own THEN w.n ELSE prev.n) + 1

\* The number is in the word before; WRITE:OUTPUT<n> has it in its own
NumberFor(f, w) ==
    LET own == f = "cmd_write_state" /\ prev.name # "OUTPUT"
    IN  IF own THEN w.n ELSE prev.n

\* SYS:MQTT:TOPIC and its like
TextCommand(s) ==
    \/ KindOf[s] \in {"text", "named", "checked"}
        /\ \E v \in Texts : StringSetting(s, v)
    \/ KindOf[s] = "listed" /\ \E v \in Texts : ListedSetting(s, v)

SwitchCommand(s) ==
    KindOf[s] \in {"switch", "guard"} /\ \E b \in Switches : BoolSetting(s, b)

NumberCommand(s) ==
    \/ KindOf[s] = "small" /\ \E n \in Counts : Uint8Setting(s, n)
    \/ KindOf[s] \in {"number", "interval"}
        /\ \E n \in Large : Uint32Setting(s, n)
    \/ KindOf[s] = "debug" /\ \E n \in Levels : DebugSetting(s, n)

MaskCommand(s) ==
    KindOf[s] = "mask" /\ \E r \in Ranges : Bitmask16Setting(s, r)

AddressCommand(s) ==
    KindOf[s] = "address" /\ \E ip \in Addresses : IpChange(s, ip)

SettingCommand(s) ==
    \/ TextCommand(s) \/ SwitchCommand(s) \/ NumberCommand(s)
    \/ MaskCommand(s) \/ AddressCommand(s)

\* Handlers that change the configuration
Configure(f, n) ==
    \/ f \in Setting /\ SettingCommand(f)
    \/ f = "cmd_out_name" /\ \E v \in Texts : OutputSetting(n, "name", v)
    \/ f = "cmd_out_default_pwm" /\ \E x \in Counts : OutputPwm(n, x)
    \/ f = "cmd_out_default_state"
        /\ \E word \in {"on", "off", Empty} : OutputState(n, word)
    \/ f = "cmd_vsensor_source"
        /\ \E mode \in {"manual", "i2c", "picotemp", "max"},
              arg \in {Empty, "new"}, list \in SensorLists :
                VsensorSource(n, mode, arg, list)
    \/ f = "cmd_ssh_acls" /\ \E nets \in NetLists : AclListChange(nets)
    \/ f = "cmd_ssh_pubkey_add" /\ \E k \in Key \cup {NoKey} : PubkeyAdd(k)
    \/ f = "cmd_ssh_pubkey_del" /\ \E x \in Counts : PubkeyDel(x)

\* What is on now becomes the default; that of the state ends with a 1
Defaults(f) ==
    \/ /\ f = "cmd_defaults_pwm" /\ res' = 0
       /\ conf' = [conf EXCEPT !.output =
                    [o \in Output |-> [@[o] EXCEPT !.pwm = pwm[o]]]]
    \/ /\ f = "cmd_defaults_state" /\ res' = 1
       /\ conf' = [conf EXCEPT !.output =
                    [o \in Output |-> [@[o] EXCEPT !.state = pwr[o]]]]

WriteState(o) ==
    \/ res' = 0 /\ \E v \in BOOLEAN : pwr' = [pwr EXCEPT ![o] = v]
    \/ res' = 2 /\ UNCHANGED pwr

WritePwm(o) ==
    \E n \in Counts :
        IF n = <<>> THEN res' = 1 /\ UNCHANGED pwm
        ELSE IF n[1] \in 0 .. 100 THEN res' = 0 /\ pwm' = [pwm EXCEPT ![o] = n[1]]
        ELSE res' = 2 /\ UNCHANGED pwm

Refuse(code) == res' = code /\ UNCHANGED <<conf, file, outputs>>

Handler(f, w) ==
    LET n == NumberFor(f, w)
        known == f \in ByNumber =>
            n \in (IF f = "cmd_vsensor_source" THEN Sensor ELSE Output)
    IN  IF ~known \/ f \in (IF w.query THEN NoQuery ELSE QueryOnly)
        THEN Refuse(1)
        ELSE IF w.query THEN Refuse(0)
        ELSE \/ Configure(f, n) /\ UNCHANGED <<file, outputs>>
             \/ Defaults(f) /\ UNCHANGED <<file, outputs>>
             \/ f = "cmd_write_state" /\ WriteState(n)
                    /\ UNCHANGED <<conf, file, pwm>>
             \/ f = "cmd_write_pwm" /\ WritePwm(n)
                    /\ UNCHANGED <<conf, file, pwr>>
             \/ f = "cmd_save_config" /\ SaveConfig /\ UNCHANGED outputs
             \/ f = "cmd_delete_config" /\ DeleteConfig /\ UNCHANGED outputs

\* The entry's function, unless a word follows that its table is for.  Words
\* that follow are then looked up in the same table again.
Run(w, more) ==
    /\ pc' = IF more THEN "word" ELSE "end"
    /\ w.query \/ changes < MaxChanges
    /\ changes' = IF w.query THEN changes ELSE changes + 1
    /\ \E e \in Match(w) :
        /\ e.func # None /\ (more => e.sub = None)
        /\ Handler(e.func, w)
    /\ mark' = IF res' = 0 THEN everything' ELSE mark
    /\ UNCHANGED interpreter

\* cmd_reset, or a power cycle; setup reads the configuration and sets the
\* outputs.  (Within a line it comes to the same: each handler is one step.)
Restart(safemode) ==
    /\ pc = "idle"
    /\ changes < MaxChanges /\ changes' = changes + 1
    /\ ReadConfig(safemode)
    /\ pwr' = [o \in Output |-> conf'.output[o].state]
    /\ pwm' = [o \in Output |-> conf'.output[o].pwm]
    /\ level' = "root" /\ prev' = NoWord /\ path' = <<>>
    /\ res' = 0
    /\ UNCHANGED <<file, pc, mark>>

Next ==
    \/ BeginLine \/ EndLine \/ EndCommand
    \/ \E reset \in BOOLEAN : BeginCommand(reset)
    \/ pc = "word" /\ \E w \in WordsFor[level] :
        \/ Descend(w) \/ NotFound(w)
        \/ \E more \in BOOLEAN : Run(w, more)
    \/ \E safemode \in BOOLEAN : Restart(safemode)

Spec == Init /\ [][Next]_vars

-------------------------------------------------------------------------------
\* What is stored has its type: a number is within its command's bounds, and a
\* word that must be valid is not empty.
TypeOK ==
    /\ \A s \in Setting : conf.set[s] \in Values(s)
    /\ \A o \in Output : conf.output[o] \in Fields(o)
    /\ conf.keys \in [1 .. MaxKeys -> Key \cup {NoKey}]
    /\ conf.acl \in Seq(Net \cup {AnyNet}) /\ Len(conf.acl) <= MaxAcl
    /\ \A v \in Sensor : conf.source[v] \in Sources
                        /\ Len(conf.source[v].sensors) <= MaxSources
    /\ pwr \in [Output -> BOOLEAN] /\ pwm \in [Output -> 0 .. 100]
    /\ res \in -1 .. 2
    /\ pc \in {"idle", "line", "word", "end"} /\ changes \in 0 .. MaxChanges

(***************************************************************************)
(* Wherever the commands of a line have led, with errors, words too many   *)
(* and a new start in between: cmd_level is the table that *prev_subcmd    *)
(* opens.  A handler that takes an output's or a sensor's number from it   *)
(* so finds the word with the number, and not another command's.           *)
(***************************************************************************)
ParentNamed ==
    /\ prev = IF path = <<>> THEN NoWord ELSE Last(path)
    /\ IF path = <<>> THEN level = "root"
       ELSE \E e \in Commands : e.name = prev.name /\ e.sub = level

(***************************************************************************)
(* A command touches only the output it names: an output's configuration   *)
(* and state change by a command whose path, begun by earlier commands of  *)
(* the line, names this output and no other.  (The defaults are of all     *)
(* outputs, and a restart sets all of them.)                               *)
(***************************************************************************)
OutputsSaid(words) ==
    {words[i].n : i \in {j \in 1 .. Len(words) : words[j].name = "OUTPUT"}}

OnlyNamedOutput ==
    [][\A o \in Output :
        \/ <<conf.output[o], pwr[o], pwm[o]>>' = <<conf.output[o], pwr[o], pwm[o]>>
        \/ level = "defaults" \/ \E safemode \in BOOLEAN : Restart(safemode)
        \/ \E w \in WordsFor[level], more \in BOOLEAN :
                Run(w, more) /\ OutputsSaid(Append(path, w)) = {o}]_vars

(***************************************************************************)
(* A command that is answered with an error has changed nothing since it   *)
(* began, but for what surplus words did: run_cmd runs a handler for each  *)
(* word that the last table has and answers as the last one did, so that   *)
(* ":WRITE:OUTPUT1:PWM:STATE 50" may set the PWM and be an error.  Even    *)
(* then only the handlers that answered 0 have changed anything.  (The     *)
(* handler of CONF:DEFAULTS:STATE does its work and answers 1.)            *)
(***************************************************************************)
FailedChangesNothing ==
    pc \in {"word", "end"} /\ res # 0 /\ level # "defaults" => everything = mark

(***************************************************************************)
(* A restart after CONF:SAVE has the configuration mean what it meant,     *)
(* whatever commands made it, restarts and earlier files included, but for *)
(* two losses.  A setting that starts with a text cannot be kept empty:    *)
(* its item is left out of the file, and the text is back.  And a sensor   *)
(* on the I2C bus is back at the timeout and the default of a first start, *)
(* which config_to_json writes for sensors of the manual mode only.        *)
(***************************************************************************)
Kept(c) ==
    [c EXCEPT !.set = [s \in Setting |->
                IF KindOf[s] = "named" /\ @[s] = Empty THEN Given ELSE @[s]],
              !.source = [v \in Sensor |->
                IF @[v].mode = "i2c"
                THEN [@[v] EXCEPT !.manual = ClearConfig.source[v].manual]
                ELSE @[v]]]

SaveLosesNothing ==
    Meaning(JsonToConfig(ConfigToJson(conf))) = Meaning(Kept(conf))

===============================================================================
