------------------------------- MODULE Settings -------------------------------
(***************************************************************************)
(* The running configuration (struct brickpico_config), the commands that  *)
(* change it (src/command.c), and what config_to_json keeps of it for the  *)
(* next start (src/config.c).  A setting is reduced to the kind of helper  *)
(* that changes it; the file as such is the subject of module ConfigStore. *)
(*                                                                         *)
(* Every command ends with its return code in res.  Module Scpi runs them. *)
(***************************************************************************)
EXTENDS Bitmasks, SequencesExt

CONSTANTS
    Setting,        \* settings of a single value
    KindOf,         \* the kind of each
    Output,         \* the outputs, by number
    Sensor,         \* the virtual sensors, by number
    Key,            \* SSH public keys, each with its user
    Net,            \* networks an access list may name (prefix > 0)
    Bits,           \* OUTPUT_COUNT, the length of a mask
    MaxKeys,        \* SSH_MAX_PUB_KEYS
    MaxAcl,         \* SSH_MAX_ACL_ENTRIES and TELNET_MAX_ACL_ENTRIES
    MaxSources      \* VSENSOR_SOURCE_MAX_COUNT

\* By the helper that changes a setting, its first value, and when it is saved:
\* texts may be empty, "named" ones are not at first; "listed" is a word out of a
\* list; a "guard" is a switch that is on at first, an "interval" a number that
\* is not 0 at first
Kinds ==
    {"text", "named", "checked", "listed", "switch", "guard", "small", "number",
     "interval", "debug", "mask", "address"}
NoKey == "no key"
AnyNet == "0.0.0.0/0"
NoFile == [none |-> TRUE]

ASSUME SettingsAssumption ==
    /\ KindOf \in [Setting -> Kinds]
    /\ Output \subseteq Nat \ {0} /\ Sensor \subseteq Nat \ {0, 101}
    /\ NoKey \notin Key /\ AnyNet \notin Net
    /\ Bits \in 1 .. 32
    /\ MaxKeys \in Nat /\ MaxAcl \in Nat /\ MaxSources \in Nat

VARIABLES
    conf,       \* brickpico_config
    file,       \* brickpico.cfg, or NoFile
    res         \* the return code of the last command; -1: none was found

-------------------------------------------------------------------------------
(* Values *)

Empty == ""
Given == "given"        \* the text or word a setting starts with
Word == {"text", "named", "checked", "listed"}
Text == {Empty, Given, "new"}               \* a few texts stand for all
AnyIp == "0.0.0.0"
Address == {AnyIp, "10.0.0.1"}
Interval == 60          \* DEFAULT_MQTT_TEMP_INTERVAL
Wide == 0 .. 65535      \* the bounds of a port, for any that uint32_setting is given
PicoTemp == 101         \* a source number besides the sensors' own

Fields(o) == [name : Text, pwm : 0 .. 100, state : BOOLEAN]

Values(s) ==
    CASE KindOf[s] \in {"text", "named"} -> Text
      [] KindOf[s] \in {"checked", "listed"} -> Text \ {Empty}
      [] KindOf[s] = "address" -> Address
      [] KindOf[s] \in {"switch", "guard"} -> BOOLEAN
      [] KindOf[s] = "small"  -> 0 .. 2
      [] KindOf[s] \in {"number", "interval"} -> Wide
      [] KindOf[s] = "debug"  -> Nat
      [] KindOf[s] = "mask"   -> SUBSET (0 .. Bits - 1)

\* "max" stands for max, min, avg and delta, which have a list of sensors
Sources ==
    [mode : {"manual", "i2c", "picotemp", "max"}, manual : Text, i2c : Text,
     sensors : Seq(Sensor \cup {PicoTemp})]

\* The items of a list that are in S, one after the other
Those(list, S) ==
    LET upto[i \in 0 .. Len(list)] ==
            IF i = 0 THEN <<>>
            ELSE IF list[i] \in S THEN Append(upto[i - 1], list[i]) ELSE upto[i - 1]
    IN  upto[Len(list)]

Default(s) ==
    CASE KindOf[s] \in {"named", "checked", "listed"} -> Given
      [] KindOf[s] = "text"    -> Empty
      [] KindOf[s] = "address" -> AnyIp
      [] KindOf[s] \in {"switch", "guard"} -> KindOf[s] = "guard"
      [] KindOf[s] = "interval" -> Interval
      [] KindOf[s] \in {"small", "number", "debug"} -> 0
      [] KindOf[s] = "mask"    -> {}

\* clear_config; the log levels, which it leaves alone, start anew with the
\* program
ClearConfig ==
    [set    |-> [s \in Setting |-> Default(s)],
     output |-> [o \in Output |->
                    [name |-> Given, pwm |-> 100, state |-> FALSE]],
     keys   |-> [i \in 1 .. MaxKeys |-> NoKey],
     acl    |-> <<>>,
     source |-> [v \in Sensor |->
                    [mode |-> IF v = 1 THEN "picotemp" ELSE "manual",
                     manual |-> Empty, i2c |-> Empty, sensors |-> <<>>]]]

-------------------------------------------------------------------------------
(* The commands: each stores a value and returns 0, or changes nothing and  *)
(* returns 1 or 2.  A number is <<n>>, a switch <<b>>; <<>> cannot be read.  *)

Store(s, v) == conf' = [conf EXCEPT !.set[s] = v] /\ res' = 0
Fail(code) == UNCHANGED conf /\ res' = code

\* string_setting: an empty argument is as good as any, if it need not be valid
StringSetting(s, v) ==
    IF KindOf[s] = "checked" /\ v = Empty THEN Fail(2) ELSE Store(s, v)

BoolSetting(s, b) == IF b = <<>> THEN Fail(2) ELSE Store(s, b[1])

\* cmd_log_level, cmd_wifi_auth_mode: no word of the list is empty
ListedSetting(s, word) == IF word = Empty THEN Fail(1) ELSE Store(s, word)

\* cmd_debug: what cannot be read is no error
DebugSetting(s, n) ==
    IF n = <<>> THEN Fail(0) ELSE Store(s, Max({n[1], 0}))

\* ip_change
IpChange(s, ip) == IF ip = Empty THEN Fail(2) ELSE Store(s, ip)

\* Mutant: eight bits are compared, the whole number is stored
Uint8Wide(s, n) ==
    IF n = <<>> THEN Fail(1)
    ELSE IF n[1] % 256 \in 0 .. 2 THEN Store(s, n[1]) ELSE Fail(2)

\* uint8_setting cuts the number to eight bits before it looks at the bounds
Uint8Setting(s, n) ==
    IF n = <<>> THEN Fail(1)
    ELSE IF n[1] % 256 \in 0 .. 2 THEN Store(s, n[1] % 256) ELSE Fail(2)

\* uint32_setting: a negative number has become a large one
Uint32Setting(s, n) ==
    IF n = <<>> THEN Fail(1)
    ELSE IF n[1] \in Wide THEN Store(s, n[1]) ELSE Fail(2)

\* A mask of pins, counted from 1; what cannot be read sets no bit
Bitmask16Setting(s, ranges) == Store(s, StrToBitmask(ranges, Bits, 1))

\* cmd_out_name and its like: an unreadable number is no error
OutputSetting(o, field, v) ==
    /\ conf' = [conf EXCEPT !.output[o][field] = v] /\ res' = 0

\* cmd_out_default_state: any word but "off" means on
OutputState(o, word) == OutputSetting(o, "state", word # "off")

\* The default PWM stands for the least and the largest, which are set alike
OutputPwm(o, n) ==
    IF n = <<>> THEN Fail(0)
    ELSE IF n[1] \in 0 .. 100 THEN OutputSetting(o, "pwm", n[1]) ELSE Fail(2)

\* cmd_ssh_pubkey_add: the first free slot; a key that is not valid is no error
PubkeyAdd(k) ==
    LET free == {i \in 1 .. MaxKeys : conf.keys[i] = NoKey}
    IN  IF k = NoKey THEN Fail(0)
        ELSE IF free = {} THEN Fail(2)
        ELSE /\ conf' = [conf EXCEPT !.keys[Min(free)] = k] /\ res' = 0

\* cmd_ssh_pubkey_del: by slot; it may be free
WithoutSlot(keys, n) == [keys EXCEPT ![n] = NoKey]

PubkeyDel(n) ==
    IF n = <<>> \/ n[1] \notin 1 .. MaxKeys THEN Fail(2)
    ELSE conf' = [conf EXCEPT !.keys = WithoutSlot(@, n[1])] /\ res' = 0

\* cmd_ssh_pubkey numbers the keys it lists, free slots left out
Occupied(keys) == Those(keys, Key)

\* acl_list_change: as many as there is room for, none after one that is open
AclListChange(nets) ==
    LET open == {i \in 1 .. Len(nets) : nets[i] = AnyNet}
        len == Min({Len(nets), MaxAcl} \cup open)
    IN  IF nets = <<>> THEN Fail(1)
        ELSE conf' = [conf EXCEPT !.acl = SubSeq(nets, 1, len)] /\ res' = 0

\* Mutant: the mode is set before its parameters are seen
VsensorSourceEarly(v, mode, arg, list) ==
    /\ conf' = [conf EXCEPT !.source[v].mode = mode]
    /\ res' = IF arg = Empty THEN 2 ELSE 0

\* cmd_vsensor_source: the fields of the new mode, if they are all there
VsensorSource(v, mode, arg, list) ==
    LET valid == Those(list, Sensor \cup {PicoTemp})
        sensors == SubSeq(valid, 1, Min({Len(valid), MaxSources}))
        Change(field, x) ==
            /\ conf' = [conf EXCEPT !.source[v].mode = mode,
                                    !.source[v][field] = x]
            /\ res' = 0
    IN  CASE mode = "picotemp" -> Change("sensors", <<>>)
          [] mode = "max" ->
                IF Len(sensors) < 2 THEN Fail(2) ELSE Change("sensors", sensors)
          [] mode \in {"manual", "i2c"} ->
                IF arg = Empty THEN Fail(2) ELSE Change(mode, arg)

-------------------------------------------------------------------------------
(* config_to_json and json_to_config *)

\* No item is written for an empty text, nor for what is as it was at first,
\* with some that are always written
Omitted(s, v) ==
    CASE KindOf[s] \in Word -> v = Empty
      [] KindOf[s] \in {"switch", "small", "debug"} -> FALSE
      [] OTHER -> v = Default(s)

SourceToJson(x) ==
    CASE x.mode = "manual" -> [mode |-> x.mode, manual |-> x.manual]
      [] x.mode = "i2c" -> [mode |-> x.mode, i2c |-> x.i2c]
      [] OTHER -> [mode |-> x.mode, sensors |-> x.sensors]

\* sshpubkeys2json
KeysToJson(keys) == Occupied(keys)

\* acllist2json
Closed(acl) == Those(acl, Net)

\* Mutant: the keys up to the first free slot
ConfigToJsonPrefix(c) ==
    LET free == {i \in 1 .. MaxKeys : c.keys[i] = NoKey}
    IN  [set    |-> [s \in {t \in Setting : ~Omitted(t, c.set[t])} |->
                        IF KindOf[s] = "mask" THEN BitmaskToStr(c.set[s], 1)
                                              ELSE c.set[s]],
         output |-> c.output,
         keys   |-> SubSeq(c.keys, 1, Min(free \cup {MaxKeys + 1}) - 1),
         acl    |-> Closed(c.acl),
         source |-> [v \in Sensor |-> SourceToJson(c.source[v])]]

ConfigToJson(c) ==
    [set    |-> [s \in {t \in Setting : ~Omitted(t, c.set[t])} |->
                    IF KindOf[s] = "mask" THEN BitmaskToStr(c.set[s], 1)
                                          ELSE c.set[s]],
     output |-> c.output,
     keys   |-> KeysToJson(c.keys),
     acl    |-> Closed(c.acl),
     source |-> [v \in Sensor |-> SourceToJson(c.source[v])]]

\* json_to_config, over what clear_config has set: settings, ...
ReadItem(s, items) ==
    IF s \notin DOMAIN items THEN Default(s)
    ELSE IF KindOf[s] = "mask" THEN StrToBitmask(items[s], Bits, 1)
    ELSE items[s]

\* ... keys in the first slots (json2sshpubkeys), ...
ReadKeys(list) ==
    [i \in 1 .. MaxKeys |-> IF i <= Len(list) THEN list[i] ELSE NoKey]

\* ... networks for which there is room (json2acllist), ...
ReadAcl(list) == SubSeq(list, 1, Min({Len(list), MaxAcl}))

\* ... of a sensor's sources those that there are (json2vsensors), ...
ReadSensors(list) ==
    LET valid == Those(list, Sensor \cup {PicoTemp})
    IN  SubSeq(valid, 1, Min({Len(valid), MaxSources}))

\* ... with the fields of its mode, and the rest
ReadSource(x, item) ==
    [field \in DOMAIN x |->
        IF field \notin DOMAIN item THEN x[field]
        ELSE IF field = "sensors" THEN ReadSensors(item.sensors)
        ELSE item[field]]

JsonToConfig(j) ==
    [set    |-> [s \in Setting |-> ReadItem(s, j.set)],
     output |-> j.output,
     keys   |-> ReadKeys(j.keys),
     acl    |-> ReadAcl(j.acl),
     source |-> [v \in Sensor |-> ReadSource(ClearConfig.source[v], j.source[v])]]

\* save_config; without memory for it nothing is written, and no error returned
SaveConfig == UNCHANGED conf /\ res' = 0 /\ file' \in {ConfigToJson(conf), file}
DeleteConfig == UNCHANGED conf /\ res' = 0 /\ file' = NoFile

\* read_config: safe mode, or no file that can be read
ReadConfig(safemode) ==
    conf' = IF safemode \/ file = NoFile THEN ClearConfig ELSE JsonToConfig(file)

-------------------------------------------------------------------------------
(***************************************************************************)
(* What a configuration means: ssh_allow_connection_cb and its like look   *)
(* only at closed networks, the login at the keys, get_vsensor and the I2C *)
(* poll at the fields of a sensor's mode.  The field "manual" holds the    *)
(* default and the timeout; get_vsensor has a sensor on the bus fall back  *)
(* to the default as it has one that is written by hand.                   *)
(***************************************************************************)
SourceMeaning(x) ==
    IF x.mode = "i2c" THEN [mode |-> x.mode, i2c |-> x.i2c, manual |-> x.manual]
                      ELSE SourceToJson(x)

Meaning(c) ==
    [c EXCEPT !.keys = Occupied(@), !.acl = {@[i] : i \in 1 .. Len(@)} \ {AnyNet},
              !.source = [v \in Sensor |-> SourceMeaning(@[v])]]

===============================================================================
