# TLA+ models of the BrickPico firmware

BrickPico is the firmware of an LED controller on an RP2040: it dims and
switches outputs, runs light effects, and is commanded with SCPI lines over a
serial console, telnet, SSH and MQTT, by web pages, and by its own timers.
These modules model what the firmware's C code (`src/src/*.c`) does, TLC checks
them on small instances (`*.cfg`), and TLAPS proves the most important results
for every value of the constants (`*Proofs.tla`).  `PROJECT.json` gives, for
each definition, the lines of code it stands for.  The firmware has no tests;
`src/commands.md` is its documentation of the commands.

## 1. The system

| Part (code) | State it keeps | Operations | Talks to |
|---|---|---|---|
| Log ring buffer (`ringbuffer.c`) | byte array, head, tail, free, items | init, add with overwrite, remove first, peek | log |
| Persistent memory and log (`log.c`, `brickpico.c:60-173`, `crc32.c`) | a block that survives a soft reset: id, clock, uptimes, ring header and bytes, CRC | `log_msg` (any core, interrupts), `update_persistent_memory`, boot | everything logs |
| Output state (`brickpico.c`) | `system_state`, `transfer_state`, `core1_state`, core1's `pwm[]`, the pins | commands, timers and web/MQTT callbacks write it; two copies; the effect tick | core0 ↔ core1 by `state_mutex` |
| Effect configuration (`command.c:780-823`, `effects.c`) | effect and `effect_ctx` (heap) of each output, core1's copy | `OUTput:EFFect`, core1's copy | core0 ↔ core1 by `config_mutex` |
| Light effects (`effects_*.c`) | an effect's context | fade, blink, pulse: arguments and tick | core1 |
| Timers (`timer.c`) | the table of entries, `lastevent[]`, the clock | poll every 10 s, `CONF:TIMERS:ADD/DEL`, `SYS:TIME`, SNTP | writes `system_state` |
| MQTT client (`mqtt.c`) | connection, retry delay, discovery and status requests, one-place command queue | poll in the main loop; lwIP's callbacks in an interrupt | set up by the network; runs SCPI lines; writes outputs |
| Configuration store (`config.c`, `flash.c`) | files in littlefs, `brickpico_config` | save, read at boot, delete, copy, rename, format, safe mode | flash |
| SCPI interpreter and settings (`command.c`, `config.c`, `util.c`) | command level, previous subcommand, last error; every setting | a line of commands; config ↔ JSON | all parts |
| Network and syslog (`network.c`, `syslog.c`) | Wi-Fi link, address, NTP and syslog servers, time zone, `wifi_initialized`, `network_initialized` | `wifi_init` in setup; link, status, DHCP and SNTP callbacks; `wifi_poll` | sets up the MQTT client; sets the clock; log |
| Sensors (`temp.c`, `i2c.c`) | temperatures of the processor and of virtual sensors, their times; the round on the I2C bus | `update_temp`, `i2c_read_temps`, `WRITE:VSENSOR`, `CONF:VSENSOR:SOURCE` | MQTT, display |
| Web, telnet, SSH, TLS, display | thin layers over external libraries | | SCPI, output state |

**Who runs when.**  core0 runs `main`'s loop: console, network poll (MQTT
included), timers, sensors, display, and `update_core1_state`.  core1 loops
over the copy of the configuration (4 s), the copy of the state (250 ms) and
the effect tick (100 ms).  lwIP's callbacks (web pages, MQTT) interrupt core0
anywhere and take no mutex for the outputs' state.  Three mutexes exist:
`pmem_mutex`, `state_mutex` and `config_mutex`; core1 and the log give up after
100 µs.

**What is hard** about it, by the lines listed as hazards in `PROJECT.json`: stores that a reset
cuts short in memory that the next boot may keep; three writers of one
struct, two of them without a lock; pointers to the heap copied to the other
core; an interrupt that sets flags the main loop tests and clears; retries
against late answers; a file that is written over and never cut; a clock that
is set while a schedule runs; an interpreter whose level and previous word
outlive an error; a start whose steps race the answers of the network it
starts; and a table that commands change while it is gone through one poll at a
time.

**What makes each part correct** is stated below, run by run.

## 2. Modules and how they correspond to the code

A module's variables keep the names of the C variables where they can;
the comment of an action names its function.  A C function that another agent
can interrupt is several actions with a program counter (`pc`), one per store
or per test that matters; one that nothing interrupts is a single action.

* **`RingBuffer`** - `u8_ringbuffer_add`, `_remove_first_item`, `_peek` over
  real bytes: an item is its length, its bytes and its length again, modulo
  `Size`.  An add is a call, turns of the removal loop, and a store.  `live` is
  a history variable: the messages held and where each starts.
  **`MessageLog`** is the abstract queue that it implements.
* **`PersistentLog`** extends `RingBuffer`: core0, core1 and an interrupt run
  `log_msg` store by store (`pc[agent]`), core0 updates the times, and a reset
  or power loss comes anywhere.  The CRC stands for the fields it covers;
  that it collides is not modelled.  `MemLog`, `PeekLength` and `PeekNext` are
  `SYS:LOG?`, which walks through the ring without the mutex; `reader.nth` follows
  the item it stands on while others are evicted before it.  `BootError` is an
  error logged before `init_persistent_memory`.
* **`OutputState`** - the start (`SetupPin`, `SetupPwm`, `SetupPwr` for each output,
  `MainCopy`, `Launch`), the writers of `system_state` (`Command`, `Timer`,
  `Callback`), the copies of core0 (`Enter0`, `Copy0`, `Exit0`) and core1
  (`Enter1`, `Copy1`, `Exit1`) field by field, and `EffectTick` for outputs
  without an effect.  `network_init` starts the web server before setup's loop over
  the outputs, so a `Callback` falls between any two steps of the start as well.
  `whole` and `got` are histories of the last complete transfer, `early` of the
  outputs that a callback changed behind setup's loop.
* **`EffectConfig`** - `cmd_out_effect` in its steps under `config_mutex`
  (parse and allocate, effect, free, pointer, unlock) with a heap of `Addr`,
  against core1's copy output by output.
* **`Effects`** - the arguments and one tick of fade, blink and pulse, with
  changes of state or configuration between ticks, and ticks that come late.
  `kind` and `context` are an output's `effect` and `effect_ctx`, whose names
  `EffectConfig` has, so that one module can speak of both.
* **`Timers`** (with **`Bitmasks`**, text of masks in `util.c`) - parsing and
  printing of entries as the words of a line, add/delete with slots that move, `lastevent[]`,
  the poll, and a clock that commands or SNTP set.
* **`MqttClient`** - `brickpico_mqtt_poll` statement by statement, and each lwIP
  callback as an action that fits between any two statements.  `why` is a
  history variable: the reason for which the client has neither a connection
  nor a retry to come.
* **`Network`** extends it with `wifi_init` step by step (`npc`), the link,
  DHCP, status and SNTP callbacks between any two of its steps, the option that
  the DHCP hook adds to lwIP's request and what a server answers to it, renewals
  of the lease, the opening of the syslog, and `wifi_poll`, which sets the MQTT
  client up and polls it.  A section under lwIP's lock is one step.
* **`Sensors`** - `update_temp` over the table of virtual sensors in order,
  timeouts, `i2c_read_temps` one poll at a time with readings that may fail, and
  commands that write a sensor or change its source in the middle of a round.
* **`ConfigStore`** - open, write and close of a save, files that
  are not truncated, the boot, file commands, safe mode, errors and resets.
  littlefs is outside the code: a file changes when it is closed, all at once.
  **`SavedConfig`** is the abstract store of whole configurations.
* **`Settings`** - `brickpico_config` by kind of setting, the handlers that
  change it, `config_to_json` and `json_to_config`.  **`Scpi`** extends it with
  `process_command`/`run_cmd`: a lazily read line of words, the level, the
  previous subcommand, errors, surplus words, restarts.

Composition: `PersistentLog` = `RingBuffer` + agents + resets; `Network` = start
of the network + `MqttClient`; `Scpi` = interpreter + `Settings` + outputs.  `OutputState`, `EffectConfig` and `Effects`
are three views of core1's loop: the first fixes outputs without an
effect, the second leaves the effect functions out, and the third takes every
copy of the two others as a possible change between ticks (`CopyState`,
`CopyConfig`), so it is checked against more than they can do.

`MC*.tla` give the constants that a `.cfg` cannot write.  Definitions whose
comment begins "Mutant:" are wrong versions of the definition after them; they are used by
no specification, and serve to show that each property notices such a bug.

## 3. What the runs check

Runs pass unless said otherwise.

| Run | Bounds | States | What it shows |
|---|---|---|---|
| `ring` | 8 cells, messages of 1 and 2 bytes whose bytes look like lengths | 1 044 | `ReadsBack`: walking from the head meets exactly the messages held. `ItemsApart`: no overlap, `free` exact. `KeepsQueue`: implements `MessageLog` |
| `pmem` | the same buffer, 3 agents, 3 boots, the log read in the first | 593 729 | `SealedWhenFree`, `AcceptedLogIntact`: what a boot accepts holds a whole log. `ReaderOnTrack`: a reader without the mutex stays on the items until its own is evicted. `QuietResetKeepsLog`, `UptimeHandedOver`: action properties of the boot |
| `pmem_booterr` (violation) | the same | | with errors logged at boot `AcceptedLogIntact` fails, see section 6 |
| `outputs` | 2 outputs, one of them on at first, PWM 0..2, 3 changes | 478 135 | `CopiedWhole`: core1 has a whole transfer. `CacheTrue`: a pin is skipped wrongly in one case only (`LeftLit`, section 6). `Converges` (liveness): every other pin comes to show its output |
| `effects` | the heap: 2 outputs, 2 kinds, 3 addresses, 3 commands; the light: PWM 0..3, half second = 1 tick, lateness 1, 12 ticks, 2 changes | 212 363 | `HeapAccounted`: no leak, double free or sharing. `CopiedPaired`: what core1 copies is one configured pair, never an effect with a freed or missing context or one of another effect or output. `StaleContextDropped` (liveness). `Settles`, `FadeMonotone`, `BlinkKeepsTime` |
| `timers` | minute = 5 s, 2 minutes per hour, 2 hours per day, poll every 2-3 s, 2 slots, 2 commands, 48 s | 1 361 917 | `NoMinuteMissed`, `OncePerMinute`, `ListingAddsBack` |
| `network` | 32 combinations of settings with 4 offers and 2 leases, without MQTT; 3 that `wifi_init` refuses; 2 with MQTT, 3 commands (1 forbidden), 2 messages of Home Assistant; 2 faults | 362 982 | `SyslogServerChosen`: once open, the syslog keeps its server, the first lease's if none is configured. `ConfiguredWins`: which time server and zone are in force, whatever the order. `StrandedOnlyByFaults`, `OneAttempt`, `RunningCommandKept`, `RunOnce`, `NothingForgotten`: the client. `ComesToRest` (liveness) |
| `network_syslog` (violation) | the same | | a configured syslog server that is not used, section 6 |
| `sensors` | 3 sensors, 3 tables, 2 temperatures, 2 changes of source | 411 506 | `FollowsSources`: chains of sensors settle in as many polls as they run against the table. `RoundReadsAll`, `LastsForTimeout`. `ReadForEver` (liveness) |
| `config_store` | 2 files, 3 configurations of lengths 1, 2 and 3, 5 commands, 3 faults | 20 463 | `KeepsPromise`: implements `SavedConfig` |
| `config_saved` (violation) | the same | | a save logged as successful that did not save, section 6 |
| `scpi` | a setting of each of 12 kinds, 2 outputs, 1 sensor, 2 keys, 3 changes | 320 405 | `ParentNamed`: a number is read from the right word. `SaveLosesNothing`: with the two losses of section 6. `OnlyNamedOutput`. `FailedChangesNothing`: a command answered with an error changed nothing since it began, but for what handlers of surplus words did that answered 0 before |

Type invariants are checked where widths and ranges are at stake (`ring`,
`outputs`, `scpi`: lengths in a byte, numbers cut to their field); the types of the other modules
are part of the invariants that section 4 proves.

**Why the bounds are enough.**
*Ring*: 8 cells is the smallest size the proofs allow for messages of 2 bytes
(`Size >= 2 * (MaxLen + 2)`); two items fit, items wrap at every
offset, one add evicts one or two items. *pmem*: a reset in the second
run that the third one meets needs three boots; the log is read in the first,
because a boot leaves no reader over and an accepted ring is no different to
read from one that was never reset. *outputs*: two outputs tell a
torn copy from a whole one; of three changes one may fall into the start, and a
second one still arrive during the copy of the third. *effects*: three addresses for two
outputs are needed for a new context beside two old ones.  The two modules of this run
share no variable; a behaviour of `SpecEither` is one of either, so that each is
checked whole.
*timers*: what matters is the ratio of the poll's period to the minute (a
minute sees one to three polls, as the code's sees six and a few less),
and that two slots can shift; 48 s are more than two of these days.  In the
code `Minute` is 60 and the poll's period 10.
*network*: two faults suffice to lose a connection and fail the retry, or for
both attempts of a synchronous start to time out; two leases make a first one and a
renewal that differs. The settings that only concern servers are combined with
each other but not with the MQTT client, which reads none of them.
*sensors*: a chain in the table's order, one against it and a cycle need three
sensors; so does a round in which one before and one behind the place of reading
change. Two changes take a sensor off the bus and put it back.
*config_store*: a long document, then a short one over it, then a fault and a
start; five commands hold two saves with a file command between.  *scpi*:
three changes let keys be deleted and added again, and a restart
fall between; queries do not count, but no command begins after the last change.

`CHECK_DEADLOCK FALSE` is set where the bounded time or the bounded number of steps ends the behaviours
(`timers`, `effects`, `config_store`), where the system comes to rest
(`network`), and
where a finding's single property is checked on such a model.

### Fairness, and what justifies it

* `OutputState`: `WF` of the start's steps: setup and main wait for nothing there.
  `WF(Tick)`, `WF(Copy0 \/ Exit0)`, `WF(Copy1 \/ Exit1)`: both
  cores loop for ever.  `SF(Enter0)`, `SF(Enter1)`: each finds the mutex free
  again and again, the other holding it for one `memcpy` per period; core1's
  100 µs are longer than a `memcpy`.  `SF(EffectTick)`: core1 comes back to the
  tick however often it copies.  Commands, timers and callbacks have no
  fairness: they come or do not.
* `EffectConfig`: `WF(Core0Step)`, `WF(Core1Step)`: a critical section that was
  entered is left.  `SF(StartCopy)`: core1 tries every 4 s for ever.
* `Network`: `WF(StartStep)`, `WF(Announcement)`: setup and the main loop run.
  `WF(LinkUp)`, `WF(SntpAnswer)`, `WF` of the first lease: there is an access
  point, and servers that answer in the end; renewals have no fairness.
  For the client, `WF(PollStep)`, `WF(Reconnect)`: the main loop polls for ever
  and delays end; `SF(DiscoveryDue)`, `SF(RunCommand)`: enabled again and again
  as the poll comes round; `WF(DnsFound)`, `WF(Accepted)`: lwIP ends every
  attempt; since faults are bounded, in the end with success.
* `Sensors`: `WF(I2cPoll)`: the main loop comes round to the bus for ever,
  unless the delay it was given says otherwise, which is what `ReadForEver` is about.
* The others check safety only.

### Assumptions that are not in the code's text

* `Enter1` of `OutputState` waits for `ticked`: core1 has run its first effect
  tick (100 ms after its start) before its first copy of the state (250 ms).
  Both counters start together, so this is the code's timing, not a guard;
  without it an output that is switched off before the first tick would stay lit.
* core1 does not work before `Launch`, and no command or timer is handled: main's
  loop comes after it.  Web requests are handled from the first step on.
* A poll of the timers comes at most `Slack` late.  A main loop that is held up
  for longer than a minute misses minutes, and no property says otherwise.
* littlefs changes a file atomically at its close, a store of a word is atomic.

## 4. What is proved

Every safety property of the passing runs, the refinements included, is a theorem for all
values of the constants within the named `ASSUME`s of the modules (`NothingForgotten` for
clients with Home Assistant, as in its run):

* `RingBuffer`: messages of 1 to 255 bytes (a length is one byte) and
  `Size >= 2 * (MaxLen + 2)`.
* `Timers`: an hour has two minutes or more, a poll comes at least once a minute,
  the clock stands past the first minute, and the entries of the start
  were made by the commands that make entries (`Accepted`), no more than the table holds.
* `ConfigStore`: the marks for a free, broken or empty file are not
  configurations; a document has at least one character.
* `Settings`, `Scpi`: the settings are any set of names with kinds, which the other
  commands do not use.
* `Sensors`: sensors are numbered up to 100, one below the number
  of the processor's own.
* `OutputState`: there is an output, and full brightness is more than none.
  `EffectConfig`, `Effects` and `Network` assume types only.

TLC evaluates these assumptions in the runs.

**The log** (`LogProofs`).  *The ring*: `TypeCorrect`, `ItemsStayApart`, `LogReadsBack`,
`KeepsQueuePromise`.  What the runs check is not inductive: `ReadsBack` says nothing of
the bytes a removal or a store leaves.  The invariant
`Inv == TypeOK /\ Ends /\ Chain /\ Bytes /\ ItemsApart` says where head and
tail are, how far each item lies behind its predecessor, and that the cells of each
item hold its length, bytes and length.  `WriteItemEffect` says which
cells a store changes; since the items lie apart in ring distance from
the head (`DistanceFrom`), no cell of a live item is among them.
`RemovalLeavesOne` is the place where `Size >= 2 * (MaxLen + 2)` is needed:
the removal loop never removes the last item, whose removal would move
the head past the tail.  In the refinement
every item read back is the one added (`HeldIsLive`), and each action
maps to one of `MessageLog`.
*The block*: `FreeMeansSealed`, `BootAcceptsWholeLogs`, `ReaderStaysOnTrack`,
`QuietResetIsSafe`, `UptimeIsHandedOver`, from
`PInv == Locks /\ Calls /\ Sealed /\ Ring /\ Reader`.  `Inv` holds of the ring while nobody
stores.  Between the stores of an add only `Stored` does: the older items are whole
(`OlderBytesStay`) and the new one fits behind them; and `Torn`: there is no item left,
or the header is no longer the one the CRC covers.  So a reset there finds either
nothing to read or a CRC that does not fit.  During the removal loop the items are fewer than
the CRC covers (`Sealed`), which is why the header cannot come back to the covered one
before the CRC is renewed.  `Reader` places `SYS:LOG?` among the items held, the one being
added included.  These theorems are about `PSpec`, in which no error is logged before
`init_persistent_memory`; section 6 shows what such an error does.

**Outputs** (`OutputStateProofs`): `TypeCorrect`, `CopiesAreWhole`, `CacheStaysTrue`.
`Inv` adds to the types: mutual exclusion (`Locks`), `transfer_state` is
complete whenever core0 does not copy (`Complete`), how far core1's copy has
come (`Progress`), the state before the first tick (`Boot`), and for the start which pins
setup has written (`Pins`) and what it has stored and main copied, the outputs that a
callback has changed since aside (`Stored`, `MainCopied`).

**Effects** (`EffectProofs`).  *Their heap*: `HeapStaysAccounted`, `CopiesStayPaired`.  The
properties speak of the moments when core0 holds no mutex; the invariant says who
owns each context between any two stores of `cmd_out_effect`: the outputs'
contexts are distinct and of their output's kind except the one being changed
(`Settled`, `NotShared`), the new context is the command's alone until it is
stored (`NewContext`), and every address in use has an owner (`Owned`).
`Locks` gives mutual exclusion, from which core1 copies only settled outputs, each with
its effect's own context.
*Their light*: `LightsSettle`, `FadesOneWay`, `BlinksInTime`.  That a level is in range, or the
final one, says nothing of the next tick.  `LightInv` says of every tick where the effect is:
a fade in mode 1 or 3 shows the share of the way that its time is of the length (`Faded`), and
it began no later than the first tick after the last change; a blink is lit
in mode 1 alone, and the tick that switched it is the context's start (`Blinked`).
`Ramp` is the arithmetic: the quotient `w * d \div n` rises with `d`, from 0 up to `w`.
A pulse without any length is left out of the range, as in `Settles`.

**Timers** (`TimersProofs`): `EveryMinuteServed`, `AppliedOnce`, `ListedEntriesComeBack`.
`NoMinuteMissed` looks back at minutes that are over, so it is not inductive, and the gate
of the code, `lastevent[]`, belongs to slots while the entries move between them.  The invariant
says per entry: what its slot knows of it (`SlotKnows`: the slot's time is not before the entry's own,
unless the entry was disturbed since) and that it is the truth (`SlotTrue`: after the
last disturbance the slot's time is the entry's); that the current minute is served once it has been
polled and the last one for good (`ThisMinute`, `LastMinute`); and that an entry for every minute was due at the last
poll or gated (`Steady`).  `Disturbed`, `Waited`, `Applied` and `Spared` show this for what can happen to one
entry, `TableChanged` for the table.
For the last theorem `MaskBack` says that a mask comes back from its text of
ranges, whatever its bits.

**The network and its client** (`NetworkProofs`): eight theorems.
`ClientInv` gives `OneAttemptAtATime`, whose property is inductive as it stands,
`CommandStays` (from `Place`: the command that runs stays queued, so the
callback refuses another), `CommandsRunOnce` (from `EachOnce`: a message that waits has
not run, and one that was left behind is not queued) and `HomeAssistantIsTold`.
That last one is proved for `HaEnabled`: without Home Assistant nothing is
announced at a reconnection, so a state message that was lost stays lost
(section 6).  `Told` is stronger than `NothingForgotten`, which is not inductive.
`NetInv` says how far the start has come when the first lease arrives
(`Leased`, `ServerSoFar`), which gives `SyslogGoesWhereChosen` (the server at every
point of the start, the late and the early opening told apart) and from it
`SyslogStaysChosen`, and that the
client is set up with a link unless the address is static (`LinkFirst`), which gives
`OrderStrandsNobody`.  `Wins` adds which of the two that may set a time server or a zone
has done so by each step of `wifi_init`, which gives `ConfigurationWins`.

**Sensors** (`SensorsProofs`): `RoundsAreComplete`, `DerivedFollowSources`, `ValuesLast`.
The first invariant says what holds in
the middle of a round: the readings lie before the place of the next poll
(`Behind`), and every sensor before it that stayed on the bus has been read
(`AllBehind`).  The second theorem is about one pass of `update_temp`, in which a sensor sees
the new values of those before it and the old ones of those behind
(`UpdatedEach`), and about the length of chains: a sensor that does not
depend on itself lags behind its sources by what they lag, and one more for each that the
table has after it (`LagsBehind`).

**The configuration file** (`ConfigStoreProofs`): `StoreKeepsPromise`, that `ConfigStore` implements
`SavedConfig` step by step.  What a file holds changes when it is closed, so the opening
and writing map to stutters, and `Handle` says that what is about to be in the file
reads as the configuration being saved although the rest of a longer document may follow it.

**Commands and settings** (`ScpiProofs`): `PrevOpensLevel`, `CommandsKeepToTheirOutput`,
`ErrorsChangeNothing`, `ValuesKeepTheirTypes`, `SavingLosesNothing`.  For the first three
`Inv == Place /\ Complete /\ Said`: the level searched is always the
table of the previous subcommand, whatever errors and surplus words came
before (`SubTables` lists which entry opens which table); no part of the configuration
disappears; and an output is named by the last word of the path only.
Then each handler is shown to touch no output, or the named one, and to
leave everything when it fails (`HandlerHandled`).  From that `NextMarked` follows what
several handlers of one command do: what the last of them to answer 0 left is still there
when the command ends.  `SavingLosesNothing` does not hold of any file, but of
what the commands store: `Types` says that the configuration and what was written to the file
are well typed, `RoundTrip` that a well-typed configuration comes back from its JSON with
the same meaning, list by list (`KeysBack`, `AclBack`), mask by mask (`MaskBack`) and
sensor by sensor (`SourceBack`), the two losses of `Kept` aside.

**Induction.**  The library's induction theorems, which take a predicate, are
of no use to the provers here.  Its well-foundedness of `<` on `Nat`, which is
about sets, is: `LeastOfNumbers` (or `MinOfNumbers`) gives the least element of a set of
numbers, and `CountingUp` is induction for a set.  With them division is related to multiplication
(`Between`, `Quotient`), and recursive functions (the pass over the table, the chains,
the runs of a mask) are followed element by element.  A few of these lemmas stand in
several of the modules: each module of proofs can be read and checked alone.

**Only model-checked**: liveness (`Converges`, `StaleContextDropped`, `ComesToRest`,
`ReadForEver`), which is out of TLAPS's reach, and the three
properties that section 6 shows violated.

## 5. What is not modelled, and why

* Pure output or hardware: `pwm.c`, `lightness.c`, display, generated web
  pages.  Thin configuration of libraries that are not in the repository:
  telnet, SSH and TLS servers, and the drivers of I2C sensors (a reading is any
  value or an error).
* In modelled parts: log levels; the arithmetic of the CRC; lack of memory
  when an MQTT message is built; payloads in fragments; the wording
  of messages, the syslog's included; information queries; TLS and SSH key files
  among the settings, and the timers' and effects' items in the configuration file;
  humidity and pressure, the conversion of the processor's own sensor; the
  loss of a Wi-Fi link once it stands (the client's connection may be lost at any
  time, the link and the address under it stay); the
  start of the servers in `wifi_init`, on which nothing else depends; a year's calendar
  (days are weekdays).
* Use of a freed effect context by core1 (up to 4 s after `OUTput:EFFect`) is
  what the code does; `EffectConfig` checks that it ends, and `Effects` that
  a new context behaves, not what freed memory holds.  Likewise nothing is said
  of a reader of the log once its item has been evicted.

## 6. What the models say against the code

Three runs end in a violation, each a finding in `PROJECT.json`:

* **`pmem_booterr`**: an error logged by `lfs_setup` or `read_config` before
  `init_persistent_memory` gives a torn block a matching CRC, and the boot
  accepts a log that does not read back (`log.c:224`).
* **`config_saved`**: `flash_write_file` takes a negative result of the write for a large
  size and logs success, and never looks at the result of the close
  (`flash.c:150`).
* **`network_syslog`**: with a static address, or `WIFI:MODE 1`, the syslog is opened
  (`network.c:137`) before the last line of `wifi_init` (`294`) copies the configured
  server: it goes to DHCP's server or to 0.0.0.0 for good, although
  `commands.md:2623` calls the configured one the "Syslog server to use".

Observed while reading, modelled as the code has it, and not claimed as findings:

* Weekdays count from 0, so `6-7` in the examples (`commands.md:456,488`,
  "weekends") is Saturday alone; an entry whose only weekday is 7 matches every
  day; an entry without outputs is listed as `*`.
* `uint8_setting` cuts a number to 8 bits before it tests it: `SYS:LED 256` is 0.
* `CONF:DEFAULTS:STATE` always answers with an error (and stores the defaults).
* Words left over after a command that has no subcommands run another handler
  of the same table, whose answer becomes the command's:
  `:WRITE:OUTPUT1:PWM:STATE 50` sets the PWM and answers -102.
* A save loses two things (`Kept`).  An empty text for a setting whose default is a text
  is not written, and the text is back.  The timeout and the default of a virtual sensor
  are written in manual mode only (`config.c:646`), but `get_vsensor` uses them for a sensor
  on the I2C bus as well (`temp.c:101`): after `manual,20,0` and then `i2c,...`, a save and
  a restart bring back 0 degrees and 60 seconds.
* A fade that is interrupted starts from full or from dark; `pulse,0,0,0,0`
  divides by zero at each tick (`DividingTick`: any level).
* The verbose logging of safe mode in `read_config` is never reached: without a
  file's configuration the function has returned before.
* `SYS:SSH:PUBKEY?` numbers the keys it lists, `:DEL` takes slots
  (`command.c:1355`, `1426`; `commands.md:2067`): after a deletion they differ.
* `CONF:DELETE` deletes the file and nothing else: the running configuration stays
  as it is until the next start (`DeleteConfig`).
* An output that a web request switches off between setup's loop over the pins
  (`brickpico.c:216-222`) and main's copy of the state (`376`) stays lit: setup has
  written the default level to its pin, core1 starts from a memory of zeroes and sees a
  level of zero, and skips the pin until its level changes (`LeftLit`).
* `SYS:LOG?` holds no mutex: a reader whose item is evicted reads what has come
  there and may print garbage, or go round; an item that is just being added
  may be printed half old.
* A refused MQTT login, or a lookup or connection call that fails at once, leaves
  the client without a retry until the next start (`OneAttempt` says that there
  is no other such case).  With a static address the network counts as up before
  the radio has found an access point; a slow association strands the client
  the same way (`StrandedOnlyByFaults` says that there is no other way without a fault).
* In mode 1 the first lease comes before SNTP may take a server from DHCP: the
  clock waits for a renewal.
* When both attempts of mode 1 time out, the radio goes on; an address that
  comes later opens the syslog, but `wifi_initialized` stays false, and there is
  neither SNTP nor MQTT nor any server until the next start.
* A time zone of one character is set neither by the configuration nor by DHCP.
* A new I2C source takes effect after a restart (the context of the start
  stays); a sensor put back on the bus in the middle of a round is read without
  a conversion.  Humidity and pressure never time out.
* Without Home Assistant, a state message lost with the connection is not sent
  again after the reconnection until its interval is over.

## 7. Plan

Order of work, the most important behaviour first:

1. Done: `RingBuffer`, `MessageLog`, `PersistentLog` with the reader;
   `OutputState`, `EffectConfig`; `Timers`, `Bitmasks`; `MqttClient`, `Network`;
   `Sensors`; `ConfigStore`, `SavedConfig`; `Settings`, `Scpi`; `Effects`; proofs
   of all their safety properties.
2. To extend: a composition of `OutputState`, `EffectConfig` and `Effects` with
   core1's one loop; the items of timers and effects in the
   configuration file.
3. To prove: that the mutual exclusion of `OutputState` and of `EffectConfig` survives that
   composition; `LogReadsBack` as a refinement of the whole
   block across resets, with an abstract log that a boot keeps or empties.
