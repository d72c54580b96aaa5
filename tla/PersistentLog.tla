---------------------------- MODULE PersistentLog ----------------------------
(***************************************************************************)
(* The block of memory that survives a soft reset: clock, uptime and log   *)
(* (persistent_memory_block, src/brickpico.h), written by log_msg on both  *)
(* cores and in lwIP's callbacks (an interrupt of core0), and by core0's   *)
(* update_persistent_memory.  Its CRC covers the fields before crc32, the  *)
(* ring header among them, and not the log's bytes.                        *)
(*                                                                         *)
(* A reset can fall between any two stores.  The boot that follows accepts *)
(* the block when the CRC matches its header and wipes it otherwise.       *)
(***************************************************************************)
EXTENDS RingBuffer

CONSTANTS
    MaxRuns,        \* bound: boots explored
    MaxReadRun      \* bound: the last of them in which the log is read

ASSUME MaxRunsAssumption == MaxRuns \in Nat \ {0} /\ MaxReadRun \in Nat

VARIABLES
    id,             \* m->id is PERSISTENT_MEMORY_ID
    uptime,         \* m->uptime: the run that wrote it, 0 for none
    prevUptime,     \* m->prev_uptime
    crc,            \* m->crc32: the fields it was computed from
    mutex,          \* the holder of pmem_mutex, or Nobody
    pc,             \* where each agent is
    run,            \* the number of this boot
    booting,        \* before init_persistent_memory: log_rb is NULL
    quiet,          \* auxiliary: the last reset found pmem_mutex free
    reader          \* cmd_mem_log on core0: its offset, the length it read;
                    \* history: which of the items that is, 0 when it was
                    \* evicted, and whether it was complete when it was met

Core0 == "core0"
Core1 == "core1"
Irq == "irq"        \* lwIP callbacks: they preempt core0
Agent == {Core0, Core1, Irq}
Nobody == "nobody"

header == <<head, tail, free, items>>
block == <<id, uptime, prevUptime, crc>>
pvars == <<vars, block, mutex, pc, run, booting, quiet, reader>>

NoReader == [at |-> 0, len |-> 0, nth |-> 0, whole |-> FALSE]

\* update_persistent_memory_crc: a CRC stands for the fields it covers
Crc(i, u, p, h) == [id |-> i, uptime |-> u, prev |-> p, ring |-> h]
Covered == Crc(id, uptime, prevUptime, header)

AllIdle == [a \in Agent |-> "idle"]

PInit ==
    /\ Init
    /\ id = FALSE /\ uptime = 0 /\ prevUptime = 0 /\ crc = Covered
    /\ mutex = Nobody /\ pc = AllIdle
    /\ run = 1 /\ booting = TRUE /\ quiet = FALSE
    /\ reader = NoReader

-------------------------------------------------------------------------------
(* log_msg *)

CanRun(a) == ~booting /\ (a = Core0 => pc[Irq] = "idle")

At(a, here) == CanRun(a) /\ pc[a] = here
Goto(a, there) == pc' = [pc EXCEPT ![a] = there]

\* A message at or below the log level finds pmem_mutex free.  One that waits
\* for it in vain (mutex_enter_timeout_us, 100us) is dropped, which is no step
LogEnter(a, m) ==
    /\ At(a, "idle") /\ mutex = Nobody
    /\ mutex' = a
    /\ AddCall(m, TRUE)
    /\ Goto(a, "add")
    /\ UNCHANGED <<block, run, booting, quiet, reader>>

Evict(a) ==
    /\ At(a, "add") /\ RemoveFirstItem
    /\ reader' = IF reader.nth > 0 THEN [reader EXCEPT !.nth = @ - 1] ELSE reader
    /\ UNCHANGED <<block, mutex, pc, run, booting, quiet>>

\* The stores of u8_ringbuffer_add, in its order: tail, bytes, free and items
SetTail(a) ==
    /\ At(a, "add") /\ free >= Footprint(adding.msg)
    /\ tail' = StoreOffset
    /\ Goto(a, "data")
    /\ UNCHANGED <<buf, head, free, items, adding, live>>
    /\ UNCHANGED <<block, mutex, run, booting, quiet, reader>>

CopyData(a) ==
    /\ At(a, "data")
    /\ buf' = WriteItem(buf, tail, adding.msg)
    /\ Goto(a, "count")
    /\ UNCHANGED <<header, adding, live, block, mutex, run, booting, quiet, reader>>

CountItem(a) ==
    /\ At(a, "count")
    /\ free' = free - Footprint(adding.msg)
    /\ items' = items + 1
    /\ live' = Append(live, [at |-> tail, msg |-> adding.msg])
    /\ adding' = Idle
    /\ Goto(a, "crc")
    /\ UNCHANGED <<buf, head, tail, block, mutex, run, booting, quiet, reader>>

\* Mutant: the mutex is left without the CRC
LeaveUnsealed(a) ==
    /\ At(a, "crc")
    /\ mutex' = Nobody
    /\ Goto(a, "idle")
    /\ UNCHANGED <<vars, block, run, booting, quiet, reader>>

\* update_persistent_memory_crc and mutex_exit
Seal(a) ==
    /\ At(a, "crc")
    /\ crc' = Covered
    /\ mutex' = Nobody
    /\ Goto(a, "idle")
    /\ UNCHANGED <<vars, id, uptime, prevUptime, run, booting, quiet, reader>>

-------------------------------------------------------------------------------
(* update_persistent_memory, each second on core0 and before a reboot *)

\* When the mutex stays taken, it only logs that, at debug level
UpdateEnter ==
    /\ At(Core0, "idle") /\ mutex = Nobody
    /\ mutex' = Core0 /\ Goto(Core0, "time")
    /\ UNCHANGED <<vars, block, run, booting, quiet, reader>>

UpdateTimes ==
    /\ At(Core0, "time")
    /\ uptime' = run
    /\ Goto(Core0, "crc")
    /\ UNCHANGED <<vars, id, prevUptime, crc, mutex, run, booting, quiet, reader>>

-------------------------------------------------------------------------------
(* cmd_mem_log, on core0: u8_ringbuffer_peek from item to item, step by step,  *)
(* without pmem_mutex                                                          *)

Reading == pc[Core0] \in {"length", "bytes"}

MemLog ==
    /\ run <= MaxReadRun
    /\ At(Core0, "idle") /\ Goto(Core0, "length")
    /\ reader' = [NoReader EXCEPT !.at = head, !.nth = 1]
    /\ UNCHANGED <<vars, block, mutex, run, booting, quiet>>

MemLogEnds ==
    /\ Goto(Core0, "idle") /\ reader' = NoReader

\* No item, or the length of the one it stands on
PeekLength ==
    /\ At(Core0, "length")
    /\ IF items < 1 THEN MemLogEnds
       ELSE /\ reader' = [reader EXCEPT !.len = buf[reader.at],
                                        !.whole = reader.nth <= Len(live)]
            /\ Goto(Core0, "bytes")
    /\ UNCHANGED <<vars, block, mutex, run, booting, quiet>>

\* Mutant: whether it is the last item is not asked
PeekAnyNext ==
    /\ At(Core0, "bytes")
    /\ IF reader.len = 0 THEN MemLogEnds
       ELSE /\ reader' = [reader EXCEPT !.at = NextItemOffset(buf, @),
                                !.nth = IF @ = 0 THEN 0 ELSE @ + 1]
            /\ Goto(Core0, "length")
    /\ UNCHANGED <<vars, block, mutex, run, booting, quiet>>

\* The bytes are copied, and printed; then on to the next item, by the length
\* as it is now; the last one is where the tail is now
PeekNext ==
    /\ At(Core0, "bytes")
    /\ IF reader.at = tail \/ reader.len = 0 THEN MemLogEnds
       ELSE /\ reader' = [reader EXCEPT !.at = NextItemOffset(buf, @),
                                !.nth = IF @ = 0 THEN 0 ELSE @ + 1]
            /\ Goto(Core0, "length")
    /\ UNCHANGED <<vars, block, mutex, run, booting, quiet>>

-------------------------------------------------------------------------------
(* Reset and boot *)

\* cmd_reset, the watchdog or a fault: it stops nobody first.  SRAM keeps the
\* block; mutexes and log_rb are initialised anew.
Reset ==
    /\ ~booting /\ run < MaxRuns
    /\ booting' = TRUE /\ run' = run + 1
    /\ quiet' = (mutex = Nobody)
    /\ mutex' = Nobody /\ pc' = AllIdle /\ adding' = Idle
    /\ reader' = NoReader
    /\ UNCHANGED <<ring, live, block>>

PowerLoss ==
    /\ ~booting /\ run < MaxRuns
    /\ booting' = TRUE /\ run' = run + 1
    /\ quiet' = FALSE /\ id' = FALSE
    /\ mutex' = Nobody /\ pc' = AllIdle /\ adding' = Idle
    /\ reader' = NoReader
    /\ UNCHANGED <<ring, live, uptime, prevUptime, crc>>

\* log_msg(LOG_ERR) before init_persistent_memory (lfs_setup, read_config):
\* u8_ringbuffer_add refuses the NULL ring, the CRC is computed all the same
BootError ==
    /\ booting
    /\ crc' = Covered
    /\ UNCHANGED <<vars, id, uptime, prevUptime, mutex, pc, run, booting, quiet, reader>>

\* Mutant: the uptime is handed over without a new CRC
AcceptBlockUnsealed ==
    /\ booting /\ id /\ crc = Covered
    /\ booting' = FALSE
    /\ prevUptime' = IF uptime # 0 THEN uptime ELSE prevUptime
    /\ UNCHANGED <<vars, id, uptime, crc, mutex, pc, run, quiet, reader>>

\* Mutant: the CRC is not compared
AcceptAnyBlock ==
    /\ booting /\ id
    /\ booting' = FALSE
    /\ prevUptime' = IF uptime # 0 THEN uptime ELSE prevUptime
    /\ crc' = Crc(id, uptime, prevUptime', header)
    /\ UNCHANGED <<vars, id, uptime, mutex, pc, run, quiet, reader>>

\* Mutant: the uptime is handed over the wrong way round
AcceptKeepingPrev ==
    /\ booting /\ id /\ crc = Covered
    /\ booting' = FALSE
    /\ uptime' = IF uptime # 0 THEN prevUptime ELSE uptime
    /\ crc' = Crc(id, uptime', prevUptime, header)
    /\ UNCHANGED <<vars, id, prevUptime, mutex, pc, run, quiet, reader>>

\* init_persistent_memory finds its block
AcceptBlock ==
    /\ booting /\ id /\ crc = Covered
    /\ booting' = FALSE
    /\ prevUptime' = IF uptime # 0 THEN uptime ELSE prevUptime
    /\ crc' = IF uptime # 0 THEN Crc(id, uptime, prevUptime', header)
                            ELSE crc
    /\ UNCHANGED <<vars, id, uptime, mutex, pc, run, quiet, reader>>

\* ... or clears it (memset, u8_ringbuffer_init)
WipeBlock ==
    /\ booting /\ ~(id /\ crc = Covered)
    /\ booting' = FALSE
    /\ buf' = [c \in Cell |-> 0]
    /\ head' = 0 /\ tail' = 0 /\ free' = Size /\ items' = 0 /\ live' = <<>>
    /\ id' = TRUE /\ uptime' = 0 /\ prevUptime' = 0
    /\ crc' = Crc(TRUE, 0, 0, header')
    /\ UNCHANGED <<adding, mutex, pc, run, quiet, reader>>

PNext ==
    \/ \E a \in Agent :
          \/ \E m \in Message : LogEnter(a, m)
          \/ Evict(a) \/ SetTail(a) \/ CopyData(a) \/ CountItem(a) \/ Seal(a)
    \/ UpdateEnter \/ UpdateTimes
    \/ MemLog \/ PeekLength \/ PeekNext
    \/ Reset \/ PowerLoss \/ AcceptBlock \/ WipeBlock

PSpec == PInit /\ [][PNext]_pvars

\* The same with errors logged while the file system or the configuration is
\* read at boot
PSpecBootError == PInit /\ [][PNext \/ BootError]_pvars

-------------------------------------------------------------------------------
(***************************************************************************)
(* Whoever finds pmem_mutex free finds a sealed block: only then may a     *)
(* reset keep the log (log_msg, update_persistent_memory, and the boot).   *)
(***************************************************************************)
SealedWhenFree == ~booting /\ mutex = Nobody => id /\ crc = Covered

(***************************************************************************)
(* A block that a boot accepts holds a whole log: wherever the reset cut   *)
(* u8_ringbuffer_add short, the header either is the one before the call   *)
(* or no longer matches its CRC, although the bytes themselves have none.  *)
(***************************************************************************)
AcceptedLogIntact ==
    ~booting /\ mutex = Nobody => ReadsBack /\ ItemsApart

(***************************************************************************)
(* A soft reset that interrupts no writer loses no log message (cmd_reset  *)
(* logs the reboot and counts on the next boot to show it).                *)
(***************************************************************************)
QuietResetKeepsLog ==
    [][booting /\ ~booting' /\ quiet => live' = live]_pvars

(***************************************************************************)
(* What the boot reports as "Uptime before soft reset" is the uptime of    *)
(* the run that the reset ended, provided that run lived to write it.      *)
(***************************************************************************)
UptimeHandedOver ==
    [][booting /\ ~booting' /\ quiet /\ uptime = run - 1 /\ uptime # 0
         => prevUptime' = run - 1]_pvars

(***************************************************************************)
(* A reader of the log (SYS:LOG?) that is not overtaken, although it holds *)
(* no lock: until the item it stands on is evicted, it stands on the items *)
(* that are held, one after the other, or on the one that is being added;  *)
(* and it prints an item that was complete when it came to it as it was    *)
(* added.                                                                  *)
(***************************************************************************)
ReaderOnTrack ==
    Reading /\ reader.nth > 0 =>
        /\ IF reader.nth <= Len(live) THEN reader.at = live[reader.nth].at
           ELSE items = 0 \/ (reader.nth = Len(live) + 1 /\ reader.at = tail)
        /\ pc[Core0] = "bytes" /\ reader.whole =>
              [k \in 1 .. reader.len |-> buf[DataCell(reader.at, k)]]
                    = live[reader.nth].msg

===============================================================================
