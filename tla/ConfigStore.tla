----------------------------- MODULE ConfigStore -----------------------------
(***************************************************************************)
(* Where the configuration lives while the power is off: brickpico.cfg in  *)
(* the flash file system (src/flash.c), written by CONFigure:SAVe and read *)
(* at the start (src/config.c).  littlefs is outside the program: a file   *)
(* changes when it is closed, all at once or not at all, and a new one is  *)
(* there, empty, as soon as it is opened.                                  *)
(*                                                                         *)
(* A document is its configuration's name in each cell, then a NUL.  Files *)
(* are written over from their start and never cut: behind a document that *)
(* is shorter than the one before there is a rest of that one.  That the   *)
(* JSON names the whole configuration is not this module's matter.         *)
(***************************************************************************)
EXTENDS Integers, SequencesExt, TLC

CONSTANTS
    Name, Cfg,          \* file names, "brickpico.cfg" among them
    Config, Default,    \* configurations, and the one of clear_config
    Length,             \* the length of each configuration's JSON
    MaxSteps,           \* bound: commands
    MaxFaults           \* bound: errors of the flash and power losses

NUL == "NUL"
NoConfig == "no config"
Absent == <<"absent">>
Broken == <<"broken">>

ASSUME StoreAssumption ==
    /\ Cfg \in Name /\ Default \in Config
    /\ {NUL, NoConfig, Absent[1], Broken[1]} \cap Config = {}
    /\ Length \in [Config -> Nat \ {0}]
    /\ MaxSteps \in Nat /\ MaxFaults \in Nat

VARIABLES
    config,             \* brickpico_config
    files,              \* the content of each file, or Absent
    handle,             \* the open file: its content to be, or Broken
    pc,                 \* "mount", "read", "run", "open", "write", "close"
    safe,               \* firmware_settings->safemode
    logged,             \* the configuration last logged as saved, or NoConfig
    steps, faults

vars == <<config, files, handle, pc, safe, logged, steps, faults>>

Step == steps < MaxSteps /\ steps' = steps + 1
Fault == faults < MaxFaults /\ faults' = faults + 1

Body(c) == [i \in 1 .. Length[c] |-> c]

\* cJSON_Print's string, with its NUL (strlen + 1 bytes are written)
Document(c) == Body(c) \o <<NUL>>

\* lfs_file_write at the start of a file that is not truncated
Overwrite(old, doc) == doc \o SubSeq(old, Len(doc) + 1, Len(old))

\* cJSON_Parse takes the JSON value at the start and leaves what is behind it
Parse(content) ==
    IF \E c \in Config : IsPrefix(Body(c), content)
    THEN CHOOSE c \in Config : IsPrefix(Body(c), content)
    ELSE NoConfig

Init ==
    /\ config = Default
    /\ files = [n \in Name |-> Absent] /\ handle = Absent
    /\ pc = "mount" /\ safe \in BOOLEAN
    /\ logged = NoConfig
    /\ steps = 0 /\ faults = 0

-------------------------------------------------------------------------------
(* setup *)

\* lfs_setup: the file system mounts, or a new one is made
Mount ==
    /\ pc = "mount" /\ pc' = "read"
    /\ UNCHANGED <<config, files, handle, safe, logged, steps, faults>>

MountFails ==
    /\ pc = "mount" /\ pc' = "read"
    /\ Fault
    /\ files' = [n \in Name |-> Absent] /\ logged' = NoConfig
    /\ UNCHANGED <<config, handle, safe, steps>>

\* read_config(safemode): no file, an empty one and an error in the JSON leave
\* the defaults
ReadConfig ==
    /\ pc = "read" /\ pc' = "run"
    /\ LET c == IF safe THEN NoConfig ELSE Parse(files[Cfg])
       IN  config' = IF c = NoConfig THEN Default ELSE c
    /\ UNCHANGED <<files, handle, safe, logged, steps, faults>>

\* The file cannot be read, or cJSON_Parse has no memory
ReadFails ==
    /\ pc = "read" /\ pc' = "run"
    /\ Fault
    /\ config' = Default
    /\ UNCHANGED <<files, handle, safe, logged, steps>>

\* A command changes a setting
Change ==
    /\ pc = "run" /\ Step
    /\ config' \in Config
    /\ UNCHANGED <<files, handle, pc, safe, logged, faults>>

-------------------------------------------------------------------------------
(* save_config and flash_write_file *)

Save ==
    /\ pc = "run" /\ Step /\ pc' = "open"
    /\ UNCHANGED <<config, files, handle, safe, logged, faults>>

\* config_to_json has no memory, lfs_mount or lfs_file_open fails
SaveFails ==
    /\ pc = "open" /\ Fault /\ pc' = "run"
    /\ UNCHANGED <<config, files, handle, safe, logged, steps>>

Open ==
    /\ pc = "open" /\ pc' = "write"
    /\ files' = [files EXCEPT ![Cfg] = IF @ = Absent THEN <<>> ELSE @]
    /\ handle' = files'[Cfg]
    /\ UNCHANGED <<config, safe, logged, steps, faults>>

\* "File successfully created" is logged when not (wrote < size)
Write ==
    /\ pc = "write" /\ pc' = "close"
    /\ handle' = Overwrite(handle, Document(config))
    /\ logged' = config
    /\ UNCHANGED <<config, files, safe, steps, faults>>

\* lfs_file_write returns a negative error, such as no space; wrote is an
\* unsigned lfs_size_t, so that the error passes for a large size
WriteFails ==
    /\ pc = "write" /\ Fault /\ pc' = "close"
    /\ handle' = Broken
    /\ logged' = config
    /\ UNCHANGED <<config, files, safe, steps>>

\* Mutant: the file is emptied before the new content is in place
CloseTorn ==
    /\ pc = "close" /\ pc' = "run"
    /\ files' = [files EXCEPT ![Cfg] = IF handle = Broken THEN <<>> ELSE handle]
    /\ handle' = Absent
    /\ UNCHANGED <<config, safe, logged, steps, faults>>

\* lfs_file_close commits, unless a write of the file failed
Close ==
    /\ pc = "close" /\ pc' = "run"
    /\ files' = [files EXCEPT ![Cfg] = IF handle = Broken THEN @ ELSE handle]
    /\ handle' = Absent
    /\ UNCHANGED <<config, safe, logged, steps, faults>>

\* It fails, which flash_write_file does not look at
CloseFails ==
    /\ pc = "close" /\ Fault /\ pc' = "run"
    /\ handle' = Absent
    /\ UNCHANGED <<config, files, safe, logged, steps>>

-------------------------------------------------------------------------------
(* The file commands, which touch brickpico.cfg like any other file.  After  *)
(* one that succeeds on it nothing is claimed to be saved.                   *)

\* delete_config and cmd_lfs_del
Delete(n) ==
    /\ pc = "run" /\ Step
    /\ files[n] # Absent
    /\ files' = [files EXCEPT ![n] = Absent]
    /\ logged' = IF n = Cfg THEN NoConfig ELSE logged
    /\ UNCHANGED <<config, handle, pc, safe, faults>>

\* cmd_lfs_ren: lfs_rename replaces m
Rename(n, m) ==
    /\ pc = "run" /\ Step
    /\ files[n] # Absent /\ n # m
    /\ files' = [files EXCEPT ![m] = files[n], ![n] = Absent]
    /\ logged' = IF Cfg \in {n, m} THEN NoConfig ELSE logged
    /\ UNCHANGED <<config, handle, pc, safe, faults>>

\* cmd_lfs_copy: LFS_O_EXCL refuses an m that exists; an error on the way
\* leaves m with what was written
Copy(n, m) ==
    /\ pc = "run" /\ Step
    /\ files[n] # Absent /\ files[m] = Absent
    /\ \/ files' = [files EXCEPT ![m] = files[n]] /\ UNCHANGED faults
       \/ /\ Fault
          /\ \E k \in 0 .. Len(files[n]) - 1 :
                files' = [files EXCEPT ![m] = SubSeq(files[n], 1, k)]
    /\ logged' = IF m = Cfg THEN NoConfig ELSE logged
    /\ UNCHANGED <<config, handle, pc, safe>>

\* cmd_lfs_format
FormatAll ==
    /\ pc = "run" /\ Step
    /\ files' = [n \in Name |-> Absent] /\ logged' = NoConfig
    /\ UNCHANGED <<config, handle, pc, safe, faults>>

\* A reset or power loss at any place; safe mode may be set or cleared by
\* whoever programs the device
Reset ==
    /\ Fault /\ pc' = "mount"
    /\ handle' = Absent /\ safe' \in BOOLEAN
    /\ UNCHANGED <<config, files, logged, steps>>

Next ==
    \/ Mount \/ MountFails \/ ReadConfig \/ ReadFails \/ Change
    \/ Save \/ SaveFails \/ Open
    \/ Write \/ WriteFails \/ Close \/ CloseFails
    \/ \E n \in Name : Delete(n)
    \/ \E n, m \in Name : Rename(n, m) \/ Copy(n, m)
    \/ FormatAll \/ Reset

Spec == Init /\ [][Next]_vars

-------------------------------------------------------------------------------
(***************************************************************************)
(* The bytes keep the promise of whole configurations (SavedConfig): with  *)
(* a reset or an error at any place, brickpico.cfg parses to the           *)
(* configuration of the last save that reached its end, whatever rest of   *)
(* longer documents lies behind it, or to what a file command put there,   *)
(* and a start that meets no error takes it unless it is in safe mode.     *)
(***************************************************************************)
On == pc \notin {"mount", "read"}
Stored == [n \in Name |-> Parse(files[n])]

Saving ==
    IF pc \notin {"open", "write", "close"} THEN "no"
    ELSE IF handle = Broken THEN "failed" ELSE "yes"

Promise ==
    INSTANCE SavedConfig WITH stored <- Stored, on <- On, saving <- Saving
KeepsPromise == Promise!Spec

(***************************************************************************)
(* commands.md of CONFigure:SAVe: "Save current configuration into flash   *)
(* memory"; what the program logs as successfully saved is in the file.    *)
(***************************************************************************)
SavedAsLogged ==
    pc = "run" /\ logged # NoConfig => Parse(files[Cfg]) = logged

===============================================================================
