----------------------------- MODULE SavedConfig -----------------------------
(***************************************************************************)
(* What CONFigure:SAVe and the file commands promise, without bytes: every *)
(* file holds one whole configuration or none, and a start of the device   *)
(* that meets no fault takes the one in the configuration file, or the     *)
(* default.                                                                *)
(***************************************************************************)
EXTENDS Naturals

CONSTANTS
    Name, Cfg,          \* file names, and the configuration's
    Config, Default,    \* configurations, and the one of clear_config
    NoConfig

VARIABLES
    config,             \* the configuration in use
    stored,             \* the configuration that each file holds
    on, safe,           \* the device runs; it is set to start in safe mode
    saving,             \* a save is under way: "no", "yes" or "failed"
    faults              \* how many errors and losses of power there were

vars == <<config, stored, on, safe, saving, faults>>

Init ==
    /\ stored = [n \in Name |-> NoConfig]
    /\ on = FALSE /\ safe \in BOOLEAN /\ config = Default
    /\ saving = "no" /\ faults = 0

Idle == on /\ saving = "no"

Change ==
    /\ Idle /\ config' \in Config
    /\ UNCHANGED <<stored, on, safe, saving, faults>>

StartSave ==
    /\ Idle /\ saving' = "yes"
    /\ UNCHANGED <<config, stored, on, safe, faults>>

\* A save that met no error has saved
EndSave ==
    /\ saving = "yes" /\ saving' = "no"
    /\ stored' = [stored EXCEPT ![Cfg] = config]
    /\ UNCHANGED <<config, on, safe, faults>>

\* One that did leaves what was there, at once or at its end
SaveError ==
    /\ saving = "yes" /\ saving' \in {"no", "failed"}
    /\ faults' > faults
    /\ UNCHANGED <<config, stored, on, safe>>

EndFailedSave ==
    /\ saving = "failed" /\ saving' = "no" /\ faults' >= faults
    /\ UNCHANGED <<config, stored, on, safe>>

\* A new file takes what another one holds
Copy ==
    /\ Idle
    /\ \E n, m \in Name :
          stored[m] = NoConfig /\ stored' = [stored EXCEPT ![m] = stored[n]]
    /\ faults' >= faults
    /\ UNCHANGED <<config, on, safe, saving>>

Rename ==
    /\ Idle
    /\ \E n, m \in Name :
          n # m /\ stored' = [stored EXCEPT ![m] = stored[n], ![n] = NoConfig]
    /\ UNCHANGED <<config, on, safe, saving, faults>>

Remove ==
    /\ Idle
    /\ \E n \in Name : stored' = [stored EXCEPT ![n] = NoConfig]
    /\ UNCHANGED <<config, on, safe, saving, faults>>

Format ==
    /\ Idle /\ stored' = [n \in Name |-> NoConfig]
    /\ UNCHANGED <<config, on, safe, saving, faults>>

Stop ==
    /\ on' = FALSE /\ safe' \in BOOLEAN /\ saving' = "no"
    /\ faults' >= faults
    /\ UNCHANGED <<config, stored>>

\* In safe mode the default is taken whatever is stored
Start ==
    /\ ~on /\ on' = TRUE
    /\ config' = IF safe \/ stored[Cfg] = NoConfig THEN Default ELSE stored[Cfg]
    /\ UNCHANGED <<stored, safe, saving, faults>>

\* An error at the start: the file system is made anew, or the configuration
\* in it is not taken
StartError ==
    /\ ~on /\ faults' > faults
    /\ \/ /\ stored' = [n \in Name |-> NoConfig]
          /\ UNCHANGED <<config, on>>
       \/ /\ on' = TRUE /\ config' = Default
          /\ UNCHANGED stored
    /\ UNCHANGED <<safe, saving>>

Next ==
    \/ Change \/ StartSave \/ EndSave \/ SaveError \/ EndFailedSave
    \/ Copy \/ Rename \/ Remove \/ Format
    \/ Stop \/ Start \/ StartError

Spec == Init /\ [][Next]_vars

===============================================================================
