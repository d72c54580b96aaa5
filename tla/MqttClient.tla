------------------------------ MODULE MqttClient ------------------------------
(***************************************************************************)
(* The MQTT client (src/mqtt.c): connecting and retrying, Home Assistant's *)
(* discovery and state messages, and the one-place queue for commands.     *)
(*                                                                         *)
(* brickpico_mqtt_poll runs in core0's main loop, step by step here; lwIP  *)
(* calls the client's callbacks in an interrupt, between any two steps.    *)
(* Seconds are left out: a delay that has begun may be over at any poll.   *)
(* When there is a network, and the client is set up, is module Network's. *)
(***************************************************************************)
EXTENDS Integers, FiniteSets

CONSTANTS
    HaEnabled,      \* mqtt_ha_discovery_prefix and mqtt_status_interval are
                    \* set, mqtt_status_topic is not
    Message,        \* commands published to mqtt_cmd_topic
    Forbidden,      \* those that mqtt_allow_scpi and "WRITE:" rule out
    MaxFaults,      \* bound: failures of the network, the server or a call
    MaxHa           \* bound: messages from Home Assistant

ASSUME MqttAssumption ==
    /\ HaEnabled \in BOOLEAN /\ Forbidden \subseteq Message
    /\ MaxFaults \in Nat /\ MaxHa \in Nat

VARIABLES
    joined,         \* the Wi-Fi link is up: lwIP has a route
    conn,           \* lwIP's client: "down", "resolving", "connecting", "up"
    status,         \* mqtt_client_status: accepted, or not
    reconnect,      \* mqtt_reconnect: seconds until the next attempt, or 0
    why,            \* history: why there is no attempt and no retry, or None
    discovery,      \* mqtt_ha_discovery: seconds until it is sent, or 0
    statusNow,      \* publish_status_t = 0: publish at the next poll
    cmd, queued,    \* mqtt_scpi_cmd and mqtt_scpi_cmd_queued
    pc,             \* the main loop's place in brickpico_mqtt_poll
    running,        \* the command process_command was given
    left,           \* the messages not published yet
    runs,           \* history: how often each message was executed
    owed,           \* history: what Home Assistant has yet to be told
    faults, ha      \* events so far

link == <<conn, status, reconnect, why>>
queue == <<cmd, queued, running, left, runs>>
report == <<discovery, statusNow, owed>>
mqtt == <<link, queue, report, pc, faults, ha>>
vars == <<joined, mqtt>>

None == "none"
Delays == {15, 30, 90, 180}

\* mqtt_client is NULL
Init ==
    /\ joined = FALSE
    /\ conn = "down" /\ status = FALSE /\ reconnect = 0 /\ why = "unset"
    /\ discovery = 0 /\ statusNow = FALSE
    /\ cmd = None /\ queued = FALSE /\ running = None
    /\ left = Message /\ runs = [m \in Message |-> 0]
    /\ owed = {} /\ pc = "idle"
    /\ faults = 0 /\ ha = 0

Fault == faults < MaxFaults /\ faults' = faults + 1

-------------------------------------------------------------------------------
(* mqtt_connect, from the main loop or from mqtt_dns_resolve_cb *)

\* The name is known or being looked up.  A name can be asked for without a
\* link, but not answered; a connection needs one.
Begun ==
    /\ conn' \in {"resolving"} \cup (IF joined THEN {"connecting"} ELSE {})
    /\ why' = None /\ UNCHANGED faults

\* The lookup, or the call that connects, fails at once
FailedAtOnce ==
    /\ IF joined THEN Fault ELSE UNCHANGED faults
    /\ conn' = "down" /\ why' \in {"lookup", "dial"}

\* Mutant: an attempt that has begun keeps the retry
ConnectKeepingRetry ==
    /\ discovery' = 0 /\ UNCHANGED reconnect
    /\ Begun \/ FailedAtOnce

\* Nothing retries what fails at once
Connect ==
    /\ reconnect' = 0 /\ discovery' = 0
    /\ Begun \/ FailedAtOnce

\* brickpico_setup_mqtt_client, which is called once: mqtt_client_new may have
\* no memory
Setup ==
    /\ why = "unset"
    /\ \/ Connect
       \/ Fault /\ why' = "memory" /\ UNCHANGED <<conn, reconnect, discovery>>
    /\ UNCHANGED <<status, statusNow, owed, queue, pc, ha>>

\* mqtt_dns_resolve_cb: the name is resolved (and now cached) ...
DnsFound ==
    /\ joined /\ conn = "resolving" /\ Connect /\ conn' # "resolving"
    /\ UNCHANGED <<status, statusNow, owed, queue, pc, ha>>

\* ... or not
DnsFailed ==
    /\ conn = "resolving" /\ Fault
    /\ conn' = "down" /\ reconnect' = 30
    /\ UNCHANGED <<status, why, report, queue, pc, ha>>

\* brickpico_mqtt_reconnect, and nothing else in that poll
Reconnect ==
    /\ pc = "idle" /\ reconnect > 0
    /\ Connect
    /\ UNCHANGED <<status, statusNow, owed, queue, pc, ha>>

-------------------------------------------------------------------------------
(* mqtt_connection_cb *)

\* Mutant: the retry is forgotten
CloseForgetful(delay) ==
    /\ conn' = "down" /\ status' = FALSE
    /\ UNCHANGED reconnect

\* The delay by status; a refused login leaves mqtt_reconnect alone
Close(delay) ==
    /\ conn' = "down" /\ status' = FALSE
    /\ reconnect' = IF delay = 0 THEN reconnect ELSE delay

Accepted ==
    /\ conn = "connecting"
    /\ conn' = "up" /\ status' = TRUE
    /\ IF HaEnabled
       THEN discovery' = 5 /\ owed' = owed \cup {"device"}
       ELSE UNCHANGED <<discovery, owed>>
    /\ UNCHANGED <<reconnect, why, statusNow, queue, pc, faults, ha>>

\* Timeout, no permission, another refusal, or the connection breaks
Refused ==
    /\ conn = "connecting" /\ Fault
    /\ \E delay \in Delays : Close(delay)
    /\ UNCHANGED <<why, report, queue, pc, ha>>

LoginRefused ==
    /\ conn = "connecting" /\ Fault
    /\ Close(0) /\ why' = "login"
    /\ UNCHANGED <<report, queue, pc, ha>>

Disconnected ==
    /\ conn = "up" /\ Fault
    /\ Close(15)
    /\ UNCHANGED <<why, report, queue, pc, ha>>

-------------------------------------------------------------------------------
(* mqtt_incoming_publish_cb and mqtt_incoming_data_cb *)

\* Mutant: a second command replaces the first
QueueAlways(m) ==
    /\ cmd' = m /\ queued' = TRUE

\* The queue has one place: when it is taken the command is answered "full"
Queue(m) ==
    IF queued THEN UNCHANGED <<cmd, queued>>
    ELSE cmd' = m /\ queued' = TRUE

CommandArrives(m) ==
    /\ conn = "up" /\ m \in left
    /\ left' = left \ {m}
    /\ IF m \in Forbidden THEN UNCHANGED <<cmd, queued>> ELSE Queue(m)
    /\ UNCHANGED <<link, report, running, runs, pc, faults, ha>>

FromHa == conn = "up" /\ HaEnabled /\ ha < MaxHa /\ ha' = ha + 1

\* incoming_ha_status: "online", Home Assistant has started and knows nothing
HaOnline ==
    /\ FromHa
    /\ discovery' = 1 /\ owed' = owed \cup {"device"}
    /\ UNCHANGED <<link, statusNow, queue, pc, faults>>

\* incoming_ha_cmd sets the output, and asks for a state message
HaCommand ==
    /\ FromHa
    /\ statusNow' = TRUE /\ owed' = owed \cup {"state"}
    /\ UNCHANGED <<link, discovery, queue, pc, faults>>

-------------------------------------------------------------------------------
(* brickpico_mqtt_poll *)

Goto(from, to) == pc = from /\ pc' = to

\* Not connected: the poll returns, as far as the status says
Poll ==
    /\ Goto("idle", "discovery") /\ status
    /\ UNCHANGED <<link, report, queue, faults, ha>>

NoDiscovery ==
    /\ Goto("discovery", "command")
    /\ UNCHANGED <<link, report, queue, faults, ha>>

DiscoveryDue ==
    /\ Goto("discovery", "clear") /\ discovery > 0
    /\ UNCHANGED <<link, report, queue, faults, ha>>

ClearDiscovery ==
    /\ Goto("clear", "announce")
    /\ discovery' = 0
    /\ UNCHANGED <<link, statusNow, owed, queue, faults, ha>>

\* brickpico_mqtt_ha_discovery: mqtt_publish_message does nothing when the
\* connection is gone; a state message is to follow.  (That memory for the
\* message, or room in lwIP, runs out is not modelled: it would be forgotten.)
Announce ==
    /\ Goto("announce", "command")
    /\ statusNow' = TRUE
    /\ owed' = IF conn = "up" THEN owed \ {"device"} ELSE owed
    /\ UNCHANGED <<link, discovery, queue, faults, ha>>

NoCommand ==
    /\ Goto("command", "status")
    /\ UNCHANGED <<link, report, queue, faults, ha>>

\* brickpico_mqtt_scpi_command: a copy of the command is executed, ...
RunCommand ==
    /\ Goto("command", "respond") /\ queued
    /\ running' = cmd
    /\ runs' = [runs EXCEPT ![cmd] = @ + 1]
    /\ UNCHANGED <<link, report, cmd, queued, left, faults, ha>>

\* ... the response names mqtt_scpi_cmd itself, ...
Respond ==
    /\ Goto("respond", "unqueue")
    /\ UNCHANGED <<link, report, queue, faults, ha>>

\* Mutant: the flag stays
UnqueueNothing ==
    /\ Goto("unqueue", "status")
    /\ running' = None
    /\ UNCHANGED <<link, report, cmd, queued, left, runs, faults, ha>>

\* ... and the place is free again
Unqueue ==
    /\ Goto("unqueue", "status")
    /\ cmd' = None /\ queued' = FALSE /\ running' = None
    /\ UNCHANGED <<link, report, left, runs, faults, ha>>

NoStatus ==
    /\ Goto("status", "duty") /\ ~statusNow
    /\ UNCHANGED <<link, report, queue, faults, ha>>

\* time_passed(&publish_status_t, ...) holds, at once or after the interval ...
StatusDue ==
    /\ Goto("status", "stamp")
    /\ UNCHANGED <<link, report, queue, faults, ha>>

\* ... and stores the present time
Stamp ==
    /\ Goto("stamp", "build")
    /\ statusNow' = FALSE
    /\ UNCHANGED <<link, discovery, owed, queue, faults, ha>>

\* brickpico_mqtt_publish: a message with the outputs as they are now ...
Build ==
    /\ Goto("build", "send")
    /\ owed' = owed \ {"state"}
    /\ UNCHANGED <<link, discovery, statusNow, queue, faults, ha>>

\* Mutant: the time is stored after the message was sent
SendStamping ==
    /\ Goto("send", "duty")
    /\ statusNow' = FALSE
    /\ owed' = IF conn = "up" THEN owed ELSE owed \cup {"state"}
    /\ UNCHANGED <<link, discovery, queue, faults, ha>>

\* ... which is lost when the connection is
Send ==
    /\ Goto("send", "duty")
    /\ owed' = IF conn = "up" THEN owed ELSE owed \cup {"state"}
    /\ UNCHANGED <<link, discovery, statusNow, queue, faults, ha>>

\* brickpico_mqtt_publish_duty and _temp, when it is their time: messages that
\* nobody waits for
PublishDuty ==
    /\ Goto("duty", "temp")
    /\ UNCHANGED <<link, report, queue, faults, ha>>

PublishTemp ==
    /\ Goto("temp", "idle")
    /\ UNCHANGED <<link, report, queue, faults, ha>>

PollStep ==
    \/ Poll \/ NoDiscovery \/ DiscoveryDue \/ ClearDiscovery \/ Announce
    \/ NoCommand \/ RunCommand \/ Respond \/ Unqueue
    \/ NoStatus \/ StatusDue \/ Stamp \/ Build \/ Send
    \/ PublishDuty \/ PublishTemp

\* Everything but the start
Run ==
    \/ DnsFound \/ DnsFailed \/ Accepted \/ Refused \/ LoginRefused
    \/ Disconnected
    \/ \E m \in Message : CommandArrives(m)
    \/ HaOnline \/ HaCommand
    \/ Reconnect \/ PollStep

-------------------------------------------------------------------------------
(***************************************************************************)
(* One attempt at a time, and always one to come: either there is a        *)
(* connection or an attempt, or a retry is scheduled (so that              *)
(* brickpico_mqtt_reconnect never cuts off a connection that works), or    *)
(* the client is given up: not set up yet, login refused, or a call of     *)
(* mqtt_connect failed at once (from there only a reboot leads on, as      *)
(* nothing sets the delay).  The poll takes the client for connected       *)
(* exactly while it is.                                                    *)
(***************************************************************************)
OneAttempt ==
    /\ reconnect > 0 => conn = "down"
    /\ why # None <=> conn = "down" /\ reconnect = 0
    /\ status <=> conn = "up"

(***************************************************************************)
(* While a command is executed and answered it stays in mqtt_scpi_cmd,     *)
(* whatever arrives meanwhile: the response names the command it is about. *)
(***************************************************************************)
RunningCommandKept == pc \in {"respond", "unqueue"} => cmd = running

(***************************************************************************)
(* A command is executed once at most, however often the connection breaks *)
(* and comes back, and never when it is not allowed.                       *)
(***************************************************************************)
RunOnce == \A m \in Message : runs[m] <= IF m \in Forbidden THEN 0 ELSE 1

(***************************************************************************)
(* Nothing that Home Assistant waits for is forgotten: a discovery message *)
(* after it starts or the client connects, and the state after a command   *)
(* or a lost state message, is requested or being sent, although requests  *)
(* come while the main loop is between testing one and answering it.       *)
(***************************************************************************)
AnnouncePending == discovery > 0 \/ pc \in {"clear", "announce"}

NothingForgotten ==
    conn = "up" =>
        /\ "device" \in owed => AnnouncePending
        /\ "state" \in owed =>
                statusNow \/ pc \in {"stamp", "build", "send"} \/ AnnouncePending

\* Connected, with an empty queue and Home Assistant told everything
AtRest == conn = "up" /\ ~queued /\ owed = {}

===============================================================================
