------------------------------- MODULE Network -------------------------------
(***************************************************************************)
(* The start of the network and what follows from it (src/network.c,       *)
(* src/syslog.c): wifi_init in setup, step by step, against lwIP's         *)
(* callbacks for the link, the lease and the time, which interrupt it;     *)
(* wifi_poll in the main loop; and with them the MQTT client, which        *)
(* wifi_poll sets up and polls.                                            *)
(*                                                                         *)
(* lwIP's lock keeps the callbacks out of the sections that hold it, so    *)
(* each of those is one step.  Web, telnet and SSH servers are started on  *)
(* the way (start_services); nothing here depends on them.                 *)
(***************************************************************************)
EXTENDS MqttClient, SequencesExt

CONSTANTS
    Configurations  \* the settings to start with, one of which is chosen

\* static: an IP address is configured; sync: wifi_mode is 1; log, ntp, zone: a
\* syslog server, an NTP server, a time zone is configured; offers: what the
\* DHCP server may send, acks: how often (a bound)
ASSUME ConfigurationsAssumption ==
    \A c \in Configurations :
        /\ {c.static, c.sync, c.log, c.ntp, c.zone, c.mqtt, c.ssid, c.passwd}
                \subseteq BOOLEAN
        /\ c.acks \in Nat /\ c.auth \in STRING

VARIABLES
    settings,       \* brickpico_config, as far as the network needs it
    npc,            \* core0's place in setup, then "run"
    tries,          \* synchronous attempts that failed
    wifiInit,       \* wifi_initialized
    trying,         \* the radio looks for the access point
    address,        \* the interface's IP address, or None
    netInit,        \* network_initialized
    syslogServer,   \* syslog_server
    syslog,         \* the server the syslog was opened for, Closed or Lost
    ntp, ntpDhcp,   \* SNTP's server, and whether DHCP may set it
    tz,             \* the time zone in the environment
    clock,          \* the RTC runs
    announced,      \* init_msg_sent
    offers,         \* history: what DHCP offered, lease by lease
    late            \* history: the network came up after CopySyslogServer

setupVars == <<settings, npc, tries, wifiInit, trying>>
servers == <<syslogServer, syslog, ntp, ntpDhcp, tz, clock>>
net == <<setupVars, address, netInit, servers, announced, offers, late>>
nvars == <<vars, net>>

Zero == "0.0.0.0"
Own == "configured"
Closed == "closed"
Lost == "lost"
Retries == 2

\* wifi_get_auth_type: a name it does not know means the default
AuthType(name) == IF name = "OPEN" THEN "open" ELSE "secured"

NInit ==
    /\ Init
    /\ settings \in Configurations
    /\ npc = "arch" /\ tries = 0 /\ wifiInit = FALSE /\ trying = FALSE
    /\ address = None /\ netInit = FALSE
    /\ syslogServer = Zero /\ syslog = Closed
    /\ ntp = None /\ ntpDhcp = FALSE /\ tz = None /\ clock = FALSE
    /\ announced = FALSE /\ offers = <<>> /\ late = FALSE

-------------------------------------------------------------------------------
(* lwIP's callbacks *)

\* The last line of wifi_init has run
Copied == npc \in {"zone", "run"} /\ wifiInit

\* syslog_open may find no memory or no port
OpenSyslog ==
    \/ syslog' = syslogServer' /\ UNCHANGED faults
    \/ Fault /\ syslog' = Lost

\* Mutant: the syslog is opened again whenever the address changes
StatusUpAgain == netInit' = TRUE /\ late' = (late \/ Copied) /\ OpenSyslog

\* wifi_status_cb: the first time, it opens the syslog for syslog_server; a
\* failure is not tried again
StatusUp ==
    IF netInit THEN UNCHANGED <<netInit, syslog, late, faults>>
    ELSE netInit' = TRUE /\ late' = Copied /\ OpenSyslog

\* wifi_link_cb
LinkUp ==
    /\ trying /\ ~joined /\ joined' = TRUE
    /\ UNCHANGED <<mqtt, net>>

\* pico_dhcp_option_add_hook: lwIP's request, with two more parameters to list
AddHook(options) ==
    [i \in 1 .. Len(options) |->
        IF options[i].code = 55
        THEN [options[i] EXCEPT !.data = @ \o <<7, 100>>] ELSE options[i]]

LwipRequest == <<[code |-> 53, data |-> <<3>>],
                 [code |-> 55, data |-> <<1, 3, 28, 6, 42>>]>>

Asked(code) ==
    \E i \in 1 .. Len(LwipRequest) :
        LET option == AddHook(LwipRequest)[i]
        IN  option.code = 55 /\ Contains(option.data, code)

\* A server answers what it was asked for
Answer(o) ==
    [log  |-> IF Asked(7) THEN o.log ELSE Zero,
     ntp  |-> IF Asked(42) THEN o.ntp ELSE None,
     zone |-> IF Asked(100) THEN o.zone ELSE None]

\* Mutant: the time zone is taken whatever is configured
ParseHookAnyZone(o) ==
    /\ syslogServer' = IF syslogServer = Zero THEN o.log ELSE syslogServer
    /\ tz' = IF o.zone = None THEN tz ELSE o.zone

\* pico_dhcp_option_parse_hook
ParseHook(o) ==
    /\ syslogServer' = IF syslogServer = Zero THEN o.log ELSE syslogServer
    /\ tz' = IF o.zone = None \/ settings.zone THEN tz ELSE o.zone

\* An acknowledged lease, the first or a renewal: lwIP reads the options, takes
\* the time server if it may, and then sets the address
DhcpAck ==
    /\ joined /\ ~settings.static
    /\ Len(offers) < settings.acks
    /\ \E offer \in settings.offers :
        LET o == Answer(offer)
        IN  /\ ParseHook(o)
            /\ ntp' = IF ntpDhcp /\ o.ntp # None THEN o.ntp ELSE ntp
            /\ offers' = Append(offers, o)
    /\ address' \in {"a1", "a2"}
    /\ IF address' # address THEN StatusUp
                             ELSE UNCHANGED <<netInit, syslog, late, faults>>
    /\ UNCHANGED <<joined, link, queue, report, pc, ha>>
    /\ UNCHANGED <<setupVars, ntpDhcp, clock, announced>>

\* SNTP's answer: pico_set_system_time starts the clock
SntpAnswer ==
    /\ joined /\ address # None /\ ntp # None /\ ~clock
    /\ clock' = TRUE
    /\ UNCHANGED <<vars, setupVars, address, netInit, syslogServer, syslog>>
    /\ UNCHANGED <<ntp, ntpDhcp, tz, announced, offers, late>>

-------------------------------------------------------------------------------
(* wifi_init, on core0 *)

Leave(from, to) == npc = from /\ npc' = to

\* wifi_init returns early: setup goes on without a network
GiveUp(from) ==
    /\ Leave(from, "zone")
    /\ UNCHANGED <<settings, tries, wifiInit, servers, announced, offers, late>>

ArchInit ==
    /\ Leave("arch", "configure")
    /\ UNCHANGED <<vars, settings, tries, wifiInit, trying, address, netInit>>
    /\ UNCHANGED <<servers, announced, offers, late>>

ArchFails ==
    /\ GiveUp("arch") /\ Fault
    /\ UNCHANGED <<joined, link, queue, report, pc, ha, trying, address, netInit>>

\* netif_set_addr calls wifi_status_cb there and then
Configure ==
    /\ Leave("configure", "mac")
    /\ IF settings.static
       THEN address' = "a1" /\ syslogServer' = syslogServer /\ StatusUp
       ELSE UNCHANGED <<address, syslogServer, netInit, syslog, late, faults>>
    /\ UNCHANGED <<joined, link, queue, report, pc, ha, settings, tries>>
    /\ UNCHANGED <<wifiInit, trying, ntp, ntpDhcp, tz, clock, announced, offers>>

GetMac ==
    /\ Leave("mac", "join")
    /\ UNCHANGED <<vars, settings, tries, wifiInit, trying, address, netInit>>
    /\ UNCHANGED <<servers, announced, offers, late>>

\* cyw43_arch_deinit removes the interface
MacFails ==
    /\ GiveUp("mac") /\ Fault
    /\ address' = None
    /\ UNCHANGED <<joined, link, queue, report, pc, ha, trying, netInit>>

MayJoin ==
    settings.ssid /\ (settings.passwd \/ AuthType(settings.auth) = "open")

\* No SSID, or no password where one is needed
JoinRefused ==
    /\ GiveUp("join") /\ ~MayJoin
    /\ UNCHANGED <<vars, trying, address, netInit>>

\* The call that starts to connect fails
JoinFails ==
    /\ GiveUp("join") /\ MayJoin /\ ~settings.sync /\ Fault
    /\ UNCHANGED <<joined, link, queue, report, pc, ha, trying, address, netInit>>

\* cyw43_arch_wifi_connect_async
JoinAsync ==
    /\ Leave("join", "services") /\ MayJoin /\ ~settings.sync
    /\ trying' = TRUE /\ wifiInit' = TRUE
    /\ UNCHANGED <<vars, settings, tries, address, netInit, servers>>
    /\ UNCHANGED <<announced, offers, late>>

\* cyw43_arch_wifi_connect_timeout_ms waits for the link and an address ...
JoinSync ==
    /\ Leave("join", "wait") /\ MayJoin /\ settings.sync
    /\ trying' = TRUE
    /\ UNCHANGED <<vars, settings, tries, wifiInit, address, netInit, servers>>
    /\ UNCHANGED <<announced, offers, late>>

JoinedInTime ==
    /\ Leave("wait", "services") /\ joined /\ address # None
    /\ wifiInit' = TRUE
    /\ UNCHANGED <<vars, settings, tries, trying, address, netInit, servers>>
    /\ UNCHANGED <<announced, offers, late>>

\* ... and gives up after two times 30 seconds.  The radio goes on trying.
JoinTimeout ==
    /\ Fault
    /\ tries' = tries + 1
    /\ Leave("wait", IF tries' < Retries THEN "wait" ELSE "zone")
    /\ UNCHANGED <<joined, link, queue, report, pc, ha, settings, wifiInit>>
    /\ UNCHANGED <<trying, address, netInit, servers, announced, offers, late>>

\* SNTP and the servers, under lwIP's lock
StartServices ==
    /\ Leave("services", "copy")
    /\ IF settings.ntp THEN ntp' = Own /\ UNCHANGED ntpDhcp
                       ELSE ntpDhcp' = TRUE /\ UNCHANGED ntp
    /\ UNCHANGED <<vars, settings, tries, wifiInit, trying, address, netInit>>
    /\ UNCHANGED <<syslogServer, syslog, tz, clock, announced, offers, late>>

\* The last line of wifi_init
CopySyslogServer ==
    /\ Leave("copy", "zone")
    /\ syslogServer' = IF settings.log THEN Own ELSE Zero
    /\ UNCHANGED <<vars, settings, tries, wifiInit, trying, address, netInit>>
    /\ UNCHANGED <<syslog, ntp, ntpDhcp, tz, clock, announced, offers, late>>

\* setup goes on; the main loop begins
SetTimezone ==
    /\ Leave("zone", "run")
    /\ tz' = IF settings.zone THEN Own ELSE tz
    /\ UNCHANGED <<vars, settings, tries, wifiInit, trying, address, netInit>>
    /\ UNCHANGED <<syslogServer, syslog, ntp, ntpDhcp, clock>>
    /\ UNCHANGED <<announced, offers, late>>

-------------------------------------------------------------------------------
(* wifi_poll, in core0's main loop *)

\* Mutant: it does not wait for network_initialized
OnlineUnasked == npc = "run" /\ wifiInit

Online == npc = "run" /\ wifiInit /\ netInit

\* Two seconds after the network came up: the message, and the MQTT client
Announcement ==
    /\ Online /\ ~announced
    /\ announced' = TRUE
    /\ IF settings.mqtt THEN Setup /\ UNCHANGED joined ELSE UNCHANGED vars
    /\ UNCHANGED <<setupVars, address, netInit, servers, offers, late>>

\* brickpico_mqtt_poll, once there is a client; lwIP calls the client's
\* callbacks at any time
Mqtt == Run /\ UNCHANGED <<joined, net>>

StartStep ==
    \/ ArchInit \/ ArchFails \/ Configure \/ GetMac \/ MacFails
    \/ JoinRefused \/ JoinFails \/ JoinAsync \/ JoinSync
    \/ JoinedInTime \/ JoinTimeout
    \/ StartServices \/ CopySyslogServer \/ SetTimezone

NNext ==
    \/ StartStep \/ LinkUp \/ DhcpAck \/ SntpAnswer \/ Announcement
    \/ Mqtt

\* setup and the main loop run; there is an access point, a DHCP server and a
\* time server that answer in the end; MQTT as in MqttClient: the main loop
\* polls for ever, a delay that has begun ends, and lwIP comes to a result of
\* every attempt, a good one once the faults are over
StillNet == UNCHANGED <<joined, net>>

NFairness ==
    /\ WF_nvars(StartStep) /\ WF_nvars(LinkUp)
    /\ WF_nvars(offers = <<>> /\ DhcpAck)
    /\ WF_nvars(SntpAnswer) /\ WF_nvars(Announcement)
    /\ WF_nvars(PollStep /\ StillNet) /\ WF_nvars(Reconnect /\ StillNet)
    /\ SF_nvars(DiscoveryDue /\ StillNet) /\ SF_nvars(RunCommand /\ StillNet)
    /\ WF_nvars(DnsFound /\ StillNet) /\ WF_nvars(Accepted /\ StillNet)

NSpec == NInit /\ [][NNext]_nvars /\ NFairness

-------------------------------------------------------------------------------
FirstLog == IF offers = <<>> THEN Zero ELSE offers[1].log

(***************************************************************************)
(* Without a configured server the syslog goes to the one of the first     *)
(* lease ("Set to 0.0.0.0 to use server provided by DHCP"), whatever later *)
(* leases offer; with one, no lease keeps it from the configured server    *)
(* when the network comes up after wifi_init's last line.  What happens    *)
(* when it comes up before: ConfiguredSyslogUsed.                          *)
(***************************************************************************)
SyslogServerChosen ==
    syslog \notin {Closed, Lost} =>
        IF settings.log THEN late => syslog = Own ELSE syslog = FirstLog

(***************************************************************************)
(* commands.md, SYStem:WIFI:SYSLOG: "Configure IP for Syslog server to     *)
(* use".  With a static address or a synchronous connection the network    *)
(* comes up, and opens the syslog, before wifi_init's last line copies the *)
(* configured server: it opens it for the server of DHCP or for none.      *)
(***************************************************************************)
ConfiguredSyslogUsed ==
    settings.log /\ syslog \notin {Closed, Lost} => syslog = Own

\* z is the zone of the last of the offers that had one, or there was none
LastZone(z) ==
    \E n \in 0 .. Len(offers) :
        /\ \A i \in n + 1 .. Len(offers) : offers[i].zone = None
        /\ IF n = 0 THEN z = None ELSE offers[n].zone # None /\ z = offers[n].zone

(***************************************************************************)
(* A configured time server and time zone win over DHCP's, whenever the    *)
(* leases come; without them, the last zone that DHCP offered is in force. *)
(***************************************************************************)
ConfiguredWins ==
    npc = "run" =>
        /\ wifiInit /\ settings.ntp => ntp = Own
        /\ IF settings.zone THEN tz = Own ELSE LastZone(tz)

(***************************************************************************)
(* The order of the start strands nobody: the MQTT client is given up for  *)
(* good only after a fault, except with a static address, which counts as  *)
(* a network before the radio has found one.                               *)
(***************************************************************************)
StrandedOnlyByFaults ==
    why \notin {None, "unset"} => faults > 0 \/ settings.static

(***************************************************************************)
(* In the end the start is over and has set up what is configured: the     *)
(* clock is set if there is a time server, the MQTT client is connected    *)
(* for good, its queue empty and Home Assistant told everything; unless    *)
(* wifi_init gave up, or the client is stranded.                           *)
(***************************************************************************)
Settled ==
    /\ npc = "run"
    /\ wifiInit =>
        /\ announced
        /\ ntp # None => clock
        /\ IF settings.mqtt THEN AtRest \/ why # None ELSE why = "unset"

ComesToRest == <>[]Settled

===============================================================================
