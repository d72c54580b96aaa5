---------------------------- MODULE NetworkProofs ----------------------------
(***************************************************************************)
(* Proofs about Network and the MQTT client in it, for any configurations, *)
(* messages and bounds.                                                    *)
(*                                                                         *)
(* ClientInv holds of the client alone: OneAttempt as it stands, the queue *)
(* with what is true of the command in it before and while it runs, and    *)
(* NothingForgotten without the last step of a publication, which is not   *)
(* inductive.  NetInv adds the order in which the start sets the servers,  *)
(* Wins which of the two that may set one has done so.                     *)
(***************************************************************************)
EXTENDS Network, TLAPS

ClientTypes ==
    /\ reconnect \in Nat /\ discovery \in Nat
    /\ left \subseteq Message /\ runs \in [Message -> Nat]

\* The command that runs stays in its place; one that waits has never run
Place ==
    /\ pc \in {"respond", "unqueue"} => queued /\ cmd = running
    /\ queued => cmd \in Message \ Forbidden

EachOnce ==
    \A m \in Message :
        /\ runs[m] <= IF m \in Forbidden THEN 0 ELSE 1
        /\ m \in left => runs[m] = 0 /\ ~(queued /\ cmd = m)
        /\ queued /\ cmd = m /\ pc \notin {"respond", "unqueue"} => runs[m] = 0

Told ==
    HaEnabled /\ conn = "up" =>
        /\ "device" \in owed => AnnouncePending
        /\ "state" \in owed =>
                statusNow \/ pc \in {"stamp", "build"} \/ AnnouncePending

ClientInv == ClientTypes /\ OneAttempt /\ Place /\ EachOnce /\ Told

client == <<link, queue, report, pc>>

-------------------------------------------------------------------------------
(* The client *)

LEMMA ClientInit ==
    Init => ClientInv
<1> USE MqttAssumption DEF Init
<1>1. Init => ClientTypes /\ OneAttempt /\ Place
    BY DEF ClientTypes, OneAttempt, Place, None
<1>2. Init => EachOnce /\ Told
    BY DEF EachOnce, Told
<1> QED BY <1>1, <1>2 DEF ClientInv

LEMMA ClientIdle ==
    ClientInv /\ UNCHANGED client => ClientInv'
<1> SUFFICES ASSUME ClientInv, UNCHANGED client PROVE ClientInv'
    OBVIOUS
<1> USE DEF ClientInv, client, link, queue, report
<1>1. ClientTypes' /\ OneAttempt' /\ Place'
    BY DEF ClientTypes, OneAttempt, Place
<1>2. EachOnce' /\ Told'
    BY DEF EachOnce, Told, AnnouncePending
<1> QED BY <1>1, <1>2

\* A call of mqtt_connect where there is no attempt, or from one that goes on
LEMMA ConnectInv ==
    ASSUME ClientInv, Connect, status' = status, statusNow' = statusNow,
           owed' = owed, UNCHANGED queue, pc' = pc, conn # "up"
    PROVE  ClientInv'
<1> USE DEF ClientInv, queue, Connect, Begun, FailedAtOnce
<1>1. conn' # "up" /\ reconnect' = 0 /\ discovery' = 0
    OBVIOUS
<1>2. ClientTypes'
    BY <1>1 DEF ClientTypes
<1>3. OneAttempt'
    BY <1>1 DEF OneAttempt, None
<1>4. Place' /\ EachOnce' /\ Told'
    BY <1>1 DEF Place, EachOnce, Told
<1> QED BY <1>2, <1>3, <1>4

LEMMA SetupInv ==
    ClientInv /\ Setup => ClientInv'
<1> SUFFICES ASSUME ClientInv, Setup PROVE ClientInv'
    OBVIOUS
<1>1. conn = "down" /\ reconnect = 0
    BY DEF ClientInv, OneAttempt, Setup, None
<1>2. CASE Connect
    BY <1>1, <1>2, ConnectInv DEF Setup
<1>3. CASE why' = "memory" /\ UNCHANGED <<conn, reconnect, discovery>>
  <2> USE <1>1, <1>3 DEF ClientInv, Setup, queue
  <2>1. ClientTypes' /\ OneAttempt' /\ Place'
      BY DEF ClientTypes, OneAttempt, Place, None
  <2>2. EachOnce' /\ Told'
      BY DEF EachOnce, Told
  <2> QED BY <2>1, <2>2
<1> QED BY <1>2, <1>3 DEF Setup

\* What lwIP does to the connection
LEMMA LinkInv ==
    ASSUME ClientInv, DnsFound \/ DnsFailed \/ Accepted \/ Refused
                      \/ LoginRefused \/ Disconnected \/ Reconnect
    PROVE  ClientInv'
<1>1. CASE DnsFound
    BY <1>1, ConnectInv DEF DnsFound
<1>2. CASE Reconnect
  <2>1. conn # "up"
      BY <1>2 DEF ClientInv, OneAttempt, Reconnect
  <2> QED BY <1>2, <2>1, ConnectInv DEF Reconnect
<1>3. CASE Accepted
  <2> USE <1>3 DEF ClientInv, Accepted, queue
  <2>1. ClientTypes' /\ OneAttempt' /\ Place'
      BY DEF ClientTypes, OneAttempt, Place
  <2>2. EachOnce'
      BY DEF EachOnce
  <2>3. Told'
      BY DEF Told, AnnouncePending
  <2> QED BY <2>1, <2>2, <2>3
<1>4. CASE DnsFailed \/ Refused \/ LoginRefused \/ Disconnected
  <2> USE <1>4 DEF ClientInv, DnsFailed, Refused, LoginRefused, Disconnected,
                   Close, Delays, queue, report
  <2>1. conn' = "down" /\ conn # "down"
      OBVIOUS
  <2>2. ClientTypes'
      BY DEF ClientTypes
  <2>3. OneAttempt'
      BY <2>1 DEF OneAttempt, None, ClientTypes
  <2>4. Place' /\ EachOnce' /\ Told'
      BY <2>1 DEF Place, EachOnce, Told
  <2> QED BY <2>2, <2>3, <2>4
<1> QED BY <1>1, <1>2, <1>3, <1>4

\* What is published to it
LEMMA PublishedInv ==
    ASSUME ClientInv,
           HaOnline \/ HaCommand \/ \E m \in Message : CommandArrives(m)
    PROVE  ClientInv'
<1>1. CASE HaOnline \/ HaCommand
  <2> USE <1>1 DEF ClientInv, HaOnline, HaCommand, link, queue
  <2>1. ClientTypes' /\ OneAttempt' /\ Place'
      BY DEF ClientTypes, OneAttempt, Place
  <2>2. EachOnce'
      BY DEF EachOnce
  <2>3. Told'
      BY DEF Told, AnnouncePending
  <2> QED BY <2>1, <2>2, <2>3
<1>2. ASSUME NEW m \in Message, CommandArrives(m) PROVE ClientInv'
  <2> USE <1>2 DEF ClientInv, CommandArrives, Queue, link, report
  <2>1. ClientTypes' /\ OneAttempt'
      BY DEF ClientTypes, OneAttempt
  <2>2. Place'
      BY DEF Place
  <2>3. EachOnce'
      BY DEF EachOnce, Place
  <2>4. Told'
      BY DEF Told, AnnouncePending
  <2> QED BY <2>1, <2>2, <2>3, <2>4
<1> QED BY <1>1, <1>2

\* The steps of the poll that only move on
Moves == NoDiscovery \/ DiscoveryDue \/ NoCommand \/ Poll \/ Respond \/ NoStatus
         \/ StatusDue \/ PublishDuty \/ PublishTemp

LEMMA MovesInv ==
    ClientInv /\ Moves => ClientInv'
<1> SUFFICES ASSUME ClientInv, Moves PROVE ClientInv'
    OBVIOUS
<1> USE DEF ClientInv, Moves, NoDiscovery, DiscoveryDue, NoCommand, Poll, Respond,
            NoStatus, StatusDue, PublishDuty, PublishTemp, Goto, link, queue, report
<1>1. ClientTypes' /\ OneAttempt'
    BY DEF ClientTypes, OneAttempt
<1>2. Place'
    BY DEF Place
<1>3. EachOnce'
    BY DEF EachOnce
<1>4. Told'
    BY DEF Told, AnnouncePending
<1> QED BY <1>1, <1>2, <1>3, <1>4

\* The steps that answer: each clears a request before, or while, its answer
\* is on the way
LEMMA PollInv ==
    ClientInv /\ PollStep => ClientInv'
<1> SUFFICES ASSUME ClientInv, PollStep PROVE ClientInv'
    OBVIOUS
<1>1. CASE ClearDiscovery \/ Announce \/ Stamp \/ Build \/ Send
  <2> USE <1>1 DEF ClientInv, ClearDiscovery, Announce, Stamp, Build, Send, Goto,
                   link, queue
  <2>1. ClientTypes' /\ OneAttempt' /\ Place'
      BY DEF ClientTypes, OneAttempt, Place
  <2>2. EachOnce'
      BY DEF EachOnce
  <2>3. Told'
      BY DEF Told, AnnouncePending
  <2> QED BY <2>1, <2>2, <2>3
<1>2. CASE RunCommand
  <2> USE <1>2 DEF ClientInv, RunCommand, Goto, link, report
  <2>1. cmd \in Message /\ runs[cmd] = 0 /\ cmd \notin Forbidden
      BY DEF Place, EachOnce
  <2>2. \A m \in Message : runs'[m] = IF m = cmd THEN 1 ELSE runs[m]
      BY <2>1 DEF ClientTypes
  <2>3. ClientTypes' /\ OneAttempt'
      BY <2>1 DEF ClientTypes, OneAttempt
  <2>4. Place' /\ Told'
      BY DEF Place, Told, AnnouncePending
  <2>5. EachOnce'
      BY <2>1, <2>2 DEF EachOnce
  <2> QED BY <2>3, <2>4, <2>5
<1>3. CASE Unqueue
  <2> USE <1>3 DEF ClientInv, Unqueue, Goto, link, report
  <2>1. ClientTypes' /\ OneAttempt' /\ Place'
      BY DEF ClientTypes, OneAttempt, Place
  <2>2. EachOnce' /\ Told'
      BY DEF EachOnce, Told, AnnouncePending
  <2> QED BY <2>1, <2>2
<1> QED BY <1>1, <1>2, <1>3, MovesInv DEF PollStep, Moves

LEMMA RunInv ==
    ClientInv /\ Run => ClientInv'
<1> QED BY LinkInv, PublishedInv, PollInv DEF Run

-------------------------------------------------------------------------------
(* The network *)

Leases == {Answer(o) : o \in UNION {c.offers : c \in Configurations}}

NetTypes ==
    /\ settings \in Configurations /\ offers \in Seq(Leases)
    /\ faults \in Nat

\* Which part of wifi_init has run
Started ==
    /\ wifiInit => npc \in {"services", "copy", "zone", "run"}
    /\ npc \in {"services", "copy"} => wifiInit

\* A network without a lease is one with a static address
Leased ==
    /\ address # None => netInit
    /\ offers # <<>> => netInit /\ ~settings.static
    /\ netInit /\ offers = <<>> => settings.static
    /\ netInit => joined \/ settings.static

\* Until the first lease the server is the one wifi_init has copied, or none
ServerSoFar ==
    offers = <<>> =>
        syslogServer = IF Copied /\ settings.log THEN Own ELSE Zero

\* The client is set up, and looks for its server again, with a link
LinkFirst ==
    /\ why # "unset" => joined \/ settings.static
    /\ StrandedOnlyByFaults

\* Which server the syslog was opened for, in every case
SyslogSoFar ==
    syslog \notin {Closed, Lost} =>
        syslog = IF late /\ settings.log THEN Own ELSE FirstLog

NetInv ==
    /\ NetTypes /\ Started /\ Leased /\ ServerSoFar /\ LinkFirst
    /\ SyslogSoFar

Inv == ClientInv /\ NetInv

LEMMA NetInit ==
    NInit => NetInv
<1> USE DEF NInit, Init
<1>1. NInit => NetTypes /\ Started /\ Leased
    BY DEF NetTypes, Started, Leased, None
<1>2. NInit => ServerSoFar /\ LinkFirst /\ SyslogSoFar
    BY DEF ServerSoFar, Copied, LinkFirst, StrandedOnlyByFaults,
           SyslogSoFar
<1> QED BY <1>1, <1>2 DEF NetInv

\* wifi_status_cb leaves what it does to the syslog to this: the server is the
\* one that would be chosen
LEMMA StatusUpOpens ==
    ASSUME StatusUp, ~netInit
    PROVE  netInit' = TRUE /\ late' = Copied /\ syslog' \in {syslogServer', Lost}
<1> QED BY DEF StatusUp, OpenSyslog

LEMMA FaultsGrow ==
    ASSUME faults \in Nat, Fault \/ UNCHANGED faults
    PROVE  faults' \in Nat /\ (Fault => faults' > 0) /\ (faults > 0 => faults' > 0)
<1> QED BY DEF Fault

-------------------------------------------------------------------------------
\* A step of lwIP's that brings options: the first lease opens the syslog
LEMMA DhcpAckInv ==
    ASSUME NetInv, DhcpAck
    PROVE  NetInv'
<1> USE DEF NetInv, DhcpAck, setupVars, link, queue, report
<1>1. PICK o \in Leases : /\ ParseHook(o)
                          /\ offers' = Append(offers, o)
  <2>1. PICK offer \in settings.offers : /\ ParseHook(Answer(offer))
                                         /\ offers' = Append(offers, Answer(offer))
      OBVIOUS
  <2>2. Answer(offer) \in Leases
      BY DEF Leases, NetTypes
  <2> QED BY <2>1, <2>2
<1>2. offers' \in Seq(Leases) /\ offers' # <<>>
    BY <1>1 DEF NetTypes
<1>3. offers # <<>> => offers'[1] = offers[1]
    BY <1>1 DEF NetTypes
<1>4. offers = <<>> => offers'[1] = o
    BY <1>1
<1>5. address' # None
    BY DEF None
<1>6. Fault \/ UNCHANGED faults
    BY DEF StatusUp, OpenSyslog
<1>7. NetTypes'
    BY <1>2, <1>6, FaultsGrow DEF NetTypes
<1>8. netInit' = TRUE
    BY <1>5 DEF Leased, StatusUp
<1>9. Started' /\ Leased' /\ ServerSoFar'
    BY <1>2, <1>8 DEF Started, Leased, ServerSoFar
<1>10. LinkFirst'
    BY <1>6, <1>7, FaultsGrow DEF LinkFirst, StrandedOnlyByFaults, NetTypes
<1>11. SyslogSoFar'
  <2>1. CASE offers # <<>>
    <3>1. netInit /\ UNCHANGED <<syslog, late>>
        BY <2>1 DEF Leased, StatusUp
    <3> QED BY <1>2, <1>3, <2>1, <3>1 DEF SyslogSoFar, FirstLog
  <2>2. CASE offers = <<>>
    <3>1. ~netInit /\ address = None
        BY <2>2 DEF Leased
    <3>2. late' = Copied /\ syslog' \in {syslogServer', Lost}
        BY <1>5, <3>1, StatusUpOpens
    <3>3. syslogServer' = IF Copied /\ settings.log THEN Own ELSE o.log
        BY <1>1, <2>2 DEF ServerSoFar, ParseHook, Own, Zero
    <3>4. FirstLog' = o.log
        BY <1>2, <1>4, <2>2 DEF FirstLog
    <3> QED BY <3>2, <3>3, <3>4 DEF SyslogSoFar
  <2> QED BY <2>1, <2>2
<1> QED BY <1>7, <1>9, <1>10, <1>11

\* The static address opens it within wifi_init, for no server
LEMMA ConfigureInv ==
    ASSUME NetInv, Configure
    PROVE  NetInv'
<1> USE DEF NetInv, Configure, Leave, link, queue, report
<1>1. Fault \/ UNCHANGED faults
    BY DEF StatusUp, OpenSyslog
<1>2. npc = "configure" /\ npc' = "mac" /\ ~wifiInit /\ ~Copied /\ ~Copied'
    BY DEF Started, Copied
<1>3. NetTypes'
    BY <1>1, FaultsGrow DEF NetTypes
<1>4. Started' /\ ServerSoFar'
    BY <1>2 DEF Started, ServerSoFar
<1>5. Leased'
    BY DEF Leased, StatusUp
<1>6. LinkFirst'
    BY <1>1, <1>3, FaultsGrow DEF LinkFirst, StrandedOnlyByFaults, NetTypes
<1>7. SyslogSoFar'
  <2>1. CASE settings.static /\ ~netInit
    <3>1. offers = <<>> /\ offers' = <<>>
        BY <2>1 DEF Leased
    <3>2. late' = Copied /\ syslog' \in {Zero, Lost}
        BY <1>2, <2>1, <3>1, StatusUpOpens DEF ServerSoFar
    <3> QED BY <1>2, <3>1, <3>2 DEF SyslogSoFar, FirstLog
  <2>2. CASE ~settings.static \/ netInit
    <3>1. UNCHANGED <<syslog, late>>
        BY <2>2 DEF StatusUp
    <3> QED BY <3>1 DEF SyslogSoFar, FirstLog
  <2> QED BY <2>1, <2>2
<1> QED BY <1>3, <1>4, <1>5, <1>6, <1>7

\* The rest of the start, and what else leaves the addresses alone
Elsewhere ==
    \/ ArchInit \/ ArchFails \/ GetMac \/ MacFails \/ JoinRefused \/ JoinFails
    \/ JoinAsync \/ JoinSync \/ JoinedInTime \/ JoinTimeout
    \/ StartServices \/ SetTimezone \/ LinkUp \/ SntpAnswer

LEMMA ElsewhereInv ==
    ASSUME NetInv, Elsewhere
    PROVE  NetInv'
<1> USE DEF NetInv, Elsewhere, ArchInit, ArchFails, GetMac, MacFails,
            JoinRefused, JoinFails, JoinAsync, JoinSync, JoinedInTime,
            JoinTimeout, StartServices, SetTimezone, LinkUp, SntpAnswer, GiveUp,
            Leave, vars, mqtt, net, setupVars, link, servers
<1>1. Fault \/ UNCHANGED faults
    OBVIOUS
<1>2. NetTypes'
    BY <1>1, FaultsGrow DEF NetTypes
<1>3. Started'
    BY DEF Started
<1>4. Leased'
    BY DEF Leased
<1>5. Copied' = Copied
    BY DEF Copied, Started
<1>6. ServerSoFar'
    BY <1>5 DEF ServerSoFar
<1>7. LinkFirst'
    BY <1>1, <1>2, FaultsGrow DEF LinkFirst, StrandedOnlyByFaults, NetTypes
<1>8. SyslogSoFar'
    BY DEF SyslogSoFar, FirstLog
<1> QED BY <1>2, <1>3, <1>4, <1>6, <1>7, <1>8

LEMMA CopyInv ==
    ASSUME NetInv, CopySyslogServer
    PROVE  NetInv'
<1> USE DEF NetInv, CopySyslogServer, Leave, vars, mqtt, link
<1>1. wifiInit /\ Copied'
    BY DEF Started, Copied
<1>2. NetTypes' /\ Started' /\ Leased'
    BY DEF NetTypes, Started, Leased
<1>3. ServerSoFar'
    BY <1>1 DEF ServerSoFar
<1>4. LinkFirst' /\ SyslogSoFar'
    BY DEF LinkFirst, StrandedOnlyByFaults, SyslogSoFar, FirstLog
<1> QED BY <1>2, <1>3, <1>4

\* With the client: it looks for its server only when there is a link, so that
\* only a fault ends its attempts
LEMMA ConnectLinked ==
    ASSUME NetInv, Connect, joined \/ settings.static, UNCHANGED <<joined, net>>
    PROVE  NetInv'
<1> USE DEF NetInv, net, setupVars, servers
<1>1. Fault \/ UNCHANGED faults
    BY DEF Connect, Begun, FailedAtOnce
<1>2. NetTypes'
    BY <1>1, FaultsGrow DEF NetTypes
<1>3. Started' /\ Leased' /\ ServerSoFar' /\ SyslogSoFar'
    BY DEF Started, Leased, ServerSoFar, Copied, SyslogSoFar, FirstLog
<1>4. LinkFirst'
  <2>1. CASE Begun
      BY <2>1 DEF Begun, LinkFirst, StrandedOnlyByFaults, None
  <2>2. CASE FailedAtOnce
    <3>1. joined => Fault
        BY <2>2 DEF FailedAtOnce
    <3>2. settings'.static = settings.static /\ joined' = joined
        OBVIOUS
    <3> QED BY <3>1, <3>2, <1>2, FaultsGrow
            DEF LinkFirst, StrandedOnlyByFaults, NetTypes
  <2> QED BY <2>1, <2>2 DEF Connect
<1> QED BY <1>2, <1>3, <1>4

LEMMA AnnouncementInv ==
    ASSUME NetInv, Announcement
    PROVE  NetInv'
<1> USE DEF NetInv, Announcement, Online, setupVars, servers, vars, mqtt, link
<1>1. joined \/ settings.static
    BY DEF Leased
<1>2. Fault \/ UNCHANGED faults
    BY DEF Setup, Connect, Begun, FailedAtOnce
<1>3. NetTypes'
    BY <1>2, FaultsGrow DEF NetTypes
<1>4. Started' /\ Leased' /\ ServerSoFar' /\ SyslogSoFar'
    BY DEF Started, Leased, ServerSoFar, Copied, SyslogSoFar, FirstLog
<1>5. LinkFirst'
  <2>1. CASE settings.mqtt /\ Begun
      BY <1>1, <2>1 DEF Begun, LinkFirst, StrandedOnlyByFaults, None
  <2>2. CASE settings.mqtt /\ FailedAtOnce
    <3>1. joined => Fault
        BY <2>2 DEF FailedAtOnce
    <3> QED BY <1>1, <2>2, <3>1, <1>3, <1>2, FaultsGrow
            DEF LinkFirst, StrandedOnlyByFaults, NetTypes
  <2>3. CASE settings.mqtt /\ Fault
      BY <1>1, <2>3, <1>3, FaultsGrow DEF LinkFirst, StrandedOnlyByFaults, NetTypes
  <2>4. CASE ~settings.mqtt
      BY <2>4 DEF LinkFirst, StrandedOnlyByFaults
  <2> QED BY <2>1, <2>2, <2>3, <2>4 DEF Setup, Connect
<1> QED BY <1>3, <1>4, <1>5

LEMMA MqttStepInv ==
    ASSUME Inv, Mqtt
    PROVE  NetInv'
<1> USE DEF Inv, Mqtt
<1>1. CASE DnsFound \/ Reconnect
  <2>1. why # "unset"
      BY <1>1 DEF ClientInv, OneAttempt, DnsFound, Reconnect, None
  <2>2. joined \/ settings.static
      BY <2>1 DEF NetInv, LinkFirst
  <2>3. Connect
      BY <1>1 DEF DnsFound, Reconnect
  <2> QED BY <2>2, <2>3, ConnectLinked
<1>2. CASE ~(DnsFound \/ Reconnect)
  <2> USE <1>2 DEF Run, NetInv, net, setupVars, servers, DnsFailed, Accepted,
          Refused, LoginRefused, Disconnected, CommandArrives, HaOnline, HaCommand,
          FromHa, PollStep, Poll, NoDiscovery, DiscoveryDue, ClearDiscovery,
          Announce, NoCommand, RunCommand, Respond, Unqueue, NoStatus, StatusDue,
          Stamp, Build, Send, PublishDuty, PublishTemp, link
  <2>1. Fault \/ UNCHANGED faults
      OBVIOUS
  <2>2. NetTypes'
      BY <2>1, FaultsGrow DEF NetTypes
  <2>3. Started' /\ Leased' /\ ServerSoFar' /\ SyslogSoFar'
      BY DEF Started, Leased, ServerSoFar, Copied, SyslogSoFar, FirstLog
  <2>4. LinkFirst'
    <3>1. CASE why' = why
        BY <2>1, <2>2, <3>1, FaultsGrow DEF LinkFirst, StrandedOnlyByFaults, NetTypes
    <3>2. CASE LoginRefused
      <4>1. why = None /\ Fault
          BY <3>2 DEF ClientInv, OneAttempt
      <4> QED BY <4>1, <2>2, FaultsGrow
              DEF LinkFirst, StrandedOnlyByFaults, NetTypes, None
    <3> QED BY <3>1, <3>2
  <2> QED BY <2>2, <2>3, <2>4
<1> QED BY <1>1, <1>2

LEMMA StillInv ==
    ASSUME NetInv, UNCHANGED nvars
    PROVE  NetInv'
<1> USE DEF NetInv, nvars, vars, mqtt, link, net, setupVars, servers
<1>1. NetTypes' /\ Started' /\ Leased' /\ ServerSoFar'
    BY DEF NetTypes, Started, Leased, ServerSoFar, Copied
<1>2. LinkFirst' /\ SyslogSoFar'
    BY DEF LinkFirst, StrandedOnlyByFaults, SyslogSoFar, FirstLog
<1> QED BY <1>1, <1>2

\* Only Setup and Run change the client
LEMMA ClientNext ==
    ASSUME ClientInv, [NNext]_nvars
    PROVE  ClientInv'
<1>1. CASE Mqtt
    BY <1>1, RunInv DEF Mqtt
<1>2. CASE Announcement
    BY <1>2, SetupInv, ClientIdle DEF Announcement, vars, mqtt, client
<1>3. CASE StartStep \/ LinkUp \/ DhcpAck \/ SntpAnswer \/ UNCHANGED nvars
  <2>1. UNCHANGED client
      BY <1>3 DEF StartStep, ArchInit, ArchFails, Configure, GetMac, MacFails,
         JoinRefused, JoinFails, JoinAsync, JoinSync, JoinedInTime, JoinTimeout,
         StartServices, CopySyslogServer, SetTimezone, LinkUp, DhcpAck,
         SntpAnswer, client, vars, mqtt, nvars
  <2> QED BY <2>1, ClientIdle
<1> QED BY <1>1, <1>2, <1>3 DEF NNext

LEMMA NetNext ==
    ASSUME Inv, [NNext]_nvars
    PROVE  NetInv'
<1>1. NetInv
    BY DEF Inv
<1> QED
    BY <1>1, DhcpAckInv, ConfigureInv, ElsewhereInv, CopyInv, AnnouncementInv,
       MqttStepInv, StillInv DEF NNext, StartStep, Elsewhere

-------------------------------------------------------------------------------
(* The configured servers *)

\* The NTP server is set once, and only if it may be is it DHCP's; the time
\* zone is DHCP's last one until wifi_init's caller sets its own
Wins ==
    /\ settings.ntp => ~ntpDhcp
    /\ settings.ntp /\ wifiInit /\ npc # "services" => ntp = Own
    /\ settings.zone /\ npc = "run" => tz = Own
    /\ ~settings.zone => LastZone(tz)

LEMMA WinsInit ==
    NInit => Wins
BY DEF NInit, Wins, LastZone

LEMMA OffersStay ==
    ASSUME LastZone(tz), tz' = tz, offers' = offers
    PROVE  LastZone(tz)'
BY DEF LastZone

\* A lease with a zone makes it the last one; one without changes nothing
LEMMA LeaseZone ==
    ASSUME NEW S, offers \in Seq(S), LastZone(tz), NEW o,
           offers' = Append(offers, o),
           tz' = IF o.zone = None THEN tz ELSE o.zone
    PROVE  LastZone(tz)'
<1> DEFINE k == Len(offers)
<1>1. /\ k \in Nat /\ Len(offers') = k + 1 /\ offers'[k + 1] = o
      /\ \A i \in 1 .. k : offers'[i] = offers[i]
    OBVIOUS
<1> HIDE DEF k
<1>2. CASE o.zone = None
  <2>1. PICK n \in 0 .. k :
            /\ \A i \in n + 1 .. k : offers[i].zone = None
            /\ IF n = 0 THEN tz = None
               ELSE offers[n].zone # None /\ tz = offers[n].zone
      BY DEF LastZone, k
  <2>2. \A i \in n + 1 .. k + 1 : offers'[i].zone = None
      BY <1>1, <1>2, <2>1
  <2>3. n # 0 => offers'[n] = offers[n]
      BY <1>1
  <2>4. n \in 0 .. k + 1
      BY <1>1
  <2> QED BY <1>1, <1>2, <2>1, <2>2, <2>3, <2>4 DEF LastZone
<1>3. CASE o.zone # None
  <2>1. /\ k + 1 \in 0 .. k + 1 /\ k + 1 # 0
        /\ \A i \in (k + 1) + 1 .. k + 1 : offers'[i].zone = None
      BY <1>1
  <2> QED BY <1>1, <1>3, <2>1 DEF LastZone
<1> QED BY <1>2, <1>3

LEMMA WinsNext ==
    ASSUME NetInv, Wins, [NNext]_nvars
    PROVE  Wins'
<1> USE DEF Wins
<1>1. CASE DhcpAck
  <2>1. PICK o : /\ offers' = Append(offers, o)
                 /\ tz' = IF o.zone = None \/ settings.zone THEN tz ELSE o.zone
                 /\ ntp' = IF ntpDhcp /\ o.ntp # None THEN o.ntp ELSE ntp
      BY <1>1 DEF DhcpAck, ParseHook
  <2>2. UNCHANGED <<settings, npc, wifiInit, ntpDhcp>> /\ offers \in Seq(Leases)
      BY <1>1 DEF DhcpAck, setupVars, NetInv, NetTypes
  <2>3. ~settings.zone => LastZone(tz)'
      BY <2>1, <2>2, LeaseZone
  <2> QED BY <2>1, <2>2, <2>3
<1>2. CASE StartServices
  <2>1. /\ npc = "services" /\ npc' = "copy" /\ UNCHANGED <<settings, tz, offers>>
        /\ settings.ntp => ntp' = Own /\ ntpDhcp' = ntpDhcp
      BY <1>2 DEF StartServices, Leave
  <2> QED BY <2>1, OffersStay
<1>3. CASE SetTimezone
  <2>1. /\ npc = "zone" /\ npc' = "run"
        /\ UNCHANGED <<settings, wifiInit, ntp, ntpDhcp, offers>>
        /\ tz' = IF settings.zone THEN Own ELSE tz
      BY <1>3 DEF SetTimezone, Leave
  <2> QED BY <2>1, OffersStay
<1>4. CASE ~(DhcpAck \/ StartServices \/ SetTimezone)
  <2>1. /\ UNCHANGED <<settings, ntp, ntpDhcp, tz, offers>>
        /\ npc' = "run" => npc = "run"
        /\ wifiInit' /\ npc' # "services" =>
                wifiInit /\ npc # "services"
      BY <1>4 DEF NNext, StartStep, ArchInit, ArchFails, Configure, GetMac, MacFails,
         JoinRefused, JoinFails, JoinAsync, JoinSync, JoinedInTime, JoinTimeout,
         CopySyslogServer, LinkUp, SntpAnswer, Announcement, Mqtt, GiveUp, Leave,
         NetInv, Started, nvars, net, setupVars, servers
  <2> QED BY <2>1, OffersStay
<1> QED BY <1>1, <1>2, <1>3, <1>4

LEMMA Invariance ==
    NSpec => [](Inv /\ Wins)
<1>1. NInit => Inv /\ Wins
    BY ClientInit, NetInit, WinsInit DEF Inv, NInit
<1>2. Inv /\ Wins /\ [NNext]_nvars => (Inv /\ Wins)'
    BY ClientNext, NetNext, WinsNext DEF Inv
<1> QED BY <1>1, <1>2, PTL DEF NSpec

-------------------------------------------------------------------------------
(***************************************************************************)
(* However the network comes up and however attempts end, there is one     *)
(* attempt at a time, and a retry to come unless the client is given up.   *)
(***************************************************************************)
THEOREM OneAttemptAtATime ==
    NSpec => []OneAttempt
<1>1. Inv => OneAttempt
    BY DEF Inv, ClientInv
<1> QED BY <1>1, Invariance, PTL

(***************************************************************************)
(* A command that runs is not replaced under the main loop's hands.        *)
(***************************************************************************)
THEOREM CommandStays ==
    NSpec => []RunningCommandKept
<1>1. Inv => RunningCommandKept
    BY DEF Inv, ClientInv, Place, RunningCommandKept
<1> QED BY <1>1, Invariance, PTL

(***************************************************************************)
(* No command runs twice, and none that is not allowed runs at all.        *)
(***************************************************************************)
THEOREM CommandsRunOnce ==
    NSpec => []RunOnce
<1>1. Inv => RunOnce
    BY DEF Inv, ClientInv, EachOnce, RunOnce
<1> QED BY <1>1, Invariance, PTL

(***************************************************************************)
(* With Home Assistant configured nothing it waits for is forgotten.       *)
(* (Without, a state message that is lost is not sent again after a        *)
(* reconnection: there is no discovery to bring it.)                       *)
(***************************************************************************)
THEOREM HomeAssistantIsTold ==
    ASSUME HaEnabled
    PROVE  NSpec => []NothingForgotten
<1>1. Inv => NothingForgotten
    BY DEF Inv, ClientInv, Told, NothingForgotten
<1> QED BY <1>1, Invariance, PTL

(***************************************************************************)
(* Which server the syslog was opened for, for every order of wifi_init,   *)
(* leases and renewals: the configured one exactly when it came up after   *)
(* wifi_init's last line.                                                  *)
(***************************************************************************)
THEOREM SyslogGoesWhereChosen ==
    NSpec => []SyslogSoFar
<1>1. Inv => SyslogSoFar
    BY DEF Inv, NetInv
<1> QED BY <1>1, Invariance, PTL

(***************************************************************************)
(* So no lease, first or renewed, displaces a configured server that was   *)
(* there in time, nor the first lease's server when none is configured.    *)
(***************************************************************************)
THEOREM SyslogStaysChosen ==
    NSpec => []SyslogServerChosen
<1>1. SyslogSoFar => SyslogServerChosen
    BY DEF SyslogSoFar, SyslogServerChosen
<1> QED BY <1>1, SyslogGoesWhereChosen, PTL

(***************************************************************************)
(* Without a fault and without a static address no order of events gives   *)
(* up the MQTT client.                                                     *)
(***************************************************************************)
THEOREM OrderStrandsNobody ==
    NSpec => []StrandedOnlyByFaults
<1>1. Inv => StrandedOnlyByFaults
    BY DEF Inv, NetInv, LinkFirst
<1> QED BY <1>1, Invariance, PTL

(***************************************************************************)
(* A configured time server and a configured time zone are the ones in     *)
(* force once setup is over, and stay so; without a configured zone it is  *)
(* the last one that a lease brought.                                      *)
(***************************************************************************)
THEOREM ConfigurationWins ==
    NSpec => []ConfiguredWins
<1>1. Inv /\ Wins => ConfiguredWins
    BY ConfigurationsAssumption DEF Inv, NetInv, NetTypes, Wins, ConfiguredWins
<1> QED BY <1>1, Invariance, PTL

===============================================================================
