------------------------------ MODULE MCNetwork ------------------------------
(* The ways to start: every combination of settings that matter, with a DHCP *)
(* server that may change its mind, but without MQTT; settings with which    *)
(* wifi_init gives up; and two that lead to an MQTT client, one with three   *)
(* commands of which one is not allowed.                                     *)
EXTENDS Network

Offer(l, n, z) == [log |-> l, ntp |-> n, zone |-> z]

Offers ==
    {Offer(Zero, None, None), Offer("l1", None, "z1"),
     Offer("l2", "t1", None), Offer("l2", "t1", "z2")}

Settings(static, sync, log, ntpServer, zone, m, list, n) ==
    [static |-> static, sync |-> sync, log |-> log, ntp |-> ntpServer,
     zone |-> zone, mqtt |-> m, ssid |-> TRUE, passwd |-> TRUE,
     auth |-> "default", offers |-> list, acks |-> n]

Plain == Settings(FALSE, FALSE, FALSE, FALSE, FALSE, TRUE,
                  {Offer("l1", None, None)}, 1)

MCConfigurations ==
    {Settings(a, b, c, d, e, FALSE, Offers, 2) : a, b, c, d, e \in BOOLEAN}
    \cup {[Plain EXCEPT !.ssid = FALSE], [Plain EXCEPT !.passwd = FALSE],
          [Plain EXCEPT !.passwd = FALSE, !.mqtt = FALSE, !.auth = "OPEN"]}
    \cup {Plain, [Plain EXCEPT !.static = TRUE]}
===============================================================================
