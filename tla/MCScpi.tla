-------------------------------- MODULE MCScpi --------------------------------
\* A setting of every kind, two outputs, a sensor, room for three keys.
EXTENDS Scpi

KindOfC == [s \in Setting |->
    CASE s = "SSID" -> "text" [] s = "SYSNAME" -> "named"
      [] s = "COUNTRY" -> "checked" [] s = "ECHO" -> "switch"
      [] s = "LED" -> "small" [] s = "PORT" -> "number" [] s = "MASK" -> "mask"
      [] s = "LOG" -> "listed" [] s = "TLS" -> "guard" [] s = "DEBUG" -> "debug"
      [] s = "EVERY" -> "interval" [] s = "IP" -> "address"]
===============================================================================
