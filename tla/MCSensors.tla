------------------------------ MODULE MCSensors ------------------------------
(* Three sensors: a chain of sources in the order of the table and one       *)
(* against it, a sensor that depends on itself through another, one and two  *)
(* sensors on the bus, and commands that change all this.                    *)
EXTENDS Sensors

Source(m, d, t, l) == [mode |-> m, default |-> d, timeout |-> t, list |-> l]

Manual(t) == Source("manual", 0, t, <<>>)
I2c == Source("i2c", 0, 1, <<>>)

MCBoot ==
    {<<Manual(1), Source("delta", 0, 0, <<Pico, 1>>), Source("max", 0, 0, <<2, 1>>)>>,
     <<Source("avg", 0, 0, <<2, Pico>>), Source("min", 0, 0, <<3, Pico>>), I2c>>,
     <<I2c, I2c, Source("max", 0, 0, <<2, 1>>)>>}

MCOrders ==
    <<{I2c, Source("max", 0, 0, <<2, 3>>)},
      {I2c, Source("min", 0, 0, <<3, 1>>)},
      {Source("pico", 0, 0, <<>>), Source("manual", 1, 0, <<>>)}>>
===============================================================================
