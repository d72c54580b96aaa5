------------------------------- MODULE MCTimers -------------------------------
EXTENDS Timers

\* Two entries for single minutes, one of them of one day, and one for every
\* minute; days and outputs out of range, an entry without outputs, and words
\* that are refused.
Entry(minute, hour, wday, action, mask, name) ==
    [minute |-> minute, hour |-> hour, wday |-> wday, action |-> action,
     mask |-> mask, name |-> name]

On == Entry(1, Star, All, "on", {<<1, 2>>}, <<"lights">>)
Off == Entry(0, 1, {<<1, 1>>, <<7, 9>>}, "off", {<<1, 1>>}, <<>>)
Always == Entry(Star, Star, {<<0, 6>>}, "off", {<<2, 3>>}, <<>>)
Sundays == Entry(1, 0, {<<7, 7>>}, "on", {<<0, 1>>, <<2, 2>>}, <<>>)
Nothing == Entry(Star, 1, {<<3, 5>>, <<0, 0>>}, "on", {<<3, 3>>}, <<>>)

MCDefinition ==
    {On, Off, Entry(1, 2, All, "on", All, <<>>), Entry(1, 1, All, "on", {}, <<>>)}
MCStartTable == {<<>>, <<On, Off>>, <<Sundays, On>>, <<Always, Nothing>>}
MCClockTime == {20, 29}
=============================================================================
