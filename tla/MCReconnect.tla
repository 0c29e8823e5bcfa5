---------------------------- MODULE MCReconnect ----------------------------
(* Reconnect with durations of a few units and three multipliers: one below *)
(* 1, whose product can vanish, one between 1 and 2, and one that overflows. *)
EXTENDS Reconnect

Largest == 6
MCDurations == -1 .. Largest

\* time.Duration(float64(d) * (num / den)): truncated, and -1, the least
\* duration, when the product is out of range.
Grown(num, den) ==
  [d \in MCDurations |->
    LET product == (d * num) \div den IN
    IF d < 0 \/ product > Largest THEN -1 ELSE product]

MCGrowths == {Grown(1, 2), Grown(3, 2), Grown(3, 1)}

=============================================================================
