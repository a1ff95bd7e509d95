---------------------------- MODULE MCRateLimit ----------------------------
(* A small instance of RateLimit: one key, or two with different caps, two        *)
(* workers, an hour of two ticks and a day of three.                       *)
EXTENDS RateLimit, TLC

CONSTANTS k1, k2

MCPerHour == [k \in Key |-> IF k = k1 THEN 1 ELSE 2]
MCPerDay == [k \in Key |-> IF k = k1 THEN 1 ELSE 2]
MCDayOf == [t \in 0 .. MaxClock |-> t \div 2]

Runs == {1}  \* the clock only runs

Symmetry == Permutations(Worker)
=============================================================================
