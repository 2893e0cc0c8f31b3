------------------------- MODULE MCMeasuredPolicy -------------------------
(* Small instances of MeasuredPolicy for TLC.                              *)
EXTENDS MeasuredPolicy

Speed(c, lo, hi, ok) == [cohort |-> c, min |-> lo, max |-> hi, ready |-> ok]

Score(c, n) == [cohort |-> c, correct |-> n]

\* Intervals two wide: neighbouring scores overlap, 1 and 4 do not.
MCWilsonLow == [n \in 0..12 |-> n]
MCWilsonHigh == [n \in 0..12 |-> n + 2]

\* Seen by Fastest: two disjoint ranges, one that overlaps both, one of another
\* machine, one with too few calls.  Seen by Quality: two cohorts, ties, and a chain
\* of overlaps.  Seen by Balanced: a gain on either axis alone, and one axis against
\* the other.
PolicyEvidence ==
    {[speed |-> Speed("m1", 1, 1, TRUE),  quality |-> Score("k1", 1)],
     [speed |-> Speed("m1", 3, 3, TRUE),  quality |-> Score("k1", 1)],
     [speed |-> Speed("m1", 1, 1, TRUE),  quality |-> Score("k1", 4)],
     [speed |-> Speed("m1", 1, 3, TRUE),  quality |-> Score("k1", 2)],
     [speed |-> Speed("m2", 3, 3, TRUE),  quality |-> None],
     [speed |-> Speed("m1", 3, 3, FALSE), quality |-> Score("k2", 4)]}
===========================================================================
