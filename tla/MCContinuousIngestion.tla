------------------------ MODULE MCContinuousIngestion ------------------------
(* Small instances of ContinuousIngestion for TLC.                         *)
EXTENDS ContinuousIngestion, TLC

CONSTANTS w1, w2, c1, c2, k1, k2, b1, b2

MCKeys   == {k1, k2}
MCBodies == {b1, b2}

Rec(k, t, b, s) == [kind |-> "record", key |-> k, time |-> t, body |-> b, size |-> s]
Blank     == [kind |-> "blank", key |-> k1, time |-> 0, body |-> b1, size |-> 1]
Malformed == [kind |-> "malformed", key |-> k1, time |-> 0, body |-> b1, size |-> 2]

(* Repeats, conflicts and late records of two keys, and the other kinds.   *)
PolicyLines == {Blank, Malformed, Rec(k1, 2, b1, 1), Rec(k1, 3, b2, 1),
                Rec(k2, 1, b1, 2), Rec(k2, 3, b1, 1)}

(* Enough to tell batches apart and to run into every limit.               *)
FlowLines == {Blank, Rec(k1, 2, b1, 1), Rec(k2, 1, b1, 2), Rec(k2, 2, b1, 9)}

(* A line that fits and one that never will.                               *)
LiveLines == {Rec(k1, 2, b1, 1), Rec(k2, 1, b1, 2), Rec(k2, 2, b1, 9)}

Symmetry == Permutations(Workers) \cup Permutations(Contracts)
=============================================================================
