--------------------------- MODULE MCPostureFile ---------------------------
(***************************************************************************)
(* Small instances of PostureFile: two UEs, so that a file can lose the    *)
(* line of one while it is written for the other.                          *)
(***************************************************************************)
EXTENDS PostureFile, TLC

CONSTANTS t1, t2

OneThread == {t1}
TwoThreads == {t1, t2}
ThreadSymmetry == Permutations(TwoThreads)
TwoRnti == {1, 2}
OneValue == {7}
TwoValues == {7, 8}
Uplink == {"ul"}
BothWays == {"ul", "dl"}
=============================================================================
