--------------------------- MODULE MCSliceControl ---------------------------
(***************************************************************************)
(* Small instances of SliceControl: two threads that may broadcast to two  *)
(* nodes.                                                                  *)
(***************************************************************************)
EXTENDS SliceControl

CONSTANTS t1, t2

TwoThreads == {t1, t2}
OneRnti == {1}
TwoBinds == {2, 3}
\* set_profile takes the steps of set_mode but the last
SomeCmds == {"ue_slice_assoc", "set_mode", "add_slices"}
=============================================================================
