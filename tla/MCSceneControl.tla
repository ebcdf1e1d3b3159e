--------------------------- MODULE MCSceneControl ---------------------------
(***************************************************************************)
(* A small instance of SceneControl: two UEs and two modes, each of a kind.*)
(***************************************************************************)
EXTENDS SceneControl, TLC

CONSTANTS r1, r2, m1, m2

MCRnti == {r1, r2}
MCMode == {m1, m2}
MCSymmetry == Permutations(MCRnti) \cup Permutations(MCMode)
=============================================================================
