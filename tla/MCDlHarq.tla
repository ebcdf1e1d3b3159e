------------------------------ MODULE MCDlHarq ------------------------------
(***************************************************************************)
(* A small instance of DlHarq: two processes, of which any may be without  *)
(* feedback, two sizes and a frame number of four values.                  *)
(***************************************************************************)
EXTENDS DlHarq

CONSTANTS h1, h2

MCPid == {h1, h2}
MCTbSize == {1, 2}
=============================================================================
