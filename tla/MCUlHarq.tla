------------------------------ MODULE MCUlHarq ------------------------------
(***************************************************************************)
(* Small instances of UlHarq: three processes, so that one can be flushed  *)
(* while another is matched and a third is pending, and two sizes.         *)
(***************************************************************************)
EXTENDS UlHarq

CONSTANTS h1, h2, h3

MCPid == {h1, h2, h3}
MCPid2 == {h1, h2}
MCTbSize == {1, 3}
MCOneSize == {1}
=============================================================================
