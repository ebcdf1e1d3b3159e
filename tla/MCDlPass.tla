------------------------------ MODULE MCDlPass ------------------------------
(***************************************************************************)
(* Values for DlPass: three UEs with different postures and policies, of   *)
(* which one has a minimum grant of a single block.                        *)
(***************************************************************************)
EXTENDS DlPass

MCMinRb == <<2, 1, 2>>
MCRbFloor == <<0, 0, 3>>
MCRbCap == <<0, 1, 0>>
MCMaxCg == <<1, 0, 2>>
MCReserved == {{}, {0}}
=============================================================================
