------------------------------ MODULE MCUlPass ------------------------------
(***************************************************************************)
(* Values for UlPass: three UEs with different postures and policies.      *)
(***************************************************************************)
EXTENDS UlPass

MCMinRb == <<1, 2, 1>>
MCRbFloor == <<0, 0, 3>>
MCRbCap == <<0, 1, 0>>
MCMaxCg == <<1, 0, 2>>
MCReserved == {{}, {2}}
=============================================================================
