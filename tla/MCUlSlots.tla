----------------------------- MODULE MCUlSlots ------------------------------
(***************************************************************************)
(* Values for UlSlots: periods of five slots, D D D S U, where S also has  *)
(* uplink symbols.  In the first configuration S is reached only from the  *)
(* last downlink slot of the period before, in the second from the two     *)
(* first downlink slots of its own, in the third from both.                *)
(***************************************************************************)
EXTENDS UlSlots

MCTdas == {
  {<<4, 2>>, <<4, 3>>, <<3, 6>>},
  {<<4, 2>>, <<4, 3>>, <<4, 4>>, <<3, 2>>, <<3, 3>>},
  {<<4, 2>>, <<3, 2>>, <<3, 6>>}}
=============================================================================
