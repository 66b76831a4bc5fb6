-------------------------- MODULE MCFauxmoClients --------------------------
(***************************************************************************)
(* Two slots and three connections: with both slots taken the third is     *)
(* refused, and after one has ended it is given that one's slot.           *)
(***************************************************************************)
EXTENDS FauxmoClients

=============================================================================
