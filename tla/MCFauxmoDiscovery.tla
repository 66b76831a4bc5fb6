------------------------- MODULE MCFauxmoDiscovery -------------------------
(***************************************************************************)
(* Three devices and three rounds, so that a search can start in the       *)
(* middle of a round and devices drop out on either side of another, and   *)
(* two controllers that search whenever they like.                         *)
(***************************************************************************)
EXTENDS FauxmoDiscovery

=============================================================================
