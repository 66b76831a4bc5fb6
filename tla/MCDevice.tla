------------------------------ MODULE MCDevice ------------------------------
(***************************************************************************)
(* Two scenes; admin requests on both sides of every bound of              *)
(* CommandInterface::setScene: -1, 0, 19, 20 and 255; a WiFi connection    *)
(* that is tested four times.                                             *)
(***************************************************************************)
EXTENDS Device

MCAdminArgs == {-1, 0, 19, 20, 255}

=============================================================================
