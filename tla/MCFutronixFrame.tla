-------------------------- MODULE MCFutronixFrame --------------------------
(***************************************************************************)
(* Every six-bit command, which includes the twenty of CommandInterface.   *)
(***************************************************************************)
EXTENDS FutronixFrame

MCCodes == 0 .. 63

=============================================================================
