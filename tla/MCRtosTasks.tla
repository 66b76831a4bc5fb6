---------------------------- MODULE MCRtosTasks ----------------------------
(***************************************************************************)
(* Two retries, so that wifi_task runs out of them as well as finding the  *)
(* station connected before that.                                          *)
(***************************************************************************)
EXTENDS RtosTasks

=============================================================================
