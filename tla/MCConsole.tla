----------------------------- MODULE MCConsole -----------------------------
(***************************************************************************)
(* Two searches, one after the other, so that the timer of the first may   *)
(* still be at work in the second, and one call at any time.               *)
(***************************************************************************)
EXTENDS Console

=============================================================================
