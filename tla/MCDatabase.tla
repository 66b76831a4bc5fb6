----------------------------- MODULE MCDatabase -----------------------------
(***************************************************************************)
(* A store with two scenes, two texts and every scene number a request can *)
(* name: those of the scenes, of the credentials and of the magic word,    *)
(* zero, and the one just past the last record.                            *)
(***************************************************************************)
EXTENDS Database

MCSceneArgs == 0 .. RecordCount + 1

=============================================================================
