-------------------------- MODULE MCEepromRecords --------------------------
(***************************************************************************)
(* Records of three bytes, and texts that leave one empty, half full, full *)
(* and that have to be cut.                                                *)
(***************************************************************************)
EXTENDS EepromRecords

SomeTexts == {<<>>, <<1>>, <<2, 2>>, <<1, 2, 1>>}

\* The texts that a record can be given without harm to the first one.
NonEmptyTexts == SomeTexts \ {<<>>}

=============================================================================
