--------------------------- MODULE MCOutputCommit ---------------------------
(***************************************************************************)
(* Three outputs, the first two of which replace a file.                   *)
(***************************************************************************)
EXTENDS OutputCommit

MCOutputs == 1 .. 3
MCExisting == {1, 2}

=============================================================================
