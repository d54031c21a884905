--------------------------- MODULE TileExecution ----------------------------
(***************************************************************************)
(* The cells of a tile and the reduction of distributed/execution.py.  The *)
(* normalisation and the matrix product are abstracted to a given matrix   *)
(* of correlations, sim[<<row, column>>], that holds InvalidValue where a  *)
(* window is flat or not finite.                                           *)
(***************************************************************************)
EXTENDS ProfileMerge, FiniteSetsExt

(* A cell of the join, apart from the trivial matches near the diagonal.   *)
Trivial(row, column, zone) == -zone < row - column /\ row - column < zone

MaskedCell(sim, zone, row, column) ==
    IF Trivial(row, column, zone) THEN InvalidValue ELSE sim[<<row, column>>]

(* mx.max and mx.argmax along one axis: the greatest value and the first   *)
(* place it is at, shifted to a global index, or -1 for the sentinel.      *)
FirstBest(f, places) ==
    LET best  == Max({f[p] : p \in places})
        first == Min({p \in places : f[p] = best})
    IN  [value |-> best, index |-> IF best < -Scale THEN -1 ELSE first]
=============================================================================
