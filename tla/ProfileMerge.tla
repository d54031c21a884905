---------------------------- MODULE ProfileMerge ----------------------------
(***************************************************************************)
(* The 1NN profile of distributed/coordinator.py and the slices workers    *)
(* return for it.  A profile cell holds the best correlation found so far  *)
(* and the global index it was found at.  A correlation r in [-1, 1] is    *)
(* the integer r * Scale; the sentinel -2.0 is -2 * Scale, with index -1.  *)
(***************************************************************************)
EXTENDS Integers, Sequences

CONSTANT Scale          \* the resolution of a correlation

ASSUME ScaleAssumption == Scale \in Nat \ {0}

Entry == [value : Int, index : Int]

InvalidValue == -2 * Scale
Sentinel == [value |-> InvalidValue, index |-> -1]

IsCorrelation(v) == -Scale <= v /\ v <= Scale

(* What a profile may hold: a correlation with the index of its match, or  *)
(* the sentinel.                                                           *)
ProperEntry ==
    {e \in Entry : e = Sentinel \/ (IsCorrelation(e.value) /\ e.index >= 0)}

(* The global positions the half-open interval [start, stop) holds.        *)
Positions(start, stop) == start .. stop - 1

(* The cells of the profile of job j: one for each column and, in an       *)
(* AB-join that keeps them, one for each row.                              *)
Cells(j) ==
    ({"column"} \X Positions(0, j.columns)) \cup
    (IF ~j.self_join /\ j.keep_rows THEN {"row"} \X Positions(0, j.rows) ELSE {})

----------------------------------------------------------------------------
(* The order of the merge: a greater correlation, or the same one at a     *)
(* lower index.                                                            *)
BeatsInArrivalOrder(new, current) == new.value > current.value

Beats(new, current) ==
    \/ new.value > current.value
    \/ /\ new.value = current.value
       /\ new.index >= 0
       /\ current.index < 0 \/ new.index < current.index

Better(new, current) == IF Beats(new, current) THEN new ELSE current

(* What the merge is for: of a set of valid candidates the one of greatest *)
(* correlation and, among those, of lowest index; the sentinel of none.    *)
IsBestOf(entry, candidates) ==
    IF candidates = {} THEN entry = Sentinel
    ELSE /\ entry \in candidates
         /\ \A e \in candidates :
                \/ e.value < entry.value
                \/ e.value = entry.value /\ entry.index <= e.index

----------------------------------------------------------------------------
(* A ProfileSlice message: its global offset, whether its arrays decode to *)
(* float32 values and int64 indices, and the two arrays.                   *)
Slice == [offset : Int, typed : BOOLEAN, values : Seq(Int), indices : Seq(Int)]

EntryAt(slice, position) ==
    LET i == position - slice.offset + 1
    IN  [value |-> slice.values[i], index |-> slice.indices[i]]

(* The checks _apply_profile_slice makes before it touches the profile, of *)
(* a slice for positions [start, stop) matched with [first, last).         *)
Acceptable(slice, start, stop, first, last) ==
    /\ slice.typed
    /\ slice.offset = start
    /\ Len(slice.values) = stop - start
    /\ Len(slice.indices) = stop - start
    /\ \A p \in Positions(start, stop) :
          /\ EntryAt(slice, p) \in ProperEntry
          /\ EntryAt(slice, p) = Sentinel
                \/ EntryAt(slice, p).index \in Positions(first, last)

(* The side ("column" or "row") of the profile with the slice merged in.   *)
ApplySlice(profile, side, slice, start, stop) ==
    [cell \in DOMAIN profile |->
        IF cell[1] = side /\ cell[2] \in Positions(start, stop)
        THEN Better(EntryAt(slice, cell[2]), profile[cell])
        ELSE profile[cell]]
=============================================================================
