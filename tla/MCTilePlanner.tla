--------------------------- MODULE MCTilePlanner ----------------------------
(* plan_1nn_tiles on joins of up to six by five subsequences, with limits  *)
(* that let tiles of none, one, two, three or all of them through.         *)
EXTENDS TilePlanner

SelfJoins ==
    {[rows |-> n, columns |-> n, window |-> 3, self_join |-> TRUE,
      keep_rows |-> FALSE, tile_size |-> size, exclusion_zone |-> None,
      max_tile_bytes |-> bytes, max_message_bytes |-> 10000] :
        n \in 0 .. 6, size \in {None, 0, 1, 2, 4}, bytes \in {179, 400, 659, 4000}}

ABJoins ==
    {[rows |-> r, columns |-> c, window |-> 3, self_join |-> FALSE,
      keep_rows |-> keep, tile_size |-> size, exclusion_zone |-> zone,
      max_tile_bytes |-> 700, max_message_bytes |-> message] :
        r \in 1 .. 5, c \in {1, 4, 6}, keep \in BOOLEAN, size \in {None, 2, 9},
        zone \in {None, -1}, message \in {4120, 4139, 5000}}

Mismatched ==
    {[rows |-> 2, columns |-> 3, window |-> w, self_join |-> TRUE,
      keep_rows |-> FALSE, tile_size |-> None, exclusion_zone |-> 0,
      max_tile_bytes |-> 4000, max_message_bytes |-> 10000] : w \in {2, 4}}

MCRequests == SelfJoins \cup ABJoins \cup Mismatched
=============================================================================
