--------------------------- MODULE MCShardTopology ---------------------------
(***************************************************************************)
(* ShardTopology with the inventories and flags of the                     *)
(* MCShardTopology_*.cfg files.                                            *)
(***************************************************************************)
EXTENDS ShardTopology

CONSTANTS A0, B0, A1, B1, A2, A3

MCShard(id, i, active, standby) ==
  [id |-> id, start |-> i * Height, end |-> (i + 1) * Height, active |-> active, standby |-> standby]

\* Four shards, two of them with a standby, given in another order than theirs.
InventoryShuffled ==
  << MCShard(2, 2, A2, NoPair), MCShard(0, 0, A0, B0), MCShard(1, 1, A1, B1), MCShard(3, 3, A3, NoPair) >>

\* Default thresholds and multiplier.
MCFlags(min, max) == [min |-> min, max |-> max, rows |-> 0, up |-> 4, down |-> 1, multiplier |-> 2]

FlagsWide == MCFlags(1, 3)
=============================================================================
