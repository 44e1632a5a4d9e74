------------------------------ MODULE ShardMap ------------------------------
(***************************************************************************)
(* Shard maps: how rows of the global table are assigned to shards         *)
(* (coordinator/shard_config.go, validateShardMap of coordinator.go,       *)
(* controlstore/shard_config.go).  A shard is a record of its id, its rows *)
(* start .. end - 1, its active pair and its standby pair or NoPair; a map *)
(* is a sequence of shards.  Addresses are never empty, the parser sees to *)
(* that.                                                                   *)
(***************************************************************************)
EXTENDS DatasetScale, Sequences, Functions

CONSTANT NoPair \* no standby is configured

RowOrder(a, b) == a.start < b.start \/ (a.start = b.start /\ a.id <= b.id)

\* The shards in the order of validateShardMap.
SortedByRow(shards) ==
  LET place == CHOOSE p \in Bijection(DOMAIN shards, DOMAIN shards) :
                 \A i, j \in DOMAIN shards : i < j => RowOrder(shards[p[i]], shards[p[j]])
  IN [i \in DOMAIN shards |-> shards[place[i]]]

\* The shards in the order of buildShardConfigFromInventory.
SortedById(shards) ==
  LET place == CHOOSE p \in Bijection(DOMAIN shards, DOMAIN shards) :
                 \A i, j \in DOMAIN shards : i < j => shards[p[i]].id <= shards[p[j]].id
  IN [i \in DOMAIN shards |-> shards[place[i]]]

\* What validateShardMap demands: shards of full height, from row 0 on,
\* without gap or overlap, under different ids.
ValidShardMap(shards) ==
  LET s == SortedByRow(shards) IN
  /\ Len(s) > 0
  /\ s[1].start = 0
  /\ \A i \in DOMAIN s :
       /\ s[i].end - s[i].start = Height
       /\ i > 1 => s[i].start = s[i - 1].end
       /\ \A j \in DOMAIN s : s[i].id = s[j].id => i = j

\* Variant: the end row is taken for a row of the shard.
RouteShard_EndIncluded(shards, row) ==
  LET owns(i) == shards[i].start <= row /\ row <= shards[i].end
      hits == {i \in DOMAIN shards : owns(i)}
  IN IF hits = {} THEN 0 ELSE CHOOSE i \in hits : \A j \in hits : i <= j

\* routeShard: index of the first shard that has the row, 0 for none.
RouteShard(shards, row) ==
  LET owns(i) == shards[i].start <= row /\ row < shards[i].end
      hits == {i \in DOMAIN shards : owns(i)}
  IN IF hits = {} THEN 0 ELSE CHOOSE i \in hits : \A j \in hits : i <= j

\* buildShardConfigFromInventory: the first n shards by id, rows given anew.
BuildShards(inventory, n) ==
  LET byId == SortedById(inventory) IN
  [i \in 1 .. n |-> [byId[i] EXCEPT !.start = (i - 1) * Height, !.end = i * Height]]

\* The bound on n; the map it builds passes validateShardMap.
CanBuild(inventory, n) == 0 < n /\ n <= Len(inventory)

\* promotedShardEvaluation: active and standby of one shard change places.
Swapped(shard) == [shard EXCEPT !.active = shard.standby, !.standby = shard.active]

\* Variant: an exchange of active and standby is not expected.
InventoryContains_AsGiven(inventory, shards) ==
  \A i \in DOMAIN shards : \E j \in DOMAIN inventory : inventory[j] = shards[i]

\* validateShardInventoryContainsConfig, with shardsEqual and
\* shardsEqualWithActiveStandbySwapped.
InventoryContains(inventory, shards) ==
  \A i \in DOMAIN shards : \E j \in DOMAIN inventory :
    \/ inventory[j] = shards[i]
    \/ inventory[j].standby # NoPair /\ Swapped(inventory[j]) = shards[i]
=============================================================================
