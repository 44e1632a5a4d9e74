---------------------------- MODULE ShardTopology ----------------------------
(***************************************************************************)
(* The life of the record "shard-config" under one coordinator at a time:  *)
(* the constructor that seeds or accepts it, recommendations, their        *)
(* application, promotions and restarts, with the maps and the policy in   *)
(* full.  Operations follow one another here; EpochCycle and Promotion     *)
(* have their interleavings.                                               *)
(***************************************************************************)
EXTENDS ShardMap

CONSTANTS
  Inventory,   \* the -shard flags
  Flags,       \* the -scaling flags
  InitialFlag, \* -initial-active-shards
  MaxAccepted, \* bound: accepted uploads of an epoch
  MaxVersion   \* bound: versions of the configuration

Ids == {Inventory[i].id : i \in DOMAIN Inventory}
Pairs == {Inventory[i].active : i \in DOMAIN Inventory} \cup {Inventory[i].standby : i \in DOMAIN Inventory}

\* What parsing and validating the flags leaves.
ASSUME InventoryAssumption ==
  /\ Inventory \in Seq([id : Nat, start : Nat, end : Nat, active : Pairs \ {NoPair}, standby : Pairs])
  /\ ValidShardMap(Inventory)
ASSUME FlagsAssumption == Flags \in Policy
ASSUME InitialFlagAssumption == InitialFlag \in 0 .. Len(Inventory)

VARIABLES
  config,   \* version and shards; version 0 for no record
  running,  \* a coordinator runs
  refused,  \* the last start was refused
  policy,   \* c.scalingConfig
  client,   \* shard id -> pair its client talks to, NoPair for none
  latest,   \* "scaling#latest"
  previous  \* history: the recommendation before, if the latest followed its application

vars == <<config, running, refused, policy, client, latest, previous>>

Count == Len(config.shards)

NoRecommendation == [version |-> 0, action |-> "none", count |-> 0, from |-> 0, accepted |-> 0]

Init ==
  /\ config = [version |-> 0, shards |-> << >>]
  /\ running = FALSE
  /\ refused = FALSE
  /\ policy = Flags
  /\ client = [s \in Ids |-> NoPair]
  /\ latest = NoRecommendation
  /\ previous = NoRecommendation

\* connectShardConfig: shards that have a client keep it.
Connected(clients, shards) ==
  [s \in Ids |-> IF clients[s] = NoPair /\ \E i \in DOMAIN shards : shards[i].id = s
                 THEN shards[CHOOSE i \in DOMAIN shards : shards[i].id = s].active
                 ELSE clients[s]]

\* initialShardConfigSeed.
Seed == IF InitialFlag = 0 THEN SortedByRow(Inventory) ELSE BuildShards(Inventory, InitialFlag)

\* The constructor: ensureShardConfig, the policy, connectShards.
Start ==
  LET next == IF config.version = 0 THEN [version |-> 1, shards |-> Seed] ELSE config
      resolved == ResolveScalingPolicy(Len(next.shards), Flags)
      contained == config.version > 0 => InventoryContains(Inventory, config.shards)
      accepted == contained /\ ValidPolicy(Len(next.shards), resolved)
  IN
  /\ ~running
  /\ ~refused
  /\ config' = IF contained THEN next ELSE config
  /\ running' = accepted
  /\ refused' = ~accepted
  /\ policy' = IF accepted THEN resolved ELSE policy
  /\ client' = IF accepted THEN Connected([s \in Ids |-> NoPair], next.shards) ELSE client
  /\ UNCHANGED <<latest, previous>>

Stop ==
  /\ running
  /\ running' = FALSE
  /\ client' = [s \in Ids |-> NoPair]
  /\ UNCHANGED <<config, refused, policy, latest, previous>>

\* An epoch is completed: the recommendation replaces "scaling#latest".
CompleteEpoch(accepted) ==
  LET rec == ComputeNextDatasetScale(Count, accepted, policy) IN
  /\ running
  /\ latest' = [version |-> config.version, action |-> rec.action, count |-> rec.count,
                from |-> Count, accepted |-> accepted]
  /\ previous' = IF latest.count = Count /\ latest.from # Count THEN latest ELSE NoRecommendation
  /\ UNCHANGED <<config, running, refused, policy, client>>

\* evaluateScalingApply and ApplyScalingRecommendation.
Apply ==
  LET shards == BuildShards(Inventory, latest.count) IN
  /\ running
  /\ config.version < MaxVersion
  /\ latest.version = config.version
  /\ latest.action \in {"grow", "shrink"}
  /\ CanBuild(Inventory, latest.count)
  /\ latest.count # Count
  /\ client' = Connected(client, shards)
  /\ config' = [version |-> config.version + 1, shards |-> shards]
  /\ UNCHANGED <<running, refused, policy, latest, previous>>

\* A promotion that the standby's health allows.
Promote(i) ==
  /\ running
  /\ config.version < MaxVersion
  /\ i \in DOMAIN config.shards
  /\ config.shards[i].standby # NoPair
  /\ config' = [version |-> config.version + 1,
                shards |-> [config.shards EXCEPT ![i] = Swapped(@)]]
  /\ client' = [client EXCEPT ![config.shards[i].id] = config.shards[i].standby]
  /\ UNCHANGED <<running, refused, policy, latest, previous>>

Next ==
  \/ Start \/ Stop \/ Apply
  \/ \E accepted \in 0 .. MaxAccepted : CompleteEpoch(accepted)
  \/ \E i \in DOMAIN Inventory : Promote(i)

Spec == Init /\ [][Next]_vars

-----------------------------------------------------------------------------
\* Whatever was applied and promoted, every row a client may draw from the
\* table of the moment is routed to a shard, the row it writes there is the
\* one the client encrypted for (row % TABLE_HEIGHT), no two rows of the
\* table share a row of a shard, and the running coordinator has a client
\* for one of that shard's pairs (not always the active one: an application
\* takes the pairs of the inventory and leaves promoted clients as they are).
EveryRowRouted ==
  \A row \in 0 .. Count * Height - 1 :
    LET i == RouteShard(config.shards, row) IN
    /\ i > 0
    /\ row - config.shards[i].start = row % Height
    /\ \A j \in DOMAIN config.shards : config.shards[i].id = config.shards[j].id => i = j
    /\ running => client[config.shards[i].id] \in
                    {config.shards[i].active, config.shards[i].standby} \ {NoPair}

\* A coordinator that is restarted with its flags accepts the configuration
\* its predecessors left, after any applications and promotions.
RestartAccepted == ~refused

\* The policy never recommends more shards than the budget cap.
WithinBudget == latest.count <= policy.max

\* Hysteresis: after a recommendation was applied, the same load does not
\* lead to the opposite recommendation.
NoFlapping ==
  previous.accepted = latest.accepted =>
    ~ {"grow", "shrink"} \subseteq {previous.action, latest.action}
=============================================================================
