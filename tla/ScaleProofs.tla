----------------------------- MODULE ScaleProofs -----------------------------
(***************************************************************************)
(* Proofs about ShardTopology: the scaling policy stays within its budget  *)
(* and does not flap; every row of every map that is built, promoted and   *)
(* found again after a restart is routed; and a restart accepts the map.   *)
(* The last two rest on what sorting returns.  That needs no induction     *)
(* over data: a shard's place is one more than the number of shards that   *)
(* come before it, and what is left of induction is the least number of a  *)
(* set that is not empty.                                                  *)
(***************************************************************************)
EXTENDS ShardTopology, FiniteSetTheorems, WellFoundedInduction, TLAPS

USE HeightAssumption

\* Rounding n / m up gives at most n.
LEMMA CeilBound ==
  ASSUME NEW n \in Nat \ {0}, NEW m \in Nat \ {0}
  PROVE  /\ (n + m - 1) \div m \in Int
         /\ (n + m - 1) \div m <= n
  <1> DEFINE q == (n + m - 1) \div m
             r == (n + m - 1) % m
  <1>1. /\ q \in Int /\ r \in Int
        /\ n + m - 1 = m * q + r /\ 0 <= r /\ r < m
    BY Z3
  <1> HIDE DEF q, r
  <1>2. SUFFICES ASSUME q >= n + 1 PROVE FALSE
    BY <1>1 DEF q
  <1>3. PICK d \in Nat : q = n + 1 + d
    <2>1. q - n - 1 \in Nat
      BY <1>1, <1>2
    <2> QED BY <1>1, <2>1
  <1>4. m * q = m * n + m + m * d
    BY <1>3, Z3
  <1>5. m * d >= 0 /\ m * d \in Int
    BY Z3
  <1>6. m * n >= n /\ m * n \in Int
    BY Z3
  <1> QED BY <1>1, <1>4, <1>5, <1>6

\* A valid policy recommends between one shard and the maximum.
LEMMA ScaleWithinBudget ==
  ASSUME NEW n \in Nat, NEW accepted \in Nat, NEW p \in Policy, ValidPolicy(n, p)
  PROVE  /\ ComputeNextDatasetScale(n, accepted, p).count \in Int
         /\ ComputeNextDatasetScale(n, accepted, p).count <= p.max
  <1>1. /\ n \in Nat \ {0} /\ p.multiplier \in Nat \ {0} /\ n <= p.max
        /\ p.min \in Int /\ p.max \in Int /\ p.min <= p.max
    BY DEF ValidPolicy, Policy
  <1>2. GrowTarget(n, p) \in Int /\ GrowTarget(n, p) <= p.max
    <2>1. n * p.multiplier \in Int
      BY <1>1
    <2> QED BY <1>1, <2>1 DEF GrowTarget, Smaller
  <1>3. ShrinkTarget(n, p) \in Int /\ ShrinkTarget(n, p) <= p.max
    <2>1. /\ (n + p.multiplier - 1) \div p.multiplier \in Int
          /\ (n + p.multiplier - 1) \div p.multiplier <= n
      BY <1>1, CeilBound
    <2> QED BY <1>1, <2>1 DEF ShrinkTarget, Larger
  <1>4. ComputeNextDatasetScale(n, accepted, p).count \in {n, GrowTarget(n, p), ShrinkTarget(n, p)}
    BY DEF ComputeNextDatasetScale
  <1> QED BY <1>1, <1>2, <1>3, <1>4

\* A map built from the inventory has as many shards as it was asked for.
LEMMA BuildLength ==
  ASSUME NEW n \in Nat
  PROVE  /\ Len(BuildShards(Inventory, n)) = n
         /\ DOMAIN BuildShards(Inventory, n) = 1 .. n
  BY DEF BuildShards

\* The seed is a sequence.
LEMMA SeedLength == Len(Seed) \in Nat /\ DOMAIN Seed = 1 .. Len(Seed)
  <1>1. CASE InitialFlag = 0
    <2>1. Len(Inventory) \in Nat /\ DOMAIN Inventory = 1 .. Len(Inventory)
      BY InventoryAssumption
    <2> QED BY <1>1, <2>1 DEF Seed, SortedByRow
  <1>2. CASE InitialFlag # 0
    <2>1. InitialFlag \in Nat
      BY InitialFlagAssumption, InventoryAssumption
    <2> QED BY <1>2, <2>1, BuildLength DEF Seed
  <1> QED BY <1>1, <1>2

\* The invariant behind WithinBudget: the cap is the flag's, a running
\* coordinator has validated its policy for the configuration it has, and
\* the last recommendation is within the cap.
BudgetInv ==
  /\ policy \in Policy
  /\ policy.max = Flags.max
  /\ Count \in Nat
  /\ DOMAIN config.shards = 1 .. Count
  /\ running => ValidPolicy(Count, policy)
  /\ latest.count \in Int
  /\ latest.count <= Flags.max

\* A resolved policy keeps a maximum that was given.
LEMMA ResolveKeepsMax ==
  ASSUME NEW n \in Nat, Flags.max # 0
  PROVE  /\ ResolveScalingPolicy(n, Flags) \in Policy
         /\ ResolveScalingPolicy(n, Flags).max = Flags.max
  BY FlagsAssumption DEF ResolveScalingPolicy, Policy

\* The constructor establishes the policy's validity, or does not run.
LEMMA StartBudget ==
  ASSUME BudgetInv, Start, Flags.max # 0
  PROVE  BudgetInv'
  <1> DEFINE next == IF config.version = 0 THEN [version |-> 1, shards |-> Seed] ELSE config
             n == Len(next.shards)
             resolved == ResolveScalingPolicy(n, Flags)
             contained == config.version > 0 => InventoryContains(Inventory, config.shards)
             accepted == contained /\ ValidPolicy(n, resolved)
  <1>1. n \in Nat /\ DOMAIN next.shards = 1 .. n
    BY SeedLength DEF BudgetInv, Count
  <1>2. resolved \in Policy /\ resolved.max = Flags.max
    BY <1>1, ResolveKeepsMax
  <1>3. /\ config' = IF contained THEN next ELSE config
        /\ running' = accepted
        /\ policy' = IF accepted THEN resolved ELSE policy
        /\ latest' = latest
    BY DEF Start
  <1>4. accepted => /\ config' = next
                    /\ policy' = resolved
                    /\ ValidPolicy(n, resolved)
    BY <1>3
  <1>5. config' \in {next, config} /\ policy' \in {resolved, policy}
    BY <1>3
  <1> HIDE DEF next, resolved, contained
  <1>6. Count' \in Nat /\ DOMAIN config'.shards = 1 .. Count'
    BY <1>1, <1>5 DEF BudgetInv, Count
  <1>7. policy' \in Policy /\ policy'.max = Flags.max
    BY <1>2, <1>5 DEF BudgetInv
  <1>8. running' => ValidPolicy(Count', policy')
    BY <1>3, <1>4 DEF Count
  <1> QED BY <1>3, <1>6, <1>7, <1>8 DEF BudgetInv

\* No step leaves the invariant.
LEMMA BudgetStep ==
  ASSUME BudgetInv, [Next]_vars, Flags.max # 0
  PROVE  BudgetInv'
  <1>1. CASE Start
    BY <1>1, StartBudget
  <1>2. CASE Stop
    BY <1>2 DEF Stop, BudgetInv, Count
  <1>3. CASE Apply
    <2>1. /\ latest.count \in Nat \ {0} /\ latest.count <= policy.max
          /\ config'.shards = BuildShards(Inventory, latest.count)
          /\ ValidPolicy(Count, policy)
          /\ UNCHANGED <<running, policy, latest>>
      BY <1>3 DEF Apply, CanBuild, BudgetInv
    <2>2. Count' = latest.count /\ DOMAIN config'.shards = 1 .. Count'
      BY <2>1, BuildLength DEF Count
    <2>3. ValidPolicy(Count', policy')
      BY <2>1, <2>2 DEF ValidPolicy
    <2> QED BY <2>1, <2>2, <2>3 DEF BudgetInv
  <1>4. ASSUME NEW accepted \in 0 .. MaxAccepted, CompleteEpoch(accepted)
        PROVE  BudgetInv'
    <2>1. /\ accepted \in Int /\ ValidPolicy(Count, policy)
          /\ latest'.count = ComputeNextDatasetScale(Count, accepted, policy).count
          /\ UNCHANGED <<config, running, policy>>
      BY <1>4 DEF CompleteEpoch, BudgetInv
    <2>2. latest'.count \in Int /\ latest'.count <= Flags.max
      BY <2>1, ScaleWithinBudget DEF BudgetInv
    <2> QED BY <2>1, <2>2 DEF BudgetInv, Count
  <1>5. ASSUME NEW i \in DOMAIN Inventory, Promote(i)
        PROVE  BudgetInv'
    <2>1. /\ config'.shards = [config.shards EXCEPT ![i] = Swapped(@)]
          /\ UNCHANGED <<running, policy, latest>>
      BY <1>5 DEF Promote
    <2>2. DOMAIN config'.shards = 1 .. Count /\ Count \in Nat
      BY <2>1 DEF BudgetInv
    <2>3. Count' = Count
      BY <2>1, <2>2 DEF Count
    <2> QED BY <2>1, <2>2, <2>3 DEF BudgetInv
  <1>6. CASE UNCHANGED vars
    BY <1>6 DEF vars, BudgetInv, Count
  <1> QED BY <1>1, <1>2, <1>3, <1>4, <1>5, <1>6 DEF Next

\* With a budget cap given (-scaling-max-shards), no recommendation, over any
\* number of epochs, applications, promotions and restarts, asks for more
\* shards than the cap.
THEOREM BudgetKept ==
  ASSUME Flags.max > 0
  PROVE  Spec => []WithinBudget
  <1>1. Init => BudgetInv
    BY FlagsAssumption DEF Init, BudgetInv, Count, NoRecommendation, Policy
  <1>2. BudgetInv /\ [Next]_vars => BudgetInv'
    BY BudgetStep, FlagsAssumption DEF Policy
  <1>3. BudgetInv => WithinBudget
    BY DEF BudgetInv, WithinBudget
  <1> QED BY <1>1, <1>2, <1>3, PTL DEF Spec

-----------------------------------------------------------------------------
(***************************************************************************)
(* Hysteresis                                                              *)
(***************************************************************************)

\* Rounding n / m up and multiplying by m does not fall below n.
LEMMA CeilCovers ==
  ASSUME NEW n \in Nat \ {0}, NEW m \in Nat \ {0}
  PROVE  /\ (n + m - 1) \div m \in Int
         /\ n <= ((n + m - 1) \div m) * m
  <1> DEFINE q == (n + m - 1) \div m
             r == (n + m - 1) % m
  <1>1. /\ q \in Int /\ r \in Int
        /\ n + m - 1 = m * q + r /\ 0 <= r /\ r < m
    BY Z3
  <1> HIDE DEF q, r
  <1>2. q * m = m * q /\ m * q \in Int
    BY <1>1, Z3
  <1>3. n <= q * m
    BY <1>1, <1>2
  <1> QED BY <1>1, <1>3 DEF q

\* Multiplication by numbers that are not negative keeps an order.
LEMMA ProductMonotone ==
  ASSUME NEW x \in Int, NEW y \in Int, NEW z \in Int, x <= y, z >= 0
  PROVE  x * z <= y * z
  <1>1. (y - x) * z >= 0
    BY Z3
  <1>2. (y - x) * z = y * z - x * z
    BY Z3
  <1>3. y * z \in Int /\ x * z \in Int
    BY Z3
  <1> QED BY <1>1, <1>2, <1>3

\* A load that is high for n shards and low for m is one for which m exceeds
\* the multiple of n that a change of scale reaches.
LEMMA LoadsApart ==
  ASSUME NEW n \in Int, NEW m \in Int, NEW accepted \in Int, NEW rows \in Int,
         NEW up \in Int, NEW down \in Int, NEW multiplier \in Int,
         n > 0, rows > 0, down >= 0, up > down * multiplier,
         accepted >= up * n * rows, accepted <= down * m * rows
  PROVE  m > n * multiplier
  <1>1. SUFFICES ASSUME m <= n * multiplier PROVE FALSE
    <2>1. n * multiplier \in Int
      BY Z3
    <2> QED BY <1>1, <2>1
  <1>2. down * rows >= 0 /\ n * rows > 0
    BY Z3
  <1>3. down * rows \in Int /\ n * multiplier \in Int /\ n * rows \in Int
        /\ down * multiplier + 1 \in Int
    BY Z3
  <1>4. m * (down * rows) <= (n * multiplier) * (down * rows)
    BY <1>1, <1>2, <1>3, ProductMonotone
  <1>5. (down * multiplier + 1) * (n * rows) <= up * (n * rows)
    <2>1. down * multiplier + 1 <= up /\ n * rows >= 0
      BY <1>2, <1>3
    <2> QED BY <1>3, <2>1, ProductMonotone
  <1>6. /\ m * (down * rows) = down * m * rows
        /\ (n * multiplier) * (down * rows) = (down * multiplier) * (n * rows)
        /\ (down * multiplier + 1) * (n * rows) = (down * multiplier) * (n * rows) + n * rows
        /\ up * (n * rows) = up * n * rows
    BY Z3
  <1>7. /\ down * m * rows \in Int /\ up * n * rows \in Int
        /\ (down * multiplier) * (n * rows) \in Int
    BY Z3
  <1> QED BY <1>2, <1>3, <1>4, <1>5, <1>6, <1>7

\* rowsPerShard, as every start of a coordinator resolves it.
Rows == IF Flags.rows = 0 THEN Height ELSE Flags.rows

\* What an action of a recommendation says of its load and of its target.
Justified(r) ==
  /\ r.from \in Int /\ r.count \in Int /\ r.accepted \in Int
  /\ r.action \in {"grow", "shrink"} => r.from > 0 /\ Rows > 0 /\ Flags.down >= 0
  /\ r.action = "grow" =>
       /\ r.accepted >= Flags.up * r.from * Rows
       /\ r.count <= r.from * Flags.multiplier
  /\ r.action = "shrink" =>
       /\ r.accepted <= Flags.down * r.from * Rows
       /\ r.from <= r.count * Flags.multiplier

\* The invariant behind NoFlapping: both recommendations are justified by the
\* flags, and the latest was computed for the count the one before reached.
HysteresisInv ==
  /\ policy \in Policy
  /\ policy.up = Flags.up /\ policy.down = Flags.down /\ policy.multiplier = Flags.multiplier
  /\ running => policy.rows = Rows
  /\ Count \in Nat /\ DOMAIN config.shards = 1 .. Count
  /\ Justified(latest) /\ Justified(previous)
  /\ previous.action # "none" => latest.from = previous.count

\* ComputeNextDatasetScale justifies what it recommends.
LEMMA ScaleJustified ==
  ASSUME NEW n \in Nat, NEW accepted \in Int, NEW p \in Policy, NEW version,
         p.up = Flags.up, p.down = Flags.down, p.multiplier = Flags.multiplier, p.rows = Rows
  PROVE  Justified([version |-> version, action |-> ComputeNextDatasetScale(n, accepted, p).action,
                    count |-> ComputeNextDatasetScale(n, accepted, p).count,
                    from |-> n, accepted |-> accepted])
  <1> DEFINE rec == ComputeNextDatasetScale(n, accepted, p)
  <1>1. /\ p.up \in Int /\ p.down \in Int /\ p.multiplier \in Int /\ p.rows \in Int
        /\ p.min \in Int /\ p.max \in Int
    BY DEF Policy
  <1>2. \/ rec = [action |-> "keep", count |-> n]
        \/ /\ ValidPolicy(n, p) /\ LoadIsHigh(n, accepted, p)
           /\ rec = [action |-> "grow", count |-> GrowTarget(n, p)]
        \/ /\ ValidPolicy(n, p) /\ LoadIsLow(n, accepted, p)
           /\ rec = [action |-> "shrink", count |-> ShrinkTarget(n, p)]
    BY DEF ComputeNextDatasetScale
  <1> HIDE DEF rec
  <1>3. CASE rec = [action |-> "keep", count |-> n]
    BY <1>3 DEF Justified, rec
  <1>4. CASE /\ ValidPolicy(n, p) /\ LoadIsHigh(n, accepted, p)
             /\ rec = [action |-> "grow", count |-> GrowTarget(n, p)]
    <2>1. n * p.multiplier \in Int
      BY <1>1, Z3
    <2>2. GrowTarget(n, p) \in Int /\ GrowTarget(n, p) <= n * p.multiplier
      BY <1>1, <2>1 DEF GrowTarget, Smaller
    <2>3. n > 0 /\ Rows > 0 /\ Flags.down >= 0 /\ accepted >= Flags.up * n * Rows
      BY <1>4 DEF ValidPolicy, LoadIsHigh
    <2> HIDE DEF Rows
    <2> QED BY <1>4, <2>2, <2>3 DEF Justified, rec
  <1>5. CASE /\ ValidPolicy(n, p) /\ LoadIsLow(n, accepted, p)
             /\ rec = [action |-> "shrink", count |-> ShrinkTarget(n, p)]
    <2> DEFINE q == (n + p.multiplier - 1) \div p.multiplier
    <2>1. n \in Nat \ {0} /\ p.multiplier \in Nat \ {0}
      BY <1>1, <1>5 DEF ValidPolicy
    <2>2. q \in Int /\ n <= q * p.multiplier
      BY <2>1, CeilCovers
    <2>3. ShrinkTarget(n, p) \in Int /\ q <= ShrinkTarget(n, p)
      <3>1. ShrinkTarget(n, p) = Larger(q, p.min)
        BY DEF ShrinkTarget
      <3> HIDE DEF q
      <3> QED BY <1>1, <2>2, <3>1 DEF Larger
    <2> HIDE DEF q
    <2>4. q * p.multiplier <= ShrinkTarget(n, p) * p.multiplier
      BY <2>1, <2>2, <2>3, ProductMonotone
    <2>5. q * p.multiplier \in Int /\ ShrinkTarget(n, p) * p.multiplier \in Int
      BY <1>1, <2>2, <2>3, Z3
    <2>6. n <= ShrinkTarget(n, p) * p.multiplier
      BY <2>1, <2>2, <2>4, <2>5
    <2>7. n > 0 /\ Rows > 0 /\ Flags.down >= 0 /\ accepted <= Flags.down * n * Rows
      BY <1>5 DEF ValidPolicy, LoadIsLow
    <2> HIDE DEF Rows
    <2> QED BY <1>5, <2>3, <2>6, <2>7 DEF Justified, rec
  <1> QED BY <1>2, <1>3, <1>4, <1>5

\* No recommendation is there at first.
LEMMA InitHysteresis == Init => HysteresisInv
  BY FlagsAssumption DEF Init, HysteresisInv, Count, Justified, NoRecommendation

\* A start resolves the flags and leaves the recommendations alone.
LEMMA StartHysteresis ==
  ASSUME HysteresisInv, Start
  PROVE  HysteresisInv'
  <1> DEFINE next == IF config.version = 0 THEN [version |-> 1, shards |-> Seed] ELSE config
             n == Len(next.shards)
             resolved == ResolveScalingPolicy(n, Flags)
             contained == config.version > 0 => InventoryContains(Inventory, config.shards)
             accepted == contained /\ ValidPolicy(n, resolved)
  <1>1. n \in Nat /\ DOMAIN next.shards = 1 .. n
    BY SeedLength DEF HysteresisInv, Count
  <1>2. /\ resolved \in Policy /\ resolved.rows = Rows
        /\ resolved.up = Flags.up /\ resolved.down = Flags.down
        /\ resolved.multiplier = Flags.multiplier
    BY <1>1, FlagsAssumption DEF ResolveScalingPolicy, Policy, Rows
  <1>3. /\ config' = IF contained THEN next ELSE config
        /\ running' = accepted
        /\ policy' = IF accepted THEN resolved ELSE policy
        /\ UNCHANGED <<latest, previous>>
    BY DEF Start
  <1> HIDE DEF next, resolved, contained, accepted
  <1>4. config' \in {next, config} /\ policy' \in {resolved, policy}
        /\ (running' => policy' = resolved)
    BY <1>3
  <1>5. Count' \in Nat /\ DOMAIN config'.shards = 1 .. Count'
    BY <1>1, <1>4 DEF HysteresisInv, Count, n
  <1>6. /\ policy' \in Policy /\ policy'.up = Flags.up /\ policy'.down = Flags.down
        /\ policy'.multiplier = Flags.multiplier /\ (running' => policy'.rows = Rows)
    BY <1>2, <1>4 DEF HysteresisInv
  <1> QED BY <1>3, <1>5, <1>6 DEF HysteresisInv, Justified, Rows

\* No step leaves the invariant.
LEMMA HysteresisStep ==
  ASSUME HysteresisInv, [Next]_vars
  PROVE  HysteresisInv'
  <1>1. CASE Start
    BY <1>1, StartHysteresis
  <1>2. CASE Stop
    BY <1>2 DEF Stop, HysteresisInv, Count, Justified, Rows
  <1>3. CASE Apply
    <2>1. /\ latest.count \in Nat
          /\ config'.shards = BuildShards(Inventory, latest.count)
          /\ UNCHANGED <<running, policy, latest, previous>>
      BY <1>3 DEF Apply, CanBuild, HysteresisInv, Justified
    <2>2. Count' \in Nat /\ DOMAIN config'.shards = 1 .. Count'
      BY <2>1, BuildLength DEF Count
    <2> QED BY <2>1, <2>2 DEF HysteresisInv, Justified, Rows
  <1>4. ASSUME NEW accepted \in 0 .. MaxAccepted, CompleteEpoch(accepted)
        PROVE  HysteresisInv'
    <2> DEFINE rec == ComputeNextDatasetScale(Count, accepted, policy)
    <2>1. /\ accepted \in Int /\ running
          /\ latest' = [version |-> config.version, action |-> rec.action, count |-> rec.count,
                        from |-> Count, accepted |-> accepted]
          /\ previous' = IF latest.count = Count /\ latest.from # Count
                         THEN latest ELSE NoRecommendation
          /\ UNCHANGED <<config, running, policy>>
      BY <1>4 DEF CompleteEpoch
    <2>2. Justified(latest)'
      <3>1. Justified([version |-> config.version, action |-> rec.action, count |-> rec.count,
                       from |-> Count, accepted |-> accepted])
        BY <2>1, ScaleJustified DEF HysteresisInv
      <3> QED BY <2>1, <3>1 DEF Justified, Rows
    <2>3. Justified(previous)'
      BY <2>1 DEF HysteresisInv, Justified, NoRecommendation, Rows
    <2>4. previous'.action # "none" => latest'.from = previous'.count
      BY <2>1 DEF NoRecommendation
    <2> QED BY <2>1, <2>2, <2>3, <2>4 DEF HysteresisInv, Count, Rows
  <1>5. ASSUME NEW i \in DOMAIN Inventory, Promote(i)
        PROVE  HysteresisInv'
    <2>1. /\ config'.shards = [config.shards EXCEPT ![i] = Swapped(@)]
          /\ UNCHANGED <<running, policy, latest, previous>>
      BY <1>5 DEF Promote
    <2>2. DOMAIN config'.shards = 1 .. Count /\ Count \in Nat
      BY <2>1 DEF HysteresisInv
    <2>3. Count' = Count
      BY <2>1, <2>2 DEF Count
    <2> QED BY <2>1, <2>2, <2>3 DEF HysteresisInv, Justified, Rows
  <1>6. CASE UNCHANGED vars
    BY <1>6 DEF vars, HysteresisInv, Count, Justified, Rows
  <1> QED BY <1>1, <1>2, <1>3, <1>4, <1>5, <1>6 DEF Next

\* When the thresholds are further apart than one change of scale moves the
\* density (the defaults are: 4 > 1 * 2), the same load after a change that
\* was applied never asks for the change back.  Validation demands less: it
\* accepts any -scaling-up-density above -scaling-down-density.
THEOREM ScaleDoesNotFlap ==
  ASSUME Flags.up > Flags.down * Flags.multiplier
  PROVE  Spec => []NoFlapping
  <1>1. Init => HysteresisInv
    BY InitHysteresis
  <1>2. HysteresisInv /\ [Next]_vars => HysteresisInv'
    BY HysteresisStep
  <1>3. HysteresisInv => NoFlapping
    <2> SUFFICES ASSUME HysteresisInv, previous.accepted = latest.accepted,
                        {"grow", "shrink"} \subseteq {previous.action, latest.action}
                 PROVE  FALSE
      BY DEF NoFlapping
    <2>1. /\ Flags.up \in Int /\ Flags.down \in Int /\ Flags.multiplier \in Int /\ Rows \in Int
      BY FlagsAssumption DEF Policy, Rows
    <2>2. /\ Justified(latest) /\ Justified(previous) /\ latest.from = previous.count
          /\ \/ previous.action = "grow" /\ latest.action = "shrink"
             \/ previous.action = "shrink" /\ latest.action = "grow"
      BY DEF HysteresisInv
    <2> HIDE DEF Rows
    <2>3. CASE previous.action = "grow" /\ latest.action = "shrink"
      <3>1. latest.from > previous.from * Flags.multiplier
        BY <2>1, <2>2, <2>3, LoadsApart DEF Justified
      <3>2. latest.from <= previous.from * Flags.multiplier
        BY <2>2, <2>3 DEF Justified
      <3>3. latest.from \in Int /\ previous.from * Flags.multiplier \in Int
        BY <2>1, <2>2, Z3 DEF Justified
      <3> QED BY <3>1, <3>2, <3>3
    <2>4. CASE previous.action = "shrink" /\ latest.action = "grow"
      <3>1. previous.from > latest.from * Flags.multiplier
        BY <2>1, <2>2, <2>4, LoadsApart DEF Justified
      <3>2. previous.from <= latest.from * Flags.multiplier
        BY <2>2, <2>4 DEF Justified
      <3>3. previous.from \in Int /\ latest.from * Flags.multiplier \in Int
        BY <2>1, <2>2, Z3 DEF Justified
      <3> QED BY <3>1, <3>2, <3>3
    <2> QED BY <2>2, <2>3, <2>4
  <1> QED BY <1>1, <1>2, <1>3, PTL DEF Spec


-----------------------------------------------------------------------------
(***************************************************************************)
(* Sorting                                                                 *)
(***************************************************************************)

\* A set of natural numbers that is not empty has a least element.
LEMMA LeastNumber ==
  ASSUME NEW T \in SUBSET Nat, T # {}
  PROVE  \E x \in T : \A y \in T : x <= y
  <1> DEFINE R == OpToRel(<, Nat)
  <1>1. PICK x \in T : \A y \in T : ~ (<<y, x>> \in R)
    <2>1. IsWellFoundedOn(R, Nat)
      BY NatLessThanWellFounded
    <2> HIDE DEF R
    <2> QED BY <2>1, WFMin
  <1>2. \A y \in T : ~ (y < x)
    BY <1>1 DEF OpToRel
  <1> QED BY <1>2

\* A strict total order of 1 .. n is the order of their places in a
\* permutation: an element is placed after those below it.
LEMMA SortingExists ==
  ASSUME NEW n \in Nat, NEW R,
         \A i, j \in 1 .. n : i # j => <<i, j>> \in R \/ <<j, i>> \in R,
         \A i, j \in 1 .. n : <<i, j>> \in R => <<j, i>> \notin R,
         \A i, j, k \in 1 .. n : <<i, j>> \in R /\ <<j, k>> \in R => <<i, k>> \in R
  PROVE  \E p \in Bijection(1 .. n, 1 .. n) : \A i, j \in 1 .. n : i < j => <<p[i], p[j]>> \in R
  <1> DEFINE Below(k) == {j \in 1 .. n : <<j, k>> \in R}
             rank == [k \in 1 .. n |-> Cardinality(Below(k)) + 1]
  <1>1. IsFiniteSet(1 .. n) /\ Cardinality(1 .. n) = n
    BY FS_Interval
  <1>2. \A k \in 1 .. n : /\ IsFiniteSet(Below(k)) /\ Cardinality(Below(k)) \in Nat
                          /\ Cardinality(Below(k)) < n
    <2> TAKE k \in 1 .. n
    <2>1. Below(k) \in SUBSET (1 .. n) /\ k \notin Below(k)
      OBVIOUS
    <2> HIDE DEF Below
    <2>2. IsFiniteSet(Below(k)) /\ Cardinality(Below(k)) <= n /\ Cardinality(Below(k)) # n
      BY <1>1, <2>1, FS_Subset
    <2> QED BY <2>2, FS_CardinalityType
  <1>3. \A k, l \in 1 .. n : <<k, l>> \in R => Cardinality(Below(k)) < Cardinality(Below(l))
    <2> SUFFICES ASSUME NEW k \in 1 .. n, NEW l \in 1 .. n, <<k, l>> \in R
                 PROVE  Cardinality(Below(k)) < Cardinality(Below(l))
      OBVIOUS
    <2>1. Below(k) \in SUBSET Below(l)
      OBVIOUS
    <2>2. k \in Below(l) /\ k \notin Below(k)
      OBVIOUS
    <2> HIDE DEF Below
    <2>3. Cardinality(Below(k)) <= Cardinality(Below(l)) /\ Cardinality(Below(k)) # Cardinality(Below(l))
      BY <1>2, <2>1, <2>2, FS_Subset
    <2> QED BY <1>2, <2>3
  <1> HIDE DEF Below
  <1>4. /\ rank \in [1 .. n -> 1 .. n]
        /\ \A k, l \in 1 .. n : <<k, l>> \in R => rank[k] < rank[l]
    BY <1>2, <1>3
  <1> HIDE DEF rank
  <1>5. rank \in Injection(1 .. n, 1 .. n)
    <2>1. \A k \in 1 .. n : rank[k] \in Int
      BY <1>4
    <2>2. ASSUME NEW k \in 1 .. n, NEW l \in 1 .. n, k # l PROVE rank[k] # rank[l]
      <3>1. rank[k] < rank[l] \/ rank[l] < rank[k]
        BY <1>4, <2>2
      <3> QED BY <2>1, <3>1
    <2> QED BY <1>4, <2>2 DEF Injection, IsInjective
  <1>6. rank \in Surjection(1 .. n, 1 .. n)
    BY <1>1, <1>5, FS_Injection
  <1> DEFINE p == [i \in 1 .. n |-> CHOOSE k \in 1 .. n : rank[k] = i]
  <1>7. \A i \in 1 .. n : p[i] \in 1 .. n /\ rank[p[i]] = i
    BY <1>6 DEF Surjection
  <1>8. p \in [1 .. n -> 1 .. n]
    BY <1>7
  <1>9. \A k \in 1 .. n : p[rank[k]] = k
    BY <1>4, <1>5, <1>7 DEF Injection, IsInjective
  <1> HIDE DEF p
  <1>10. p \in Injection(1 .. n, 1 .. n)
    BY <1>7, <1>8 DEF Injection, IsInjective
  <1>11. p \in Surjection(1 .. n, 1 .. n)
    BY <1>4, <1>8, <1>9 DEF Surjection
  <1>12. p \in Bijection(1 .. n, 1 .. n)
    BY <1>10, <1>11 DEF Bijection
  <1>13. \A i, j \in 1 .. n : i < j => <<p[i], p[j]>> \in R
    <2> SUFFICES ASSUME NEW i \in 1 .. n, NEW j \in 1 .. n, i < j
                 PROVE  <<p[i], p[j]>> \in R
      OBVIOUS
    <2>1. p[i] \in 1 .. n /\ p[j] \in 1 .. n /\ rank[p[i]] < rank[p[j]]
      BY <1>7
    <2>2. p[i] # p[j] /\ <<p[j], p[i]>> \notin R
      <3>1. <<p[j], p[i]>> \in R => rank[p[j]] < rank[p[i]]
        BY <1>4, <2>1
      <3>2. rank[p[i]] \in Int /\ rank[p[j]] \in Int
        BY <1>4, <2>1
      <3> QED BY <2>1, <3>1, <3>2
    <2> QED BY <2>1, <2>2
  <1> QED BY <1>12, <1>13

\* Two keys sort the places of a sequence, the second one within the first.
LEMMA PlacesExist ==
  ASSUME NEW n \in Nat, NEW a \in [1 .. n -> Nat], NEW b \in [1 .. n -> Nat]
  PROVE  \E p \in Bijection(1 .. n, 1 .. n) : \A i, j \in 1 .. n :
           i < j => a[p[i]] < a[p[j]] \/ (a[p[i]] = a[p[j]] /\ b[p[i]] <= b[p[j]])
  <1> DEFINE before(i, j) == \/ a[i] < a[j]
                             \/ a[i] = a[j] /\ (b[i] < b[j] \/ (b[i] = b[j] /\ i < j))
             R == {e \in (1 .. n) \X (1 .. n) : before(e[1], e[2])}
  <1>1. \A i, j \in 1 .. n : <<i, j>> \in R <=> before(i, j)
    OBVIOUS
  <1>2. \A i \in 1 .. n : a[i] \in Int /\ b[i] \in Int
    OBVIOUS
  <1> HIDE DEF R
  <1>3. \A i, j \in 1 .. n : i # j => <<i, j>> \in R \/ <<j, i>> \in R
    BY <1>1, <1>2
  <1>4. \A i, j \in 1 .. n : <<i, j>> \in R => <<j, i>> \notin R
    BY <1>1, <1>2
  <1>5. \A i, j, k \in 1 .. n : <<i, j>> \in R /\ <<j, k>> \in R => <<i, k>> \in R
    <2> SUFFICES ASSUME NEW i \in 1 .. n, NEW j \in 1 .. n, NEW k \in 1 .. n, before(i, j), before(j, k)
                 PROVE  before(i, k)
      BY <1>1
    <2>1. /\ a[i] \in Int /\ a[j] \in Int /\ a[k] \in Int
          /\ b[i] \in Int /\ b[j] \in Int /\ b[k] \in Int
      BY <1>2
    <2> QED BY <2>1
  <1>6. PICK p \in Bijection(1 .. n, 1 .. n) : \A i, j \in 1 .. n : i < j => <<p[i], p[j]>> \in R
    BY <1>3, <1>4, <1>5, SortingExists
  <1>7. \A i \in 1 .. n : p[i] \in 1 .. n
    BY DEF Bijection, Injection
  <1>8. \A i, j \in 1 .. n : i < j => before(p[i], p[j])
    BY <1>1, <1>6, <1>7
  <1>9. \A i, j \in 1 .. n : i < j => a[p[i]] < a[p[j]] \/ (a[p[i]] = a[p[j]] /\ b[p[i]] <= b[p[j]])
    <2> SUFFICES ASSUME NEW i \in 1 .. n, NEW j \in 1 .. n, i < j
                 PROVE  a[p[i]] < a[p[j]] \/ (a[p[i]] = a[p[j]] /\ b[p[i]] <= b[p[j]])
      OBVIOUS
    <2>1. before(p[i], p[j])
      BY <1>8
    <2>2. b[p[i]] \in Int /\ b[p[j]] \in Int
      BY <1>2, <1>7
    <2> QED BY <2>1, <2>2
  <1> QED BY <1>9

\* An increasing permutation of 1 .. n moves nothing.
LEMMA IncreasingIsIdentity ==
  ASSUME NEW n \in Nat, NEW g \in Surjection(1 .. n, 1 .. n),
         \A i, j \in 1 .. n : i < j => g[i] < g[j]
  PROVE  \A i \in 1 .. n : g[i] = i
  <1>1. \A i \in 1 .. n : g[i] \in 1 .. n
    BY DEF Surjection
  <1>2. \A i \in 1 .. n : g[i] >= i
    <2> DEFINE T == {i \in 1 .. n : g[i] < i}
    <2>1. SUFFICES ASSUME T # {} PROVE FALSE
      BY <1>1
    <2>2. PICK i \in T : \A k \in T : i <= k
      <3>1. T \in SUBSET Nat
        OBVIOUS
      <3> HIDE DEF T
      <3> QED BY <2>1, <3>1, LeastNumber
    <2>3. i - 1 \in 1 .. n /\ i - 1 \notin T /\ i - 1 < i
      BY <1>1, <2>2
    <2>4. g[i - 1] >= i - 1 /\ g[i - 1] < g[i] /\ g[i - 1] \in Int /\ g[i] \in Int
      BY <1>1, <2>3
    <2> QED BY <2>4
  <1>3. \A i \in 1 .. n : g[i] <= i
    <2> DEFINE T == {i \in 1 .. n : g[i] > i}
    <2>1. SUFFICES ASSUME T # {} PROVE FALSE
      BY <1>1
    <2>2. PICK i \in T : \A k \in T : i <= k
      <3>1. T \in SUBSET Nat
        OBVIOUS
      <3> HIDE DEF T
      <3> QED BY <2>1, <3>1, LeastNumber
    <2>3. PICK k \in 1 .. n : g[k] = i
      BY DEF Surjection
    <2>4. CASE k < i
      <3>1. k \notin T
        BY <2>2, <2>4
      <3>2. g[k] = k
        BY <1>1, <1>2, <3>1
      <3> QED BY <2>3, <2>4, <3>2
    <2>5. CASE k >= i
      <3>1. g[k] >= g[i]
        BY <1>1, <2>5
      <3> QED BY <1>1, <2>3, <3>1
    <2> QED BY <2>4, <2>5
  <1> QED BY <1>1, <1>2, <1>3

-----------------------------------------------------------------------------
(***************************************************************************)
(* Maps                                                                    *)
(***************************************************************************)

ShardRecord == [id : Nat, start : Nat, end : Nat, active : Pairs \ {NoPair}, standby : Pairs]

\* The pairs the inventory has for a shard.
PairsOf(id) == UNION {{Inventory[j].active, Inventory[j].standby} :
                        j \in {k \in DOMAIN Inventory : Inventory[k].id = id}}

\* A map whose shards follow one another in the sequence and in the rows, and
\* which has for each of them the pairs of the inventory, in either role.
GoodMap(shards) ==
  /\ Len(shards) \in Nat
  /\ shards \in [1 .. Len(shards) -> ShardRecord]
  /\ \A i \in 1 .. Len(shards) :
       /\ shards[i].start = (i - 1) * Height /\ shards[i].end = i * Height
       /\ shards[i].id \in Ids
       /\ {shards[i].active, shards[i].standby} = PairsOf(shards[i].id)
       /\ \A j \in 1 .. Len(shards) : shards[i].id = shards[j].id => i = j

\* A coordinator's clients talk to pairs of their shards.
GoodClients(clients) ==
  /\ clients \in [Ids -> Pairs \cup {NoPair}]
  /\ \A s \in Ids : clients[s] \in PairsOf(s) \cup {NoPair}

\* The invariant behind EveryRowRouted.
MapInv ==
  /\ GoodMap(config.shards)
  /\ config.version # 0 => Count > 0
  /\ GoodClients(client)
  /\ running => \A i \in 1 .. Count : client[config.shards[i].id] # NoPair

\* A product of natural numbers is one.
LEMMA NatProduct ==
  ASSUME NEW a \in Nat, NEW b \in Nat
  PROVE  a * b \in Nat
  BY Z3

\* The inventory is a sequence of shards.
LEMMA InventoryType ==
  /\ Len(Inventory) \in Nat
  /\ DOMAIN Inventory = 1 .. Len(Inventory)
  /\ Inventory \in [1 .. Len(Inventory) -> ShardRecord]
  <1>1. Inventory \in Seq(ShardRecord)
    BY InventoryAssumption, Zenon DEF ShardRecord
  <1> QED BY <1>1

\* SortedByRow returns the shards of the inventory, each once, by rows.
LEMMA ByRow ==
  \E p \in Bijection(1 .. Len(Inventory), 1 .. Len(Inventory)) :
    SortedByRow(Inventory) = [i \in 1 .. Len(Inventory) |-> Inventory[p[i]]]
  <1> DEFINE n == Len(Inventory)
             a == [i \in 1 .. n |-> Inventory[i].start]
             b == [i \in 1 .. n |-> Inventory[i].id]
             ordered(p) == \A i, j \in DOMAIN Inventory : i < j => RowOrder(Inventory[p[i]], Inventory[p[j]])
  <1>1. a \in [1 .. n -> Nat] /\ b \in [1 .. n -> Nat] /\ n \in Nat
    BY InventoryType DEF ShardRecord
  <1>2. PICK p \in Bijection(1 .. n, 1 .. n) : \A i, j \in 1 .. n :
          i < j => a[p[i]] < a[p[j]] \/ (a[p[i]] = a[p[j]] /\ b[p[i]] <= b[p[j]])
    <2> HIDE DEF a, b, n
    <2> QED BY <1>1, PlacesExist
  <1>3. \A i \in 1 .. n : p[i] \in 1 .. n
    BY DEF Bijection, Injection
  <1>4. p \in Bijection(DOMAIN Inventory, DOMAIN Inventory) /\ ordered(p)
    BY <1>2, <1>3, InventoryType DEF RowOrder
  <1> DEFINE place == CHOOSE q \in Bijection(DOMAIN Inventory, DOMAIN Inventory) : ordered(q)
  <1>5. place \in Bijection(DOMAIN Inventory, DOMAIN Inventory)
    <2> HIDE DEF ordered
    <2> QED BY <1>4
  <1>6. SortedByRow(Inventory) = [i \in DOMAIN Inventory |-> Inventory[place[i]]]
    BY DEF SortedByRow
  <1> HIDE DEF place
  <1> QED BY <1>5, <1>6, InventoryType

\* Sorted by their ids, the shards of the inventory are each there once, and
\* in order.
LEMMA ById ==
  \E p \in Bijection(1 .. Len(Inventory), 1 .. Len(Inventory)) :
    /\ SortedById(Inventory) = [i \in 1 .. Len(Inventory) |-> Inventory[p[i]]]
    /\ \A i, j \in 1 .. Len(Inventory) : i < j => Inventory[p[i]].id <= Inventory[p[j]].id
  <1> DEFINE n == Len(Inventory)
             b == [i \in 1 .. n |-> Inventory[i].id]
             ordered(p) == \A i, j \in DOMAIN Inventory : i < j => Inventory[p[i]].id <= Inventory[p[j]].id
  <1>1. b \in [1 .. n -> Nat] /\ n \in Nat
    BY InventoryType DEF ShardRecord
  <1>2. PICK p \in Bijection(1 .. n, 1 .. n) : \A i, j \in 1 .. n :
          i < j => b[p[i]] < b[p[j]] \/ (b[p[i]] = b[p[j]] /\ b[p[i]] <= b[p[j]])
    <2> HIDE DEF b, n
    <2> QED BY <1>1, PlacesExist
  <1>3. \A i \in 1 .. n : p[i] \in 1 .. n /\ b[p[i]] \in Int
    BY <1>1 DEF Bijection, Injection
  <1>4. p \in Bijection(DOMAIN Inventory, DOMAIN Inventory) /\ ordered(p)
    <2>1. \A i, j \in 1 .. n : i < j => b[p[i]] <= b[p[j]]
      <3> HIDE DEF b, n
      <3> QED BY <1>2, <1>3
    <2> QED BY <1>3, <2>1, InventoryType
  <1> DEFINE place == CHOOSE q \in Bijection(DOMAIN Inventory, DOMAIN Inventory) : ordered(q)
  <1>5. place \in Bijection(DOMAIN Inventory, DOMAIN Inventory) /\ ordered(place)
    <2> HIDE DEF ordered
    <2> QED BY <1>4
  <1>6. SortedById(Inventory) = [i \in DOMAIN Inventory |-> Inventory[place[i]]]
    BY DEF SortedById
  <1> HIDE DEF place
  <1> QED BY <1>5, <1>6, InventoryType

\* What validateShardMap found out about the inventory.
LEMMA ByRowIsMap ==
  LET s == SortedByRow(Inventory) IN
  /\ Len(Inventory) > 0
  /\ \A i \in 1 .. Len(Inventory) :
       /\ s[i].start = (i - 1) * Height /\ s[i].end = i * Height
       /\ \A j \in 1 .. Len(Inventory) : s[i].id = s[j].id => i = j
  <1> DEFINE s == SortedByRow(Inventory)
             n == Len(Inventory)
  <1>1. PICK p \in Bijection(1 .. n, 1 .. n) : s = [i \in 1 .. n |-> Inventory[p[i]]]
    BY ByRow
  <1>2. n \in Nat /\ DOMAIN s = 1 .. n /\ Len(s) = n
    BY <1>1, InventoryType
  <1>3. \A i \in 1 .. n : s[i] \in ShardRecord
    BY <1>1, InventoryType DEF Bijection, Injection
  <1> HIDE DEF s, n
  <1>4. /\ n > 0
        /\ s[1].start = 0
        /\ \A i \in 1 .. n :
             /\ s[i].end - s[i].start = Height
             /\ i > 1 => s[i].start = s[i - 1].end
             /\ \A j \in 1 .. n : s[i].id = s[j].id => i = j
    BY <1>2, InventoryAssumption DEF ValidShardMap, s
  <1>5. \A i \in 1 .. n : s[i].start \in Int /\ s[i].end \in Int
    BY <1>3 DEF ShardRecord
  <1>6. \A i \in 1 .. n : s[i].start = (i - 1) * Height
    <2> DEFINE T == {i \in 1 .. n : s[i].start # (i - 1) * Height}
    <2>1. SUFFICES ASSUME T # {} PROVE FALSE
      OBVIOUS
    <2>2. PICK i \in T : \A k \in T : i <= k
      <3>1. T \in SUBSET Nat
        BY <1>2
      <3> HIDE DEF T
      <3> QED BY <2>1, <3>1, LeastNumber
    <2>3. i \in 1 .. n /\ s[i].start # (i - 1) * Height
      OBVIOUS
    <2>4. CASE i = 1
      BY <1>4, <2>3, <2>4
    <2>5. CASE i > 1
      <3>1. i - 1 \in 1 .. n /\ i - 1 \notin T
        BY <1>2, <2>2, <2>3, <2>5
      <3>2. s[i - 1].start = (i - 1 - 1) * Height
        BY <3>1
      <3>3. (i - 1) * Height = (i - 1 - 1) * Height + Height /\ (i - 1 - 1) * Height \in Int
        BY <1>2, <2>3, Z3
      <3> HIDE DEF T
      <3>4. s[i].start = s[i - 1].start + Height
        BY <1>4, <1>5, <2>3, <2>5, <3>1
      <3> QED BY <2>3, <3>2, <3>3, <3>4
    <2> QED BY <1>2, <2>3, <2>4, <2>5
  <1>7. \A i \in 1 .. n : s[i].end = i * Height
    <2> TAKE i \in 1 .. n
    <2>1. i * Height = (i - 1) * Height + Height /\ (i - 1) * Height \in Int
      BY <1>2, Z3
    <2> QED BY <1>4, <1>5, <1>6, <2>1
  <1> QED BY <1>4, <1>6, <1>7 DEF s, n

\* No two shards of the inventory have the same id.
LEMMA DistinctIds ==
  \A i, j \in 1 .. Len(Inventory) : Inventory[i].id = Inventory[j].id => i = j
  <1> SUFFICES ASSUME NEW i \in 1 .. Len(Inventory), NEW j \in 1 .. Len(Inventory),
                      Inventory[i].id = Inventory[j].id
               PROVE  i = j
    OBVIOUS
  <1>1. PICK p \in Bijection(1 .. Len(Inventory), 1 .. Len(Inventory)) :
          SortedByRow(Inventory) = [k \in 1 .. Len(Inventory) |-> Inventory[p[k]]]
    BY ByRow
  <1>2. PICK k \in 1 .. Len(Inventory), l \in 1 .. Len(Inventory) : p[k] = i /\ p[l] = j
    BY DEF Bijection, Surjection
  <1>3. SortedByRow(Inventory)[k].id = SortedByRow(Inventory)[l].id
    BY <1>1, <1>2
  <1>4. k = l
    BY <1>3, ByRowIsMap
  <1> QED BY <1>2, <1>4

\* The pairs of a shard of the inventory.
LEMMA PairsOfShard ==
  ASSUME NEW i \in 1 .. Len(Inventory)
  PROVE  /\ Inventory[i].id \in Ids
         /\ PairsOf(Inventory[i].id) = {Inventory[i].active, Inventory[i].standby}
  <1>1. {k \in DOMAIN Inventory : Inventory[k].id = Inventory[i].id} = {i}
    BY DistinctIds, InventoryType
  <1>2. PairsOf(Inventory[i].id) = {Inventory[i].active, Inventory[i].standby}
    BY <1>1 DEF PairsOf
  <1> QED BY <1>2, InventoryType DEF Ids

\* Multiples are in the order of their factors.
LEMMA ScaledOrder ==
  ASSUME NEW x \in Int, NEW y \in Int
  PROVE  x < y <=> x * Height < y * Height
  <1>1. x * Height \in Int /\ y * Height \in Int
    BY Z3
  <1>2. ASSUME x < y PROVE x * Height < y * Height
    <2>1. (x + 1) * Height <= y * Height
      BY <1>2, ProductMonotone
    <2>2. (x + 1) * Height = x * Height + Height
      BY Z3
    <2> QED BY <1>1, <2>1, <2>2
  <1>3. ASSUME y <= x PROVE y * Height <= x * Height
    BY <1>3, ProductMonotone
  <1> QED BY <1>1, <1>2, <1>3

\* A map built from the inventory is good.
LEMMA BuildIsGood ==
  ASSUME NEW n \in 0 .. Len(Inventory)
  PROVE  GoodMap(BuildShards(Inventory, n))
  <1> DEFINE N == Len(Inventory)
             m == BuildShards(Inventory, n)
             byId == SortedById(Inventory)
  <1>1. PICK p \in Bijection(1 .. N, 1 .. N) : byId = [i \in 1 .. N |-> Inventory[p[i]]]
    BY ById
  <1>2. \A i \in 1 .. n : /\ i \in 1 .. N /\ p[i] \in 1 .. N
                          /\ byId[i] = Inventory[p[i]] /\ Inventory[p[i]] \in ShardRecord
    BY <1>1, InventoryType DEF Bijection, Injection
  <1>3. n \in Nat /\ m = [i \in 1 .. n |-> [byId[i] EXCEPT !.start = (i - 1) * Height, !.end = i * Height]]
    BY InventoryType DEF BuildShards
  <1> HIDE DEF byId, m
  <1>4. Len(m) = n /\ DOMAIN m = 1 .. n
    BY <1>3, BuildLength DEF m
  <1>5. \A i \in 1 .. n :
          /\ m[i] \in ShardRecord
          /\ m[i].start = (i - 1) * Height /\ m[i].end = i * Height
          /\ m[i].id = Inventory[p[i]].id
          /\ m[i].active = Inventory[p[i]].active /\ m[i].standby = Inventory[p[i]].standby
    <2> TAKE i \in 1 .. n
    <2>1. (i - 1) * Height \in Nat /\ i * Height \in Nat
      <3>1. i - 1 \in Nat /\ i \in Nat
        <4>1. n \in Nat
          BY <1>3
        <4> QED BY <4>1
      <3> QED BY <3>1, NatProduct
    <2>2. m[i] = [Inventory[p[i]] EXCEPT !.start = (i - 1) * Height, !.end = i * Height]
      BY <1>2, <1>3
    <2> QED BY <1>2, <2>1, <2>2 DEF ShardRecord
  <1>6. \A i \in 1 .. n : m[i].id \in Ids /\ {m[i].active, m[i].standby} = PairsOf(m[i].id)
    <2> TAKE i \in 1 .. n
    <2>1. /\ Inventory[p[i]].id \in Ids
          /\ PairsOf(Inventory[p[i]].id) = {Inventory[p[i]].active, Inventory[p[i]].standby}
      BY <1>2, PairsOfShard
    <2> QED BY <1>5, <2>1
  <1>7. \A i, j \in 1 .. n : m[i].id = m[j].id => i = j
    <2> SUFFICES ASSUME NEW i \in 1 .. n, NEW j \in 1 .. n, m[i].id = m[j].id PROVE i = j
      OBVIOUS
    <2>1. /\ p[i] \in 1 .. Len(Inventory) /\ p[j] \in 1 .. Len(Inventory)
          /\ Inventory[p[i]].id = Inventory[p[j]].id
      BY <1>2, <1>5
    <2>2. p[i] = p[j]
      BY <2>1, DistinctIds
    <2> QED BY <1>2, <2>2 DEF Bijection, Injection, IsInjective
  <1>8. m \in [1 .. n -> ShardRecord]
    BY <1>3, <1>5
  <1>9. GoodMap(m)
    BY <1>3, <1>4, <1>5, <1>6, <1>7, <1>8 DEF GoodMap
  <1> QED BY <1>9 DEF m

\* The seed is good.
LEMMA SeedIsGood == GoodMap(Seed)
  <1>1. CASE InitialFlag # 0
    BY <1>1, BuildIsGood, InitialFlagAssumption DEF Seed
  <1>2. CASE InitialFlag = 0
    <2> DEFINE N == Len(Inventory)
               s == SortedByRow(Inventory)
    <2>1. PICK p \in Bijection(1 .. N, 1 .. N) : s = [i \in 1 .. N |-> Inventory[p[i]]]
      BY ByRow
    <2>2. \A i \in 1 .. N : p[i] \in 1 .. N /\ s[i] = Inventory[p[i]]
      BY <2>1 DEF Bijection, Injection
    <2>3. N \in Nat /\ Len(s) = N /\ s \in [1 .. N -> ShardRecord]
      BY <2>1, <2>2, InventoryType
    <2>4. \A i \in 1 .. N :
            /\ s[i].start = (i - 1) * Height /\ s[i].end = i * Height
            /\ \A j \in 1 .. N : s[i].id = s[j].id => i = j
      BY ByRowIsMap
    <2> HIDE DEF s
    <2>5. \A i \in 1 .. N : s[i].id \in Ids /\ {s[i].active, s[i].standby} = PairsOf(s[i].id)
      BY <2>2, PairsOfShard
    <2>6. GoodMap(s)
      BY <2>3, <2>4, <2>5 DEF GoodMap
    <2> QED BY <1>2, <2>6 DEF Seed, s
  <1> QED BY <1>1, <1>2

\* The seed has a shard.
LEMMA SeedIsNotEmpty == Len(Seed) > 0
  <1>1. CASE InitialFlag # 0
    <2>1. InitialFlag \in Nat
      BY InitialFlagAssumption, InventoryType
    <2> QED BY <1>1, <2>1, BuildLength DEF Seed
  <1>2. CASE InitialFlag = 0
    <2>1. PICK p \in Bijection(1 .. Len(Inventory), 1 .. Len(Inventory)) :
            SortedByRow(Inventory) = [i \in 1 .. Len(Inventory) |-> Inventory[p[i]]]
      BY ByRow
    <2>2. Len(SortedByRow(Inventory)) = Len(Inventory)
      BY <2>1, InventoryType
    <2> QED BY <1>2, <2>2, ByRowIsMap DEF Seed
  <1> QED BY <1>1, <1>2

\* connectShardConfig leaves every shard of the map with a client.
LEMMA ConnectedClients ==
  ASSUME NEW clients, GoodClients(clients), NEW shards, GoodMap(shards)
  PROVE  /\ GoodClients(Connected(clients, shards))
         /\ \A i \in 1 .. Len(shards) : Connected(clients, shards)[shards[i].id] # NoPair
  <1> DEFINE c == Connected(clients, shards)
             n == Len(shards)
             has(s) == \E i \in DOMAIN shards : shards[i].id = s
             index(s) == CHOOSE i \in DOMAIN shards : shards[i].id = s
  <1>1. DOMAIN shards = 1 .. n /\ \A i \in 1 .. n : shards[i] \in ShardRecord
    BY DEF GoodMap
  <1>2. c = [s \in Ids |-> IF clients[s] = NoPair /\ has(s) THEN shards[index(s)].active ELSE clients[s]]
    BY DEF Connected
  <1>3. \A s \in Ids : has(s) => index(s) \in 1 .. n /\ shards[index(s)].id = s
    BY <1>1
  <1> HIDE DEF index, c
  <1>4. \A s \in Ids : has(s) => /\ shards[index(s)].active \in PairsOf(s)
                                 /\ shards[index(s)].active \in Pairs \ {NoPair}
    BY <1>1, <1>3 DEF GoodMap, ShardRecord
  <1>5. \A s \in Ids : c[s] \in PairsOf(s) \cup {NoPair} /\ c[s] \in Pairs \cup {NoPair}
    BY <1>2, <1>4 DEF GoodClients
  <1>6. \A i \in 1 .. n : c[shards[i].id] # NoPair
    <2> TAKE i \in 1 .. n
    <2>1. shards[i].id \in Ids /\ has(shards[i].id)
      BY <1>1 DEF GoodMap
    <2> QED BY <1>2, <1>4, <2>1
  <1>7. c \in [Ids -> Pairs \cup {NoPair}]
    BY <1>2, <1>5
  <1> QED BY <1>5, <1>6, <1>7 DEF GoodClients, c

\* No client at all.
LEMMA NoClients == GoodClients([s \in Ids |-> NoPair])
  BY DEF GoodClients

\* Exchanging the pairs of a shard leaves a map good.
LEMMA PromotedIsGood ==
  ASSUME NEW shards, GoodMap(shards), NEW i \in 1 .. Len(shards), shards[i].standby # NoPair
  PROVE  /\ GoodMap([shards EXCEPT ![i] = Swapped(@)])
         /\ Len([shards EXCEPT ![i] = Swapped(@)]) = Len(shards)
         /\ \A j \in 1 .. Len(shards) : [shards EXCEPT ![i] = Swapped(@)][j].id = shards[j].id
  <1> DEFINE m == [shards EXCEPT ![i] = Swapped(@)]
             n == Len(shards)
  <1>1. n \in Nat /\ shards \in [1 .. n -> ShardRecord]
    BY DEF GoodMap
  <1>2. /\ Swapped(shards[i]) \in ShardRecord
        /\ Swapped(shards[i]).id = shards[i].id
        /\ Swapped(shards[i]).start = shards[i].start /\ Swapped(shards[i]).end = shards[i].end
        /\ Swapped(shards[i]).active = shards[i].standby /\ Swapped(shards[i]).standby = shards[i].active
    <2>1. shards[i] \in ShardRecord
      BY <1>1
    <2> QED BY <2>1 DEF Swapped, ShardRecord
  <1>3. /\ m \in [1 .. n -> ShardRecord]
        /\ \A j \in 1 .. n : m[j] = IF j = i THEN Swapped(shards[i]) ELSE shards[j]
    BY <1>1, <1>2
  <1>4. Len(m) = n
    BY <1>1, <1>3
  <1> HIDE DEF m
  <1>5. \A j \in 1 .. n : /\ m[j].id = shards[j].id /\ m[j].start = shards[j].start /\ m[j].end = shards[j].end
                          /\ {m[j].active, m[j].standby} = {shards[j].active, shards[j].standby}
    BY <1>2, <1>3
  <1>6. GoodMap(m)
    BY <1>1, <1>3, <1>4, <1>5 DEF GoodMap
  <1> QED BY <1>4, <1>5, <1>6 DEF m

\* A row of a good map belongs to one shard, the one at place row / Height,
\* and routeShard finds it.
LEMMA RowIsRouted ==
  ASSUME NEW shards, GoodMap(shards), NEW row \in 0 .. Len(shards) * Height - 1
  PROVE  /\ RouteShard(shards, row) \in 1 .. Len(shards)
         /\ row - shards[RouteShard(shards, row)].start = row % Height
  <1> DEFINE n == Len(shards)
             q == row \div Height
             r == row % Height
             owns(i) == shards[i].start <= row /\ row < shards[i].end
             hits == {i \in DOMAIN shards : owns(i)}
  <1>1. n \in Nat /\ n * Height \in Int /\ row \in Int /\ 0 <= row /\ row < n * Height
    <2>1. n \in Nat
      BY DEF GoodMap
    <2>2. n * Height \in Nat
      BY <2>1, NatProduct
    <2> QED BY <2>1, <2>2
  <1>2. q \in Int /\ r \in Int /\ row = Height * q + r /\ 0 <= r /\ r < Height
    BY <1>1, Z3
  <1>3. /\ DOMAIN shards = 1 .. n
        /\ \A i \in 1 .. n : shards[i].start = (i - 1) * Height /\ shards[i].end = i * Height
    BY DEF GoodMap
  <1> HIDE DEF q, r, n
  <1>4. q >= 0
    <2>1. SUFFICES ASSUME q <= -1 PROVE FALSE
      BY <1>2
    <2>2. q * Height <= (-1) * Height
      BY <1>2, <2>1, ProductMonotone
    <2>3. q * Height = Height * q /\ (-1) * Height = -Height /\ Height * q \in Int
      BY <1>2, Z3
    <2> QED BY <1>1, <1>2, <2>2, <2>3
  <1>5. q < n
    <2>1. SUFFICES ASSUME n <= q PROVE FALSE
      BY <1>1, <1>2
    <2>2. n * Height <= q * Height
      BY <1>1, <1>2, <2>1, ProductMonotone
    <2>3. q * Height = Height * q /\ Height * q \in Int
      BY <1>2, Z3
    <2> QED BY <1>1, <1>2, <2>2, <2>3
  <1>6. q + 1 \in 1 .. n
    BY <1>1, <1>2, <1>4, <1>5
  <1>7. (q + 1 - 1) * Height = Height * q /\ (q + 1) * Height = Height * q + Height /\ Height * q \in Int
    BY <1>2, Z3
  <1>8. q + 1 \in hits
    <2>1. shards[q + 1].start = Height * q /\ shards[q + 1].end = Height * q + Height
      BY <1>3, <1>6, <1>7
    <2>2. owns(q + 1)
      BY <1>2, <1>7, <2>1
    <2> QED BY <1>3, <1>6, <2>2
  <1>9. \A i \in hits : i = q + 1
    <2> SUFFICES ASSUME NEW i \in 1 .. n, (i - 1) * Height <= row, row < i * Height PROVE i = q + 1
      BY <1>3
    <2>1. i \in Int /\ (i - 1) * Height \in Int /\ i * Height \in Int
      BY <1>1, Z3
    <2>2. CASE i <= q
      <3>1. i * Height <= q * Height
        BY <1>2, <2>1, <2>2, ProductMonotone
      <3>2. q * Height = Height * q
        BY <1>2, Z3
      <3> QED BY <1>1, <1>2, <1>7, <2>1, <3>1, <3>2
    <2>3. CASE q + 1 <= i - 1
      <3>1. (q + 1) * Height <= (i - 1) * Height
        BY <1>2, <2>1, <2>3, ProductMonotone
      <3> QED BY <1>1, <1>2, <1>7, <2>1, <3>1
    <2> QED BY <1>2, <2>1, <2>2, <2>3
  <1>10. RouteShard(shards, row) = IF hits = {} THEN 0 ELSE CHOOSE i \in hits : \A j \in hits : i <= j
    BY DEF RouteShard
  <1> HIDE DEF hits
  <1>11. RouteShard(shards, row) = q + 1
    <2>1. \A j \in hits : q + 1 <= j
      BY <1>2, <1>9
    <2> QED BY <1>8, <1>9, <1>10, <2>1
  <1>12. row - shards[q + 1].start = r
    BY <1>1, <1>2, <1>3, <1>6, <1>7
  <1> QED BY <1>6, <1>11, <1>12 DEF n, r

\* The invariant says what EveryRowRouted asks for.
LEMMA MapInvRoutes == MapInv => EveryRowRouted
  <1> SUFFICES ASSUME MapInv, NEW row \in 0 .. Count * Height - 1
               PROVE  LET i == RouteShard(config.shards, row) IN
                      /\ i > 0
                      /\ row - config.shards[i].start = row % Height
                      /\ \A j \in DOMAIN config.shards : config.shards[i].id = config.shards[j].id => i = j
                      /\ running => client[config.shards[i].id] \in
                                      {config.shards[i].active, config.shards[i].standby} \ {NoPair}
    BY DEF EveryRowRouted
  <1> DEFINE i == RouteShard(config.shards, row)
  <1>1. i \in 1 .. Count /\ row - config.shards[i].start = row % Height
    BY RowIsRouted DEF MapInv, Count
  <1> HIDE DEF i
  <1>2. Count \in Nat /\ DOMAIN config.shards = 1 .. Count
    BY DEF MapInv, GoodMap, Count
  <1>3. \A j \in DOMAIN config.shards : config.shards[i].id = config.shards[j].id => i = j
    BY <1>1, <1>2 DEF MapInv, GoodMap, Count
  <1>4. config.shards[i].id \in Ids
        /\ {config.shards[i].active, config.shards[i].standby} = PairsOf(config.shards[i].id)
    BY <1>1 DEF MapInv, GoodMap, Count
  <1>5. running => client[config.shards[i].id] \in
                     {config.shards[i].active, config.shards[i].standby} \ {NoPair}
    BY <1>1, <1>4 DEF MapInv, GoodClients
  <1> QED BY <1>1, <1>2, <1>3, <1>5 DEF i

\* A start connects the map it finds or writes.
LEMMA StartMap ==
  ASSUME MapInv, Start
  PROVE  MapInv'
  <1> DEFINE next == IF config.version = 0 THEN [version |-> 1, shards |-> Seed] ELSE config
             none == [s \in Ids |-> NoPair]
  <1>1. GoodMap(next.shards) /\ Len(next.shards) > 0
    BY SeedIsGood, SeedIsNotEmpty DEF MapInv, Count
  <1>2. /\ config' \in {next, config}
        /\ \/ ~running' /\ client' = client
           \/ running' /\ config' = next /\ client' = Connected(none, next.shards)
    BY DEF Start
  <1> HIDE DEF next
  <1>3. GoodMap(config'.shards) /\ (config'.version # 0 => Count' > 0)
    BY <1>1, <1>2 DEF MapInv, Count
  <1>4. CASE ~running' /\ client' = client
    BY <1>3, <1>4 DEF MapInv
  <1>5. CASE running' /\ config' = next /\ client' = Connected(none, next.shards)
    <2>1. /\ GoodClients(client')
          /\ \A i \in 1 .. Len(next.shards) : client'[next.shards[i].id] # NoPair
      BY <1>1, <1>5, NoClients, ConnectedClients
    <2> QED BY <1>3, <1>5, <2>1 DEF MapInv, Count
  <1> QED BY <1>2, <1>4, <1>5

\* No step leaves the invariant.
LEMMA MapStep ==
  ASSUME MapInv, HysteresisInv, [Next]_vars
  PROVE  MapInv'
  <1>1. CASE Start
    BY <1>1, StartMap
  <1>2. CASE Stop
    BY <1>2, NoClients DEF Stop, MapInv, Count
  <1>3. CASE Apply
    <2> DEFINE shards == BuildShards(Inventory, latest.count)
    <2>1. /\ CanBuild(Inventory, latest.count)
          /\ client' = Connected(client, shards) /\ config'.shards = shards
      BY <1>3 DEF Apply
    <2>2. GoodMap(shards) /\ Len(shards) > 0
      <3>1. latest.count \in 0 .. Len(Inventory) /\ latest.count \in Nat /\ latest.count > 0
        BY <2>1, InventoryType DEF CanBuild, HysteresisInv, Justified
      <3> QED BY <3>1, BuildIsGood, BuildLength
    <2> HIDE DEF shards
    <2>3. /\ GoodClients(client')
          /\ \A i \in 1 .. Len(shards) : client'[shards[i].id] # NoPair
      BY <2>1, <2>2, ConnectedClients DEF MapInv
    <2> QED BY <2>1, <2>2, <2>3 DEF MapInv, Count
  <1>4. ASSUME NEW accepted \in 0 .. MaxAccepted, CompleteEpoch(accepted)
        PROVE  MapInv'
    BY <1>4 DEF CompleteEpoch, MapInv, Count
  <1>5. ASSUME NEW i \in DOMAIN Inventory, Promote(i)
        PROVE  MapInv'
    <2> DEFINE old == config.shards
               m == [old EXCEPT ![i] = Swapped(@)]
    <2>1. /\ i \in DOMAIN old /\ old[i].standby # NoPair /\ running
          /\ config'.shards = m /\ Count > 0
          /\ client' = [client EXCEPT ![old[i].id] = old[i].standby]
          /\ UNCHANGED running
      BY <1>5 DEF Promote, Count, MapInv, GoodMap
    <2>2. GoodMap(old) /\ DOMAIN old = 1 .. Len(old)
      BY DEF MapInv, GoodMap
    <2>3. GoodMap(m) /\ Len(m) = Len(old) /\ \A j \in 1 .. Len(old) : m[j].id = old[j].id
      BY <2>1, <2>2, PromotedIsGood
    <2> HIDE DEF m
    <2>4. /\ old[i].id \in Ids /\ old[i].standby \in Pairs
          /\ old[i].standby \in PairsOf(old[i].id)
      BY <2>1, <2>2 DEF GoodMap, ShardRecord
    <2> HIDE DEF old
    <2>5. GoodClients(client')
      BY <2>1, <2>4 DEF MapInv, GoodClients
    <2>6. \A j \in 1 .. Len(m) : client'[m[j].id] # NoPair
      <3> TAKE j \in 1 .. Len(m)
      <3>1. m[j].id = old[j].id /\ client[old[j].id] # NoPair /\ old[j].id \in Ids
        BY <2>1, <2>2, <2>3 DEF MapInv, Count, old, GoodMap
      <3> QED BY <2>1, <2>4, <3>1 DEF MapInv, GoodClients
    <2> QED BY <2>1, <2>3, <2>5, <2>6 DEF MapInv, Count
  <1>6. CASE UNCHANGED vars
    BY <1>6 DEF vars, MapInv, Count
  <1> QED BY <1>1, <1>2, <1>3, <1>4, <1>5, <1>6 DEF Next

\* At first there is no map.
LEMMA InitMap == Init => MapInv
  <1> SUFFICES ASSUME Init PROVE MapInv
    OBVIOUS
  <1>1. GoodMap(<< >>)
    BY DEF GoodMap
  <1> QED BY <1>1, NoClients DEF Init, MapInv, Count

\* Whatever was applied, promoted and restarted, every row of the table of the
\* moment is routed to the one shard that has it, at the row the client
\* encrypted for, and a running coordinator has a client for a pair of that
\* shard: for every inventory that passes validateShardMap.
THEOREM EveryRowIsRouted == Spec => []EveryRowRouted
  <1>1. Init => MapInv /\ HysteresisInv
    BY InitMap, InitHysteresis
  <1>2. MapInv /\ HysteresisInv /\ [Next]_vars => (MapInv /\ HysteresisInv)'
    BY MapStep, HysteresisStep
  <1>3. MapInv => EveryRowRouted
    BY MapInvRoutes
  <1> QED BY <1>1, <1>2, <1>3, PTL DEF Spec

\* validateShardMap accepts a good map.
LEMMA GoodMapIsValid ==
  ASSUME NEW shards, GoodMap(shards), Len(shards) > 0
  PROVE  ValidShardMap(shards)
  <1> DEFINE n == Len(shards)
             ordered(p) == \A i, j \in DOMAIN shards : i < j => RowOrder(shards[p[i]], shards[p[j]])
             place == CHOOSE p \in Bijection(DOMAIN shards, DOMAIN shards) : ordered(p)
             self == [i \in 1 .. n |-> i]
  <1>1. n \in Nat /\ DOMAIN shards = 1 .. n /\ shards \in [1 .. n -> ShardRecord]
    BY DEF GoodMap
  <1>2. \A i \in 1 .. n : shards[i].start = (i - 1) * Height /\ shards[i].end = i * Height
    BY DEF GoodMap
  <1>3. ASSUME NEW i \in 1 .. n, NEW j \in 1 .. n
        PROVE  i < j <=> shards[i].start < shards[j].start
    <2>1. shards[i].start = (i - 1) * Height /\ shards[j].start = (j - 1) * Height
      BY <1>2
    <2>2. i - 1 \in Int /\ j - 1 \in Int
      BY <1>1
    <2>3. i - 1 < j - 1 <=> (i - 1) * Height < (j - 1) * Height
      BY <2>2, ScaledOrder
    <2>4. i - 1 < j - 1 <=> i < j
      BY <1>1
    <2> QED BY <2>1, <2>3, <2>4
  <1>4. self \in Bijection(1 .. n, 1 .. n)
    BY DEF Bijection, Injection, Surjection, IsInjective
  <1>5. ordered(self)
    BY <1>1, <1>3 DEF RowOrder
  <1>6. place \in Bijection(1 .. n, 1 .. n) /\ ordered(place)
    <2> HIDE DEF ordered, self
    <2> QED BY <1>1, <1>4, <1>5
  <1>7. SortedByRow(shards) = [i \in DOMAIN shards |-> shards[place[i]]]
    BY DEF SortedByRow
  <1> HIDE DEF place, n
  <1>8. /\ place \in Surjection(1 .. n, 1 .. n)
        /\ \A i \in 1 .. n : place[i] \in 1 .. n
        /\ \A i, j \in 1 .. n : place[i] = place[j] => i = j
    BY <1>6 DEF Bijection, Injection, IsInjective
  <1>9. \A i, j \in 1 .. n : i < j => place[i] < place[j]
    <2> SUFFICES ASSUME NEW i \in 1 .. n, NEW j \in 1 .. n, i < j PROVE place[i] < place[j]
      OBVIOUS
    <2> DEFINE k == place[i]
               l == place[j]
    <2>1. k \in 1 .. n /\ l \in 1 .. n /\ k # l
      BY <1>1, <1>8
    <2>2. RowOrder(shards[k], shards[l])
      BY <1>1, <1>6
    <2>3. shards[k].start \in Int /\ shards[l].start \in Int
      <3> HIDE DEF k, l
      <3> QED BY <1>1, <2>1 DEF ShardRecord
    <2> HIDE DEF k, l
    <2>4. ~ (shards[l].start < shards[k].start)
      BY <2>2, <2>3 DEF RowOrder
    <2>5. ~ (l < k)
      BY <1>3, <2>1, <2>4
    <2>6. k < l
      BY <1>1, <2>1, <2>5
    <2> QED BY <2>6 DEF k, l
  <1>10. \A i \in 1 .. n : place[i] = i
    BY <1>1, <1>8, <1>9, IncreasingIsIdentity
  <1>11. SortedByRow(shards) = shards
    BY <1>1, <1>7, <1>10
  <1>12. shards[1].start = 0
    <2>1. (1 - 1) * Height = 0
      BY Z3
    <2>2. 1 \in 1 .. n
      BY <1>1 DEF n
    <2> QED BY <1>2, <2>1, <2>2
  <1>13. ASSUME NEW i \in 1 .. n
         PROVE  /\ shards[i].end - shards[i].start = Height
                /\ i > 1 => shards[i].start = shards[i - 1].end
                /\ \A j \in 1 .. n : shards[i].id = shards[j].id => i = j
    <2>1. i * Height = (i - 1) * Height + Height /\ (i - 1) * Height \in Int
      BY <1>1, Z3
    <2>2. shards[i].start = (i - 1) * Height /\ shards[i].end = i * Height
      BY <1>2
    <2>3. i > 1 => i - 1 \in 1 .. n
      BY <1>1
    <2>4. i > 1 => shards[i - 1].end = (i - 1) * Height
      BY <1>2, <2>3
    <2> QED BY <2>1, <2>2, <2>4 DEF GoodMap, n
  <1> QED BY <1>1, <1>11, <1>12, <1>13 DEF ValidShardMap, n

\* What validateShardConfigRecord asks of the record's map.
StoredMapIsValid == config.version # 0 => ValidShardMap(config.shards)

\* activeShardConfig, which every operation calls, validates the record it
\* reads: no record that applications, promotions and restarts leave fails it.
\* (Start and InventoryContains need not repeat the check.)
THEOREM StoredMapsAreValid == Spec => []StoredMapIsValid
  <1>1. Init => MapInv /\ HysteresisInv
    BY InitMap, InitHysteresis
  <1>2. MapInv /\ HysteresisInv /\ [Next]_vars => (MapInv /\ HysteresisInv)'
    BY MapStep, HysteresisStep
  <1>3. MapInv => StoredMapIsValid
    BY GoodMapIsValid DEF MapInv, StoredMapIsValid, Count
  <1> QED BY <1>1, <1>2, <1>3, PTL DEF Spec

-----------------------------------------------------------------------------
(***************************************************************************)
(* Restarts                                                                *)
(***************************************************************************)

\* The ids of the flags are in the order of their rows.
IdsFollowRows ==
  \A i, j \in DOMAIN Inventory : Inventory[i].id < Inventory[j].id => Inventory[i].start < Inventory[j].start

\* The constructor accepts n shards under the flags.
Fits(n) == ValidPolicy(n, ResolveScalingPolicy(n, Flags))

\* The invariant behind RestartAccepted: the inventory contains the map, a
\* start accepts its size, and will accept the size that is recommended.
RestartInv ==
  /\ config.version \in Nat
  /\ config.version > 0 => InventoryContains(Inventory, config.shards) /\ Fits(Count)
  /\ running => config.version > 0
  /\ Flags.max # 0 => policy.max = Flags.max
  /\ Flags.min # 0 => policy.min = Flags.min
  /\ latest.action \in {"grow", "shrink"} =>
       /\ Flags.max # 0 => latest.count <= Flags.max
       /\ Flags.min # 0 /\ Flags.max = 0 => Flags.min <= latest.count
  /\ ~refused

\* With ids in row order, sorting by id puts every shard at its own rows.
LEMMA ByIdIsByRow ==
  ASSUME IdsFollowRows
  PROVE  \A i \in 1 .. Len(Inventory) : \E k \in 1 .. Len(Inventory) :
           /\ SortedById(Inventory)[i] = Inventory[k]
           /\ Inventory[k].start = (i - 1) * Height
           /\ Inventory[k].end = i * Height
  <1> DEFINE n == Len(Inventory)
             s == SortedByRow(Inventory)
             byId == SortedById(Inventory)
  <1>1. PICK p \in Bijection(1 .. n, 1 .. n) : s = [i \in 1 .. n |-> Inventory[p[i]]]
    BY ByRow
  <1>2. PICK q \in Bijection(1 .. n, 1 .. n) :
          /\ byId = [i \in 1 .. n |-> Inventory[q[i]]]
          /\ \A i, j \in 1 .. n : i < j => Inventory[q[i]].id <= Inventory[q[j]].id
    BY ById
  <1>3. \A i \in 1 .. n : /\ s[i] = Inventory[p[i]]
                          /\ s[i].start = (i - 1) * Height /\ s[i].end = i * Height
    BY <1>1, ByRowIsMap
  <1>4. n \in Nat /\ DOMAIN Inventory = 1 .. n /\ \A i \in 1 .. n : Inventory[i] \in ShardRecord
    BY InventoryType
  <1>5. /\ \A i \in 1 .. n : p[i] \in 1 .. n /\ q[i] \in 1 .. n
        /\ \A i \in 1 .. n : \E k \in 1 .. n : p[k] = i
        /\ \A i \in 1 .. n : \E k \in 1 .. n : q[k] = i
        /\ \A i, j \in 1 .. n : q[i] = q[j] => i = j
        /\ \A i, j \in 1 .. n : p[i] = p[j] => i = j
    BY DEF Bijection, Injection, IsInjective, Surjection
  <1> DEFINE g == [i \in 1 .. n |-> CHOOSE k \in 1 .. n : p[k] = q[i]]
  <1>6. \A i \in 1 .. n : g[i] \in 1 .. n /\ p[g[i]] = q[i]
    BY <1>5
  <1>7. g \in [1 .. n -> 1 .. n]
    BY <1>6
  <1> HIDE DEF g, s, byId, n
  <1>8. g \in Surjection(1 .. n, 1 .. n)
    <2>1. ASSUME NEW k \in 1 .. n PROVE \E i \in 1 .. n : g[i] = k
      <3>1. PICK i \in 1 .. n : q[i] = p[k]
        BY <1>5
      <3>2. g[i] \in 1 .. n /\ p[g[i]] = p[k]
        BY <1>6, <3>1
      <3>3. g[i] = k
        BY <1>5, <3>2
      <3> QED BY <3>3
    <2> QED BY <1>7, <2>1 DEF Surjection
  <1>9. \A i \in 1 .. n : Inventory[q[i]].start = (g[i] - 1) * Height /\ Inventory[q[i]].end = g[i] * Height
    BY <1>3, <1>6
  <1>10. \A i, j \in 1 .. n : i < j => g[i] < g[j]
    <2> SUFFICES ASSUME NEW i \in 1 .. n, NEW j \in 1 .. n, i < j PROVE g[i] < g[j]
      OBVIOUS
    <2>1. q[i] \in 1 .. n /\ q[j] \in 1 .. n /\ q[i] # q[j]
      BY <1>4, <1>5
    <2>2. Inventory[q[i]].id # Inventory[q[j]].id
      BY <2>1, DistinctIds DEF n
    <2>3. Inventory[q[i]].id \in Int /\ Inventory[q[j]].id \in Int
      BY <1>4, <2>1 DEF ShardRecord
    <2>4. Inventory[q[i]].id < Inventory[q[j]].id
      BY <1>2, <2>2, <2>3
    <2>5. Inventory[q[i]].start < Inventory[q[j]].start
      BY <1>4, <2>1, <2>4 DEF IdsFollowRows
    <2>6. (g[i] - 1) * Height < (g[j] - 1) * Height
      BY <1>9, <2>5
    <2>7. g[i] \in Int /\ g[j] \in Int
      BY <1>4, <1>6
    <2>8. g[i] - 1 < g[j] - 1
      <3>1. g[i] - 1 \in Int /\ g[j] - 1 \in Int
        BY <2>7
      <3> QED BY <2>6, <3>1, ScaledOrder
    <2> QED BY <2>7, <2>8
  <1>11. \A i \in 1 .. n : g[i] = i
    BY <1>4, <1>8, <1>10, IncreasingIsIdentity
  <1>12. \A i \in 1 .. n : /\ byId[i] = Inventory[q[i]] /\ q[i] \in 1 .. n
                           /\ Inventory[q[i]].start = (i - 1) * Height
                           /\ Inventory[q[i]].end = i * Height
    BY <1>2, <1>5, <1>9, <1>11
  <1> QED BY <1>12 DEF byId, n

\* The inventory contains the maps that are built from it.
LEMMA BuiltIsContained ==
  ASSUME IdsFollowRows, NEW n \in 0 .. Len(Inventory)
  PROVE  InventoryContains(Inventory, BuildShards(Inventory, n))
  <1> DEFINE m == BuildShards(Inventory, n)
             byId == SortedById(Inventory)
  <1>1. DOMAIN m = 1 .. n /\ m = [i \in 1 .. n |-> [byId[i] EXCEPT !.start = (i - 1) * Height, !.end = i * Height]]
    BY BuildLength, InventoryType DEF BuildShards
  <1> HIDE DEF m, byId
  <1>2. ASSUME NEW i \in 1 .. n
        PROVE  \E j \in DOMAIN Inventory : Inventory[j] = m[i]
    <2>1. i \in 1 .. Len(Inventory)
      BY InventoryType
    <2>2. PICK k \in 1 .. Len(Inventory) : /\ byId[i] = Inventory[k]
                                          /\ Inventory[k].start = (i - 1) * Height
                                          /\ Inventory[k].end = i * Height
      BY <2>1, ByIdIsByRow DEF byId
    <2>3. Inventory[k] \in ShardRecord /\ k \in DOMAIN Inventory
      BY InventoryType
    <2>4. m[i] = [Inventory[k] EXCEPT !.start = Inventory[k].start, !.end = Inventory[k].end]
      BY <1>1, <2>2
    <2>5. m[i] = Inventory[k]
      BY <2>3, <2>4 DEF ShardRecord
    <2> QED BY <2>3, <2>5
  <1>3. InventoryContains(Inventory, m)
    BY <1>1, <1>2 DEF InventoryContains
  <1> QED BY <1>3 DEF m

\* The inventory contains the seed.
LEMMA SeedIsContained ==
  ASSUME IdsFollowRows
  PROVE  InventoryContains(Inventory, Seed)
  <1>1. CASE InitialFlag # 0
    BY <1>1, BuiltIsContained, InitialFlagAssumption DEF Seed
  <1>2. CASE InitialFlag = 0
    <2>1. PICK p \in Bijection(1 .. Len(Inventory), 1 .. Len(Inventory)) :
            SortedByRow(Inventory) = [i \in 1 .. Len(Inventory) |-> Inventory[p[i]]]
      BY ByRow
    <2>2. \A i \in 1 .. Len(Inventory) : p[i] \in DOMAIN Inventory
      BY InventoryType DEF Bijection, Injection
    <2> QED BY <1>2, <2>1, <2>2 DEF Seed, InventoryContains
  <1> QED BY <1>1, <1>2

\* The inventory contains a map one of whose shards was promoted.
LEMMA PromotedIsContained ==
  ASSUME NEW shards, GoodMap(shards), InventoryContains(Inventory, shards),
         NEW i \in 1 .. Len(shards), shards[i].standby # NoPair
  PROVE  InventoryContains(Inventory, [shards EXCEPT ![i] = Swapped(@)])
  <1> DEFINE m == [shards EXCEPT ![i] = Swapped(@)]
  <1>1. shards \in [1 .. Len(shards) -> ShardRecord]
    BY DEF GoodMap
  <1>2. /\ DOMAIN m = 1 .. Len(shards)
        /\ \A j \in 1 .. Len(shards) : m[j] = IF j = i THEN Swapped(shards[i]) ELSE shards[j]
    BY <1>1
  <1> HIDE DEF m
  <1>3. PICK k \in DOMAIN Inventory : \/ Inventory[k] = shards[i]
                                      \/ Inventory[k].standby # NoPair /\ Swapped(Inventory[k]) = shards[i]
    BY <1>1 DEF InventoryContains
  <1>4. Swapped(Swapped(Inventory[k])) = Inventory[k]
    <2>1. Inventory[k] \in ShardRecord
      BY InventoryType
    <2> QED BY <2>1 DEF Swapped, ShardRecord
  <1>5. \/ Inventory[k] = m[i]
        \/ Inventory[k].standby # NoPair /\ Swapped(Inventory[k]) = m[i]
    BY <1>2, <1>3, <1>4
  <1>6. InventoryContains(Inventory, m)
    BY <1>1, <1>2, <1>5 DEF InventoryContains
  <1> QED BY <1>6 DEF m

\* A recommendation to change keeps to the minimum, if the count did.
LEMMA ScaleAboveMinimum ==
  ASSUME NEW n \in Nat, NEW accepted \in Nat, NEW p \in Policy, p.min <= n,
         ComputeNextDatasetScale(n, accepted, p).action \in {"grow", "shrink"}
  PROVE  /\ ValidPolicy(n, p)
         /\ p.min <= ComputeNextDatasetScale(n, accepted, p).count
  <1>1. /\ ValidPolicy(n, p)
        /\ ComputeNextDatasetScale(n, accepted, p).count \in {n, GrowTarget(n, p), ShrinkTarget(n, p)}
    BY DEF ComputeNextDatasetScale
  <1>2. /\ n \in Nat \ {0} /\ p.multiplier \in Nat \ {0}
        /\ p.min \in Int /\ p.max \in Int /\ p.min <= p.max
    BY <1>1 DEF ValidPolicy, Policy
  <1>3. p.min <= GrowTarget(n, p)
    <2>1. 1 * n <= p.multiplier * n
      BY <1>2, ProductMonotone
    <2>2. p.multiplier * n = n * p.multiplier /\ 1 * n = n /\ n * p.multiplier \in Int
      BY <1>2, Z3
    <2> QED BY <1>2, <2>1, <2>2 DEF GrowTarget, Smaller
  <1>4. p.min <= ShrinkTarget(n, p)
    <2>1. (n + p.multiplier - 1) \div p.multiplier \in Int
      BY <1>2, CeilBound
    <2> QED BY <1>2, <2>1 DEF ShrinkTarget, Larger
  <1> QED BY <1>1, <1>3, <1>4

\* Where the flags accept n shards they accept every other number within the
\* limits that are given.
LEMMA FitsWithinLimits ==
  ASSUME NEW n \in Nat, Fits(n), NEW m \in Nat \ {0},
         Flags.max # 0 => m <= Flags.max,
         Flags.min # 0 /\ Flags.max = 0 => Flags.min <= m
  PROVE  Fits(m)
  BY FlagsAssumption DEF Fits, ValidPolicy, ResolveScalingPolicy, Policy

\* A start accepts what it finds.
LEMMA StartAccepts ==
  ASSUME RestartInv, MapInv, HysteresisInv, Start, IdsFollowRows, Fits(Len(Seed))
  PROVE  RestartInv'
  <1> DEFINE next == IF config.version = 0 THEN [version |-> 1, shards |-> Seed] ELSE config
             n == Len(next.shards)
             resolved == ResolveScalingPolicy(n, Flags)
             contained == config.version > 0 => InventoryContains(Inventory, config.shards)
             accepted == contained /\ ValidPolicy(n, resolved)
  <1>1. contained
    BY DEF RestartInv
  <1>2. /\ next.version \in Nat /\ next.version > 0
        /\ InventoryContains(Inventory, next.shards) /\ Fits(n)
    BY SeedIsContained DEF RestartInv, Count
  <1>3. /\ Flags.max # 0 => resolved.max = Flags.max
        /\ Flags.min # 0 => resolved.min = Flags.min
    BY DEF ResolveScalingPolicy
  <1>4. accepted
    BY <1>1, <1>2 DEF Fits
  <1>5. /\ config' = next /\ running' /\ ~refused' /\ policy' = resolved
        /\ UNCHANGED latest
    BY <1>1, <1>4 DEF Start
  <1> HIDE DEF next, resolved
  <1> QED BY <1>2, <1>3, <1>5 DEF RestartInv, Count

\* No step leaves the invariant.
LEMMA RestartStep ==
  ASSUME RestartInv, MapInv, HysteresisInv, [Next]_vars, IdsFollowRows, Fits(Len(Seed))
  PROVE  RestartInv'
  <1>1. CASE Start
    BY <1>1, StartAccepts
  <1>2. CASE Stop
    BY <1>2 DEF Stop, RestartInv, Count
  <1>3. CASE Apply
    <2> DEFINE shards == BuildShards(Inventory, latest.count)
    <2>1. /\ running /\ latest.action \in {"grow", "shrink"}
          /\ CanBuild(Inventory, latest.count)
          /\ config' = [version |-> config.version + 1, shards |-> shards]
          /\ UNCHANGED <<running, refused, policy, latest>>
      BY <1>3 DEF Apply
    <2>2. latest.count \in Nat \ {0} /\ latest.count \in 0 .. Len(Inventory)
      BY <2>1, InventoryType DEF CanBuild, HysteresisInv, Justified
    <2>3. InventoryContains(Inventory, shards) /\ Len(shards) = latest.count
      BY <2>2, BuiltIsContained, BuildLength
    <2> HIDE DEF shards
    <2>4. Fits(latest.count)
      BY <2>1, <2>2, FitsWithinLimits DEF RestartInv, HysteresisInv
    <2>5. config'.version \in Nat /\ config'.version > 0
      BY <2>1 DEF RestartInv
    <2>6. Count' = latest.count /\ config'.shards = shards
      BY <2>1, <2>3 DEF Count
    <2> QED BY <2>1, <2>3, <2>4, <2>5, <2>6 DEF RestartInv
  <1>4. ASSUME NEW accepted \in 0 .. MaxAccepted, CompleteEpoch(accepted)
        PROVE  RestartInv'
    <2> DEFINE rec == ComputeNextDatasetScale(Count, accepted, policy)
    <2>1. /\ accepted \in Nat /\ running
          /\ latest'.action = rec.action /\ latest'.count = rec.count
          /\ UNCHANGED <<config, running, policy, refused>>
      BY <1>4 DEF CompleteEpoch
    <2>2. Count \in Nat /\ policy \in Policy /\ Fits(Count)
      BY <2>1 DEF RestartInv, HysteresisInv
    <2>3. ASSUME rec.action \in {"grow", "shrink"}
          PROVE  /\ Flags.max # 0 => rec.count <= Flags.max
                 /\ Flags.min # 0 /\ Flags.max = 0 => Flags.min <= rec.count
      <3>1. ValidPolicy(Count, policy)
        BY <2>3 DEF ComputeNextDatasetScale
      <3>2. rec.count <= policy.max
        BY <2>1, <2>2, <3>1, ScaleWithinBudget
      <3>3. Flags.min # 0 /\ Flags.max = 0 => policy.min <= Count
        BY <2>2 DEF Fits, ValidPolicy, ResolveScalingPolicy, RestartInv
      <3>4. Flags.min # 0 /\ Flags.max = 0 => policy.min <= rec.count
        BY <2>1, <2>2, <2>3, <3>3, ScaleAboveMinimum
      <3> HIDE DEF rec
      <3> QED BY <3>2, <3>4 DEF RestartInv
    <2> HIDE DEF rec
    <2> QED BY <2>1, <2>3 DEF RestartInv, Count
  <1>5. ASSUME NEW i \in DOMAIN Inventory, Promote(i)
        PROVE  RestartInv'
    <2> DEFINE old == config.shards
               m == [old EXCEPT ![i] = Swapped(@)]
    <2>1. /\ i \in DOMAIN old /\ old[i].standby # NoPair /\ running
          /\ config' = [version |-> config.version + 1, shards |-> m]
          /\ UNCHANGED <<running, refused, policy, latest>>
      BY <1>5 DEF Promote
    <2>2. GoodMap(old) /\ DOMAIN old = 1 .. Len(old)
      BY DEF MapInv, GoodMap
    <2>3. InventoryContains(Inventory, old) /\ Fits(Count)
      BY <2>1 DEF RestartInv
    <2>4. InventoryContains(Inventory, m) /\ Len(m) = Len(old)
      BY <2>1, <2>2, <2>3, PromotedIsContained, PromotedIsGood
    <2> HIDE DEF m
    <2>5. config'.version \in Nat /\ config'.version > 0 /\ config'.shards = m
      BY <2>1 DEF RestartInv
    <2>6. Count' = Count
      BY <2>4, <2>5 DEF Count
    <2> QED BY <2>1, <2>3, <2>4, <2>5, <2>6 DEF RestartInv
  <1>6. CASE UNCHANGED vars
    BY <1>6 DEF vars, RestartInv, Count
  <1> QED BY <1>1, <1>2, <1>3, <1>4, <1>5, <1>6 DEF Next

\* If the ids of the inventory are in row order and the first start is
\* accepted, every later one with the same flags is: after any applications
\* and promotions, also of a recommendation that an earlier coordinator left.
THEOREM RestartsAreAccepted ==
  ASSUME IdsFollowRows, Fits(Len(Seed))
  PROVE  Spec => []RestartAccepted
  <1> DEFINE Inv == RestartInv /\ MapInv /\ HysteresisInv
  <1>1. Init => Inv
    <2>1. Init => RestartInv
      BY FlagsAssumption DEF Init, RestartInv, NoRecommendation
    <2> QED BY <2>1, InitMap, InitHysteresis
  <1>2. Inv /\ [Next]_vars => Inv'
    BY RestartStep, MapStep, HysteresisStep
  <1>3. Inv => RestartAccepted
    BY DEF RestartInv, RestartAccepted
  <1> QED BY <1>1, <1>2, <1>3, PTL DEF Spec
=============================================================================
