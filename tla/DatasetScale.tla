---------------------------- MODULE DatasetScale ----------------------------
(***************************************************************************)
(* The scaling policy (coordinator/scaling.go): from the load of an epoch  *)
(* to the number of shards of the next.  Densities are compared as         *)
(* products; thresholds are whole numbers here, as the defaults are, so    *)
(* float64 and the integers agree.                                         *)
(***************************************************************************)
EXTENDS Integers

CONSTANT Height \* db.TABLE_HEIGHT, rows of a shard

ASSUME HeightAssumption == Height \in Nat \ {0}

\* ScalingPolicyConfig.
Policy == [min : Int, max : Int, rows : Int, up : Int, down : Int, multiplier : Int]

\* A request count and duration are those of a completed epoch, never invalid.
ValidPolicy(n, p) ==
  /\ n > 0
  /\ p.min > 0 /\ p.max > 0 /\ p.min <= p.max /\ n <= p.max
  /\ p.rows > 0
  /\ p.down >= 0 /\ p.up > p.down
  /\ p.multiplier >= 1

\* resolveScalingPolicyConfig for n shards; the result may be invalid.
ResolveScalingPolicy(n, flags) ==
  [min |-> IF flags.min = 0 THEN n ELSE flags.min,
   max |-> IF flags.max = 0 THEN n ELSE flags.max,
   rows |-> IF flags.rows = 0 THEN Height ELSE flags.rows,
   up |-> flags.up, down |-> flags.down, multiplier |-> flags.multiplier]

Smaller(a, b) == IF a < b THEN a ELSE b
Larger(a, b) == IF a > b THEN a ELSE b

\* Variant: the growth is not cut off at the maximum.
GrowTarget_Uncapped(n, p) == n * p.multiplier

GrowTarget(n, p) == Smaller(n * p.multiplier, p.max)

\* Ceil(n / multiplier), and not below the minimum.
ShrinkTarget(n, p) == Larger((n + p.multiplier - 1) \div p.multiplier, p.min)

\* Variant: a load counts as low when it would not be high after a shrink.
LoadIsLow_AfterShrink(n, accepted, p) == accepted <= p.up * ShrinkTarget(n, p) * p.rows

LoadIsLow(n, accepted, p) == accepted <= p.down * n * p.rows

LoadIsHigh(n, accepted, p) == accepted >= p.up * n * p.rows

\* ComputeNextDatasetScale: action and shard count for n shards that
\* accepted this many uploads.
ComputeNextDatasetScale(n, accepted, p) ==
  LET keep == [action |-> "keep", count |-> n]
      move(action, target) == IF target = n THEN keep ELSE [action |-> action, count |-> target]
  IN
  CASE ~ValidPolicy(n, p) -> keep
    [] ValidPolicy(n, p) /\ LoadIsHigh(n, accepted, p) -> move("grow", GrowTarget(n, p))
    [] ValidPolicy(n, p) /\ ~LoadIsHigh(n, accepted, p) /\ LoadIsLow(n, accepted, p) ->
         move("shrink", ShrinkTarget(n, p))
    [] OTHER -> keep
=============================================================================
