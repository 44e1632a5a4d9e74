SPECIFICATION FairSpec
CONSTANTS
  Coordinators = {c1, c2}
  Rpcs = {r1}
  Ticker = Ticker
  MaxToken = 2
  MaxStops = 1
  Nobody = Nobody
CHECK_DEADLOCK FALSE
INVARIANT LeaseInv
PROPERTY ImplementsFencedLease
PROPERTY LeaseIsRecovered
