SPECIFICATION Spec
CONSTANTS
  Coordinators = {c1, c2}
  Rpcs = {r1}
  Ticker = Ticker
  MaxToken = 2
  MaxStops = 0
  Nobody = Nobody
SYMMETRY Symmetry
CHECK_DEADLOCK FALSE
INVARIANT MutationsAreFenced
