SPECIFICATION Spec
CONSTANTS
  c1 = c1
  c2 = c2
  c3 = c3
  r1 = r1
  r2 = r2
  Callers = {c1, c2, c3}
  Releasers = {r1, r2}
  Names <- TwoNames
  Limit <- Limits
  NoEntry = NoEntry
  MaxToken = 2
SYMMETRY Symmetry
INVARIANTS TypeOK CountIsHolders WithinLimit
PROPERTIES HolderHasNewestToken ImplementsContract
CHECK_DEADLOCK FALSE
