SPECIFICATION LoopSpec
CONSTANTS
  d1 = d1
  d2 = d2
  tokens = tokens
  None = None
  Drivers = {d1, d2}
  Resources = {tokens}
  MaxUsage <- MCMaxUsage
  Reserve <- MCReserve
  MaxAttempts = 3
  MaxIterations = 2
  MaxStagnant = 1
  Progress = {p1}
  MaxTrouble = 1
INVARIANT NoAttemptAfterTheEnd
CHECK_DEADLOCK FALSE
