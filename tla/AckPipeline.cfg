SPECIFICATION Spec
CONSTANTS
  Modes = {0, 1}
  Orbis = TRUE
  MaxAckTicks = 1
  MaxUpdates = 2
  MaxFlushes = 3
  MaxInputs = 3
  MaxTransfers = 1
INVARIANTS
  CountersMatchAcks
  QuiescentGameMode
  TimeoutNotEarly
  CorrectionFlagWillClear
  AcceptsOnlyCorrected
CHECK_DEADLOCK FALSE
