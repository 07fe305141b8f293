SPECIFICATION TFairSpec
CONSTANTS
  LastCh = 1
  EndDelay <- MCEndDelay
  Debounce = 2
  Horizon = 3
  Readings <- TimedReadings
  MaxLogKey = 1
INVARIANT TInv
PROPERTIES NoEndWhileHigh NoGlitchStart ContractSpec SilenceEnds UseIsShown
