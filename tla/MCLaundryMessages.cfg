SPECIFICATION MSpec
CONSTANTS
  LastCh = 1
  EndDelay <- MCEndDelay
  Debounce = 1
  Horizon = 1
  Readings <- SomeReadings
  MaxLogKey = 4
INVARIANTS StreamInv StreamWellFormed ServerAgrees DeliveryInv LossesExplain LossesAreCounted WrongOnlyAfterLoss
