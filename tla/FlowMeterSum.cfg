SPECIFICATION Spec
CONSTANTS
  Limit = 3
  Word = 8
  Total = 16
  Period = 3
  Window = 3
  MaxLate = 2
  MaxPass = 2
  MaxBurst = 2
INVARIANT SumIsPulses
