SPECIFICATION FairSpec
CONSTANTS
  Parts = 3
  MaxUploads = 3
INVARIANTS OtaInv AnswerIsTrue
PROPERTIES AtomicUpdate ServesAgain
