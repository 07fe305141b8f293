SPECIFICATION FairSpec
CONSTANTS
  Retries = 5
  MaxEvents = 3
  TimerQueue = 2
INVARIANTS StationInv RetryAlone NeverStranded Pauses FlagIsLink
PROPERTY JoinsInTheEnd
