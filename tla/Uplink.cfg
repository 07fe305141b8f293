SPECIFICATION FairSpec
CONSTANT MaxClients = 2
INVARIANTS UplinkInv OrphanOnlyByBoot EndsOnlyAsked
PROPERTIES RestartCompletes ConnectionReturns
