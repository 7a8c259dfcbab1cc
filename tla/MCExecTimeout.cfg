SPECIFICATION FairSpec
CONSTANTS
  MaxCmds = 3
INVARIANTS SignalsEscalate CallerIsTold NothingPending TerminationIsForwarded
PROPERTIES EveryCommandEnds
