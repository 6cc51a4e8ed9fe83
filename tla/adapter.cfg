SPECIFICATION AdapterFairSpec
CONSTANTS
  NumRequests = 2
  Budget = 2
  MaxWaiting = 1
  MaxTrials = 2
  MaxErrors = 1
  MaxAborts = 1
INVARIANTS RoutingKnown CleanStart TraceComplete
PROPERTIES TrialEnds
CHECK_DEADLOCK FALSE
