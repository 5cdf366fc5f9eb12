SPECIFICATION FairSpec
CONSTANTS
  Job <- ScheduledJobs
  MaxFailures = 3
  MaxEntries = 2

  
PROPERTIES
  RebalanceUnblocked
  SafeModeSettles
