\* Four tasks with every mix of late, immediate and future deadlines.
CONSTANTS
  Priorities <- MCPriorities
  Delays <- MCDelays
  StartTime = 2
  MaxTasks = 4
  MaxTime = 4
SPECIFICATION FairSpec
INVARIANTS ScheduleSorted IInv
PROPERTIES ImplementsTaskPool EveryTaskRuns RunReturns
