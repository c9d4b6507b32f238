SPECIFICATION FairSpec
CONSTANTS
  Nodes = {n1, n2}
  Names = {kept, dropped}
  kept = kept
  dropped = dropped
  Handlers <- OneVersion
  Limit = 2
  MaxJobs = 3
  MaxCrashes = 1
  MaxStops = 1
  Interval = 2
  MaxTime = 5
INVARIANT SchedulesInPlace
PROPERTIES OncePerInterval ImplementsDelivery DueIsServed
