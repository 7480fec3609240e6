CONSTANTS
  Streams = {s1, s2}
  Stuck = {s2}
  WaitFor = 2
  Deadline = 3
SPECIFICATION FairSpec
INVARIANTS OnlyListsAreStreamed CleanExit
PROPERTIES StuckHandlersExitCleanly ProcessEnds ReadinessFollows
CHECK_DEADLOCK FALSE
