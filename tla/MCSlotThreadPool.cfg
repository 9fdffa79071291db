\* Two threads, two emitters, tasks that all return.
SPECIFICATION FairSpec
CONSTANTS
  high = high
  low = low
  other = other
  Workers = {w1, w2}
  Emitters = {e1, e2}
  Nobody = nobody
  Tasks <- const_Tasks
  Priority <- const_Priority
  MaxEmits <- const_Emits
INVARIANTS CounterMatchesQueue SomeThreadServesBothQueues ExecutedAtMostOncePerEmit
PROPERTIES QueuedTaskIsExecuted DisableReturns
CHECK_DEADLOCK FALSE
