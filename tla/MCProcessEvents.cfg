\* The handlers main creates when it is given a timeout and no reload time, with one of
\* its two signals.
SPECIFICATION FairSpec
CONSTANTS
  timeout = timeout
  watcher = watcher
  sigint = sigint
  Timers = {timeout}
  Watchers = {watcher}
  Signals = {sigint}
  Reloaders <- const_Reloaders
  Closers <- const_Closers
  Nobody = nobody
  MaxSignals = 1
  MaxChanges = 2
INVARIANTS NoReloadOnStoppedProxy NobodyCallsDeletedHandler
PROPERTIES ShutdownCompletes
CHECK_DEADLOCK FALSE
