\* One track, two pool threads, one caller, two participants to write to.
SPECIFICATION FairSpec
CONSTANTS
  Workers = {w1, w2}
  Controllers = {c1}
  Listener = listener
  Nobody = nobody
  Participants = {p1, p2}
  Kinds = {"reliable", "best_effort", "internal"}
  UIntMod = 8
  MaxSamples = 2
  MaxObjects = 2
  MaxQueued = 0
  BadSamples = {}
INVARIANTS TypeOK WritersReadyWhileWriting QuietWhenDisabled NoLostWakeup
PROPERTIES NoForwardWhileOff ImplementsForwarder
CHECK_DEADLOCK FALSE
