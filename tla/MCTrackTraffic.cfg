\* Liveness, with one participant and traffic that need not pause: one sample at a time,
\* numbered anew for ever.
\* A best-effort reader waits for no lock the others do not wait for.
SPECIFICATION TrafficSpec
CONSTANTS
  Workers = {w1, w2}
  Controllers = {c1}
  Listener = listener
  Nobody = nobody
  Participants = {p1}
  Kinds = {"reliable", "internal"}
  UIntMod = 16
  MaxSamples = 1
  MaxObjects = 1
  MaxQueued = 0
  BadSamples = {}
PROPERTIES DataIsForwarded CallsReturn
CHECK_DEADLOCK FALSE
