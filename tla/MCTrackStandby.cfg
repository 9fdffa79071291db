\* A standby proxy that nobody promotes may spin in transmit_ for ever.
SPECIFICATION FairSpec
CONSTANTS
  Workers = {w1}
  Controllers = {c1}
  Listener = listener
  Nobody = nobody
  Participants = {p1}
  Kinds = {"reliable"}
  UIntMod = 8
  MaxSamples = 1
  MaxObjects = 1
  MaxQueued = 0
  BadSamples = {}
PROPERTIES WritersChangeReturns
CHECK_DEADLOCK FALSE
