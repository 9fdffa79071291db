\* Two participants, the second a repeater; a registry that two entries fill.
SPECIFICATION Spec
CONSTANTS
  p1 = p1
  p2 = p2
  q1 = q1
  q2 = q2
  q3 = q3
  Participants = {p1, p2}
  Repeaters = {p2}
  Requests = {q1, q3}
  Origin <- const_Origin
  Malformed = {}
  Threads = {t1, t2}
  MaxEntries = 2
  MaxReplies = 2
  MaxSwitches = 3
INVARIANTS TypeOK NoLostWakeup RepliesGoToAsker RepliesFindTheirEntry WritersMeetEnabledWriters
SYMMETRY Symmetry
CHECK_DEADLOCK FALSE
