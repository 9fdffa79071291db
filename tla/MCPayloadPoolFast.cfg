\* FastPayloadPool against what its header says of the counter.
SPECIFICATION Spec
CONSTANTS
  Pools = {"fast"}
  Addresses = {a1, a2, a3, a4}
  Writers = {w1, w2}
  Depth = 2
  MaxUnread = 2
  Nothing = nothing
  NoThread = nobody
SYMMETRY Symmetry
INVARIANTS CheckedAndModifiedAtOnce
CHECK_DEADLOCK FALSE
