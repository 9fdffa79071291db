\* Both pools, three writers, four blocks that the allocator gives again.
SPECIFICATION Spec
CONSTANTS
  Pools = {"map", "fast"}
  Addresses = {a1, a2, a3, a4}
  Writers = {w1, w2, w3}
  Depth = 2
  MaxUnread = 2
  Nothing = nothing
  NoThread = nobody
SYMMETRY Symmetry
INVARIANTS CountsHolders HoldersOwnTheirBlock NothingLeaks MapNeverThrows
CHECK_DEADLOCK FALSE
