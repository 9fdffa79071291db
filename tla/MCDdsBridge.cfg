SPECIFICATION FairSpec
CONSTANTS
  p1 = p1
  p2 = p2
  p3 = p3
  Participants = {p1, p2, p3}
  Repeaters = {p3}
  Routed = {p2}
  RouteOf <- const_RouteOf
  MaxWriters = 2
INVARIANTS TypeOK TracksFollowRoutes OneWriterPerParticipant EnabledTogether QuietWhenDisabled SampleVisitsHeldWriters
PROPERTIES DisableReturns
CHECK_DEADLOCK FALSE
