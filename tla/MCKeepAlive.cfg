\* A master and a slave that change roles.
SPECIFICATION Spec
CONSTANTS
  Proxies = {pa, pb}
  FirstMaster = pa
  heartbeat_interval = 1
  keepalived_interval = 5
  Late = 1
  MaxDelay = 1
  MaxDiscovery = 1
  MaxEnds = 4
INVARIANTS AtMostOneMaster FailoverInTime
CHECK_DEADLOCK FALSE
