CONSTANTS
  r1 = r1  r2 = r2  r3 = r3  srv = srv
  p1 = p1  p2 = p2
  topic = topic  builtin = builtin  rpc = rpc
  request = request  reply = reply
  any = any  onTopic = onTopic  onRequest = onRequest
  Guids = {r1, r2, r3, srv}
  RelevantGuids = {r1, r2, r3, srv}
  NoCallback = none
  none = none
  Topics = {topic}
  Services = {rpc}
  Participants = {p1, p2}
  Builtin = {}
  Filters = {any, onTopic, onRequest}
  Matches <- MCMatches
  RpcTopicsOf <- MCRpcTopicsOf
  Lists <- MCLists
  MayFail = {topic, rpc}
  TopicOf <- MCTopicOf
  ParticipantOf <- MCParticipantOf
  MaxPending = 1
  MaxAdds = 1
  MaxToggles = 3
SPECIFICATION Spec
CHECK_DEADLOCK FALSE
INVARIANTS
  TopicsFollowAllowedList
  ServicesFollowTheirFlag
  WritersMatchReaders
