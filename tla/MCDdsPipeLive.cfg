CONSTANTS
  r1 = r1  r2 = r2  r3 = r3  srv = srv
  p1 = p1  p2 = p2
  topic = topic  builtin = builtin  rpc = rpc
  request = request  reply = reply
  any = any  onTopic = onTopic  onRequest = onRequest
  Guids = {r1, r2}
  RelevantGuids = {r1, r2}
  NoCallback = none
  none = none
  Topics = {topic, builtin}
  Services = {}
  Participants = {p1, p2}
  Builtin = {builtin}
  Filters = {any, onTopic, onRequest}
  Matches <- MCMatches
  RpcTopicsOf <- MCRpcTopicsOf
  Lists <- MCLists
  MayFail = {builtin}
  TopicOf <- MCTopicOfLive
  ParticipantOf <- MCParticipantOfLive
  MaxPending = 2
  MaxAdds = 2
  MaxToggles = 3
SPECIFICATION FairSpec
CHECK_DEADLOCK FALSE
INVARIANTS
  OperationsFit
  DatabaseCaughtUp
PROPERTIES
  TopicIsBridged
