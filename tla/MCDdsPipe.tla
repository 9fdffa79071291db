------------------------------ MODULE MCDdsPipe ------------------------------
(* DdsPipe on one plain topic, one builtin topic and one service: the topic   *)
(* has a reader behind each of two participants, and a second one behind p1.  *)
EXTENDS DdsPipe, TLC

CONSTANTS r1, r2, r3, srv, p1, p2, topic, builtin, rpc, none
CONSTANTS request, reply          \* the DDS topics of the service
CONSTANTS any, onTopic, onRequest \* filters

MCTopicOf == (r1 :> topic) @@ (r2 :> topic) @@ (r3 :> topic) @@ (srv :> rpc)
MCParticipantOf == (r1 :> p1) @@ (r2 :> p2) @@ (r3 :> p1) @@ (srv :> p1)

\* For the liveness run: one reader of the plain topic, one of the builtin topic.
MCTopicOfLive == (r1 :> topic) @@ (r2 :> builtin)
MCParticipantOfLive == (r1 :> p1) @@ (r2 :> p2)

MCMatches ==
  (any :> {topic, builtin, request, reply}) @@ (onTopic :> {topic}) @@ (onRequest :> {request})
MCRpcTopicsOf == rpc :> {request, reply}

\* Lists that let everything through, the topic alone (one of the two topics of
\* the service is blocked), the service alone, and nothing (one of the two topics
\* of the service is not allowed).
MCLists ==
  {[allow |-> {}, block |-> {}],
   [allow |-> {}, block |-> {onRequest}],
   [allow |-> {any, onTopic}, block |-> {onTopic}],
   [allow |-> {onRequest}, block |-> {}]}
=============================================================================
