-------------------------- MODULE AllowedTopicList --------------------------
(***************************************************************************)
(* AllowedTopicList: two sets of filters, and what they let through.  A    *)
(* filter is a pair of wildcard patterns, for the name and for the type of *)
(* a topic; here it is whatever set of topics it matches.                  *)
(***************************************************************************)

CONSTANTS
  Filters,     \* WildcardDdsFilterTopics a configuration may name
  Matches,     \* [Filters -> sets of DDS topics]: WildcardDdsFilterTopic::matches
  RpcTopicsOf  \* the request and the reply topic of each service

\* Two lists are equal when their filters are, whatever they match.  The
\* constructor keeps every filter: contains answers false for any two of them.
List == [allow : SUBSET Filters, block : SUBSET Filters]

MatchedBy(filters, t) == \E f \in filters : t \in Matches[f]

\* is_topic_allowed: an empty allowlist accepts all, and the blocklist wins.
IsTopicAllowed(list, t) ==
  /\ list.allow = {} \/ MatchedBy(list.allow, t)
  /\ ~MatchedBy(list.block, t)

\* is_service_allowed: the request and the reply topic both pass.
IsServiceAllowed(list, s) == \A t \in RpcTopicsOf[s] : IsTopicAllowed(list, t)
=============================================================================
