------------------------------- MODULE DdsPipe -------------------------------
(***************************************************************************)
(* DdsPipe: which topics and services are bridged, as the discovery        *)
(* database reports endpoints, the allowed list is reloaded, and the pipe  *)
(* is enabled and disabled.  Every public operation runs under mutex_, so  *)
(* it is one step; the discovery database's thread can be between its      *)
(* change of the dictionary and the callback when another operation runs.  *)
(*                                                                         *)
(* A DdsBridge is seen as the set of participants that have a writer in it *)
(* (module DdsBridge shows that its tracks are a function of that set), an *)
(* RpcBridge as its enabled_ flag and its set of servers.                  *)
(***************************************************************************)
EXTENDS DiscoveryDatabase, AllowedTopicList

CONSTANTS
  Topics, Services,     \* names of DDS topics and of RPC services
  Participants,         \* ids of the participants of the proxy
  TopicOf,              \* [Guids -> Topics \cup Services]
  ParticipantOf,        \* [Guids -> Participants]: who discovers the endpoint
  RelevantGuids,        \* endpoints of the kind discovery_trigger names
  Builtin,              \* configuration_.builtin_topics: subset of Topics
  Lists,                \* the allowed lists that configurations are loaded with
  MayFail,              \* names whose readers and writers may fail to be created
  MaxToggles            \* bound: how many times enable or disable or reload run

Names == Topics \cup Services
NoParticipant == "default"   \* DEFAULT_PARTICIPANT_ID, of builtin topics

ASSUME PipeAssumption ==
  /\ Topics \cap Services = {}
  /\ TopicOf \in [Guids -> Names]
  /\ ParticipantOf \in [Guids -> Participants]
  /\ RelevantGuids \subseteq Guids
  /\ Builtin \subseteq Topics
  /\ Lists \subseteq List
  /\ MayFail \subseteq Names
  /\ NoParticipant \notin Participants
  /\ MaxToggles \in Nat

VARIABLES
  removeUnused,  \* configuration_.remove_unused_entities
  enabled,       \* enabled_
  allowed,       \* allowed_topics_
  current,       \* current_topics_: "unknown", or whether the topic is activated
  discoverer,    \* topic_discoverer() of the key in current_topics_ and bridges_
  bridge,        \* bridges_: "none", "disabled" or "enabled"
  writers,       \* participants with a writer in the bridge
  service,       \* current_services_: "unknown", "allowed" or "blocked"
  servers,       \* current_servers_ of each RpcBridge
  rpcEnabled,    \* RpcBridge::enabled_
  rpcInit,       \* services whose RpcBridge has its endpoints, RpcBridge::init_
  toggles,
  atDiscovery    \* history: the bridge was created when its topic was discovered

pipeVars == <<removeUnused, enabled, allowed, current, discoverer, bridge, writers,
              service, servers, rpcEnabled, rpcInit, toggles, atDiscovery>>
vars == <<databaseVars, pipeVars>>

-----------------------------------------------------------------------------
\* The DdsBridge constructor: only the discoverer's writer with
\* remove_unused_entities, else the writers of all participants.
WritersOfNewBridge(who) ==
  IF removeUnused /\ who # NoParticipant THEN {who} ELSE Participants

\* create_new_bridge_nts_ swallows the exception of an endpoint: the topics of ts
\* that have a bridge afterwards, when those of `failed` get none.
Opened(ts, failed) == {t \in ts : bridge[t] # "none" \/ t \notin failed}

\* activate_topic_nts_ for topics that have a bridge now, old or new.
Activated(ts, was) == [t \in Topics |-> IF t \in ts THEN "enabled" ELSE was[t]]
WritersIfActivated(ts) ==
  [t \in Topics |-> IF t \in ts /\ bridge[t] = "none"
                      THEN WritersOfNewBridge(discoverer[t]) ELSE writers[t]]

\* deactivate_topic_nts_ for the topics ts.
Deactivated(ts, was) ==
  [t \in Topics |-> IF t \in ts /\ was[t] # "none" THEN "disabled" ELSE was[t]]

\* RpcBridge::enable of the services ss, with the servers `known`: nothing while
\* no server is known, nor when the endpoints are not there and cannot be created.
Enabling(ss, known, failed) ==
  {s \in ss : ~rpcEnabled[s] /\ known[s] # {} /\ (s \in rpcInit \/ s \notin failed)}
RpcBridgesEnabled(ss, known, failed) ==
  [s \in Services |-> rpcEnabled[s] \/ s \in Enabling(ss, known, failed)]

\* Topics in current_topics_.  Mutant: those discovered while the pipe was
\* disabled are forgotten.
KnownMutant == {t \in Topics : bridge[t] # "none"}
Known == {t \in Topics : current[t] # "unknown"}

\* The constructor: bridges of the builtin topics, disabled, all tracks; one whose
\* creation fails is left out.  The database is running when it returns (start is its
\* last call).
Init ==
  /\ DatabaseInit
  /\ removeUnused \in BOOLEAN
  /\ enabled = FALSE
  /\ allowed \in Lists
  /\ current = [t \in Topics |-> IF t \in Builtin THEN "inactive" ELSE "unknown"]
  /\ discoverer = [t \in Topics |-> NoParticipant]
  /\ \E failed \in SUBSET (MayFail \cap Builtin) :
       /\ bridge = [t \in Topics |-> IF t \in Builtin \ failed THEN "disabled" ELSE "none"]
       /\ writers = [t \in Topics |-> IF t \in Builtin \ failed
                                        THEN WritersOfNewBridge(NoParticipant) ELSE {}]
  /\ service = [s \in Services |-> "unknown"]
  /\ servers = [s \in Services |-> {}]
  /\ rpcEnabled = [s \in Services |-> FALSE] /\ rpcInit = {}
  /\ toggles = 0
  /\ atDiscovery = {}

-----------------------------------------------------------------------------
Toggle == toggles < MaxToggles /\ toggles' = toggles + 1

Enable(failed) ==
  /\ Toggle /\ ~enabled /\ ~exit
  /\ enabled' = TRUE
  /\ LET ts == {t \in Known : IsTopicAllowed(allowed, t)}
     IN  /\ current' = [t \in Topics |-> IF t \in ts THEN "active" ELSE current[t]]
         /\ bridge' = Activated(Opened(ts, failed), bridge)
         /\ writers' = WritersIfActivated(Opened(ts, failed))
  /\ LET ss == {s \in Services : service[s] = "allowed"}
     IN  /\ rpcEnabled' = RpcBridgesEnabled(ss, servers, failed)
         /\ rpcInit' = rpcInit \cup Enabling(ss, servers, failed)
  /\ UNCHANGED <<databaseVars, removeUnused, allowed, discoverer, service, servers,
                 atDiscovery>>

\* deactivate_all_topics_nts_; the RpcBridges are left as they are.
Disable ==
  /\ Toggle /\ enabled
  /\ enabled' = FALSE
  /\ current' = [t \in Topics |-> IF t \in Known THEN "inactive" ELSE current[t]]
  /\ bridge' = Deactivated(Known, bridge)
  /\ UNCHANGED <<databaseVars, removeUnused, allowed, discoverer, writers, service,
                 servers, rpcEnabled, rpcInit, atDiscovery>>

\* The second loop of reload_allowed_topics_ over the RpcBridges.
\* Mutant: those the list blocks are not disabled.
RpcBridgesReloadedMutant(on, off, failed) == RpcBridgesEnabled(on, servers, failed)
RpcBridgesReloaded(on, off, failed) ==
  [s \in Services |-> s \notin off /\ RpcBridgesEnabled(on, servers, failed)[s]]

\* reload_allowed_topics_: an equal list is not loaded, and a disabled pipe only
\* stores the list.  What reload_configuration does before it, reload_master_flag, is
\* left out: it goes over bridges_ without mutex_ and sets members that nothing reads
\* (README, section 6).
Reload(list, failed) ==
  /\ Toggle /\ list # allowed /\ ~exit
  /\ allowed' = list
  /\ IF ~enabled
       THEN UNCHANGED <<current, bridge, writers, service, rpcEnabled, rpcInit>>
       ELSE
         LET off == {t \in Known : current[t] = "active" /\ ~IsTopicAllowed(list, t)}
             on  == {t \in Known : current[t] = "inactive" /\ IsTopicAllowed(list, t)}
             services == {s \in Services : service[s] # "unknown"}
             open == {s \in services : IsServiceAllowed(list, s)}
         IN  /\ current' = [t \in Topics |-> IF t \in off THEN "inactive"
                                             ELSE IF t \in on THEN "active"
                                             ELSE current[t]]
             /\ bridge' = Activated(Opened(on, failed), Deactivated(off, bridge))
             /\ writers' = WritersIfActivated(Opened(on, failed))
             /\ service' = [s \in Services |-> IF s \notin services THEN "unknown"
                                               ELSE IF s \in open THEN "allowed" ELSE "blocked"]
             /\ rpcEnabled' = RpcBridgesReloaded(open, services \ open, failed)
             /\ rpcInit' = rpcInit \cup Enabling(open, servers, failed)
  /\ UNCHANGED <<databaseVars, removeUnused, enabled, discoverer, servers, atDiscovery>>

-----------------------------------------------------------------------------
\* The callbacks of the discovery database: discovered_endpoint_,
\* updated_endpoint_ and removed_endpoint_.

\* Mutant: the other endpoints of the topic are not looked at.
IsEndpointRelevantMutant(op) == op.guid \in RelevantGuids

\* is_endpoint_relevant_, with the dictionary as it is when the callback runs.
IsEndpointRelevant(op) ==
  LET others == {g \in RelevantGuids :
                   /\ entities[g] = "active"
                   /\ TopicOf[g] = TopicOf[op.guid]
                   /\ ParticipantOf[g] = ParticipantOf[op.guid]}
  IN  /\ op.guid \in RelevantGuids
      /\ IF op.active THEN others = {op.guid} ELSE others = {}

CallbackReturns == callback' = NoCallback
                   /\ UNCHANGED <<alive, adds, operations, entities, running, exit>>

\* Mutant: the disabled pipe is forgotten.
MayActivateMutant(t) == IsTopicAllowed(allowed, t)
MayActivate(t) == enabled /\ IsTopicAllowed(allowed, t)

\* discovered_topic_nts_
DiscoveredTopic(failed) ==
  /\ callback # NoCallback /\ callback.active /\ TopicOf[callback.guid] \in Topics
  /\ IsEndpointRelevant(callback)
  /\ LET t == TopicOf[callback.guid]
         p == ParticipantOf[callback.guid]
         new == current[t] = "unknown"
         activate == MayActivate(t)
         opened == Opened({x \in {t} : activate}, failed)
     IN  IF bridge[t] = "none"
           THEN /\ discoverer' = IF new THEN [discoverer EXCEPT ![t] = p] ELSE discoverer
                /\ current' = [current EXCEPT ![t] =
                     IF activate THEN "active" ELSE IF new THEN "inactive" ELSE @]
                /\ bridge' = Activated(opened, bridge)
                /\ writers' = IF t \in opened
                     THEN [writers EXCEPT ![t] = WritersOfNewBridge(p)] ELSE writers
                /\ atDiscovery' = IF new THEN atDiscovery \cup opened ELSE atDiscovery
           ELSE /\ writers' = IF removeUnused THEN [writers EXCEPT ![t] = @ \cup {p}]
                              ELSE writers
                /\ UNCHANGED <<current, discoverer, bridge, atDiscovery>>
  /\ CallbackReturns
  /\ UNCHANGED <<removeUnused, enabled, allowed, service, servers, rpcEnabled, rpcInit,
                 toggles>>

\* remove_writer, when the last relevant reader of that participant has left.
RemovedTopic ==
  /\ callback # NoCallback /\ ~callback.active /\ TopicOf[callback.guid] \in Topics
  /\ removeUnused /\ IsEndpointRelevant(callback)
  /\ LET t == TopicOf[callback.guid]
     IN  writers' = [writers EXCEPT ![t] = @ \ {ParticipantOf[callback.guid]}]
  /\ CallbackReturns
  /\ UNCHANGED <<removeUnused, enabled, allowed, current, discoverer, bridge, service,
                 servers, rpcEnabled, rpcInit, toggles, atDiscovery>>

\* discovered_service_nts_; updates of service endpoints are not passed on.
DiscoveredService(failed) ==
  /\ callback # NoCallback /\ callback.kind = "add"
  /\ TopicOf[callback.guid] \in Services /\ callback.guid \in RelevantGuids
  /\ LET s == TopicOf[callback.guid]
         flag == IF service[s] # "unknown" THEN service[s]
                 ELSE IF IsServiceAllowed(allowed, s) THEN "allowed" ELSE "blocked"
     IN  /\ service' = [service EXCEPT ![s] = flag]
         /\ servers' = [servers EXCEPT ![s] = @ \cup {callback.guid}]
         /\ LET open == {x \in {s} : enabled /\ flag = "allowed"}
            IN  /\ rpcEnabled' = RpcBridgesEnabled(open, servers', failed)
                /\ rpcInit' = rpcInit \cup Enabling(open, servers', failed)
  /\ CallbackReturns
  /\ UNCHANGED <<removeUnused, enabled, allowed, current, discoverer, bridge, writers,
                 toggles, atDiscovery>>

\* Every other event: not relevant, or an update of a service endpoint.
IgnoredEndpoint ==
  /\ callback # NoCallback
  /\ IF TopicOf[callback.guid] \in Services
       THEN callback.kind = "update" \/ callback.guid \notin RelevantGuids
       ELSE ~IsEndpointRelevant(callback) \/ (~callback.active /\ ~removeUnused)
  /\ CallbackReturns
  /\ UNCHANGED pipeVars

Callback ==
  \/ \E failed \in SUBSET (MayFail \cap Topics) : DiscoveredTopic(failed)
  \/ \E failed \in SUBSET (MayFail \cap Services) : DiscoveredService(failed)
  \/ RemovedTopic \/ IgnoredEndpoint

DatabaseStep == Environment \/ Process \/ Stop

Next ==
  \/ DatabaseStep /\ UNCHANGED pipeVars
  \/ Callback
  \/ Disable
  \/ \E failed \in SUBSET MayFail : Enable(failed) \/ \E list \in Lists : Reload(list, failed)

Spec == Init /\ [][Next]_vars

\* The queue processing thread is never starved.
FairSpec ==
  Spec /\ WF_vars(Process /\ UNCHANGED pipeVars) /\ WF_vars(Callback)

-----------------------------------------------------------------------------
\* Everything has its type.
PipeTypeOK ==
  /\ DatabaseTypeOK
  /\ removeUnused \in BOOLEAN /\ enabled \in BOOLEAN
  /\ allowed \in List
  /\ current \in [Topics -> {"unknown", "inactive", "active"}]
  /\ discoverer \in [Topics -> Participants \cup {NoParticipant}]
  /\ bridge \in [Topics -> {"none", "disabled", "enabled"}]
  /\ writers \in [Topics -> SUBSET Participants]
  /\ service \in [Services -> {"unknown", "allowed", "blocked"}]
  /\ servers \in [Services -> SUBSET Guids]
  /\ rpcEnabled \in [Services -> BOOLEAN] /\ rpcInit \subseteq Services
  /\ toggles \in 0..MaxToggles
  /\ atDiscovery \subseteq Topics

\* What a list stands for: the topics that an allowing filter matches (all, if
\* there is none) less those that a blocking filter matches.
LetThrough(list) ==
  (IF list.allow = {} THEN Topics ELSE Topics \cap UNION {Matches[f] : f \in list.allow})
    \ UNION {Matches[f] : f \in list.block}

\* Whatever the order of discovery, reloads, enable, disable and failures to create
\* a bridge, the topics activated are the known ones that the current list lets
\* through while the pipe is enabled (discovered_topic_nts_, reload_allowed_topics_,
\* activate_all_topics_nts_, deactivate_all_topics_nts_ agree), and a bridge
\* forwards just when its topic is activated.  An activated topic only has no
\* bridge if its creation failed.
TopicsFollowAllowedList ==
  \A t \in Topics :
    /\ current[t] = "active" <=> enabled /\ t \in LetThrough(allowed) /\ current[t] # "unknown"
    /\ bridge[t] # "none" => (bridge[t] = "enabled" <=> current[t] = "active")
    /\ bridge[t] = "none" /\ current[t] = "active" => t \in MayFail

\* In an enabled pipe the RpcBridges that forward are those whose flag in
\* current_services_ is true, whatever the order of discovery, enable, disable
\* and reload: the flag and the bridge are changed in four different places.  Only
\* one that never had its endpoints may be off in spite of its flag, since their
\* creation failed.
ServicesFollowTheirFlag ==
  enabled => \A s \in Services :
    /\ rpcEnabled[s] => service[s] = "allowed"
    /\ service[s] = "allowed" => rpcEnabled[s] \/ s \in MayFail \ rpcInit

\* The relevant endpoints of topic t that participant p sees now.
Seen(t, p) == {g \in RelevantGuids : TopicOf[g] = t /\ ParticipantOf[g] = p /\ alive[g]}
AnnouncedOnce(t) == \A g \in Guids : TopicOf[g] = t => adds[g] =< 1
Quiescent == running /\ ~exit /\ operations = <<>> /\ callback = NoCallback

\* With remove_unused_entities, once the queue is processed, a bridge has
\* writers exactly in the participants that see a relevant endpoint, provided
\* it was created when its topic was discovered and no endpoint came back.
WritersMatchReaders ==
  (removeUnused /\ Quiescent) =>
    \A t \in atDiscovery : AnnouncedOnce(t) =>
      writers[t] = {p \in Participants : Seen(t, p) # {}}

\* A topic with a relevant endpoint is bridged in the end, if the pipe stays
\* enabled and the list goes on allowing it, unless its bridge could not be created.
TopicIsBridged ==
  \A g \in {g \in RelevantGuids : TopicOf[g] \in Topics} :
    LET t == TopicOf[g]
    IN  <>[](alive[g] /\ enabled /\ t \in LetThrough(allowed) /\ running /\ ~exit)
          => <>[](bridge[t] = "enabled" \/ (bridge[t] = "none" /\ t \in MayFail))
=============================================================================
