---------------------------- MODULE DdsPipeProofs ----------------------------
(***************************************************************************)
(* What DdsPipe guarantees for any topics, services, endpoints, filters    *)
(* and lists, and whatever fails to be created: the places that switch a   *)
(* topic or a service on and off agree, and the database follows what the  *)
(* participants see.                                                       *)
(*                                                                         *)
(* Topics, services and the queue of the database do not meet in these, so *)
(* there are three inductive invariants, and a fourth on top of two of     *)
(* them. TopicInv adds to TopicsFollowAllowedList that a topic with a      *)
(* bridge is known, which enable and disable rely on when they visit       *)
(* current_topics_ alone. ServiceInv adds to ServicesFollowTheirFlag what  *)
(* holds of a disabled pipe too: a service is known from its first server  *)
(* on, without which enabling it would do nothing, and only an allowed one *)
(* is enabled, though disable leaves it so. QueueInv says that the         *)
(* operations of each endpoint in the queue alternate, starting from what  *)
(* the dictionary says and ending in what the participant sees. WritersInv *)
(* says that writers follow the dictionary as it was before the event      *)
(* whose callback runs; it rests on TopicInv and QueueInv.                 *)
(***************************************************************************)
EXTENDS DdsPipe, WellFoundedInduction, TLAPS

TopicShapes ==
  /\ enabled \in BOOLEAN
  /\ current \in [Topics -> {"unknown", "inactive", "active"}]
  /\ bridge \in [Topics -> {"none", "disabled", "enabled"}]
BridgedIsKnown == \A t \in Topics : bridge[t] # "none" => current[t] # "unknown"
TopicInv == TopicShapes /\ BridgedIsKnown /\ TopicsFollowAllowedList

ServiceShapes ==
  /\ enabled \in BOOLEAN
  /\ service \in [Services -> {"unknown", "allowed", "blocked"}]
  /\ servers \in [Services -> SUBSET Guids]
  /\ rpcEnabled \in [Services -> BOOLEAN]
KnownHasServer == \A s \in Services : service[s] # "unknown" => servers[s] # {}
EnabledIsAllowed == \A s \in Services : rpcEnabled[s] => service[s] = "allowed"
ServiceInv == ServiceShapes /\ KnownHasServer /\ EnabledIsAllowed /\ ServicesFollowTheirFlag

topicVars == <<enabled, allowed, current, bridge>>
serviceVars == <<enabled, service, servers, rpcEnabled, rpcInit>>

-----------------------------------------------------------------------------
\* What is_topic_allowed answers is what the list stands for.
LEMMA AllowedIsLetThrough ==
  ASSUME NEW list, NEW t \in Topics
  PROVE  IsTopicAllowed(list, t) <=> t \in LetThrough(list)
  <1>1. t \in UNION {Matches[f] : f \in list.allow} <=> MatchedBy(list.allow, t)
    BY DEF MatchedBy
  <1>2. t \in UNION {Matches[f] : f \in list.block} <=> MatchedBy(list.block, t)
    BY DEF MatchedBy
  <1> QED
    BY <1>1, <1>2 DEF IsTopicAllowed, LetThrough

\* The constructor: no topic is active.
LEMMA TopicInit == Init => TopicInv
  <1> SUFFICES ASSUME Init PROVE TopicInv
    OBVIOUS
  <1>1. PICK failed \in SUBSET (MayFail \cap Builtin) :
          bridge = [t \in Topics |-> IF t \in Builtin \ failed THEN "disabled" ELSE "none"]
    BY DEF Init
  <1>2. /\ enabled = FALSE
        /\ current = [t \in Topics |-> IF t \in Builtin THEN "inactive" ELSE "unknown"]
    BY DEF Init
  <1>3. TopicShapes
    BY <1>1, <1>2 DEF TopicShapes
  <1>4. BridgedIsKnown
    BY <1>1, <1>2 DEF BridgedIsKnown
  <1>5. TopicsFollowAllowedList
    BY <1>1, <1>2 DEF TopicsFollowAllowedList
  <1> QED
    BY <1>3, <1>4, <1>5 DEF TopicInv

\* A step that changes nothing of the topics.
LEMMA TopicStutter == TopicInv /\ UNCHANGED topicVars => TopicInv'
  BY DEF topicVars, TopicInv, TopicShapes, BridgedIsKnown, TopicsFollowAllowedList, LetThrough

\* enable recomputes what it activates from the list, whatever it was before.
LEMMA TopicEnable ==
  ASSUME TopicInv, NEW failed \in SUBSET MayFail, Enable(failed)
  PROVE  TopicInv'
  <1> DEFINE ts == {t \in Known : IsTopicAllowed(allowed, t)}
             open == Opened(ts, failed)
  <1>1. /\ ~enabled /\ enabled' = TRUE /\ allowed' = allowed
        /\ current' = [t \in Topics |-> IF t \in ts THEN "active" ELSE current[t]]
        /\ bridge' = [t \in Topics |-> IF t \in open THEN "enabled" ELSE bridge[t]]
    BY DEF Enable, Activated
  <1>2. \A t \in Topics : t \in ts <=> current[t] # "unknown" /\ t \in LetThrough(allowed)
    BY AllowedIsLetThrough DEF Known
  <1>3. \A t \in Topics : t \in open <=> t \in ts /\ (bridge[t] # "none" \/ t \notin failed)
    BY DEF Opened
  <1> HIDE DEF ts, open
  <1>4. TopicShapes'
    BY <1>1 DEF TopicInv, TopicShapes
  <1>5. BridgedIsKnown'
    BY <1>1, <1>2, <1>3 DEF TopicInv, TopicShapes, BridgedIsKnown
  <1>6. LetThrough(allowed)' = LetThrough(allowed)
    BY <1>1 DEF LetThrough
  <1>7. TopicsFollowAllowedList'
    <2> SUFFICES ASSUME NEW t \in Topics
                 PROVE  /\ current'[t] = "active" <=> enabled' /\ t \in LetThrough(allowed)'
                                                      /\ current'[t] # "unknown"
                        /\ bridge'[t] # "none" =>
                             (bridge'[t] = "enabled" <=> current'[t] = "active")
                        /\ bridge'[t] = "none" /\ current'[t] = "active" => t \in MayFail
      BY DEF TopicsFollowAllowedList
    <2>1. current[t] # "active" /\ bridge[t] # "enabled"
      BY <1>1 DEF TopicInv, TopicShapes, TopicsFollowAllowedList
    <2> QED
      BY <2>1, <1>1, <1>2, <1>3, <1>6 DEF TopicInv, TopicShapes, BridgedIsKnown
  <1> QED
    BY <1>4, <1>5, <1>7 DEF TopicInv

\* disable deactivates every known topic, and those are all that have a bridge.
LEMMA TopicDisable == TopicInv /\ Disable => TopicInv'
  <1> SUFFICES ASSUME TopicInv, Disable PROVE TopicInv'
    OBVIOUS
  <1>1. /\ enabled' = FALSE /\ allowed' = allowed
        /\ current' = [t \in Topics |-> IF t \in Known THEN "inactive" ELSE current[t]]
        /\ bridge' = [t \in Topics |-> IF t \in Known /\ bridge[t] # "none" THEN "disabled"
                                       ELSE bridge[t]]
    BY DEF Disable, Deactivated
  <1>2. \A t \in Topics : t \in Known <=> current[t] # "unknown"
    BY DEF Known
  <1>3. TopicShapes'
    BY <1>1 DEF TopicInv, TopicShapes
  <1>4. BridgedIsKnown'
    BY <1>1, <1>2 DEF TopicInv, TopicShapes, BridgedIsKnown
  <1>5. TopicsFollowAllowedList'
    BY <1>1, <1>2 DEF TopicInv, TopicShapes, BridgedIsKnown, TopicsFollowAllowedList
  <1> QED
    BY <1>3, <1>4, <1>5 DEF TopicInv

\* reload only visits the topics whose flag differs from what the new list says.
LEMMA TopicReload ==
  ASSUME TopicInv, NEW list \in Lists, NEW failed \in SUBSET MayFail, Reload(list, failed)
  PROVE  TopicInv'
  <1>1. allowed' = list /\ enabled' = enabled
    BY DEF Reload
  <1>2. LetThrough(allowed)' = LetThrough(list)
    BY <1>1 DEF LetThrough
  <1>3. CASE ~enabled
    <2>1. current' = current /\ bridge' = bridge
      BY <1>3 DEF Reload
    <2> QED
      BY <1>1, <1>2, <1>3, <2>1
      DEF TopicInv, TopicShapes, BridgedIsKnown, TopicsFollowAllowedList
  <1>4. CASE enabled
    <2> DEFINE off == {t \in Known : current[t] = "active" /\ ~IsTopicAllowed(list, t)}
               on == {t \in Known : current[t] = "inactive" /\ IsTopicAllowed(list, t)}
               open == Opened(on, failed)
    <2>1. /\ current' = [t \in Topics |-> IF t \in off THEN "inactive"
                                          ELSE IF t \in on THEN "active" ELSE current[t]]
          /\ bridge' = [t \in Topics |-> IF t \in open THEN "enabled"
                          ELSE Deactivated(off, bridge)[t]]
      BY <1>4 DEF Reload, Activated
    <2>2. \A t \in Topics :
            /\ t \in off <=> current[t] = "active" /\ t \notin LetThrough(list)
            /\ t \in on <=> current[t] = "inactive" /\ t \in LetThrough(list)
            /\ t \in open <=> t \in on /\ (bridge[t] # "none" \/ t \notin failed)
      BY AllowedIsLetThrough DEF Known, Opened
    <2>3. \A t \in Topics : Deactivated(off, bridge)[t] =
            IF t \in off /\ bridge[t] # "none" THEN "disabled" ELSE bridge[t]
      BY DEF Deactivated
    <2> HIDE DEF off, on, open
    <2>4. TopicShapes'
      BY <1>1, <2>1, <2>3 DEF TopicInv, TopicShapes
    <2>5. BridgedIsKnown'
      BY <2>1, <2>2, <2>3 DEF TopicInv, TopicShapes, BridgedIsKnown
    <2>6. TopicsFollowAllowedList'
      BY <1>1, <1>2, <1>4, <2>1, <2>2, <2>3
      DEF TopicInv, TopicShapes, BridgedIsKnown, TopicsFollowAllowedList
    <2> QED
      BY <2>4, <2>5, <2>6 DEF TopicInv
  <1> QED
    BY <1>3, <1>4

\* A topic that is discovered, or discovered again while it has no bridge.
LEMMA TopicDiscovered ==
  ASSUME TopicInv, NEW failed \in SUBSET (MayFail \cap Topics), DiscoveredTopic(failed)
  PROVE  TopicInv'
  <1> DEFINE x == TopicOf[callback.guid]
             activate == MayActivate(x)
             opened == Opened({y \in {x} : activate}, failed)
  <1>1. x \in Topics /\ enabled' = enabled /\ allowed' = allowed
    BY DEF DiscoveredTopic
  <1>2. CASE bridge[x] # "none"
    <2>1. UNCHANGED topicVars
      BY <1>1, <1>2 DEF DiscoveredTopic, topicVars
    <2> QED
      BY <2>1, TopicStutter
  <1>3. CASE bridge[x] = "none"
    <2>1. /\ current' = [current EXCEPT ![x] = IF activate THEN "active"
                           ELSE IF current[x] = "unknown" THEN "inactive" ELSE @]
          /\ bridge' = [t \in Topics |-> IF t \in opened THEN "enabled" ELSE bridge[t]]
      BY <1>3 DEF DiscoveredTopic, Activated
    <2>2. activate <=> enabled /\ x \in LetThrough(allowed)
      BY <1>1, AllowedIsLetThrough DEF MayActivate
    <2>3. \A t \in Topics : t \in opened <=> t = x /\ activate /\ x \notin failed
      BY <1>3 DEF Opened
    <2>4. LetThrough(allowed)' = LetThrough(allowed)
      BY <1>1 DEF LetThrough
    <2> HIDE DEF x, activate, opened
    <2>5. TopicShapes'
      BY <1>1, <2>1 DEF TopicInv, TopicShapes
    <2>6. BridgedIsKnown'
      BY <1>1, <2>1, <2>3 DEF TopicInv, TopicShapes, BridgedIsKnown
    <2>7. TopicsFollowAllowedList'
      BY <1>1, <1>3, <2>1, <2>2, <2>3, <2>4
      DEF TopicInv, TopicShapes, BridgedIsKnown, TopicsFollowAllowedList
    <2> QED
      BY <2>5, <2>6, <2>7 DEF TopicInv
  <1> QED
    BY <1>2, <1>3

\* Every step preserves TopicInv.
LEMMA TopicStep == TopicInv /\ [Next]_vars => TopicInv'
  <1> SUFFICES ASSUME TopicInv, [Next]_vars PROVE TopicInv'
    OBVIOUS
  <1>1. CASE DatabaseStep /\ UNCHANGED pipeVars
    BY <1>1, TopicStutter DEF pipeVars, topicVars
  <1>2. ASSUME NEW failed \in SUBSET (MayFail \cap Topics), DiscoveredTopic(failed)
        PROVE  TopicInv'
    BY <1>2, TopicDiscovered
  <1>3. ASSUME NEW failed \in SUBSET (MayFail \cap Services), DiscoveredService(failed)
        PROVE  TopicInv'
    BY <1>3, TopicStutter DEF DiscoveredService, topicVars
  <1>4. CASE RemovedTopic
    BY <1>4, TopicStutter DEF RemovedTopic, topicVars
  <1>5. CASE IgnoredEndpoint
    BY <1>5, TopicStutter DEF IgnoredEndpoint, pipeVars, topicVars
  <1>6. CASE Disable
    BY <1>6, TopicDisable
  <1>7. ASSUME NEW failed \in SUBSET MayFail, Enable(failed)
        PROVE  TopicInv'
    BY <1>7, TopicEnable
  <1>8. ASSUME NEW failed \in SUBSET MayFail, NEW list \in Lists, Reload(list, failed)
        PROVE  TopicInv'
    BY <1>8, TopicReload
  <1>9. CASE UNCHANGED vars
    BY <1>9, TopicStutter DEF vars, pipeVars, topicVars
  <1> QED
    BY <1>1, <1>2, <1>3, <1>4, <1>5, <1>6, <1>7, <1>8, <1>9 DEF Next, Callback

\* Whatever the topics, the lists and the creations that fail: the bridges that
\* forward are those of the known topics that the current list lets through, in an
\* enabled pipe, less those whose creation failed (DdsPipe.cpp: enable, disable,
\* reload_allowed_topics_, discovered_topic_nts_).
THEOREM TopicsFollow == Spec => []TopicsFollowAllowedList
  <1>1. TopicInv => TopicsFollowAllowedList
    BY DEF TopicInv
  <1> QED
    BY <1>1, TopicInit, TopicStep, PTL DEF Spec

-----------------------------------------------------------------------------
\* The constructor: no service is known.
LEMMA ServiceInit == Init => ServiceInv
  <1> SUFFICES ASSUME Init PROVE ServiceInv
    OBVIOUS
  <1>1. /\ enabled = FALSE
        /\ service = [s \in Services |-> "unknown"]
        /\ servers = [s \in Services |-> {}]
        /\ rpcEnabled = [s \in Services |-> FALSE]
    BY DEF Init
  <1> QED
    BY <1>1 DEF ServiceInv, ServiceShapes, KnownHasServer, EnabledIsAllowed,
                ServicesFollowTheirFlag

\* A step that changes nothing of the services.
LEMMA ServiceStutter == ServiceInv /\ UNCHANGED serviceVars => ServiceInv'
  BY DEF serviceVars, ServiceInv, ServiceShapes, KnownHasServer, EnabledIsAllowed,
         ServicesFollowTheirFlag

\* enable: the services that are allowed have a server, so that only a failure to
\* create the endpoints leaves one off.
LEMMA ServiceEnable ==
  ASSUME ServiceInv, NEW failed \in SUBSET MayFail, Enable(failed)
  PROVE  ServiceInv'
  <1> DEFINE ss == {s \in Services : service[s] = "allowed"}
             on == Enabling(ss, servers, failed)
  <1>1. /\ enabled' = TRUE /\ service' = service /\ servers' = servers
        /\ rpcEnabled' = [s \in Services |-> rpcEnabled[s] \/ s \in on]
        /\ rpcInit' = rpcInit \cup on
    BY DEF Enable, RpcBridgesEnabled
  <1>2. \A s \in Services : s \in on <=>
          /\ service[s] = "allowed" /\ ~rpcEnabled[s] /\ servers[s] # {}
          /\ s \in rpcInit \/ s \notin failed
    BY DEF Enabling
  <1> HIDE DEF ss, on
  <1>3. ServiceShapes' /\ KnownHasServer'
    BY <1>1 DEF ServiceInv, ServiceShapes, KnownHasServer
  <1>4. EnabledIsAllowed'
    BY <1>1, <1>2 DEF ServiceInv, ServiceShapes, EnabledIsAllowed
  <1>5. ServicesFollowTheirFlag'
    <2> SUFFICES ASSUME NEW s \in Services
                 PROVE  /\ rpcEnabled'[s] => service'[s] = "allowed"
                        /\ service'[s] = "allowed" => rpcEnabled'[s] \/ s \in MayFail \ rpcInit'
      BY DEF ServicesFollowTheirFlag
    <2>1. service[s] = "allowed" /\ ~rpcEnabled[s] /\ s \notin on => s \in failed /\ s \notin rpcInit
      BY <1>2 DEF ServiceInv, KnownHasServer
    <2> QED
      BY <1>1, <1>4, <2>1 DEF EnabledIsAllowed
  <1> QED
    BY <1>3, <1>4, <1>5 DEF ServiceInv

\* reload gives every known service its flag and switches it with it.
LEMMA ServiceReload ==
  ASSUME ServiceInv, NEW list \in Lists, NEW failed \in SUBSET MayFail, Reload(list, failed)
  PROVE  ServiceInv'
  <1>1. CASE ~enabled
    <2>1. UNCHANGED serviceVars
      BY <1>1 DEF Reload, serviceVars
    <2> QED
      BY <2>1, ServiceStutter
  <1>2. CASE enabled
    <2> DEFINE services == {s \in Services : service[s] # "unknown"}
               open == {s \in services : IsServiceAllowed(list, s)}
               on == Enabling(open, servers, failed)
    <2>1. /\ enabled' = enabled /\ servers' = servers
          /\ service' = [s \in Services |-> IF s \notin services THEN "unknown"
                                            ELSE IF s \in open THEN "allowed" ELSE "blocked"]
          /\ rpcEnabled' = [s \in Services |->
               s \notin services \ open /\ RpcBridgesEnabled(open, servers, failed)[s]]
          /\ rpcInit' = rpcInit \cup on
      BY <1>2 DEF Reload, RpcBridgesReloaded
    <2>2. \A s \in Services :
            RpcBridgesEnabled(open, servers, failed)[s] = (rpcEnabled[s] \/ s \in on)
      BY DEF RpcBridgesEnabled
    <2>3. \A s \in Services :
            /\ s \in on <=> s \in open /\ ~rpcEnabled[s] /\ servers[s] # {}
                            /\ (s \in rpcInit \/ s \notin failed)
            /\ s \in services <=> service[s] # "unknown"
            /\ s \in open => s \in services
      BY DEF Enabling
    <2> HIDE DEF services, open, on
    <2>4. ServiceShapes'
      BY <2>1 DEF ServiceInv, ServiceShapes
    <2>5. KnownHasServer'
      BY <2>1, <2>3 DEF ServiceInv, KnownHasServer
    <2>6. EnabledIsAllowed'
      BY <2>1, <2>2, <2>3 DEF ServiceInv, EnabledIsAllowed
    <2>7. ServicesFollowTheirFlag'
      <3> SUFFICES ASSUME NEW s \in Services
                   PROVE  /\ rpcEnabled'[s] => service'[s] = "allowed"
                          /\ service'[s] = "allowed" =>
                               rpcEnabled'[s] \/ s \in MayFail \ rpcInit'
        BY DEF ServicesFollowTheirFlag
      <3>1. s \in open => servers[s] # {}
        BY <2>3 DEF ServiceInv, KnownHasServer
      <3>2. s \in open /\ ~rpcEnabled[s] /\ s \notin on => s \in failed /\ s \notin rpcInit
        BY <2>3, <3>1
      <3> QED
        BY <2>1, <2>2, <2>6, <3>2 DEF EnabledIsAllowed
    <2> QED
      BY <2>4, <2>5, <2>6, <2>7 DEF ServiceInv
  <1> QED
    BY <1>1, <1>2

\* A server is discovered: the service is known from now on.
LEMMA ServiceDiscovered ==
  ASSUME ServiceInv, NEW failed \in SUBSET (MayFail \cap Services), DiscoveredService(failed)
  PROVE  ServiceInv'
  <1> DEFINE x == TopicOf[callback.guid]
             flag == IF service[x] # "unknown" THEN service[x]
                     ELSE IF IsServiceAllowed(allowed, x) THEN "allowed" ELSE "blocked"
             open == {y \in {x} : enabled /\ flag = "allowed"}
             on == Enabling(open, servers', failed)
  <1>1. /\ x \in Services /\ callback.guid \in Guids /\ enabled' = enabled
        /\ service' = [service EXCEPT ![x] = flag]
        /\ servers' = [servers EXCEPT ![x] = @ \cup {callback.guid}]
        /\ rpcEnabled' = [s \in Services |-> rpcEnabled[s] \/ s \in on]
        /\ rpcInit' = rpcInit \cup on
    BY PipeAssumption DEF DiscoveredService, RpcBridgesEnabled
  <1>2. \A s \in Services : s \in on <=>
          /\ s = x /\ enabled /\ flag = "allowed" /\ ~rpcEnabled[s] /\ servers'[s] # {}
          /\ s \in rpcInit \/ s \notin failed
    BY DEF Enabling
  <1>3. /\ flag \in {"allowed", "blocked"}
        /\ service[x] # "unknown" => flag = service[x]
    BY <1>1 DEF ServiceInv, ServiceShapes
  <1>4. servers'[x] # {}
    BY <1>1 DEF ServiceInv, ServiceShapes
  <1> HIDE DEF x, flag, open, on
  <1>5. ServiceShapes'
    BY <1>1, <1>3 DEF ServiceInv, ServiceShapes
  <1>6. KnownHasServer'
    BY <1>1, <1>3, <1>4 DEF ServiceInv, ServiceShapes, KnownHasServer
  <1>7. EnabledIsAllowed'
    BY <1>1, <1>2, <1>3 DEF ServiceInv, ServiceShapes, EnabledIsAllowed
  <1>8. ServicesFollowTheirFlag'
    <2> SUFFICES ASSUME enabled, NEW s \in Services
                 PROVE  /\ rpcEnabled'[s] => service'[s] = "allowed"
                        /\ service'[s] = "allowed" => rpcEnabled'[s] \/ s \in MayFail \ rpcInit'
      BY <1>1 DEF ServicesFollowTheirFlag
    <2>1. CASE s = x
      <3>1. service'[s] = flag
        BY <1>1, <2>1 DEF ServiceInv, ServiceShapes
      <3>2. flag = "allowed" /\ ~rpcEnabled[s] /\ s \notin on => s \in failed /\ s \notin rpcInit
        BY <1>2, <1>4, <2>1
      <3> QED
        BY <1>1, <1>7, <3>1, <3>2 DEF EnabledIsAllowed
    <2>2. CASE s # x
      <3>1. service'[s] = service[s] /\ s \notin on
        BY <1>1, <1>2, <2>2 DEF ServiceInv, ServiceShapes
      <3> QED
        BY <1>1, <1>7, <3>1 DEF ServiceInv, EnabledIsAllowed, ServicesFollowTheirFlag
    <2> QED
      BY <2>1, <2>2
  <1> QED
    BY <1>5, <1>6, <1>7, <1>8 DEF ServiceInv

\* Every step preserves ServiceInv; disable leaves the services as they are.
LEMMA ServiceStep == ServiceInv /\ [Next]_vars => ServiceInv'
  <1> SUFFICES ASSUME ServiceInv, [Next]_vars PROVE ServiceInv'
    OBVIOUS
  <1>1. CASE DatabaseStep /\ UNCHANGED pipeVars
    BY <1>1, ServiceStutter DEF pipeVars, serviceVars
  <1>2. ASSUME NEW failed \in SUBSET (MayFail \cap Topics), DiscoveredTopic(failed)
        PROVE  ServiceInv'
    BY <1>2, ServiceStutter DEF DiscoveredTopic, serviceVars
  <1>3. ASSUME NEW failed \in SUBSET (MayFail \cap Services), DiscoveredService(failed)
        PROVE  ServiceInv'
    BY <1>3, ServiceDiscovered
  <1>4. CASE RemovedTopic
    BY <1>4, ServiceStutter DEF RemovedTopic, serviceVars
  <1>5. CASE IgnoredEndpoint
    BY <1>5, ServiceStutter DEF IgnoredEndpoint, pipeVars, serviceVars
  <1>6. CASE Disable
    BY <1>6 DEF Disable, ServiceInv, ServiceShapes, KnownHasServer, EnabledIsAllowed,
                ServicesFollowTheirFlag
  <1>7. ASSUME NEW failed \in SUBSET MayFail, Enable(failed)
        PROVE  ServiceInv'
    BY <1>7, ServiceEnable
  <1>8. ASSUME NEW failed \in SUBSET MayFail, NEW list \in Lists, Reload(list, failed)
        PROVE  ServiceInv'
    BY <1>8, ServiceReload
  <1>9. CASE UNCHANGED vars
    BY <1>9, ServiceStutter DEF vars, pipeVars, serviceVars
  <1> QED
    BY <1>1, <1>2, <1>3, <1>4, <1>5, <1>6, <1>7, <1>8, <1>9 DEF Next, Callback

\* Whatever the services, the lists and the creations that fail: in an enabled pipe
\* the RpcBridges that forward are those whose flag is true, less those that never
\* got their endpoints (DdsPipe.cpp: enable, reload_allowed_topics_,
\* discovered_service_nts_; RpcBridge.cpp: enable).
THEOREM ServicesFollow == Spec => []ServicesFollowTheirFlag
  <1>1. ServiceInv => ServicesFollowTheirFlag
    BY DEF ServiceInv
  <1> QED
    BY <1>1, ServiceInit, ServiceStep, PTL DEF Spec

-----------------------------------------------------------------------------
(***************************************************************************)
(* The discovery database.  What an endpoint is before its i-th operation  *)
(* is what the operation before that one says, or the dictionary when none *)
(* is queued: the parts of Chained relate each operation to the one before *)
(* it, and the last one, or the dictionary, to what the participants saw.  *)
(***************************************************************************)

\* The least and the greatest element of a set of naturals.
LEMMA MinExists ==
  ASSUME NEW S \in SUBSET Nat, S # {}
  PROVE  \E m \in S : \A n \in S : m <= n
  <1> DEFINE R == OpToRel(<, Nat)
  <1>1. IsWellFoundedOn(R, Nat)
    BY NatLessThanWellFounded
  <1>2. \A x, y \in Nat : <<y, x>> \in R <=> y < x
    BY DEF OpToRel
  <1> HIDE DEF R
  <1>3. PICK m \in S : \A y \in S : <<y, m>> \notin R
    BY <1>1, WFMin
  <1>4. \A y \in S : ~(y < m)
    BY <1>2, <1>3
  <1> QED
    BY <1>4

LEMMA MaxExists ==
  ASSUME NEW S \in SUBSET Nat, NEW b \in Nat, S # {}, \A s \in S : s <= b
  PROVE  \E m \in S : \A n \in S : n <= m
  <1> DEFINE T == {n \in Nat : n <= b /\ b - n \in S}
  <1>1. PICK s \in S : s <= b
    OBVIOUS
  <1>2. b - s \in T
    BY <1>1
  <1> HIDE DEF T
  <1>3. PICK m \in T : \A n \in T : m <= n
    BY <1>2, MinExists DEF T
  <1>4. \A n \in S : b - n \in T
    BY DEF T
  <1>5. m \in Nat /\ b - m \in S
    BY DEF T
  <1>6. \A n \in S : n <= b - m
    BY <1>3, <1>4, <1>5
  <1> QED
    BY <1>5, <1>6

\* No operation from position i to j is about endpoint g.
NoneAbout(g, i, j) == \A k \in i..j : operations[k].guid # g

FirstFits ==
  \A i \in 1..Len(operations) :
    NoneAbout(operations[i].guid, 1, i - 1) =>
      (operations[i].kind = "add" <=> entities[operations[i].guid] # "active")
NextFits ==
  \A i, j \in 1..Len(operations) :
    i < j /\ operations[i].guid = operations[j].guid
          /\ NoneAbout(operations[i].guid, i + 1, j - 1) =>
      (operations[j].kind = "add" <=> ~operations[i].active)
DictionaryTells ==
  \A g \in Guids :
    NoneAbout(g, 1, Len(operations)) => (entities[g] = "active" <=> alive[g])
LastTells ==
  \A i \in 1..Len(operations) :
    NoneAbout(operations[i].guid, i + 1, Len(operations)) =>
      (operations[i].active <=> alive[operations[i].guid])
Chained == FirstFits /\ NextFits /\ DictionaryTells /\ LastTells

QueueShapes ==
  /\ alive \in [Guids -> BOOLEAN]
  /\ operations \in Seq(Operation)
  /\ entities \in [Guids -> States]
QueueInv == QueueShapes /\ Chained

queueVars == <<alive, operations, entities>>

\* Nothing is known and nothing queued.
LEMMA QueueInit == Init => QueueInv
  <1> SUFFICES ASSUME Init PROVE QueueInv
    OBVIOUS
  <1>1. /\ alive = [g \in Guids |-> FALSE] /\ operations = <<>>
        /\ entities = [g \in Guids |-> "absent"]
    BY DEF Init, DatabaseInit
  <1>2. Len(operations) = 0 /\ operations \in Seq(Operation)
    BY <1>1
  <1>3. 1..Len(operations) = {}
    BY <1>2
  <1> QED
    BY <1>1, <1>2, <1>3 DEF QueueInv, QueueShapes, Chained, FirstFits, NextFits, DictionaryTells,
                               LastTells, States

LEMMA QueueStutter == QueueInv /\ UNCHANGED queueVars => QueueInv'
  BY DEF queueVars, QueueInv, QueueShapes, Chained, FirstFits, NextFits, DictionaryTells,
         LastTells, NoneAbout

\* A participant pushes what it saw of endpoint g, which fits what was said of g last.
LEMMA QueuePush ==
  ASSUME QueueInv, NEW g \in Guids, NEW kind \in {"add", "update"}, NEW active \in BOOLEAN,
         PushOperation(kind, g, active), UNCHANGED entities,
         alive' = [alive EXCEPT ![g] = active], kind = "add" <=> ~alive[g]
  PROVE  QueueInv'
  <1>n. PICK n \in Nat : n = Len(operations)
    BY DEF QueueInv, QueueShapes
  <1>1. operations' = Append(operations, [kind |-> kind, guid |-> g, active |-> active])
    BY <1>n DEF QueueInv, QueueShapes, PushOperation
  <1>2. operations \in Seq(Operation) /\ [kind |-> kind, guid |-> g, active |-> active] \in Operation
    BY DEF QueueInv, QueueShapes, Operation
  <1>3. /\ operations' \in Seq(Operation) /\ Len(operations') = n + 1
        /\ \A i \in 1..n : operations'[i] = operations[i]
        /\ operations'[n + 1] = [kind |-> kind, guid |-> g, active |-> active]
    BY <1>1, <1>2, <1>n
  <1>4. /\ alive \in [Guids -> BOOLEAN] /\ entities' = entities
        /\ FirstFits /\ NextFits /\ DictionaryTells /\ LastTells
    BY DEF QueueInv, QueueShapes, Chained
  <1>5. /\ operations'[n + 1].kind = kind /\ operations'[n + 1].guid = g
        /\ operations'[n + 1].active = active
    BY <1>3
  <1>6. \A i \in 1..n : operations[i].guid \in Guids
    <2> SUFFICES ASSUME NEW i \in 1..n PROVE operations[i].guid \in Guids
      OBVIOUS
    <2>1. operations[i] \in Operation
      BY <1>2, <1>n
    <2> QED
      BY <2>1 DEF Operation
  <1>7. ASSUME NEW h, NEW i \in Nat \ {0}, NEW j \in 0..n
        PROVE  NoneAbout(h, i, j)' <=> NoneAbout(h, i, j)
    BY <1>3 DEF NoneAbout
  <1>8. FirstFits'
    <2> SUFFICES ASSUME NEW i \in 1..(n + 1), NoneAbout(operations[i].guid, 1, i - 1)'
                 PROVE  operations'[i].kind = "add" <=> entities[operations'[i].guid] # "active"
      BY <1>3, <1>4 DEF FirstFits
    <2>1. i - 1 \in 0..n
      OBVIOUS
    <2>2. NoneAbout(operations'[i].guid, 1, i - 1)
      BY <2>1, <1>7
    <2>3. CASE i \in 1..n
      BY <2>2, <2>3, <1>3, <1>4, <1>n DEF FirstFits
    <2>4. CASE i = n + 1
      <3>1. NoneAbout(g, 1, n)
        BY <2>2, <2>4, <1>5
      <3> QED
        BY <3>1, <2>4, <1>4, <1>5, <1>n DEF DictionaryTells
    <2> QED
      BY <2>3, <2>4
  <1>9. NextFits'
    <2> SUFFICES ASSUME NEW i \in 1..(n + 1), NEW j \in 1..(n + 1), i < j,
                        operations'[i].guid = operations'[j].guid,
                        NoneAbout(operations[i].guid, i + 1, j - 1)'
                 PROVE  operations'[j].kind = "add" <=> ~operations'[i].active
      BY <1>3 DEF NextFits
    <2>1. i \in 1..n /\ j - 1 \in 0..n /\ i + 1 \in Nat \ {0}
      OBVIOUS
    <2>2. NoneAbout(operations'[i].guid, i + 1, j - 1)
      BY <2>1, <1>7
    <2>3. CASE j \in 1..n
      BY <2>1, <2>2, <2>3, <1>3, <1>4, <1>n DEF NextFits
    <2>4. CASE j = n + 1
      <3>1. NoneAbout(operations[i].guid, i + 1, n) /\ operations[i].guid = g
        BY <2>1, <2>2, <2>4, <1>3, <1>5
      <3>2. operations[i].active <=> alive[g]
        BY <2>1, <3>1, <1>4, <1>n DEF LastTells
      <3> QED
        BY <3>2, <2>1, <2>4, <1>3, <1>5
    <2> QED
      BY <2>3, <2>4
  <1>10. DictionaryTells'
    <2> SUFFICES ASSUME NEW h \in Guids, NoneAbout(h, 1, n + 1)'
                 PROVE  entities[h] = "active" <=> alive'[h]
      BY <1>3, <1>4 DEF DictionaryTells
    <2>1. h # g
      BY <1>5 DEF NoneAbout
    <2>2. NoneAbout(h, 1, n)'
      BY DEF NoneAbout
    <2>3. NoneAbout(h, 1, n)
      BY <2>2, <1>7
    <2> QED
      BY <2>1, <2>3, <1>4, <1>n DEF DictionaryTells
  <1>11. LastTells'
    <2> SUFFICES ASSUME NEW i \in 1..(n + 1), NoneAbout(operations[i].guid, i + 1, n + 1)'
                 PROVE  operations'[i].active <=> alive'[operations'[i].guid]
      BY <1>3 DEF LastTells
    <2>1. CASE i = n + 1
      BY <2>1, <1>4, <1>5
    <2>2. CASE i \in 1..n
      <3>1. operations'[i].guid # g
        BY <2>2, <1>5 DEF NoneAbout
      <3>2. NoneAbout(operations[i].guid, i + 1, n)'
        BY DEF NoneAbout
      <3>3. NoneAbout(operations[i].guid, i + 1, n)
        BY <3>2, <2>2, <1>3, <1>7
      <3>4. operations[i].active <=> alive[operations[i].guid]
        BY <3>3, <2>2, <1>4, <1>n DEF LastTells
      <3> QED
        BY <3>1, <3>4, <2>2, <1>3, <1>4, <1>6
    <2> QED
      BY <2>1, <2>2
  <1>12. QueueShapes'
    BY <1>3, <1>4 DEF QueueInv, QueueShapes
  <1> QED
    BY <1>8, <1>9, <1>10, <1>11, <1>12 DEF QueueInv, Chained

\* The operation at the head is accepted, and the dictionary says then what it said.
LEMMA HeadAccepted ==
  ASSUME QueueInv, Process
  PROVE  /\ operations # <<>> /\ operations[1] \in Operation /\ Accepted(operations[1])
         /\ entities' = [entities EXCEPT ![operations[1].guid] = StateOf(operations[1].active)]
  <1>1. /\ operations \in Seq(Operation) /\ operations # <<>> /\ FirstFits
        /\ entities \in [Guids -> States]
    BY DEF QueueInv, QueueShapes, Chained, Process
  <1>2. /\ 1 \in 1..Len(operations) /\ operations[1] \in Operation
        /\ Head(operations) = operations[1]
    BY <1>1
  <1>3. NoneAbout(operations[1].guid, 1, 1 - 1)
    BY DEF NoneAbout
  <1>4. operations[1].kind = "add" <=> entities[operations[1].guid] # "active"
    BY <1>1, <1>2, <1>3 DEF FirstFits
  <1>5. Accepted(operations[1])
    BY <1>1, <1>2, <1>4 DEF Accepted
  <1> QED
    BY <1>1, <1>2, <1>5 DEF Process

\* The queue moves on: what the head said of its endpoint is in the dictionary now.
LEMMA QueuePop == QueueInv /\ Process => QueueInv'
  <1> SUFFICES ASSUME QueueInv, Process PROVE QueueInv'
    OBVIOUS
  <1>n. PICK n \in Nat : Len(operations) = n + 1
    BY DEF QueueInv, QueueShapes, Process
  <1>g. PICK g : g = operations[1].guid
    OBVIOUS
  <1>a. PICK active \in BOOLEAN : active = operations[1].active
    BY HeadAccepted DEF Operation
  <1>1. operations \in Seq(Operation) /\ operations # <<>> /\ operations' = Tail(operations)
    BY DEF QueueInv, QueueShapes, Process
  <1>2. /\ operations' \in Seq(Operation) /\ Len(operations') = n
        /\ \A i \in 1..n : operations'[i] = operations[i + 1]
    BY <1>1, <1>n
  <1>3. g \in Guids /\ entities' = [entities EXCEPT ![g] = StateOf(active)]
    BY <1>g, <1>a, HeadAccepted DEF Operation
  <1>4. /\ alive \in [Guids -> BOOLEAN] /\ alive' = alive /\ entities \in [Guids -> States]
        /\ FirstFits /\ NextFits /\ DictionaryTells /\ LastTells
    BY DEF QueueInv, QueueShapes, Chained, Process
  <1>5. entities'[g] = "active" <=> active
    BY <1>3, <1>4 DEF StateOf
  <1>6. \A i \in 1..n : operations'[i].guid \in Guids
    <2> SUFFICES ASSUME NEW i \in 1..n PROVE operations'[i].guid \in Guids
      OBVIOUS
    <2>1. operations'[i] \in Operation
      BY <1>2
    <2> QED
      BY <2>1 DEF Operation
  <1>7. ASSUME NEW h, NEW i \in 1..(n + 1), NEW j \in 0..n, NoneAbout(h, i, j)'
        PROVE  NoneAbout(h, i + 1, j + 1)
    <2> SUFFICES ASSUME NEW k \in (i + 1)..(j + 1) PROVE operations[k].guid # h
      BY DEF NoneAbout
    <2>1. k - 1 \in i..j /\ k - 1 \in 1..n /\ (k - 1) + 1 = k
      OBVIOUS
    <2>2. operations'[k - 1].guid # h
      BY <1>7, <2>1 DEF NoneAbout
    <2> QED
      BY <2>1, <2>2, <1>2
  <1>8. ASSUME NEW h, NEW j \in 1..(n + 1), NoneAbout(h, 2, j), h # g
        PROVE  NoneAbout(h, 1, j)
    BY <1>8, <1>g DEF NoneAbout
  <1>9. FirstFits'
    <2> SUFFICES ASSUME NEW i \in 1..n, NoneAbout(operations[i].guid, 1, i - 1)'
                 PROVE  operations'[i].kind = "add" <=> entities'[operations'[i].guid] # "active"
      BY <1>2 DEF FirstFits
    <2>1. i - 1 \in 0..n /\ (i - 1) + 1 = i /\ i \in 1..(n + 1) /\ i + 1 \in 1..(n + 1)
          /\ 1 \in 1..(n + 1) /\ 1 < i + 1 /\ (i + 1) - 1 = i /\ 1 + 1 = 2
      OBVIOUS
    <2>2. NoneAbout(operations'[i].guid, 2, i)
      BY <2>1, <1>7
    <2>3. CASE operations'[i].guid = g
      <3>1. operations[i + 1].kind = "add" <=> ~active
        BY <2>1, <2>2, <2>3, <1>2, <1>4, <1>n, <1>g, <1>a DEF NextFits
      <3> QED
        BY <3>1, <2>3, <1>2, <1>5
    <2>4. CASE operations'[i].guid # g
      <3>1. NoneAbout(operations'[i].guid, 1, i)
        BY <2>1, <2>2, <2>4, <1>8
      <3>2. operations[i + 1].kind = "add" <=> entities[operations[i + 1].guid] # "active"
        BY <2>1, <3>1, <1>2, <1>4, <1>n DEF FirstFits
      <3> QED
        BY <3>2, <2>4, <1>2, <1>3, <1>4, <1>6
    <2> QED
      BY <2>3, <2>4
  <1>10. NextFits'
    <2> SUFFICES ASSUME NEW i \in 1..n, NEW j \in 1..n, i < j,
                        operations'[i].guid = operations'[j].guid,
                        NoneAbout(operations[i].guid, i + 1, j - 1)'
                 PROVE  operations'[j].kind = "add" <=> ~operations'[i].active
      BY <1>2 DEF NextFits
    <2>1. /\ i + 1 \in 1..(n + 1) /\ j + 1 \in 1..(n + 1) /\ j - 1 \in 0..n
          /\ i + 1 < j + 1 /\ (j - 1) + 1 = (j + 1) - 1
      OBVIOUS
    <2>2. NoneAbout(operations'[i].guid, (i + 1) + 1, (j + 1) - 1)
      BY <2>1, <1>7
    <2> QED
      BY <2>1, <2>2, <1>2, <1>4, <1>n DEF NextFits
  <1>11. DictionaryTells'
    <2> SUFFICES ASSUME NEW h \in Guids, NoneAbout(h, 1, n)'
                 PROVE  entities'[h] = "active" <=> alive[h]
      BY <1>2, <1>4 DEF DictionaryTells
    <2>1. NoneAbout(h, 2, n + 1)
      <3>1. 1 \in 1..(n + 1) /\ n \in 0..n /\ 1 + 1 = 2
        OBVIOUS
      <3> QED
        BY <3>1, <1>7
    <2>2. CASE h = g
      BY <2>1, <2>2, <1>4, <1>5, <1>n, <1>g, <1>a DEF LastTells
    <2>3. CASE h # g
      <3>1. NoneAbout(h, 1, n + 1)
        BY <2>1, <2>3, <1>8
      <3>2. entities[h] = "active" <=> alive[h]
        BY <3>1, <1>4, <1>n DEF DictionaryTells
      <3> QED
        BY <3>2, <2>3, <1>3, <1>4
    <2> QED
      BY <2>2, <2>3
  <1>12. LastTells'
    <2> SUFFICES ASSUME NEW i \in 1..n, NoneAbout(operations[i].guid, i + 1, n)'
                 PROVE  operations'[i].active <=> alive[operations'[i].guid]
      BY <1>2, <1>4 DEF LastTells
    <2>1. i + 1 \in 1..(n + 1) /\ n \in 0..n
      OBVIOUS
    <2>2. NoneAbout(operations'[i].guid, (i + 1) + 1, n + 1)
      BY <2>1, <1>7
    <2> QED
      BY <2>1, <2>2, <1>2, <1>4, <1>n DEF LastTells
  <1>13. QueueShapes'
    BY <1>2, <1>3, <1>4 DEF QueueShapes, StateOf, States
  <1> QED
    BY <1>9, <1>10, <1>11, <1>12, <1>13 DEF QueueInv, Chained

\* Only the participants and the queue processing thread touch the queue.
LEMMA QueueStep == QueueInv /\ [Next]_vars => QueueInv'
  <1> SUFFICES ASSUME QueueInv, [Next]_vars PROVE QueueInv'
    OBVIOUS
  <1>t. alive \in [Guids -> BOOLEAN]
    BY DEF QueueInv, QueueShapes
  <1>1. ASSUME NEW g \in Guids, Discovered(g) PROVE QueueInv'
    BY <1>1, QueuePush DEF Discovered
  <1>2. ASSUME NEW g \in Guids, ChangedQos(g) PROVE QueueInv'
    <2>1. alive' = [alive EXCEPT ![g] = TRUE]
      BY <1>2, <1>t DEF ChangedQos
    <2> QED
      BY <1>2, <2>1, QueuePush DEF ChangedQos
  <1>3. ASSUME NEW g \in Guids, Removed(g) PROVE QueueInv'
    BY <1>3, QueuePush DEF Removed
  <1>4. CASE Process
    BY <1>4, QueuePop
  <1>5. CASE Stop
    BY <1>5, QueueStutter DEF Stop, StopCall, StopJoin, queueVars
  <1>6. CASE Callback
    BY <1>6, QueueStutter
    DEF Callback, DiscoveredTopic, DiscoveredService, RemovedTopic, IgnoredEndpoint,
        CallbackReturns, queueVars
  <1>7. CASE Disable
    BY <1>7, QueueStutter DEF Disable, databaseVars, queueVars
  <1>8. ASSUME NEW failed \in SUBSET MayFail, Enable(failed) PROVE QueueInv'
    BY <1>8, QueueStutter DEF Enable, databaseVars, queueVars
  <1>9. ASSUME NEW failed \in SUBSET MayFail, NEW list \in Lists, Reload(list, failed)
        PROVE  QueueInv'
    BY <1>9, QueueStutter DEF Reload, databaseVars, queueVars
  <1>10. CASE UNCHANGED vars
    BY <1>10, QueueStutter DEF vars, databaseVars, queueVars
  <1> QED
    BY <1>1, <1>2, <1>3, <1>4, <1>5, <1>6, <1>7, <1>8, <1>9, <1>10
    DEF Next, DatabaseStep, Environment

LEMMA QueueInvariant == Spec => []QueueInv
  BY QueueInit, QueueStep, PTL DEF Spec

\* However many operations wait, each fits what the dictionary will say when its turn
\* comes: neither add_endpoint_ nor update_endpoint_ ever throws InconsistencyException
\* (DiscoveryDatabase.cpp).
THEOREM QueuedOperationsFit == Spec => []OperationsFit
  <1>1. ASSUME QueueInv PROVE OperationsFit
    <2>1. PICK n \in Nat : n = Len(operations)
      BY <1>1 DEF QueueInv, QueueShapes
    <2>2. FirstFits /\ NextFits /\ operations \in Seq(Operation) /\ entities \in [Guids -> States]
      BY <1>1 DEF QueueInv, QueueShapes, Chained
    <2> SUFFICES ASSUME NEW i \in 1..n
                 PROVE  LET g == operations[i].guid
                            before == {j \in 1..(i - 1) : operations[j].guid = g}
                            active == IF before = {} THEN entities[g] = "active"
                                      ELSE operations[CHOOSE j \in before :
                                                        \A k \in before : k =< j].active
                        IN  /\ operations[i].kind = "add" <=> ~active
                            /\ operations[i].kind = "update" =>
                                 before # {} \/ entities[g] # "absent"
      BY <2>1 DEF OperationsFit
    <2> DEFINE g == operations[i].guid
               before == {j \in 1..(i - 1) : operations[j].guid = g}
               last == CHOOSE j \in before : \A k \in before : k =< j
    <2>3. CASE before = {}
      <3>1. NoneAbout(g, 1, i - 1)
        BY <2>3 DEF NoneAbout
      <3>2. operations[i].kind = "add" <=> entities[g] # "active"
        BY <3>1, <2>1, <2>2 DEF FirstFits
      <3> QED
        BY <3>2, <2>3
    <2>4. CASE before # {}
      <3>1. before \in SUBSET Nat /\ \A j \in before : j <= i
        OBVIOUS
      <3>2. \E j \in before : \A k \in before : k =< j
        <4>1. i \in Nat
          OBVIOUS
        <4> HIDE DEF before
        <4> QED
          BY <4>1, <3>1, <2>4, MaxExists
      <3>3. last \in before /\ \A k \in before : k =< last
        BY <3>2
      <3>4. last \in 1..(i - 1) /\ operations[last].guid = g
        BY <3>3
      <3>5. NoneAbout(g, last + 1, i - 1)
        <4> SUFFICES ASSUME NEW k \in (last + 1)..(i - 1), operations[k].guid = g PROVE FALSE
          BY DEF NoneAbout
        <4>1. k \in before
          BY <3>4
        <4> QED
          BY <3>3, <3>4, <4>1
      <3>6. last \in 1..n /\ last < i
        BY <3>4
      <3>7. operations[i].kind = "add" <=> ~operations[last].active
        BY <3>4, <3>5, <3>6, <2>1, <2>2 DEF NextFits
      <3> QED
        BY <3>7, <2>4
    <2> QED
      BY <2>3, <2>4
  <1> QED
    BY <1>1, QueueInvariant, PTL

\* When the queue is empty the dictionary says of every endpoint what its participant
\* saw last, whatever was pushed on the way.
THEOREM DatabaseFollowsParticipants == Spec => []DatabaseCaughtUp
  <1>1. ASSUME QueueInv PROVE DatabaseCaughtUp
    <2> SUFFICES ASSUME operations = <<>>, NEW g \in Guids
                 PROVE  (entities[g] = "active") = alive[g]
      BY DEF DatabaseCaughtUp
    <2>1. NoneAbout(g, 1, Len(operations))
      BY DEF NoneAbout
    <2>2. entities[g] = "active" <=> alive[g]
      BY <1>1, <2>1 DEF QueueInv, Chained, DictionaryTells
    <2> QED
      BY <1>1, <2>2 DEF QueueInv, QueueShapes
  <1> QED
    BY <1>1, QueueInvariant, PTL
-----------------------------------------------------------------------------
(***************************************************************************)
(* WritersMatchReaders.  The database does not keep what it announced, nor *)
(* the pipe what it heard, so WritersInv relates the writers to the        *)
(* dictionary as it was before the event whose callback runs.              *)
(***************************************************************************)

\* An endpoint that was announced as new once is not added again: the operation that adds it
\* is the only one in the queue, or it was processed and there is none.
AddsOf(g) == {i \in 1..Len(operations) : operations[i].guid = g /\ operations[i].kind = "add"}
AddedOnce ==
  \A g \in Guids :
    /\ adds[g] = 0 => AddsOf(g) = {} /\ entities[g] = "absent"
    /\ adds[g] <= 1 =>
         /\ \A i, j \in AddsOf(g) : i = j
         /\ entities[g] # "absent" => AddsOf(g) = {}
AddsActivate == \A i \in 1..Len(operations) : operations[i].kind = "add" => operations[i].active
AddsInv == adds \in [Guids -> Nat] /\ AddedOnce /\ AddsActivate

WriterShapes ==
  /\ writers \in [Topics -> SUBSET Participants]
  /\ discoverer \in [Topics -> Participants \cup {NoParticipant}]
  /\ atDiscovery \subseteq Topics /\ \A t \in atDiscovery : bridge[t] # "none"

\* The dictionary holds what the callback reports, for as long as that runs.
CallbackFits ==
  callback # NoCallback =>
    /\ callback \in Operation
    /\ callback.active <=> entities[callback.guid] = "active"
    /\ callback.kind = "add" => callback.active

\* The relevant endpoints of topic t at participant p, as the dictionary has them, and
\* whether the callback brings news of one.
ActiveIn(t, p) ==
  {g \in RelevantGuids : entities[g] = "active" /\ TopicOf[g] = t /\ ParticipantOf[g] = p}
NewsOf(t, p) ==
  /\ callback # NoCallback /\ callback.guid \in RelevantGuids
  /\ TopicOf[callback.guid] = t /\ ParticipantOf[callback.guid] = p

\* The participants that have a writer, and those that should: the ones that had an endpoint
\* before the news.
Served(t) == IF current[t] = "unknown" THEN {} ELSE writers[t]
Deserves(t, p) ==
  IF NewsOf(t, p) THEN callback.kind = "update" \/ ActiveIn(t, p) \ {callback.guid} # {}
                  ELSE ActiveIn(t, p) # {}
Watched(t) == AnnouncedOnce(t) /\ (current[t] = "unknown" \/ t \in atDiscovery)
FollowsAt(t) == \A p \in Participants : p \in Served(t) <=> Deserves(t, p)
WritersFollow == (removeUnused /\ ~exit) => \A t \in Topics : Watched(t) => FollowsAt(t)

WritersInv == AddsInv /\ WriterShapes /\ CallbackFits /\ WritersFollow

\* Nothing is known, and nothing was announced.
LEMMA WritersInit == Init => WritersInv
  <1> SUFFICES ASSUME Init PROVE WritersInv
    OBVIOUS
  <1>1. /\ operations = <<>> /\ Len(operations) = 0 /\ callback = NoCallback
        /\ adds = [g \in Guids |-> 0] /\ entities = [g \in Guids |-> "absent"]
        /\ current = [t \in Topics |-> IF t \in Builtin THEN "inactive" ELSE "unknown"]
        /\ atDiscovery = {} /\ discoverer = [t \in Topics |-> NoParticipant]
    BY DEF Init, DatabaseInit
  <1>2. AddsInv
    BY <1>1 DEF AddsInv, AddedOnce, AddsActivate, AddsOf
  <1>3. writers \in [Topics -> SUBSET Participants]
    BY DEF Init, WritersOfNewBridge
  <1>4. WriterShapes /\ CallbackFits
    BY <1>1, <1>3 DEF WriterShapes, CallbackFits
  <1>5. ASSUME NEW t \in Topics, Watched(t) PROVE FollowsAt(t)
    <2>1. Served(t) = {}
      BY <1>1, <1>5 DEF Watched, Served
    <2>2. \A p \in Participants : ActiveIn(t, p) = {} /\ ~NewsOf(t, p)
      BY <1>1, PipeAssumption DEF ActiveIn, NewsOf
    <2> QED
      BY <2>1, <2>2 DEF FollowsAt, Deserves
  <1> QED
    BY <1>2, <1>4, <1>5 DEF WritersInv, WritersFollow

\* A participant pushes what it saw.
LEMMA AddsPush ==
  ASSUME QueueInv, AddsInv, NEW g \in Guids, NEW kind \in {"add", "update"},
         NEW active \in BOOLEAN, PushOperation(kind, g, active), UNCHANGED entities,
         adds' = IF kind = "add" THEN [adds EXCEPT ![g] = @ + 1] ELSE adds, kind = "add" => active
  PROVE  AddsInv'
  <1>1. PICK n \in Nat : n = Len(operations)
    BY DEF QueueInv, QueueShapes
  <1>2. PICK op \in Operation : op = [kind |-> kind, guid |-> g, active |-> active]
    BY DEF Operation
  <1>3. /\ Len(operations') = n + 1 /\ operations'[n + 1] = op
        /\ \A i \in 1..n : operations'[i] = operations[i]
    <2>1. operations' = Append(operations, op) /\ operations \in Seq(Operation)
      BY <1>2 DEF PushOperation, QueueInv, QueueShapes
    <2> QED
      BY <1>1, <2>1
  <1>4. op.kind = kind /\ op.guid = g /\ op.active = active
    BY <1>2
  <1>5. \A h \in Guids : AddsOf(h)' = AddsOf(h) \cup {i \in {n + 1} : h = g /\ kind = "add"}
    BY <1>1, <1>3, <1>4 DEF AddsOf
  <1>6. adds \in [Guids -> Nat] /\ AddedOnce /\ AddsActivate /\ adds' \in [Guids -> Nat]
    BY DEF AddsInv
  <1>7. AddsActivate'
    BY <1>1, <1>3, <1>4, <1>6 DEF AddsActivate
  <1>8. AddedOnce'
    <2>1. ASSUME NEW h \in Guids
          PROVE  /\ adds'[h] = 0 => AddsOf(h)' = {} /\ entities'[h] = "absent"
                 /\ adds'[h] <= 1 => /\ \A i, j \in AddsOf(h)' : i = j
                                     /\ entities'[h] # "absent" => AddsOf(h)' = {}
      <3>1. CASE h = g /\ kind = "add"
        <4>1. adds'[h] = adds[h] + 1 /\ adds[h] \in Nat
          BY <1>6, <3>1
        <4>2. adds'[h] <= 1 => AddsOf(h)' = {n + 1} /\ entities'[h] = "absent"
          BY <1>5, <1>6, <3>1, <4>1 DEF AddedOnce
        <4> QED
          BY <4>1, <4>2
      <3>2. CASE ~(h = g /\ kind = "add")
        <4>1. AddsOf(h)' = AddsOf(h) /\ adds'[h] = adds[h]
          BY <1>5, <1>6, <3>2
        <4> QED
          BY <1>6, <4>1 DEF AddedOnce
      <3> QED
        BY <3>1, <3>2
    <2> QED
      BY <2>1 DEF AddedOnce
  <1> QED
    BY <1>6, <1>7, <1>8 DEF AddsInv

\* What fits of the operation at the head: an update is of an active endpoint, and the first
\* add of an endpoint that was announced once finds it absent.
LEMMA HeadFits ==
  ASSUME QueueInv, AddsInv, Process
  PROVE  /\ Len(operations) \in Nat \ {0} /\ operations[1] \in Operation
         /\ Head(operations) = operations[1]
         /\ operations[1].kind = "update" => entities[operations[1].guid] = "active"
         /\ operations[1].kind = "add" =>
              /\ operations[1].active
              /\ adds[operations[1].guid] <= 1 => entities[operations[1].guid] = "absent"
  <1>1. operations \in Seq(Operation) /\ operations # <<>> /\ FirstFits
    BY DEF QueueInv, QueueShapes, Chained, Process
  <1>2. /\ 1 \in 1..Len(operations) /\ operations[1] \in Operation
        /\ Head(operations) = operations[1] /\ Len(operations) \in Nat \ {0}
    BY <1>1
  <1>3. NoneAbout(operations[1].guid, 1, 1 - 1)
    BY DEF NoneAbout
  <1>4. operations[1].kind = "add" <=> entities[operations[1].guid] # "active"
    BY <1>1, <1>2, <1>3 DEF FirstFits
  <1>5. operations[1].kind = "add" =>
          operations[1].active /\ 1 \in AddsOf(operations[1].guid) /\ operations[1].guid \in Guids
    BY <1>2 DEF AddsInv, AddsActivate, AddsOf, Operation
  <1> QED
    BY <1>2, <1>4, <1>5 DEF AddsInv, AddedOnce

\* The head of the queue is processed.
LEMMA AddsPop == QueueInv /\ AddsInv /\ Process => AddsInv'
  <1> SUFFICES ASSUME QueueInv, AddsInv, Process PROVE AddsInv'
    OBVIOUS
  <1>1. PICK n \in Nat : Len(operations) = n + 1
    BY SMTT(30), HeadFits
  <1>2. PICK g \in Guids : g = operations[1].guid
    BY HeadFits DEF Operation
  <1>3. Len(operations') = n /\ \A i \in 1..n : operations'[i] = operations[i + 1]
    <2>1. operations \in Seq(Operation) /\ operations # <<>> /\ operations' = Tail(operations)
      BY DEF QueueInv, QueueShapes, Process
    <2> QED
      BY <1>1, <2>1
  <1>4. \A h, i : i \in AddsOf(h)' => i \in 1..n /\ i + 1 \in AddsOf(h) /\ i + 1 # 1
    BY <1>1, <1>3 DEF AddsOf
  <1>5. /\ adds' = adds /\ adds \in [Guids -> Nat] /\ AddedOnce /\ AddsActivate
        /\ \A h \in Guids \ {g} : entities'[h] = entities[h]
    BY <1>2, HeadAccepted DEF AddsInv, Process, QueueInv, QueueShapes
  <1>6. AddsActivate'
    BY <1>1, <1>3, <1>5 DEF AddsActivate
  <1>7. operations[1].kind = "add" => 1 \in AddsOf(g)
    BY <1>1, <1>2 DEF AddsOf
  <1>8. operations[1].kind # "add" => entities[g] = "active"
    BY <1>2, HeadFits DEF Operation
  <1>9. AddedOnce'
    <2>1. ASSUME NEW h \in Guids
          PROVE  /\ adds[h] = 0 => AddsOf(h)' = {} /\ entities'[h] = "absent"
                 /\ adds[h] <= 1 => /\ \A i, j \in AddsOf(h)' : i = j
                                    /\ entities'[h] # "absent" => AddsOf(h)' = {}
      <3>1. adds[h] = 0 => AddsOf(h)' = {} /\ entities'[h] = "absent"
        BY <1>4, <1>5, <1>7, <1>8 DEF AddedOnce
      <3>2. adds[h] <= 1 => \A i, j \in AddsOf(h)' : i = j
        <4> SUFFICES ASSUME adds[h] <= 1, NEW i \in AddsOf(h)', NEW j \in AddsOf(h)' PROVE i = j
          OBVIOUS
        <4>1. i \in 1..n /\ j \in 1..n /\ i + 1 \in AddsOf(h) /\ j + 1 \in AddsOf(h)
          BY <1>4
        <4>2. i + 1 = j + 1
          BY <1>5, <4>1 DEF AddedOnce
        <4> QED
          BY <4>1, <4>2
      <3>3. adds[h] <= 1 /\ entities'[h] # "absent" => AddsOf(h)' = {}
        <4> SUFFICES ASSUME adds[h] <= 1, entities'[h] # "absent", NEW i \in AddsOf(h)' PROVE FALSE
          OBVIOUS
        <4>1. i + 1 \in AddsOf(h) /\ i + 1 # 1
          BY <1>4
        <4>2. CASE h = g
          BY <1>5, <1>7, <1>8, <4>1, <4>2 DEF AddedOnce
        <4>3. CASE h # g
          BY <1>5, <4>1, <4>3 DEF AddedOnce
        <4> QED
          BY <4>2, <4>3
      <3> QED
        BY <3>1, <3>2, <3>3
    <2> QED
      BY <1>5, <2>1 DEF AddedOnce
  <1> QED
    BY <1>5, <1>6, <1>9 DEF AddsInv

\* Only the participants and the queue processing thread change what AddsInv speaks of.
LEMMA AddsStep == QueueInv /\ AddsInv /\ [Next]_vars => AddsInv'
  <1> SUFFICES ASSUME QueueInv, AddsInv, [Next]_vars PROVE AddsInv'
    OBVIOUS
  <1>s. UNCHANGED <<adds, operations, entities>> => AddsInv'
    BY DEF AddsInv, AddedOnce, AddsActivate, AddsOf
  <1>1. ASSUME NEW g \in Guids, Discovered(g) PROVE AddsInv'
    BY <1>1, AddsPush DEF Discovered
  <1>2. ASSUME NEW g \in Guids, ChangedQos(g) PROVE AddsInv'
    BY <1>2, AddsPush DEF ChangedQos
  <1>3. ASSUME NEW g \in Guids, Removed(g) PROVE AddsInv'
    BY <1>3, AddsPush DEF Removed
  <1>4. CASE Process
    BY <1>4, AddsPop
  <1>5. CASE Stop
    BY <1>5, <1>s DEF Stop, StopCall, StopJoin
  <1>6. CASE Callback
    BY <1>6, <1>s
    DEF Callback, DiscoveredTopic, DiscoveredService, RemovedTopic, IgnoredEndpoint, CallbackReturns
  <1>7. CASE Disable
    BY <1>7, <1>s DEF Disable, databaseVars
  <1>8. ASSUME NEW failed \in SUBSET MayFail, Enable(failed) PROVE AddsInv'
    BY <1>8, <1>s DEF Enable, databaseVars
  <1>9. ASSUME NEW failed \in SUBSET MayFail, NEW list \in Lists, Reload(list, failed) PROVE AddsInv'
    BY <1>9, <1>s DEF Reload, databaseVars
  <1>10. CASE UNCHANGED vars
    BY <1>10, <1>s DEF vars, databaseVars
  <1> QED
    BY <1>1, <1>2, <1>3, <1>4, <1>5, <1>6, <1>7, <1>8, <1>9, <1>10
    DEF Next, DatabaseStep, Environment

\* Topics are opened only where there is no bridge, and a bridge is never taken away.
LEMMA BridgesStay ==
  ASSUME TopicInv, [Next]_vars, NEW t \in Topics, bridge[t] # "none"
  PROVE  bridge'[t] # "none"
  <1> USE DEF TopicInv, TopicShapes, Activated, Deactivated
  <1>1. CASE DatabaseStep /\ UNCHANGED pipeVars
    BY <1>1 DEF pipeVars
  <1>2. CASE Callback
    <2>1. ASSUME NEW failed, DiscoveredTopic(failed) PROVE bridge'[t] # "none"
      <3> DEFINE opened == Opened({x \in {TopicOf[callback.guid]} :
                                    MayActivate(TopicOf[callback.guid])}, failed)
      <3>1. bridge' = bridge \/ bridge' = Activated(opened, bridge)
        BY <2>1 DEF DiscoveredTopic
      <3> QED
        BY <3>1
    <2>2. ASSUME NEW failed, DiscoveredService(failed) PROVE bridge'[t] # "none"
      BY <2>2 DEF DiscoveredService
    <2>3. ASSUME RemovedTopic \/ IgnoredEndpoint PROVE bridge'[t] # "none"
      BY <2>3 DEF RemovedTopic, IgnoredEndpoint, pipeVars
    <2> QED
      BY <1>2, <2>1, <2>2, <2>3 DEF Callback
  <1>3. CASE Disable
    BY <1>3 DEF Disable
  <1>4. ASSUME NEW failed \in SUBSET MayFail, Enable(failed) PROVE bridge'[t] # "none"
    BY <1>4 DEF Enable
  <1>5. ASSUME NEW failed \in SUBSET MayFail, NEW list \in Lists, Reload(list, failed)
        PROVE  bridge'[t] # "none"
    BY <1>5 DEF Reload
  <1>6. CASE UNCHANGED vars
    BY <1>6 DEF vars, pipeVars
  <1> QED
    BY <1>1, <1>2, <1>3, <1>4, <1>5, <1>6 DEF Next

\* The writers of a new bridge are participants.
LEMMA NewBridgeWriters ==
  ASSUME NEW who \in Participants \cup {NoParticipant}
  PROVE  WritersOfNewBridge(who) \subseteq Participants
  BY DEF WritersOfNewBridge

\* The types of the bridges.
LEMMA WriterShapesStep == TopicInv /\ CallbackFits /\ WriterShapes /\ [Next]_vars => WriterShapes'
  <1> SUFFICES ASSUME TopicInv, CallbackFits, WriterShapes, [Next]_vars PROVE WriterShapes'
    OBVIOUS
  <1>s. UNCHANGED <<writers, discoverer, atDiscovery>> => WriterShapes'
    BY BridgesStay DEF WriterShapes
  <1>w. ASSUME NEW ts PROVE WritersIfActivated(ts) \in [Topics -> SUBSET Participants]
    BY NewBridgeWriters DEF WriterShapes, WritersIfActivated
  <1>1. CASE DatabaseStep /\ UNCHANGED pipeVars
    BY <1>1, <1>s DEF pipeVars
  <1>2. ASSUME NEW failed \in SUBSET (MayFail \cap Topics), DiscoveredTopic(failed)
        PROVE  WriterShapes'
    <2>1. PICK t \in Topics : t = TopicOf[callback.guid]
      BY <1>2 DEF DiscoveredTopic
    <2>2. PICK p \in Participants : p = ParticipantOf[callback.guid]
      BY <1>2, PipeAssumption DEF DiscoveredTopic, CallbackFits, Operation
    <2>3. writers' \in [Topics -> SUBSET Participants]
      BY <1>2, <2>1, <2>2, NewBridgeWriters DEF DiscoveredTopic, WriterShapes
    <2>4. discoverer' \in [Topics -> Participants \cup {NoParticipant}]
      BY <1>2, <2>1, <2>2 DEF DiscoveredTopic, WriterShapes
    <2>5. \A x \in atDiscovery' : x \in Topics /\ bridge'[x] # "none"
      <3> SUFFICES ASSUME NEW x \in atDiscovery', x \notin atDiscovery
                   PROVE  x \in Topics /\ bridge'[x] # "none"
        BY BridgesStay DEF WriterShapes
      <3>1. /\ x \in Opened({y \in {t} : MayActivate(t)}, failed)
            /\ bridge' = Activated(Opened({y \in {t} : MayActivate(t)}, failed), bridge)
        BY <1>2, <2>1 DEF DiscoveredTopic
      <3> QED
        BY <2>1, <3>1 DEF Opened, Activated
    <2> QED
      BY <2>3, <2>4, <2>5 DEF WriterShapes
  <1>3. CASE RemovedTopic
    <2>1. writers' \in [Topics -> SUBSET Participants]
      BY <1>3 DEF RemovedTopic, WriterShapes
    <2> QED
      BY <1>3, <2>1, BridgesStay DEF RemovedTopic, WriterShapes
  <1>4. ASSUME NEW failed, DiscoveredService(failed) PROVE WriterShapes'
    BY <1>4, <1>s DEF DiscoveredService
  <1>5. CASE IgnoredEndpoint
    BY <1>5, <1>s DEF IgnoredEndpoint, pipeVars
  <1>6. CASE Disable
    BY <1>6, <1>s DEF Disable
  <1>7. ASSUME NEW failed \in SUBSET MayFail, Enable(failed) PROVE WriterShapes'
    <2>1. writers' \in [Topics -> SUBSET Participants]
      BY <1>7, <1>w DEF Enable
    <2> QED
      BY <1>7, <2>1, BridgesStay DEF Enable, WriterShapes
  <1>8. ASSUME NEW failed \in SUBSET MayFail, NEW list \in Lists, Reload(list, failed)
        PROVE  WriterShapes'
    <2>1. writers' \in [Topics -> SUBSET Participants]
      BY <1>8, <1>w DEF Reload, WriterShapes
    <2> QED
      BY <1>8, <2>1, BridgesStay DEF Reload, WriterShapes
  <1>9. CASE UNCHANGED vars
    BY <1>9, <1>s DEF vars, pipeVars
  <1> QED
    BY <1>1, <1>2, <1>3, <1>4, <1>5, <1>6, <1>7, <1>8, <1>9 DEF Next, Callback

\* The dictionary does not change under a callback.
LEMMA CallbackFitsStep ==
  QueueInv /\ AddsInv /\ CallbackFits /\ [Next]_vars => CallbackFits'
  <1> SUFFICES ASSUME QueueInv, AddsInv, CallbackFits, [Next]_vars PROVE CallbackFits'
    OBVIOUS
  <1>s. UNCHANGED <<callback, entities>> => CallbackFits'
    BY DEF CallbackFits
  <1>1. CASE Environment \/ Stop
    BY <1>1, <1>s DEF Environment, Discovered, ChangedQos, Removed, Stop, StopCall, StopJoin
  <1>2. CASE Process
    <2>1. PICK op \in Operation : op = operations[1]
      BY <1>2, HeadFits
    <2>2. op.guid \in Guids /\ op.active \in BOOLEAN
      BY DEF Operation
    <2>3. entities' = [entities EXCEPT ![op.guid] = StateOf(op.active)]
      BY <1>2, <2>1, HeadAccepted
    <2>4. entities'[op.guid] = "active" <=> op.active
      BY <2>2, <2>3 DEF QueueInv, QueueShapes, StateOf
    <2>5. op.kind = "add" => op.active
      BY <1>2, <2>1, HeadFits
    <2>6. callback' # NoCallback => callback' = op
      BY <1>2, <2>1, HeadFits DEF Process
    <2> QED
      BY <2>4, <2>5, <2>6 DEF CallbackFits
  <1>3. CASE Callback
    BY <1>3
    DEF Callback, DiscoveredTopic, DiscoveredService, RemovedTopic, IgnoredEndpoint,
        CallbackReturns, CallbackFits
  <1>4. CASE Disable
    BY <1>4, <1>s DEF Disable, databaseVars
  <1>5. ASSUME NEW failed \in SUBSET MayFail, Enable(failed) PROVE CallbackFits'
    BY <1>5, <1>s DEF Enable, databaseVars
  <1>6. ASSUME NEW failed \in SUBSET MayFail, NEW list \in Lists, Reload(list, failed)
        PROVE  CallbackFits'
    BY <1>6, <1>s DEF Reload, databaseVars
  <1>7. CASE UNCHANGED vars
    BY <1>7, <1>s DEF vars, databaseVars
  <1> QED
    BY <1>1, <1>2, <1>3, <1>4, <1>5, <1>6, <1>7 DEF Next, DatabaseStep

\* Neither news nor writers, for the topics that are watched.
LEMMA FollowQuiet ==
  ASSUME WritersFollow, UNCHANGED <<callback, entities, removeUnused>>, exit => exit',
         \A t \in Topics : Watched(t)' => Watched(t) /\ Served(t)' = Served(t)
  PROVE  WritersFollow'
  <1> SUFFICES ASSUME removeUnused, ~exit, NEW t \in Topics, Watched(t)' PROVE FollowsAt(t)'
    BY DEF WritersFollow
  <1>1. FollowsAt(t) /\ Served(t)' = Served(t)
    BY DEF WritersFollow
  <1>2. \A p \in Participants : Deserves(t, p)' <=> Deserves(t, p)
    BY DEF Deserves, NewsOf, ActiveIn
  <1> QED
    BY <1>1, <1>2 DEF FollowsAt

\* The queue moves on: the news is what makes the difference.
LEMMA FollowProcess ==
  ASSUME QueueInv, AddsInv, WritersFollow, Process, UNCHANGED pipeVars
  PROVE  WritersFollow'
  <1> SUFFICES ASSUME removeUnused, ~exit, NEW t \in Topics, Watched(t)' PROVE FollowsAt(t)'
    BY DEF WritersFollow, Process, pipeVars
  <1>1. PICK op \in Operation : op = operations[1] /\ op = Head(operations)
    BY HeadFits
  <1>2. PICK g \in Guids : g = op.guid
    BY DEF Operation
  <1>3. Watched(t) /\ Served(t)' = Served(t) /\ callback = NoCallback
    BY DEF Watched, AnnouncedOnce, Served, Process, pipeVars
  <1>4. \A p \in Participants : p \in Served(t) <=> ActiveIn(t, p) # {}
    BY <1>3 DEF WritersFollow, FollowsAt, Deserves, NewsOf
  <1>5. /\ entities \in [Guids -> States]
        /\ entities' = [entities EXCEPT ![g] = StateOf(op.active)]
    BY <1>1, <1>2, HeadAccepted DEF QueueInv, QueueShapes
  <1>6. ASSUME NEW p \in Participants, ~(g \in RelevantGuids /\ TopicOf[g] = t /\ ParticipantOf[g] = p)
        PROVE  ActiveIn(t, p)' = ActiveIn(t, p)
    BY <1>5, <1>6, PipeAssumption DEF ActiveIn
  <1>7. op.kind \in {"add", "update"} /\ (op.kind # "add" => entities[g] = "active")
    BY <1>1, <1>2, HeadFits DEF Operation
  <1>8. TopicOf[g] = t /\ op.kind = "add" => entities[g] = "absent" /\ op.active
    BY <1>1, <1>2, <1>3, HeadFits DEF Watched, AnnouncedOnce
  <1>9. TopicOf[g] = t => callback' = op
    BY <1>1, <1>2, <1>7, <1>8 DEF Process
  <1>10. callback' # NoCallback => callback' = op
    BY <1>1 DEF Process
  <1>11. ASSUME NEW p \in Participants PROVE ActiveIn(t, p) # {} <=> Deserves(t, p)'
    <2>1. CASE ~(g \in RelevantGuids /\ TopicOf[g] = t /\ ParticipantOf[g] = p)
      BY <1>2, <1>6, <1>10, <2>1 DEF Deserves, NewsOf
    <2>2. CASE g \in RelevantGuids /\ TopicOf[g] = t /\ ParticipantOf[g] = p
      <3>1. NewsOf(t, p)' /\ callback' = op
        BY <1>2, <1>9, <2>2, CallbackAssumption DEF NewsOf
      <3>2. CASE op.kind = "add"
        <4>1. ActiveIn(t, p)' \ {g} = ActiveIn(t, p)
          BY <1>5, <1>8, <2>2, <3>2, PipeAssumption DEF ActiveIn
        <4> QED
          BY <1>2, <3>1, <3>2, <4>1 DEF Deserves
      <3>3. CASE op.kind # "add"
        <4>1. g \in ActiveIn(t, p) /\ op.kind = "update"
          BY <1>7, <2>2, <3>3 DEF ActiveIn
        <4> QED
          BY <3>1, <4>1 DEF Deserves
      <3> QED
        BY <3>2, <3>3
    <2> QED
      BY <2>1, <2>2
  <1> QED
    BY <1>3, <1>4, <1>11 DEF FollowsAt

\* The pipe answers: the endpoint is the first of its participant, ...
LEMMA FollowDiscovered ==
  ASSUME TopicInv, WriterShapes, CallbackFits, WritersFollow, NEW failed, DiscoveredTopic(failed)
  PROVE  WritersFollow'
  <1> SUFFICES ASSUME removeUnused, ~exit, NEW t \in Topics, Watched(t)' PROVE FollowsAt(t)'
    BY DEF WritersFollow, DiscoveredTopic, CallbackReturns
  <1>1. PICK s \in Topics : s = TopicOf[callback.guid]
    BY DEF DiscoveredTopic
  <1>2. PICK q \in Participants : q = ParticipantOf[callback.guid]
    BY PipeAssumption DEF DiscoveredTopic, CallbackFits, Operation
  <1>3. /\ callback # NoCallback /\ callback.guid \in RelevantGuids
        /\ ActiveIn(s, q) = {callback.guid}
    BY <1>1, <1>2 DEF DiscoveredTopic, IsEndpointRelevant, ActiveIn
  <1>4. \A x, p : /\ ActiveIn(x, p)' = ActiveIn(x, p) /\ ~NewsOf(x, p)'
                  /\ NewsOf(x, p) <=> x = s /\ p = q
    BY <1>1, <1>2, <1>3 DEF DiscoveredTopic, CallbackReturns, ActiveIn, NewsOf
  <1>5. AnnouncedOnce(t)
    BY DEF Watched, AnnouncedOnce, DiscoveredTopic, CallbackReturns
  <1>6. CASE t # s
    <2>1. current'[t] = current[t] /\ writers'[t] = writers[t]
      BY <1>1, <1>6 DEF DiscoveredTopic, TopicInv, TopicShapes, WriterShapes
    <2>2. t \in atDiscovery' => t \in atDiscovery
      BY <1>1, <1>6 DEF DiscoveredTopic, Opened
    <2>3. FollowsAt(t) /\ Served(t)' = Served(t)
      BY <1>5, <2>1, <2>2 DEF Watched, WritersFollow, Served
    <2> QED
      BY <1>4, <1>6, <2>3 DEF FollowsAt, Deserves
  <1>7. CASE t = s /\ bridge[t] = "none"
    <2>1. t \notin atDiscovery /\ current'[t] # "unknown"
      BY <1>1, <1>7 DEF WriterShapes, DiscoveredTopic, TopicInv, TopicShapes
    <2>2. /\ t \in Opened({x \in {t} : MayActivate(t)}, failed) /\ current[t] = "unknown"
      BY <1>1, <1>7, <2>1 DEF Watched, DiscoveredTopic
    <2>3. writers'[t] = {q}
      <3>1. writers' = [writers EXCEPT ![t] = WritersOfNewBridge(q)]
        BY <1>1, <1>2, <1>7, <2>2 DEF DiscoveredTopic
      <3>2. WritersOfNewBridge(q) = {q}
        BY PipeAssumption DEF WritersOfNewBridge
      <3> QED
        BY <3>1, <3>2 DEF WriterShapes
    <2>4. FollowsAt(t) /\ Served(t) = {} /\ Served(t)' = {q}
      BY <1>5, <2>1, <2>2, <2>3 DEF Watched, WritersFollow, Served
    <2>5. \A p \in Participants \ {q} : ActiveIn(t, p) = {}
      BY <1>4, <2>4 DEF FollowsAt, Deserves
    <2> QED
      BY <1>3, <1>4, <1>7, <2>4, <2>5 DEF FollowsAt, Deserves
  <1>8. CASE t = s /\ bridge[t] # "none"
    <2>1. /\ UNCHANGED <<current, atDiscovery>> /\ current[t] # "unknown"
          /\ writers' = [writers EXCEPT ![t] = @ \cup {q}]
      BY <1>1, <1>2, <1>8 DEF DiscoveredTopic, TopicInv, BridgedIsKnown
    <2>2. FollowsAt(t) /\ Served(t)' = Served(t) \cup {q}
      BY <1>5, <2>1 DEF Watched, WritersFollow, Served, WriterShapes
    <2> QED
      BY <1>3, <1>4, <1>8, <2>2 DEF FollowsAt, Deserves
  <1> QED
    BY <1>6, <1>7, <1>8

\* ... or it was the last, ...
LEMMA FollowRemoved ==
  ASSUME WriterShapes, CallbackFits, WritersFollow, RemovedTopic
  PROVE  WritersFollow'
  <1> SUFFICES ASSUME removeUnused, ~exit, NEW t \in Topics, Watched(t)' PROVE FollowsAt(t)'
    BY DEF WritersFollow, RemovedTopic, CallbackReturns
  <1>1. PICK s \in Topics : s = TopicOf[callback.guid]
    BY DEF RemovedTopic
  <1>2. PICK q \in Participants : q = ParticipantOf[callback.guid]
    BY PipeAssumption DEF RemovedTopic, CallbackFits, Operation
  <1>3. /\ callback # NoCallback /\ callback.guid \in RelevantGuids /\ ActiveIn(s, q) = {}
    BY <1>1, <1>2 DEF RemovedTopic, IsEndpointRelevant, ActiveIn
  <1>4. \A x, p : /\ ActiveIn(x, p)' = ActiveIn(x, p) /\ ~NewsOf(x, p)'
                  /\ NewsOf(x, p) <=> x = s /\ p = q
    BY <1>1, <1>2, <1>3 DEF RemovedTopic, CallbackReturns, ActiveIn, NewsOf
  <1>5. Watched(t) /\ FollowsAt(t)
    BY DEF Watched, AnnouncedOnce, RemovedTopic, CallbackReturns, WritersFollow
  <1>6. CASE t # s
    <2>1. Served(t)' = Served(t)
      BY <1>1, <1>6 DEF RemovedTopic, Served, WriterShapes
    <2> QED
      BY <1>4, <1>5, <1>6, <2>1 DEF FollowsAt, Deserves
  <1>7. CASE t = s
    <2>1. Served(t)' = Served(t) \ {q}
      BY <1>1, <1>2, <1>7 DEF RemovedTopic, Served, WriterShapes
    <2> QED
      BY <1>3, <1>4, <1>5, <1>7, <2>1 DEF FollowsAt, Deserves
  <1> QED
    BY <1>6, <1>7

\* ... or nothing depends on it.
LEMMA FollowIgnored ==
  ASSUME CallbackFits, WritersFollow, IgnoredEndpoint
  PROVE  WritersFollow'
  <1> SUFFICES ASSUME removeUnused, ~exit, NEW t \in Topics, Watched(t)',
                      NEW p \in Participants
               PROVE  (p \in Served(t) <=> Deserves(t, p))'
    BY DEF WritersFollow, FollowsAt, IgnoredEndpoint, CallbackReturns, pipeVars
  <1>1. Watched(t) /\ FollowsAt(t) /\ Served(t)' = Served(t)
    BY DEF Watched, AnnouncedOnce, Served, IgnoredEndpoint, CallbackReturns, pipeVars, WritersFollow
  <1>2. ActiveIn(t, p)' = ActiveIn(t, p) /\ ~NewsOf(t, p)'
    BY DEF IgnoredEndpoint, CallbackReturns, ActiveIn, NewsOf
  <1>3. CASE ~NewsOf(t, p)
    BY <1>1, <1>2, <1>3 DEF FollowsAt, Deserves
  <1>4. CASE NewsOf(t, p)
    <2>1. t \notin Services /\ TopicOf[callback.guid] = t /\ callback \in Operation
      BY <1>4, PipeAssumption DEF NewsOf, IgnoredEndpoint, CallbackFits
    <2>2. ~IsEndpointRelevant(callback)
      BY <2>1 DEF IgnoredEndpoint
    <2>3. IF callback.active THEN ActiveIn(t, p) # {callback.guid} ELSE ActiveIn(t, p) # {}
      BY <1>4, <2>2 DEF IsEndpointRelevant, NewsOf, ActiveIn
    <2>4. callback.active => callback.guid \in ActiveIn(t, p)
      BY <1>4 DEF CallbackFits, NewsOf, ActiveIn, IgnoredEndpoint
    <2>5. ~callback.active => callback.kind = "update"
      BY <2>1 DEF CallbackFits, IgnoredEndpoint, Operation
    <2>6. Deserves(t, p) /\ ActiveIn(t, p) # {}
      BY <1>4, <2>3, <2>4, <2>5 DEF Deserves
    <2> QED
      BY <1>1, <1>2, <2>6 DEF FollowsAt, Deserves
  <1> QED
    BY <1>3, <1>4

\* enable, disable and reload know only topics that are known, and open only where there is no
\* bridge.
LEMMA FollowStep ==
  TopicInv /\ QueueInv /\ WritersInv /\ [Next]_vars => WritersFollow'
  <1> SUFFICES ASSUME TopicInv, QueueInv, WritersInv, [Next]_vars PROVE WritersFollow'
    OBVIOUS
  <1> USE DEF WritersInv
  <1>1. CASE Environment /\ UNCHANGED pipeVars
    <2>1. /\ UNCHANGED <<callback, entities, exit>>
          /\ adds' = adds \/ \E g \in Guids : adds' = [adds EXCEPT ![g] = @ + 1]
      BY <1>1 DEF Environment, Discovered, ChangedQos, Removed
    <2>3. \A g \in Guids : adds'[g] <= 1 => adds[g] <= 1
      BY <2>1 DEF AddsInv
    <2>2. \A t \in Topics : AnnouncedOnce(t)' => AnnouncedOnce(t)
      BY <2>3 DEF AnnouncedOnce
    <2> QED
      BY <1>1, <2>1, <2>2, FollowQuiet DEF pipeVars, Watched, Served
  <1>2. CASE Process /\ UNCHANGED pipeVars
    BY <1>2, FollowProcess
  <1>3. CASE Stop /\ UNCHANGED pipeVars
    BY <1>3, FollowQuiet DEF Stop, StopCall, StopJoin, pipeVars, Watched, Served, AnnouncedOnce
  <1>4. ASSUME NEW failed, DiscoveredTopic(failed) PROVE WritersFollow'
    BY <1>4, FollowDiscovered
  <1>5. CASE RemovedTopic
    BY <1>5, FollowRemoved
  <1>6. ASSUME NEW failed, DiscoveredService(failed) PROVE WritersFollow'
    <2> SUFFICES ASSUME removeUnused, ~exit, NEW t \in Topics, Watched(t)' PROVE FollowsAt(t)'
      BY <1>6 DEF WritersFollow, DiscoveredService, CallbackReturns
    <2>1. Watched(t) /\ FollowsAt(t) /\ Served(t)' = Served(t)
      BY <1>6 DEF Watched, AnnouncedOnce, Served, DiscoveredService, CallbackReturns, WritersFollow
    <2>2. \A p : ActiveIn(t, p)' = ActiveIn(t, p) /\ ~NewsOf(t, p) /\ ~NewsOf(t, p)'
      BY <1>6, PipeAssumption DEF DiscoveredService, CallbackReturns, ActiveIn, NewsOf
    <2> QED
      BY <2>1, <2>2 DEF FollowsAt, Deserves
  <1>7. CASE IgnoredEndpoint
    BY <1>7, FollowIgnored
  <1>8. CASE Disable
    <2>1. \A t \in Topics : current'[t] = "unknown" <=> current[t] = "unknown"
      BY <1>8 DEF Disable, Known, TopicInv, TopicShapes
    <2> QED
      BY <1>8, <2>1, FollowQuiet DEF Disable, databaseVars, Watched, Served, AnnouncedOnce
  <1>9. ASSUME NEW failed \in SUBSET MayFail, Enable(failed) PROVE WritersFollow'
    <2>1. \A t \in Topics : current'[t] = "unknown" <=> current[t] = "unknown"
      BY <1>9 DEF Enable, Known, TopicInv, TopicShapes
    <2>2. \A t \in atDiscovery : writers'[t] = writers[t]
      BY <1>9 DEF Enable, WritersIfActivated, WriterShapes
    <2> QED
      BY <1>9, <2>1, <2>2, FollowQuiet DEF Enable, databaseVars, Watched, Served, AnnouncedOnce
  <1>10. ASSUME NEW failed \in SUBSET MayFail, NEW list \in Lists, Reload(list, failed)
         PROVE  WritersFollow'
    <2>1. \A t \in Topics : current'[t] = "unknown" <=> current[t] = "unknown"
      BY <1>10 DEF Reload, Known, TopicInv, TopicShapes
    <2>2. \A t \in atDiscovery : writers'[t] = writers[t]
      BY <1>10 DEF Reload, WritersIfActivated, WriterShapes
    <2> QED
      BY <1>10, <2>1, <2>2, FollowQuiet DEF Reload, databaseVars, Watched, Served, AnnouncedOnce
  <1>11. CASE UNCHANGED vars
    BY <1>11, FollowQuiet DEF vars, databaseVars, pipeVars, Watched, Served, AnnouncedOnce
  <1> QED
    BY <1>1, <1>2, <1>3, <1>4, <1>5, <1>6, <1>7, <1>8, <1>9, <1>10, <1>11
    DEF Next, DatabaseStep, Callback

\* The three together are inductive.
LEMMA WritersStep ==
  TopicInv /\ QueueInv /\ WritersInv /\ [Next]_vars => TopicInv' /\ QueueInv' /\ WritersInv'
  BY TopicStep, QueueStep, AddsStep, WriterShapesStep, CallbackFitsStep, FollowStep DEF WritersInv

\* With remove_unused_entities, once the queue is processed, a bridge has writers exactly in
\* the participants that see a relevant endpoint, if it was created when its topic was
\* discovered and no endpoint came back (DdsPipe.cpp: is_endpoint_relevant_,
\* discovered_topic_nts_, removed_endpoint_; DiscoveryDatabase.cpp: add_endpoint_).
THEOREM WritersFollowReaders == Spec => []WritersMatchReaders
  <1>1. ASSUME TopicInv, QueueInv, WritersInv PROVE WritersMatchReaders
    <2> SUFFICES ASSUME removeUnused, Quiescent, NEW t \in atDiscovery, AnnouncedOnce(t)
                 PROVE  writers[t] = {p \in Participants : Seen(t, p) # {}}
      BY DEF WritersMatchReaders
    <2>1. t \in Topics /\ bridge[t] # "none" /\ writers[t] \subseteq Participants
      BY <1>1 DEF WritersInv, WriterShapes
    <2>2. \A g \in Guids : entities[g] = "active" <=> alive[g]
      <3>1. \A g \in Guids : NoneAbout(g, 1, Len(operations))
        BY DEF NoneAbout, Quiescent
      <3> QED
        BY <1>1, <3>1 DEF QueueInv, Chained, DictionaryTells
    <2>3. \A p : ActiveIn(t, p) = Seen(t, p) /\ ~NewsOf(t, p)
      BY <2>2, PipeAssumption DEF ActiveIn, Seen, NewsOf, Quiescent
    <2>4. \A p \in Participants : p \in Served(t) <=> Seen(t, p) # {}
      BY <1>1, <2>1, <2>3
      DEF WritersInv, WritersFollow, Watched, FollowsAt, Deserves, Quiescent
    <2> QED
      BY <1>1, <2>1, <2>4 DEF Served, TopicInv, BridgedIsKnown
  <1>2. Init => TopicInv /\ QueueInv /\ WritersInv
    BY TopicInit, QueueInit, WritersInit
  <1> QED
    BY <1>1, <1>2, WritersStep, PTL DEF Spec
=============================================================================
