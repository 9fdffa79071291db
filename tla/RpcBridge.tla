------------------------------ MODULE RpcBridge ------------------------------
(***************************************************************************)
(* RpcBridge: one service.  In every RTPS participant the bridge has a     *)
(* proxy server (a reader of requests and a writer of replies) and a proxy *)
(* client (a writer of requests and a reader of replies).  A request that  *)
(* arrives in a participant is written by the proxy clients of the others, *)
(* and each of these remembers it in its ServiceRegistry under the         *)
(* sequence number of the write, to send the reply back where the request  *)
(* came from.                                                              *)
(*                                                                         *)
(* Readers are transmitted by pool threads, several at the same time: they *)
(* share on_transmission_mutex_.  A flag per reader, only touched under    *)
(* the RTPS mutex of that reader, says whether a task of it is queued or   *)
(* running.  Enable, disable and discovery come from DdsPipe, which calls  *)
(* them one at a time.                                                     *)
(***************************************************************************)
EXTENDS Integers, Sequences, FiniteSets

CONSTANTS
  Participants,   \* the RTPS participants
  Repeaters,      \* those whose is_repeater() holds
  Requests,       \* requests the clients may send
  Origin,         \* [Requests -> Participants]: where its client is
  Malformed,      \* requests with SampleIdentity::unknown()
  Threads,        \* threads of the pool
  MaxEntries,     \* ServiceRegistry::DEFAULT_MAX_ENTRIES_
  MaxReplies,     \* bound: replies of the servers, to this client or to others
  MaxSwitches     \* bound: calls of enable and disable that do something

ASSUME ServiceAssumption ==
  /\ IsFiniteSet(Participants) /\ IsFiniteSet(Threads)
  /\ Repeaters \subseteq Participants
  /\ Origin \in [Requests -> Participants] /\ Malformed \subseteq Requests
ASSUME RegistryAssumption == MaxEntries \in Nat /\ MaxEntries > 1
ASSUME BoundsAssumption == MaxReplies \in Nat /\ MaxSwitches \in Nat

VARIABLES
  enabled,      \* Bridge::enabled_
  init,         \* init_: the endpoints exist
  servers,      \* participants with an entry in current_servers_
  registryOn,   \* participants whose ServiceRegistry is enabled
  on,           \* endpoints whose enabled_ is set
  op,           \* the call that holds mutex_: none, or which one
  toVisit,      \* endpoints it has yet to visit
  switches,     \* calls made so far
  history,      \* history[r]: what reader r holds, oldest first
  flag,         \* tasks_map_[r].first
  tasks,        \* tasks of reader r waiting in the pool
  th,           \* what each thread of the pool is doing
  holder,       \* holder[s]: thread with the mutex of the ServiceRegistry of s
  registry,     \* registry_ of s: sequence number |-> where the reply goes
  sent,         \* history: requests written in s and where their replies went
  dropped,      \* history: sequence numbers whose reply found no entry
  asked,        \* requests sent so far
  replies,      \* replies sent so far
  crashed       \* null data was dereferenced

callVars == <<enabled, init, servers, registryOn, on, op, toVisit, switches>>
readerVars == <<history, flag, tasks>>
worldVars == <<asked, replies>>
vars == <<callVars, readerVars, th, holder, registry, sent, dropped, worldVars, crashed>>

RequestReader(p) == <<"request_reader", p>>
ReplyReader(p) == <<"reply_reader", p>>
RequestWriter(p) == <<"request_writer", p>>
ReplyWriter(p) == <<"reply_writer", p>>
Readers == {RequestReader(p) : p \in Participants} \cup {ReplyReader(p) : p \in Participants}
Writers == {RequestWriter(p) : p \in Participants} \cup {ReplyWriter(p) : p \in Participants}

NoThread == "none"
ASSUME ThreadsAssumption == NoThread \notin Threads
ForeignReply == 0   \* a reply to another client; others carry a sequence number
Entries == [to : Participants, req : Requests]
Resting == [pc |-> "idle"]
Reading(t, r) == th[t].pc # "idle" /\ th[t].reader = r

Init ==
  /\ enabled = FALSE /\ init = FALSE /\ servers = {} /\ registryOn = {} /\ on = {}
  /\ op = "none" /\ toVisit = {} /\ switches = 0
  /\ history = [r \in Readers |-> <<>>]
  /\ flag = [r \in Readers |-> FALSE]
  /\ tasks = [r \in Readers |-> 0]
  /\ th = [t \in Threads |-> Resting]
  /\ holder = [s \in Participants |-> NoThread]
  /\ registry = [s \in Participants |-> <<>>]
  /\ sent = [s \in Participants |-> <<>>]
  /\ dropped = [s \in Participants |-> {}]
  /\ asked = {} /\ replies = 0
  /\ crashed = FALSE

-----------------------------------------------------------------------------
\* data_available_, under the RTPS mutex of the reader.

DataAvailable(r) ==
  /\ flag' = [flag EXCEPT ![r] = TRUE]
  /\ tasks' = [tasks EXCEPT ![r] = IF flag[r] THEN @ ELSE @ + 1]

\* What clients and servers send.  A disabled reader keeps it: services are
\* reliable.  Only an enabled one calls back.
Receive(r, m) ==
  /\ init
  /\ history' = [history EXCEPT ![r] = Append(@, m)]
  /\ IF r \in on /\ enabled THEN DataAvailable(r) ELSE UNCHANGED <<flag, tasks>>

ClientAsks(q) ==
  /\ q \notin asked /\ asked' = asked \cup {q}
  /\ Receive(RequestReader(Origin[q]), q)
  /\ UNCHANGED <<callVars, th, holder, registry, sent, dropped, replies, crashed>>

ServerReplies(s, n) ==
  /\ n \in DOMAIN sent[s] \cup {ForeignReply}
  /\ replies < MaxReplies /\ replies' = replies + 1
  /\ Receive(ReplyReader(s), n)
  /\ UNCHANGED <<callVars, th, holder, registry, sent, dropped, asked, crashed>>

-----------------------------------------------------------------------------
\* The calls.

\* discovered_service
Discover(p) ==
  /\ op = "none" /\ p \notin servers
  /\ servers' = servers \cup {p}
  /\ registryOn' = IF init THEN registryOn \cup {p} ELSE registryOn
  /\ UNCHANGED <<enabled, init, on, op, toVisit, switches>>
  /\ UNCHANGED <<readerVars, th, holder, registry, sent, dropped, worldVars, crashed>>

\* enable, up to the assignment of enabled_; init_nts_ the first time.
EnableCall ==
  /\ op = "none" /\ ~enabled /\ servers # {} /\ switches < MaxSwitches
  /\ init' = TRUE
  /\ registryOn' = IF init THEN registryOn ELSE servers
  /\ enabled' = TRUE
  /\ op' = "enable" /\ toVisit' = Readers \cup Writers /\ switches' = switches + 1
  /\ UNCHANGED <<servers, on>>
  /\ UNCHANGED <<readerVars, th, holder, registry, sent, dropped, worldVars, crashed>>

\* The order of the loops of enable.  Mutant: the readers first.
EnableOrderMutant == <<"reply_reader", "request_reader", "request_writer", "reply_writer">>
EnableOrder == <<"request_writer", "reply_writer", "reply_reader", "request_reader">>
DisableOrder == <<"request_reader", "reply_reader", "reply_writer", "request_writer">>

\* Endpoints that the loops come to next.
NextOf(order) ==
  {e \in toVisit : \E i \in 1..4 : order[i] = e[1] /\
                     \A f \in toVisit, j \in 1..4 : order[j] = f[1] => i <= j}

VisitedOne(e) ==
  /\ toVisit' = toVisit \ {e}
  /\ op' = IF toVisit = {e} THEN "none" ELSE op

\* CommonReader::enable_nts_ calls back for what came while it was disabled.
\* Mutant: it does not.
NotifiesOnEnableMutant(e) == FALSE
NotifiesOnEnable(e) == e \in Readers

EnableStep ==
  /\ op = "enable"
  /\ \E e \in NextOf(EnableOrder) :
       /\ VisitedOne(e)
       /\ on' = on \cup {e}
       /\ IF NotifiesOnEnable(e) THEN DataAvailable(e) ELSE UNCHANGED <<flag, tasks>>
  /\ UNCHANGED <<enabled, init, servers, registryOn, switches, history>>
  /\ UNCHANGED <<th, holder, registry, sent, dropped, worldVars, crashed>>

DisableCall ==
  /\ op = "none" /\ enabled /\ switches < MaxSwitches
  /\ enabled' = FALSE /\ op' = "wait" /\ switches' = switches + 1
  /\ UNCHANGED <<init, servers, registryOn, on, toVisit>>
  /\ UNCHANGED <<readerVars, th, holder, registry, sent, dropped, worldVars, crashed>>

\* The unique lock of on_transmission_mutex_: no thread is inside transmit_.
DisableWait ==
  /\ op = "wait" /\ \A t \in Threads : th[t].pc = "idle"
  /\ op' = "disable" /\ toVisit' = Readers \cup Writers
  /\ UNCHANGED <<enabled, init, servers, registryOn, on, switches>>
  /\ UNCHANGED <<readerVars, th, holder, registry, sent, dropped, worldVars, crashed>>

DisableStep ==
  /\ op = "disable"
  /\ \E e \in NextOf(DisableOrder) : VisitedOne(e) /\ on' = on \ {e}
  /\ UNCHANGED <<enabled, init, servers, registryOn, switches>>
  /\ UNCHANGED <<readerVars, th, holder, registry, sent, dropped, worldVars, crashed>>

-----------------------------------------------------------------------------
\* transmit_: the loop.

Become(t, state) == th' = [th EXCEPT ![t] = state]
AtLoop(r) == [pc |-> "loop", reader |-> r]

StartTask(t, r) ==
  /\ th[t].pc = "idle" /\ tasks[r] > 0
  /\ tasks' = [tasks EXCEPT ![r] = @ - 1]
  /\ Become(t, AtLoop(r))
  /\ UNCHANGED <<callVars, history, flag, holder, registry, sent, dropped, worldVars, crashed>>

\* tasks_map_ at the end of a transmission.  Mutant: a disabled bridge keeps it.
FlagAfterMutant(r) == ~enabled
FlagAfter(r) == FALSE

\* The test at the top of the loop, under the RTPS mutex.
Finish(t) ==
  /\ th[t].pc = "loop"
  /\ LET r == th[t].reader IN
       /\ ~enabled \/ history[r] = <<>>
       /\ flag' = [flag EXCEPT ![r] = FlagAfter(r)]
  /\ Become(t, Resting)
  /\ UNCHANGED <<callVars, history, tasks, holder, registry, sent, dropped, worldVars, crashed>>

\* What becomes of a thread that took m from r.
Taken(r, m) ==
  CASE r[1] = "request_reader" /\ m \notin Malformed ->
         [pc |-> "route", reader |-> r, data |-> m, todo |-> Participants]
    [] r[1] = "reply_reader" /\ m # ForeignReply -> [pc |-> "get", reader |-> r, data |-> m]
    [] OTHER -> AtLoop(r)

\* Only an enabling of the reader may come between the test and the take.
MayTake(t) == th[t].pc = "loop" /\ enabled /\ history[th[t].reader] # <<>>

Take(t) ==
  /\ MayTake(t)
  /\ LET r == th[t].reader IN
       /\ r \in on
       /\ history' = [history EXCEPT ![r] = Tail(@)]
       /\ Become(t, Taken(r, Head(history[r])))
  /\ UNCHANGED <<callVars, flag, tasks, holder, registry, sent, dropped, worldVars, crashed>>

\* take fails on a disabled reader and leaves data null; the cast dereferences it
\* before the return code is looked at.
TakeFails(t) ==
  /\ MayTake(t) /\ th[t].reader \notin on
  /\ crashed' = TRUE
  /\ UNCHANGED <<callVars, readerVars, th, holder, registry, sent, dropped, worldVars>>

-----------------------------------------------------------------------------
\* transmit_: a request visits the registries.

Routing(r, q, todo) ==
  IF todo = {} THEN AtLoop(r) ELSE [pc |-> "route", reader |-> r, data |-> q, todo |-> todo]

\* Not back to the participant it came from, unless a repeater, nor to one
\* without servers.
Skipped(p, s) == (p = s /\ s \notin Repeaters) \/ s \notin registryOn

Skip(t, s) ==
  /\ th[t].pc = "route" /\ s \in th[t].todo /\ Skipped(th[t].reader[2], s)
  /\ Become(t, Routing(th[t].reader, th[t].data, th[t].todo \ {s}))
  /\ UNCHANGED <<callVars, readerVars, holder, registry, sent, dropped, worldVars, crashed>>

RegistryFree(s) == holder[s] = NoThread

\* The mutex of the registry is taken and the request is written.
WriteRequest(t, s) ==
  /\ th[t].pc = "route" /\ s \in th[t].todo /\ ~Skipped(th[t].reader[2], s)
  /\ RegistryFree(s)
  /\ IF RequestWriter(s) \in on
       THEN /\ sent' = [sent EXCEPT ![s] =
                 Append(@, [req |-> th[t].data, got |-> <<>>])]
            /\ holder' = [holder EXCEPT ![s] = t]
            /\ Become(t, [pc |-> "add", reader |-> th[t].reader, data |-> th[t].data,
                           todo |-> th[t].todo \ {s}, in |-> s, sn |-> Len(sent[s]) + 1])
       ELSE /\ Become(t, Routing(th[t].reader, th[t].data, th[t].todo \ {s}))
            /\ UNCHANGED <<sent, holder>>
  /\ UNCHANGED <<callVars, readerVars, registry, dropped, worldVars, crashed>>

\* ServiceRegistry::add: the oldest entry goes when the registry is full.
\* Mutant: it never goes.
InsertMutant(reg, n, entry) ==
  [k \in DOMAIN reg \cup {n} |-> IF k \in DOMAIN reg THEN reg[k] ELSE entry]
Insert(reg, n, entry) ==
  LET full == [k \in DOMAIN reg \cup {n} |-> IF k \in DOMAIN reg THEN reg[k] ELSE entry]
      young == {k \in DOMAIN full : \E j \in DOMAIN full : j < k}
  IN  IF n \notin DOMAIN reg /\ Cardinality(DOMAIN full) = MaxEntries
        THEN [k \in young |-> full[k]] ELSE full

\* The entry is added and the mutex of the registry released.
Add(t) ==
  /\ th[t].pc = "add"
  /\ LET s == th[t].in
         entry == [to |-> th[t].reader[2], req |-> th[t].data]
     IN  /\ registry' = [registry EXCEPT ![s] = Insert(@, th[t].sn, entry)]
         /\ holder' = [holder EXCEPT ![s] = NoThread]
  /\ Become(t, Routing(th[t].reader, th[t].data, th[t].todo))
  /\ UNCHANGED <<callVars, readerVars, sent, dropped, worldVars, crashed>>

-----------------------------------------------------------------------------
\* transmit_: a reply goes back to its client.

\* The guard of get_mutex around get.  Mutant: get does not wait for the writer
\* of the request.
MayGetMutant(s) == TRUE
MayGet(s) == RegistryFree(s)

Get(t) ==
  /\ th[t].pc = "get"
  /\ LET s == th[t].reader[2]
         n == th[t].data
     IN  /\ MayGet(s)
         /\ IF n \in DOMAIN registry[s]
              THEN /\ Become(t, [pc |-> "answer", reader |-> th[t].reader, data |-> n,
                                 entry |-> registry[s][n]])
                   /\ UNCHANGED dropped
              ELSE /\ Become(t, AtLoop(th[t].reader))
                   /\ dropped' = [dropped EXCEPT ![s] = @ \cup {n}]
  /\ UNCHANGED <<callVars, readerVars, holder, registry, sent, worldVars, crashed>>

\* The reply is written where the entry says; the entry stays when that fails.
Answer(t) ==
  /\ th[t].pc = "answer"
  /\ LET s == th[t].reader[2] IN
       IF ReplyWriter(th[t].entry.to) \in on
         THEN /\ sent' = [sent EXCEPT ![s][th[t].data].got = Append(@, th[t].entry)]
              /\ Become(t, [th[t] EXCEPT !.pc = "erase"])
         ELSE Become(t, AtLoop(th[t].reader)) /\ UNCHANGED sent
  /\ UNCHANGED <<callVars, readerVars, holder, registry, dropped, worldVars, crashed>>

\* ServiceRegistry::erase.  Mutant: the entry stays.
WithoutMutant(reg, n) == reg
Without(reg, n) == [k \in DOMAIN reg \ {n} |-> reg[k]]

Erase(t) ==
  /\ th[t].pc = "erase"
  /\ LET s == th[t].reader[2] IN
       RegistryFree(s) /\ registry' = [registry EXCEPT ![s] = Without(@, th[t].data)]
  /\ Become(t, AtLoop(th[t].reader))
  /\ UNCHANGED <<callVars, readerVars, holder, sent, dropped, worldVars, crashed>>

-----------------------------------------------------------------------------

World ==
  \/ \E q \in Requests : ClientAsks(q)
  \/ \E s \in Participants : \E n \in DOMAIN sent[s] \cup {ForeignReply} : ServerReplies(s, n)
Calls ==
  \/ \E p \in Participants : Discover(p)
  \/ EnableCall \/ EnableStep \/ DisableCall \/ DisableWait \/ DisableStep
Running(t) ==
  \/ \E r \in Readers : StartTask(t, r)
  \/ Finish(t) \/ Take(t) \/ TakeFails(t)
  \/ (\E s \in Participants : Skip(t, s) \/ WriteRequest(t, s)) \/ Add(t)
  \/ Get(t) \/ Answer(t) \/ Erase(t)

\* The process ends when it dereferences null.
Next == ~crashed /\ (World \/ Calls \/ \E t \in Threads : Running(t))

Spec == Init /\ [][Next]_vars

-----------------------------------------------------------------------------
\* Properties.

\* The shapes of the state; no registry is left full (ServiceRegistry.cpp:81).
TypeOK ==
  /\ enabled \in BOOLEAN /\ init \in BOOLEAN /\ crashed \in BOOLEAN
  /\ servers \subseteq Participants /\ registryOn \subseteq servers
  /\ on \subseteq Readers \cup Writers /\ toVisit \subseteq Readers \cup Writers
  /\ op \in {"none", "enable", "wait", "disable"} /\ switches \in 0..MaxSwitches
  /\ \A r \in Readers : tasks[r] \in Nat /\ flag[r] \in BOOLEAN
  /\ \A s \in Participants :
       /\ DOMAIN registry[s] \subseteq DOMAIN sent[s] /\ Cardinality(DOMAIN registry[s]) < MaxEntries
       /\ \A n \in DOMAIN registry[s] : registry[s][n] \in Entries

\* The flag of a reader stands for exactly one task of it, queued or running; and
\* an enabled reader with data has one, however callbacks, the ends of
\* transmissions, and a disable and enable in between are ordered.
Running1(r) == Cardinality({t \in Threads : Reading(t, r)})
NoLostWakeup ==
  \A r \in Readers :
    /\ tasks[r] + Running1(r) = IF flag[r] THEN 1 ELSE 0
    /\ enabled /\ r \in on /\ history[r] # <<>> => flag[r]

\* A request gets one reply through each proxy client that forwarded it, it is the
\* reply to that request, and it goes to the participant whose client asked, which
\* is another one unless it is a repeater.
RepliesGoToAsker ==
  \A s \in Participants : \A n \in DOMAIN sent[s] :
    LET x == sent[s][n] IN
      /\ Len(x.got) <= 1
      /\ \A i \in DOMAIN x.got : x.got[i] = [to |-> Origin[x.req], req |-> x.req]
      /\ Origin[x.req] = s => s \in Repeaters

\* A reply to a request of this bridge is only dropped when the request has been
\* answered, or when so many requests followed that its entry was evicted: the
\* reply never overtakes the entry, since write and add share the mutex
\* ("avoid reply processed before entry added to registry").
RepliesFindTheirEntry ==
  \A s \in Participants : \A n \in dropped[s] :
    sent[s][n].got # <<>> \/ Len(sent[s]) >= n + MaxEntries - 1

\* While a thread routes a sample every writer is enabled, which is why enable
\* starts with the writers and disable waits for transmissions and ends with them.
WritersMeetEnabledWriters ==
  \A t \in Threads : th[t].pc \in {"route", "add", "get", "answer"} => Writers \subseteq on

=============================================================================
