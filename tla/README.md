# DDS Proxy in TLA+

A DDS Proxy joins several DDS networks. Each network is entered by a *participant*; for every topic the proxy
discovers it reads the samples of each participant and writes them in the others. This directory holds a
specification of the part of it that is hard to test: the threads that meet in a track, the pool they run on, the
discovery database, the pipe that creates, enables and disables bridges, services and their registries, the payloads
that readers and writers share, the failover between a master and a slave proxy, and how the process stops.

Paths below are relative to `src/`; `core` stands for `ddspipe/ddspipe_core`, `parts` for
`ddspipe/ddspipe_participants`, `utils` for `dev-utils/cpp_utils`.

## 1. The system

| component | state | operations | module |
|---|---|---|---|
| `Track` (`core/.../communication/dds/Track.cpp`) | `enabled_`, `exit_`, `data_available_status_`, `writers_`, two mutexes | enable, disable, add/remove/has writer, data callback, `transmit_`, destructor | `Track`, `Forwarder` |
| readers, writers (`parts/src/cpp/reader`, `writer`) | `enabled_`, callback, history of samples | enable, disable, take, write, reception | inside `Track` |
| `SlotThreadPool` and wait handlers (`utils`) | two double queues, their counters, slots, threads | emit, consume, enable, disable | `SlotThreadPool` |
| `DiscoveryDatabase` (`core/.../dynamic`) | operations queue, dictionary of endpoints, callbacks | add, update, callbacks, start, stop | `DiscoveryDatabase` |
| `DdsPipe` (`core/.../core`) | `current_topics_`, `current_services_`, bridges, allowed list, `enabled_` | enable, disable, reload, discovered/updated/removed endpoint | `DdsPipe` |
| `DdsBridge` (`core/.../communication/dds`) | tracks, routes, `enabled_` | create/remove writer, enable, disable | `DdsBridge` |
| `RpcBridge`, `ServiceRegistry` (`core/.../communication/rpc`) | `init_`, `current_servers_`, `tasks_map_`, pending requests | enable, disable, discovered service, data callback, `transmit_`, add, get, erase | `RpcBridge`; the flag and the servers in `DdsPipe` |
| `FastPayloadPool`, `MapPayloadPool` (`core/.../efficiency/payload`) | reference count of each payload, map, mutex | get (new, shared), release | `PayloadPool` |
| keep-alive publisher and subscriber (`ddsproxy/ddsproxy_main/src/cpp/keep_alived`) | `master_flag`, `heartbeat_arrived`, `force_exit` | publish, sleep, promote, choose | `KeepAlive`; the outcome in `Track` |
| `main`, event handlers (`ddsproxy/ddsproxy_main`, `utils/.../event`, `dev-utils/thirdparty/filewatch`) | callbacks set, mutexes, threads, count of events, changes of the file | event, set, unset, wait, reload, stop | `ProcessEvents` |
| `AllowedTopicList` and filters (`core/.../dynamic`, `types/topic/filter`) | two sets of filters | is a topic, is a service allowed | `AllowedTopicList` |
| participants database, YAML, XML, types, utilities | constant or stateless | | see section 8 |

How they interact:

- A participant's discovery callback (a Fast DDS thread) pushes an operation into the database's queue. One database
  thread applies it and calls `DdsPipe`, which takes its `mutex_`, and creates or changes a bridge.
- A bridge holds one track for each participant that reads, and one writer object for each participant that is
  written to; **all the tracks share the writer objects**.
- When a sample arrives, the reader's listener runs `Track::data_available_`, which may emit the track's task to the
  pool; a pool thread runs `Track::transmit_`, which takes samples until there is none.
- A service is an `RpcBridge`: a request read in one participant is written in the others, and each remembers in its
  registry, under the number of that write, where the reply has to go.
- A payload taken from a reader is shared, never copied, by the data in transit and the histories of all the writers; the
  pool counts its holders.
- `main` enables and disables; the file watcher and a timer reload the configuration, also before `start()`; the
  keep-alive thread sets the global `master_flag`, which `transmit_` reads on each turn. `main` resets the handlers that
  reload before it stops the proxy.

What makes each component correct:

- `Track`: no sample is stranded although listener and transmission share no lock; a disabled track is quiet, and no
  transmission meets a disabled end; order is kept; nothing is forwarded on standby; calls return.
- pool: counters and queues agree; every emit is executed once; no thread is lost to the wrong queue; disable joins.
- database: operations are never refused, the dictionary catches up with what participants saw.
- pipe: what is forwarded is what the current list allows, whatever the order of the calls; writers are where the
  readers are.
- bridge: tracks follow the routes; one writer for each participant; a transmission never has a writer pulled away.
- service: one task for each reader with data; a reply goes once, to who asked; it is not lost while its entry is due.
- payload pool: a payload is freed when, and only when, its last holder lets it go.
- failover: one master at a time, and never long without one.
- stop: no reload after the stop, no callback of a destroyed handler, and no thread that `main` waits for without end.

The hazards of this code, each with the line where it bites and the properties that watch it, are in `PROJECT.json`.

## 2. Modules

| module | what it is |
|---|---|
| `Track` | one track with its reader, its writers, the pool's threads, and the threads that call it |
| `TrackTraffic` | a track under traffic that need not pause; which calls return then |
| `Forwarder` | what a track promises, with no thread in it |
| `TrackForwarder` | the refinement mapping of `Track` to `Forwarder` |
| `TrackProofs` | theorems of `Track`; the refinement; the order a forwarder keeps |
| `SlotThreadPool` | the pool, down to counter, queue and condition variable |
| `SlotThreadPoolProofs` | its theorems |
| `DiscoveryDatabase` | queue, dictionary and callbacks; has no specification of its own, `DdsPipe` extends it |
| `AllowedTopicList` | the filters of a list and what they let through; operators only, `DdsPipe` extends it |
| `DdsPipe` | the database and the lists composed with the pipe |
| `DdsPipeProofs` | its theorems |
| `DdsBridge` | the tracks of one topic and the writers they share |
| `DdsBridgeProofs` | its theorems |
| `RpcBridge` | one service: its readers, its calls and a registry for each participant |
| `RpcBridgeProofs` | its theorems |
| `PayloadPool` | both pools with the reader, the transmission and the writers that hold payloads |
| `PayloadPoolProofs` | its theorems |
| `KeepAlive` | proxies that are master or slave, heartbeats, and time |
| `KeepAliveProofs` | its theorems |
| `ProcessEvents` | `main`, the handlers it owns, and the threads that call them |
| `ProcessEventsProofs` | its theorems |
| `MC*` | constants of the runs |

### Track
A step is one atomic operation, one lock, or one turn of a loop; `pc` says where each thread is (`tx_*` in `transmit_`,
`en_*`, `dis_*`, `add_*`, `rem_*`, `dtor_*` in the calls, `cb_*` in `data_available_`, which the listener runs, and which a
caller runs too when `BaseReader::enable` notifies). `track_mutex_`, `on_transmission_mutex_`, the reader's mutex and its
RTPS mutex are variables that name their holder. `status` is the unsigned `data_available_status_`, so it wraps modulo
`UIntMod`. `kind` is the kind of the reader: *reliable* readers keep what arrives while disabled and notify on enable,
*best-effort* ones drop it and do not notify, *internal* ones always keep and notify. Samples are numbered; `out[p]` is what
participant `p` was given. `Take` is one step: `BaseReader::take` holds the reader's mutex, and the read of the count and of
the history under it can only be overtaken by another arrival, whose callback comes later. `Promote` is the keep-alive
thread. `out` is what the track hands to an enabled writer: what the writer then does with it (`BaseWriter::write` drops
what exceeds `max_tx_rate`, a send may fail, which the track logs and passes over) is below it. The writers are the track's
alone; that another track of the bridge may disable a shared one is finding 8. The state of a destroyed track stays
readable, for tasks that are left in the pool (finding 5).

`TrackTraffic` takes the end from the traffic. In `Track` samples are numbered up to `MaxSamples`, after which none comes,
and a loop that goes on while there is data ends with them. `Renumber`, which is no step of the program, begins the numbers
again whenever no sample is held, so that the remote side may send for ever.

### Forwarder
A sample arrives, waits, gets its turn, and is given to each destination; or it is lost when it is damaged or nobody wants
it. The forwarder closes, and its destinations change, only between two samples. `TrackForwarder` maps a track: `open` is
the flag of the track on the master, and stays so while `disable` waits for the transmission mutex; a sample has its turn
while a thread is at `tx_write`, and `owed` is what remains of that thread's loop over the writers.

### SlotThreadPool
`produce` is two steps (`Push`, then `Count`) and `consume` too (`Consume`, then `PopTask`), because queue and counter have
separate mutexes. A thread is choosing, about to take a handler's mutex, blocked, notified, about to pop, or running.
`Timeout` is the millisecond `thread_routine_` gives to queue 1. Spurious wake-ups add nothing: the predicate is
evaluated again.

### DiscoveryDatabase and DdsPipe
Discovery reports an endpoint as new, changed or removed, in order for each endpoint. `Process` applies one operation and
hands the event to `callback`; `DdsPipe` answers with one step under its `mutex_`, and other operations may come in between.
A bridge is seen as its flag and the set of participants with a writer. `Reload` takes any of the lists: two sets of
filters, of which `IsTopicAllowed` and `IsServiceAllowed` decide; a service passes with its request and its reply topic.
`atDiscovery` is history: it names the bridges created by the discovery of their topic. Creating a reader or writer may
fail, for the names of `MayFail`: each step that creates bridges or the endpoints of services takes the set of those that
fail now (`failed`). The pipe swallows the exception: a topic is then active with no bridge, until the next `enable` or
discovery tries again; a service keeps its flag and its `RpcBridge` stays off (`rpcInit`). The bridges of builtin topics are
created, or not, by the constructor (`Init`). That `reload` first copies the master flag into every bridge is left out:
nothing reads it there, and the race of that loop (finding 12) is on the container.

### DdsBridge
An operation holds `mutex_` (`op`) and visits tracks one by one (`todo`), in any order; meanwhile every track takes and
sends. Writer objects are numbered per participant, since `create_writer` makes a new one each time and a track may keep the
old one. `live` is history. That a track's `enable` and `add_writer` are one step here rests on `Track`: the writers are
ready before the reader is, and `writers_` only changes with the transmission mutex held.

### RpcBridge
Each participant has four endpoints: the reader of requests and the writer of replies of its proxy server, the writer of
requests and the reader of replies of its proxy client. `op` is the call in progress, and `toVisit` the endpoints its loops
have yet to come to. `tasks_map_` is `flag`; `tasks` are those the pool holds. `transmit_` holds `on_transmission_mutex_`
shared, so `DisableWait` waits until every thread is idle. `WriteRequest` and `Add` are two steps under the mutex of a
registry, which `Get` waits for. `TakeFails` is the take on a reader that is not enabled yet; the process ends there
(section 6). `sent` and `dropped` are history.

### PayloadPool
A *get* or *release* is one step or two, as the code's atomics and mutex divide it: `FastPayloadPool` decrements (`Release`)
and reads again (`TestCounter`); `MapPayloadPool` allocates before it takes its mutex (`Insert`) and frees before it erases
the entry (`Erase`). The holders are the reader's history (`unread`), the data in transit, the change being written, and the
histories. An acknowledgement releases in a thread of its own for each writer (`Acknowledged`), while a full history
releases in the transmission's (`MakeRoom`), under the mutex of that history. A service releases the payload itself, and the
destructor of the data must then leave it alone. Touching freed memory ends a behaviour. `free` and `++release_count_` are
one step, as are `malloc` and `++reserve_count_`: only `is_clean` reads the two counters, when no thread is left.

### KeepAlive
Time is discrete. `Tick` passes when no thread has something to do, no sleep has lasted `Late` ticks too long, no heartbeat
is `MaxDelay` old, and endpoints that exist have matched within `MaxDiscovery`. The subscriber's test and reset of
`heartbeat_arrived` are two steps. Proxies stop, crash (what they sent may be lost) and start again as slaves of a master
that serves: this is how they are meant to be operated, not something the code enforces. `init()` of publisher and
subscriber is assumed to succeed; a master whose publisher cannot be created would serve in silence, and try again.

### ProcessEvents
`Script` is `main` after the handlers exist: wait, reset what reloads, join the keep-alive thread, stop the proxy, destroy
the rest. Resetting a handler is a few steps: the flag under `internal_callback_mutex_` (`inner`), the source under its own
mutex (`outer`), in a file watcher the notification, the join. A thread that calls back holds `outer` (a timer or the signal
thread) and then `inner`. A signal is counted and notified in two steps, without a mutex, as in `SignalManager`.

A file watcher has the two threads of `FileWatch.hpp`: one tests `_destory`, reads what happened in the folder (`inbox`,
which the system merges), puts what concerns the file into `_callback_information` (`info`) and notifies (`WatchLoop`,
`WatchRead`, `WatchNotify`); the other tests `_destory`, tests its predicate under `_callback_mutex`, falls asleep, which
frees the mutex, and calls back for each change of the `batch` (`CallbackThread`). `destroy` is `ResetSource` (the flag, and
the watch removed, which the reader finds as one more event), `ResetNotifies` and the two joins; neither flag nor
notification is under the mutex. The folder is assumed to stay: removing it would end the watch, and the thread that reads
would wait for nothing.

## 3. Runs

| run | bounds | question |
|---|---|---|
| `track` | 2 pool threads, 1 caller, 2 destinations, 2 samples, 2 writers, all reader kinds | safety of every interleaving; a track is a forwarder |
| `track_traffic` | 2 pool threads, 1 caller, 1 destination, samples for ever (one at a time), reliable and internal readers | samples are taken; calls return on a busy master |
| `pool` | 2 threads, 2 emitters, 3 tasks (two on queue 0, one on queue 1), one of them emitted twice | counters, execution, disable |
| `pipe` | 1 topic, 3 readers behind 2 participants, 1 service, 4 lists, 3 enable/disable/reload, each endpoint once, creations that fail at any time | who is forwarded |
| `pipe_live` | a plain and a builtin topic, one reader each, each announced twice; the builtin one's bridge may fail | database, liveness |
| `bridge` | 3 participants: no route, a route, a repeater; 2 writers each | tracks and shared writers |
| `rpc` | 2 participants, one a repeater, 2 threads, 2 requests, registries that 2 entries fill, 2 replies, 3 switches | wake-ups, routing of replies, eviction |
| `payload` | both pools, 3 writers of depth 2, 4 addresses, 2 unread changes | counts, leaks, addresses used again |
| `failover` | 2 proxies, heartbeat 1, interval 5, lateness, delay and discovery 1, 4 stops or crashes | one master, soon |
| `events` | watcher that reloads; a signal and a timeout that close; 1 signal, 2 changes of the file that wait | order of the stop, its end |
| `track_standby`, `payload_fast` | small; violations | section 6 |

Why the bounds are enough. A race in a track needs a sample that arrives while another is being handled and a second task of
the same track: two samples, two threads. `UIntMod = 8` is above any value the status takes without wrapping and small
enough that a wrap is seen. `MaxQueued = 0` lets `enable` start only when no task waits: every switch of a track can leave
one more redundant task, and the bound keeps the queue finite without hiding that a *running* task crosses an enable. Three
participants are the least with a reader routed elsewhere and a repeater; two writers per participant are a removal and a
return. Three toggles are enable, reload, and a disable or a second reload. In `pipe_live` two pending operations are an
event that is handled while the next is waiting; in `pipe` one is enough, as the dictionary the callbacks look at does not
depend on what is queued. In `pipe` the topic and the service may fail, in `pipe_live` the builtin topic. The four lists let
through everything, the topic alone (a blocklist that matches one half of the service), the service alone, and nothing. A
registry evicts when an entry makes it full, so with `MaxEntries = 2` the second request of a participant already evicts the
first. Two replies are a reply and its duplicate, or two replies in the wrong order. Three switches are enable, disable and
enable with a task of before still in the pool. Three writers of depth 2 make two acknowledgements overlap each other and
the eviction of the transmission; with four addresses one is given again while the others are held. In `failover` the
interval is the least that the bounds of time allow: 5 = discovery 1 + (heartbeat 1 + lateness 1) + delay 1 + 1; with 4, TLC
finds two masters, and with a `FailoverTime` less by one it finds a standby that waits longer. Four ends are a crash of each
proxy and of its successor. In `track_traffic` one sample at a time is enough to keep a loop busy: the next may come as soon
as the last was taken; best-effort readers wait for no lock the others do not wait for. A track without writers stands for a
damaged sample (`BadSamples`, empty in the runs): `transmit_` takes it and gives it to nobody. In `events` one of the two
signals of `main` is enough, as each has a thread and a mutex of its own and they are reset alike; the timer that reloads
is left out, being reset as the timeout is (the two safety properties are proved for any handlers). Two changes that wait make
a batch of two, of which the second is called back after the first.

`CHECK_DEADLOCK FALSE` is in every configuration: with the environment's bounds used up, a proxy with nothing to do rests.

### What the properties say
`NoLostWakeup` and `DataIsForwarded` are about the lock-free protocol of `data_available_status_`; best-effort readers are
excepted since their `enable` does not notify: a sample that arrives between the test of `enabled_` and its removal stays
until the next. `WritersReadyWhileWriting` and `QuietWhenDisabled` are about the order inside `enable` and `disable`.
`CounterMatchesQueue` is the exact relation between a queue and its counter at every moment. `SomeThreadServesBothQueues`
answers the doubt that `thread_routine_`'s unlocked test raises. `OperationsFit` says that nobody needs the
`InconsistencyException` the database catches. `TopicsFollowAllowedList` and `ServicesFollowTheirFlag` tie five pieces of
code that switch bridges. `WritersMatchReaders` is what *remove-unused-entities* gives, with the two provisos that
the findings below show to be needed. `OneWriterPerParticipant`, `TracksFollowRoutes` and `SampleVisitsHeldWriters`
are about writers shared by tracks. `ImplementsForwarder` is order, at most once, all the destinations of the moment and
nothing cut short, in one property. `NoLostWakeup` of `RpcBridge` is an equation: the flag of a reader counts its tasks.
`RepliesFindTheirEntry` says of a reply that finds no entry that its request was answered before, or evicted.
`HoldersOwnTheirBlock` and `MapNeverThrows` matter because `MapPayloadPool` frees a block before it forgets its address.
`AtMostOneMaster` allows a heartbeat to be forgotten between test and reset.

`CallsReturn` is about a master whose reader is never empty, for which `transmit_` holds `on_transmission_mutex_` without
end: `enable`, `disable` and the destructor return because `disable` lowers `enabled_` before it asks for that mutex,
`add_writer` and `remove_writer` only once the traffic ends, against the comment over the loop (finding 3). A call begins
there when it holds `track_mutex_`, and in `DisableReturns` of the bridge when it holds the bridge's `mutex_`: a disable
behind an `add_writer` that is blocked waits as long as that one does. `ShutdownCompletes` is freedom from a deadlock of two
mutexes and a join, which the order in `unset_callback` avoids. It starts from reloads that return (findings 1, 3 and 11 say
when one does not), and excepts exactly the state in which the callback thread of the file watcher slept through `destroy`
(finding 4): nothing else keeps `main` from ending. `TopicIsBridged` excepts a bridge whose creation failed.

Every property of a passing run has a mutant in `PROJECT.json`: a plausible bug in a definition (an operator `...Mutant`
in the same module) with which TLC finds the property violated.

## 4. Fairness

`Track!FairSpec`: the operating system runs every thread that can run (weak fairness of each pool thread, of the callback,
and of each started call). The environment may stop sending, calling or promoting at any time. `DataIsForwarded` assumes in
its statement that the track ends up enabled on the master. `SlotThreadPool!FairSpec`: the same, and time passes (a wait of
a millisecond ends). `DdsPipe!FairSpec`: the database thread runs. `DdsBridge!FairSpec`: the holder of the mutex runs and a
write returns; nothing is assumed of `Take`, so traffic may never pause. `TrackTraffic!TrafficSpec`: the threads run, and
one that waits for a lock which is free again and again gets it in the end (strong fairness). `std::mutex` does not promise
that, but schedulers give it, and it makes `CallsReturn` about locks that are never let go, not about starvation.
`ProcessEvents!FairSpec`: every thread runs, both of a watcher, and timers fire; no signal and no change of the folder need
come, and no reload need return; `main` gets a lock that is free again and again (strong fairness: a timer takes its mutex
in every period, and rests for the whole period in between). The properties of `RpcBridge`, `PayloadPool` and `KeepAlive`
are safety (failover in time is, since time is a variable), and hold without fairness.

## 5. Proofs

TLAPS proves every invariant that a passing run checks, the action property `NoForwardWhileOff` and the refinement of
`Forwarder`, for all values of the constants that satisfy the assumptions of their modules. TLC evaluates those assumptions
in every run. Each inductive invariant was checked by TLC, on the instance of a run of its component, before it was proved.
The bounds that keep a run finite (samples, switches, emits, signals, ends) are constants too, so the theorems hold for all
of them.

### Track
`TrackProofs`, for any number of threads, callers, participants, samples and writers:

| theorem | property |
|---|---|
| `TypeCorrect` | `TypeOK` |
| `Invariant` | `IInv` |
| `WritersReady` | `WritersReadyWhileWriting` |
| `DisabledIsQuiet` | `QuietWhenDisabled` |
| `NothingForwardedWhileOff` | `NoForwardWhileOff` |
| `NoWakeupIsLost` | `NoLostWakeup` |

They rest on `ThreadsAssumption` (the three kinds of threads are distinct) and `BoundsAssumption`. The argument: that a
thread which writes finds its writers enabled is not inductive. It holds because (a) a thread is in the loop exactly while
it holds the transmission mutex, and a caller is inside a call exactly while it holds the track mutex (`MutexesHeld`), so at
most one of each; (b) through `enable` the flag is up and the writers done so far are enabled (`EnableOrder`); (c) through
`disable` the flag is down, and the reader is off before any writer (`DisableOrder`); (d) an enabled reader implies enabled
writers, and an enabled track unless `disable` has not come to the reader yet (`ReaderOrder`); (e) once `disable` is past
the transmission mutex no thread is beyond the loop's test (`LoopStopped`). `MasterLoop` adds that a thread beyond the
standby check is on a master. `IInv` is their conjunction; one lemma per part shows that each action preserves it.

Wake-ups need `WakeInv` besides, about what listener and `transmit_` agree on through the atomic counter alone. A status
other than *no more data* promises a task that is queued or running (`RaisedMeansTask`). A status of *no more data* promises
that there is nothing to take or that somebody is about to announce it (`LoweredMeansSeen`), and so does the last look of a
thread that found the reader empty: if data came after, the counter it is about to lower tells (`LastLookHolds`). The
counter is bounded by what was announced (`CounterBounded`), or a thread could take one that went round for one nobody
touched; hence `CounterAssumption`, `2 * MaxSamples + 3 < UIntMod`, which for 32 bits fails after some 2^31 announcements
within one transmission. `ReaderStates`, `CallbackHolds` and `DyingOff` are what it needs to know of `enable` and of the
destructor.

### Track implements Forwarder
Also in `TrackProofs`:

| theorem | what |
|---|---|
| `Refinement` | `ImplementsForwarder`: initial states map to initial states, every step to a step or a stutter |
| `OrderKept` | a forwarder gives each participant the samples in the order they arrived, none twice |
| `TrackKeepsOrder` | so does a track, by the two theorems before |

`StepKinds` sorts the steps of a track: an arrival, a take, a write, a change of `writers_`, and all the rest, which move no
data and may only open or close. One lemma for each kind says what it does to the mapped state (`TakeEffect`, `WriteEffect`,
`ReceiveEffect`, `RedirectEffect`, `Inert`). The refinement needs more than `IInv`: `HistoryInOrder`, so that the head of
the reader's history is the first of the waiting samples, and `HasSample`, so that the last destination ends a delivery.
From `IInv` comes that a thread which takes or writes is alone (the transmission mutex) and that the track is then open
(`LoopStopped`, `MasterLoop`), and that each write reaches an enabled writer. Order is proved of the forwarder, without a
look into the mapping, where it takes a line for each action: what was given is older than what has its turn, which is older
than what waits (`Older`).

### SlotThreadPool
`SlotThreadPoolProofs`, for any number of threads, emitters, tasks and emits:

| theorem | property |
|---|---|
| `Invariant` | `IInv` |
| `CountersMatch` | `CounterMatchesQueue` |
| `PromisedIsThere` | a thread that lowered a counter never pops an empty queue |
| `ThreadsServeBothQueues` | `SomeThreadServesBothQueues` |
| `EmitsExecutedOnce` | `ExecutedAtMostOncePerEmit` |

A counter and its queue have a mutex each, so `IInv` accounts for whoever is between the two: the emitter that holds
`slots_mutex_` (`MutexHeld`) and the threads that have lowered the counter and not popped. That some thread listens to queue
1 does not follow from where the threads are: it needs that the last thread to be drawn to queue 0 saw a task there, which
only a thread past its wait can have taken (`DrawnBySomething`), and that a counter is not raised with every thread left
asleep (`CountedWakes`). `EveryEmitIsSomewhere` is an equation: what was emitted of a task is being pushed, queued, in a
thread's hand, or finished. `HandsFull`, `QueuedByPriority` and `NoThreadLeft` (a disabled pool has none) support it. The
assumptions: there are threads, finitely many, and emitters are others.

### DdsBridge
`DdsBridgeProofs`, for any finite set of participants, any routes and repeaters, and any number of writers:

| theorem | property |
|---|---|
| `TypeCorrect` | `TypeOK` |
| `Invariant` | `IInv` |
| `RoutesFollowed` | `TracksFollowRoutes` |
| `OneWriter` | `OneWriterPerParticipant` |
| `DisabledBridgeIsQuiet` | `QuietWhenDisabled` |
| `WritersOutliveSamples` | `SampleVisitsHeldWriters` |
| `TracksSwitchedTogether` | `EnabledTogether` |

They rest on `RoutesAssumption` and `WritersAssumption`. None of the properties is inductive, because an operation visits
the tracks one by one and is seen half way. `WritersFollow` says what holds of every track for every participant, except of
the tracks the operation has yet to visit for its own. That all tracks have the same writer needs `CreationIsUniform`: when
`create_writer(p)` starts, either all the tracks routed to `p` have a writer of `p` or none has, by `WritersFollow`; so the
new writer is either dropped everywhere, or what every visited track holds is the new one. `TracksHaveWriters`,
`EnableVisitsTracks` and `RemovalVisitsTracks` tie the operation to tracks that exist. For `disable`, `SwitchedByBridge`
says that only tracks it has not visited are still on, and `SendingIsOn` that a track with a sample in hand is on, or is the
one whose transmission mutex `disable` is waiting for.

`EnabledTogether` has an invariant on top, `SwitchInv`: the flag changes when the loop is done (`SwitchesOver`), a visited
track is switched with all its writers, for shared ones whoever switched them first (`TracksSettled`), and a writer that
`create_writer` made is not on before the tracks are (`WritersAreMade`).

### DiscoveryDatabase and DdsPipe
`DdsPipeProofs`, for any topics, services, endpoints, filters and lists, and any set of names that may fail:

| theorem | property |
|---|---|
| `TopicsFollow` | `TopicsFollowAllowedList` |
| `ServicesFollow` | `ServicesFollowTheirFlag` |
| `QueuedOperationsFit` | `OperationsFit` |
| `DatabaseFollowsParticipants` | `DatabaseCaughtUp` |
| `WritersFollowReaders` | `WritersMatchReaders` |

They rest on `PipeAssumption`, `DatabaseAssumption` and `CallbackAssumption` (no callback is not an operation). `TopicInv`
adds that a topic with a bridge is in `current_topics_`: `disable` visits that map only, and would leave on a bridge that is
not there. `reload` visits only the topics whose flag differs, so it needs the whole property of the list before.
`ServiceInv` adds what holds of a disabled pipe too: a known service has had a server, without which `RpcBridge::enable`
does nothing (this is where it matters that servers are never removed), and a bridge that is on has its flag true, which
`disable` leaves as it is. A filter is reduced to what the list stands for by `AllowedIsLetThrough`.

`QueueInv` is about queues of any length: the operations of one endpoint alternate. The first fits the dictionary
(`FirstFits`), each of the others fits the one before it (`NextFits`), and the last one, or the dictionary when none is
queued, says what the participant sees (`LastTells`, `DictionaryTells`). Relating neighbours only is what makes it
inductive: a push adds a last one, a pop turns the second into the first. That an operation fits the last of those before it
then comes by well-founded choice.

`WritersInv` is about the moment between a change of the dictionary and the callback that reports it: writers follow the
dictionary as it was before the event at hand (`WritersFollow`, which counts the endpoint of the callback back), the
callback says what the dictionary holds (`CallbackFits`), and an endpoint that was announced once has one add, queued or
done (`AddsInv`). The theorem takes it together with `TopicInv` and `QueueInv`.

### RpcBridge
`RpcBridgeProofs`, for any finite sets of participants and threads, any requests, entries and calls:

| theorem | property |
|---|---|
| `TypeCorrect` | `TypeOK` |
| `Invariant` | `IInv` |
| `NoWakeupIsLost` | `NoLostWakeup` |
| `RepliesReachTheirAsker` | `RepliesGoToAsker` |
| `NoReplyOvertakesItsEntry` | `RepliesFindTheirEntry` |
| `RoutesMeetEnabledWriters` | `WritersMeetEnabledWriters` |

`Shapes` and `ThreadsPlaced` say what threads, readers and registries may hold. `CallsInOrder` says which endpoints are on
in the course of each call, and `BusyMeansOn` that a thread with data in hand meets enabled writers, since `disable` waits
for it. Replies rest on the mutex of a registry, held from the write of a request to its entry (`MutexHeld`): a request
without its entry is the last one written, and a reply to it waits. So an entry found for a reply is that of its request
(`RepliesMatch`), and a request whose entry is missing was answered or evicted (`RegistriesRecord`, which says for every
number of a write what became of it). One lemma for each kind of step tells its effect on the registries (`Effect`).

### PayloadPool
`PayloadPoolProofs`, for any finite sets of writers and blocks, any depth, and both pools:

| theorem | property |
|---|---|
| `Invariant` | `IInv` |
| `CountersAreHolders` | `CountsHolders` |
| `HoldersKeepTheirBlock` | `HoldersOwnTheirBlock` |
| `NoBlockLeaks` | `NothingLeaks` |
| `MapPoolNeverThrows` | `MapNeverThrows` |

`Counted`: the counter of a block is the number of its holders, written as a sum over reader, transmission and histories, so
that each step adds or takes one (`NumSum`, `Gains`, `Loses`). `Owned`: a block that is held is in use. `Freed`: a block in
use is held, or a thread of `FastPayloadPool` is between its decrement and its test. `MapOrder` is what makes the map safe
although it allocates before it locks and frees before it erases: who erases has the mutex, and the block it erases is in
use again only if the reader is the one waiting to insert it. For the fast pool the properties hold until freed memory is
touched (finding 2); the map never comes to that. `PoolAssumption` keeps names apart.

### KeepAlive
`KeepAliveProofs`, for any intervals and bounds of time and any number of stops, crashes and restarts:

| theorem | hypotheses | property |
|---|---|---|
| `OneMaster` | `TwoProxies`, `Margin` | `AtMostOneMaster` |
| `FailoverIsInTime` | `TwoProxies` | `FailoverInTime` |

`TwoProxies` (a master and one slave) and `Margin` (`keepalived_interval` is above discovery, heartbeat, lateness and delay
together) are hypotheses of the theorems, not of the model. The run satisfies them (`SettingAssumption` of `MCKeepAlive`),
with the least interval that does; without either the property fails (section 3, section 6.11). `MasterInv`: there is one
slave, beside a publisher (`OneSlave`), and its subscriber is younger than that publisher (`SlaveIsYounger`), so that its
first silence is counted from when the two match. A slave that has heard nothing has slept no longer than since the last
heartbeat was due, or one is coming whose age says how long (`SilenceIsShort`). With the margin the interval cannot then be
over. `FailoverInv`: what a slave hears after the end of its master was sent before it, so each phase (heartbeats coming,
one found on waking, silence) bounds the time it has been orphaned (`OrphansWait`).

### ProcessEvents
`ProcessEventsProofs`, for any timers, watchers and signals in any order of registration:

| theorem | property |
|---|---|
| `Invariant` | `IInv` |
| `NoReloadAfterStop` | `NoReloadOnStoppedProxy` |
| `NoCallAfterTheEnd` | `NobodyCallsDeletedHandler` |

What a reset leaves behind: the thread of a timer or watcher was joined and has ended (`GoneHasEnded`); that of a signal is
not, but holds the mutex of its source while it is inside (`SignalsHold`), so to tell the source to end is to wait for it
(`ToldIsQuiet`); a watcher that was told to end is notified and joined in turn. What reloads is reset before the proxy
stops, by the order of the script (`StoppedInTurn`, `ScriptOrder`), and only handlers in `Reloaders` reload
(`ThreadsKnowTheirJob`).

### Only model-checked

The liveness properties (`DataIsForwarded`, `CallsReturn`, `QueuedTaskIsExecuted`, both `DisableReturns`, `TopicIsBridged`,
`ShutdownCompletes`): fairness and ENABLED are beyond the prover. The two violations of section 6 are TLC's counterexamples.

## 6. Where code and documentation part

Two have a run that shows them:

1. `track_standby`: a comment says that the transmission's mutex is freed in every iteration; the standby `continue` keeps
   it, so adding or removing a writer blocks, and the bridge and the pipe with it, until the proxy is promoted.
2. `payload_fast`: the header of `FastPayloadPool` says that the counter is checked and modified in one operation; the code
   decrements it and reads it again, so two threads that release the last two references can both free the block, or one can
   read a block the other has freed. `HoldersOwnTheirBlock`, `CountsHolders` and `NothingLeaks` hold up to that step.

Two more are what a liveness property excepts; TLC finds each when the exception is taken out of the property:

3. In `CallsReturn`, the end of the traffic: the comment of 1, on a master. The mutex is kept from the first turn of the
   loop to the last, and the loop ends when the reader is empty or the track disabled (the TODO at `Track.cpp:221` thinks of
   another end). While samples keep coming, adding or removing a writer blocks with `track_mutex_` held, and with it the
   next `disable`, the bridge and the pipe.
4. In `ShutdownCompletes`, `SleptThroughDestroy`: the help says that signals stop the execution gracefully. `destroy` of the
   file watcher raises its flag and notifies without the mutex of the condition variable; a callback thread that has tested
   its predicate and is not yet asleep misses it. If the thread that reads the folder has sent its last notification and
   leaves, `main` waits for ever in the join.

Others were met while modelling, and the properties of the runs state what holds in spite of them:

5. `Track.hpp` says the destructor should stop and wait for the transmission; a task that was emitted is still in the pool
   when it returns, bound to the destroyed object.
6. A bridge created by `enable` or `reload` has the first discoverer's writer only (`DdsPipe.cpp:557`), and an endpoint that
   returns is not announced, so its writer stays removed (`DiscoveryDatabase.cpp:121`). Both with `remove-unused-entities`
   only; `WritersMatchReaders` has the provisos.
7. A list loaded while the pipe is disabled does not reach `current_services_`, and the next `enable` turns a blocked
   service on; `ServicesFollowTheirFlag` states what the flag says.
8. Disabling one track disables writers another track of the bridge is still using.
9. `RpcBridge::transmit_` dereferences the data before it looks at the return code of `take` (line 300; lines 307-310 mean
   to skip the failure). A task of before a disable can meet a reader that the next enable has not come to.
10. `SignalManager` counts and notifies without the mutex of its condition variable, as a comment there admits: a thread
    that has looked and is not yet asleep misses the signal, and sleeps until the next.
11. Two slaves of one master are both promoted when it dies, and a failed master started again as master is a second one:
    the code never demotes. `KeepAlive` is checked for one slave, started while a master serves. And `main` waits for a
    reload in course before it stops, so where 1 or 3 holds the pipe's mutex the proxy does not stop; `ShutdownCompletes`
    starts from reloads that return.
12. `reload_configuration` calls `reload_master_flag`, which iterates `bridges_` before `mutex_` is taken
    (`DdsPipe.cpp:126`, 135-143), while the database's thread may insert a bridge.

## 7. Plan

1. (done) `Track` and `DdsBridge` with their first proofs, `SlotThreadPool`, `DiscoveryDatabase` with `DdsPipe`.
2. (done) `RpcBridge`, `PayloadPool`, `KeepAlive`, `ProcessEvents`, `AllowedTopicList`; `Forwarder` and its refinement.
3. (done) The refinement of `Forwarder` by `Track`, proved; an inductive invariant for every component with a specification,
   and from it every invariant the passing runs check. Left: nothing the provers reach (section 5, *Only model-checked*).
4. (done) Creation failures in `DdsPipe`, builtin bridges included, and its proofs; traffic without a pause; the two threads
   of the file watcher. Left: a pool whose threads all hold standby tasks.

## 8. Not modelled

The end of the process when a writer cannot be added to an existing bridge (`create_writer` throws in a `noexcept` function,
`DdsPipe.cpp:448`: there is no state afterwards); in `RpcBridge` a creation that fails, after which the bridge is as it was
(what was created is not enabled, and the next attempt replaces it); QoS, partitions, content filters and payload bytes (no
control depends on them here); `reload_master_flag`, `change_master_flag` and `master_flag_` members (written, never read);
`erase_endpoint` and `removed_service` (no caller reaches them); `wait_all_consumed` (tests only); transport priorities
above 1 (`emit_by_priority` throws); the recorder's dynamic types; payloads that come from another pool, `CopyPayloadPool`,
which shares none, and the mediator of the XML participants; `TopicsFollowAllowedList` takes a filter as the set of topics
it matches, not as a pattern; in `KeepAlive` an `init()` that fails; what a writer does with a sample it is given (rate
limit, failed send); a watched folder that is removed, and the Windows branch of the watcher; YAML, XML, arguments, logging,
the vendored parsers, and the helpers of `dev-utils` no control depends on: they are most of the repository's lines, and
have no state to check; Fast DDS itself, of which the order of discovery callbacks for one endpoint and the RTPS mutex
around `onNewCacheChangeAdded` are taken as the code uses them.
