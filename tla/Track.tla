------------------------------- MODULE Track -------------------------------
(***************************************************************************)
(* One Track of a DdsBridge: it takes the samples of ONE reader and writes *)
(* each of them with every writer of `writers_`.  Three kinds of threads   *)
(* meet here:                                                              *)
(*                                                                         *)
(*   - the listener of the reader (a Fast DDS reception thread), which     *)
(*     stores a sample and runs Track::data_available_;                    *)
(*   - the threads of the SlotThreadPool, which run Track::transmit_ once  *)
(*     for each time the track's slot was emitted;                         *)
(*   - the threads that call enable, disable, add_writer, remove_writer or *)
(*     destroy the Track ("controllers": discovery, reload, main).         *)
(*                                                                         *)
(* The listener and transmit_ share no mutex, on purpose (Track.hpp, the   *)
(* WORKAROUND comment): they agree through the atomic counter              *)
(* data_available_status_ alone.  Each atomic operation and each mutex     *)
(* acquisition below is a step of its own.                                 *)
(*                                                                         *)
(* The writers are used by this track only.  DdsBridge composes tracks     *)
(* that share writers; there, the disable of another track can also        *)
(* disable a writer that this one is using (README, section 6).            *)
(***************************************************************************)
EXTENDS Integers, Sequences, FiniteSets

CONSTANTS
  Workers,       \* threads of the pool
  Controllers,   \* threads that call the Track's public methods
  Listener,      \* the reception thread of the reader
  Nobody,        \* "mutex not taken"
  Participants,  \* keys of writers_
  Kinds,         \* reader kinds explored: subset of ReaderKinds
  UIntMod,       \* 2^32 in the code: data_available_status_ is an unsigned int
  MaxSamples,    \* bound: samples the remote side sends
  MaxObjects,    \* bound: writer objects that create_writer hands out
  MaxQueued,     \* bound: enable is not called while more tasks than this wait
  BadSamples     \* samples is_data_correct_ refuses

Threads == Workers \cup Controllers \cup {Listener}
ReaderKinds == {"reliable", "best_effort", "internal"}
Samples == 1..MaxSamples

\* Writer objects, numbered as they are created, and "no entry in writers_".
Objects == 1..MaxObjects
NoWriter == 0

ASSUME ThreadsAssumption ==
  /\ Workers \cap Controllers = {}
  /\ Listener \notin Workers \cup Controllers
  /\ Nobody \notin Threads
ASSUME BoundsAssumption ==
  /\ Kinds \subseteq ReaderKinds
  /\ MaxSamples \in Nat /\ MaxObjects \in Nat /\ MaxQueued \in Nat
  /\ UIntMod \in Nat /\ UIntMod > 2
  /\ BadSamples \subseteq Samples
  /\ Participants # {}
\* status counts two for each announcement since it was last stored: it only wraps
\* after 2^31 of them, which no instance has samples for.
ASSUME CounterAssumption == 2 * MaxSamples + 3 < UIntMod

VARIABLES
  \* Track members
  enabled, exit, status, trackMutex, txMutex, writers, dying,
  \* the reader: BaseReader members, its RTPS mutex and its cache
  kind, readerEnabled, callbackSet, readerMutex, rtpsMutex, history,
  \* BaseWriter::enabled_ of each writer object, and how many there are
  writerEnabled, created,
  \* times the track's task waits in the pool's queue
  queued,
  \* the global master_flag of Track.cpp
  masterFlag,
  \* control of each thread: place, writers still to visit, call argument
  pc, todo, arg,
  \* what the remote side sent and what each participant was given
  sent, cur, out

trackVars  == <<enabled, exit, status, trackMutex, txMutex, writers, dying>>
readerVars == <<kind, readerEnabled, callbackSet, readerMutex, rtpsMutex, history>>
writerVars == <<writerEnabled, created>>
dataVars   == <<sent, cur, out>>
vars == <<enabled, exit, status, trackMutex, txMutex, writers, dying,
          kind, readerEnabled, callbackSet, readerMutex, rtpsMutex, history,
          writerEnabled, created, queued, masterFlag, pc, todo, arg,
          sent, cur, out>>

-----------------------------------------------------------------------------
NoMoreData       == 0
TransmittingData == 1
NewDataArrived   == 2

Destinations == {p \in Participants : writers[p] # NoWriter}

WorkerPlaces ==
  {"idle", "tx_lock", "tx_check", "tx_master", "tx_store", "tx_take", "tx_sub",
   "tx_write"}
ListenerPlaces == {"idle", "cb_check", "cb_add", "cb_emit"}
ControllerPlaces ==
  {"idle", "en_status", "en_writers", "en_reader", "en_notify", "cb_check",
   "cb_add", "cb_emit", "dis_tx", "dis_reader", "dis_writers", "dtor_unset",
   "dtor_exit", "add_tx", "rem_tx", "gone"}

Places == WorkerPlaces \cup ListenerPlaces \cup ControllerPlaces

\* Places of transmit_ where on_transmission_mutex_ is held.
Transmitting == {"tx_check", "tx_master", "tx_store", "tx_take", "tx_sub", "tx_write"}

\* The arguments of add_writer or remove_writer, also when neither is running.
Arguments == [to : Participants, writer : 0..MaxObjects]
NoCall == [to |-> CHOOSE p \in Participants : TRUE, writer |-> NoWriter]

Goto(t, place) == pc' = [pc EXCEPT ![t] = place]

\* fetch_sub on the atomic unsigned int data_available_status_, and (mutant) on
\* an integer that does not wrap.
FetchSubMutant(s) == s - TransmittingData
FetchSub(s) == (s - TransmittingData) % UIntMod

\* std::make_shared<Track> of DdsBridge::create_all_tracks_: a disabled track
\* over a disabled reader, for a choice of participants with a fresh writer each.
Init ==
  /\ enabled = FALSE /\ exit = FALSE /\ status = NoMoreData
  /\ trackMutex = Nobody /\ txMutex = Nobody /\ dying = FALSE
  /\ kind \in Kinds
  /\ readerEnabled = FALSE /\ callbackSet = TRUE
  /\ readerMutex = Nobody /\ rtpsMutex = Nobody /\ history = <<>>
  /\ created \in 0..MaxObjects
  /\ writers \in [Participants -> 0..created]
  /\ \A o \in 1..created : \E p \in Participants : writers[p] = o
  /\ \A p, q \in Destinations : writers[p] = writers[q] => p = q
  /\ writerEnabled = [o \in Objects |-> FALSE]
  /\ queued = 0
  /\ masterFlag \in BOOLEAN
  /\ pc = [t \in Threads |-> "idle"]
  /\ todo = [t \in Threads |-> {}]
  /\ arg = [c \in Controllers |-> NoCall]
  /\ sent = 0
  /\ cur = [w \in Workers |-> 0]
  /\ out = [p \in Participants |-> <<>>]

-----------------------------------------------------------------------------
\* The reader's listener (CommonReader::onNewCacheChangeAdded and
\* InternalReader::simulate_data_reception).

\* A sample reaches the reader.  The RTPS mutex (InternalReader: the lock of
\* its queue) is held from here to the end of the callback.  A sample the rate
\* or downsampling filter rejects (an InternalReader has none), and one that
\* reaches a disabled best-effort reader, is removed from the history again.
Receive ==
  /\ pc[Listener] = "idle" /\ rtpsMutex = Nobody /\ sent < MaxSamples
  /\ sent' = sent + 1
  /\ \E accepted \in BOOLEAN :
       LET kept     == accepted /\ (readerEnabled \/ kind # "best_effort")
           notifies == accepted /\ (readerEnabled \/ kind = "internal")
       IN  /\ kind = "internal" => accepted
           /\ history' = IF kept THEN Append(history, sent + 1) ELSE history
           /\ IF notifies
                THEN rtpsMutex' = Listener /\ Goto(Listener, "cb_check")
                ELSE UNCHANGED <<rtpsMutex, pc>>
  /\ UNCHANGED <<trackVars, kind, readerEnabled, callbackSet, readerMutex,
                 writerVars, queued, masterFlag, todo, arg, cur, out>>

\* The end of on_data_available_: the listener leaves the RTPS mutex; a
\* controller inside BaseReader::enable also leaves the reader's mutex and
\* Track::enable the track's.
EndCallback(t) ==
  /\ rtpsMutex' = Nobody
  /\ Goto(t, "idle")
  /\ IF t = Listener
       THEN UNCHANGED <<readerMutex, trackMutex>>
       ELSE readerMutex' = Nobody /\ trackMutex' = Nobody

\* BaseReader::on_data_available_ finds a callback, and data_available_ reads enabled_.
CallbackCheck(t) ==
  /\ pc[t] = "cb_check"
  /\ IF callbackSet /\ enabled
       THEN Goto(t, "cb_add") /\ UNCHANGED <<rtpsMutex, readerMutex, trackMutex>>
       ELSE EndCallback(t)
  /\ UNCHANGED <<enabled, exit, status, txMutex, writers, dying,
                 kind, readerEnabled, callbackSet, history,
                 writerVars, queued, masterFlag, todo, arg, dataVars>>

\* fetch_add: only the one that finds no_more_data emits the task.
CallbackAdd(t) ==
  /\ pc[t] = "cb_add"
  /\ status' = (status + NewDataArrived) % UIntMod
  /\ IF status = NoMoreData
       THEN Goto(t, "cb_emit") /\ UNCHANGED <<rtpsMutex, readerMutex, trackMutex>>
       ELSE EndCallback(t)
  /\ UNCHANGED <<enabled, exit, txMutex, writers, dying,
                 kind, readerEnabled, callbackSet, history,
                 writerVars, queued, masterFlag, todo, arg, dataVars>>

\* thread_pool_->emit_by_priority
CallbackEmit(t) ==
  /\ pc[t] = "cb_emit"
  /\ queued' = queued + 1
  /\ EndCallback(t)
  /\ UNCHANGED <<enabled, exit, status, txMutex, writers, dying,
                 kind, readerEnabled, callbackSet, history,
                 writerVars, masterFlag, todo, arg, dataVars>>

DataAvailable(t) == CallbackCheck(t) \/ CallbackAdd(t) \/ CallbackEmit(t)

-----------------------------------------------------------------------------
\* Track::transmit_ in a thread of the pool.

StartTask(w) ==
  /\ pc[w] = "idle" /\ queued > 0
  /\ queued' = queued - 1
  /\ Goto(w, "tx_lock")
  /\ UNCHANGED <<trackVars, readerVars, writerVars, masterFlag, todo, arg, dataVars>>

\* Mutant: on_transmission_mutex_ is not taken.
LockTransmissionMutant(w) ==
  /\ pc[w] = "tx_lock"
  /\ txMutex' = w
  /\ Goto(w, "tx_check")
  /\ UNCHANGED <<enabled, exit, status, trackMutex, writers, dying, readerVars,
                 writerVars, queued, masterFlag, todo, arg, dataVars>>

LockTransmission(w) ==
  /\ pc[w] = "tx_lock" /\ txMutex = Nobody
  /\ txMutex' = w
  /\ Goto(w, "tx_check")
  /\ UNCHANGED <<enabled, exit, status, trackMutex, writers, dying, readerVars,
                 writerVars, queued, masterFlag, todo, arg, dataVars>>

\* The end of transmit_: the lock is left by its destructor.
LeaveTransmission(w) == Goto(w, "idle") /\ txMutex' = Nobody

\* should_transmit_.  Mutant: enabled_ is not looked at.
MayTransmitMutant == ~exit
MayTransmit == ~exit /\ enabled

\* while (should_transmit_())
ShouldTransmit(w) ==
  /\ pc[w] = "tx_check"
  /\ IF MayTransmit
       THEN Goto(w, "tx_master") /\ UNCHANGED txMutex
       ELSE LeaveTransmission(w)
  /\ UNCHANGED <<enabled, exit, status, trackMutex, writers, dying, readerVars,
                 writerVars, queued, masterFlag, todo, arg, dataVars>>

\* Mutant: the standby check is missing.
CheckMasterMutant(w) ==
  /\ pc[w] = "tx_master"
  /\ Goto(w, "tx_store")
  /\ UNCHANGED <<trackVars, readerVars, writerVars, queued, masterFlag, todo, arg,
                 dataVars>>

\* if (!master_flag) continue;  -- the mutex is kept
CheckMaster(w) ==
  /\ pc[w] = "tx_master"
  /\ Goto(w, IF masterFlag THEN "tx_store" ELSE "tx_check")
  /\ UNCHANGED <<trackVars, readerVars, writerVars, queued, masterFlag, todo, arg,
                 dataVars>>

StoreTransmitting(w) ==
  /\ pc[w] = "tx_store"
  /\ status' = TransmittingData
  /\ Goto(w, "tx_take")
  /\ UNCHANGED <<enabled, exit, trackMutex, txMutex, writers, dying, readerVars,
                 writerVars, queued, masterFlag, todo, arg, dataVars>>

\* reader_->take: NOT_ENABLED and incorrect data are errors, and the loop goes on.
Take(w) ==
  /\ pc[w] = "tx_take" /\ readerMutex = Nobody /\ rtpsMutex = Nobody
  /\ \/ /\ ~readerEnabled
        /\ Goto(w, "tx_check")
        /\ UNCHANGED <<history, cur, todo>>
     \/ /\ readerEnabled /\ history = <<>>
        /\ Goto(w, "tx_sub")
        /\ UNCHANGED <<history, cur, todo>>
     \/ /\ readerEnabled /\ history # <<>>
        /\ history' = Tail(history)
        /\ IF Head(history) \in BadSamples \/ Destinations = {}
             THEN Goto(w, "tx_check") /\ UNCHANGED <<cur, todo>>
             ELSE /\ Goto(w, "tx_write")
                  /\ cur' = [cur EXCEPT ![w] = Head(history)]
                  /\ todo' = [todo EXCEPT ![w] = Destinations]
  /\ UNCHANGED <<trackVars, kind, readerEnabled, callbackSet, readerMutex, rtpsMutex,
                 writerVars, queued, masterFlag, arg, sent, out>>

\* No callback announced data since the status was stored.  Mutant: not checked.
NothingAnnouncedMutant == TRUE
NothingAnnounced == status = TransmittingData

\* NO_DATA: fetch_sub, and leave only if nobody announced data meanwhile.
SubTransmitting(w) ==
  /\ pc[w] = "tx_sub"
  /\ status' = FetchSub(status)
  /\ IF NothingAnnounced
       THEN LeaveTransmission(w)
       ELSE Goto(w, "tx_check") /\ UNCHANGED txMutex
  /\ UNCHANGED <<enabled, exit, trackMutex, writers, dying, readerVars,
                 writerVars, queued, masterFlag, todo, arg, dataVars>>

\* One turn of the loop over writers_: a writer that is not enabled answers
\* NOT_ENABLED and the sample is skipped for it.  out is what the track hands to an
\* enabled writer: what the writer does with it, which may drop it for its rate
\* (max_tx_rate) or fail to send it, changes nothing in the track, whose answer to an
\* error is to go on.
Write(w) ==
  /\ pc[w] = "tx_write"
  /\ \E p \in todo[w] :
       /\ out' = IF writerEnabled[writers[p]]
                   THEN [out EXCEPT ![p] = Append(@, cur[w])] ELSE out
       /\ todo' = [todo EXCEPT ![w] = @ \ {p}]
       /\ IF todo[w] = {p}
            THEN Goto(w, "tx_check") /\ cur' = [cur EXCEPT ![w] = 0]
            ELSE UNCHANGED <<pc, cur>>
  /\ UNCHANGED <<trackVars, readerVars, writerVars, queued, masterFlag, arg, sent>>

Transmit(w) ==
  \/ LockTransmission(w) \/ ShouldTransmit(w) \/ CheckMaster(w)
  \/ StoreTransmitting(w) \/ Take(w) \/ SubTransmitting(w) \/ Write(w)

-----------------------------------------------------------------------------
\* Track::enable

EnableCall(c) ==
  /\ pc[c] = "idle" /\ ~dying /\ trackMutex = Nobody /\ ~enabled
  /\ queued =< MaxQueued
  /\ trackMutex' = c
  /\ enabled' = TRUE
  /\ Goto(c, "en_status")
  /\ UNCHANGED <<exit, status, txMutex, writers, dying, readerVars, writerVars,
                 queued, masterFlag, todo, arg, dataVars>>

\* What enable stores in the status.  Mutant: it is left as it is.
StatusOnEnableMutant == status
StatusOnEnable == NoMoreData

EnableResetStatus(c) ==
  /\ pc[c] = "en_status"
  /\ status' = StatusOnEnable
  /\ todo' = [todo EXCEPT ![c] = Destinations]
  /\ Goto(c, "en_writers")
  /\ UNCHANGED <<enabled, exit, trackMutex, txMutex, writers, dying, readerVars,
                 writerVars, queued, masterFlag, arg, dataVars>>

EnableWriter(c) ==
  /\ pc[c] = "en_writers"
  /\ \/ /\ todo[c] = {}
        /\ Goto(c, "en_reader")
        /\ UNCHANGED <<todo, writerEnabled>>
     \/ \E p \in todo[c] :
          /\ writerEnabled' = [writerEnabled EXCEPT ![writers[p]] = TRUE]
          /\ todo' = [todo EXCEPT ![c] = @ \ {p}]
          /\ UNCHANGED pc
  /\ UNCHANGED <<trackVars, readerVars, created, queued, masterFlag, arg, dataVars>>

\* BaseReader::enable: enabled_ is set, then enable_nts_ runs with mutex_ held.
EnableReader(c) ==
  /\ pc[c] = "en_reader" /\ readerMutex = Nobody
  /\ readerEnabled' = TRUE
  /\ IF kind = "best_effort"
       THEN trackMutex' = Nobody /\ Goto(c, "idle") /\ UNCHANGED readerMutex
       ELSE readerMutex' = c /\ Goto(c, "en_notify") /\ UNCHANGED trackMutex
  /\ UNCHANGED <<enabled, exit, status, txMutex, writers, dying,
                 kind, callbackSet, rtpsMutex, history,
                 writerVars, queued, masterFlag, todo, arg, dataVars>>

\* enable_nts_: a reliable reader notifies always, an internal one if it holds data.
EnableNotify(c) ==
  /\ pc[c] = "en_notify" /\ rtpsMutex = Nobody
  /\ IF kind = "reliable" \/ history # <<>>
       THEN /\ rtpsMutex' = c
            /\ Goto(c, "cb_check")
            /\ UNCHANGED <<readerMutex, trackMutex>>
       ELSE EndCallback(c)
  /\ UNCHANGED <<enabled, exit, status, txMutex, writers, dying,
                 kind, readerEnabled, callbackSet, history,
                 writerVars, queued, masterFlag, todo, arg, dataVars>>

-----------------------------------------------------------------------------
\* Track::disable, also the first thing ~Track does.

\* Mutant: enabled_ is not lowered before disable waits for the transmission.
DisableCallMutant(c) ==
  /\ pc[c] = "idle" /\ ~dying /\ trackMutex = Nobody /\ enabled
  /\ trackMutex' = c
  /\ Goto(c, "dis_tx")
  /\ UNCHANGED <<enabled, exit, status, txMutex, writers, dying, readerVars, writerVars,
                 queued, masterFlag, todo, arg, dataVars>>

DisableCall(c) ==
  /\ pc[c] = "idle" /\ ~dying /\ trackMutex = Nobody /\ enabled
  /\ trackMutex' = c
  /\ enabled' = FALSE
  /\ Goto(c, "dis_tx")
  /\ UNCHANGED <<exit, status, txMutex, writers, dying, readerVars, writerVars,
                 queued, masterFlag, todo, arg, dataVars>>

\* The lock of on_transmission_mutex_ in disable.  Mutant: it is missing.
TransmissionEndedMutant == TRUE
TransmissionEnded == txMutex = Nobody

\* on_transmission_mutex_ is taken and left at once.
DisableWaitTransmission(c) ==
  /\ pc[c] = "dis_tx" /\ TransmissionEnded
  /\ Goto(c, "dis_reader")
  /\ UNCHANGED <<trackVars, readerVars, writerVars, queued, masterFlag, todo, arg,
                 dataVars>>

DisableReader(c) ==
  /\ pc[c] = "dis_reader" /\ readerMutex = Nobody
  /\ readerEnabled' = FALSE
  /\ todo' = [todo EXCEPT ![c] = Destinations]
  /\ Goto(c, "dis_writers")
  /\ UNCHANGED <<trackVars, kind, callbackSet, readerMutex, rtpsMutex, history,
                 writerVars, queued, masterFlag, arg, dataVars>>

DisableWriter(c) ==
  /\ pc[c] = "dis_writers"
  /\ \/ /\ todo[c] = {}
        /\ trackMutex' = Nobody
        /\ Goto(c, IF dying THEN "dtor_unset" ELSE "idle")
        /\ UNCHANGED <<todo, writerEnabled>>
     \/ \E p \in todo[c] :
          /\ writerEnabled' = [writerEnabled EXCEPT ![writers[p]] = FALSE]
          /\ todo' = [todo EXCEPT ![c] = @ \ {p}]
          /\ UNCHANGED <<pc, trackMutex>>
  /\ UNCHANGED <<enabled, exit, status, txMutex, writers, dying, readerVars, created,
                 queued, masterFlag, arg, dataVars>>

-----------------------------------------------------------------------------
\* Track::add_writer and Track::remove_writer.  DdsBridge::create_writer hands
\* out a new writer object, and asks has_writer before it adds.

AddCall(c, p) ==
  /\ pc[c] = "idle" /\ ~dying /\ trackMutex = Nobody
  /\ writers[p] = NoWriter /\ created < MaxObjects
  /\ trackMutex' = c
  /\ created' = created + 1
  /\ arg' = [arg EXCEPT ![c] = [to |-> p, writer |-> created + 1]]
  /\ Goto(c, "add_tx")
  /\ UNCHANGED <<enabled, exit, status, txMutex, writers, dying, readerVars,
                 writerEnabled, queued, masterFlag, todo, dataVars>>

AddLocked(c) ==
  /\ pc[c] = "add_tx" /\ txMutex = Nobody
  /\ writerEnabled' = [writerEnabled EXCEPT ![arg[c].writer] = @ \/ enabled]
  /\ writers' = [writers EXCEPT ![arg[c].to] = arg[c].writer]
  /\ trackMutex' = Nobody
  /\ arg' = [arg EXCEPT ![c] = NoCall]
  /\ Goto(c, "idle")
  /\ UNCHANGED <<enabled, exit, status, txMutex, dying, readerVars, created,
                 queued, masterFlag, todo, dataVars>>

RemoveCall(c, p) ==
  /\ pc[c] = "idle" /\ ~dying /\ trackMutex = Nobody
  /\ writers[p] # NoWriter
  /\ trackMutex' = c
  /\ arg' = [arg EXCEPT ![c] = [to |-> p, writer |-> NoWriter]]
  /\ Goto(c, "rem_tx")
  /\ UNCHANGED <<enabled, exit, status, txMutex, writers, dying, readerVars,
                 writerVars, queued, masterFlag, todo, dataVars>>

RemoveLocked(c) ==
  /\ pc[c] = "rem_tx" /\ txMutex = Nobody
  /\ writers' = [writers EXCEPT ![arg[c].to] = NoWriter]
  /\ trackMutex' = Nobody
  /\ arg' = [arg EXCEPT ![c] = NoCall]
  /\ Goto(c, "idle")
  /\ UNCHANGED <<enabled, exit, status, txMutex, dying, readerVars, writerVars,
                 queued, masterFlag, todo, dataVars>>

-----------------------------------------------------------------------------
\* ~Track, called when DdsBridge erases the track: no other call is running.

DestroyCall(c) ==
  /\ ~dying /\ \A d \in Controllers : pc[d] = "idle"
  /\ dying' = TRUE
  /\ IF enabled
       THEN trackMutex' = c /\ enabled' = FALSE /\ Goto(c, "dis_tx")
       ELSE Goto(c, "dtor_unset") /\ UNCHANGED <<trackMutex, enabled>>
  /\ UNCHANGED <<exit, status, txMutex, writers, readerVars, writerVars,
                 queued, masterFlag, todo, arg, dataVars>>

DestroyUnset(c) ==
  /\ pc[c] = "dtor_unset" /\ readerMutex = Nobody
  /\ callbackSet' = FALSE
  /\ Goto(c, "dtor_exit")
  /\ UNCHANGED <<trackVars, kind, readerEnabled, readerMutex, rtpsMutex, history,
                 writerVars, queued, masterFlag, todo, arg, dataVars>>

\* exit_ is set and the destructor returns, whatever the pool still holds.
DestroyExit(c) ==
  /\ pc[c] = "dtor_exit"
  /\ exit' = TRUE
  /\ Goto(c, "gone")
  /\ UNCHANGED <<enabled, status, trackMutex, txMutex, writers, dying, readerVars,
                 writerVars, queued, masterFlag, todo, arg, dataVars>>

\* The keep-alive thread promotes this proxy; nothing ever demotes it.
Promote ==
  /\ ~masterFlag
  /\ masterFlag' = TRUE
  /\ UNCHANGED <<trackVars, readerVars, writerVars, queued, pc, todo, arg, dataVars>>

-----------------------------------------------------------------------------
Calls(c) ==
  \/ EnableCall(c) \/ DisableCall(c) \/ DestroyCall(c)
  \/ \E p \in Participants : AddCall(c, p) \/ RemoveCall(c, p)

\* A call that started goes on without further choice.
Continue(c) ==
  \/ EnableResetStatus(c) \/ EnableWriter(c) \/ EnableReader(c) \/ EnableNotify(c)
  \/ DataAvailable(c)
  \/ DisableWaitTransmission(c) \/ DisableReader(c) \/ DisableWriter(c)
  \/ AddLocked(c) \/ RemoveLocked(c)
  \/ DestroyUnset(c) \/ DestroyExit(c)

Next ==
  \/ Receive \/ DataAvailable(Listener) \/ Promote
  \/ \E w \in Workers : StartTask(w) \/ Transmit(w)
  \/ \E c \in Controllers : Calls(c) \/ Continue(c)

Spec == Init /\ [][Next]_vars

\* Threads that can run do run: the operating system schedules every thread.
\* Nothing makes the environment send, call, or promote.
FairSpec ==
  /\ Spec
  /\ WF_vars(DataAvailable(Listener))
  /\ \A w \in Workers : WF_vars(StartTask(w)) /\ WF_vars(Transmit(w))
  /\ \A c \in Controllers : WF_vars(Continue(c))

-----------------------------------------------------------------------------
\* The shared state has its type; a mutex names its holder.
DataTypeOK ==
  /\ enabled \in BOOLEAN /\ exit \in BOOLEAN /\ dying \in BOOLEAN
  /\ status \in 0..(UIntMod - 1)
  /\ trackMutex \in Controllers \cup {Nobody}
  /\ txMutex \in Workers \cup {Nobody}
  /\ writers \in [Participants -> 0..MaxObjects]
  /\ kind \in ReaderKinds
  /\ readerEnabled \in BOOLEAN /\ callbackSet \in BOOLEAN
  /\ readerMutex \in Controllers \cup {Nobody}
  /\ rtpsMutex \in Controllers \cup {Listener, Nobody}
  /\ history \in Seq(Samples)
  /\ writerEnabled \in [Objects -> BOOLEAN]
  /\ created \in 0..MaxObjects
  /\ queued \in Nat
  /\ masterFlag \in BOOLEAN
  /\ todo \in [Threads -> SUBSET Participants]
  /\ arg \in [Controllers -> Arguments]
  /\ sent \in 0..MaxSamples
  /\ cur \in [Workers -> 0..MaxSamples]
  /\ out \in [Participants -> Seq(0..MaxSamples)]

\* Each thread is at one of its own places.
ControlTypeOK ==
  /\ pc \in [Threads -> Places]
  /\ \A w \in Workers : pc[w] \in WorkerPlaces
  /\ \A c \in Controllers : pc[c] \in ControllerPlaces
  /\ pc[Listener] \in ListenerPlaces

\* Everything has its type.
TypeOK == DataTypeOK /\ ControlTypeOK

-----------------------------------------------------------------------------
\* The inductive invariant behind WritersReadyWhileWriting and
\* QuietWhenDisabled, in named parts (module TrackProofs).

\* Places of a caller that holds track_mutex_.
InTrack == ControllerPlaces \ {"idle", "dtor_unset", "dtor_exit", "gone"}

MutexesHeld ==
  /\ \A w \in Workers : txMutex = w <=> pc[w] \in Transmitting
  /\ \A c \in Controllers : trackMutex = c <=> pc[c] \in InTrack

\* enable: the flag is up all along, and the writers come before the reader.
EnablePlaces == {"en_status", "en_writers", "en_reader", "en_notify", "cb_check", "cb_add",
                 "cb_emit"}
Ready(ps) == \A p \in ps : writerEnabled[writers[p]]
EnableOrder ==
  \A c \in Controllers :
    /\ pc[c] \in EnablePlaces => enabled
    /\ pc[c] = "en_writers" => Ready(Destinations \ todo[c])
    /\ pc[c] = "en_reader" => Ready(Destinations)

\* disable: the flag is down all along, and the reader goes before the writers.
DisableOrder ==
  \A c \in Controllers :
    /\ pc[c] \in {"dis_tx", "dis_reader", "dis_writers"} => ~enabled
    /\ pc[c] = "dis_writers" => ~readerEnabled

\* An enabled reader means enabled writers, and an enabled track unless
\* disable has not come to the reader yet.
ReaderOrder ==
  readerEnabled =>
    /\ Ready(Destinations)
    /\ enabled \/ \E c \in Controllers : pc[c] \in {"dis_tx", "dis_reader"}

\* While the track is disabled, and disable is past the transmission mutex, no
\* thread is beyond the test of the loop.
LoopStopped ==
  ~enabled => \/ \E c \in Controllers : pc[c] = "dis_tx"
              \/ \A w \in Workers : pc[w] \in {"idle", "tx_lock", "tx_check"}

\* A thread past the standby check is on the master, which is never demoted.
MasterLoop ==
  \A w \in Workers : pc[w] \in {"tx_store", "tx_take", "tx_sub", "tx_write"} => masterFlag

\* A transmission never meets a disabled reader or writer: whoever is in the
\* loop over writers_ finds every writer it still has to visit enabled.  It
\* rests on the order of the steps of enable (writers before reader) and of
\* disable (enabled_, then the transmission mutex, then reader and writers).
WritersReadyWhileWriting ==
  \A w \in Workers : pc[w] = "tx_write" =>
    /\ readerEnabled
    /\ \A p \in todo[w] : writers[p] # NoWriter /\ writerEnabled[writers[p]]

IInv == /\ TypeOK /\ MutexesHeld /\ EnableOrder /\ DisableOrder /\ ReaderOrder
        /\ LoopStopped /\ MasterLoop /\ WritersReadyWhileWriting

\* When disable (or the destructor's disable) has returned, no sample is in
\* flight: a task that is still queued or running will find the track disabled
\* before it takes anything.
QuietWhenDisabled ==
  (~enabled /\ trackMutex = Nobody) =>
    \A w \in Workers : pc[w] \in {"idle", "tx_lock", "tx_check", "tx_master"}

\* No wake-up is lost: while the track is enabled and neither enable nor the
\* listener is halfway, data in the reader implies that a task is queued or
\* running and has not yet decided to leave.  (A best-effort reader is not
\* notified when it is enabled, so what it kept is not covered.)
NoLostWakeup ==
  (enabled /\ trackMutex = Nobody /\ rtpsMutex = Nobody /\ history # <<>>
     /\ kind # "best_effort") =>
    \/ queued > 0
    \/ \E w \in Workers : pc[w] # "idle"

\* A disabled or standby proxy whose calls have returned forwards nothing new.
\* (The sample in flight when the calls return is covered by QuietWhenDisabled.)
NoForwardWhileOff ==
  [][(~masterFlag \/ (~enabled /\ trackMutex = Nobody)) => out' = out]_vars

\* If the track ends up enabled, on the master, every sample is taken sooner
\* or later although the listener and transmit_ share no lock.
DataIsForwarded ==
  (kind # "best_effort" /\ <>[](enabled /\ trackMutex = Nobody /\ masterFlag))
    => []<>(history = <<>>)

\* Track.cpp says of transmit_ that it is "protected by a mutex that is freed in
\* every iteration".  So a caller that waits for that mutex, to add or to
\* remove a writer, gets it sooner or later.
WritersChangeReturns ==
  \A c \in Controllers : (pc[c] \in {"add_tx", "rem_tx"}) ~> (pc[c] = "idle")
=============================================================================
