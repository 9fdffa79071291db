--------------------------- MODULE ProcessEvents ---------------------------
(***************************************************************************)
(* main of the proxy and the event handlers it owns.  Timers and a file    *)
(* watcher reload the configuration; signals and a timeout are handlers    *)
(* registered in a MultipleEventHandler, whose event ends the process.     *)
(* Each handler is called by a thread of its own, which holds a mutex of   *)
(* its source (periodic_wait_mutex_, active_callbacks_mutex_) while it is  *)
(* in event_occurred_, which takes internal_callback_mutex_ of the         *)
(* handler, and that of the multiple handler inside.                       *)
(*                                                                         *)
(* A file watcher has two threads: one reads what happens in the folder of *)
(* the file and passes it on, the other calls back.  They share a mutex    *)
(* and a condition variable; the flag that ends them is not under it.  The *)
(* folder itself is assumed to stay.                                       *)
(*                                                                         *)
(* main waits for the event, destroys the handlers that reload, stops the  *)
(* keep-alive thread and the proxy, and then destroys the rest.            *)
(***************************************************************************)
EXTENDS Integers, Sequences, FiniteSets, Functions

CONSTANTS
  Timers,       \* PeriodicEventHandlers
  Watchers,     \* FileWatcherHandlers
  Signals,      \* SignalEventHandlers
  Reloaders,    \* the sequence of handlers that reload, as main resets them
  Closers,      \* the sequence of handlers registered in close_handler
  Nobody,
  MaxSignals,   \* bound: signals of each kind
  MaxChanges    \* bound: changes of the file that wait to be called back

Handlers == Timers \cup Watchers \cup Signals
Close == "close_handler"
Main == "main"

ASSUME HandlerAssumption ==
  /\ Reloaders \in Seq(Handlers) /\ Closers \in Seq(Handlers)
  /\ Range(Reloaders) \cup Range(Closers) = Handlers
  /\ Range(Reloaders) \cap Range(Closers) = {} /\ Signals \subseteq Range(Closers)
  /\ Timers \cap Watchers = {} /\ Signals \cap (Timers \cup Watchers) = {}
  /\ {Close, Main, Nobody} \cap Handlers = {} /\ MaxSignals \in Nat /\ MaxChanges \in Nat

VARIABLES
  isSet,     \* is_callback_set_ of a handler
  inner,     \* holder of its internal_callback_mutex_
  outer,     \* holder of the mutex of its source
  active,    \* timer_active_; ~_destory of the watcher; the callback is registered
  count,     \* number_of_events_registered_ of close_handler, at most 1
  pc,        \* what the thread of a handler is doing
  arrived,   \* signals that came
  received,  \* signals_received_
  toNotify,  \* signals counted but not yet notified
  watch,     \* what the thread of a watcher that reads the folder is doing
  inbox,     \* what happened in the folder and was not read
  info,      \* _callback_information: entries about the file
  batch,     \* changes of the batch that are still to be called back
  at,        \* the step of main
  phase,     \* where main is in the reset of a handler
  alive,     \* the keep-alive thread runs
  proxy      \* the proxy: running, stopped

signalVars == <<arrived, received, toNotify>>
watchVars == <<watch, inbox, info, batch>>
mainVars == <<at, phase, alive, proxy>>
vars == <<isSet, inner, outer, active, count, pc, signalVars, watchVars, mainVars>>

\* The steps of main, and its mutant: the proxy is stopped first.
Resets(s) == [i \in DOMAIN s |-> <<"reset", s[i]>>]
ScriptMutant ==
  <<<<"wait", Close>>, <<"stop", "proxy">>>> \o Resets(Reloaders) \o <<<<"join", "alive">>>>
    \o Resets(Closers) \o <<<<"unset", Close>>, <<"exit", Main>>>>
Script ==
  <<<<"wait", Close>>>> \o Resets(Reloaders) \o <<<<"join", "alive">>, <<"stop", "proxy">>>>
    \o Resets(Closers) \o <<<<"unset", Close>>, <<"exit", Main>>>>

Init ==
  /\ isSet = [h \in Handlers \cup {Close} |-> TRUE]
  /\ inner = [h \in Handlers \cup {Close} |-> Nobody]
  /\ outer = [h \in Handlers |-> Nobody]
  /\ active = [h \in Handlers |-> TRUE]
  /\ count = 0
  /\ pc = [h \in Handlers |-> "wait"]
  /\ arrived = [h \in Signals |-> 0] /\ received = [h \in Signals |-> 0]
  /\ toNotify = [h \in Signals |-> 0]
  /\ watch = [h \in Watchers |-> "test"] /\ inbox = [h \in Watchers |-> {}]
  /\ info = [h \in Watchers |-> 0] /\ batch = [h \in Watchers |-> 0]
  /\ at = 1 /\ phase = "callback" /\ alive = TRUE /\ proxy = "running"

Free(mutex, h) == mutex[h] = Nobody
Goto(h, l) == pc' = [pc EXCEPT ![h] = l]
Take(mutex, h, x) == [mutex EXCEPT ![h] = x]

-----------------------------------------------------------------------------
\* The sources.

\* period_thread_routine_: it holds periodic_wait_mutex_ until the event is over.
TimerFires(h) ==
  /\ h \in Timers /\ pc[h] = "wait" /\ Free(outer, h)
  /\ IF active[h] THEN Goto(h, "event") /\ outer' = Take(outer, h, h)
                  ELSE Goto(h, "ended") /\ UNCHANGED outer
  /\ UNCHANGED <<isSet, inner, active, count, signalVars, watchVars, mainVars>>

\* The file is written ("own"), or another of its folder is; the system merges what
\* repeats itself and was not read.  Nothing follows the end of the watch.
FileChanges(h) ==
  /\ h \in Watchers /\ active[h]
  /\ \E e \in {"own", "other"} :
       /\ e = "own" => info[h] < MaxChanges
       /\ inbox' = [inbox EXCEPT ![h] = @ \cup {e}]
  /\ UNCHANGED <<isSet, inner, outer, active, count, pc, signalVars, watch, info, batch, mainVars>>

\* monitor_directory: the test of the loop, ...
WatchLoop(h) ==
  /\ h \in Watchers /\ watch[h] = "test"
  /\ watch' = [watch EXCEPT ![h] = IF active[h] THEN "read" ELSE "ended"]
  /\ UNCHANGED <<isSet, inner, outer, active, count, pc, signalVars, inbox, info, batch, mainVars>>

\* ... a read that waits until something happened, what of it is about the file passed on
\* under _callback_mutex (held by the thread that calls back until it sleeps), ...
WatchRead(h) ==
  /\ h \in Watchers /\ watch[h] = "read" /\ inbox[h] # {} /\ pc[h] # "falls_asleep"
  /\ inbox' = [inbox EXCEPT ![h] = {}]
  /\ info' = IF "own" \in inbox[h] THEN [info EXCEPT ![h] = @ + 1] ELSE info
  /\ watch' = [watch EXCEPT ![h] = "notify"]
  /\ UNCHANGED <<isSet, inner, outer, active, count, pc, signalVars, batch, mainVars>>

\* _cv.notify_all: whoever is asleep tests the predicate again.
Woken(h) == IF pc[h] = "asleep" THEN [pc EXCEPT ![h] = "lock"] ELSE pc

\* ... and the notification, without the mutex.
WatchNotify(h) ==
  /\ h \in Watchers /\ watch[h] = "notify"
  /\ pc' = Woken(h)
  /\ watch' = [watch EXCEPT ![h] = "test"]
  /\ UNCHANGED <<isSet, inner, outer, active, count, signalVars, inbox, info, batch, mainVars>>

WatchThread(h) == WatchLoop(h) \/ WatchRead(h) \/ WatchNotify(h)

\* callback_thread: the test of the loop; the predicate, under the mutex; and the batch,
\* of which only modifications are events.
CallbackThread(h) ==
  /\ h \in Watchers
  /\ \/ /\ pc[h] = "wait" /\ Goto(h, IF active[h] THEN "lock" ELSE "ended")
        /\ UNCHANGED <<info, batch>>
     \/ /\ pc[h] = "lock" /\ info[h] = 0 /\ active[h]
        /\ Goto(h, "falls_asleep") /\ UNCHANGED <<info, batch>>
     \/ /\ pc[h] = "falls_asleep" /\ Goto(h, "asleep") /\ UNCHANGED <<info, batch>>
     \/ /\ pc[h] = "lock" /\ (info[h] > 0 \/ ~active[h])
        /\ info' = [info EXCEPT ![h] = 0]
        /\ \E events \in 0..info[h] :
             IF events = 0 THEN Goto(h, "wait") /\ UNCHANGED batch
               ELSE Goto(h, "event") /\ batch' = [batch EXCEPT ![h] = events - 1]
  /\ UNCHANGED <<isSet, inner, outer, active, count, signalVars, watch, inbox, mainVars>>

\* signal_received_, in whichever thread the signal interrupts: count, then notify.
SignalArrives(h) ==
  /\ arrived[h] < MaxSignals /\ at <= Len(Script)
  /\ arrived' = [arrived EXCEPT ![h] = @ + 1]
  /\ received' = [received EXCEPT ![h] = @ + 1]
  /\ toNotify' = [toNotify EXCEPT ![h] = @ + 1]
  /\ UNCHANGED <<isSet, inner, outer, active, count, pc, watchVars, mainVars>>

\* No mutex is held: a thread that has looked and is not yet asleep misses it.
SignalNotifies(h) ==
  /\ toNotify[h] > 0 /\ toNotify' = [toNotify EXCEPT ![h] = @ - 1]
  /\ pc' = IF pc[h] = "asleep" THEN [pc EXCEPT ![h] = "wait"] ELSE pc
  /\ UNCHANGED <<isSet, inner, outer, active, count, arrived, received, watchVars, mainVars>>

\* signal_handler_thread_routine_
SignalThread(h) ==
  /\ h \in Signals
  /\ \/ /\ pc[h] = "wait" /\ at > Len(Script) /\ Goto(h, "ended") /\ UNCHANGED received
     \/ /\ pc[h] = "wait" /\ at <= Len(Script) /\ received[h] = 0
        /\ Goto(h, "falls_asleep") /\ UNCHANGED received
     \/ /\ pc[h] = "wait" /\ at <= Len(Script) /\ received[h] > 0
        /\ Goto(h, "routine") /\ received' = [received EXCEPT ![h] = @ - 1]
     \/ pc[h] = "falls_asleep" /\ Goto(h, "asleep") /\ UNCHANGED received
     \/ pc[h] = "asleep" /\ at > Len(Script) /\ Goto(h, "ended") /\ UNCHANGED received
  /\ UNCHANGED <<isSet, inner, outer, active, count, arrived, toNotify, watchVars, mainVars>>

\* signal_handler_routine_: the registered callbacks, under active_callbacks_mutex_.
SignalRoutine(h) ==
  /\ h \in Signals /\ pc[h] = "routine" /\ Free(outer, h)
  /\ IF active[h] THEN Goto(h, "event") /\ outer' = Take(outer, h, h)
                  ELSE Goto(h, "wait") /\ UNCHANGED outer
  /\ UNCHANGED <<isSet, inner, active, count, signalVars, watchVars, mainVars>>

-----------------------------------------------------------------------------
\* EventHandler::event_occurred_, in the thread of handler h.

Event(h) ==
  /\ pc[h] = "event" /\ Free(inner, h)
  /\ inner' = Take(inner, h, h)
  /\ Goto(h, IF ~isSet[h] THEN "over" ELSE IF h \in Range(Reloaders) THEN "reload" ELSE "close")
  /\ UNCHANGED <<isSet, outer, active, count, signalVars, watchVars, mainVars>>

\* The callback that reloads the configuration of the proxy returns.
Reload(h) ==
  /\ pc[h] = "reload" /\ Goto(h, "over")
  /\ UNCHANGED <<isSet, inner, outer, active, count, signalVars, watchVars, mainVars>>

\* The callback that register_event_handler sets: event_occurred_ of close_handler.
CloseEvent(h) ==
  /\ pc[h] = "close" /\ Free(inner, Close)
  /\ count' = IF isSet[Close] THEN 1 ELSE count
  /\ Goto(h, "over")
  /\ UNCHANGED <<isSet, inner, outer, active, signalVars, watchVars, mainVars>>

\* The event is over; the thread of a watcher goes on with its batch.
EventOver(h) ==
  /\ pc[h] = "over" /\ inner' = Take(inner, h, Nobody)
  /\ outer' = Take(outer, h, Nobody)
  /\ IF h \in Watchers /\ batch[h] > 0
       THEN Goto(h, "event") /\ batch' = [batch EXCEPT ![h] = @ - 1]
       ELSE Goto(h, "wait") /\ UNCHANGED batch
  /\ UNCHANGED <<isSet, active, count, signalVars, watch, inbox, info, mainVars>>

-----------------------------------------------------------------------------
\* main.

Doing(what) == at <= Len(Script) /\ Script[at][1] = what
Subject == Script[at][2]
Onward == at' = at + 1 /\ phase' = "callback"

\* wait_for_event
EventComes ==
  /\ Doing("wait") /\ count > 0 /\ Onward
  /\ UNCHANGED <<isSet, inner, outer, active, count, pc, signalVars, watchVars, alive, proxy>>

\* Whether unset_callback lets internal_callback_mutex_ go before it stops the
\* source.  Mutant: it keeps it.
LetsGoMutant(h) == FALSE
LetsGo(h) == TRUE

\* unset_callback: under the mutex of the callback...
ResetCallback ==
  /\ Doing("reset") /\ phase = "callback" /\ Free(inner, Subject)
  /\ isSet' = [isSet EXCEPT ![Subject] = FALSE]
  /\ inner' = IF LetsGo(Subject) THEN inner ELSE Take(inner, Subject, Main)
  /\ phase' = "source"
  /\ UNCHANGED <<outer, active, count, pc, signalVars, watchVars, at, alive, proxy>>

\* Whether the source can be told now: the periodic thread and the signal thread
\* hold their mutex while they call back.  Mutant: without that mutex.
MayStopMutant(h) == TRUE
MayStop(h) == Free(outer, h)

\* ... then callback_unset_nts_, which tells the source (destroy of a watcher sets
\* _destory and removes the watch, which can still be read as an event), ...
ResetSource ==
  /\ Doing("reset") /\ phase = "source" /\ MayStop(Subject)
  /\ active' = [active EXCEPT ![Subject] = FALSE]
  /\ IF Subject \in Watchers
       THEN phase' = "notify" /\ inbox' = [inbox EXCEPT ![Subject] = @ \cup {"other"}]
       ELSE phase' = "join" /\ UNCHANGED inbox
  /\ UNCHANGED <<isSet, inner, outer, count, pc, signalVars, watch, info, batch, at, alive, proxy>>

\* ... in a watcher notifies, without _callback_mutex, ...
ResetNotifies ==
  /\ Doing("reset") /\ phase = "notify"
  /\ pc' = Woken(Subject)
  /\ phase' = "join"
  /\ UNCHANGED <<isSet, inner, outer, active, count, signalVars, watchVars, at, alive, proxy>>

\* ... and joins its threads, unless it is that of a signal.
ResetJoins ==
  /\ Doing("reset") /\ phase = "join"
  /\ Subject \in Signals \/ pc[Subject] = "ended"
  /\ Subject \in Watchers => watch[Subject] = "ended"
  /\ inner' = Take(inner, Subject, Nobody)
  /\ Onward
  /\ UNCHANGED <<isSet, outer, active, count, pc, signalVars, watchVars, alive, proxy>>

\* force_exit, after which the keep-alive thread ends; main joins it.
AliveEnds ==
  /\ Doing("join") /\ alive /\ alive' = FALSE
  /\ UNCHANGED <<isSet, inner, outer, active, count, pc, signalVars, watchVars, at, phase, proxy>>
AliveJoined ==
  /\ Doing("join") /\ ~alive /\ Onward
  /\ UNCHANGED <<isSet, inner, outer, active, count, pc, signalVars, watchVars, alive, proxy>>

\* proxy.stop, and its destructor.
StopProxy ==
  /\ Doing("stop") /\ proxy' = "stopped" /\ Onward
  /\ UNCHANGED <<isSet, inner, outer, active, count, pc, signalVars, watchVars, alive>>

\* ~MultipleEventHandler, once its handlers are gone.
UnsetClose ==
  /\ Doing("unset") /\ Free(inner, Close)
  /\ isSet' = [isSet EXCEPT ![Close] = FALSE] /\ Onward
  /\ UNCHANGED <<inner, outer, active, count, pc, signalVars, watchVars, alive, proxy>>

\* main returns; the destructors of the SignalManagers stop their threads.
Exit ==
  /\ Doing("exit") /\ Onward
  /\ UNCHANGED <<isSet, inner, outer, active, count, pc, signalVars, watchVars, alive, proxy>>

MainStep ==
  \/ EventComes \/ ResetCallback \/ ResetSource \/ ResetNotifies \/ ResetJoins
  \/ AliveEnds \/ AliveJoined \/ StopProxy \/ UnsetClose \/ Exit
Source(h) == TimerFires(h) \/ CallbackThread(h) \/ SignalThread(h) \/ SignalRoutine(h)
Thread(h) == Event(h) \/ CloseEvent(h) \/ EventOver(h)

Next ==
  \/ MainStep
  \/ \E h \in Handlers : Source(h) \/ Thread(h) \/ Reload(h) \/ FileChanges(h) \/ WatchThread(h)
  \/ \E h \in Signals : SignalArrives(h) \/ SignalNotifies(h)

Spec == Init /\ [][Next]_vars

\* Threads go on and timers fire; main gets a lock that is free again and again; no
\* signal and no change in the folder has to come, and no reload has to return.
FairSpec ==
  /\ Spec
  /\ SF_vars(MainStep)
  /\ \A h \in Handlers : WF_vars(Source(h) \/ Thread(h))
  /\ \A h \in Watchers : WF_vars(WatchThread(h))
  /\ \A h \in Signals : WF_vars(SignalNotifies(h))

-----------------------------------------------------------------------------
\* Properties.

\* main is past the reset of h, or the unset of close_handler: the object is gone.
Gone(h) == \E i \in 1..Len(Script) : i < at /\ Script[i][1] \in {"reset", "unset"} /\ Script[i][2] = h

\* No reload runs on a proxy that is stopped, however late a timer or a change of
\* the file comes ("Before stopping the proxy erase event handlers that reload
\* configuration").
NoReloadOnStoppedProxy == \A h \in Handlers : pc[h] = "reload" => proxy = "running"

\* No thread is in event_occurred_ of a handler that was destroyed, and none calls
\* the close handler after it was ("in case a callback arise, it does not call a
\* deleted object").
NobodyCallsDeletedHandler ==
  \A h \in Handlers :
    /\ pc[h] \in {"event", "reload", "close", "over"} => ~Gone(h)
    /\ pc[h] = "close" => ~Gone(Close)

\* A reload waits for the mutex of the pipe, which a call that waits for a transmission
\* can hold for ever (README, section 6): the process ends only if it returns.
ReloadsReturn == \A h \in Range(Reloaders) : pc[h] = "reload" ~> pc[h] # "reload"
ProcessEnded == at > Len(Script) /\ \A h \in Handlers : pc[h] = "ended"

\* The thread that calls back had tested the predicate before _destory was set, slept
\* after the notification of destroy, and the thread that reads the folder has ended:
\* nobody is left to wake the one main joins.
SleptThroughDestroy ==
  /\ Doing("reset") /\ phase = "join" /\ Subject \in Watchers
  /\ watch[Subject] = "ended" /\ pc[Subject] = "asleep"

\* Once an event has been counted, and if reloads return, the process ends with all its
\* threads, or a watcher slept through its destroy: main does not wait for a callback
\* that waits for main, and that sleeper is all it can wait for without end.  (The help
\* of the program promises more: "To stop the execution gracefully use SIGINT (C^) or
\* SIGTERM (kill) signals".)
ShutdownCompletes ==
  ReloadsReturn => (count > 0 ~> (ProcessEnded \/ SleptThroughDestroy))

=============================================================================
