--------------------------- MODULE SlotThreadPool ---------------------------
(***************************************************************************)
(* The pool of threads that runs Track::transmit_ and RpcBridge::transmit_ *)
(* (cpp_utils SlotThreadPool), with the wait handlers it is built from.    *)
(*                                                                         *)
(* There are two queues of task ids, by the transport priority of the      *)
(* topic.  Each is a DBQueueWaitHandler: a queue, and a counter that is    *)
(* raised AFTER a value was pushed and lowered BEFORE one is popped, each  *)
(* under a mutex of its own.  A thread looks at queue 0: if it holds       *)
(* something it consumes from queue 0 with no time limit, else it consumes *)
(* from queue 1 for at most a millisecond.                                 *)
(***************************************************************************)
EXTENDS Integers, Sequences, FiniteSets

CONSTANTS
  Workers,      \* threads of the pool
  Emitters,     \* threads that emit tasks
  Nobody,       \* slots_mutex_ not taken, no task in hand
  Tasks,        \* registered task ids
  Priority,     \* [Tasks -> Queues]: the queue a task is emitted to
  MaxEmits      \* bound: [Tasks -> Nat], how many times each task is emitted

Queues == {0, 1}

ASSUME ThreadsAssumption ==
  /\ Workers \cap Emitters = {}
  /\ IsFiniteSet(Workers) /\ Workers # {}
  /\ Nobody \notin Emitters /\ Nobody \notin Tasks
ASSUME TasksAssumption ==
  /\ Priority \in [Tasks -> Queues]
  /\ MaxEmits \in [Tasks -> Nat]

VARIABLES
  enabled,     \* SlotThreadPool::enabled_
  queue,       \* content of each DBQueue, oldest first
  value,       \* CounterWaitHandler::value_ of each queue
  open,        \* WaitHandler::enabled_ of each queue
  slotsMutex,  \* holder of slots_mutex_ among the emitters
  wpc, hand,   \* place of each thread, and the task id it got
  epc, given,  \* place of each emitter, and the task id it emits
  cpc,         \* place of the thread that enables and disables the pool
  emitted, finished  \* times each task was emitted and was executed

vars == <<enabled, queue, value, open, slotsMutex, wpc, hand, epc, given, cpc,
          emitted, finished>>

\* Places of a thread on its way through consume of queue q.
Enter(q) == <<"enter", q>>     \* about to take the handler's mutex
Wait(q)  == <<"wait", q>>      \* blocked on the condition variable
Awake(q) == <<"awake", q>>     \* notified, the mutex not yet taken again
Pop(q)   == <<"pop", q>>       \* counter lowered, value not yet popped
OnQueue(q) == {Enter(q), Wait(q), Awake(q), Pop(q)}
Choosing == <<"choose">>
Running  == <<"run">>
Ended    == <<"ended">>        \* before enable, and after the routine returned
Places == {Choosing, Running, Ended} \cup OnQueue(0) \cup OnQueue(1)

Init ==
  /\ enabled = FALSE
  /\ queue = [q \in Queues |-> <<>>]
  /\ value = [q \in Queues |-> 0]
  /\ open = [q \in Queues |-> TRUE]
  /\ slotsMutex = Nobody
  /\ wpc = [w \in Workers |-> Ended]
  /\ hand = [w \in Workers |-> Nobody]
  /\ epc = [e \in Emitters |-> "idle"]
  /\ given = [e \in Emitters |-> Nobody]
  /\ cpc = "idle"
  /\ emitted = [t \in Tasks |-> 0]
  /\ finished = [t \in Tasks |-> 0]

-----------------------------------------------------------------------------
\* Mutant: the condition variable is not notified.
WakeOneMutant(q, places) == {places}

\* notify_one: at most one of the threads blocked on the condition variable of
\* queue q leaves it.
WakeOne(q, places) ==
  LET blocked == {w \in Workers : places[w] = Wait(q)}
  IN  IF blocked = {} THEN {places}
      ELSE {[places EXCEPT ![w] = Awake(q)] : w \in blocked}

\* emit and emit_by_priority: slots_mutex_ is held around the whole produce.
Emit(e, t) ==
  /\ epc[e] = "idle" /\ slotsMutex = Nobody
  /\ emitted[t] < MaxEmits[t]
  /\ slotsMutex' = e
  /\ given' = [given EXCEPT ![e] = t]
  /\ epc' = [epc EXCEPT ![e] = "push"]
  /\ emitted' = [emitted EXCEPT ![t] = @ + 1]
  /\ UNCHANGED <<enabled, queue, value, open, wpc, hand, cpc, finished>>

\* The queue emit_by_priority chooses.  Mutant: it always takes the first.
QueueOfMutant(t) == 0
QueueOf(t) == Priority[t]

Push(e) ==
  /\ epc[e] = "push"
  /\ queue' = [queue EXCEPT ![QueueOf(given[e])] = Append(@, given[e])]
  /\ epc' = [epc EXCEPT ![e] = "count"]
  /\ UNCHANGED <<enabled, value, open, slotsMutex, wpc, hand, given, cpc, emitted,
                 finished>>

\* CounterWaitHandler::operator++
Count(e) ==
  /\ epc[e] = "count"
  /\ LET q == Priority[given[e]]
     IN  /\ value' = [value EXCEPT ![q] = @ + 1]
         /\ wpc' \in WakeOne(q, wpc)
  /\ slotsMutex' = Nobody
  /\ given' = [given EXCEPT ![e] = Nobody]
  /\ epc' = [epc EXCEPT ![e] = "idle"]
  /\ UNCHANGED <<enabled, queue, open, hand, cpc, emitted, finished>>

-----------------------------------------------------------------------------
\* thread_routine_

\* if (!task_queue_priority_0.queue_.BothEmpty()).  Mutant: the sense is inverted.
QueueToServeMutant == IF queue[1] # <<>> THEN 1 ELSE 0
QueueToServe == IF queue[0] # <<>> THEN 0 ELSE 1

\* It is read without any lock.
Choose(w) ==
  /\ wpc[w] = Choosing
  /\ wpc' = [wpc EXCEPT ![w] = Enter(QueueToServe)]
  /\ UNCHANGED <<enabled, queue, value, open, slotsMutex, hand, epc, given, cpc,
                 emitted, finished>>

\* The counter is above the value waited for.
IsPositive(n) == n > 0

\* The predicate of blocking_wait_ with the mutex taken.  A closed queue ends
\* the routine (DisabledException); a positive counter is lowered, and if it
\* is still positive the next waiter is notified.
Decide(w, q, otherwise) ==
  IF ~open[q] THEN wpc' = [wpc EXCEPT ![w] = Ended] /\ UNCHANGED value
  ELSE IF IsPositive(value[q])
    THEN /\ value' = [value EXCEPT ![q] = @ - 1]
         /\ IF value[q] > 1
              THEN wpc' \in WakeOne(q, [wpc EXCEPT ![w] = Pop(q)])
              ELSE wpc' = [wpc EXCEPT ![w] = Pop(q)]
    ELSE wpc' = [wpc EXCEPT ![w] = otherwise] /\ UNCHANGED value

\* wait_and_decrement, from the call or after a notification
Consume(w, q) ==
  /\ wpc[w] \in {Enter(q), Awake(q)}
  /\ Decide(w, q, Wait(q))
  /\ UNCHANGED <<enabled, queue, open, slotsMutex, hand, epc, given, cpc, emitted,
                 finished>>

\* The millisecond of queue 1 is over: consume returns 0 and the loop goes on,
\* unless the predicate holds by now.
Timeout(w) ==
  /\ wpc[w] \in {Wait(1), Awake(1)}
  /\ Decide(w, 1, Choosing)
  /\ UNCHANGED <<enabled, queue, open, slotsMutex, hand, epc, given, cpc, emitted,
                 finished>>

\* What DBQueue::Pop leaves.  Mutant: the value is read and stays.
PoppedMutant(s) == s
Popped(s) == Tail(s)

\* get_next_value_, and the look-up of the slot
PopTask(w, q) ==
  /\ wpc[w] = Pop(q) /\ queue[q] # <<>>
  /\ hand' = [hand EXCEPT ![w] = Head(queue[q])]
  /\ queue' = [queue EXCEPT ![q] = Popped(@)]
  /\ wpc' = [wpc EXCEPT ![w] = Running]
  /\ UNCHANGED <<enabled, value, open, slotsMutex, epc, given, cpc, emitted, finished>>

\* task() returns
FinishTask(w) ==
  /\ wpc[w] = Running
  /\ finished' = [finished EXCEPT ![hand[w]] = @ + 1]
  /\ hand' = [hand EXCEPT ![w] = Nobody]
  /\ wpc' = [wpc EXCEPT ![w] = Choosing]
  /\ UNCHANGED <<enabled, queue, value, open, slotsMutex, epc, given, cpc, emitted>>

Routine(w) ==
  \/ Choose(w) \/ Timeout(w) \/ FinishTask(w)
  \/ \E q \in Queues : Consume(w, q) \/ PopTask(w, q)

-----------------------------------------------------------------------------
\* enable starts the threads; it does not enable the queues again.
Enable ==
  /\ cpc = "idle" /\ ~enabled
  /\ enabled' = TRUE
  /\ wpc' = [w \in Workers |-> Choosing]
  /\ UNCHANGED <<queue, value, open, slotsMutex, hand, epc, given, cpc, emitted,
                 finished>>

DisableCall ==
  /\ cpc = "idle" /\ enabled
  /\ enabled' = FALSE
  /\ cpc' = "close0"
  /\ UNCHANGED <<queue, value, open, slotsMutex, wpc, hand, epc, given, emitted,
                 finished>>

\* notify_all.  Mutant: it is missing.
WakeAllMutant(q) == wpc
WakeAll(q) == [w \in Workers |-> IF wpc[w] = Wait(q) THEN Awake(q) ELSE wpc[w]]

\* WaitHandler::disable of one queue
Close(q) ==
  /\ cpc = IF q = 0 THEN "close0" ELSE "close1"
  /\ open' = [open EXCEPT ![q] = FALSE]
  /\ wpc' = WakeAll(q)
  /\ cpc' = IF q = 0 THEN "close1" ELSE "join"
  /\ UNCHANGED <<enabled, queue, value, slotsMutex, hand, epc, given, emitted,
                 finished>>

Join ==
  /\ cpc = "join" /\ \A w \in Workers : wpc[w] = Ended
  /\ cpc' = "idle"
  /\ UNCHANGED <<enabled, queue, value, open, slotsMutex, wpc, hand, epc, given,
                 emitted, finished>>

Control == Close(0) \/ Close(1) \/ Join

Next ==
  \/ \E e \in Emitters : (\E t \in Tasks : Emit(e, t)) \/ Push(e) \/ Count(e)
  \/ \E w \in Workers : Routine(w)
  \/ Enable \/ DisableCall \/ Control

Spec == Init /\ [][Next]_vars

\* The operating system runs every thread, and time passes.
FairSpec ==
  /\ Spec
  /\ \A e \in Emitters : WF_vars(Push(e) \/ Count(e))
  /\ \A w \in Workers : WF_vars(Routine(w))
  /\ WF_vars(Control)

-----------------------------------------------------------------------------
\* Everything has its type; the counters are unsigned.
TypeOK ==
  /\ enabled \in BOOLEAN
  /\ queue \in [Queues -> Seq(Tasks)]
  /\ value \in [Queues -> Nat]
  /\ open \in [Queues -> BOOLEAN]
  /\ slotsMutex \in Emitters \cup {Nobody}
  /\ wpc \in [Workers -> Places]
  /\ hand \in [Workers -> Tasks \cup {Nobody}]
  /\ epc \in [Emitters -> {"idle", "push", "count"}]
  /\ given \in [Emitters -> Tasks \cup {Nobody}]
  /\ cpc \in {"idle", "close0", "close1", "join"}
  /\ emitted \in [Tasks -> Nat] /\ finished \in [Tasks -> Nat]

\* Threads that lowered the counter of q and have not popped yet, and emitters
\* that pushed to q and have not raised the counter yet.
Popping(q)  == {w \in Workers : wpc[w] = Pop(q)}
Counting(q) == {e \in Emitters : epc[e] = "count" /\ Priority[given[e]] = q}

\* The counter and the queue, each under its own mutex, never drift apart: a
\* queue holds what the counter says, plus what is promised to a thread that
\* has not popped it, plus what an emitter has not counted yet.
CounterMatchesQueue ==
  \A q \in Queues :
    Len(queue[q]) = value[q] + Cardinality(Popping(q)) + Cardinality(Counting(q))

\* A thread sees queue 0 hold a task, another thread takes the task, and the
\* first blocks on queue 0 without time limit, deaf to queue 1.  It never
\* happens to all the threads for good: if all of them are blocked there, an
\* emitter is about to raise the counter of queue 0 and wakes one.
SomeThreadServesBothQueues ==
  (\A w \in Workers : wpc[w] = Wait(0)) => Counting(0) # {}

\* Every execution was asked for, and no request is executed twice.
ExecutedAtMostOncePerEmit ==
  \A t \in Tasks :
    finished[t] + Cardinality({w \in Workers : hand[w] = t}) =< emitted[t]

\* No wake-up is lost between the counters and the condition variables: a
\* queued task is executed, unless the pool is disabled.
QueuedTaskIsExecuted ==
  \A q \in Queues :
    (enabled /\ queue[q] # <<>>) ~> (queue[q] = <<>> \/ ~open[q])

\* disable returns: every thread leaves its wait or its task and is joined.
DisableReturns == (cpc # "idle") ~> (cpc = "idle")
=============================================================================
