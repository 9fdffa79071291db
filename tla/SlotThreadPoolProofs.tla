------------------------ MODULE SlotThreadPoolProofs ------------------------
(***************************************************************************)
(* What the thread pool guarantees for any number of threads, emitters and *)
(* tasks: no task is lost between a queue and its counter, none runs twice *)
(* for one emit, and the threads do not all go deaf to the second queue.   *)
(*                                                                         *)
(* The counter of a queue and the queue have a mutex each, so IInv accounts*)
(* for who is between the two: the threads that lowered the counter and    *)
(* have not popped, and the one emitter that holds slots_mutex_ and has not*)
(* counted.                                                                *)
(***************************************************************************)
EXTENDS SlotThreadPool, FiniteSetTheorems, FunctionTheorems, SequenceTheorems, TLAPS

\* Only the holder of slots_mutex_ is in the middle of an emit.
MutexHeld ==
  \A e \in Emitters : epc[e] # "idle" => slotsMutex = e /\ given[e] \in Tasks

\* A thread has a task in hand while it runs one.
HandsFull == \A w \in Workers : hand[w] # Nobody <=> wpc[w] = Running

\* A pool that is not enabled, and not on its way to be disabled, has no thread.
NoThreadLeft == (cpc = "idle" /\ ~enabled) => \A w \in Workers : wpc[w] = Ended

\* Each task is in the queue of its priority.
QueuedByPriority ==
  \A q \in Queues : \A i \in 1..Len(queue[q]) : Priority[queue[q][i]] = q

\* The threads that wait for queue 0 and those that are about to.
OnlyForQueue0 == {Enter(0), Wait(0), Awake(0)}

\* The last of the threads to be drawn to queue 0 saw it hold a task, and only a thread
\* that is past its wait can take that one.
DrawnBySomething ==
  (\A w \in Workers : wpc[w] \in OnlyForQueue0) => queue[0] # <<>>

\* A counter is not raised with all the threads asleep: one of them is woken.
CountedWakes == (\A w \in Workers : wpc[w] = Wait(0)) => value[0] = 0

\* Where the tasks of each emit are.
Holding(t) == {w \in Workers : hand[w] = t}
Pushing(t) == {e \in Emitters : epc[e] = "push" /\ given[e] = t}
Occurrences(s, t) == {i \in 1..Len(s) : s[i] = t}
Queued(t) == Occurrences(queue[Priority[t]], t)
Accounted(t) ==
  emitted[t] = finished[t] + Cardinality(Holding(t)) + Cardinality(Queued(t))
                 + Cardinality(Pushing(t))
EveryEmitIsSomewhere == \A t \in Tasks : Accounted(t)

BaseInv == TypeOK /\ MutexHeld /\ HandsFull /\ NoThreadLeft
IInv == /\ BaseInv /\ QueuedByPriority /\ CounterMatchesQueue
        /\ DrawnBySomething /\ CountedWakes /\ EveryEmitIsSomewhere

-----------------------------------------------------------------------------
\* The places of a thread are told apart.
LEMMA PlacesDiffer ==
  /\ Choosing # Running /\ Choosing # Ended /\ Running # Ended
  /\ \A q \in Queues : \A p \in OnQueue(q) : p # Choosing /\ p # Running /\ p # Ended
  /\ \A q, r \in Queues :
       /\ Pop(q) # Enter(r) /\ Pop(q) # Wait(r) /\ Pop(q) # Awake(r)
       /\ Wait(q) # Enter(r) /\ Wait(q) # Awake(r) /\ Enter(q) # Awake(r)
       /\ q # r => Pop(q) # Pop(r) /\ Wait(q) # Wait(r) /\ Enter(q) # Enter(r)
                   /\ Awake(q) # Awake(r)
  BY DEF Choosing, Running, Ended, OnQueue, Enter, Wait, Awake, Pop

LEMMA PlacesAre ==
  /\ Choosing \in Places /\ Running \in Places /\ Ended \in Places
  /\ \A q \in Queues : /\ OnQueue(q) = {Enter(q), Wait(q), Awake(q), Pop(q)}
                       /\ OnQueue(q) \subseteq Places
  /\ 0 \in Queues /\ 1 \in Queues
  BY DEF Places, OnQueue, Queues

\* What notify_one does to the places: at most a blocked thread is awake.
Nudged(q, places, after) ==
  /\ after \in [Workers -> Places]
  /\ \A w \in Workers : \/ after[w] = places[w]
                        \/ places[w] = Wait(q) /\ after[w] = Awake(q)
LEMMA WakeOneNudges ==
  ASSUME NEW q \in Queues, NEW places \in [Workers -> Places], NEW after \in WakeOne(q, places)
  PROVE  /\ Nudged(q, places, after)
         /\ (\E w \in Workers : places[w] = Wait(q)) => \E w \in Workers : after[w] = Awake(q)
  BY PlacesAre DEF WakeOne, Nudged

\* The three ways a wait is decided.
LEMMA DecideCases ==
  ASSUME TypeOK, NEW w \in Workers, NEW q \in Queues, NEW otherwise \in Places,
         Decide(w, q, otherwise)
  PROVE  \/ UNCHANGED value /\ wpc' = [wpc EXCEPT ![w] = Ended]
         \/ UNCHANGED value /\ value[q] = 0 /\ wpc' = [wpc EXCEPT ![w] = otherwise]
         \/ /\ value[q] > 0 /\ value' = [value EXCEPT ![q] = value[q] - 1]
            /\ Nudged(q, [wpc EXCEPT ![w] = Pop(q)], wpc')
  <1>1. value[q] \in Nat /\ wpc \in [Workers -> Places]
    BY DEF TypeOK
  <1>p. PICK there : there = [wpc EXCEPT ![w] = Pop(q)]
    OBVIOUS
  <1>2. there \in [Workers -> Places]
    BY <1>1, <1>p, PlacesAre
  <1>3. Nudged(q, there, there)
    BY <1>2 DEF Nudged
  <1>4. CASE value[q] > 1 /\ open[q]
    <2>1. value' = [value EXCEPT ![q] = value[q] - 1] /\ wpc' \in WakeOne(q, there)
      BY <1>1, <1>4, <1>p DEF Decide, IsPositive
    <2>2. Nudged(q, there, wpc')
      BY <1>2, <2>1, WakeOneNudges
    <2> QED
      BY <1>1, <1>4, <1>p, <2>1, <2>2
  <1>5. CASE value[q] = 1 /\ open[q]
    <2>1. value' = [value EXCEPT ![q] = value[q] - 1] /\ wpc' = there
      BY <1>1, <1>5, <1>p DEF Decide, IsPositive
    <2> QED
      BY <1>3, <1>5, <1>p, <2>1
  <1>6. CASE value[q] = 0 /\ open[q]
    BY <1>6 DEF Decide, IsPositive
  <1>7. CASE ~open[q]
    BY <1>7 DEF Decide
  <1> QED
    BY <1>1, <1>4, <1>5, <1>6, <1>7

\* Waiting goes on to somewhere that is neither Pop nor Running.
LEMMA WaitCases ==
  ASSUME TypeOK, NEW w \in Workers, NEW q \in Queues, Consume(w, q) \/ (q = 1 /\ Timeout(w))
  PROVE  /\ wpc[w] \in {Enter(q), Awake(q), Wait(q)}
         /\ \/ /\ UNCHANGED value
               /\ \E p \in {Ended, Wait(q), Choosing} :
                    /\ wpc' = [wpc EXCEPT ![w] = p]
                    /\ p = Wait(q) => value[q] = 0
                    /\ p = Choosing => q = 1
            \/ /\ value[q] > 0 /\ value' = [value EXCEPT ![q] = value[q] - 1]
               /\ Nudged(q, [wpc EXCEPT ![w] = Pop(q)], wpc')
  <1>1. CASE Consume(w, q)
    BY <1>1, DecideCases, PlacesAre, PlacesDiffer DEF Consume
  <1>2. CASE q = 1 /\ Timeout(w)
    BY <1>2, DecideCases, PlacesAre, PlacesDiffer DEF Timeout
  <1> QED
    BY <1>1, <1>2

-----------------------------------------------------------------------------
\* Types.
LEMMA BaseInit == Init => BaseInv
  <1> SUFFICES ASSUME Init PROVE BaseInv
    OBVIOUS
  <1>1. TypeOK
    <2>1. queue \in [Queues -> Seq(Tasks)]
      BY EmptySeq DEF Init
    <2> QED
      BY <2>1, PlacesAre DEF Init, TypeOK
  <1>2. MutexHeld /\ HandsFull /\ NoThreadLeft
    BY PlacesDiffer DEF Init, MutexHeld, HandsFull, NoThreadLeft
  <1> QED
    BY <1>1, <1>2 DEF BaseInv

\* A nudge never wakes a thread that runs, pops, chooses or has ended.
LEMMA NudgedKeeps ==
  ASSUME NEW q \in Queues, NEW places \in [Workers -> Places], NEW after,
         Nudged(q, places, after)
  PROVE  /\ \A w \in Workers :
              /\ after[w] = Running <=> places[w] = Running
              /\ after[w] = Ended <=> places[w] = Ended
              /\ \A r \in Queues : after[w] = Pop(r) <=> places[w] = Pop(r)
              /\ after[w] \in OnlyForQueue0 <=> places[w] \in OnlyForQueue0
  <1> SUFFICES ASSUME NEW w \in Workers
               PROVE  /\ after[w] = Running <=> places[w] = Running
                      /\ after[w] = Ended <=> places[w] = Ended
                      /\ \A r \in Queues : after[w] = Pop(r) <=> places[w] = Pop(r)
                      /\ after[w] \in OnlyForQueue0 <=> places[w] \in OnlyForQueue0
    OBVIOUS
  <1>1. CASE after[w] = places[w]
    BY <1>1
  <1>2. CASE places[w] = Wait(q) /\ after[w] = Awake(q)
    <2>1. CASE q = 0
      BY <1>2, <2>1, PlacesDiffer, PlacesAre DEF OnlyForQueue0
    <2>2. CASE q = 1
      BY <1>2, <2>2, PlacesDiffer, PlacesAre DEF OnlyForQueue0
    <2> QED
      BY <2>1, <2>2 DEF Queues
  <1> QED
    BY <1>1, <1>2 DEF Nudged

\* A thread that waits, or has waited: it alone moves, but for a nudge.
LEMMA WaitMoves ==
  ASSUME TypeOK, NEW w \in Workers, NEW q \in Queues, Consume(w, q) \/ (q = 1 /\ Timeout(w))
  PROVE  /\ wpc' \in [Workers -> Places] /\ value' \in [Queues -> Nat]
         /\ wpc[w] # Running /\ wpc[w] # Ended /\ wpc'[w] # Running
         /\ \A r \in Queues : wpc[w] # Pop(r)
         /\ \A x \in Workers \ {w} :
              /\ wpc'[x] = Running <=> wpc[x] = Running
              /\ wpc'[x] = Ended <=> wpc[x] = Ended
              /\ \A r \in Queues : wpc'[x] = Pop(r) <=> wpc[x] = Pop(r)
  <1>t. wpc \in [Workers -> Places] /\ value \in [Queues -> Nat]
    BY DEF TypeOK
  <1>1. wpc[w] # Running /\ wpc[w] # Ended /\ \A r \in Queues : wpc[w] # Pop(r)
    <2>1. wpc[w] \in {Enter(q), Awake(q), Wait(q)}
      BY WaitCases
    <2>2. wpc[w] \in OnQueue(q)
      BY <2>1, PlacesAre
    <2> QED
      BY <2>1, <2>2, PlacesDiffer
  <1>2. CASE UNCHANGED value /\ \E p \in {Ended, Wait(q), Choosing} : wpc' = [wpc EXCEPT ![w] = p]
    BY <1>1, <1>2, <1>t, PlacesAre, PlacesDiffer
  <1>3. CASE /\ value[q] > 0 /\ value' = [value EXCEPT ![q] = value[q] - 1]
             /\ Nudged(q, [wpc EXCEPT ![w] = Pop(q)], wpc')
    <2>1. value' \in [Queues -> Nat]
      BY <1>3, <1>t
    <2>2. PICK there \in [Workers -> Places] : there = [wpc EXCEPT ![w] = Pop(q)]
      BY <1>t, PlacesAre
    <2>3. Nudged(q, there, wpc')
      BY <1>3, <2>2
    <2>4. wpc' \in [Workers -> Places]
      BY <2>3 DEF Nudged
    <2>5. there[w] # Running /\ \A x \in Workers \ {w} : there[x] = wpc[x]
      BY <2>2, <1>t, PlacesAre, PlacesDiffer
    <2> QED
      BY <1>1, <2>1, <2>3, <2>4, <2>5, NudgedKeeps
  <1> QED
    BY <1>2, <1>3, WaitCases

LEMMA TypeStep == BaseInv /\ [Next]_vars => TypeOK'
  <1> SUFFICES ASSUME BaseInv, [Next]_vars PROVE TypeOK'
    OBVIOUS
  <1>t. TypeOK
    BY DEF BaseInv
  <1> USE <1>t
  <1>1. CASE UNCHANGED vars
    BY <1>1 DEF vars, TypeOK
  <1>2. ASSUME NEW e \in Emitters, NEW t \in Tasks, Emit(e, t) PROVE TypeOK'
    BY <1>2 DEF Emit, TypeOK
  <1>3. ASSUME NEW e \in Emitters, Push(e) PROVE TypeOK'
    <2>1. given[e] \in Tasks /\ QueueOf(given[e]) \in Queues
      BY <1>3, TasksAssumption DEF Push, BaseInv, MutexHeld, QueueOf
    <2>2. Append(queue[QueueOf(given[e])], given[e]) \in Seq(Tasks)
      BY <2>1 DEF TypeOK
    <2> QED
      BY <1>3, <2>1, <2>2 DEF Push, TypeOK
  <1>4. ASSUME NEW e \in Emitters, Count(e) PROVE TypeOK'
    <2>1. Priority[given[e]] \in Queues
      BY <1>4, TasksAssumption DEF Count, BaseInv, MutexHeld
    <2>2. wpc' \in [Workers -> Places]
      BY <1>4, <2>1, WakeOneNudges DEF Count, TypeOK, Nudged
    <2> QED
      BY <1>4, <2>1, <2>2 DEF Count, TypeOK
  <1>5. ASSUME NEW w \in Workers, Choose(w) PROVE TypeOK'
    <2>1. Enter(QueueToServe) \in Places
      BY PlacesAre DEF QueueToServe
    <2> QED
      BY <1>5, <2>1 DEF Choose, TypeOK
  <1>6. ASSUME NEW w \in Workers, NEW q \in Queues, Consume(w, q) \/ (q = 1 /\ Timeout(w))
        PROVE  TypeOK'
    <2>1. wpc' \in [Workers -> Places] /\ value' \in [Queues -> Nat]
      BY <1>6, WaitMoves
    <2> QED
      BY <1>6, <2>1 DEF Consume, Timeout, TypeOK
  <1>7. ASSUME NEW w \in Workers, NEW q \in Queues, PopTask(w, q) PROVE TypeOK'
    <2>1. queue[q] \in Seq(Tasks) /\ queue[q] # <<>>
      BY <1>7 DEF PopTask, TypeOK
    <2>2. Head(queue[q]) \in Tasks /\ Tail(queue[q]) \in Seq(Tasks)
      BY <2>1
    <2> QED
      BY <1>7, <2>2, PlacesAre DEF PopTask, Popped, TypeOK
  <1>8. ASSUME NEW w \in Workers, FinishTask(w) PROVE TypeOK'
    <2>1. hand[w] \in Tasks
      BY <1>8 DEF FinishTask, BaseInv, HandsFull, TypeOK
    <2> QED
      BY <1>8, <2>1, PlacesAre DEF FinishTask, TypeOK
  <1>9. CASE Enable \/ DisableCall \/ Join
    BY <1>9, PlacesAre DEF Enable, DisableCall, Join, TypeOK
  <1>10. ASSUME NEW q \in Queues, Close(q) PROVE TypeOK'
    BY <1>10, PlacesAre DEF Close, WakeAll, TypeOK
  <1> QED
    BY <1>1, <1>2, <1>3, <1>4, <1>5, <1>6, <1>7, <1>8, <1>9, <1>10, PlacesAre
    DEF Next, Routine, Control

\* What each step does to the places: who runs, who has ended, who is to pop.
SamePlaces ==
  \A w \in Workers : /\ wpc'[w] = Running <=> wpc[w] = Running
                     /\ wpc'[w] = Ended <=> wpc[w] = Ended
                     /\ \A r \in Queues : wpc'[w] = Pop(r) <=> wpc[w] = Pop(r)

LEMMA CountPlaces ==
  ASSUME BaseInv, NEW e \in Emitters, Count(e)
  PROVE  SamePlaces
  <1>1. Priority[given[e]] \in Queues /\ wpc \in [Workers -> Places]
    BY TasksAssumption DEF Count, BaseInv, MutexHeld, TypeOK
  <1> QED
    BY <1>1, WakeOneNudges, NudgedKeeps DEF Count, SamePlaces

LEMMA ClosePlaces ==
  ASSUME BaseInv, NEW q \in Queues, Close(q)
  PROVE  SamePlaces
  <1>1. \A w \in Workers : wpc'[w] = IF wpc[w] = Wait(q) THEN Awake(q) ELSE wpc[w]
    BY DEF Close, WakeAll
  <1> QED
    BY <1>1, PlacesAre, PlacesDiffer DEF SamePlaces

LEMMA ChoosePlaces ==
  ASSUME BaseInv, NEW w \in Workers, Choose(w)
  PROVE  SamePlaces
  <1>1. wpc[w] = Choosing /\ QueueToServe \in Queues
    BY PlacesAre DEF Choose, QueueToServe
  <1>2. Enter(QueueToServe) # Running /\ Enter(QueueToServe) # Ended
        /\ \A r \in Queues : Enter(QueueToServe) # Pop(r)
    BY <1>1, PlacesAre, PlacesDiffer
  <1>3. /\ wpc'[w] = Enter(QueueToServe)
        /\ \A x \in Workers \ {w} : wpc'[x] = wpc[x]
    BY DEF Choose, BaseInv, TypeOK
  <1> QED
    BY <1>1, <1>2, <1>3, PlacesAre, PlacesDiffer DEF SamePlaces

LEMMA MutexHeldStep == BaseInv /\ [Next]_vars => MutexHeld'
  <1> SUFFICES ASSUME BaseInv, [Next]_vars PROVE MutexHeld'
    OBVIOUS
  <1> USE DEF BaseInv, MutexHeld
  <1>1. CASE UNCHANGED <<epc, slotsMutex, given>>
    BY <1>1
  <1>2. ASSUME NEW e \in Emitters, NEW t \in Tasks, Emit(e, t) PROVE MutexHeld'
    BY <1>2, ThreadsAssumption DEF Emit, TypeOK
  <1>3. ASSUME NEW e \in Emitters, Push(e) PROVE MutexHeld'
    BY <1>3 DEF Push, TypeOK
  <1>4. ASSUME NEW e \in Emitters, Count(e) PROVE MutexHeld'
    BY <1>4, ThreadsAssumption DEF Count, TypeOK
  <1> QED
    BY <1>1, <1>2, <1>3, <1>4
    DEF Next, Routine, Control, vars, Choose, Timeout, FinishTask, Consume, PopTask,
        Enable, DisableCall, Close, Join

LEMMA HandsFullStep == BaseInv /\ [Next]_vars => HandsFull'
  <1> SUFFICES ASSUME BaseInv, [Next]_vars PROVE HandsFull'
    OBVIOUS
  <1>t. HandsFull /\ TypeOK
    BY DEF BaseInv
  <1>s. SamePlaces /\ hand' = hand => HandsFull'
    BY <1>t DEF HandsFull, SamePlaces
  <1>1. CASE UNCHANGED <<wpc, hand>>
    BY <1>1, <1>t DEF HandsFull
  <1>2. ASSUME NEW e \in Emitters, Count(e) PROVE HandsFull'
    BY <1>2, <1>s, CountPlaces DEF Count
  <1>3. ASSUME NEW w \in Workers, Choose(w) PROVE HandsFull'
    BY <1>3, <1>s, ChoosePlaces DEF Choose
  <1>4. ASSUME NEW w \in Workers, NEW q \in Queues, Consume(w, q) \/ (q = 1 /\ Timeout(w))
        PROVE  HandsFull'
    <2>1. hand' = hand
      BY <1>4 DEF Consume, Timeout
    <2> QED
      BY <1>4, <2>1, <1>t, WaitMoves DEF HandsFull
  <1>5. ASSUME NEW w \in Workers, NEW q \in Queues, PopTask(w, q) PROVE HandsFull'
    <2>1. Head(queue[q]) \in Tasks
      BY <1>5, <1>t DEF PopTask, TypeOK
    <2> QED
      BY <1>5, <2>1, <1>t, ThreadsAssumption DEF PopTask, HandsFull, TypeOK
  <1>6. ASSUME NEW w \in Workers, FinishTask(w) PROVE HandsFull'
    BY <1>6, <1>t, PlacesDiffer DEF FinishTask, HandsFull, TypeOK
  <1>7. CASE Enable
    BY <1>7, <1>t, PlacesDiffer DEF Enable, HandsFull, BaseInv, NoThreadLeft
  <1>8. ASSUME NEW q \in Queues, Close(q) PROVE HandsFull'
    BY <1>8, <1>s, ClosePlaces DEF Close
  <1> QED
    BY <1>1, <1>2, <1>3, <1>4, <1>5, <1>6, <1>7, <1>8, PlacesAre
    DEF Next, Routine, Control, vars, Emit, Push, DisableCall, Join

LEMMA NoThreadLeftStep == BaseInv /\ [Next]_vars => NoThreadLeft'
  <1> SUFFICES ASSUME BaseInv, [Next]_vars, cpc' = "idle", ~enabled'
               PROVE  \A w \in Workers : wpc'[w] = Ended
    BY DEF NoThreadLeft
  <1>s. (SamePlaces \/ wpc' = wpc) /\ UNCHANGED <<cpc, enabled>>
          => \A w \in Workers : wpc'[w] = Ended
    BY DEF BaseInv, NoThreadLeft, SamePlaces
  <1>1. CASE UNCHANGED <<wpc, cpc, enabled>>
    BY <1>1, <1>s
  <1>2. ASSUME NEW e \in Emitters, Count(e) PROVE \A w \in Workers : wpc'[w] = Ended
    BY <1>2, <1>s, CountPlaces DEF Count
  <1>3. ASSUME NEW w \in Workers, NEW q \in Queues,
               \/ Choose(w) \/ Consume(w, q) \/ (q = 1 /\ Timeout(w))
               \/ PopTask(w, q) \/ FinishTask(w)
        PROVE  FALSE
    <2>1. wpc[w] = Ended
      BY <1>3 DEF Choose, Consume, Timeout, PopTask, FinishTask, BaseInv, NoThreadLeft
    <2> QED
      BY <1>3, <2>1, PlacesAre, PlacesDiffer DEF Choose, Consume, Timeout, PopTask, FinishTask
  <1>4. CASE Enable \/ DisableCall
    BY <1>4 DEF Enable, DisableCall
  <1>5. ASSUME NEW q \in Queues, Close(q) PROVE FALSE
    BY <1>5 DEF Close
  <1>6. CASE Join
    BY <1>6 DEF Join
  <1> QED
    BY <1>1, <1>2, <1>3, <1>4, <1>5, <1>6, PlacesAre
    DEF Next, Routine, Control, vars, Emit, Push

LEMMA BaseStep == BaseInv /\ [Next]_vars => BaseInv'
  BY TypeStep, MutexHeldStep, HandsFullStep, NoThreadLeftStep DEF BaseInv

-----------------------------------------------------------------------------
\* CounterMatchesQueue.

LEMMA CountersFinite ==
  ASSUME BaseInv, NEW q \in Queues
  PROVE  /\ IsFiniteSet(Popping(q)) /\ Cardinality(Popping(q)) \in Nat
         /\ IsFiniteSet(Counting(q)) /\ Cardinality(Counting(q)) \in Nat
         /\ queue[q] \in Seq(Tasks) /\ Len(queue[q]) \in Nat /\ value[q] \in Nat
  <1>1. IsFiniteSet(Popping(q))
    BY ThreadsAssumption, FS_Subset DEF Popping
  <1>2. Counting(q) \subseteq {slotsMutex}
    BY DEF BaseInv, MutexHeld, Counting
  <1>3. IsFiniteSet(Counting(q))
    BY <1>2, FS_Singleton, FS_Subset
  <1>4. queue[q] \in Seq(Tasks) /\ Len(queue[q]) \in Nat /\ value[q] \in Nat
    BY DEF BaseInv, TypeOK
  <1> QED
    BY <1>1, <1>3, <1>4, FS_CardinalityType

\* Nothing moves between the queues and their counters.
LEMMA CountersStand ==
  ASSUME CounterMatchesQueue, UNCHANGED <<queue, value>>,
         \A q \in Queues : Popping(q)' = Popping(q) /\ Counting(q)' = Counting(q)
  PROVE  CounterMatchesQueue'
  BY DEF CounterMatchesQueue

\* They move for one queue, where the equation is kept.
LEMMA CountersMove ==
  ASSUME CounterMatchesQueue, NEW r \in Queues,
         \A q \in Queues \ {r} : /\ queue'[q] = queue[q] /\ value'[q] = value[q]
                                 /\ Popping(q)' = Popping(q) /\ Counting(q)' = Counting(q),
         Len(queue'[r]) = value'[r] + Cardinality(Popping(r))' + Cardinality(Counting(r))'
  PROVE  CounterMatchesQueue'
  <1> SUFFICES ASSUME NEW q \in Queues
               PROVE  Len(queue'[q]) = value'[q] + Cardinality(Popping(q))'
                                         + Cardinality(Counting(q))'
    BY DEF CounterMatchesQueue
  <1>1. Len(queue[q]) = value[q] + Cardinality(Popping(q)) + Cardinality(Counting(q))
    BY DEF CounterMatchesQueue
  <1>2. CASE q = r
    BY <1>2
  <1>3. CASE q # r
    BY <1>1, <1>3
  <1> QED
    BY <1>2, <1>3

\* The numbers of a queue, as numbers.
LEMMA CountersAre ==
  ASSUME BaseInv, CounterMatchesQueue, NEW r \in Queues
  PROVE  \E v, a, b \in Nat :
           /\ value[r] = v /\ Cardinality(Popping(r)) = a /\ Cardinality(Counting(r)) = b
           /\ Len(queue[r]) = v + a + b
  <1>1. PICK v \in Nat : value[r] = v
    BY CountersFinite
  <1>2. PICK a \in Nat : Cardinality(Popping(r)) = a
    BY CountersFinite
  <1>3. PICK b \in Nat : Cardinality(Counting(r)) = b
    BY CountersFinite
  <1>4. Len(queue[r]) = v + a + b
    BY <1>1, <1>2, <1>3 DEF CounterMatchesQueue
  <1> QED
    BY <1>1, <1>2, <1>3, <1>4

LEMMA SamePopping ==
  ASSUME \A w \in Workers, q \in Queues : wpc'[w] = Pop(q) <=> wpc[w] = Pop(q)
  PROVE  \A q \in Queues : Popping(q)' = Popping(q)
  BY DEF Popping

LEMMA CounterMatchesQueueStep ==
  BaseInv /\ CounterMatchesQueue /\ [Next]_vars => CounterMatchesQueue'
  <1> SUFFICES ASSUME BaseInv, CounterMatchesQueue, [Next]_vars PROVE CounterMatchesQueue'
    OBVIOUS
  <1>t. TypeOK
    BY DEF BaseInv
  <1>c. UNCHANGED <<epc, given>> => \A q \in Queues : Counting(q)' = Counting(q)
    BY DEF Counting
  <1>p. SamePlaces => \A q \in Queues : Popping(q)' = Popping(q)
    BY SamePopping DEF SamePlaces
  <1>w. wpc' = wpc => \A q \in Queues : Popping(q)' = Popping(q)
    BY DEF Popping
  <1>1. CASE UNCHANGED <<queue, value, wpc, epc, given>>
    BY <1>1, <1>c, <1>w, CountersStand
  <1>2. ASSUME NEW e \in Emitters, NEW t \in Tasks, Emit(e, t) PROVE CounterMatchesQueue'
    <2>1. \A q \in Queues : Counting(q)' = Counting(q)
      BY <1>2, <1>t DEF Emit, Counting, TypeOK
    <2> QED
      BY <1>2, <2>1, <1>w, CountersStand DEF Emit
  <1>3. ASSUME NEW e \in Emitters, Push(e) PROVE CounterMatchesQueue'
    <2>r. PICK r : r = Priority[given[e]]
      OBVIOUS
    <2>1. given[e] \in Tasks /\ r \in Queues
      BY <1>3, <2>r, TasksAssumption DEF Push, BaseInv, MutexHeld
    <2>2. /\ queue' = [queue EXCEPT ![r] = Append(queue[r], given[e])]
          /\ UNCHANGED <<value, wpc, given>>
          /\ epc[e] = "push" /\ epc' = [epc EXCEPT ![e] = "count"]
      BY <1>3, <2>r DEF Push, QueueOf
    <2>3. /\ Counting(r)' = Counting(r) \cup {e} /\ e \notin Counting(r)
          /\ \A q \in Queues \ {r} : Counting(q)' = Counting(q)
      BY <2>1, <2>2, <2>r, <1>t DEF Counting, TypeOK
    <2>4. queue[r] \in Seq(Tasks) /\ value[r] \in Nat
      BY <2>1, CountersFinite
    <2>5. queue'[r] = Append(queue[r], given[e]) /\ \A q \in Queues \ {r} : queue'[q] = queue[q]
      BY <2>1, <2>2, <1>t DEF TypeOK
    <2>6. Len(queue'[r]) = Len(queue[r]) + 1 /\ Len(queue[r]) \in Nat
      BY <2>1, <2>4, <2>5
    <2>7. Cardinality(Counting(r))' = Cardinality(Counting(r)) + 1
      BY <2>1, <2>3, CountersFinite, FS_AddElement
    <2>8. Cardinality(Popping(r))' = Cardinality(Popping(r))
      BY <2>1, <2>2, <1>w, CountersFinite
    <2>n. PICK v, a, b \in Nat :
            /\ value[r] = v /\ Cardinality(Popping(r)) = a /\ Cardinality(Counting(r)) = b
            /\ Len(queue[r]) = v + a + b
      BY <2>1, CountersAre
    <2>9. Len(queue'[r]) = value'[r] + Cardinality(Popping(r))' + Cardinality(Counting(r))'
      BY <2>2, <2>6, <2>7, <2>8, <2>n
    <2> QED
      BY <2>1, <2>2, <2>3, <2>5, <2>9, <1>w, CountersMove
  <1>4. ASSUME NEW e \in Emitters, Count(e) PROVE CounterMatchesQueue'
    <2>r. PICK r : r = Priority[given[e]]
      OBVIOUS
    <2>1. given[e] \in Tasks /\ r \in Queues
      BY <1>4, <2>r, TasksAssumption DEF Count, BaseInv, MutexHeld
    <2>2. /\ queue' = queue /\ value' = [value EXCEPT ![r] = value[r] + 1]
          /\ epc[e] = "count" /\ epc' = [epc EXCEPT ![e] = "idle"]
          /\ given' = [given EXCEPT ![e] = Nobody]
      BY <1>4, <2>r DEF Count
    <2>3. \A q \in Queues : Popping(q)' = Popping(q)
      BY <1>4, <1>p, CountPlaces
    <2>4. /\ Counting(r)' = Counting(r) \ {e} /\ e \in Counting(r)
          /\ \A q \in Queues \ {r} : Counting(q)' = Counting(q)
      BY <2>1, <2>2, <2>r, <1>t DEF Counting, TypeOK
    <2>5. value'[r] = value[r] + 1 /\ \A q \in Queues \ {r} : value'[q] = value[q]
      BY <2>1, <2>2, <1>t DEF TypeOK
    <2>6. value[r] \in Nat /\ Len(queue[r]) \in Nat
      BY <2>1, CountersFinite
    <2>7. Cardinality(Counting(r))' = Cardinality(Counting(r)) - 1
      BY <2>1, <2>4, CountersFinite, FS_RemoveElement
    <2>8. Cardinality(Popping(r))' = Cardinality(Popping(r))
      BY <2>1, <2>3, CountersFinite
    <2>n. PICK v, a, b \in Nat :
            /\ value[r] = v /\ Cardinality(Popping(r)) = a /\ Cardinality(Counting(r)) = b
            /\ Len(queue[r]) = v + a + b
      BY <2>1, CountersAre
    <2>9. Len(queue'[r]) = value'[r] + Cardinality(Popping(r))' + Cardinality(Counting(r))'
      BY <2>2, <2>5, <2>7, <2>8, <2>n
    <2> QED
      BY <2>1, <2>2, <2>3, <2>4, <2>5, <2>9, CountersMove
  <1>5. ASSUME NEW w \in Workers, Choose(w) PROVE CounterMatchesQueue'
    BY <1>5, <1>c, <1>p, ChoosePlaces, CountersStand DEF Choose
  <1>6. ASSUME NEW w \in Workers, NEW q \in Queues, Consume(w, q) \/ (q = 1 /\ Timeout(w))
        PROVE  CounterMatchesQueue'
    <2>1. UNCHANGED <<queue, epc, given>>
      BY <1>6 DEF Consume, Timeout
    <2>2. /\ \A r \in Queues : wpc[w] # Pop(r)
          /\ \A x \in Workers \ {w}, r \in Queues : wpc'[x] = Pop(r) <=> wpc[x] = Pop(r)
      BY <1>6, <1>t, WaitMoves
    <2>3. CASE UNCHANGED value /\ \E p \in {Ended, Wait(q), Choosing} : wpc' = [wpc EXCEPT ![w] = p]
      <3>1. \A r \in Queues : wpc'[w] # Pop(r)
        BY <2>3, <1>t, PlacesAre, PlacesDiffer DEF TypeOK
      <3>2. \A r \in Queues : Popping(r)' = Popping(r)
        BY <3>1, <2>2, SamePopping
      <3> QED
        BY <2>1, <2>3, <3>2, <1>c, CountersStand
    <2>4. CASE /\ value[q] > 0 /\ value' = [value EXCEPT ![q] = value[q] - 1]
               /\ Nudged(q, [wpc EXCEPT ![w] = Pop(q)], wpc')
      <3>1. wpc'[w] = Pop(q)
        BY <2>4, <1>t, PlacesAre, PlacesDiffer DEF Nudged, TypeOK
      <3>2. \A r \in Queues \ {q} : wpc'[w] # Pop(r)
        BY <3>1, PlacesDiffer
      <3>3. Popping(q)' = Popping(q) \cup {w} /\ w \notin Popping(q)
        BY <3>1, <2>2 DEF Popping
      <3>4. \A r \in Queues \ {q} : Popping(r)' = Popping(r)
        BY <3>2, <2>2 DEF Popping
      <3>5. value'[q] = value[q] - 1 /\ \A r \in Queues \ {q} : value'[r] = value[r]
        BY <2>4, <1>t DEF TypeOK
      <3>6. value[q] \in Nat /\ value'[q] \in Nat /\ Len(queue[q]) \in Nat
        BY <2>4, <3>5, CountersFinite
      <3>7. Cardinality(Popping(q))' = Cardinality(Popping(q)) + 1
        BY <3>3, CountersFinite, FS_AddElement
      <3>8. Cardinality(Counting(q))' = Cardinality(Counting(q))
        BY <2>1, <1>c, CountersFinite
      <3>n. PICK v, a, b \in Nat :
              /\ value[q] = v /\ Cardinality(Popping(q)) = a /\ Cardinality(Counting(q)) = b
              /\ Len(queue[q]) = v + a + b
        BY <3>1, CountersAre
      <3>9. Len(queue'[q]) = value'[q] + Cardinality(Popping(q))' + Cardinality(Counting(q))'
        BY <2>1, <3>5, <3>7, <3>8, <3>n
      <3> QED
        BY <2>1, <3>4, <3>5, <3>9, <1>c, CountersMove
    <2> QED
      BY <2>3, <2>4, <1>6, <1>t, WaitCases
  <1>7. ASSUME NEW w \in Workers, NEW q \in Queues, PopTask(w, q) PROVE CounterMatchesQueue'
    <2>1. /\ wpc[w] = Pop(q) /\ wpc' = [wpc EXCEPT ![w] = Running] /\ queue[q] # <<>>
          /\ queue' = [queue EXCEPT ![q] = Tail(queue[q])] /\ UNCHANGED <<value, epc, given>>
      BY <1>7 DEF PopTask, Popped
    <2>2. Popping(q)' = Popping(q) \ {w} /\ w \in Popping(q)
      BY <2>1, <1>t, PlacesAre, PlacesDiffer DEF Popping, TypeOK
    <2>3. \A r \in Queues \ {q} : Popping(r)' = Popping(r)
      BY <2>1, <1>t, PlacesAre, PlacesDiffer DEF Popping, TypeOK
    <2>4. queue'[q] = Tail(queue[q]) /\ \A r \in Queues \ {q} : queue'[r] = queue[r]
      BY <2>1, <1>t DEF TypeOK
    <2>5. value[q] \in Nat /\ queue[q] \in Seq(Tasks) /\ Len(queue[q]) \in Nat
      BY CountersFinite
    <2>6. Len(queue'[q]) = Len(queue[q]) - 1 /\ Len(queue'[q]) \in Nat
      <3>1. Len(Tail(queue[q])) = Len(queue[q]) - 1 /\ Len(queue[q]) > 0
        BY <2>1, <2>5
      <3> QED
        BY <2>4, <2>5, <3>1
    <2>7. Cardinality(Popping(q))' = Cardinality(Popping(q)) - 1
      BY <2>2, CountersFinite, FS_RemoveElement
    <2>8. Cardinality(Counting(q))' = Cardinality(Counting(q))
      BY <2>1, <1>c, CountersFinite
    <2>n. PICK v, a, b \in Nat :
            /\ value[q] = v /\ Cardinality(Popping(q)) = a /\ Cardinality(Counting(q)) = b
            /\ Len(queue[q]) = v + a + b
      BY <2>1, CountersAre
    <2>9. Len(queue'[q]) = value'[q] + Cardinality(Popping(q))' + Cardinality(Counting(q))'
      BY <2>1, <2>6, <2>7, <2>8, <2>n
    <2> QED
      BY <2>1, <2>3, <2>4, <2>9, <1>c, CountersMove
  <1>8. ASSUME NEW w \in Workers, FinishTask(w) PROVE CounterMatchesQueue'
    <2>1. \A x \in Workers, q \in Queues : wpc'[x] = Pop(q) <=> wpc[x] = Pop(q)
      BY <1>8, <1>t, PlacesAre, PlacesDiffer DEF FinishTask, TypeOK
    <2> QED
      BY <1>8, <2>1, <1>c, SamePopping, CountersStand DEF FinishTask
  <1>9. CASE Enable
    <2>1. \A x \in Workers : wpc[x] = Ended /\ wpc'[x] = Choosing
      BY <1>9 DEF Enable, BaseInv, NoThreadLeft
    <2>2. \A x \in Workers, q \in Queues : wpc'[x] = Pop(q) <=> wpc[x] = Pop(q)
      BY <2>1, PlacesAre, PlacesDiffer
    <2> QED
      BY <1>9, <2>2, <1>c, SamePopping, CountersStand DEF Enable
  <1>10. ASSUME NEW q \in Queues, Close(q) PROVE CounterMatchesQueue'
    BY <1>10, <1>c, <1>p, ClosePlaces, CountersStand DEF Close
  <1> QED
    BY <1>1, <1>2, <1>3, <1>4, <1>5, <1>6, <1>7, <1>8, <1>9, <1>10, PlacesAre
    DEF Next, Routine, Control, vars, DisableCall, Join

-----------------------------------------------------------------------------
\* SomeThreadServesBothQueues.

LEMMA NotForQueue0 ==
  /\ Choosing \notin OnlyForQueue0 /\ Running \notin OnlyForQueue0 /\ Ended \notin OnlyForQueue0
  /\ \A q \in Queues : Pop(q) \notin OnlyForQueue0
  /\ \A q \in Queues : q # 0 => Enter(q) \notin OnlyForQueue0 /\ Wait(q) \notin OnlyForQueue0
                                 /\ Awake(q) \notin OnlyForQueue0
  /\ Wait(0) \in OnlyForQueue0 /\ Awake(0) \in OnlyForQueue0
  <1>1. \A p \in OnlyForQueue0 : p \in OnQueue(0)
    BY PlacesAre DEF OnlyForQueue0
  <1>2. \A q \in Queues : Pop(q) \notin OnlyForQueue0
    BY PlacesAre, PlacesDiffer DEF OnlyForQueue0
  <1>3. \A q \in Queues : q # 0 => /\ Enter(q) \notin OnlyForQueue0
                                   /\ Wait(q) \notin OnlyForQueue0
                                   /\ Awake(q) \notin OnlyForQueue0
    BY PlacesAre, PlacesDiffer DEF OnlyForQueue0
  <1> QED
    BY <1>1, <1>2, <1>3, PlacesAre, PlacesDiffer DEF OnlyForQueue0

\* A thread that decides its wait is for queue 0 afterwards only if it waits again.
LEMMA WaitsAgain ==
  ASSUME BaseInv, NEW w \in Workers, NEW q \in Queues, Consume(w, q) \/ (q = 1 /\ Timeout(w)),
         wpc'[w] \in OnlyForQueue0
  PROVE  /\ q = 0 /\ UNCHANGED <<queue, value>> /\ value[0] = 0
         /\ wpc[w] \in OnlyForQueue0 /\ \A x \in Workers \ {w} : wpc'[x] = wpc[x]
  <1>t. TypeOK
    BY DEF BaseInv
  <1>1. CASE UNCHANGED value /\ \E p \in {Ended, Wait(q), Choosing} :
               wpc' = [wpc EXCEPT ![w] = p] /\ (p = Wait(q) => value[q] = 0)
    <2>1. wpc' = [wpc EXCEPT ![w] = Wait(q)] /\ value[q] = 0
      BY ZenonT(60), <1>1, <1>t, NotForQueue0 DEF TypeOK
    <2>2. q = 0
      BY <2>1, <1>t, NotForQueue0 DEF TypeOK
    <2>3. wpc[w] \in OnlyForQueue0
      BY <2>2, <1>t, WaitCases DEF OnlyForQueue0
    <2> QED
      BY <1>1, <2>1, <2>2, <2>3, <1>t DEF Consume, Timeout, TypeOK
  <1>2. CASE Nudged(q, [wpc EXCEPT ![w] = Pop(q)], wpc')
    <2>1. wpc'[w] = Pop(q)
      BY <1>2, <1>t, PlacesAre, PlacesDiffer DEF Nudged, TypeOK
    <2> QED
      BY <2>1, NotForQueue0
  <1> QED
    BY <1>1, <1>2, <1>t, WaitCases

LEMMA DrawnBySomethingStep ==
  BaseInv /\ DrawnBySomething /\ [Next]_vars => DrawnBySomething'
  <1> SUFFICES ASSUME BaseInv, DrawnBySomething, [Next]_vars,
                      \A w \in Workers : wpc'[w] \in OnlyForQueue0
               PROVE  queue'[0] # <<>>
    BY DEF DrawnBySomething
  <1>t. TypeOK
    BY DEF BaseInv
  <1>d. (\A w \in Workers : wpc[w] \in OnlyForQueue0) => queue[0] # <<>>
    BY DEF DrawnBySomething
  <1>w. PICK x : x \in Workers
    BY ThreadsAssumption
  <1>1. CASE UNCHANGED <<wpc, queue>>
    BY <1>1, <1>d
  <1>2. ASSUME NEW e \in Emitters, Push(e) PROVE queue'[0] # <<>>
    <2>1. PICK r : r = QueueOf(given[e])
      OBVIOUS
    <2>2. queue' = [queue EXCEPT ![r] = Append(queue[r], given[e])] /\ wpc' = wpc
      BY <1>2, <2>1 DEF Push
    <2>3. queue[0] # <<>> /\ queue[0] \in Seq(Tasks) /\ given[e] \in Tasks
      BY <1>2, <2>2, <1>d, <1>t DEF TypeOK, Queues, Push, BaseInv, MutexHeld
    <2>4. Append(queue[0], given[e]) # <<>>
      BY <2>3
    <2>5. queue'[0] = queue[0] \/ queue'[0] = Append(queue[0], given[e])
      BY <2>2, <1>t, PlacesAre DEF TypeOK
    <2> QED
      BY <2>3, <2>4, <2>5
  <1>3. ASSUME NEW e \in Emitters, Count(e) PROVE queue'[0] # <<>>
    <2>1. Priority[given[e]] \in Queues /\ wpc \in [Workers -> Places]
      BY <1>3, TasksAssumption DEF Count, BaseInv, MutexHeld, TypeOK
    <2>2. \A w \in Workers : wpc[w] \in OnlyForQueue0
      BY <1>3, <2>1, WakeOneNudges, NudgedKeeps DEF Count
    <2> QED
      BY <1>3, <2>2, <1>d DEF Count
  <1>4. ASSUME NEW w \in Workers, Choose(w) PROVE queue'[0] # <<>>
    <2>1. wpc'[w] = Enter(QueueToServe) /\ queue' = queue
      BY <1>4, <1>t DEF Choose, TypeOK
    <2>2. QueueToServe = 0
      BY <2>1, NotForQueue0, PlacesAre DEF QueueToServe
    <2> QED
      BY <2>1, <2>2 DEF QueueToServe
  <1>5. ASSUME NEW w \in Workers, NEW q \in Queues, Consume(w, q) \/ (q = 1 /\ Timeout(w))
        PROVE  queue'[0] # <<>>
    BY <1>5, <1>d, WaitsAgain
  <1>6. ASSUME NEW w \in Workers, NEW q \in Queues, PopTask(w, q) \/ FinishTask(w) PROVE FALSE
    BY <1>6, <1>t, NotForQueue0 DEF PopTask, FinishTask, TypeOK
  <1>7. CASE Enable
    BY <1>7, <1>w, NotForQueue0 DEF Enable
  <1>8. ASSUME NEW q \in Queues, Close(q) PROVE queue'[0] # <<>>
    <2>1. ASSUME NEW w \in Workers PROVE wpc[w] \in OnlyForQueue0
      <3>1. wpc'[w] = IF wpc[w] = Wait(q) THEN Awake(q) ELSE wpc[w]
        BY <1>8 DEF Close, WakeAll
      <3>2. CASE wpc[w] = Wait(q)
        <4>1. q = 0
          BY <3>1, <3>2, NotForQueue0
        <4> QED
          BY <3>2, <4>1, NotForQueue0
      <3> QED
        BY <3>1, <3>2
    <2> QED
      BY <1>8, <2>1, <1>d DEF Close
  <1> QED
    BY <1>1, <1>2, <1>3, <1>4, <1>5, <1>6, <1>7, <1>8, PlacesAre
    DEF Next, Routine, Control, vars, Emit, DisableCall, Join

LEMMA CountedWakesStep == BaseInv /\ CountedWakes /\ [Next]_vars => CountedWakes'
  <1> SUFFICES ASSUME BaseInv, CountedWakes, [Next]_vars,
                      \A w \in Workers : wpc'[w] = Wait(0)
               PROVE  value'[0] = 0
    BY DEF CountedWakes
  <1>t. TypeOK
    BY DEF BaseInv
  <1>d. (\A w \in Workers : wpc[w] = Wait(0)) => value[0] = 0
    BY DEF CountedWakes
  <1>w. PICK x : x \in Workers
    BY ThreadsAssumption
  <1>n. \A w \in Workers : wpc'[w] \in OnlyForQueue0
    BY NotForQueue0
  <1>1. CASE UNCHANGED <<wpc, value>>
    BY <1>1, <1>d
  <1>2. ASSUME NEW e \in Emitters, Count(e) PROVE value'[0] = 0
    <2>1. PICK r \in Queues : r = Priority[given[e]]
      BY <1>2, TasksAssumption DEF Count, BaseInv, MutexHeld
    <2>2. wpc' \in WakeOne(r, wpc) /\ value' = [value EXCEPT ![r] = value[r] + 1]
      BY <1>2, <2>1 DEF Count
    <2>a. /\ Nudged(r, wpc, wpc')
          /\ (\E w \in Workers : wpc[w] = Wait(r)) => \E w \in Workers : wpc'[w] = Awake(r)
      <3>1. wpc \in [Workers -> Places]
        BY <1>t DEF TypeOK
      <3> QED
        BY <2>1, <2>2, <3>1, WakeOneNudges
    <2>b. Wait(0) # Awake(r)
      BY PlacesAre, PlacesDiffer
    <2>3. \A w \in Workers : wpc[w] = Wait(0)
      BY <2>a, <2>b DEF Nudged
    <2>4. r # 0
      BY <2>3, <2>a, <2>b, <1>w
    <2> QED
      BY <2>2, <2>3, <2>4, <1>d, <1>t, PlacesAre DEF TypeOK
  <1>3. ASSUME NEW w \in Workers, Choose(w) PROVE FALSE
    <2>1. wpc'[w] = Enter(QueueToServe) /\ QueueToServe \in Queues
      BY <1>3, <1>t, PlacesAre DEF Choose, QueueToServe, TypeOK
    <2> QED
      BY <2>1, PlacesAre, PlacesDiffer
  <1>4. ASSUME NEW w \in Workers, NEW q \in Queues, Consume(w, q) \/ (q = 1 /\ Timeout(w))
        PROVE  value'[0] = 0
    BY <1>4, <1>n, WaitsAgain
  <1>5. ASSUME NEW w \in Workers, NEW q \in Queues, PopTask(w, q) \/ FinishTask(w) PROVE FALSE
    BY <1>5, <1>n, <1>t, NotForQueue0 DEF PopTask, FinishTask, TypeOK
  <1>6. CASE Enable
    BY <1>6, <1>n, <1>w, NotForQueue0 DEF Enable
  <1>7. ASSUME NEW q \in Queues, Close(q) PROVE value'[0] = 0
    <2>1. \A w \in Workers : wpc'[w] = IF wpc[w] = Wait(q) THEN Awake(q) ELSE wpc[w]
      BY <1>7 DEF Close, WakeAll
    <2>2. \A w \in Workers : wpc[w] = Wait(0)
      BY <2>1, PlacesAre, PlacesDiffer
    <2> QED
      BY <1>7, <2>2, <1>d DEF Close
  <1> QED
    BY <1>1, <1>2, <1>3, <1>4, <1>5, <1>6, <1>7, PlacesAre
    DEF Next, Routine, Control, vars, Emit, Push, DisableCall, Join

-----------------------------------------------------------------------------
\* ExecutedAtMostOncePerEmit.

\* How often a value occurs in a sequence that grows at its end and shrinks at its front.
LEMMA OccurrencesFinite ==
  ASSUME NEW s \in Seq(Tasks), NEW t
  PROVE  IsFiniteSet(Occurrences(s, t)) /\ Cardinality(Occurrences(s, t)) \in Nat
  <1>1. Occurrences(s, t) \subseteq 1..Len(s) /\ Len(s) \in Nat
    BY DEF Occurrences
  <1>2. IsFiniteSet(1..Len(s))
    BY <1>1, FS_Interval
  <1>3. IsFiniteSet(Occurrences(s, t))
    BY <1>1, <1>2, FS_Subset
  <1> QED
    BY <1>3, FS_CardinalityType

LEMMA OccurrencesAppend ==
  ASSUME NEW s \in Seq(Tasks), NEW x \in Tasks, NEW t
  PROVE  Cardinality(Occurrences(Append(s, x), t)) =
           IF x = t THEN Cardinality(Occurrences(s, t)) + 1 ELSE Cardinality(Occurrences(s, t))
  <1>1. PICK n \in Nat : n = Len(s)
    OBVIOUS
  <1>2. PICK s1 : s1 = Append(s, x)
    OBVIOUS
  <1>3. Len(s1) = n + 1 /\ s1[n + 1] = x /\ \A i \in 1..n : s1[i] = s[i]
    BY <1>1, <1>2
  <1>4. CASE x = t
    <2>1. Occurrences(s1, t) = Occurrences(s, t) \cup {n + 1} /\ n + 1 \notin Occurrences(s, t)
      BY <1>1, <1>3, <1>4 DEF Occurrences
    <2> QED
      BY <1>2, <1>4, <2>1, OccurrencesFinite, FS_AddElement
  <1>5. CASE x # t
    <2>1. Occurrences(s1, t) = Occurrences(s, t)
      BY <1>1, <1>3, <1>5 DEF Occurrences
    <2> QED
      BY <1>2, <1>5, <2>1
  <1> QED
    BY <1>4, <1>5

LEMMA OccurrencesTail ==
  ASSUME NEW s \in Seq(Tasks), s # <<>>, NEW t
  PROVE  Cardinality(Occurrences(Tail(s), t)) =
           IF Head(s) = t THEN Cardinality(Occurrences(s, t)) - 1
           ELSE Cardinality(Occurrences(s, t))
  <1>1. PICK n \in Nat : Len(s) = n + 1
    OBVIOUS
  <1>2. PICK s1 : s1 = Tail(s)
    OBVIOUS
  <1>3. s1 \in Seq(Tasks) /\ Len(s1) = n /\ Head(s) = s[1] /\ \A i \in 1..n : s1[i] = s[i + 1]
    BY <1>1, <1>2
  <1> DEFINE A == Occurrences(s1, t)
             B == Occurrences(s, t) \ {1}
             f == [i \in A |-> i + 1]
  <1>4. \A i : i \in A <=> i \in 1..n /\ s[i + 1] = t
    BY <1>3 DEF Occurrences
  <1>5. \A i : i \in B <=> i \in 2..(n + 1) /\ s[i] = t
    BY <1>1 DEF Occurrences
  <1>6. IsFiniteSet(A) /\ IsFiniteSet(Occurrences(s, t))
    BY <1>3, OccurrencesFinite
  <1>7. 1 \in Occurrences(s, t) <=> Head(s) = t
    BY <1>1, <1>3 DEF Occurrences
  <1> HIDE DEF A, B
  <1>8. f \in Bijection(A, B)
    <2>1. f \in [A -> B]
      BY <1>4, <1>5
    <2>2. \A i, j \in A : f[i] = f[j] => i = j
      BY <1>4
    <2>3. ASSUME NEW k \in B PROVE \E i \in A : f[i] = k
      <3>1. k - 1 \in A /\ (k - 1) + 1 = k
        BY <1>4, <1>5
      <3> QED
        BY <3>1
    <2> HIDE DEF f
    <2> QED
      BY <2>1, <2>2, <2>3, Fun_IsBij
  <1>9. Cardinality(B) = Cardinality(A)
    BY <1>6, <1>8, FS_Bijection DEF ExistsBijection
  <1>10. Cardinality(B) = IF Head(s) = t THEN Cardinality(Occurrences(s, t)) - 1
                          ELSE Cardinality(Occurrences(s, t))
    BY <1>6, <1>7, FS_RemoveElement DEF B
  <1> QED
    BY <1>2, <1>9, <1>10 DEF A

LEMMA QueuedByPriorityStep ==
  BaseInv /\ QueuedByPriority /\ [Next]_vars => QueuedByPriority'
  <1> SUFFICES ASSUME BaseInv, QueuedByPriority, [Next]_vars PROVE QueuedByPriority'
    OBVIOUS
  <1>t. TypeOK
    BY DEF BaseInv
  <1>1. CASE UNCHANGED queue
    BY <1>1 DEF QueuedByPriority
  <1>2. ASSUME NEW e \in Emitters, Push(e) PROVE QueuedByPriority'
    <2>1. PICK r \in Queues : r = Priority[given[e]] /\ given[e] \in Tasks
      BY <1>2, TasksAssumption DEF Push, BaseInv, MutexHeld
    <2>2. queue' = [queue EXCEPT ![r] = Append(queue[r], given[e])]
      BY <1>2, <2>1 DEF Push, QueueOf
    <2>3. ASSUME NEW q \in Queues, NEW i \in 1..Len(queue'[q]) PROVE Priority[queue'[q][i]] = q
      <3>1. CASE q # r
        BY <2>2, <2>3, <3>1, <1>t DEF QueuedByPriority, TypeOK
      <3>2. CASE q = r
        <4>1. queue[q] \in Seq(Tasks) /\ queue'[q] = Append(queue[q], given[e])
          BY <2>2, <3>2, <1>t DEF TypeOK
        <4>2. CASE i \in 1..Len(queue[q])
          BY <4>1, <4>2 DEF QueuedByPriority
        <4>3. CASE i = Len(queue[q]) + 1
          BY <4>1, <4>3, <2>1, <3>2
        <4> QED
          BY <4>1, <4>2, <4>3
      <3> QED
        BY <3>1, <3>2
    <2> QED
      BY <2>3 DEF QueuedByPriority
  <1>3. ASSUME NEW w \in Workers, NEW r \in Queues, PopTask(w, r) PROVE QueuedByPriority'
    <2>1. queue[r] # <<>> /\ queue' = [queue EXCEPT ![r] = Tail(queue[r])]
      BY <1>3 DEF PopTask, Popped
    <2>2. ASSUME NEW q \in Queues, NEW i \in 1..Len(queue'[q]) PROVE Priority[queue'[q][i]] = q
      <3>1. CASE q # r
        BY <2>1, <2>2, <3>1, <1>t DEF QueuedByPriority, TypeOK
      <3>2. CASE q = r
        <4>1. queue[q] \in Seq(Tasks) /\ queue[q] # <<>> /\ queue'[q] = Tail(queue[q])
          BY <2>1, <3>2, <1>t DEF TypeOK
        <4>2. i + 1 \in 1..Len(queue[q]) /\ queue'[q][i] = queue[q][i + 1]
          BY <4>1
        <4> QED
          BY <4>2 DEF QueuedByPriority
      <3> QED
        BY <3>1, <3>2
    <2> QED
      BY <2>2 DEF QueuedByPriority
  <1> QED
    BY <1>1, <1>2, <1>3, PlacesAre
    DEF Next, Routine, Control, vars, Emit, Count, Choose, Consume, Timeout, FinishTask,
        Enable, DisableCall, Close, Join

\* The numbers of a task, as numbers.
LEMMA EmitsAre ==
  ASSUME BaseInv, EveryEmitIsSomewhere, NEW t \in Tasks
  PROVE  /\ IsFiniteSet(Holding(t)) /\ IsFiniteSet(Pushing(t))
         /\ queue[Priority[t]] \in Seq(Tasks)
         /\ \E f, h, o, p \in Nat :
              /\ finished[t] = f /\ Cardinality(Holding(t)) = h
              /\ Cardinality(Queued(t)) = o /\ Cardinality(Pushing(t)) = p
              /\ emitted[t] = f + h + o + p
  <1>1. IsFiniteSet(Holding(t))
    BY ThreadsAssumption, FS_Subset DEF Holding
  <1>2. Pushing(t) \subseteq {slotsMutex}
    BY DEF BaseInv, MutexHeld, Pushing
  <1>3. IsFiniteSet(Pushing(t))
    BY <1>2, FS_Singleton, FS_Subset
  <1>4. queue[Priority[t]] \in Seq(Tasks) /\ finished[t] \in Nat
    BY TasksAssumption DEF BaseInv, TypeOK
  <1>5. PICK f \in Nat : finished[t] = f
    BY <1>4
  <1>6. PICK h \in Nat : Cardinality(Holding(t)) = h
    BY <1>1, FS_CardinalityType
  <1>7. PICK o \in Nat : Cardinality(Queued(t)) = o
    BY <1>4, OccurrencesFinite DEF Queued
  <1>8. PICK p \in Nat : Cardinality(Pushing(t)) = p
    BY <1>3, FS_CardinalityType
  <1>9. emitted[t] = f + h + o + p
    BY <1>5, <1>6, <1>7, <1>8 DEF EveryEmitIsSomewhere, Accounted
  <1> QED
    BY <1>1, <1>3, <1>4, <1>5, <1>6, <1>7, <1>8, <1>9

\* Nothing that concerns task t moves.
LEMMA AccountStands ==
  ASSUME NEW t \in Tasks, Accounted(t), emitted'[t] = emitted[t], finished'[t] = finished[t],
         Holding(t)' = Holding(t), Cardinality(Queued(t))' = Cardinality(Queued(t)),
         Pushing(t)' = Pushing(t)
  PROVE  Accounted(t)'
  BY DEF Accounted

\* A task goes from the emit to the queue, from there to a thread, and is executed.
LEMMA EveryEmitIsSomewhereStep ==
  BaseInv /\ QueuedByPriority /\ EveryEmitIsSomewhere /\ [Next]_vars => EveryEmitIsSomewhere'
  <1> SUFFICES ASSUME BaseInv, QueuedByPriority, EveryEmitIsSomewhere, [Next]_vars,
                      NEW t \in Tasks
               PROVE  Accounted(t)'
    BY DEF EveryEmitIsSomewhere
  <1>t. TypeOK /\ Accounted(t)
    BY DEF BaseInv, EveryEmitIsSomewhere
  <1>n. PICK f, h, o, p \in Nat :
          /\ finished[t] = f /\ Cardinality(Holding(t)) = h
          /\ Cardinality(Queued(t)) = o /\ Cardinality(Pushing(t)) = p
          /\ emitted[t] = f + h + o + p
    BY EmitsAre
  <1>h. hand' = hand => Holding(t)' = Holding(t)
    BY DEF Holding
  <1>q. queue' = queue => Cardinality(Queued(t))' = Cardinality(Queued(t))
    BY DEF Queued
  <1>p. UNCHANGED <<epc, given>> => Pushing(t)' = Pushing(t)
    BY DEF Pushing
  <1>r. Priority[t] \in Queues /\ queue[Priority[t]] \in Seq(Tasks)
    BY TasksAssumption, EmitsAre
  <1>1. CASE UNCHANGED <<queue, hand, epc, given, emitted, finished>>
    BY <1>1, <1>t, <1>h, <1>q, <1>p, AccountStands
  <1>2. ASSUME NEW e \in Emitters, NEW x \in Tasks, Emit(e, x) PROVE Accounted(t)'
    <2>1. /\ epc[e] = "idle" /\ epc' = [epc EXCEPT ![e] = "push"]
          /\ given' = [given EXCEPT ![e] = x]
          /\ emitted' = [emitted EXCEPT ![x] = emitted[x] + 1]
          /\ UNCHANGED <<queue, hand, finished>>
      BY <1>2 DEF Emit
    <2>2. CASE x = t
      <3>1. Pushing(t)' = Pushing(t) \cup {e} /\ e \notin Pushing(t)
        BY <2>1, <2>2, <1>t DEF Pushing, TypeOK
      <3>2. Cardinality(Pushing(t))' = p + 1
        BY <3>1, <1>n, EmitsAre, FS_AddElement
      <3>3. emitted'[t] = f + h + o + p + 1
        BY <2>1, <2>2, <1>n, <1>t DEF TypeOK
      <3> QED
        BY <2>1, <3>2, <3>3, <1>n, <1>h, <1>q DEF Accounted
    <2>3. CASE x # t
      <3>1. Pushing(t)' = Pushing(t)
        BY <2>1, <2>3, <1>t DEF Pushing, TypeOK
      <3>2. emitted'[t] = emitted[t]
        BY <2>1, <2>3, <1>t DEF TypeOK
      <3> QED
        BY <2>1, <3>1, <3>2, <1>t, <1>h, <1>q, AccountStands
    <2> QED
      BY <2>2, <2>3
  <1>3. ASSUME NEW e \in Emitters, Push(e) PROVE Accounted(t)'
    <2>1. PICK x \in Tasks : x = given[e] /\ Priority[x] \in Queues
      BY <1>3, TasksAssumption DEF Push, BaseInv, MutexHeld
    <2>2. /\ queue' = [queue EXCEPT ![Priority[x]] = Append(queue[Priority[x]], x)]
          /\ epc[e] = "push" /\ epc' = [epc EXCEPT ![e] = "count"]
          /\ UNCHANGED <<hand, given, emitted, finished>>
      BY <1>3, <2>1 DEF Push, QueueOf
    <2>3. queue'[Priority[t]] = IF Priority[t] = Priority[x] THEN Append(queue[Priority[t]], x)
                                ELSE queue[Priority[t]]
      BY <2>1, <2>2, <1>r, <1>t DEF TypeOK
    <2>4. CASE x = t
      <3>1. Pushing(t)' = Pushing(t) \ {e} /\ e \in Pushing(t)
        BY <2>1, <2>2, <2>4, <1>t DEF Pushing, TypeOK
      <3>2. Cardinality(Pushing(t))' = p - 1
        BY <3>1, <1>n, EmitsAre, FS_RemoveElement
      <3>3. Cardinality(Queued(t))' = o + 1
        BY <2>3, <2>4, <1>n, <1>r, OccurrencesAppend DEF Queued
      <3> QED
        BY <2>2, <3>2, <3>3, <1>n, <1>h DEF Accounted
    <2>5. CASE x # t
      <3>1. Pushing(t)' = Pushing(t)
        BY <2>1, <2>2, <2>5, <1>t DEF Pushing, TypeOK
      <3>2. Cardinality(Queued(t))' = Cardinality(Queued(t))
        BY <2>3, <2>5, <1>r, OccurrencesAppend DEF Queued
      <3> QED
        BY <2>2, <3>1, <3>2, <1>t, <1>h, AccountStands
    <2> QED
      BY <2>4, <2>5
  <1>4. ASSUME NEW e \in Emitters, Count(e) PROVE Accounted(t)'
    <2>1. Pushing(t)' = Pushing(t)
      BY <1>4, <1>t DEF Count, Pushing, TypeOK
    <2> QED
      BY <1>4, <2>1, <1>t, <1>h, <1>q, AccountStands DEF Count
  <1>5. ASSUME NEW w \in Workers, NEW r \in Queues, PopTask(w, r) PROVE Accounted(t)'
    <2>1. /\ wpc[w] = Pop(r) /\ queue[r] # <<>>
          /\ hand' = [hand EXCEPT ![w] = Head(queue[r])]
          /\ queue' = [queue EXCEPT ![r] = Tail(queue[r])]
          /\ UNCHANGED <<epc, given, emitted, finished>>
      BY <1>5 DEF PopTask, Popped
    <2>2. hand[w] = Nobody /\ Nobody # t
      BY <2>1, PlacesAre, PlacesDiffer, ThreadsAssumption DEF BaseInv, HandsFull
    <2>3. PICK x : x = Head(queue[r])
      OBVIOUS
    <2>4. queue[r] \in Seq(Tasks) /\ 1 \in 1..Len(queue[r]) /\ queue[r][1] = x
      BY <2>1, <2>3, <1>t DEF TypeOK
    <2>5. Priority[x] = r
      BY <2>4 DEF QueuedByPriority
    <2>6. queue'[Priority[t]] = IF Priority[t] = r THEN Tail(queue[r]) ELSE queue[Priority[t]]
      BY <2>1, <1>r, <1>t DEF TypeOK
    <2>7. CASE x = t
      <3>1. Holding(t)' = Holding(t) \cup {w} /\ w \notin Holding(t)
        BY <2>1, <2>2, <2>3, <2>7, <1>t DEF Holding, TypeOK
      <3>2. Cardinality(Holding(t))' = h + 1
        BY <3>1, <1>n, EmitsAre, FS_AddElement
      <3>3. Cardinality(Queued(t))' = o - 1
        BY <2>1, <2>3, <2>4, <2>5, <2>6, <2>7, <1>n, OccurrencesTail DEF Queued
      <3> QED
        BY <2>1, <3>2, <3>3, <1>n, <1>p DEF Accounted
    <2>8. CASE x # t
      <3>1. Holding(t)' = Holding(t)
        BY <2>1, <2>2, <2>3, <2>8, <1>t DEF Holding, TypeOK
      <3>2. Cardinality(Queued(t))' = Cardinality(Queued(t))
        BY <2>1, <2>3, <2>4, <2>6, <2>8, OccurrencesTail DEF Queued
      <3> QED
        BY <2>1, <3>1, <3>2, <1>t, <1>p, AccountStands
    <2> QED
      BY <2>7, <2>8
  <1>6. ASSUME NEW w \in Workers, FinishTask(w) PROVE Accounted(t)'
    <2>1. /\ hand' = [hand EXCEPT ![w] = Nobody]
          /\ finished' = [finished EXCEPT ![hand[w]] = finished[hand[w]] + 1]
          /\ UNCHANGED <<queue, epc, given, emitted>>
      BY <1>6 DEF FinishTask
    <2>2. hand[w] \in Tasks
      BY <1>6 DEF FinishTask, BaseInv, HandsFull, TypeOK
    <2>3. CASE hand[w] = t
      <3>1. Holding(t)' = Holding(t) \ {w} /\ w \in Holding(t)
        BY <2>1, <2>3, <1>t, ThreadsAssumption DEF Holding, TypeOK
      <3>2. Cardinality(Holding(t))' = h - 1
        BY <3>1, <1>n, EmitsAre, FS_RemoveElement
      <3>3. finished'[t] = f + 1
        BY <2>1, <2>3, <1>n, <1>t DEF TypeOK
      <3> QED
        BY <2>1, <3>2, <3>3, <1>n, <1>p, <1>q DEF Accounted
    <2>4. CASE hand[w] # t
      <3>1. Holding(t)' = Holding(t)
        BY <2>1, <2>4, <1>t, ThreadsAssumption DEF Holding, TypeOK
      <3>2. finished'[t] = finished[t]
        BY <2>1, <2>4, <1>t DEF TypeOK
      <3> QED
        BY <2>1, <3>1, <3>2, <1>t, <1>p, <1>q, AccountStands
    <2> QED
      BY <2>3, <2>4
  <1> QED
    BY <1>1, <1>2, <1>3, <1>4, <1>5, <1>6, PlacesAre
    DEF Next, Routine, Control, vars, Choose, Consume, Timeout, Enable, DisableCall, Close, Join

-----------------------------------------------------------------------------
\* The pool as it is built: the queues are empty and there is no thread.
LEMMA IInvInit == Init => IInv
  <1> SUFFICES ASSUME Init PROVE IInv
    OBVIOUS
  <1>1. BaseInv
    BY BaseInit
  <1>2. \A q \in Queues : queue[q] = <<>> /\ value[q] = 0 /\ Len(queue[q]) = 0
    BY DEF Init
  <1>3. QueuedByPriority
    BY <1>2 DEF QueuedByPriority
  <1>4. CounterMatchesQueue
    <2> SUFFICES ASSUME NEW q \in Queues
                 PROVE  Len(queue[q]) = value[q] + Cardinality(Popping(q)) + Cardinality(Counting(q))
      BY DEF CounterMatchesQueue
    <2>1. Popping(q) = {} /\ Counting(q) = {}
      BY PlacesAre, PlacesDiffer DEF Init, Popping, Counting
    <2>2. Cardinality(Popping(q)) = 0 /\ Cardinality(Counting(q)) = 0
      BY <2>1, FS_EmptySet
    <2> QED
      BY <1>2, <2>2
  <1>5. DrawnBySomething /\ CountedWakes
    <2>1. PICK w : w \in Workers
      BY ThreadsAssumption
    <2>2. wpc[w] = Ended
      BY <2>1 DEF Init
    <2> QED
      BY <2>1, <2>2, NotForQueue0 DEF DrawnBySomething, CountedWakes
  <1>6. EveryEmitIsSomewhere
    <2> SUFFICES ASSUME NEW t \in Tasks PROVE Accounted(t)
      BY DEF EveryEmitIsSomewhere
    <2>1. Holding(t) = {} /\ Pushing(t) = {}
      BY ThreadsAssumption DEF Init, Holding, Pushing
    <2>2. Queued(t) = {}
      BY <1>2, TasksAssumption DEF Queued, Occurrences
    <2> QED
      BY <2>1, <2>2, FS_EmptySet DEF Init, Accounted
  <1> QED
    BY <1>1, <1>3, <1>4, <1>5, <1>6 DEF IInv

LEMMA IInvStep == IInv /\ [Next]_vars => IInv'
  BY BaseStep, QueuedByPriorityStep, CounterMatchesQueueStep, DrawnBySomethingStep,
     CountedWakesStep, EveryEmitIsSomewhereStep DEF IInv

\* The invariant, for any number of threads, emitters and tasks.
THEOREM Invariant == Spec => []IInv
  BY IInvInit, IInvStep, PTL DEF Spec

\* The counter that the threads wait for and the queue they pop from, changed under two
\* mutexes, never drift apart (WaitHandler, ConsumerWaitHandler, DBQueueWaitHandler).
THEOREM CountersMatch == Spec => []CounterMatchesQueue
  <1>1. IInv => CounterMatchesQueue
    BY DEF IInv
  <1> QED
    BY <1>1, Invariant, PTL

\* A thread that was promised a value finds one: get_next_value_ never pops an empty queue.
PopFindsValue == \A w \in Workers, q \in Queues : wpc[w] = Pop(q) => queue[q] # <<>>
THEOREM PromisedIsThere == Spec => []PopFindsValue
  <1>1. ASSUME IInv PROVE PopFindsValue
    <2> SUFFICES ASSUME NEW w \in Workers, NEW q \in Queues, wpc[w] = Pop(q), queue[q] = <<>>
                 PROVE  FALSE
      BY DEF PopFindsValue
    <2>1. PICK v, a, b \in Nat : /\ Cardinality(Popping(q)) = a /\ Len(queue[q]) = v + a + b
      BY <1>1, CountersAre DEF IInv
    <2>2. w \in Popping(q) /\ IsFiniteSet(Popping(q))
      BY <1>1, CountersFinite DEF IInv, Popping
    <2>3. a # 0
      BY <2>1, <2>2, FS_EmptySet
    <2>4. Len(queue[q]) = 0
      OBVIOUS
    <2> QED
      BY <2>1, <2>3, <2>4
  <1> QED
    BY <1>1, Invariant, PTL

\* Though each thread picks its queue without a lock and may then sleep on queue 0 for
\* good, not all do while a task waits in queue 1 (SlotThreadPool::thread_routine_).
THEOREM ThreadsServeBothQueues == Spec => []SomeThreadServesBothQueues
  <1>1. ASSUME IInv PROVE SomeThreadServesBothQueues
    <2> SUFFICES ASSUME \A w \in Workers : wpc[w] = Wait(0), Counting(0) = {} PROVE FALSE
      BY DEF SomeThreadServesBothQueues
    <2>1. queue[0] # <<>> /\ value[0] = 0
      BY <1>1, NotForQueue0 DEF IInv, DrawnBySomething, CountedWakes
    <2>2. Popping(0) = {}
      BY PlacesAre, PlacesDiffer DEF Popping
    <2>3. Len(queue[0]) = 0 + 0 + 0
      BY <1>1, <2>1, <2>2, PlacesAre, FS_EmptySet DEF IInv, CounterMatchesQueue
    <2>4. queue[0] \in Seq(Tasks)
      BY <1>1, PlacesAre, CountersFinite DEF IInv
    <2> QED
      BY <2>1, <2>3, <2>4, EmptySeq
  <1> QED
    BY <1>1, Invariant, PTL

\* Each emit is executed once at most: a slot that is emitted twice may run twice, in two
\* threads, and no more (SlotThreadPool::emit, thread_routine_).
THEOREM EmitsExecutedOnce == Spec => []ExecutedAtMostOncePerEmit
  <1>1. ASSUME IInv PROVE ExecutedAtMostOncePerEmit
    <2> SUFFICES ASSUME NEW t \in Tasks
                 PROVE  finished[t] + Cardinality({w \in Workers : hand[w] = t}) =< emitted[t]
      BY DEF ExecutedAtMostOncePerEmit
    <2>1. BaseInv /\ EveryEmitIsSomewhere
      BY <1>1 DEF IInv
    <2>2. \E f, h, o, p \in Nat :
            /\ finished[t] = f /\ Cardinality(Holding(t)) = h
            /\ Cardinality(Queued(t)) = o /\ Cardinality(Pushing(t)) = p
            /\ emitted[t] = f + h + o + p
      BY <2>1, EmitsAre
    <2>3. PICK f, h, o, p \in Nat :
            finished[t] = f /\ Cardinality(Holding(t)) = h /\ emitted[t] = f + h + o + p
      BY <2>2
    <2> QED
      BY <2>3 DEF Holding
  <1> QED
    BY <1>1, Invariant, PTL
=============================================================================
