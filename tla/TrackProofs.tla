------------------------------ MODULE TrackProofs ------------------------------
(***************************************************************************)
(* For any number of pool threads, callers, participants, samples and      *)
(* writer objects: the types of Track, and that a transmission only meets  *)
(* enabled writers, that a disabled track is quiet, that a disabled or     *)
(* standby proxy forwards nothing, that no wake-up is lost, and that a     *)
(* track implements Forwarder.                                             *)
(*                                                                         *)
(* The argument is the inductive invariant IInv of module Track; for the   *)
(* wake-ups WakeInv besides it, and for the refinement RInv of module      *)
(* TrackForwarder.  Their parts are proved one lemma each, with one step   *)
(* for each action; the order of the lemmas is the order in which they     *)
(* rest on each other.                                                     *)
(***************************************************************************)
EXTENDS TrackForwarder, SequenceTheorems, TLAPS

\* The status is an unsigned int: both fetch_add and fetch_sub wrap.
LEMMA ModRange == ASSUME NEW n \in Int PROVE n % UIntMod \in 0..(UIntMod - 1)
  BY BoundsAssumption

\* The places the actions name.
LEMMA PlaceTypes ==
  /\ "idle" \in WorkerPlaces /\ "tx_lock" \in WorkerPlaces /\ "tx_check" \in WorkerPlaces
  /\ "tx_master" \in WorkerPlaces /\ "tx_store" \in WorkerPlaces /\ "tx_take" \in WorkerPlaces
  /\ "tx_sub" \in WorkerPlaces /\ "tx_write" \in WorkerPlaces
  /\ "idle" \in ListenerPlaces /\ "cb_check" \in ListenerPlaces /\ "cb_add" \in ListenerPlaces
  /\ "cb_emit" \in ListenerPlaces
  /\ "idle" \in ControllerPlaces /\ "en_status" \in ControllerPlaces /\ "en_writers" \in ControllerPlaces
  /\ "en_reader" \in ControllerPlaces /\ "en_notify" \in ControllerPlaces /\ "cb_check" \in ControllerPlaces
  /\ "cb_add" \in ControllerPlaces /\ "cb_emit" \in ControllerPlaces /\ "dis_tx" \in ControllerPlaces
  /\ "dis_reader" \in ControllerPlaces /\ "dis_writers" \in ControllerPlaces /\ "dtor_unset" \in ControllerPlaces
  /\ "dtor_exit" \in ControllerPlaces /\ "add_tx" \in ControllerPlaces /\ "rem_tx" \in ControllerPlaces
  /\ "gone" \in ControllerPlaces
  BY DEF WorkerPlaces, ListenerPlaces, ControllerPlaces

\* A thread that moves stays at places of its own kind.
LEMMA GotoWorker ==
  ASSUME ControlTypeOK, NEW w \in Workers, NEW x \in WorkerPlaces, Goto(w, x)
  PROVE  ControlTypeOK'
  BY ThreadsAssumption DEF ControlTypeOK, Goto, Threads, Places

\* The same for a caller.
LEMMA GotoController ==
  ASSUME ControlTypeOK, NEW c \in Controllers, NEW x \in ControllerPlaces, Goto(c, x)
  PROVE  ControlTypeOK'
  BY ThreadsAssumption DEF ControlTypeOK, Goto, Threads, Places

\* The same for the listener.
LEMMA GotoListener ==
  ASSUME ControlTypeOK, NEW x \in ListenerPlaces, Goto(Listener, x)
  PROVE  ControlTypeOK'
  BY ThreadsAssumption DEF ControlTypeOK, Goto, Threads, Places

\* An action that moves nobody.
LEMMA StaysPut == ControlTypeOK /\ UNCHANGED pc => ControlTypeOK'
  BY DEF ControlTypeOK

\* The argument record is well formed also when no call is running.
LEMMA NoCallType == NoCall \in Arguments
  BY BoundsAssumption DEF NoCall, NoWriter, Arguments

\* The initial states, a track just built by DdsBridge, are typed.
LEMMA TypeInit == Init => TypeOK
  <1> SUFFICES ASSUME Init PROVE DataTypeOK /\ ControlTypeOK
    BY DEF TypeOK
  <1>2. DataTypeOK
    <2>1. history \in Seq(Samples) /\ \A p \in Participants : out[p] \in Seq(0..MaxSamples)
      BY DEF Init
    <2>2. writers \in [Participants -> 0..MaxObjects]
      BY BoundsAssumption DEF Init
    <2>3. status \in 0..(UIntMod - 1) /\ sent \in 0..MaxSamples /\ created \in 0..MaxObjects
      BY BoundsAssumption DEF Init, NoMoreData
    <2>4. cur \in [Workers -> 0..MaxSamples] /\ out \in [Participants -> Seq(0..MaxSamples)]
      BY <2>1, BoundsAssumption DEF Init
    <2>5. kind \in ReaderKinds /\ queued \in Nat /\ arg \in [Controllers -> Arguments]
      BY NoCallType, BoundsAssumption DEF Init
    <2> QED
      BY <2>1, <2>2, <2>3, <2>4, <2>5 DEF Init, DataTypeOK
  <1>3. ControlTypeOK
    BY PlaceTypes DEF Init, ControlTypeOK, Threads, Places
  <1> QED
    BY <1>2, <1>3

\* Every action keeps the types of the shared state.
LEMMA DataTypeStep == TypeOK /\ [Next]_vars => DataTypeOK'
  <1> SUFFICES ASSUME DataTypeOK, ControlTypeOK, [Next]_vars PROVE DataTypeOK'
    BY DEF TypeOK
  <1> USE DEF DataTypeOK, trackVars, readerVars, writerVars, dataVars
  <1>1. CASE Receive
    <2>1. sent' \in 0..MaxSamples
      BY <1>1, BoundsAssumption DEF Receive
    <2>2. sent + 1 \in Samples
      BY <1>1, BoundsAssumption DEF Receive, Samples
    <2>3. history' \in Seq(Samples)
      BY <1>1, <2>2, AppendProperties DEF Receive
    <2> QED
      BY <1>1, <2>1, <2>2, <2>3 DEF Receive
  <1>2. ASSUME NEW t \in Controllers \cup {Listener}, CallbackCheck(t) PROVE DataTypeOK'
    BY <1>2 DEF CallbackCheck, EndCallback
  <1>3. ASSUME NEW t \in Controllers \cup {Listener}, CallbackAdd(t) PROVE DataTypeOK'
    <2>1. status' \in 0..(UIntMod - 1)
      BY <1>3, ModRange, BoundsAssumption DEF CallbackAdd, NewDataArrived
    <2> QED
      BY <1>3, <2>1 DEF CallbackAdd, EndCallback
  <1>4. ASSUME NEW t \in Controllers \cup {Listener}, CallbackEmit(t) PROVE DataTypeOK'
    <2>1. queued' \in Nat
      BY <1>4 DEF CallbackEmit
    <2> QED
      BY <1>4, <2>1 DEF CallbackEmit, EndCallback
  <1>5. ASSUME NEW w \in Workers, StartTask(w) PROVE DataTypeOK'
    <2>1. queued' \in Nat
      BY <1>5 DEF StartTask
    <2> QED
      BY <1>5, <2>1 DEF StartTask
  <1>6. ASSUME NEW w \in Workers, LockTransmission(w) PROVE DataTypeOK'
    BY <1>6 DEF LockTransmission
  <1>7. ASSUME NEW w \in Workers, ShouldTransmit(w) PROVE DataTypeOK'
    BY <1>7 DEF ShouldTransmit, LeaveTransmission
  <1>8. ASSUME NEW w \in Workers, CheckMaster(w) PROVE DataTypeOK'
    BY <1>8 DEF CheckMaster
  <1>9. ASSUME NEW w \in Workers, StoreTransmitting(w) PROVE DataTypeOK'
    <2>1. status' \in 0..(UIntMod - 1)
      BY <1>9, BoundsAssumption DEF StoreTransmitting, TransmittingData
    <2> QED
      BY <1>9, <2>1 DEF StoreTransmitting
  <1>10. ASSUME NEW w \in Workers, Take(w) PROVE DataTypeOK'
    <2>1. history # <<>> => Head(history) \in Samples /\ Tail(history) \in Seq(Samples)
      BY <1>10, HeadTailProperties DEF Take
    <2>2. history' \in Seq(Samples)
      BY <1>10, <2>1 DEF Take
    <2>3. Destinations \in SUBSET Participants
      BY <1>10 DEF Take, Destinations
    <2>4. todo' \in [Threads -> SUBSET Participants]
      BY <1>10, <2>3 DEF Take, Threads
    <2>5. history # <<>> => Head(history) \in 0..MaxSamples
      BY <1>10, <2>1, BoundsAssumption DEF Take, Samples
    <2>6. cur' \in [Workers -> 0..MaxSamples]
      BY <1>10, <2>5 DEF Take
    <2> QED
      BY <1>10, <2>1, <2>2, <2>3, <2>4, <2>5, <2>6 DEF Take
  <1>11. ASSUME NEW w \in Workers, SubTransmitting(w) PROVE DataTypeOK'
    <2>1. status' \in 0..(UIntMod - 1)
      BY <1>11, ModRange, BoundsAssumption DEF SubTransmitting, FetchSub, TransmittingData
    <2> QED
      BY <1>11, <2>1 DEF SubTransmitting, LeaveTransmission
  <1>12. ASSUME NEW w \in Workers, Write(w) PROVE DataTypeOK'
    <2>1. todo' \in [Threads -> SUBSET Participants]
      BY <1>12 DEF Write, Threads
    <2>2. 0 \in 0..MaxSamples
      BY <1>12, BoundsAssumption DEF Write
    <2>3. cur' \in [Workers -> 0..MaxSamples]
      BY <1>12, <2>2 DEF Write
    <2>4. out' \in [Participants -> Seq(0..MaxSamples)]
      BY <1>12 DEF Write, Threads
    <2> QED
      BY <1>12, <2>1, <2>2, <2>3, <2>4 DEF Write
  <1>13. ASSUME NEW c \in Controllers, EnableCall(c) PROVE DataTypeOK'
    BY <1>13 DEF EnableCall
  <1>14. ASSUME NEW c \in Controllers, EnableResetStatus(c) PROVE DataTypeOK'
    <2>1. status' \in 0..(UIntMod - 1)
      BY <1>14, BoundsAssumption DEF EnableResetStatus, StatusOnEnable, NoMoreData
    <2>2. todo' \in [Threads -> SUBSET Participants]
      BY <1>14 DEF EnableResetStatus, Threads, Destinations
    <2> QED
      BY <1>14, <2>1, <2>2 DEF EnableResetStatus
  <1>15. ASSUME NEW c \in Controllers, EnableWriter(c) PROVE DataTypeOK'
    <2>1. todo' = todo \/ \E p \in Participants : todo' = [todo EXCEPT ![c] = @ \ {p}]
      BY <1>15 DEF EnableWriter, Threads
    <2>2. todo' \in [Threads -> SUBSET Participants]
      BY <2>1 DEF Threads
    <2>3. writerEnabled' \in [Objects -> BOOLEAN]
      BY <1>15 DEF EnableWriter
    <2> QED
      BY <1>15, <2>1, <2>2, <2>3 DEF EnableWriter
  <1>16. ASSUME NEW c \in Controllers, EnableReader(c) PROVE DataTypeOK'
    BY <1>16 DEF EnableReader
  <1>17. ASSUME NEW c \in Controllers, EnableNotify(c) PROVE DataTypeOK'
    BY <1>17 DEF EnableNotify, EndCallback
  <1>18. ASSUME NEW c \in Controllers, DisableCall(c) PROVE DataTypeOK'
    BY <1>18 DEF DisableCall
  <1>19. ASSUME NEW c \in Controllers, DisableWaitTransmission(c) PROVE DataTypeOK'
    BY <1>19 DEF DisableWaitTransmission
  <1>20. ASSUME NEW c \in Controllers, DisableReader(c) PROVE DataTypeOK'
    <2>1. todo' \in [Threads -> SUBSET Participants]
      BY <1>20 DEF DisableReader, Threads, Destinations
    <2> QED
      BY <1>20, <2>1 DEF DisableReader
  <1>21. ASSUME NEW c \in Controllers, DisableWriter(c) PROVE DataTypeOK'
    <2>1. todo' = todo \/ \E p \in Participants : todo' = [todo EXCEPT ![c] = @ \ {p}]
      BY <1>21 DEF DisableWriter, Threads
    <2>2. todo' \in [Threads -> SUBSET Participants]
      BY <2>1 DEF Threads
    <2>3. writerEnabled' \in [Objects -> BOOLEAN]
      BY <1>21 DEF DisableWriter
    <2> QED
      BY <1>21, <2>1, <2>2, <2>3 DEF DisableWriter
  <1>22. ASSUME NEW c \in Controllers, AddLocked(c) PROVE DataTypeOK'
    <2>1. writerEnabled' \in [Objects -> BOOLEAN]
      BY <1>22 DEF AddLocked
    <2>2. writers' \in [Participants -> 0..MaxObjects]
      BY <1>22 DEF AddLocked, Arguments
    <2>3. arg' \in [Controllers -> Arguments]
      BY <1>22, NoCallType DEF AddLocked
    <2> QED
      BY <1>22, <2>1, <2>2, <2>3 DEF AddLocked
  <1>23. ASSUME NEW c \in Controllers, RemoveLocked(c) PROVE DataTypeOK'
    <2>1. writers' \in [Participants -> 0..MaxObjects]
      BY <1>23, BoundsAssumption DEF RemoveLocked, Arguments, NoWriter
    <2>2. arg' \in [Controllers -> Arguments]
      BY <1>23, NoCallType DEF RemoveLocked
    <2> QED
      BY <1>23, <2>1, <2>2 DEF RemoveLocked
  <1>24. ASSUME NEW c \in Controllers, DestroyCall(c) PROVE DataTypeOK'
    BY <1>24 DEF DestroyCall
  <1>25. ASSUME NEW c \in Controllers, DestroyUnset(c) PROVE DataTypeOK'
    BY <1>25 DEF DestroyUnset
  <1>26. ASSUME NEW c \in Controllers, DestroyExit(c) PROVE DataTypeOK'
    BY <1>26 DEF DestroyExit
  <1>27. ASSUME NEW c \in Controllers, NEW p \in Participants, AddCall(c, p) PROVE DataTypeOK'
    <2>1. created' \in 0..MaxObjects
      BY <1>27, BoundsAssumption DEF AddCall
    <2>2. arg' \in [Controllers -> Arguments]
      BY <1>27, BoundsAssumption DEF AddCall, Arguments
    <2> QED
      BY <1>27, <2>1, <2>2 DEF AddCall
  <1>28. ASSUME NEW c \in Controllers, NEW p \in Participants, RemoveCall(c, p) PROVE DataTypeOK'
    <2>1. arg' \in [Controllers -> Arguments]
      BY <1>28, BoundsAssumption DEF RemoveCall, Arguments, NoWriter
    <2> QED
      BY <1>28, <2>1 DEF RemoveCall
  <1>29. CASE Promote
    BY <1>29 DEF Promote
  <1>30. CASE UNCHANGED vars
    BY <1>30 DEF vars
  <1> QED
    BY <1>1, <1>2, <1>3, <1>4, <1>5, <1>6, <1>7, <1>8, <1>9, <1>10, <1>11, <1>12, <1>13,
       <1>14, <1>15, <1>16, <1>17, <1>18, <1>19, <1>20, <1>21, <1>22, <1>23, <1>24,
       <1>25, <1>26, <1>27, <1>28, <1>29, <1>30
       DEF Next, Calls, Continue, DataAvailable, Transmit

\* Every action keeps each thread at its own places.
LEMMA ControlTypeStep == TypeOK /\ [Next]_vars => ControlTypeOK'
  <1> SUFFICES ASSUME ControlTypeOK, [Next]_vars PROVE ControlTypeOK'
    BY DEF TypeOK
  <1> USE PlaceTypes, StaysPut
  <1>1. CASE Receive
    BY <1>1, GotoListener DEF Receive
  <1>2. ASSUME NEW t \in Controllers \cup {Listener}, CallbackCheck(t) PROVE ControlTypeOK'
    BY <1>2, GotoController, GotoListener DEF CallbackCheck, EndCallback
  <1>3. ASSUME NEW t \in Controllers \cup {Listener}, CallbackAdd(t) PROVE ControlTypeOK'
    BY <1>3, GotoController, GotoListener DEF CallbackAdd, EndCallback
  <1>4. ASSUME NEW t \in Controllers \cup {Listener}, CallbackEmit(t) PROVE ControlTypeOK'
    BY <1>4, GotoController, GotoListener DEF CallbackEmit, EndCallback
  <1>5. ASSUME NEW w \in Workers, StartTask(w) PROVE ControlTypeOK'
    BY <1>5, GotoWorker DEF StartTask
  <1>6. ASSUME NEW w \in Workers, LockTransmission(w) PROVE ControlTypeOK'
    BY <1>6, GotoWorker DEF LockTransmission
  <1>7. ASSUME NEW w \in Workers, ShouldTransmit(w) PROVE ControlTypeOK'
    BY <1>7, GotoWorker DEF ShouldTransmit, LeaveTransmission
  <1>8. ASSUME NEW w \in Workers, CheckMaster(w) PROVE ControlTypeOK'
    BY <1>8, GotoWorker DEF CheckMaster
  <1>9. ASSUME NEW w \in Workers, StoreTransmitting(w) PROVE ControlTypeOK'
    BY <1>9, GotoWorker DEF StoreTransmitting
  <1>10. ASSUME NEW w \in Workers, Take(w) PROVE ControlTypeOK'
    BY <1>10, GotoWorker DEF Take
  <1>11. ASSUME NEW w \in Workers, SubTransmitting(w) PROVE ControlTypeOK'
    BY <1>11, GotoWorker DEF SubTransmitting, LeaveTransmission
  <1>12. ASSUME NEW w \in Workers, Write(w) PROVE ControlTypeOK'
    BY <1>12, GotoWorker DEF Write
  <1>13. ASSUME NEW c \in Controllers, EnableCall(c) PROVE ControlTypeOK'
    BY <1>13, GotoController DEF EnableCall
  <1>14. ASSUME NEW c \in Controllers, EnableResetStatus(c) PROVE ControlTypeOK'
    BY <1>14, GotoController DEF EnableResetStatus
  <1>15. ASSUME NEW c \in Controllers, EnableWriter(c) PROVE ControlTypeOK'
    BY <1>15, GotoController DEF EnableWriter
  <1>16. ASSUME NEW c \in Controllers, EnableReader(c) PROVE ControlTypeOK'
    BY <1>16, GotoController DEF EnableReader
  <1>17. ASSUME NEW c \in Controllers, EnableNotify(c) PROVE ControlTypeOK'
    BY <1>17, GotoController DEF EnableNotify, EndCallback
  <1>18. ASSUME NEW c \in Controllers, DisableCall(c) PROVE ControlTypeOK'
    BY <1>18, GotoController DEF DisableCall
  <1>19. ASSUME NEW c \in Controllers, DisableWaitTransmission(c) PROVE ControlTypeOK'
    BY <1>19, GotoController DEF DisableWaitTransmission
  <1>20. ASSUME NEW c \in Controllers, DisableReader(c) PROVE ControlTypeOK'
    BY <1>20, GotoController DEF DisableReader
  <1>21. ASSUME NEW c \in Controllers, DisableWriter(c) PROVE ControlTypeOK'
    BY <1>21, GotoController DEF DisableWriter
  <1>22. ASSUME NEW c \in Controllers, AddLocked(c) PROVE ControlTypeOK'
    BY <1>22, GotoController DEF AddLocked
  <1>23. ASSUME NEW c \in Controllers, RemoveLocked(c) PROVE ControlTypeOK'
    BY <1>23, GotoController DEF RemoveLocked
  <1>24. ASSUME NEW c \in Controllers, DestroyCall(c) PROVE ControlTypeOK'
    BY <1>24, GotoController DEF DestroyCall
  <1>25. ASSUME NEW c \in Controllers, DestroyUnset(c) PROVE ControlTypeOK'
    BY <1>25, GotoController DEF DestroyUnset
  <1>26. ASSUME NEW c \in Controllers, DestroyExit(c) PROVE ControlTypeOK'
    BY <1>26, GotoController DEF DestroyExit
  <1>27. ASSUME NEW c \in Controllers, NEW p \in Participants, AddCall(c, p) PROVE ControlTypeOK'
    BY <1>27, GotoController DEF AddCall
  <1>28. ASSUME NEW c \in Controllers, NEW p \in Participants, RemoveCall(c, p) PROVE ControlTypeOK'
    BY <1>28, GotoController DEF RemoveCall
  <1>29. CASE Promote
    BY <1>29 DEF Promote
  <1>30. CASE UNCHANGED vars
    BY <1>30 DEF vars
  <1> QED
    BY <1>1, <1>2, <1>3, <1>4, <1>5, <1>6, <1>7, <1>8, <1>9, <1>10, <1>11, <1>12, <1>13,
       <1>14, <1>15, <1>16, <1>17, <1>18, <1>19, <1>20, <1>21, <1>22, <1>23, <1>24,
       <1>25, <1>26, <1>27, <1>28, <1>29, <1>30
       DEF Next, Calls, Continue, DataAvailable, Transmit

\* Every reachable state is typed: in particular the status stays in its range and a
\* mutex is held by a thread that can hold it.
THEOREM TypeCorrect == Spec => []TypeOK
  <1>1. TypeOK /\ [Next]_vars => TypeOK'
    BY DataTypeStep, ControlTypeStep DEF TypeOK
  <1> QED
    BY TypeInit, <1>1, PTL DEF Spec

-----------------------------------------------------------------------------
\* Enabling one writer leaves the enabled ones enabled.
LEMMA EnabledStaysEnabled ==
  ASSUME DataTypeOK, NEW p \in Participants, NEW q \in Participants,
         writerEnabled' = [writerEnabled EXCEPT ![writers[p]] = TRUE],
         writers[q] # NoWriter, q = p \/ writerEnabled[writers[q]]
  PROVE  writerEnabled'[writers[q]]
  BY BoundsAssumption DEF DataTypeOK, Objects, NoWriter

\* A mutex is held by the thread that is at one of its places.
LEMMA MutexesStep == TypeOK /\ MutexesHeld /\ [Next]_vars => MutexesHeld'
  <1> SUFFICES ASSUME TypeOK /\ MutexesHeld, [Next]_vars PROVE MutexesHeld'
    OBVIOUS
  <1> USE ThreadsAssumption DEF TypeOK, ControlTypeOK, MutexesHeld, Transmitting, InTrack,
          ControllerPlaces, trackVars, readerVars, writerVars, dataVars, Goto, Threads
  <1>1. CASE Receive
    BY <1>1 DEF Receive
  <1>2. ASSUME NEW t \in Controllers \cup {Listener}, CallbackCheck(t) PROVE MutexesHeld'
    BY <1>2 DEF CallbackCheck, EndCallback
  <1>3. ASSUME NEW t \in Controllers \cup {Listener}, CallbackAdd(t) PROVE MutexesHeld'
    BY <1>3 DEF CallbackAdd, EndCallback
  <1>4. ASSUME NEW t \in Controllers \cup {Listener}, CallbackEmit(t) PROVE MutexesHeld'
    BY <1>4 DEF CallbackEmit, EndCallback
  <1>5. ASSUME NEW w \in Workers, StartTask(w) PROVE MutexesHeld'
    BY <1>5 DEF StartTask
  <1>6. ASSUME NEW w \in Workers, LockTransmission(w) PROVE MutexesHeld'
    BY <1>6 DEF LockTransmission
  <1>7. ASSUME NEW w \in Workers, ShouldTransmit(w) PROVE MutexesHeld'
    BY <1>7 DEF ShouldTransmit, LeaveTransmission, MayTransmit
  <1>8. ASSUME NEW w \in Workers, CheckMaster(w) PROVE MutexesHeld'
    BY <1>8 DEF CheckMaster
  <1>9. ASSUME NEW w \in Workers, StoreTransmitting(w) PROVE MutexesHeld'
    BY <1>9 DEF StoreTransmitting
  <1>10. ASSUME NEW w \in Workers, Take(w) PROVE MutexesHeld'
    BY <1>10 DEF Take
  <1>11. ASSUME NEW w \in Workers, SubTransmitting(w) PROVE MutexesHeld'
    BY <1>11 DEF SubTransmitting, LeaveTransmission
  <1>12. ASSUME NEW w \in Workers, Write(w) PROVE MutexesHeld'
    BY <1>12 DEF Write
  <1>13. ASSUME NEW c \in Controllers, EnableCall(c) PROVE MutexesHeld'
    BY <1>13 DEF EnableCall
  <1>14. ASSUME NEW c \in Controllers, EnableResetStatus(c) PROVE MutexesHeld'
    BY <1>14 DEF EnableResetStatus
  <1>15. ASSUME NEW c \in Controllers, EnableWriter(c) PROVE MutexesHeld'
    BY <1>15 DEF EnableWriter
  <1>16. ASSUME NEW c \in Controllers, EnableReader(c) PROVE MutexesHeld'
    BY <1>16 DEF EnableReader
  <1>17. ASSUME NEW c \in Controllers, EnableNotify(c) PROVE MutexesHeld'
    BY <1>17 DEF EnableNotify, EndCallback
  <1>18. ASSUME NEW c \in Controllers, DisableCall(c) PROVE MutexesHeld'
    BY <1>18 DEF DisableCall
  <1>19. ASSUME NEW c \in Controllers, DisableWaitTransmission(c) PROVE MutexesHeld'
    BY <1>19 DEF DisableWaitTransmission, TransmissionEnded
  <1>20. ASSUME NEW c \in Controllers, DisableReader(c) PROVE MutexesHeld'
    BY <1>20 DEF DisableReader
  <1>21. ASSUME NEW c \in Controllers, DisableWriter(c) PROVE MutexesHeld'
    BY <1>21 DEF DisableWriter
  <1>22. ASSUME NEW c \in Controllers, AddLocked(c) PROVE MutexesHeld'
    BY <1>22 DEF AddLocked
  <1>23. ASSUME NEW c \in Controllers, RemoveLocked(c) PROVE MutexesHeld'
    BY <1>23 DEF RemoveLocked
  <1>24. ASSUME NEW c \in Controllers, DestroyCall(c) PROVE MutexesHeld'
    BY <1>24 DEF DestroyCall
  <1>25. ASSUME NEW c \in Controllers, DestroyUnset(c) PROVE MutexesHeld'
    BY <1>25 DEF DestroyUnset
  <1>26. ASSUME NEW c \in Controllers, DestroyExit(c) PROVE MutexesHeld'
    BY <1>26 DEF DestroyExit
  <1>27. ASSUME NEW c \in Controllers, NEW p \in Participants, AddCall(c, p) PROVE MutexesHeld'
    BY <1>27 DEF AddCall
  <1>28. ASSUME NEW c \in Controllers, NEW p \in Participants, RemoveCall(c, p) PROVE MutexesHeld'
    BY <1>28 DEF RemoveCall
  <1>29. CASE Promote
    BY <1>29 DEF Promote
  <1>30. CASE UNCHANGED vars
    BY <1>30 DEF vars
  <1> QED
    BY <1>1, <1>2, <1>3, <1>4, <1>5, <1>6, <1>7, <1>8, <1>9, <1>10, <1>11, <1>12, <1>13,
       <1>14, <1>15, <1>16, <1>17, <1>18, <1>19, <1>20, <1>21, <1>22, <1>23, <1>24,
       <1>25, <1>26, <1>27, <1>28, <1>29, <1>30
       DEF Next, Calls, Continue, DataAvailable, Transmit

\* Track::enable: only its caller, which holds track_mutex_, touches the writers meanwhile.
LEMMA EnableOrderStep == TypeOK /\ MutexesHeld /\ EnableOrder /\ [Next]_vars => EnableOrder'
  <1> SUFFICES ASSUME TypeOK /\ MutexesHeld /\ EnableOrder, [Next]_vars PROVE EnableOrder'
    OBVIOUS
  <1> USE ThreadsAssumption DEF TypeOK, ControlTypeOK, DataTypeOK, MutexesHeld, EnableOrder,
          EnablePlaces, Ready, Destinations, InTrack, ControllerPlaces, trackVars, readerVars,
          writerVars, dataVars, Goto, Threads
  <1>1. CASE Receive
    BY <1>1 DEF Receive
  <1>2. ASSUME NEW t \in Controllers \cup {Listener}, CallbackCheck(t) PROVE EnableOrder'
    BY <1>2 DEF CallbackCheck, EndCallback
  <1>3. ASSUME NEW t \in Controllers \cup {Listener}, CallbackAdd(t) PROVE EnableOrder'
    <2>1. UNCHANGED <<enabled, todo, writers, writerEnabled>>
      BY <1>3 DEF CallbackAdd
    <2>2. \A d \in Controllers : \/ pc'[d] = pc[d]
                                 \/ pc[d] = "cb_add" /\ pc'[d] \in {"idle", "cb_emit"}
      BY <1>3 DEF CallbackAdd, EndCallback
    <2> QED
      BY <2>1, <2>2
  <1>4. ASSUME NEW t \in Controllers \cup {Listener}, CallbackEmit(t) PROVE EnableOrder'
    BY <1>4 DEF CallbackEmit, EndCallback
  <1>5. ASSUME NEW w \in Workers, StartTask(w) PROVE EnableOrder'
    BY <1>5 DEF StartTask
  <1>6. ASSUME NEW w \in Workers, LockTransmission(w) PROVE EnableOrder'
    BY <1>6 DEF LockTransmission
  <1>7. ASSUME NEW w \in Workers, ShouldTransmit(w) PROVE EnableOrder'
    BY ZenonT(60), <1>7 DEF ShouldTransmit, LeaveTransmission, MayTransmit
  <1>8. ASSUME NEW w \in Workers, CheckMaster(w) PROVE EnableOrder'
    BY <1>8 DEF CheckMaster
  <1>9. ASSUME NEW w \in Workers, StoreTransmitting(w) PROVE EnableOrder'
    BY <1>9 DEF StoreTransmitting
  <1>10. ASSUME NEW w \in Workers, Take(w) PROVE EnableOrder'
    BY <1>10 DEF Take
  <1>11. ASSUME NEW w \in Workers, SubTransmitting(w) PROVE EnableOrder'
    BY <1>11 DEF SubTransmitting, LeaveTransmission
  <1>12. ASSUME NEW w \in Workers, Write(w) PROVE EnableOrder'
    BY <1>12 DEF Write
  <1>13. ASSUME NEW c \in Controllers, EnableCall(c) PROVE EnableOrder'
    BY <1>13 DEF EnableCall
  <1>14. ASSUME NEW c \in Controllers, EnableResetStatus(c) PROVE EnableOrder'
    BY <1>14 DEF EnableResetStatus
  <1>15. ASSUME NEW c \in Controllers, EnableWriter(c) PROVE EnableOrder'
    <2>1. ASSUME NEW q \in Participants, writers[q] # NoWriter, writerEnabled[writers[q]]
          PROVE  writerEnabled'[writers[q]]
      <3>1. UNCHANGED writerEnabled \/ \E p \in Participants :
              writerEnabled' = [writerEnabled EXCEPT ![writers[p]] = TRUE]
        BY <1>15 DEF EnableWriter
      <3> QED
        BY <2>1, <3>1, EnabledStaysEnabled
    <2>2. UNCHANGED <<enabled, readerEnabled, writers>>
      BY <1>15 DEF EnableWriter
    <2>3. \A d \in Controllers \ {c} : pc'[d] \notin EnablePlaces
      BY ZenonT(60), <1>15 DEF EnableWriter
    <2>4. pc[c] = "en_writers" /\ Ready(Destinations \ todo[c])
      BY <1>15 DEF EnableWriter
    <2>5. CASE todo[c] = {} /\ Goto(c, "en_reader") /\ UNCHANGED <<todo, writerEnabled>>
      BY <2>2, <2>3, <2>4, <2>5
    <2>6. ASSUME NEW p \in todo[c], UNCHANGED pc, todo' = [todo EXCEPT ![c] = @ \ {p}],
                 writerEnabled' = [writerEnabled EXCEPT ![writers[p]] = TRUE]
          PROVE  EnableOrder'
      <3>1. \A q \in Destinations \ todo'[c] : writerEnabled'[writers[q]]
        <4>1. p \in Participants /\ todo'[c] = todo[c] \ {p}
          BY <2>6
        <4> QED
          BY <2>4, <2>6, <4>1, EnabledStaysEnabled
      <3> QED
        BY <2>2, <2>3, <2>4, <2>6, <3>1
    <2> QED
      BY <1>15, <2>5, <2>6 DEF EnableWriter
  <1>16. ASSUME NEW c \in Controllers, EnableReader(c) PROVE EnableOrder'
    BY <1>16 DEF EnableReader
  <1>17. ASSUME NEW c \in Controllers, EnableNotify(c) PROVE EnableOrder'
    BY <1>17 DEF EnableNotify, EndCallback
  <1>18. ASSUME NEW c \in Controllers, DisableCall(c) PROVE EnableOrder'
    <2>1. \A d \in Controllers : pc[d] \notin EnablePlaces
      BY ZenonT(60), <1>18 DEF DisableCall
    <2>2. \A d \in Controllers : pc'[d] \notin EnablePlaces
      BY <1>18, <2>1 DEF DisableCall
    <2> QED
      BY <2>2
  <1>19. ASSUME NEW c \in Controllers, DisableWaitTransmission(c) PROVE EnableOrder'
    BY <1>19 DEF DisableWaitTransmission, TransmissionEnded
  <1>20. ASSUME NEW c \in Controllers, DisableReader(c) PROVE EnableOrder'
    BY <1>20 DEF DisableReader
  <1>21. ASSUME NEW c \in Controllers, DisableWriter(c) PROVE EnableOrder'
    BY ZenonT(60), <1>21 DEF DisableWriter
  <1>22. ASSUME NEW c \in Controllers, AddLocked(c) PROVE EnableOrder'
    BY <1>22 DEF AddLocked
  <1>23. ASSUME NEW c \in Controllers, RemoveLocked(c) PROVE EnableOrder'
    BY <1>23 DEF RemoveLocked
  <1>24. ASSUME NEW c \in Controllers, DestroyCall(c) PROVE EnableOrder'
    <2>1. \A d \in Controllers : pc[d] \notin EnablePlaces
      BY <1>24 DEF DestroyCall
    <2>2. \A d \in Controllers : pc'[d] \notin EnablePlaces
      BY <1>24, <2>1 DEF DestroyCall
    <2> QED
      BY <2>2
  <1>25. ASSUME NEW c \in Controllers, DestroyUnset(c) PROVE EnableOrder'
    BY <1>25 DEF DestroyUnset
  <1>26. ASSUME NEW c \in Controllers, DestroyExit(c) PROVE EnableOrder'
    BY <1>26 DEF DestroyExit
  <1>27. ASSUME NEW c \in Controllers, NEW p \in Participants, AddCall(c, p) PROVE EnableOrder'
    BY <1>27 DEF AddCall
  <1>28. ASSUME NEW c \in Controllers, NEW p \in Participants, RemoveCall(c, p) PROVE EnableOrder'
    BY <1>28 DEF RemoveCall
  <1>29. CASE Promote
    BY <1>29 DEF Promote
  <1>30. CASE UNCHANGED vars
    BY <1>30 DEF vars
  <1> QED
    BY <1>1, <1>2, <1>3, <1>4, <1>5, <1>6, <1>7, <1>8, <1>9, <1>10, <1>11, <1>12, <1>13,
       <1>14, <1>15, <1>16, <1>17, <1>18, <1>19, <1>20, <1>21, <1>22, <1>23, <1>24,
       <1>25, <1>26, <1>27, <1>28, <1>29, <1>30
       DEF Next, Calls, Continue, DataAvailable, Transmit

\* Track::disable, likewise.
LEMMA DisableOrderStep == TypeOK /\ MutexesHeld /\ DisableOrder /\ [Next]_vars => DisableOrder'
  <1> SUFFICES ASSUME TypeOK /\ MutexesHeld /\ DisableOrder, [Next]_vars PROVE DisableOrder'
    OBVIOUS
  <1> USE ThreadsAssumption DEF TypeOK, ControlTypeOK, MutexesHeld, DisableOrder, InTrack,
          ControllerPlaces, trackVars, readerVars, writerVars, dataVars, Goto, Threads
  <1>1. CASE Receive
    BY <1>1 DEF Receive
  <1>2. ASSUME NEW t \in Controllers \cup {Listener}, CallbackCheck(t) PROVE DisableOrder'
    BY <1>2 DEF CallbackCheck, EndCallback
  <1>3. ASSUME NEW t \in Controllers \cup {Listener}, CallbackAdd(t) PROVE DisableOrder'
    BY <1>3 DEF CallbackAdd, EndCallback
  <1>4. ASSUME NEW t \in Controllers \cup {Listener}, CallbackEmit(t) PROVE DisableOrder'
    BY <1>4 DEF CallbackEmit, EndCallback
  <1>5. ASSUME NEW w \in Workers, StartTask(w) PROVE DisableOrder'
    BY <1>5 DEF StartTask
  <1>6. ASSUME NEW w \in Workers, LockTransmission(w) PROVE DisableOrder'
    BY <1>6 DEF LockTransmission
  <1>7. ASSUME NEW w \in Workers, ShouldTransmit(w) PROVE DisableOrder'
    BY <1>7 DEF ShouldTransmit, LeaveTransmission, MayTransmit
  <1>8. ASSUME NEW w \in Workers, CheckMaster(w) PROVE DisableOrder'
    BY <1>8 DEF CheckMaster
  <1>9. ASSUME NEW w \in Workers, StoreTransmitting(w) PROVE DisableOrder'
    BY <1>9 DEF StoreTransmitting
  <1>10. ASSUME NEW w \in Workers, Take(w) PROVE DisableOrder'
    BY <1>10 DEF Take
  <1>11. ASSUME NEW w \in Workers, SubTransmitting(w) PROVE DisableOrder'
    BY <1>11 DEF SubTransmitting, LeaveTransmission
  <1>12. ASSUME NEW w \in Workers, Write(w) PROVE DisableOrder'
    BY <1>12 DEF Write
  <1>13. ASSUME NEW c \in Controllers, EnableCall(c) PROVE DisableOrder'
    BY <1>13 DEF EnableCall
  <1>14. ASSUME NEW c \in Controllers, EnableResetStatus(c) PROVE DisableOrder'
    BY <1>14 DEF EnableResetStatus
  <1>15. ASSUME NEW c \in Controllers, EnableWriter(c) PROVE DisableOrder'
    BY <1>15 DEF EnableWriter
  <1>16. ASSUME NEW c \in Controllers, EnableReader(c) PROVE DisableOrder'
    BY <1>16 DEF EnableReader
  <1>17. ASSUME NEW c \in Controllers, EnableNotify(c) PROVE DisableOrder'
    BY <1>17 DEF EnableNotify, EndCallback
  <1>18. ASSUME NEW c \in Controllers, DisableCall(c) PROVE DisableOrder'
    BY <1>18 DEF DisableCall
  <1>19. ASSUME NEW c \in Controllers, DisableWaitTransmission(c) PROVE DisableOrder'
    BY <1>19 DEF DisableWaitTransmission, TransmissionEnded
  <1>20. ASSUME NEW c \in Controllers, DisableReader(c) PROVE DisableOrder'
    BY <1>20 DEF DisableReader
  <1>21. ASSUME NEW c \in Controllers, DisableWriter(c) PROVE DisableOrder'
    BY <1>21 DEF DisableWriter
  <1>22. ASSUME NEW c \in Controllers, AddLocked(c) PROVE DisableOrder'
    BY <1>22 DEF AddLocked
  <1>23. ASSUME NEW c \in Controllers, RemoveLocked(c) PROVE DisableOrder'
    BY <1>23 DEF RemoveLocked
  <1>24. ASSUME NEW c \in Controllers, DestroyCall(c) PROVE DisableOrder'
    BY <1>24 DEF DestroyCall
  <1>25. ASSUME NEW c \in Controllers, DestroyUnset(c) PROVE DisableOrder'
    BY <1>25 DEF DestroyUnset
  <1>26. ASSUME NEW c \in Controllers, DestroyExit(c) PROVE DisableOrder'
    BY <1>26 DEF DestroyExit
  <1>27. ASSUME NEW c \in Controllers, NEW p \in Participants, AddCall(c, p) PROVE DisableOrder'
    BY <1>27 DEF AddCall
  <1>28. ASSUME NEW c \in Controllers, NEW p \in Participants, RemoveCall(c, p) PROVE DisableOrder'
    BY <1>28 DEF RemoveCall
  <1>29. CASE Promote
    BY <1>29 DEF Promote
  <1>30. CASE UNCHANGED vars
    BY <1>30 DEF vars
  <1> QED
    BY <1>1, <1>2, <1>3, <1>4, <1>5, <1>6, <1>7, <1>8, <1>9, <1>10, <1>11, <1>12, <1>13,
       <1>14, <1>15, <1>16, <1>17, <1>18, <1>19, <1>20, <1>21, <1>22, <1>23, <1>24,
       <1>25, <1>26, <1>27, <1>28, <1>29, <1>30
       DEF Next, Calls, Continue, DataAvailable, Transmit

\* What enable and disable together guarantee of an enabled reader.
LEMMA ReaderOrderStep == TypeOK /\ MutexesHeld /\ EnableOrder /\ DisableOrder /\ ReaderOrder /\ [Next]_vars => ReaderOrder'
  <1> SUFFICES ASSUME TypeOK /\ MutexesHeld /\ EnableOrder /\ DisableOrder /\ ReaderOrder, [Next]_vars PROVE ReaderOrder'
    OBVIOUS
  <1> USE ThreadsAssumption DEF TypeOK, ControlTypeOK, DataTypeOK, MutexesHeld, EnableOrder,
          DisableOrder, ReaderOrder, EnablePlaces, Ready, Destinations, InTrack, ControllerPlaces,
          trackVars, readerVars, writerVars, dataVars, Goto, Threads
  <1>1. CASE Receive
    BY <1>1 DEF Receive
  <1>2. ASSUME NEW t \in Controllers \cup {Listener}, CallbackCheck(t) PROVE ReaderOrder'
    BY <1>2 DEF CallbackCheck, EndCallback
  <1>3. ASSUME NEW t \in Controllers \cup {Listener}, CallbackAdd(t) PROVE ReaderOrder'
    BY <1>3 DEF CallbackAdd, EndCallback
  <1>4. ASSUME NEW t \in Controllers \cup {Listener}, CallbackEmit(t) PROVE ReaderOrder'
    BY <1>4 DEF CallbackEmit, EndCallback
  <1>5. ASSUME NEW w \in Workers, StartTask(w) PROVE ReaderOrder'
    BY <1>5 DEF StartTask
  <1>6. ASSUME NEW w \in Workers, LockTransmission(w) PROVE ReaderOrder'
    BY <1>6 DEF LockTransmission
  <1>7. ASSUME NEW w \in Workers, ShouldTransmit(w) PROVE ReaderOrder'
    BY <1>7 DEF ShouldTransmit, LeaveTransmission, MayTransmit
  <1>8. ASSUME NEW w \in Workers, CheckMaster(w) PROVE ReaderOrder'
    BY <1>8 DEF CheckMaster
  <1>9. ASSUME NEW w \in Workers, StoreTransmitting(w) PROVE ReaderOrder'
    BY <1>9 DEF StoreTransmitting
  <1>10. ASSUME NEW w \in Workers, Take(w) PROVE ReaderOrder'
    BY <1>10 DEF Take
  <1>11. ASSUME NEW w \in Workers, SubTransmitting(w) PROVE ReaderOrder'
    BY <1>11 DEF SubTransmitting, LeaveTransmission
  <1>12. ASSUME NEW w \in Workers, Write(w) PROVE ReaderOrder'
    BY <1>12 DEF Write
  <1>13. ASSUME NEW c \in Controllers, EnableCall(c) PROVE ReaderOrder'
    BY <1>13 DEF EnableCall
  <1>14. ASSUME NEW c \in Controllers, EnableResetStatus(c) PROVE ReaderOrder'
    BY <1>14 DEF EnableResetStatus
  <1>15. ASSUME NEW c \in Controllers, EnableWriter(c) PROVE ReaderOrder'
    <2>1. ASSUME NEW q \in Participants, writers[q] # NoWriter, writerEnabled[writers[q]]
          PROVE  writerEnabled'[writers[q]]
      <3>1. UNCHANGED writerEnabled \/ \E p \in Participants :
              writerEnabled' = [writerEnabled EXCEPT ![writers[p]] = TRUE]
        BY <1>15 DEF EnableWriter
      <3> QED
        BY <2>1, <3>1, EnabledStaysEnabled
    <2>2. UNCHANGED <<enabled, readerEnabled, writers>>
      BY <1>15 DEF EnableWriter
    <2>3. \A d \in Controllers : pc[d] \in {"dis_tx", "dis_reader"} => pc'[d] = pc[d]
      BY <1>15 DEF EnableWriter
    <2> QED
      BY <2>1, <2>2, <2>3
  <1>16. ASSUME NEW c \in Controllers, EnableReader(c) PROVE ReaderOrder'
    BY <1>16 DEF EnableReader
  <1>17. ASSUME NEW c \in Controllers, EnableNotify(c) PROVE ReaderOrder'
    BY <1>17 DEF EnableNotify, EndCallback
  <1>18. ASSUME NEW c \in Controllers, DisableCall(c) PROVE ReaderOrder'
    BY <1>18 DEF DisableCall
  <1>19. ASSUME NEW c \in Controllers, DisableWaitTransmission(c) PROVE ReaderOrder'
    BY <1>19 DEF DisableWaitTransmission, TransmissionEnded
  <1>20. ASSUME NEW c \in Controllers, DisableReader(c) PROVE ReaderOrder'
    BY <1>20 DEF DisableReader
  <1>21. ASSUME NEW c \in Controllers, DisableWriter(c) PROVE ReaderOrder'
    BY <1>21 DEF DisableWriter
  <1>22. ASSUME NEW c \in Controllers, AddLocked(c) PROVE ReaderOrder'
    <2>1. readerEnabled => enabled
      BY <1>22 DEF AddLocked
    <2>2. /\ UNCHANGED <<enabled, readerEnabled>>
          /\ writers' = [writers EXCEPT ![arg[c].to] = arg[c].writer]
          /\ writerEnabled' = [writerEnabled EXCEPT ![arg[c].writer] = @ \/ enabled]
      BY <1>22 DEF AddLocked
    <2>3. ASSUME enabled, Ready(Destinations), NEW q \in Participants, writers'[q] # NoWriter
          PROVE  writerEnabled'[writers'[q]]
      <3>1. arg[c].writer \in 0..MaxObjects /\ arg[c].to \in Participants
        BY DEF Arguments
      <3>2. CASE q = arg[c].to
        <4>1. writers'[q] = arg[c].writer /\ arg[c].writer \in Objects
          BY <2>2, <2>3, <3>1, <3>2 DEF Objects, NoWriter
        <4> QED
          BY <2>2, <2>3, <4>1
      <3>3. CASE q # arg[c].to
        <4>1. writers'[q] = writers[q] /\ writers[q] \in Objects /\ writerEnabled[writers[q]]
          BY <2>2, <2>3, <3>1, <3>3 DEF Objects, NoWriter
        <4> QED
          BY <2>2, <2>3, <4>1
      <3> QED
        BY <3>2, <3>3
    <2> QED
      BY <2>1, <2>2, <2>3
  <1>23. ASSUME NEW c \in Controllers, RemoveLocked(c) PROVE ReaderOrder'
    BY <1>23 DEF RemoveLocked
  <1>24. ASSUME NEW c \in Controllers, DestroyCall(c) PROVE ReaderOrder'
    BY <1>24 DEF DestroyCall
  <1>25. ASSUME NEW c \in Controllers, DestroyUnset(c) PROVE ReaderOrder'
    BY <1>25 DEF DestroyUnset
  <1>26. ASSUME NEW c \in Controllers, DestroyExit(c) PROVE ReaderOrder'
    BY <1>26 DEF DestroyExit
  <1>27. ASSUME NEW c \in Controllers, NEW p \in Participants, AddCall(c, p) PROVE ReaderOrder'
    BY <1>27 DEF AddCall
  <1>28. ASSUME NEW c \in Controllers, NEW p \in Participants, RemoveCall(c, p) PROVE ReaderOrder'
    BY <1>28 DEF RemoveCall
  <1>29. CASE Promote
    BY <1>29 DEF Promote
  <1>30. CASE UNCHANGED vars
    BY <1>30 DEF vars
  <1> QED
    BY <1>1, <1>2, <1>3, <1>4, <1>5, <1>6, <1>7, <1>8, <1>9, <1>10, <1>11, <1>12, <1>13,
       <1>14, <1>15, <1>16, <1>17, <1>18, <1>19, <1>20, <1>21, <1>22, <1>23, <1>24,
       <1>25, <1>26, <1>27, <1>28, <1>29, <1>30
       DEF Next, Calls, Continue, DataAvailable, Transmit

\* disable is past the transmission mutex only when no thread was in the loop, and who
\* enters it later finds enabled_ down.
LEMMA LoopStoppedStep == TypeOK /\ MutexesHeld /\ DisableOrder /\ LoopStopped /\ [Next]_vars => LoopStopped'
  <1> SUFFICES ASSUME TypeOK /\ MutexesHeld /\ DisableOrder /\ LoopStopped, [Next]_vars PROVE LoopStopped'
    OBVIOUS
  <1> USE ThreadsAssumption DEF TypeOK, ControlTypeOK, MutexesHeld, DisableOrder, LoopStopped,
          Transmitting, InTrack, ControllerPlaces, WorkerPlaces, trackVars, readerVars,
          writerVars, dataVars, Goto, Threads
  <1>1. CASE Receive
    BY <1>1 DEF Receive
  <1>2. ASSUME NEW t \in Controllers \cup {Listener}, CallbackCheck(t) PROVE LoopStopped'
    BY <1>2 DEF CallbackCheck, EndCallback
  <1>3. ASSUME NEW t \in Controllers \cup {Listener}, CallbackAdd(t) PROVE LoopStopped'
    BY <1>3 DEF CallbackAdd, EndCallback
  <1>4. ASSUME NEW t \in Controllers \cup {Listener}, CallbackEmit(t) PROVE LoopStopped'
    BY <1>4 DEF CallbackEmit, EndCallback
  <1>5. ASSUME NEW w \in Workers, StartTask(w) PROVE LoopStopped'
    BY <1>5 DEF StartTask
  <1>6. ASSUME NEW w \in Workers, LockTransmission(w) PROVE LoopStopped'
    BY <1>6 DEF LockTransmission
  <1>7. ASSUME NEW w \in Workers, ShouldTransmit(w) PROVE LoopStopped'
    BY <1>7 DEF ShouldTransmit, LeaveTransmission, MayTransmit
  <1>8. ASSUME NEW w \in Workers, CheckMaster(w) PROVE LoopStopped'
    BY <1>8 DEF CheckMaster
  <1>9. ASSUME NEW w \in Workers, StoreTransmitting(w) PROVE LoopStopped'
    BY <1>9 DEF StoreTransmitting
  <1>10. ASSUME NEW w \in Workers, Take(w) PROVE LoopStopped'
    BY <1>10 DEF Take
  <1>11. ASSUME NEW w \in Workers, SubTransmitting(w) PROVE LoopStopped'
    BY <1>11 DEF SubTransmitting, LeaveTransmission
  <1>12. ASSUME NEW w \in Workers, Write(w) PROVE LoopStopped'
    BY <1>12 DEF Write
  <1>13. ASSUME NEW c \in Controllers, EnableCall(c) PROVE LoopStopped'
    BY <1>13 DEF EnableCall
  <1>14. ASSUME NEW c \in Controllers, EnableResetStatus(c) PROVE LoopStopped'
    BY <1>14 DEF EnableResetStatus
  <1>15. ASSUME NEW c \in Controllers, EnableWriter(c) PROVE LoopStopped'
    BY <1>15 DEF EnableWriter
  <1>16. ASSUME NEW c \in Controllers, EnableReader(c) PROVE LoopStopped'
    BY <1>16 DEF EnableReader
  <1>17. ASSUME NEW c \in Controllers, EnableNotify(c) PROVE LoopStopped'
    BY <1>17 DEF EnableNotify, EndCallback
  <1>18. ASSUME NEW c \in Controllers, DisableCall(c) PROVE LoopStopped'
    BY <1>18 DEF DisableCall
  <1>19. ASSUME NEW c \in Controllers, DisableWaitTransmission(c) PROVE LoopStopped'
    BY <1>19 DEF DisableWaitTransmission, TransmissionEnded
  <1>20. ASSUME NEW c \in Controllers, DisableReader(c) PROVE LoopStopped'
    BY <1>20 DEF DisableReader
  <1>21. ASSUME NEW c \in Controllers, DisableWriter(c) PROVE LoopStopped'
    BY <1>21 DEF DisableWriter
  <1>22. ASSUME NEW c \in Controllers, AddLocked(c) PROVE LoopStopped'
    BY <1>22 DEF AddLocked
  <1>23. ASSUME NEW c \in Controllers, RemoveLocked(c) PROVE LoopStopped'
    BY <1>23 DEF RemoveLocked
  <1>24. ASSUME NEW c \in Controllers, DestroyCall(c) PROVE LoopStopped'
    BY <1>24 DEF DestroyCall
  <1>25. ASSUME NEW c \in Controllers, DestroyUnset(c) PROVE LoopStopped'
    BY <1>25 DEF DestroyUnset
  <1>26. ASSUME NEW c \in Controllers, DestroyExit(c) PROVE LoopStopped'
    BY <1>26 DEF DestroyExit
  <1>27. ASSUME NEW c \in Controllers, NEW p \in Participants, AddCall(c, p) PROVE LoopStopped'
    BY <1>27 DEF AddCall
  <1>28. ASSUME NEW c \in Controllers, NEW p \in Participants, RemoveCall(c, p) PROVE LoopStopped'
    BY <1>28 DEF RemoveCall
  <1>29. CASE Promote
    BY <1>29 DEF Promote
  <1>30. CASE UNCHANGED vars
    BY <1>30 DEF vars
  <1> QED
    BY <1>1, <1>2, <1>3, <1>4, <1>5, <1>6, <1>7, <1>8, <1>9, <1>10, <1>11, <1>12, <1>13,
       <1>14, <1>15, <1>16, <1>17, <1>18, <1>19, <1>20, <1>21, <1>22, <1>23, <1>24,
       <1>25, <1>26, <1>27, <1>28, <1>29, <1>30
       DEF Next, Calls, Continue, DataAvailable, Transmit

\* Nothing demotes a proxy between the standby check and the write.
LEMMA MasterLoopStep == TypeOK /\ MasterLoop /\ [Next]_vars => MasterLoop'
  <1> SUFFICES ASSUME TypeOK /\ MasterLoop, [Next]_vars PROVE MasterLoop'
    OBVIOUS
  <1> USE ThreadsAssumption DEF TypeOK, ControlTypeOK, MasterLoop, trackVars, readerVars,
          writerVars, dataVars, Goto, Threads
  <1>1. CASE Receive
    BY <1>1 DEF Receive
  <1>2. ASSUME NEW t \in Controllers \cup {Listener}, CallbackCheck(t) PROVE MasterLoop'
    BY <1>2 DEF CallbackCheck, EndCallback
  <1>3. ASSUME NEW t \in Controllers \cup {Listener}, CallbackAdd(t) PROVE MasterLoop'
    BY <1>3 DEF CallbackAdd, EndCallback
  <1>4. ASSUME NEW t \in Controllers \cup {Listener}, CallbackEmit(t) PROVE MasterLoop'
    BY <1>4 DEF CallbackEmit, EndCallback
  <1>5. ASSUME NEW w \in Workers, StartTask(w) PROVE MasterLoop'
    BY <1>5 DEF StartTask
  <1>6. ASSUME NEW w \in Workers, LockTransmission(w) PROVE MasterLoop'
    BY <1>6 DEF LockTransmission
  <1>7. ASSUME NEW w \in Workers, ShouldTransmit(w) PROVE MasterLoop'
    BY <1>7 DEF ShouldTransmit, LeaveTransmission, MayTransmit
  <1>8. ASSUME NEW w \in Workers, CheckMaster(w) PROVE MasterLoop'
    BY <1>8 DEF CheckMaster
  <1>9. ASSUME NEW w \in Workers, StoreTransmitting(w) PROVE MasterLoop'
    BY <1>9 DEF StoreTransmitting
  <1>10. ASSUME NEW w \in Workers, Take(w) PROVE MasterLoop'
    BY <1>10 DEF Take
  <1>11. ASSUME NEW w \in Workers, SubTransmitting(w) PROVE MasterLoop'
    BY <1>11 DEF SubTransmitting, LeaveTransmission
  <1>12. ASSUME NEW w \in Workers, Write(w) PROVE MasterLoop'
    BY <1>12 DEF Write
  <1>13. ASSUME NEW c \in Controllers, EnableCall(c) PROVE MasterLoop'
    BY <1>13 DEF EnableCall
  <1>14. ASSUME NEW c \in Controllers, EnableResetStatus(c) PROVE MasterLoop'
    BY <1>14 DEF EnableResetStatus
  <1>15. ASSUME NEW c \in Controllers, EnableWriter(c) PROVE MasterLoop'
    BY <1>15 DEF EnableWriter
  <1>16. ASSUME NEW c \in Controllers, EnableReader(c) PROVE MasterLoop'
    BY <1>16 DEF EnableReader
  <1>17. ASSUME NEW c \in Controllers, EnableNotify(c) PROVE MasterLoop'
    BY <1>17 DEF EnableNotify, EndCallback
  <1>18. ASSUME NEW c \in Controllers, DisableCall(c) PROVE MasterLoop'
    BY <1>18 DEF DisableCall
  <1>19. ASSUME NEW c \in Controllers, DisableWaitTransmission(c) PROVE MasterLoop'
    BY <1>19 DEF DisableWaitTransmission, TransmissionEnded
  <1>20. ASSUME NEW c \in Controllers, DisableReader(c) PROVE MasterLoop'
    BY <1>20 DEF DisableReader
  <1>21. ASSUME NEW c \in Controllers, DisableWriter(c) PROVE MasterLoop'
    BY <1>21 DEF DisableWriter
  <1>22. ASSUME NEW c \in Controllers, AddLocked(c) PROVE MasterLoop'
    BY <1>22 DEF AddLocked
  <1>23. ASSUME NEW c \in Controllers, RemoveLocked(c) PROVE MasterLoop'
    BY <1>23 DEF RemoveLocked
  <1>24. ASSUME NEW c \in Controllers, DestroyCall(c) PROVE MasterLoop'
    BY <1>24 DEF DestroyCall
  <1>25. ASSUME NEW c \in Controllers, DestroyUnset(c) PROVE MasterLoop'
    BY <1>25 DEF DestroyUnset
  <1>26. ASSUME NEW c \in Controllers, DestroyExit(c) PROVE MasterLoop'
    BY <1>26 DEF DestroyExit
  <1>27. ASSUME NEW c \in Controllers, NEW p \in Participants, AddCall(c, p) PROVE MasterLoop'
    BY <1>27 DEF AddCall
  <1>28. ASSUME NEW c \in Controllers, NEW p \in Participants, RemoveCall(c, p) PROVE MasterLoop'
    BY <1>28 DEF RemoveCall
  <1>29. CASE Promote
    BY <1>29 DEF Promote
  <1>30. CASE UNCHANGED vars
    BY <1>30 DEF vars
  <1> QED
    BY <1>1, <1>2, <1>3, <1>4, <1>5, <1>6, <1>7, <1>8, <1>9, <1>10, <1>11, <1>12, <1>13,
       <1>14, <1>15, <1>16, <1>17, <1>18, <1>19, <1>20, <1>21, <1>22, <1>23, <1>24,
       <1>25, <1>26, <1>27, <1>28, <1>29, <1>30
       DEF Next, Calls, Continue, DataAvailable, Transmit

\* A sample is taken from an enabled reader alone, and its writers stay enabled.
LEMMA WritersReadyStep == IInv /\ [Next]_vars => WritersReadyWhileWriting'
  <1> SUFFICES ASSUME IInv, [Next]_vars PROVE WritersReadyWhileWriting'
    OBVIOUS
  <1> USE ThreadsAssumption DEF IInv, TypeOK, ControlTypeOK, DataTypeOK, MutexesHeld,
          DisableOrder, ReaderOrder, LoopStopped, WritersReadyWhileWriting, Ready, Destinations,
          Transmitting, InTrack, ControllerPlaces, trackVars, readerVars, writerVars, dataVars,
          Goto, Threads
  <1>1. CASE Receive
    BY <1>1 DEF Receive
  <1>2. ASSUME NEW t \in Controllers \cup {Listener}, CallbackCheck(t) PROVE WritersReadyWhileWriting'
    BY <1>2 DEF CallbackCheck, EndCallback
  <1>3. ASSUME NEW t \in Controllers \cup {Listener}, CallbackAdd(t) PROVE WritersReadyWhileWriting'
    BY <1>3 DEF CallbackAdd, EndCallback
  <1>4. ASSUME NEW t \in Controllers \cup {Listener}, CallbackEmit(t) PROVE WritersReadyWhileWriting'
    BY <1>4 DEF CallbackEmit, EndCallback
  <1>5. ASSUME NEW w \in Workers, StartTask(w) PROVE WritersReadyWhileWriting'
    BY <1>5 DEF StartTask
  <1>6. ASSUME NEW w \in Workers, LockTransmission(w) PROVE WritersReadyWhileWriting'
    BY <1>6 DEF LockTransmission
  <1>7. ASSUME NEW w \in Workers, ShouldTransmit(w) PROVE WritersReadyWhileWriting'
    BY <1>7 DEF ShouldTransmit, LeaveTransmission, MayTransmit
  <1>8. ASSUME NEW w \in Workers, CheckMaster(w) PROVE WritersReadyWhileWriting'
    BY <1>8 DEF CheckMaster
  <1>9. ASSUME NEW w \in Workers, StoreTransmitting(w) PROVE WritersReadyWhileWriting'
    BY <1>9 DEF StoreTransmitting
  <1>10. ASSUME NEW w \in Workers, Take(w) PROVE WritersReadyWhileWriting'
    BY <1>10 DEF Take
  <1>11. ASSUME NEW w \in Workers, SubTransmitting(w) PROVE WritersReadyWhileWriting'
    BY <1>11 DEF SubTransmitting, LeaveTransmission
  <1>12. ASSUME NEW w \in Workers, Write(w) PROVE WritersReadyWhileWriting'
    BY <1>12 DEF Write
  <1>13. ASSUME NEW c \in Controllers, EnableCall(c) PROVE WritersReadyWhileWriting'
    BY <1>13 DEF EnableCall
  <1>14. ASSUME NEW c \in Controllers, EnableResetStatus(c) PROVE WritersReadyWhileWriting'
    BY <1>14 DEF EnableResetStatus
  <1>15. ASSUME NEW c \in Controllers, EnableWriter(c) PROVE WritersReadyWhileWriting'
    <2>1. ASSUME NEW q \in Participants, writers[q] # NoWriter, writerEnabled[writers[q]]
          PROVE  writerEnabled'[writers[q]]
      <3>1. UNCHANGED writerEnabled \/ \E p \in Participants :
              writerEnabled' = [writerEnabled EXCEPT ![writers[p]] = TRUE]
        BY <1>15 DEF EnableWriter
      <3> QED
        BY <2>1, <3>1, EnabledStaysEnabled
    <2>2. UNCHANGED <<enabled, readerEnabled, writers>>
      BY <1>15 DEF EnableWriter
    <2>3. \A w \in Workers : pc'[w] = pc[w] /\ todo'[w] = todo[w]
      BY <1>15 DEF EnableWriter
    <2> QED
      BY <2>1, <2>2, <2>3
  <1>16. ASSUME NEW c \in Controllers, EnableReader(c) PROVE WritersReadyWhileWriting'
    BY <1>16 DEF EnableReader
  <1>17. ASSUME NEW c \in Controllers, EnableNotify(c) PROVE WritersReadyWhileWriting'
    BY <1>17 DEF EnableNotify, EndCallback
  <1>18. ASSUME NEW c \in Controllers, DisableCall(c) PROVE WritersReadyWhileWriting'
    BY <1>18 DEF DisableCall
  <1>19. ASSUME NEW c \in Controllers, DisableWaitTransmission(c) PROVE WritersReadyWhileWriting'
    BY <1>19 DEF DisableWaitTransmission, TransmissionEnded
  <1>20. ASSUME NEW c \in Controllers, DisableReader(c) PROVE WritersReadyWhileWriting'
    BY <1>20 DEF DisableReader
  <1>21. ASSUME NEW c \in Controllers, DisableWriter(c) PROVE WritersReadyWhileWriting'
    BY <1>21 DEF DisableWriter
  <1>22. ASSUME NEW c \in Controllers, AddLocked(c) PROVE WritersReadyWhileWriting'
    BY <1>22 DEF AddLocked
  <1>23. ASSUME NEW c \in Controllers, RemoveLocked(c) PROVE WritersReadyWhileWriting'
    BY <1>23 DEF RemoveLocked
  <1>24. ASSUME NEW c \in Controllers, DestroyCall(c) PROVE WritersReadyWhileWriting'
    BY <1>24 DEF DestroyCall
  <1>25. ASSUME NEW c \in Controllers, DestroyUnset(c) PROVE WritersReadyWhileWriting'
    BY <1>25 DEF DestroyUnset
  <1>26. ASSUME NEW c \in Controllers, DestroyExit(c) PROVE WritersReadyWhileWriting'
    BY <1>26 DEF DestroyExit
  <1>27. ASSUME NEW c \in Controllers, NEW p \in Participants, AddCall(c, p) PROVE WritersReadyWhileWriting'
    BY <1>27 DEF AddCall
  <1>28. ASSUME NEW c \in Controllers, NEW p \in Participants, RemoveCall(c, p) PROVE WritersReadyWhileWriting'
    BY <1>28 DEF RemoveCall
  <1>29. CASE Promote
    BY <1>29 DEF Promote
  <1>30. CASE UNCHANGED vars
    BY <1>30 DEF vars
  <1> QED
    BY <1>1, <1>2, <1>3, <1>4, <1>5, <1>6, <1>7, <1>8, <1>9, <1>10, <1>11, <1>12, <1>13,
       <1>14, <1>15, <1>16, <1>17, <1>18, <1>19, <1>20, <1>21, <1>22, <1>23, <1>24,
       <1>25, <1>26, <1>27, <1>28, <1>29, <1>30
       DEF Next, Calls, Continue, DataAvailable, Transmit

\* A track just built satisfies every part: no thread is inside it.
LEMMA IInvInit == Init => IInv
  <1> SUFFICES ASSUME Init PROVE IInv
    OBVIOUS
  <1>1. TypeOK
    BY TypeInit
  <1>2. \A t \in Threads : pc[t] = "idle"
    BY DEF Init
  <1>3. MutexesHeld
    BY <1>2, ThreadsAssumption DEF Init, MutexesHeld, Threads, Transmitting, InTrack
  <1>4. EnableOrder /\ DisableOrder
    BY <1>2 DEF EnableOrder, DisableOrder, EnablePlaces, Threads
  <1>5. ReaderOrder
    BY DEF Init, ReaderOrder
  <1>6. LoopStopped /\ MasterLoop /\ WritersReadyWhileWriting
    BY <1>2 DEF LoopStopped, MasterLoop, WritersReadyWhileWriting, Threads
  <1> QED
    BY <1>1, <1>3, <1>4, <1>5, <1>6 DEF IInv

\* Every step keeps every part.
LEMMA IInvStep == IInv /\ [Next]_vars => IInv'
  <1> SUFFICES ASSUME IInv, [Next]_vars PROVE IInv'
    OBVIOUS
  <1>1. TypeOK'
    BY DataTypeStep, ControlTypeStep DEF IInv, TypeOK
  <1>2. MutexesHeld' /\ EnableOrder' /\ DisableOrder'
    BY MutexesStep, EnableOrderStep, DisableOrderStep DEF IInv
  <1>3. ReaderOrder' /\ LoopStopped' /\ MasterLoop'
    BY ReaderOrderStep, LoopStoppedStep, MasterLoopStep DEF IInv
  <1>4. WritersReadyWhileWriting'
    BY WritersReadyStep
  <1> QED
    BY <1>1, <1>2, <1>3, <1>4 DEF IInv

\* The inductive invariant holds in every reachable state.
THEOREM Invariant == Spec => []IInv
  BY IInvInit, IInvStep, PTL DEF Spec

\* No transmission ever writes with a writer that is not enabled, nor takes from
\* a disabled reader: the lock-free order of Track::enable and Track::disable is right.
THEOREM WritersReady == Spec => []WritersReadyWhileWriting
  <1>1. IInv => WritersReadyWhileWriting
    BY DEF IInv
  <1> QED
    BY Invariant, <1>1, PTL

\* When Track::disable has returned no sample is in flight.
THEOREM DisabledIsQuiet == Spec => []QuietWhenDisabled
  <1>1. IInv => QuietWhenDisabled
    <2> SUFFICES ASSUME IInv, ~enabled, trackMutex = Nobody, NEW w \in Workers
                 PROVE  pc[w] \in {"idle", "tx_lock", "tx_check", "tx_master"}
      BY DEF QuietWhenDisabled
    <2>1. \A c \in Controllers : pc[c] # "dis_tx"
      BY ThreadsAssumption DEF IInv, MutexesHeld, InTrack, ControllerPlaces, Threads
    <2> QED
      BY <2>1 DEF IInv, LoopStopped
  <1> QED
    BY Invariant, <1>1, PTL

\* What a participant was given only grows while the proxy is the master and the
\* track is enabled, or its disable has not returned.
THEOREM NothingForwardedWhileOff == Spec => NoForwardWhileOff
  <1> DEFINE Off == ~masterFlag \/ (~enabled /\ trackMutex = Nobody)
  <1>1. ASSUME IInv, [Next]_vars, Off PROVE out' = out
    <2>1. \A w \in Workers : pc[w] # "tx_write"
      <3>1. ~enabled /\ trackMutex = Nobody => \A c \in Controllers : pc[c] # "dis_tx"
        BY <1>1, ThreadsAssumption DEF IInv, MutexesHeld, InTrack, ControllerPlaces, Threads
      <3> QED
        BY <1>1, <3>1 DEF IInv, MasterLoop, LoopStopped
    <2>2. \A w \in Workers : ~Write(w)
      BY <2>1 DEF Write
    <2> USE DEF dataVars
    <2>3. CASE Receive
      BY <2>3 DEF Receive
    <2>4. ASSUME NEW t \in Controllers \cup {Listener}, CallbackCheck(t) PROVE out' = out
      BY <2>4 DEF CallbackCheck
    <2>5. ASSUME NEW t \in Controllers \cup {Listener}, CallbackAdd(t) PROVE out' = out
      BY <2>5 DEF CallbackAdd
    <2>6. ASSUME NEW t \in Controllers \cup {Listener}, CallbackEmit(t) PROVE out' = out
      BY <2>6 DEF CallbackEmit
    <2>7. ASSUME NEW w \in Workers, StartTask(w) PROVE out' = out
      BY <2>7 DEF StartTask
    <2>8. ASSUME NEW w \in Workers, LockTransmission(w) PROVE out' = out
      BY <2>8 DEF LockTransmission
    <2>9. ASSUME NEW w \in Workers, ShouldTransmit(w) PROVE out' = out
      BY <2>9 DEF ShouldTransmit
    <2>10. ASSUME NEW w \in Workers, CheckMaster(w) PROVE out' = out
      BY <2>10 DEF CheckMaster
    <2>11. ASSUME NEW w \in Workers, StoreTransmitting(w) PROVE out' = out
      BY <2>11 DEF StoreTransmitting
    <2>12. ASSUME NEW w \in Workers, Take(w) PROVE out' = out
      BY <2>12 DEF Take
    <2>13. ASSUME NEW w \in Workers, SubTransmitting(w) PROVE out' = out
      BY <2>13 DEF SubTransmitting
    <2>14. ASSUME NEW c \in Controllers, EnableCall(c) PROVE out' = out
      BY <2>14 DEF EnableCall
    <2>15. ASSUME NEW c \in Controllers, EnableResetStatus(c) PROVE out' = out
      BY <2>15 DEF EnableResetStatus
    <2>16. ASSUME NEW c \in Controllers, EnableWriter(c) PROVE out' = out
      BY <2>16 DEF EnableWriter
    <2>17. ASSUME NEW c \in Controllers, EnableReader(c) PROVE out' = out
      BY <2>17 DEF EnableReader
    <2>18. ASSUME NEW c \in Controllers, EnableNotify(c) PROVE out' = out
      BY <2>18 DEF EnableNotify
    <2>19. ASSUME NEW c \in Controllers, DisableCall(c) PROVE out' = out
      BY <2>19 DEF DisableCall
    <2>20. ASSUME NEW c \in Controllers, DisableWaitTransmission(c) PROVE out' = out
      BY <2>20 DEF DisableWaitTransmission
    <2>21. ASSUME NEW c \in Controllers, DisableReader(c) PROVE out' = out
      BY <2>21 DEF DisableReader
    <2>22. ASSUME NEW c \in Controllers, DisableWriter(c) PROVE out' = out
      BY <2>22 DEF DisableWriter
    <2>23. ASSUME NEW c \in Controllers, AddLocked(c) PROVE out' = out
      BY <2>23 DEF AddLocked
    <2>24. ASSUME NEW c \in Controllers, RemoveLocked(c) PROVE out' = out
      BY <2>24 DEF RemoveLocked
    <2>25. ASSUME NEW c \in Controllers, DestroyCall(c) PROVE out' = out
      BY <2>25 DEF DestroyCall
    <2>26. ASSUME NEW c \in Controllers, DestroyUnset(c) PROVE out' = out
      BY <2>26 DEF DestroyUnset
    <2>27. ASSUME NEW c \in Controllers, DestroyExit(c) PROVE out' = out
      BY <2>27 DEF DestroyExit
    <2>28. ASSUME NEW c \in Controllers, NEW p \in Participants, AddCall(c, p) PROVE out' = out
      BY <2>28 DEF AddCall
    <2>29. ASSUME NEW c \in Controllers, NEW p \in Participants, RemoveCall(c, p) PROVE out' = out
      BY <2>29 DEF RemoveCall
    <2>30. CASE Promote
      BY <2>30 DEF Promote
    <2>31. CASE UNCHANGED vars
      BY <2>31 DEF vars
    <2> QED
      BY <1>1, <2>2, <2>3, <2>4, <2>5, <2>6, <2>7, <2>8, <2>9, <2>10, <2>11, <2>12,
         <2>13, <2>14, <2>15, <2>16, <2>17, <2>18, <2>19, <2>20, <2>21, <2>22, <2>23,
         <2>24, <2>25, <2>26, <2>27, <2>28, <2>29, <2>30, <2>31
         DEF Next, Calls, Continue, DataAvailable, Transmit
  <1>2. IInv /\ [Next]_vars => [Off => out' = out]_vars
    BY <1>1
  <1> QED
    BY Invariant, <1>2, PTL DEF Spec, NoForwardWhileOff

-----------------------------------------------------------------------------
(***************************************************************************)
(* NoLostWakeup.  IInv is about the order of enable and disable; what the  *)
(* listener and transmit_ agree on through data_available_status_ alone    *)
(* needs more: WakeInv, in named parts.  A status other than no_more_data  *)
(* promises a task; a status of no_more_data promises that there is        *)
(* nothing to take, or that somebody is about to announce it.  The counter *)
(* is bounded where it is trusted: a task that finds it untouched          *)
(* (NothingAnnounced) must not be fooled by a counter that went around.    *)
(***************************************************************************)

\* Who may still announce data: the listener, and a caller on its way through enable.
CallbackPlaces == {"cb_check", "cb_add", "cb_emit"}
Announcing(t) == pc[t] \in {"cb_check", "cb_add"}
BeforeReader == {"en_status", "en_writers", "en_reader"}
Enabling(c) == pc[c] \in BeforeReader \cup {"en_notify"} \/ Announcing(c)
Attended == queued > 0 \/ \E w \in Workers : pc[w] # "idle"

\* The destructor takes the callback away and raises exit_ on a disabled track only.
DyingOff ==
  /\ dying => ~enabled
  /\ exit \/ ~callbackSet => dying
  /\ \A c \in Controllers : pc[c] \in {"dtor_unset", "dtor_exit", "gone"} => dying

\* A callback runs with the RTPS mutex of the reader, the listener's for a sample sent.
CallbackHolds ==
  /\ pc[Listener] \in CallbackPlaces => rtpsMutex = Listener /\ sent > 0
  /\ \A c \in Controllers : pc[c] \in CallbackPlaces => rtpsMutex = c

\* The reader of an enabled track is disabled only on the way through enable, and a
\* transmission that found no data found it enabled.
ReaderStates ==
  /\ \A c \in Controllers : pc[c] \in BeforeReader => ~readerEnabled
  /\ enabled /\ ~readerEnabled => \E c \in Controllers : pc[c] \in BeforeReader
  /\ \A w \in Workers : pc[w] = "tx_sub" => readerEnabled

\* Two for each announcement still to come of a sample already sent, or of enable.
Pending == (IF Announcing(Listener) THEN 2 ELSE 0)
             + (IF \E c \in Controllers : Enabling(c) THEN 2 ELSE 0)

\* The counter does not wrap, except where the next step stores it anew.
CounterBounded ==
  \/ ~enabled
  \/ \E c \in Controllers : pc[c] = "en_status"
  \/ \E w \in Workers : pc[w] \in {"tx_check", "tx_master", "tx_store"}
  \/ status + Pending =< 2 * sent + 3

\* A status other than no_more_data has its task.
RaisedMeansTask ==
  (enabled /\ status # NoMoreData) =>
    \/ Attended
    \/ \E t \in Controllers \cup {Listener} : pc[t] = "cb_emit"
    \/ \E c \in Controllers : pc[c] = "en_status"

\* A status of no_more_data leaves nothing in the reader that is not about to be announced.
LoweredMeansSeen ==
  (enabled /\ status = NoMoreData /\ history # <<>> /\ kind # "best_effort") =>
    \/ Attended
    \/ Announcing(Listener)
    \/ \E c \in Controllers : Enabling(c)

\* Who is about to leave transmit_ with the status untouched has seen everything.
LastLookHolds ==
  \A w \in Workers :
    (pc[w] = "tx_sub" /\ enabled /\ status = TransmittingData /\ history # <<>>
       /\ kind # "best_effort") =>
      Announcing(Listener) \/ \E c \in Controllers : Enabling(c)

WakeInv == /\ DyingOff /\ CallbackHolds /\ ReaderStates /\ CounterBounded
           /\ RaisedMeansTask /\ LoweredMeansSeen /\ LastLookHolds

\* Only the destructor, which no call overlaps, raises exit_ or takes the callback away.
LEMMA DyingOffStep == IInv /\ DyingOff /\ [Next]_vars => DyingOff'
  <1> SUFFICES ASSUME IInv /\ DyingOff, [Next]_vars PROVE DyingOff'
    OBVIOUS
  <1> USE ThreadsAssumption DEF IInv, TypeOK, ControlTypeOK, MutexesHeld, InTrack,
          ControllerPlaces, WorkerPlaces, trackVars, readerVars, writerVars, dataVars, Goto,
          Threads, DyingOff, EnableOrder, EnablePlaces
  <1>1. CASE Receive
    BY <1>1 DEF Receive
  <1>2. ASSUME NEW t \in Controllers \cup {Listener}, CallbackCheck(t) PROVE DyingOff'
    BY <1>2 DEF CallbackCheck, EndCallback
  <1>3. ASSUME NEW t \in Controllers \cup {Listener}, CallbackAdd(t) PROVE DyingOff'
    BY <1>3 DEF CallbackAdd, EndCallback
  <1>4. ASSUME NEW t \in Controllers \cup {Listener}, CallbackEmit(t) PROVE DyingOff'
    BY <1>4 DEF CallbackEmit, EndCallback
  <1>5. ASSUME NEW w \in Workers, StartTask(w) PROVE DyingOff'
    BY <1>5 DEF StartTask
  <1>6. ASSUME NEW w \in Workers, LockTransmission(w) PROVE DyingOff'
    BY <1>6 DEF LockTransmission
  <1>7. ASSUME NEW w \in Workers, ShouldTransmit(w) PROVE DyingOff'
    BY <1>7 DEF ShouldTransmit, LeaveTransmission, MayTransmit
  <1>8. ASSUME NEW w \in Workers, CheckMaster(w) PROVE DyingOff'
    BY <1>8 DEF CheckMaster
  <1>9. ASSUME NEW w \in Workers, StoreTransmitting(w) PROVE DyingOff'
    BY <1>9 DEF StoreTransmitting
  <1>10. ASSUME NEW w \in Workers, Take(w) PROVE DyingOff'
    BY <1>10 DEF Take
  <1>11. ASSUME NEW w \in Workers, SubTransmitting(w) PROVE DyingOff'
    BY <1>11 DEF SubTransmitting, LeaveTransmission, NothingAnnounced
  <1>12. ASSUME NEW w \in Workers, Write(w) PROVE DyingOff'
    BY <1>12 DEF Write
  <1>13. ASSUME NEW c \in Controllers, EnableCall(c) PROVE DyingOff'
    BY <1>13 DEF EnableCall
  <1>14. ASSUME NEW c \in Controllers, EnableResetStatus(c) PROVE DyingOff'
    BY <1>14 DEF EnableResetStatus, StatusOnEnable
  <1>15. ASSUME NEW c \in Controllers, EnableWriter(c) PROVE DyingOff'
    BY <1>15 DEF EnableWriter
  <1>16. ASSUME NEW c \in Controllers, EnableReader(c) PROVE DyingOff'
    BY <1>16 DEF EnableReader
  <1>17. ASSUME NEW c \in Controllers, EnableNotify(c) PROVE DyingOff'
    BY <1>17 DEF EnableNotify, EndCallback
  <1>18. ASSUME NEW c \in Controllers, DisableCall(c) PROVE DyingOff'
    BY <1>18 DEF DisableCall
  <1>19. ASSUME NEW c \in Controllers, DisableWaitTransmission(c) PROVE DyingOff'
    BY <1>19 DEF DisableWaitTransmission, TransmissionEnded
  <1>20. ASSUME NEW c \in Controllers, DisableReader(c) PROVE DyingOff'
    BY <1>20 DEF DisableReader
  <1>21. ASSUME NEW c \in Controllers, DisableWriter(c) PROVE DyingOff'
    BY <1>21 DEF DisableWriter
  <1>22. ASSUME NEW c \in Controllers, AddLocked(c) PROVE DyingOff'
    BY <1>22 DEF AddLocked
  <1>23. ASSUME NEW c \in Controllers, RemoveLocked(c) PROVE DyingOff'
    BY <1>23 DEF RemoveLocked
  <1>24. ASSUME NEW c \in Controllers, DestroyCall(c) PROVE DyingOff'
    BY <1>24 DEF DestroyCall
  <1>25. ASSUME NEW c \in Controllers, DestroyUnset(c) PROVE DyingOff'
    BY <1>25 DEF DestroyUnset
  <1>26. ASSUME NEW c \in Controllers, DestroyExit(c) PROVE DyingOff'
    BY <1>26 DEF DestroyExit
  <1>27. ASSUME NEW c \in Controllers, NEW p \in Participants, AddCall(c, p) PROVE DyingOff'
    BY <1>27 DEF AddCall
  <1>28. ASSUME NEW c \in Controllers, NEW p \in Participants, RemoveCall(c, p) PROVE DyingOff'
    BY <1>28 DEF RemoveCall
  <1>29. CASE Promote
    BY <1>29 DEF Promote
  <1>30. CASE UNCHANGED vars
    BY <1>30 DEF vars
  <1> QED
    BY <1>1, <1>2, <1>3, <1>4, <1>5, <1>6, <1>7, <1>8, <1>9, <1>10, <1>11, <1>12, <1>13,
       <1>14, <1>15, <1>16, <1>17, <1>18, <1>19, <1>20, <1>21, <1>22, <1>23, <1>24,
       <1>25, <1>26, <1>27, <1>28, <1>29, <1>30
       DEF Next, Calls, Continue, DataAvailable, Transmit

\* A callback starts with the RTPS mutex free and leaves it at its end.
LEMMA CallbackHoldsStep == IInv /\ CallbackHolds /\ [Next]_vars => CallbackHolds'
  <1> SUFFICES ASSUME IInv /\ CallbackHolds, [Next]_vars PROVE CallbackHolds'
    OBVIOUS
  <1> USE ThreadsAssumption DEF IInv, TypeOK, ControlTypeOK, MutexesHeld, InTrack,
          ControllerPlaces, WorkerPlaces, trackVars, readerVars, writerVars, dataVars, Goto,
          Threads, CallbackHolds, CallbackPlaces
  <1>1. CASE Receive
    BY <1>1, BoundsAssumption DEF Receive, DataTypeOK
  <1>2. ASSUME NEW t \in Controllers \cup {Listener}, CallbackCheck(t) PROVE CallbackHolds'
    BY <1>2 DEF CallbackCheck, EndCallback
  <1>3. ASSUME NEW t \in Controllers \cup {Listener}, CallbackAdd(t) PROVE CallbackHolds'
    BY <1>3 DEF CallbackAdd, EndCallback
  <1>4. ASSUME NEW t \in Controllers \cup {Listener}, CallbackEmit(t) PROVE CallbackHolds'
    BY <1>4 DEF CallbackEmit, EndCallback
  <1>5. ASSUME NEW w \in Workers, StartTask(w) PROVE CallbackHolds'
    BY <1>5 DEF StartTask
  <1>6. ASSUME NEW w \in Workers, LockTransmission(w) PROVE CallbackHolds'
    BY <1>6 DEF LockTransmission
  <1>7. ASSUME NEW w \in Workers, ShouldTransmit(w) PROVE CallbackHolds'
    BY <1>7 DEF ShouldTransmit, LeaveTransmission, MayTransmit
  <1>8. ASSUME NEW w \in Workers, CheckMaster(w) PROVE CallbackHolds'
    BY <1>8 DEF CheckMaster
  <1>9. ASSUME NEW w \in Workers, StoreTransmitting(w) PROVE CallbackHolds'
    BY <1>9 DEF StoreTransmitting
  <1>10. ASSUME NEW w \in Workers, Take(w) PROVE CallbackHolds'
    BY <1>10 DEF Take
  <1>11. ASSUME NEW w \in Workers, SubTransmitting(w) PROVE CallbackHolds'
    BY <1>11 DEF SubTransmitting, LeaveTransmission, NothingAnnounced
  <1>12. ASSUME NEW w \in Workers, Write(w) PROVE CallbackHolds'
    BY <1>12 DEF Write
  <1>13. ASSUME NEW c \in Controllers, EnableCall(c) PROVE CallbackHolds'
    BY <1>13 DEF EnableCall
  <1>14. ASSUME NEW c \in Controllers, EnableResetStatus(c) PROVE CallbackHolds'
    BY <1>14 DEF EnableResetStatus, StatusOnEnable
  <1>15. ASSUME NEW c \in Controllers, EnableWriter(c) PROVE CallbackHolds'
    BY <1>15 DEF EnableWriter
  <1>16. ASSUME NEW c \in Controllers, EnableReader(c) PROVE CallbackHolds'
    BY <1>16 DEF EnableReader
  <1>17. ASSUME NEW c \in Controllers, EnableNotify(c) PROVE CallbackHolds'
    BY <1>17 DEF EnableNotify, EndCallback
  <1>18. ASSUME NEW c \in Controllers, DisableCall(c) PROVE CallbackHolds'
    BY <1>18 DEF DisableCall
  <1>19. ASSUME NEW c \in Controllers, DisableWaitTransmission(c) PROVE CallbackHolds'
    BY <1>19 DEF DisableWaitTransmission, TransmissionEnded
  <1>20. ASSUME NEW c \in Controllers, DisableReader(c) PROVE CallbackHolds'
    BY <1>20 DEF DisableReader
  <1>21. ASSUME NEW c \in Controllers, DisableWriter(c) PROVE CallbackHolds'
    BY <1>21 DEF DisableWriter
  <1>22. ASSUME NEW c \in Controllers, AddLocked(c) PROVE CallbackHolds'
    BY <1>22 DEF AddLocked
  <1>23. ASSUME NEW c \in Controllers, RemoveLocked(c) PROVE CallbackHolds'
    BY <1>23 DEF RemoveLocked
  <1>24. ASSUME NEW c \in Controllers, DestroyCall(c) PROVE CallbackHolds'
    BY <1>24 DEF DestroyCall
  <1>25. ASSUME NEW c \in Controllers, DestroyUnset(c) PROVE CallbackHolds'
    BY <1>25 DEF DestroyUnset
  <1>26. ASSUME NEW c \in Controllers, DestroyExit(c) PROVE CallbackHolds'
    BY <1>26 DEF DestroyExit
  <1>27. ASSUME NEW c \in Controllers, NEW p \in Participants, AddCall(c, p) PROVE CallbackHolds'
    BY <1>27 DEF AddCall
  <1>28. ASSUME NEW c \in Controllers, NEW p \in Participants, RemoveCall(c, p) PROVE CallbackHolds'
    BY <1>28 DEF RemoveCall
  <1>29. CASE Promote
    BY <1>29 DEF Promote
  <1>30. CASE UNCHANGED vars
    BY <1>30 DEF vars
  <1> QED
    BY <1>1, <1>2, <1>3, <1>4, <1>5, <1>6, <1>7, <1>8, <1>9, <1>10, <1>11, <1>12, <1>13,
       <1>14, <1>15, <1>16, <1>17, <1>18, <1>19, <1>20, <1>21, <1>22, <1>23, <1>24,
       <1>25, <1>26, <1>27, <1>28, <1>29, <1>30
       DEF Next, Calls, Continue, DataAvailable, Transmit

\* enable turns the reader on last, and disable waits for the transmission first.
LEMMA ReaderStatesStep == IInv /\ ReaderStates /\ [Next]_vars => ReaderStates'
  <1> SUFFICES ASSUME IInv /\ ReaderStates, [Next]_vars PROVE ReaderStates'
    OBVIOUS
  <1> USE ThreadsAssumption DEF IInv, TypeOK, ControlTypeOK, MutexesHeld, InTrack,
          ControllerPlaces, WorkerPlaces, trackVars, readerVars, writerVars, dataVars, Goto,
          Threads, ReaderStates, BeforeReader, EnableOrder, EnablePlaces, DisableOrder,
          ReaderOrder, LoopStopped, Transmitting
  <1>1. CASE Receive
    BY <1>1 DEF Receive
  <1>2. ASSUME NEW t \in Controllers \cup {Listener}, CallbackCheck(t) PROVE ReaderStates'
    BY <1>2 DEF CallbackCheck, EndCallback
  <1>3. ASSUME NEW t \in Controllers \cup {Listener}, CallbackAdd(t) PROVE ReaderStates'
    BY <1>3 DEF CallbackAdd, EndCallback
  <1>4. ASSUME NEW t \in Controllers \cup {Listener}, CallbackEmit(t) PROVE ReaderStates'
    BY <1>4 DEF CallbackEmit, EndCallback
  <1>5. ASSUME NEW w \in Workers, StartTask(w) PROVE ReaderStates'
    BY <1>5 DEF StartTask
  <1>6. ASSUME NEW w \in Workers, LockTransmission(w) PROVE ReaderStates'
    BY <1>6 DEF LockTransmission
  <1>7. ASSUME NEW w \in Workers, ShouldTransmit(w) PROVE ReaderStates'
    BY <1>7 DEF ShouldTransmit, LeaveTransmission, MayTransmit
  <1>8. ASSUME NEW w \in Workers, CheckMaster(w) PROVE ReaderStates'
    BY <1>8 DEF CheckMaster
  <1>9. ASSUME NEW w \in Workers, StoreTransmitting(w) PROVE ReaderStates'
    BY <1>9 DEF StoreTransmitting
  <1>10. ASSUME NEW w \in Workers, Take(w) PROVE ReaderStates'
    BY <1>10 DEF Take
  <1>11. ASSUME NEW w \in Workers, SubTransmitting(w) PROVE ReaderStates'
    BY <1>11 DEF SubTransmitting, LeaveTransmission, NothingAnnounced
  <1>12. ASSUME NEW w \in Workers, Write(w) PROVE ReaderStates'
    BY <1>12 DEF Write
  <1>13. ASSUME NEW c \in Controllers, EnableCall(c) PROVE ReaderStates'
    BY <1>13 DEF EnableCall
  <1>14. ASSUME NEW c \in Controllers, EnableResetStatus(c) PROVE ReaderStates'
    BY <1>14 DEF EnableResetStatus, StatusOnEnable
  <1>15. ASSUME NEW c \in Controllers, EnableWriter(c) PROVE ReaderStates'
    BY <1>15 DEF EnableWriter
  <1>16. ASSUME NEW c \in Controllers, EnableReader(c) PROVE ReaderStates'
    BY <1>16 DEF EnableReader
  <1>17. ASSUME NEW c \in Controllers, EnableNotify(c) PROVE ReaderStates'
    BY <1>17 DEF EnableNotify, EndCallback
  <1>18. ASSUME NEW c \in Controllers, DisableCall(c) PROVE ReaderStates'
    BY <1>18 DEF DisableCall
  <1>19. ASSUME NEW c \in Controllers, DisableWaitTransmission(c) PROVE ReaderStates'
    BY <1>19 DEF DisableWaitTransmission, TransmissionEnded
  <1>20. ASSUME NEW c \in Controllers, DisableReader(c) PROVE ReaderStates'
    BY <1>20 DEF DisableReader
  <1>21. ASSUME NEW c \in Controllers, DisableWriter(c) PROVE ReaderStates'
    BY <1>21 DEF DisableWriter
  <1>22. ASSUME NEW c \in Controllers, AddLocked(c) PROVE ReaderStates'
    BY <1>22 DEF AddLocked
  <1>23. ASSUME NEW c \in Controllers, RemoveLocked(c) PROVE ReaderStates'
    BY <1>23 DEF RemoveLocked
  <1>24. ASSUME NEW c \in Controllers, DestroyCall(c) PROVE ReaderStates'
    BY <1>24 DEF DestroyCall
  <1>25. ASSUME NEW c \in Controllers, DestroyUnset(c) PROVE ReaderStates'
    BY <1>25 DEF DestroyUnset
  <1>26. ASSUME NEW c \in Controllers, DestroyExit(c) PROVE ReaderStates'
    BY <1>26 DEF DestroyExit
  <1>27. ASSUME NEW c \in Controllers, NEW p \in Participants, AddCall(c, p) PROVE ReaderStates'
    BY <1>27 DEF AddCall
  <1>28. ASSUME NEW c \in Controllers, NEW p \in Participants, RemoveCall(c, p) PROVE ReaderStates'
    BY <1>28 DEF RemoveCall
  <1>29. CASE Promote
    BY <1>29 DEF Promote
  <1>30. CASE UNCHANGED vars
    BY <1>30 DEF vars
  <1> QED
    BY <1>1, <1>2, <1>3, <1>4, <1>5, <1>6, <1>7, <1>8, <1>9, <1>10, <1>11, <1>12, <1>13,
       <1>14, <1>15, <1>16, <1>17, <1>18, <1>19, <1>20, <1>21, <1>22, <1>23, <1>24,
       <1>25, <1>26, <1>27, <1>28, <1>29, <1>30
       DEF Next, Calls, Continue, DataAvailable, Transmit

\* Below the bound an announcement is counted: fetch_add does not wrap.
LEMMA AddDoesNotWrap ==
  ASSUME DataTypeOK, NEW t \in Controllers \cup {Listener}, CallbackAdd(t),
         status + Pending =< 2 * sent + 3
  PROVE  Pending >= 2 /\ status' = status + 2
  <1>1. Announcing(Listener) \/ \E d \in Controllers : Enabling(d)
    BY DEF CallbackAdd, Announcing, Enabling
  <1>2. Pending >= 2 /\ Pending \in Nat
    BY <1>1 DEF Pending
  <1>3. status \in Nat /\ sent \in 0..MaxSamples
    BY BoundsAssumption DEF DataTypeOK
  <1>4. status + 2 \in 0..(UIntMod - 1)
    BY <1>2, <1>3, CounterAssumption, BoundsAssumption
  <1>5. status' = (status + 2) % UIntMod
    BY DEF CallbackAdd, NewDataArrived
  <1> QED
    BY <1>2, <1>3, <1>4, <1>5, BoundsAssumption

\* Each announcement adds two, and is of a sample sent or of an enable.
LEMMA CounterBoundedStep == IInv /\ DyingOff /\ CallbackHolds /\ CounterBounded /\ [Next]_vars => CounterBounded'
  <1> SUFFICES ASSUME IInv /\ DyingOff /\ CallbackHolds /\ CounterBounded, [Next]_vars PROVE CounterBounded'
    OBVIOUS
  <1> USE CounterAssumption, BoundsAssumption, ThreadsAssumption DEF IInv, TypeOK, ControlTypeOK,
          MutexesHeld, InTrack, ControllerPlaces, WorkerPlaces, trackVars, readerVars, writerVars,
          dataVars, Goto, Threads, Attended, Announcing, Enabling, BeforeReader, DyingOff,
          CallbackHolds, CallbackPlaces, DataTypeOK, CounterBounded, Pending, Transmitting
  <1>1. CASE Receive
    BY <1>1 DEF Receive
  <1>2. ASSUME NEW t \in Controllers \cup {Listener}, CallbackCheck(t) PROVE CounterBounded'
    BY <1>2 DEF CallbackCheck, EndCallback
  <1>3. ASSUME NEW t \in Controllers \cup {Listener}, CallbackAdd(t) PROVE CounterBounded'
    <2>1. \A d \in Controllers : d # t => (pc'[d] = pc[d] /\ (t \in Controllers => ~Enabling(d)))
      BY ZenonT(60), <1>3 DEF CallbackAdd, EndCallback
    <2>2. \A w \in Workers : pc'[w] = pc[w]
      BY <1>3 DEF CallbackAdd, EndCallback
    <2>3. pc[t] = "cb_add" /\ pc'[t] \in {"idle", "cb_emit"} /\ UNCHANGED <<enabled, sent>>
      BY <1>3 DEF CallbackAdd, EndCallback
    <2>4. CASE status + Pending =< 2 * sent + 3
      <3>1. Pending' = Pending - 2
        <4>1. CASE t = Listener
          <5>1. \A d \in Controllers : Enabling(d)' <=> Enabling(d)
            BY <2>1, <4>1
          <5> QED
            BY <2>3, <4>1, <5>1
        <4>2. CASE t \in Controllers
          <5>1. pc'[Listener] = pc[Listener]
            BY <1>3, <4>2 DEF CallbackAdd, EndCallback
          <5>2. Enabling(t) /\ ~(\E d \in Controllers : Enabling(d))'
            BY <2>1, <2>3, <4>2
          <5> QED
            BY <4>2, <5>1, <5>2
        <4> QED
          BY <4>1, <4>2
      <3>2. Pending >= 2 /\ status' = status + 2
        BY <1>3, <2>4, AddDoesNotWrap
      <3> HIDE DEF Pending
      <3>4. Pending \in Int
        BY DEF Pending
      <3> QED
        BY <2>3, <2>4, <3>1, <3>2, <3>4
    <2>5. \A d \in Controllers : pc[d] = "en_status" => pc'[d] = "en_status"
      BY <2>1, <2>3
    <2> HIDE DEF Pending
    <2> QED
      BY <2>2, <2>3, <2>4, <2>5
  <1>4. ASSUME NEW t \in Controllers \cup {Listener}, CallbackEmit(t) PROVE CounterBounded'
    <2>1. \A d \in Controllers : Enabling(d)' <=> Enabling(d)
      BY <1>4 DEF CallbackEmit, EndCallback
    <2>2. Announcing(Listener)' <=> Announcing(Listener)
      BY <1>4 DEF CallbackEmit, EndCallback
    <2>3. Pending' = Pending
      BY <2>1, <2>2
    <2>4. /\ \A w \in Workers : pc'[w] = pc[w]
          /\ \A d \in Controllers : pc[d] = "en_status" => pc'[d] = "en_status"
      BY <1>4 DEF CallbackEmit, EndCallback
    <2>5. UNCHANGED <<enabled, status, sent>>
      BY <1>4 DEF CallbackEmit
    <2> HIDE DEF Pending, Enabling, Announcing
    <2> QED
      BY <2>3, <2>4, <2>5
  <1>5. ASSUME NEW w \in Workers, StartTask(w) PROVE CounterBounded'
    BY <1>5 DEF StartTask
  <1>6. ASSUME NEW w \in Workers, LockTransmission(w) PROVE CounterBounded'
    BY <1>6 DEF LockTransmission
  <1>7. ASSUME NEW w \in Workers, ShouldTransmit(w) PROVE CounterBounded'
    BY <1>7 DEF ShouldTransmit, LeaveTransmission, MayTransmit
  <1>8. ASSUME NEW w \in Workers, CheckMaster(w) PROVE CounterBounded'
    BY <1>8 DEF CheckMaster
  <1>9. ASSUME NEW w \in Workers, StoreTransmitting(w) PROVE CounterBounded'
    <2>1. status' = 1 /\ UNCHANGED <<enabled, sent>>
      BY <1>9 DEF StoreTransmitting, TransmittingData
    <2>2. \A t \in Controllers \cup {Listener} : pc'[t] = pc[t]
      BY <1>9 DEF StoreTransmitting
    <2>3. Pending' = Pending
      BY <2>2
    <2>4. Announcing(Listener) => sent >= 1
      OBVIOUS
    <2>5. Pending =< 2 * sent + 2
      BY <2>4
    <2> QED
      BY <2>1, <2>3, <2>5
  <1>10. ASSUME NEW w \in Workers, Take(w) PROVE CounterBounded'
    BY <1>10 DEF Take
  <1>11. ASSUME NEW w \in Workers, SubTransmitting(w) PROVE CounterBounded'
    <2>1. CASE status = TransmittingData
      <3>1. status' = 0 /\ UNCHANGED <<enabled, sent>>
        BY <1>11, <2>1 DEF SubTransmitting, FetchSub, TransmittingData
      <3>2. \A t \in Controllers \cup {Listener} : pc'[t] = pc[t]
        BY <1>11 DEF SubTransmitting, LeaveTransmission
      <3>3. \A v \in Workers : pc[v] \notin {"tx_check", "tx_master", "tx_store"}
        BY <1>11 DEF SubTransmitting
      <3>4. (\A d \in Controllers : Enabling(d)' <=> Enabling(d))
              /\ (Announcing(Listener)' <=> Announcing(Listener))
        BY <3>2
      <3>5. Pending' = Pending
        BY <3>4
      <3>6. Pending \in Int
        OBVIOUS
      <3> HIDE DEF Pending
      <3>7. \/ ~enabled
            \/ \E d \in Controllers : pc[d] = "en_status"
            \/ status + Pending =< 2 * sent + 3
        BY <3>3
      <3> QED
        BY <2>1, <3>1, <3>2, <3>5, <3>6, <3>7 DEF TransmittingData
    <2>2. CASE status # TransmittingData
      BY <1>11, <2>2 DEF SubTransmitting, NothingAnnounced
    <2> QED
      BY <2>1, <2>2
  <1>12. ASSUME NEW w \in Workers, Write(w) PROVE CounterBounded'
    BY <1>12 DEF Write
  <1>13. ASSUME NEW c \in Controllers, EnableCall(c) PROVE CounterBounded'
    BY <1>13 DEF EnableCall
  <1>14. ASSUME NEW c \in Controllers, EnableResetStatus(c) PROVE CounterBounded'
    <2>1. status' = 0 /\ UNCHANGED <<enabled, sent>> /\ pc'[Listener] = pc[Listener]
      BY <1>14 DEF EnableResetStatus, StatusOnEnable, NoMoreData
    <2>2. Announcing(Listener) => sent >= 1
      OBVIOUS
    <2>3. Pending' =< 2 * sent' + 2
      BY <2>1, <2>2
    <2> QED
      BY <2>1, <2>3
  <1>15. ASSUME NEW c \in Controllers, EnableWriter(c) PROVE CounterBounded'
    BY <1>15 DEF EnableWriter
  <1>16. ASSUME NEW c \in Controllers, EnableReader(c) PROVE CounterBounded'
    BY <1>16 DEF EnableReader
  <1>17. ASSUME NEW c \in Controllers, EnableNotify(c) PROVE CounterBounded'
    BY <1>17 DEF EnableNotify, EndCallback
  <1>18. ASSUME NEW c \in Controllers, DisableCall(c) PROVE CounterBounded'
    BY <1>18 DEF DisableCall
  <1>19. ASSUME NEW c \in Controllers, DisableWaitTransmission(c) PROVE CounterBounded'
    BY <1>19 DEF DisableWaitTransmission, TransmissionEnded
  <1>20. ASSUME NEW c \in Controllers, DisableReader(c) PROVE CounterBounded'
    BY <1>20 DEF DisableReader
  <1>21. ASSUME NEW c \in Controllers, DisableWriter(c) PROVE CounterBounded'
    BY <1>21 DEF DisableWriter
  <1>22. ASSUME NEW c \in Controllers, AddLocked(c) PROVE CounterBounded'
    BY <1>22 DEF AddLocked
  <1>23. ASSUME NEW c \in Controllers, RemoveLocked(c) PROVE CounterBounded'
    BY <1>23 DEF RemoveLocked
  <1>24. ASSUME NEW c \in Controllers, DestroyCall(c) PROVE CounterBounded'
    BY <1>24 DEF DestroyCall
  <1>25. ASSUME NEW c \in Controllers, DestroyUnset(c) PROVE CounterBounded'
    BY <1>25 DEF DestroyUnset
  <1>26. ASSUME NEW c \in Controllers, DestroyExit(c) PROVE CounterBounded'
    BY <1>26 DEF DestroyExit
  <1>27. ASSUME NEW c \in Controllers, NEW p \in Participants, AddCall(c, p) PROVE CounterBounded'
    BY <1>27 DEF AddCall
  <1>28. ASSUME NEW c \in Controllers, NEW p \in Participants, RemoveCall(c, p) PROVE CounterBounded'
    BY <1>28 DEF RemoveCall
  <1>29. CASE Promote
    BY <1>29 DEF Promote
  <1>30. CASE UNCHANGED vars
    BY <1>30 DEF vars
  <1> QED
    BY <1>1, <1>2, <1>3, <1>4, <1>5, <1>6, <1>7, <1>8, <1>9, <1>10, <1>11, <1>12, <1>13,
       <1>14, <1>15, <1>16, <1>17, <1>18, <1>19, <1>20, <1>21, <1>22, <1>23, <1>24,
       <1>25, <1>26, <1>27, <1>28, <1>29, <1>30
       DEF Next, Calls, Continue, DataAvailable, Transmit

\* The first announcement queues a task; a task that leaves has lowered the status.
LEMMA RaisedStep == IInv /\ DyingOff /\ RaisedMeansTask /\ [Next]_vars => RaisedMeansTask'
  <1> SUFFICES ASSUME IInv /\ DyingOff /\ RaisedMeansTask, [Next]_vars PROVE RaisedMeansTask'
    OBVIOUS
  <1> USE BoundsAssumption, ThreadsAssumption DEF IInv, TypeOK, ControlTypeOK, MutexesHeld,
          InTrack, ControllerPlaces, WorkerPlaces, trackVars, readerVars, writerVars, dataVars,
          Goto, Threads, Attended, Announcing, Enabling, BeforeReader, DyingOff, DataTypeOK,
          RaisedMeansTask, NoMoreData, Transmitting
  <1>1. CASE Receive
    BY <1>1 DEF Receive
  <1>2. ASSUME NEW t \in Controllers \cup {Listener}, CallbackCheck(t) PROVE RaisedMeansTask'
    BY <1>2 DEF CallbackCheck, EndCallback
  <1>3. ASSUME NEW t \in Controllers \cup {Listener}, CallbackAdd(t) PROVE RaisedMeansTask'
    BY <1>3 DEF CallbackAdd, EndCallback
  <1>4. ASSUME NEW t \in Controllers \cup {Listener}, CallbackEmit(t) PROVE RaisedMeansTask'
    BY <1>4 DEF CallbackEmit, EndCallback
  <1>5. ASSUME NEW w \in Workers, StartTask(w) PROVE RaisedMeansTask'
    BY <1>5 DEF StartTask
  <1>6. ASSUME NEW w \in Workers, LockTransmission(w) PROVE RaisedMeansTask'
    BY <1>6 DEF LockTransmission
  <1>7. ASSUME NEW w \in Workers, ShouldTransmit(w) PROVE RaisedMeansTask'
    BY <1>7 DEF ShouldTransmit, LeaveTransmission, MayTransmit
  <1>8. ASSUME NEW w \in Workers, CheckMaster(w) PROVE RaisedMeansTask'
    BY <1>8 DEF CheckMaster
  <1>9. ASSUME NEW w \in Workers, StoreTransmitting(w) PROVE RaisedMeansTask'
    BY <1>9 DEF StoreTransmitting
  <1>10. ASSUME NEW w \in Workers, Take(w) PROVE RaisedMeansTask'
    BY <1>10 DEF Take
  <1>11. ASSUME NEW w \in Workers, SubTransmitting(w) PROVE RaisedMeansTask'
    <2>1. status = TransmittingData => status' = NoMoreData
      BY <1>11 DEF SubTransmitting, FetchSub, TransmittingData
    <2>2. status # TransmittingData => pc'[w] = "tx_check"
      BY <1>11 DEF SubTransmitting, NothingAnnounced
    <2> QED
      BY <2>1, <2>2
  <1>12. ASSUME NEW w \in Workers, Write(w) PROVE RaisedMeansTask'
    BY <1>12 DEF Write
  <1>13. ASSUME NEW c \in Controllers, EnableCall(c) PROVE RaisedMeansTask'
    BY <1>13 DEF EnableCall
  <1>14. ASSUME NEW c \in Controllers, EnableResetStatus(c) PROVE RaisedMeansTask'
    BY <1>14 DEF EnableResetStatus, StatusOnEnable
  <1>15. ASSUME NEW c \in Controllers, EnableWriter(c) PROVE RaisedMeansTask'
    BY <1>15 DEF EnableWriter
  <1>16. ASSUME NEW c \in Controllers, EnableReader(c) PROVE RaisedMeansTask'
    BY <1>16 DEF EnableReader
  <1>17. ASSUME NEW c \in Controllers, EnableNotify(c) PROVE RaisedMeansTask'
    BY <1>17 DEF EnableNotify, EndCallback
  <1>18. ASSUME NEW c \in Controllers, DisableCall(c) PROVE RaisedMeansTask'
    BY <1>18 DEF DisableCall
  <1>19. ASSUME NEW c \in Controllers, DisableWaitTransmission(c) PROVE RaisedMeansTask'
    BY <1>19 DEF DisableWaitTransmission, TransmissionEnded
  <1>20. ASSUME NEW c \in Controllers, DisableReader(c) PROVE RaisedMeansTask'
    BY <1>20 DEF DisableReader
  <1>21. ASSUME NEW c \in Controllers, DisableWriter(c) PROVE RaisedMeansTask'
    BY <1>21 DEF DisableWriter
  <1>22. ASSUME NEW c \in Controllers, AddLocked(c) PROVE RaisedMeansTask'
    BY <1>22 DEF AddLocked
  <1>23. ASSUME NEW c \in Controllers, RemoveLocked(c) PROVE RaisedMeansTask'
    BY <1>23 DEF RemoveLocked
  <1>24. ASSUME NEW c \in Controllers, DestroyCall(c) PROVE RaisedMeansTask'
    BY <1>24 DEF DestroyCall
  <1>25. ASSUME NEW c \in Controllers, DestroyUnset(c) PROVE RaisedMeansTask'
    BY <1>25 DEF DestroyUnset
  <1>26. ASSUME NEW c \in Controllers, DestroyExit(c) PROVE RaisedMeansTask'
    BY <1>26 DEF DestroyExit
  <1>27. ASSUME NEW c \in Controllers, NEW p \in Participants, AddCall(c, p) PROVE RaisedMeansTask'
    BY <1>27 DEF AddCall
  <1>28. ASSUME NEW c \in Controllers, NEW p \in Participants, RemoveCall(c, p) PROVE RaisedMeansTask'
    BY <1>28 DEF RemoveCall
  <1>29. CASE Promote
    BY <1>29 DEF Promote
  <1>30. CASE UNCHANGED vars
    BY <1>30 DEF vars
  <1> QED
    BY <1>1, <1>2, <1>3, <1>4, <1>5, <1>6, <1>7, <1>8, <1>9, <1>10, <1>11, <1>12, <1>13,
       <1>14, <1>15, <1>16, <1>17, <1>18, <1>19, <1>20, <1>21, <1>22, <1>23, <1>24,
       <1>25, <1>26, <1>27, <1>28, <1>29, <1>30
       DEF Next, Calls, Continue, DataAvailable, Transmit

\* The status is lowered by a task that has seen everything announced, and by enable,
\* which announces what the reader holds.
LEMMA LoweredStep == IInv /\ WakeInv /\ [Next]_vars => LoweredMeansSeen'
  <1> SUFFICES ASSUME IInv /\ WakeInv, [Next]_vars PROVE LoweredMeansSeen'
    OBVIOUS
  <1> USE CounterAssumption, BoundsAssumption, ThreadsAssumption DEF IInv, TypeOK, ControlTypeOK,
          MutexesHeld, InTrack, ControllerPlaces, WorkerPlaces, trackVars, readerVars, writerVars,
          dataVars, Goto, Threads, Attended, Announcing, Enabling, BeforeReader, WakeInv,
          DyingOff, ReaderStates, DataTypeOK, LoweredMeansSeen, NoMoreData, TransmittingData,
          Transmitting
  <1>1. CASE Receive
    BY <1>1 DEF Receive
  <1>2. ASSUME NEW t \in Controllers \cup {Listener}, CallbackCheck(t) PROVE LoweredMeansSeen'
    BY <1>2 DEF CallbackCheck, EndCallback
  <1>3. ASSUME NEW t \in Controllers \cup {Listener}, CallbackAdd(t) PROVE LoweredMeansSeen'
    <2>1. \A w \in Workers : pc'[w] = pc[w]
      BY <1>3 DEF CallbackAdd, EndCallback
    <2>2. \A d \in Controllers : pc[d] = "en_status" => pc'[d] = "en_status"
      BY <1>3 DEF CallbackAdd, EndCallback
    <2>3. UNCHANGED <<enabled, queued>>
      BY <1>3 DEF CallbackAdd, EndCallback
    <2>4. CASE status + Pending =< 2 * sent + 3
      BY <1>3, <2>4, AddDoesNotWrap
    <2> QED
      BY <2>1, <2>2, <2>3, <2>4 DEF CounterBounded
  <1>4. ASSUME NEW t \in Controllers \cup {Listener}, CallbackEmit(t) PROVE LoweredMeansSeen'
    BY <1>4 DEF CallbackEmit, EndCallback
  <1>5. ASSUME NEW w \in Workers, StartTask(w) PROVE LoweredMeansSeen'
    BY <1>5 DEF StartTask
  <1>6. ASSUME NEW w \in Workers, LockTransmission(w) PROVE LoweredMeansSeen'
    BY <1>6 DEF LockTransmission
  <1>7. ASSUME NEW w \in Workers, ShouldTransmit(w) PROVE LoweredMeansSeen'
    BY <1>7 DEF ShouldTransmit, LeaveTransmission, MayTransmit
  <1>8. ASSUME NEW w \in Workers, CheckMaster(w) PROVE LoweredMeansSeen'
    BY <1>8 DEF CheckMaster
  <1>9. ASSUME NEW w \in Workers, StoreTransmitting(w) PROVE LoweredMeansSeen'
    BY <1>9 DEF StoreTransmitting
  <1>10. ASSUME NEW w \in Workers, Take(w) PROVE LoweredMeansSeen'
    BY <1>10 DEF Take
  <1>11. ASSUME NEW w \in Workers, SubTransmitting(w) PROVE LoweredMeansSeen'
    <2>1. \A t \in Controllers \cup {Listener} : pc'[t] = pc[t]
      BY <1>11 DEF SubTransmitting, LeaveTransmission
    <2>2. UNCHANGED <<enabled, history, kind>>
      BY <1>11 DEF SubTransmitting
    <2>3. status # TransmittingData => pc'[w] = "tx_check"
      BY <1>11 DEF SubTransmitting, NothingAnnounced
    <2>4. pc[w] = "tx_sub"
      BY <1>11 DEF SubTransmitting
    <2> QED
      BY <2>1, <2>2, <2>3, <2>4 DEF LastLookHolds
  <1>12. ASSUME NEW w \in Workers, Write(w) PROVE LoweredMeansSeen'
    BY <1>12 DEF Write
  <1>13. ASSUME NEW c \in Controllers, EnableCall(c) PROVE LoweredMeansSeen'
    BY <1>13 DEF EnableCall
  <1>14. ASSUME NEW c \in Controllers, EnableResetStatus(c) PROVE LoweredMeansSeen'
    BY <1>14 DEF EnableResetStatus, StatusOnEnable
  <1>15. ASSUME NEW c \in Controllers, EnableWriter(c) PROVE LoweredMeansSeen'
    BY <1>15 DEF EnableWriter
  <1>16. ASSUME NEW c \in Controllers, EnableReader(c) PROVE LoweredMeansSeen'
    BY <1>16 DEF EnableReader
  <1>17. ASSUME NEW c \in Controllers, EnableNotify(c) PROVE LoweredMeansSeen'
    BY <1>17 DEF EnableNotify, EndCallback
  <1>18. ASSUME NEW c \in Controllers, DisableCall(c) PROVE LoweredMeansSeen'
    BY <1>18 DEF DisableCall
  <1>19. ASSUME NEW c \in Controllers, DisableWaitTransmission(c) PROVE LoweredMeansSeen'
    BY <1>19 DEF DisableWaitTransmission, TransmissionEnded
  <1>20. ASSUME NEW c \in Controllers, DisableReader(c) PROVE LoweredMeansSeen'
    BY <1>20 DEF DisableReader
  <1>21. ASSUME NEW c \in Controllers, DisableWriter(c) PROVE LoweredMeansSeen'
    BY <1>21 DEF DisableWriter
  <1>22. ASSUME NEW c \in Controllers, AddLocked(c) PROVE LoweredMeansSeen'
    BY <1>22 DEF AddLocked
  <1>23. ASSUME NEW c \in Controllers, RemoveLocked(c) PROVE LoweredMeansSeen'
    BY <1>23 DEF RemoveLocked
  <1>24. ASSUME NEW c \in Controllers, DestroyCall(c) PROVE LoweredMeansSeen'
    BY <1>24 DEF DestroyCall
  <1>25. ASSUME NEW c \in Controllers, DestroyUnset(c) PROVE LoweredMeansSeen'
    BY <1>25 DEF DestroyUnset
  <1>26. ASSUME NEW c \in Controllers, DestroyExit(c) PROVE LoweredMeansSeen'
    BY <1>26 DEF DestroyExit
  <1>27. ASSUME NEW c \in Controllers, NEW p \in Participants, AddCall(c, p) PROVE LoweredMeansSeen'
    BY <1>27 DEF AddCall
  <1>28. ASSUME NEW c \in Controllers, NEW p \in Participants, RemoveCall(c, p) PROVE LoweredMeansSeen'
    BY <1>28 DEF RemoveCall
  <1>29. CASE Promote
    BY <1>29 DEF Promote
  <1>30. CASE UNCHANGED vars
    BY <1>30 DEF vars
  <1> QED
    BY <1>1, <1>2, <1>3, <1>4, <1>5, <1>6, <1>7, <1>8, <1>9, <1>10, <1>11, <1>12, <1>13,
       <1>14, <1>15, <1>16, <1>17, <1>18, <1>19, <1>20, <1>21, <1>22, <1>23, <1>24,
       <1>25, <1>26, <1>27, <1>28, <1>29, <1>30
       DEF Next, Calls, Continue, DataAvailable, Transmit

\* What arrives after the take that found nothing is announced on top of the stored status.
LEMMA LastLookStep == IInv /\ WakeInv /\ [Next]_vars => LastLookHolds'
  <1> SUFFICES ASSUME IInv /\ WakeInv, [Next]_vars PROVE LastLookHolds'
    OBVIOUS
  <1> USE CounterAssumption, BoundsAssumption, ThreadsAssumption DEF IInv, TypeOK, ControlTypeOK,
          MutexesHeld, InTrack, ControllerPlaces, WorkerPlaces, trackVars, readerVars, writerVars,
          dataVars, Goto, Threads, Attended, Announcing, Enabling, BeforeReader, WakeInv,
          DyingOff, ReaderStates, DataTypeOK, LastLookHolds, LoopStopped, NoMoreData,
          TransmittingData, Transmitting
  <1>1. CASE Receive
    BY <1>1 DEF Receive
  <1>2. ASSUME NEW t \in Controllers \cup {Listener}, CallbackCheck(t) PROVE LastLookHolds'
    BY <1>2 DEF CallbackCheck, EndCallback
  <1>3. ASSUME NEW t \in Controllers \cup {Listener}, CallbackAdd(t) PROVE LastLookHolds'
    <2>1. \A w \in Workers : pc'[w] = pc[w]
      BY <1>3 DEF CallbackAdd, EndCallback
    <2>2. UNCHANGED enabled
      BY <1>3 DEF CallbackAdd
    <2>3. ASSUME NEW w \in Workers, pc[w] = "tx_sub", enabled PROVE status' # TransmittingData
      <3>1. \A d \in Controllers : pc[d] # "en_status"
        BY <2>3
      <3>2. \A v \in Workers : pc[v] \notin {"tx_check", "tx_master", "tx_store"}
        BY <2>3
      <3>3. status + Pending =< 2 * sent + 3
        BY <2>3, <3>1, <3>2 DEF CounterBounded
      <3> QED
        BY <1>3, <3>3, AddDoesNotWrap
    <2> QED
      BY <2>1, <2>2, <2>3
  <1>4. ASSUME NEW t \in Controllers \cup {Listener}, CallbackEmit(t) PROVE LastLookHolds'
    BY <1>4 DEF CallbackEmit, EndCallback
  <1>5. ASSUME NEW w \in Workers, StartTask(w) PROVE LastLookHolds'
    BY <1>5 DEF StartTask
  <1>6. ASSUME NEW w \in Workers, LockTransmission(w) PROVE LastLookHolds'
    BY <1>6 DEF LockTransmission
  <1>7. ASSUME NEW w \in Workers, ShouldTransmit(w) PROVE LastLookHolds'
    <2>1. \A v \in Workers : pc'[v] = "tx_sub" => pc[v] = "tx_sub"
      BY <1>7 DEF ShouldTransmit, LeaveTransmission
    <2>2. \A t \in Controllers \cup {Listener} : pc'[t] = pc[t]
      BY <1>7 DEF ShouldTransmit, LeaveTransmission
    <2>3. UNCHANGED <<enabled, status, history, kind>>
      BY <1>7 DEF ShouldTransmit
    <2> QED
      BY <2>1, <2>2, <2>3
  <1>8. ASSUME NEW w \in Workers, CheckMaster(w) PROVE LastLookHolds'
    BY <1>8 DEF CheckMaster
  <1>9. ASSUME NEW w \in Workers, StoreTransmitting(w) PROVE LastLookHolds'
    BY <1>9 DEF StoreTransmitting
  <1>10. ASSUME NEW w \in Workers, Take(w) PROVE LastLookHolds'
    <2>1. \A v \in Workers : pc'[v] = "tx_sub" => v = w /\ history' = <<>>
      BY <1>10 DEF Take
    <2> QED
      BY <2>1
  <1>11. ASSUME NEW w \in Workers, SubTransmitting(w) PROVE LastLookHolds'
    <2>1. \A v \in Workers : pc'[v] = "tx_sub" => v # w /\ pc[v] = "tx_sub"
      BY <1>11 DEF SubTransmitting, LeaveTransmission
    <2> QED
      BY <1>11, <2>1 DEF SubTransmitting
  <1>12. ASSUME NEW w \in Workers, Write(w) PROVE LastLookHolds'
    <2>1. \A v \in Workers : pc'[v] = "tx_sub" => pc[v] = "tx_sub"
      BY <1>12 DEF Write
    <2>2. \A t \in Controllers \cup {Listener} : pc'[t] = pc[t]
      BY <1>12 DEF Write
    <2>3. UNCHANGED <<enabled, status, history, kind>>
      BY <1>12 DEF Write
    <2> QED
      BY <2>1, <2>2, <2>3
  <1>13. ASSUME NEW c \in Controllers, EnableCall(c) PROVE LastLookHolds'
    BY <1>13 DEF EnableCall
  <1>14. ASSUME NEW c \in Controllers, EnableResetStatus(c) PROVE LastLookHolds'
    BY <1>14 DEF EnableResetStatus, StatusOnEnable
  <1>15. ASSUME NEW c \in Controllers, EnableWriter(c) PROVE LastLookHolds'
    BY <1>15 DEF EnableWriter
  <1>16. ASSUME NEW c \in Controllers, EnableReader(c) PROVE LastLookHolds'
    BY <1>16 DEF EnableReader
  <1>17. ASSUME NEW c \in Controllers, EnableNotify(c) PROVE LastLookHolds'
    BY <1>17 DEF EnableNotify, EndCallback
  <1>18. ASSUME NEW c \in Controllers, DisableCall(c) PROVE LastLookHolds'
    BY <1>18 DEF DisableCall
  <1>19. ASSUME NEW c \in Controllers, DisableWaitTransmission(c) PROVE LastLookHolds'
    BY <1>19 DEF DisableWaitTransmission, TransmissionEnded
  <1>20. ASSUME NEW c \in Controllers, DisableReader(c) PROVE LastLookHolds'
    BY <1>20 DEF DisableReader
  <1>21. ASSUME NEW c \in Controllers, DisableWriter(c) PROVE LastLookHolds'
    BY ZenonT(60), <1>21 DEF DisableWriter
  <1>22. ASSUME NEW c \in Controllers, AddLocked(c) PROVE LastLookHolds'
    BY <1>22 DEF AddLocked
  <1>23. ASSUME NEW c \in Controllers, RemoveLocked(c) PROVE LastLookHolds'
    BY <1>23 DEF RemoveLocked
  <1>24. ASSUME NEW c \in Controllers, DestroyCall(c) PROVE LastLookHolds'
    BY <1>24 DEF DestroyCall
  <1>25. ASSUME NEW c \in Controllers, DestroyUnset(c) PROVE LastLookHolds'
    BY <1>25 DEF DestroyUnset
  <1>26. ASSUME NEW c \in Controllers, DestroyExit(c) PROVE LastLookHolds'
    BY <1>26 DEF DestroyExit
  <1>27. ASSUME NEW c \in Controllers, NEW p \in Participants, AddCall(c, p) PROVE LastLookHolds'
    BY <1>27 DEF AddCall
  <1>28. ASSUME NEW c \in Controllers, NEW p \in Participants, RemoveCall(c, p) PROVE LastLookHolds'
    BY <1>28 DEF RemoveCall
  <1>29. CASE Promote
    BY <1>29 DEF Promote
  <1>30. CASE UNCHANGED vars
    BY <1>30 DEF vars
  <1> QED
    BY <1>1, <1>2, <1>3, <1>4, <1>5, <1>6, <1>7, <1>8, <1>9, <1>10, <1>11, <1>12, <1>13,
       <1>14, <1>15, <1>16, <1>17, <1>18, <1>19, <1>20, <1>21, <1>22, <1>23, <1>24,
       <1>25, <1>26, <1>27, <1>28, <1>29, <1>30
       DEF Next, Calls, Continue, DataAvailable, Transmit

\* A track just built has nothing announced, and nobody on the way.
LEMMA WakeInvInit == Init => WakeInv
  <1> SUFFICES ASSUME Init PROVE WakeInv
    OBVIOUS
  <1>1. \A t \in Threads : pc[t] = "idle"
    BY DEF Init
  <1>2. ~enabled /\ ~exit /\ callbackSet /\ ~dying
    BY DEF Init
  <1> QED
    BY <1>1, <1>2 DEF Threads, WakeInv, DyingOff, CallbackHolds, CallbackPlaces, ReaderStates,
       BeforeReader, CounterBounded, RaisedMeansTask, LoweredMeansSeen, LastLookHolds

\* Every step keeps every part.
LEMMA WakeInvStep == IInv /\ WakeInv /\ [Next]_vars => WakeInv'
  <1> SUFFICES ASSUME IInv, WakeInv, [Next]_vars PROVE WakeInv'
    OBVIOUS
  <1>1. DyingOff' /\ CallbackHolds' /\ ReaderStates'
    BY DyingOffStep, CallbackHoldsStep, ReaderStatesStep DEF WakeInv
  <1>2. CounterBounded' /\ RaisedMeansTask'
    BY CounterBoundedStep, RaisedStep DEF WakeInv
  <1>3. LoweredMeansSeen' /\ LastLookHolds'
    BY LoweredStep, LastLookStep
  <1> QED
    BY <1>1, <1>2, <1>3 DEF WakeInv

\* Both invariants hold in every reachable state.
THEOREM WakeInvariant == Spec => [](IInv /\ WakeInv)
  <1>1. Init => IInv /\ WakeInv
    BY IInvInit, WakeInvInit
  <1>2. (IInv /\ WakeInv) /\ [Next]_vars => (IInv /\ WakeInv)'
    BY IInvStep, WakeInvStep
  <1> QED
    BY <1>1, <1>2, PTL DEF Spec

\* The lock-free agreement of the listener and Track::transmit_: data in the reader of
\* an enabled track always has a task queued or running that has not decided to leave.
THEOREM NoWakeupIsLost == Spec => []NoLostWakeup
  <1>1. IInv /\ WakeInv => NoLostWakeup
    <2> SUFFICES ASSUME IInv, WakeInv, enabled, trackMutex = Nobody, rtpsMutex = Nobody,
                        history # <<>>, kind # "best_effort"
                 PROVE  Attended
      BY DEF NoLostWakeup, Attended
    <2>1. \A c \in Controllers : pc[c] \notin InTrack
      BY ThreadsAssumption DEF IInv, MutexesHeld, Threads
    <2>2. \A c \in Controllers : ~Enabling(c) /\ pc[c] \notin {"en_status", "cb_emit"}
      BY <2>1 DEF Enabling, Announcing, BeforeReader, InTrack, ControllerPlaces
    <2>3. pc[Listener] \notin CallbackPlaces
      BY ThreadsAssumption DEF WakeInv, CallbackHolds, Threads
    <2>4. ~Announcing(Listener) /\ pc[Listener] # "cb_emit"
      BY <2>3 DEF Announcing, CallbackPlaces
    <2>5. CASE status = NoMoreData
      BY <2>2, <2>4, <2>5 DEF WakeInv, LoweredMeansSeen
    <2>6. CASE status # NoMoreData
      BY <2>2, <2>4, <2>6 DEF WakeInv, RaisedMeansTask
    <2> QED
      BY <2>5, <2>6
  <1> QED
    BY WakeInvariant, <1>1, PTL

-----------------------------------------------------------------------------
\* Track implements Forwarder.  Most steps of a track move no data: they are stutters of
\* the forwarder, or open or close it.  The rest are the arrival of a sample, its turn, its
\* delivery to one participant, and a change of the destinations.

\* No sample arrives, is taken or is delivered, and no destination changes.
NoDataMoves ==
  /\ UNCHANGED <<sent, history, writers, out>>
  /\ Writing' = Writing
  /\ \A w \in Writing : cur'[w] = cur[w] /\ todo'[w] = todo[w]

\* It opens or closes between two samples only.
SwitchesBetween == OpenForwarder' = OpenForwarder \/ Writing = {}

TakesSample(w) == Take(w) /\ history' # history

\* Every step is of one of these kinds.
StepKinds ==
  \/ Receive
  \/ \E w \in Workers : TakesSample(w) \/ Write(w)
  \/ \E c \in Controllers : AddLocked(c) \/ RemoveLocked(c)
  \/ NoDataMoves /\ SwitchesBetween

\* A thread alone moves, and neither begins nor ends a delivery or the wait of
\* disable for the transmission mutex.
LEMMA MovesAside ==
  ASSUME TypeOK, NEW t \in Threads, NEW x, Goto(t, x),
         x \notin {"tx_write", "dis_tx"}, pc[t] \notin {"tx_write", "dis_tx"}
  PROVE  Writing' = Writing /\ \A c \in Controllers : pc'[c] = "dis_tx" <=> pc[c] = "dis_tx"
  BY ThreadsAssumption DEF TypeOK, ControlTypeOK, Goto, Threads, Writing

\* The same when nobody moves.
LEMMA StaysAside ==
  UNCHANGED pc => Writing' = Writing /\ \A c \in Controllers : pc'[c] = "dis_tx" <=> pc[c] = "dis_tx"
  BY DEF Writing

\* No data moves in a step of a caller or of the listener, whatever it does to
\* its own entries of todo.
LEMMA NoDataMovesIf ==
  ASSUME TypeOK, Writing' = Writing, UNCHANGED <<sent, history, writers, out, cur>>,
         UNCHANGED todo \/ \E c \in Controllers : \E d : todo' = [todo EXCEPT ![c] = d]
  PROVE  NoDataMoves
  BY ThreadsAssumption DEF TypeOK, DataTypeOK, NoDataMoves, Writing, Threads

\* A step that changes neither masterFlag nor enabled nor who waits in disable.
LEMMA StaysOpen ==
  ASSUME UNCHANGED <<masterFlag, enabled>>,
         \A c \in Controllers : pc'[c] = "dis_tx" <=> pc[c] = "dis_tx"
  PROVE  OpenForwarder' = OpenForwarder
  BY DEF OpenForwarder

\* Every step is of one of the kinds: one case for each action.
LEMMA StepKindsStep == IInv /\ [Next]_vars => StepKinds
  <1> SUFFICES ASSUME IInv, [Next]_vars PROVE StepKinds
    OBVIOUS
  <1>0. TypeOK
    BY DEF IInv
  <1>n. ASSUME NoDataMoves, UNCHANGED <<masterFlag, enabled>>,
               \A c \in Controllers : pc'[c] = "dis_tx" <=> pc[c] = "dis_tx"
        PROVE  StepKinds
    BY <1>n, StaysOpen DEF StepKinds, SwitchesBetween
  \* A thread moves aside, and the rest is unchanged.
  <1>g. ASSUME NEW t \in Threads, NEW x, Goto(t, x),
               x \notin {"tx_write", "dis_tx"}, pc[t] \notin {"tx_write", "dis_tx"},
               UNCHANGED <<masterFlag, enabled, sent, history, writers, out, cur>>,
               UNCHANGED todo \/ \E c \in Controllers : \E d : todo' = [todo EXCEPT ![c] = d]
        PROVE  StepKinds
    BY <1>0, <1>g, <1>n, MovesAside, NoDataMovesIf
  <1>p. ASSUME UNCHANGED pc,
               UNCHANGED <<masterFlag, enabled, sent, history, writers, out, cur>>,
               UNCHANGED todo \/ \E c \in Controllers : \E d : todo' = [todo EXCEPT ![c] = d]
        PROVE  StepKinds
    BY <1>0, <1>p, <1>n, StaysAside, NoDataMovesIf
  <1> USE DEF trackVars, readerVars, writerVars, dataVars, Threads
  <1>1. CASE Receive
    BY <1>1 DEF StepKinds
  <1>2. ASSUME NEW t \in Controllers \cup {Listener}, CallbackCheck(t) PROVE StepKinds
    BY <1>2, <1>g DEF CallbackCheck, EndCallback
  <1>3. ASSUME NEW t \in Controllers \cup {Listener}, CallbackAdd(t) PROVE StepKinds
    BY <1>3, <1>g DEF CallbackAdd, EndCallback
  <1>4. ASSUME NEW t \in Controllers \cup {Listener}, CallbackEmit(t) PROVE StepKinds
    BY <1>4, <1>g DEF CallbackEmit, EndCallback
  <1>5. ASSUME NEW w \in Workers, StartTask(w) PROVE StepKinds
    BY <1>5, <1>g DEF StartTask
  <1>6. ASSUME NEW w \in Workers, LockTransmission(w) PROVE StepKinds
    BY <1>6, <1>g DEF LockTransmission
  <1>7. ASSUME NEW w \in Workers, ShouldTransmit(w) PROVE StepKinds
    BY <1>7, <1>g DEF ShouldTransmit, LeaveTransmission
  <1>8. ASSUME NEW w \in Workers, CheckMaster(w) PROVE StepKinds
    BY <1>8, <1>g DEF CheckMaster
  <1>9. ASSUME NEW w \in Workers, StoreTransmitting(w) PROVE StepKinds
    BY <1>9, <1>g DEF StoreTransmitting
  <1>10. ASSUME NEW w \in Workers, Take(w) PROVE StepKinds
    <2>1. CASE history' # history
      BY <1>10, <2>1 DEF StepKinds, TakesSample
    <2>2. CASE history' = history
      <3>1. ~(history # <<>> /\ history' = Tail(history))
        BY <1>0, <2>2 DEF TypeOK, DataTypeOK
      <3> QED
        BY <1>10, <2>2, <3>1, <1>g DEF Take
    <2> QED
      BY <2>1, <2>2
  <1>11. ASSUME NEW w \in Workers, SubTransmitting(w) PROVE StepKinds
    BY <1>11, <1>g DEF SubTransmitting, LeaveTransmission
  <1>12. ASSUME NEW w \in Workers, Write(w) PROVE StepKinds
    BY <1>12 DEF StepKinds
  <1>13. ASSUME NEW c \in Controllers, EnableCall(c) PROVE StepKinds
    <2>1. Writing' = Writing
      BY <1>0, <1>13, MovesAside DEF EnableCall
    <2>2. NoDataMoves
      BY <1>0, <1>13, <2>1, NoDataMovesIf DEF EnableCall
    <2>3. ~enabled /\ \A d \in Controllers : pc[d] # "dis_tx"
      BY <1>13, ThreadsAssumption DEF EnableCall, IInv, MutexesHeld, InTrack, ControllerPlaces
    <2>4. Writing = {}
      BY <2>3 DEF Writing, IInv, LoopStopped
    <2> QED
      BY <2>2, <2>4 DEF StepKinds, SwitchesBetween
  <1>14. ASSUME NEW c \in Controllers, EnableResetStatus(c) PROVE StepKinds
    BY <1>14, <1>g DEF EnableResetStatus
  <1>15. ASSUME NEW c \in Controllers, EnableWriter(c) PROVE StepKinds
    BY <1>15, <1>g, <1>p DEF EnableWriter
  <1>16. ASSUME NEW c \in Controllers, EnableReader(c) PROVE StepKinds
    BY <1>16, <1>g DEF EnableReader
  <1>17. ASSUME NEW c \in Controllers, EnableNotify(c) PROVE StepKinds
    BY <1>17, <1>g DEF EnableNotify, EndCallback
  <1>18. ASSUME NEW c \in Controllers, pc[c] = "idle", enabled, ~enabled', Goto(c, "dis_tx"),
                UNCHANGED <<masterFlag, sent, history, writers, out, cur, todo>>
         PROVE  StepKinds
    <2>1. Writing' = Writing
      BY <1>0, <1>18, ThreadsAssumption DEF TypeOK, ControlTypeOK, Goto, Writing
    <2>2. NoDataMoves
      BY <1>0, <1>18, <2>1, NoDataMovesIf
    <2>3. pc'[c] = "dis_tx"
      BY <1>0, <1>18 DEF TypeOK, ControlTypeOK, Goto
    <2>4. OpenForwarder' = OpenForwarder
      BY <1>18, <2>3 DEF OpenForwarder
    <2> QED
      BY <2>2, <2>4 DEF StepKinds, SwitchesBetween
  <1>19. ASSUME NEW c \in Controllers, DisableCall(c) PROVE StepKinds
    BY <1>18, <1>19 DEF DisableCall
  <1>20. ASSUME NEW c \in Controllers, DisableWaitTransmission(c) PROVE StepKinds
    <2>1. Writing = {}
      BY <1>20, ThreadsAssumption DEF DisableWaitTransmission, TransmissionEnded, IInv, MutexesHeld,
         Transmitting, Writing
    <2>2. Writing' = {}
      BY <1>0, <1>20, <2>1, ThreadsAssumption DEF DisableWaitTransmission, Goto, Writing, TypeOK,
          ControlTypeOK
    <2>3. NoDataMoves
      BY <1>20, <2>1, <2>2 DEF DisableWaitTransmission, NoDataMoves
    <2> QED
      BY <2>1, <2>3 DEF StepKinds, SwitchesBetween
  <1>21. ASSUME NEW c \in Controllers, DisableReader(c) PROVE StepKinds
    BY <1>21, <1>g DEF DisableReader
  <1>22. ASSUME NEW c \in Controllers, DisableWriter(c) PROVE StepKinds
    BY <1>22, <1>g, <1>p DEF DisableWriter
  <1>23. ASSUME NEW c \in Controllers, AddLocked(c) \/ RemoveLocked(c) PROVE StepKinds
    BY <1>23 DEF StepKinds
  <1>24. ASSUME NEW c \in Controllers, DestroyCall(c) PROVE StepKinds
    <2>1. CASE enabled
      BY <1>18, <1>24, <2>1 DEF DestroyCall
    <2>2. CASE ~enabled
      BY <1>g, <1>24, <2>2 DEF DestroyCall
    <2> QED
      BY <2>1, <2>2
  <1>25. ASSUME NEW c \in Controllers, DestroyUnset(c) PROVE StepKinds
    BY <1>25, <1>g DEF DestroyUnset
  <1>26. ASSUME NEW c \in Controllers, DestroyExit(c) PROVE StepKinds
    BY <1>26, <1>g DEF DestroyExit
  <1>27. ASSUME NEW c \in Controllers, NEW p \in Participants, AddCall(c, p) PROVE StepKinds
    BY <1>27, <1>g DEF AddCall
  <1>28. ASSUME NEW c \in Controllers, NEW p \in Participants, RemoveCall(c, p) PROVE StepKinds
    BY <1>28, <1>g DEF RemoveCall
  <1>29. CASE Promote
    <2>1. Writing = {}
      BY <1>29 DEF Promote, IInv, MasterLoop, Writing
    <2>2. NoDataMoves
      BY <1>0, <1>29, StaysAside, NoDataMovesIf DEF Promote
    <2> QED
      BY <2>1, <2>2 DEF StepKinds, SwitchesBetween
  <1>30. CASE UNCHANGED vars
    BY <1>30, <1>p DEF vars
  <1> QED
    BY <1>1, <1>2, <1>3, <1>4, <1>5, <1>6, <1>7, <1>8, <1>9, <1>10, <1>11, <1>12, <1>13,
       <1>14, <1>15, <1>16, <1>17, <1>19, <1>20, <1>21, <1>22, <1>23, <1>24,
       <1>25, <1>26, <1>27, <1>28, <1>29, <1>30
       DEF Next, Calls, Continue, DataAvailable, Transmit

-----------------------------------------------------------------------------
\* RInv is inductive.

\* What a step that moves no data leaves alone.
LEMMA Inert ==
  ASSUME NoDataMoves
  PROVE  /\ UNCHANGED <<sent, Waiting, Destinations, InFlight, Owed, out>>
         /\ HistoryInOrder => HistoryInOrder'
         /\ HasSample => HasSample'
  BY DEF NoDataMoves, Waiting, Destinations, InFlight, Owed, HistoryInOrder, HasSample, Writing

\* A sample in the loop over writers_ has that loop to itself, and is on an open
\* track.
LEMMA OneWriting ==
  ASSUME IInv, NEW w \in Writing
  PROVE  Writing = {w} /\ OpenForwarder
  BY ThreadsAssumption DEF IInv, MutexesHeld, MasterLoop, LoopStopped, Transmitting, Writing,
      OpenForwarder

\* So is a thread that takes a sample, which nobody else is delivering.
LEMMA OneTaking ==
  ASSUME IInv, NEW w \in Workers, pc[w] = "tx_take"
  PROVE  Writing = {} /\ OpenForwarder
  BY ThreadsAssumption DEF IInv, MutexesHeld, MasterLoop, LoopStopped, Transmitting, Writing,
      OpenForwarder

\* The effect of a take on the data.
LEMMA TakeEffect ==
  ASSUME IInv, NEW w \in Workers, TakesSample(w)
  PROVE  /\ history # <<>> /\ history' = Tail(history)
         /\ UNCHANGED <<sent, writers, out>>
         /\ pc[w] = "tx_take" /\ OpenForwarder' = OpenForwarder
         /\ \/ Writing' = {}
            \/ /\ Destinations # {} /\ Writing' = {w}
               /\ cur'[w] = Head(history) /\ todo'[w] = Destinations
  <1> USE DEF TakesSample, Take
  <1>0. TypeOK
    BY DEF IInv
  <1>1. /\ history # <<>> /\ history' = Tail(history)
        /\ UNCHANGED <<sent, writers, out, masterFlag, enabled>>
        /\ pc[w] = "tx_take"
    BY DEF trackVars, writerVars
  <1>2. Writing = {}
    BY OneTaking
  <1>3. ASSUME Goto(w, "tx_check") PROVE Writing' = {}
    BY <1>0, <1>2, <1>3, ThreadsAssumption DEF Goto, Writing, TypeOK, ControlTypeOK, Threads
  <1>4. ASSUME Goto(w, "tx_write") PROVE Writing' = {w}
    BY <1>0, <1>2, <1>4, ThreadsAssumption DEF Goto, Writing, TypeOK, ControlTypeOK, Threads
  <1>5. \A c \in Controllers : pc'[c] = pc[c]
    BY <1>0, ThreadsAssumption DEF Goto, TypeOK, ControlTypeOK, Threads
  <1>6. OpenForwarder' = OpenForwarder
    BY <1>1, <1>5, StaysOpen
  <1>7. CASE Head(history) \in BadSamples \/ Destinations = {}
    BY <1>1, <1>3, <1>6, <1>7
  <1>8. CASE ~(Head(history) \in BadSamples \/ Destinations = {})
    <2>1. cur'[w] = Head(history) /\ todo'[w] = Destinations
      BY <1>0, <1>1, <1>8 DEF TypeOK, DataTypeOK, Threads
    <2> QED
      BY <1>1, <1>4, <1>6, <1>8, <2>1
  <1> QED
    BY <1>7, <1>8

\* The effect of one turn of the loop over writers_.
LEMMA WriteEffect ==
  ASSUME IInv, NEW w \in Workers, Write(w)
  PROVE  /\ UNCHANGED <<sent, history, writers>> /\ OpenForwarder' = OpenForwarder
         /\ Writing = {w}
         /\ \E p \in todo[w] :
              /\ p \in Participants /\ out' = [out EXCEPT ![p] = Append(@, cur[w])]
              /\ IF todo[w] = {p}
                   THEN Writing' = {}
                   ELSE Writing' = {w} /\ cur'[w] = cur[w] /\ todo'[w] = todo[w] \ {p}
  <1>0. TypeOK
    BY DEF IInv
  <1>1. Writing = {w}
    BY OneWriting DEF Write, Writing
  <1>2. /\ UNCHANGED <<sent, history, writers, masterFlag, enabled>>
    BY DEF Write, trackVars, readerVars
  <1>3. \A c \in Controllers : pc'[c] = pc[c]
    BY <1>0, ThreadsAssumption DEF Write, Goto, TypeOK, ControlTypeOK, Threads
  <1>4. OpenForwarder' = OpenForwarder
    BY <1>2, <1>3, StaysOpen
  <1>5. PICK p \in todo[w] :
          /\ out' = IF writerEnabled[writers[p]] THEN [out EXCEPT ![p] = Append(@, cur[w])] ELSE out
          /\ todo' = [todo EXCEPT ![w] = @ \ {p}]
          /\ IF todo[w] = {p} THEN Goto(w, "tx_check") /\ cur' = [cur EXCEPT ![w] = 0]
                             ELSE UNCHANGED <<pc, cur>>
    BY DEF Write
  <1>6. p \in Participants /\ out' = [out EXCEPT ![p] = Append(@, cur[w])]
    BY <1>0, <1>5 DEF Write, IInv, WritersReadyWhileWriting, TypeOK, DataTypeOK, Threads
  <1>7. todo[w] = {p} => Writing' = {}
    BY <1>0, <1>1, <1>5, ThreadsAssumption DEF Goto, Writing, TypeOK, ControlTypeOK, Threads
  <1>8. todo[w] # {p} => Writing' = {w} /\ cur'[w] = cur[w] /\ todo'[w] = todo[w] \ {p}
    BY <1>0, <1>1, <1>5, ThreadsAssumption DEF Writing, TypeOK, DataTypeOK, Threads
  <1> QED
    BY <1>1, <1>2, <1>4, <1>5, <1>6, <1>7, <1>8

\* The effect of the arrival of a sample.
LEMMA ReceiveEffect ==
  ASSUME TypeOK, Receive
  PROVE  /\ sent' = sent + 1 /\ history' \in {history, Append(history, sent + 1)}
         /\ UNCHANGED <<writers, out, cur, todo>> /\ OpenForwarder' = OpenForwarder
         /\ Writing' = Writing
  <1>1. UNCHANGED <<writers, out, cur, todo, masterFlag, enabled>>
    BY DEF Receive, trackVars
  <1>2. \A t \in Threads : t # Listener => pc'[t] = pc[t]
    BY DEF Receive, Goto, TypeOK, ControlTypeOK
  <1>3. Writing' = Writing /\ \A c \in Controllers : pc'[c] = pc[c]
    BY <1>2, ThreadsAssumption DEF Writing, Threads
  <1> QED
    BY <1>1, <1>3, StaysOpen DEF Receive

\* The effect of a change of writers_: no sample is being delivered.
LEMMA RedirectEffect ==
  ASSUME IInv, NEW c \in Controllers, AddLocked(c) \/ RemoveLocked(c)
  PROVE  /\ UNCHANGED <<sent, history, out>> /\ OpenForwarder' = OpenForwarder
         /\ Writing = {} /\ Writing' = {}
  <1> USE DEF AddLocked, RemoveLocked
  <1>0. TypeOK
    BY DEF IInv
  <1>1. UNCHANGED <<sent, history, out, masterFlag, enabled>>
    BY DEF readerVars, dataVars
  <1>2. Writing = {}
    BY ThreadsAssumption DEF IInv, MutexesHeld, Transmitting, Writing, Threads
  <1>3. Writing' = Writing /\ \A d \in Controllers : pc'[d] = "dis_tx" <=> pc[d] = "dis_tx"
    BY <1>0, MovesAside DEF Threads
  <1> QED
    BY <1>1, <1>2, <1>3, StaysOpen


\* A track just built holds no sample.
LEMMA NoSampleInit == Init => HistoryInOrder /\ HasSample
  BY DEF Init, HistoryInOrder, HasSample, Writing, Threads

\* The samples of the reader stay in the order they were sent.
LEMMA OrderStep ==
  ASSUME TypeOK, HistoryInOrder,
         \/ sent' = sent + 1 /\ history' \in {history, Append(history, sent + 1)}
         \/ sent' = sent /\ history # <<>> /\ history' = Tail(history)
  PROVE  HistoryInOrder'
  <1>t. history \in Seq(Samples) /\ sent \in Nat
    BY BoundsAssumption DEF TypeOK, DataTypeOK
  <1>0. history \in Seq(Samples) /\ sent \in Nat /\ \A i \in 1..Len(history) : history[i] \in Nat
    BY <1>t DEF HistoryInOrder
  <1>1. CASE sent' = sent + 1 /\ history' = history
    BY <1>0, <1>1 DEF HistoryInOrder
  <1>2. CASE sent' = sent + 1 /\ history' = Append(history, sent + 1)
    <2>1. Len(history') = Len(history) + 1 /\ history'[Len(history) + 1] = sent + 1
      BY <1>0, <1>2
    <2>2. \A i \in 1..Len(history) : history'[i] = history[i]
      BY <1>0, <1>2
    <2> QED
      BY <1>0, <1>2, <2>1, <2>2 DEF HistoryInOrder
  <1>3. CASE sent' = sent /\ history # <<>> /\ history' = Tail(history)
    <2>1. Len(history') = Len(history) - 1 /\ Len(history) \in Nat
      BY <1>0, <1>3, HeadTailProperties
    <2>2. \A i \in 1..Len(history') : history'[i] = history[i + 1]
      BY <1>0, <1>3, <2>1, HeadTailProperties
    <2>3. \A i \in 1..Len(history') : i + 1 \in 1..Len(history)
      BY <2>1
    <2>4. \A i \in 1..Len(history') : history'[i] \in 1..sent'
      BY <1>3, <2>2, <2>3 DEF HistoryInOrder
    <2>5. ASSUME NEW i \in 1..Len(history'), NEW j \in 1..Len(history'), i < j
          PROVE  history'[i] < history'[j]
      <3>1. history[i + 1] < history[j + 1]
        BY <2>3, <2>5 DEF HistoryInOrder
      <3> QED
        BY <2>2, <3>1
    <2> QED
      BY <2>4, <2>5 DEF HistoryInOrder
  <1> QED
    BY <1>1, <1>2, <1>3

\* The first sample of the reader is the least one it has.
LEMMA FirstIsLeast ==
  ASSUME TypeOK, HistoryInOrder, history # <<>>
  PROVE  /\ Head(history) \in 1..sent /\ Head(history) \in Waiting
         /\ \A r \in Waiting : Head(history) =< r
         /\ {Tail(history)[i] : i \in DOMAIN Tail(history)} = Waiting \ {Head(history)}
  <1>0. history \in Seq(Samples) /\ sent \in Nat /\ \A i \in 1..Len(history) : history[i] \in Nat
    BY BoundsAssumption DEF TypeOK, DataTypeOK, Samples, HistoryInOrder
  <1>1. Head(history) = history[1] /\ 1 \in 1..Len(history) /\ Len(history) \in Nat
    BY <1>0
  <1>2. DOMAIN history = 1..Len(history) /\ DOMAIN Tail(history) = 1..(Len(history) - 1)
    BY <1>0
  <1>3. \A i \in 1..(Len(history) - 1) : Tail(history)[i] = history[i + 1] /\ i + 1 \in 1..Len(history)
    BY <1>0, <1>1
  <1>4. \A i \in 1..Len(history) : i # 1 => history[1] < history[i] /\ i - 1 \in 1..(Len(history) - 1)
    BY <1>0, <1>1 DEF HistoryInOrder
  <1>5. \A r \in Waiting : Head(history) =< r
    BY <1>0, <1>1, <1>2, <1>4 DEF Waiting
  <1>6. {Tail(history)[i] : i \in DOMAIN Tail(history)} \subseteq Waiting \ {Head(history)}
    BY <1>0, <1>1, <1>2, <1>3, <1>4 DEF Waiting
  <1>7. ASSUME NEW r \in Waiting \ {Head(history)}
        PROVE  \E i \in DOMAIN Tail(history) : r = Tail(history)[i]
    <2>1. PICK i \in 1..Len(history) : r = history[i]
      BY <1>2, <1>7 DEF Waiting
    <2>2. i - 1 \in 1..(Len(history) - 1) /\ (i - 1) + 1 = i
      BY <1>1, <1>4, <1>7, <2>1
    <2> QED
      BY <1>2, <1>3, <2>1, <2>2
  <1> QED
    BY <1>0, <1>1, <1>2, <1>5, <1>6, <1>7 DEF Waiting, HistoryInOrder

\* Every step keeps RInv.
LEMMA RInvStep == RInv /\ [Next]_vars => RInv'
  <1> SUFFICES ASSUME IInv, HistoryInOrder, HasSample, [Next]_vars
               PROVE  HistoryInOrder' /\ HasSample'
    BY IInvStep DEF RInv
  <1>0. TypeOK /\ sent \in Nat
    BY BoundsAssumption DEF IInv, TypeOK, DataTypeOK
  <1>1. CASE Receive
    <2>1. Writing' = Writing /\ cur' = cur /\ todo' = todo /\ sent' = sent + 1
      BY <1>0, <1>1, ReceiveEffect
    <2>2. HasSample'
      BY <1>0, <2>1 DEF HasSample
    <2> QED
      BY <1>0, <1>1, <2>2, ReceiveEffect, OrderStep
  <1>2. ASSUME NEW w \in Workers, TakesSample(w) PROVE HistoryInOrder' /\ HasSample'
    <2>1. history # <<>> /\ history' = Tail(history) /\ sent' = sent
      BY <1>2, TakeEffect
    <2>2. HistoryInOrder'
      BY <1>0, <2>1, OrderStep
    <2>3. HasSample'
      BY <1>0, <1>2, <2>1, TakeEffect, FirstIsLeast DEF HasSample
    <2> QED
      BY <2>2, <2>3
  <1>3. ASSUME NEW w \in Workers, Write(w) PROVE HistoryInOrder' /\ HasSample'
    <2>1. history' = history /\ sent' = sent /\ Writing = {w}
      BY <1>3, WriteEffect
    <2>2. PICK p \in todo[w] :
            IF todo[w] = {p} THEN Writing' = {}
                             ELSE Writing' = {w} /\ cur'[w] = cur[w] /\ todo'[w] = todo[w] \ {p}
      BY <1>3, WriteEffect
    <2>3. HasSample'
      BY <2>1, <2>2 DEF HasSample
    <2> QED
      BY <2>1, <2>3 DEF HistoryInOrder
  <1>4. ASSUME NEW c \in Controllers, AddLocked(c) \/ RemoveLocked(c)
        PROVE  HistoryInOrder' /\ HasSample'
    BY <1>4, RedirectEffect DEF HistoryInOrder, HasSample
  <1>5. CASE NoDataMoves
    BY <1>5, Inert
  <1> QED
    BY <1>1, <1>2, <1>3, <1>4, <1>5, StepKindsStep DEF StepKinds

-----------------------------------------------------------------------------
\* The refinement.

\* A track just built is a forwarder that has nothing.
LEMMA ForwarderInit == Init => Forwarding!Init
  <1> SUFFICES ASSUME Init PROVE Forwarding!Init
    OBVIOUS
  <1>1. Writing = {} /\ \A c \in Controllers : pc[c] # "dis_tx"
    BY DEF Init, Writing, Threads
  <1>2. InFlight = {} /\ Owed = {} /\ OpenForwarder = FALSE
    BY <1>1 DEF Init, InFlight, Owed, OpenForwarder
  <1>3. Waiting = {} /\ Destinations \in SUBSET Participants
    BY DEF Init, Waiting, Destinations
  <1> QED
    BY <1>2, <1>3 DEF Init, Forwarding!Init

\* Every step of a track is a step of the forwarder, or none.
LEMMA ForwarderStep == RInv /\ [Next]_vars => [Forwarding!Next]_Forwarding!vars
  <1> SUFFICES ASSUME IInv, HistoryInOrder, HasSample, [Next]_vars
               PROVE  [Forwarding!Next]_Forwarding!vars
    BY DEF RInv
  <1>0. TypeOK /\ sent \in Nat
    BY BoundsAssumption DEF IInv, TypeOK, DataTypeOK
  <1>1. CASE Receive
    <2>1. /\ UNCHANGED <<Destinations, InFlight, Owed, OpenForwarder, out>>
      BY <1>0, <1>1, ReceiveEffect DEF Destinations, InFlight, Owed
    <2>2. history' = Append(history, sent + 1) => Waiting' = Waiting \cup {sent + 1}
      <3>1. history \in Seq(Samples)
        BY <1>0 DEF TypeOK, DataTypeOK
      <3>2. SUFFICES ASSUME history' = Append(history, sent + 1)
                     PROVE  Waiting' = Waiting \cup {sent + 1}
        OBVIOUS
      <3>3. DOMAIN history = 1..Len(history) /\ DOMAIN history' = 1..(Len(history) + 1)
        BY <3>1, <3>2
      <3>4. /\ \A i \in 1..Len(history) : history'[i] = history[i]
            /\ history'[Len(history) + 1] = sent + 1
        BY <3>1, <3>2
      <3>5. Len(history) \in Nat
        BY <3>1
      <3> QED
        BY <3>3, <3>4, <3>5 DEF Waiting
    <2>3. history' = history => Waiting' = Waiting
      BY DEF Waiting
    <2>4. Forwarding!Arrive
      BY <1>0, <1>1, <2>1, <2>2, <2>3, ReceiveEffect DEF Forwarding!Arrive
    <2> QED
      BY <2>4 DEF Forwarding!Next
  <1>2. ASSUME NEW w \in Workers, TakesSample(w) PROVE Forwarding!Next
    <2> DEFINE s == Head(history)
    <2>1. history # <<>> /\ history' = Tail(history) /\ UNCHANGED <<sent, writers, out, OpenForwarder>>
      BY <1>2, TakeEffect
    <2>2. s \in 1..sent /\ Forwarding!IsFirst(s) /\ Waiting' = Waiting \ {s}
      BY <1>0, <2>1, FirstIsLeast DEF Forwarding!IsFirst, Waiting
    <2>3. OpenForwarder /\ InFlight = {} /\ Owed = {}
      BY <1>2, OneTaking DEF TakesSample, Take, InFlight, Owed
    <2>4. Destinations' = Destinations
      BY <2>1 DEF Destinations
    <2>5. CASE Writing' = {}
      <3>1. InFlight' = InFlight /\ Owed' = Owed
        BY <2>3, <2>5 DEF InFlight, Owed
      <3>2. Forwarding!Lose(s)
        BY <2>1, <2>2, <2>3, <2>4, <3>1 DEF Forwarding!Lose
      <3> QED
        BY <2>2, <3>2 DEF Forwarding!Next
    <2>6. CASE /\ Destinations # {} /\ Writing' = {w}
               /\ cur'[w] = s /\ todo'[w] = Destinations
      <3>1. InFlight' = {s} /\ Owed' = Destinations
        BY <2>6 DEF InFlight, Owed
      <3>2. Forwarding!Begin(s)
        BY <2>1, <2>2, <2>3, <2>4, <2>6, <3>1 DEF Forwarding!Begin
      <3> QED
        BY <2>2, <3>2 DEF Forwarding!Next
    <2> QED
      BY <1>2, <2>5, <2>6, TakeEffect
  <1>3. ASSUME NEW w \in Workers, Write(w) PROVE Forwarding!Next
    <2>1. UNCHANGED <<sent, history, writers, OpenForwarder>> /\ Writing = {w}
      BY <1>3, WriteEffect
    <2>2. PICK p \in todo[w] :
            /\ p \in Participants /\ out' = [out EXCEPT ![p] = Append(@, cur[w])]
            /\ IF todo[w] = {p}
                 THEN Writing' = {}
                 ELSE Writing' = {w} /\ cur'[w] = cur[w] /\ todo'[w] = todo[w] \ {p}
      BY <1>3, WriteEffect
    <2>3. InFlight = {cur[w]} /\ Owed = todo[w] /\ cur[w] \in 1..sent
      BY <2>1 DEF InFlight, Owed, HasSample
    <2>4. Waiting' = Waiting /\ Destinations' = Destinations
      BY <2>1 DEF Waiting, Destinations
    <2>5. Owed' = Owed \ {p} /\ InFlight' = IF Owed = {p} THEN {} ELSE InFlight
      <3>1. CASE todo[w] = {p}
        <4>1. Writing' = {}
          BY <2>2, <3>1
        <4>2. Owed' = {} /\ InFlight' = {}
          BY <4>1 DEF Owed, InFlight
        <4> QED
          BY <2>3, <3>1, <4>2
      <3>2. CASE todo[w] # {p}
        <4>1. Writing' = {w} /\ cur'[w] = cur[w] /\ todo'[w] = todo[w] \ {p}
          BY <2>2, <3>2
        <4>2. Owed' = todo[w] \ {p} /\ InFlight' = {cur[w]}
          BY <4>1 DEF Owed, InFlight
        <4> QED
          BY <2>3, <3>2, <4>2
      <3> QED
        BY <3>1, <3>2
    <2>6. Forwarding!Give(cur[w], p)
      BY <2>1, <2>2, <2>3, <2>4, <2>5 DEF Forwarding!Give
    <2> QED
      BY <2>2, <2>3, <2>6 DEF Forwarding!Next
  <1>4. ASSUME NEW c \in Controllers, AddLocked(c) \/ RemoveLocked(c) PROVE Forwarding!Next
    <2>1. UNCHANGED <<sent, history, out, OpenForwarder>> /\ Writing = {} /\ Writing' = {}
      BY <1>4, RedirectEffect
    <2>2. UNCHANGED <<InFlight, Owed, Waiting>> /\ InFlight = {}
      BY <2>1 DEF InFlight, Owed, Waiting
    <2>3. Destinations' \in SUBSET Participants
      BY DEF Destinations
    <2>4. Forwarding!Redirect
      BY <2>1, <2>2, <2>3 DEF Forwarding!Redirect
    <2> QED
      BY <2>4 DEF Forwarding!Next
  <1>5. CASE NoDataMoves /\ SwitchesBetween
    <2>1. UNCHANGED <<sent, Waiting, Destinations, InFlight, Owed, out>>
      BY <1>5, Inert
    <2>2. CASE OpenForwarder' = OpenForwarder
      BY <2>1, <2>2 DEF Forwarding!vars
    <2>3. CASE OpenForwarder' # OpenForwarder
      <3>1. InFlight = {}
        BY <1>5, <2>3 DEF SwitchesBetween, InFlight
      <3>2. OpenForwarder' = ~OpenForwarder
        BY <2>3 DEF OpenForwarder
      <3>3. Forwarding!OpenOrClose
        BY <2>1, <3>1, <3>2 DEF Forwarding!OpenOrClose
      <3> QED
        BY <3>3 DEF Forwarding!Next
    <2> QED
      BY <2>2, <2>3
  <1> QED
    BY <1>1, <1>2, <1>3, <1>4, <1>5, StepKindsStep DEF StepKinds

\* Whatever its threads do, a track forwards as Forwarder says: in order, each
\* sample at most once, to all the writers of the moment its turn comes, and
\* neither disable nor a change of the writers cuts a sample short.
THEOREM Refinement == Spec => ImplementsForwarder
  <1>1. Init => RInv
    BY IInvInit, NoSampleInit DEF RInv
  <1>2. RInv /\ [Next]_vars => RInv'
    BY RInvStep
  <1> QED
    BY <1>1, <1>2, ForwarderInit, ForwarderStep, PTL DEF Spec, ImplementsForwarder, Forwarding!Spec

-----------------------------------------------------------------------------
\* A forwarder keeps the order of the samples.  Nothing is said of the track here: what a
\* track has for the variables of the forwarder is never looked into.

\* At first there is nothing.
LEMMA OrderInit == Forwarding!Init => Forwarding!Shapes /\ Forwarding!Older /\ Forwarding!InOrder
  <1> SUFFICES ASSUME Forwarding!Init PROVE Forwarding!Shapes /\ Forwarding!Older /\ Forwarding!InOrder
    OBVIOUS
  <1>1. \A p \in Participants : out[p] = <<>> /\ Len(out[p]) = 0
    BY DEF Forwarding!Init
  <1> QED
    BY <1>1 DEF Forwarding!Init, Forwarding!Shapes, Forwarding!Older, Forwarding!InOrder

\* Every step keeps the shapes.
LEMMA ShapesStep ==
  ASSUME Forwarding!Shapes, [Forwarding!Next]_Forwarding!vars
  PROVE  Forwarding!Shapes'
  <1> USE DEF Forwarding!Shapes
  <1>1. CASE Forwarding!Arrive
    BY <1>1 DEF Forwarding!Arrive
  <1>2. CASE Forwarding!OpenOrClose
    BY <1>2 DEF Forwarding!OpenOrClose
  <1>3. CASE Forwarding!Redirect
    BY <1>3 DEF Forwarding!Redirect
  <1>4. ASSUME NEW s \in 1..sent, Forwarding!Begin(s) PROVE Forwarding!Shapes'
    BY <1>4 DEF Forwarding!Begin
  <1>5. ASSUME NEW s \in 1..sent, Forwarding!Lose(s) PROVE Forwarding!Shapes'
    BY <1>5 DEF Forwarding!Lose
  <1>6. ASSUME NEW s \in 1..sent, NEW p \in Participants, Forwarding!Give(s, p) PROVE Forwarding!Shapes'
    <2>1. out' \in [Participants -> Seq(Nat)]
      BY <1>6, AppendProperties DEF Forwarding!Give
    <2> QED
      BY <1>6, <2>1 DEF Forwarding!Give
  <1>7. CASE UNCHANGED Forwarding!vars
    BY <1>7 DEF Forwarding!vars
  <1> QED
    BY <1>1, <1>2, <1>3, <1>4, <1>5, <1>6, <1>7 DEF Forwarding!Next

\* Every step keeps the ages and the order.
LEMMA OlderStep ==
  ASSUME Forwarding!Shapes, Forwarding!Older, Forwarding!InOrder,
         [Forwarding!Next]_Forwarding!vars
  PROVE  Forwarding!Older' /\ Forwarding!InOrder'
  <1>0. \A p \in Participants : Len(out[p]) \in Nat /\ \A i \in 1..Len(out[p]) : out[p][i] \in Nat
    BY DEF Forwarding!Shapes
  <1>u. out' = out => Forwarding!InOrder'
    BY DEF Forwarding!InOrder
  <1> USE DEF Forwarding!Shapes
  <1>1. CASE Forwarding!Arrive
    BY <1>0, <1>1, <1>u DEF Forwarding!Arrive, Forwarding!Older
  <1>2. CASE Forwarding!OpenOrClose
    BY <1>2, <1>u DEF Forwarding!OpenOrClose, Forwarding!Older
  <1>3. CASE Forwarding!Redirect
    BY <1>3, <1>u DEF Forwarding!Redirect, Forwarding!Older
  <1>4. ASSUME NEW s \in 1..sent, Forwarding!Begin(s)
        PROVE  Forwarding!Older' /\ Forwarding!InOrder'
    <2>1. \A r \in Waiting' : r \in Waiting /\ s < r
      BY <1>4 DEF Forwarding!Begin, Forwarding!IsFirst
    <2>2. s \in Waiting /\ InFlight' = {s} /\ UNCHANGED <<out, sent>>
      BY <1>4 DEF Forwarding!Begin, Forwarding!IsFirst
    <2>3. ASSUME NEW q \in Participants, NEW i \in 1..Len(out[q])
          PROVE  /\ out[q][i] =< sent /\ \A r \in Waiting' : out[q][i] < r
                 /\ out[q][i] < s /\ out[q][i] =< s
      <3>1. out[q][i] =< sent /\ \A r \in Waiting : out[q][i] < r
        BY DEF Forwarding!Older
      <3>2. out[q][i] \in Nat /\ s \in Nat /\ out[q][i] < s
        BY <1>0, <2>2, <3>1
      <3> HIDE DEF Forwarding!Shapes
      <3> QED
        BY <2>1, <3>1, <3>2
    <2>4. Forwarding!Older'
      BY <2>1, <2>2, <2>3 DEF Forwarding!Older
    <2> QED
      BY <1>u, <2>2, <2>4
  <1>5. ASSUME NEW s \in 1..sent, Forwarding!Lose(s)
        PROVE  Forwarding!Older' /\ Forwarding!InOrder'
    BY <1>5, <1>u DEF Forwarding!Lose, Forwarding!Older
  <1>6. ASSUME NEW s \in 1..sent, NEW p \in Participants, Forwarding!Give(s, p)
        PROVE  Forwarding!Older' /\ Forwarding!InOrder'
    <2>1. /\ InFlight = {s} /\ p \in Owed /\ InFlight' \subseteq {s}
          /\ UNCHANGED <<sent, Waiting>> /\ Owed' = Owed \ {p}
      BY <1>6 DEF Forwarding!Give
    <2>2. \A q \in Participants : q # p => out'[q] = out[q]
      BY <1>6 DEF Forwarding!Give
    <2>3. out'[p] = Append(out[p], s) /\ out[p] \in Seq(Nat) /\ s \in Nat
      BY <1>6 DEF Forwarding!Give
    <2>4. /\ Len(out'[p]) = Len(out[p]) + 1 /\ out'[p][Len(out[p]) + 1] = s
          /\ \A i \in 1..Len(out[p]) : out'[p][i] = out[p][i]
      BY <2>3, AppendProperties
    <2>5. \A i \in 1..Len(out[p]) : out[p][i] < s
      BY <2>1 DEF Forwarding!Older
    <2>6. \A r \in Waiting : s < r
      BY <2>1 DEF Forwarding!Older
    <2>7. ASSUME NEW q \in Participants, NEW i \in 1..Len(out'[q])
          PROVE  /\ out'[q][i] =< sent'
                 /\ \A r \in Waiting' : out'[q][i] < r
                 /\ \A t \in InFlight' : out'[q][i] =< t /\ (q \in Owed' => out'[q][i] < t)
      <3>1. CASE q # p
        BY <2>1, <2>2, <2>7, <3>1 DEF Forwarding!Older
      <3>2. CASE q = p /\ i = Len(out[p]) + 1
        <4>1. out'[q][i] = s /\ s =< sent /\ s =< s
          BY <2>4, <3>2
        <4> QED
          BY <2>1, <2>6, <3>2, <4>1
      <3>3. CASE q = p /\ i \in 1..Len(out[p])
        BY <2>1, <2>4, <2>5, <3>3 DEF Forwarding!Older
      <3> QED
        BY <1>0, <2>4, <3>1, <3>2, <3>3
    <2>8. Forwarding!Older'
      BY <2>1, <2>7 DEF Forwarding!Older
    <2>9. ASSUME NEW q \in Participants, NEW i \in 1..Len(out'[q]), NEW j \in 1..Len(out'[q]), i < j
          PROVE  out'[q][i] < out'[q][j]
      <3>1. CASE q # p
        BY <2>2, <2>9, <3>1 DEF Forwarding!InOrder
      <3>2. CASE q = p /\ j = Len(out[p]) + 1
        <4>1. Len(out[p]) \in Nat
          BY <2>3
        <4>2. out'[q][j] = s /\ i \in 1..Len(out[p])
          BY <2>4, <2>9, <3>2, <4>1
        <4> QED
          BY <2>4, <2>5, <3>2, <4>2
      <3>3. CASE q = p /\ j \in 1..Len(out[p])
        <4>1. i \in 1..Len(out[p])
          BY <1>0, <2>4, <2>9, <3>3
        <4>2. out[p][i] < out[p][j]
          BY <2>9, <3>3, <4>1 DEF Forwarding!InOrder
        <4> QED
          BY <2>4, <3>3, <4>1, <4>2
      <3> QED
        BY <1>0, <2>4, <3>1, <3>2, <3>3
    <2> QED
      BY <2>8, <2>9 DEF Forwarding!InOrder
  <1>7. CASE UNCHANGED Forwarding!vars
    BY <1>7, <1>u DEF Forwarding!vars, Forwarding!Older
  <1> QED
    BY <1>1, <1>2, <1>3, <1>4, <1>5, <1>6, <1>7 DEF Forwarding!Next

\* Samples reach each participant in the order they arrived, none twice: what
\* on_transmission_mutex_ and the order of the reader's history are for.
THEOREM OrderKept == Forwarding!Spec => []Forwarding!InOrder
  <1> DEFINE Inv == Forwarding!Shapes /\ Forwarding!Older /\ Forwarding!InOrder
  <1>1. Inv /\ [Forwarding!Next]_Forwarding!vars => Inv'
    BY ShapesStep, OlderStep
  <1> QED
    BY OrderInit, <1>1, PTL DEF Forwarding!Spec

\* So the samples of a track reach every participant in the order they were sent, none
\* twice, although several threads of the pool may run its task.
THEOREM TrackKeepsOrder == Spec => []Forwarding!InOrder
  BY Refinement, OrderKept, PTL DEF ImplementsForwarder
=============================================================================
