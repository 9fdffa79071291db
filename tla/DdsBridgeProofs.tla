--------------------------- MODULE DdsBridgeProofs ---------------------------
(***************************************************************************)
(* What DdsBridge guarantees for any participants, routes and repeaters,   *)
(* and any number of writers created.                                      *)
(*                                                                         *)
(* IInv is inductive.  At its heart is that an operation of the bridge     *)
(* visits the tracks one by one: WritersFollow says what holds of a track  *)
(* that has been visited and of one that has not, CreationIsUniform that   *)
(* create_writer finds the same case in all of them, so that its new       *)
(* writer goes to every track or to none (WritersAgree), and               *)
(* SwitchedByBridge and SendingIsOn that disable has gone past a track     *)
(* only when that has nothing in hand.  Each part has a lemma: a step      *)
(* preserves it, given the parts it leans on.                              *)
(***************************************************************************)
EXTENDS DdsBridge, TLAPS

\* The operations are told apart by their names and their participants.
LEMMA OperationsDiffer ==
  /\ Idle # Enabling /\ Idle # Disabling /\ Enabling # Disabling
  /\ \A p \in Participants :
       /\ Creating(p) \notin {Idle, Enabling, Disabling}
       /\ Removing(p) \notin {Idle, Enabling, Disabling}
       /\ Waiting(p) \notin {Idle, Enabling, Disabling}
  /\ \A p, q \in Participants :
       /\ Creating(p) # Removing(q) /\ Creating(p) # Waiting(q) /\ Removing(p) # Waiting(q)
       /\ Creating(p) = Creating(q) => p = q
       /\ Removing(p) = Removing(q) => p = q
       /\ Waiting(p) = Waiting(q) => p = q
  BY DEF Idle, Enabling, Disabling, Creating, Removing, Waiting

\* A route names participants only.
LEMMA RouteType == \A r \in Participants : Route(r) \subseteq Participants
  BY RoutesAssumption DEF Route

\* The constructor's state has its type.
LEMMA TypeInit == Init => TypeOK
  <1> SUFFICES ASSUME Init PROVE TypeOK
    OBVIOUS
  <1>1. live \subseteq Participants
    BY RouteType DEF Init
  <1>2. writers \in [Participants -> [Participants -> 0..MaxWriters]]
    BY WritersAssumption DEF Init, NoWriter
  <1>3. /\ made \in [Participants -> 0..MaxWriters]
        /\ writerOn \in [Participants -> [1..MaxWriters -> BOOLEAN]]
        /\ toSend \in [Participants -> SUBSET Participants]
    BY WritersAssumption DEF Init
  <1>4. /\ tracks \subseteq Participants
        /\ trackOn \in [Participants -> BOOLEAN]
        /\ \A r \in Participants : ~trackOn[r]
        /\ enabled \in BOOLEAN /\ todo \subseteq Participants /\ op = Idle
    BY DEF Init
  <1> QED
    BY <1>1, <1>2, <1>3, <1>4 DEF TypeOK

\* Every step keeps it; enable only switches on tracks that exist.
LEMMA TypeStep ==
  TypeOK /\ EnableVisitsTracks /\ [Next]_vars
  => TypeOK'
  <1> SUFFICES ASSUME TypeOK, EnableVisitsTracks, [Next]_vars PROVE TypeOK'
    OBVIOUS
  <1> USE DEF TypeOK
  <1>1. ASSUME NEW r \in Participants, Take(r) PROVE TypeOK'
    BY <1>1 DEF Take, Holders
  <1>2. ASSUME NEW r \in Participants, Send(r) PROVE TypeOK'
    BY SMTT(30), <1>2 DEF Send
  <1>3. ASSUME NEW p \in Participants, CreateCall(p) PROVE TypeOK'
    BY <1>3, WritersAssumption DEF CreateCall
  <1>4. ASSUME NEW p \in Participants, NEW r \in Participants, KeepWriter(p, r)
       PROVE  TypeOK'
    BY <1>4 DEF KeepWriter
  <1>5. ASSUME NEW p \in Participants, NEW r \in Participants, AddToTrack(p, r)
       PROVE  TypeOK'
    BY <1>5 DEF AddToTrack, EnabledOnAdd
  <1>6. ASSUME NEW p \in Participants, NEW r \in Participants, NewTrack(p, r) PROVE TypeOK'
    BY <1>6 DEF NewTrack
  <1>7. ASSUME NEW p \in Participants, RemoveCall(p) PROVE TypeOK'
    BY <1>7 DEF RemoveCall
  <1>8. ASSUME NEW p \in Participants, NEW r \in Participants, RemoveFromTrack(p, r)
       PROVE  TypeOK'
    <2> DEFINE gone == {x \in {r} : EmptyWithout(r, p)}
    <2>1. /\ tracks' = tracks \ gone
          /\ trackOn' = [x \in Participants |-> trackOn[x] /\ x \notin gone]
      BY <1>8 DEF RemoveFromTrack, Destroyed
    <2>2. writers' = [writers EXCEPT ![r] = [writers[r] EXCEPT ![p] = 0]]
      BY <1>8 DEF RemoveFromTrack, NoWriter
    <2>3. /\ tracks' \subseteq Participants /\ trackOn' \in [Participants -> BOOLEAN]
          /\ \A x \in Participants : trackOn'[x] => x \in tracks'
      <3> HIDE DEF gone
      <3> QED
        BY <2>1
    <2>4. writers' \in [Participants -> [Participants -> 0..MaxWriters]]
      BY <2>2, WritersAssumption
    <2> QED
      BY <1>8, <2>3, <2>4 DEF RemoveFromTrack
  <1>9. CASE EnableCall
    BY <1>9 DEF EnableCall
  <1>10. ASSUME NEW r \in Participants, EnableTrack(r) PROVE TypeOK'
    <2>1. writerOn' \in [Participants -> [1..MaxWriters -> BOOLEAN]]
      BY <1>10 DEF EnableTrack, Switched
    <2>2. r \in tracks
      BY <1>10 DEF EnableTrack, EnableVisitsTracks
    <2> QED
      BY <1>10, <2>1, <2>2 DEF EnableTrack
  <1>11. CASE DisableCall
    BY <1>11 DEF DisableCall
  <1>12. ASSUME NEW r \in Participants, DisableTrack(r) PROVE TypeOK'
    BY <1>12 DEF DisableTrack
  <1>13. ASSUME NEW r \in Participants, DisableWriters(r) PROVE TypeOK'
    BY <1>13 DEF DisableWriters, Switched
  <1>14. CASE Return
    BY <1>14 DEF Return
  <1>15. CASE UNCHANGED vars
    BY <1>15 DEF vars
  <1> QED
    BY <1>1, <1>2, <1>3, <1>4, <1>5, <1>6, <1>7, <1>8, <1>9, <1>10, <1>11, <1>12, <1>13,
       <1>14, <1>15 DEF Next, Calls, Visit

\* What create_writer does to a track that has no writer of the participant,
\* be it an old track or a new one.
WriterGiven(p, r) ==
  /\ op = Creating(p) /\ r \in todo /\ p \in Route(r) /\ p \in live
  /\ writers[r][p] = NoWriter /\ made[p] # NoWriter
  /\ \A x, q \in Participants :
       writers'[x][q] = IF x = r /\ q = p THEN made[p] ELSE writers[x][q]
  /\ tracks' = tracks \cup {r} /\ todo' = todo \ {r}
  /\ made' = made /\ op' = op /\ live' = live /\ toSend' = toSend

\* Adding a writer to a track, or making the track, gives it that writer.
LEMMA GiveWriter ==
  ASSUME TypeOK, TracksHaveWriters, CreationIsUniform
  PROVE  \A p, r \in Participants : AddToTrack(p, r) \/ NewTrack(p, r) => WriterGiven(p, r)
  <1> SUFFICES ASSUME NEW p \in Participants, NEW r \in Participants,
                      AddToTrack(p, r) \/ NewTrack(p, r)
               PROVE  WriterGiven(p, r)
    OBVIOUS
  <1>1. /\ op = Creating(p) /\ r \in todo
        /\ writers' = [writers EXCEPT ![r] = [writers[r] EXCEPT ![p] = made[p]]]
        /\ todo' = todo \ {r}
        /\ made' = made /\ op' = op /\ live' = live /\ toSend' = toSend
    BY DEF AddToTrack, NewTrack
  <1>2. writers[r][p] = NoWriter
    BY DEF AddToTrack, NewTrack, HasWriter, TracksHaveWriters, Holders
  <1>3. p \in Route(r) /\ p \in live /\ made[p] # NoWriter
    BY <1>1 DEF CreationIsUniform, NoWriter
  <1>4. tracks' = tracks \cup {r}
    BY DEF AddToTrack, NewTrack
  <1>5. /\ \A x, q \in Participants :
             writers'[x][q] = IF x = r /\ q = p THEN made[p] ELSE writers[x][q]
    BY <1>1 DEF TypeOK
  <1> QED
    BY <1>1, <1>2, <1>3, <1>4, <1>5 DEF WriterGiven

\* What remove_writer does to a track.
WriterTaken(p, r) ==
  /\ op = Removing(p) /\ r \in todo
  /\ \A x, q \in Participants :
       writers'[x][q] = IF x = r /\ q = p THEN NoWriter ELSE writers[x][q]
  /\ Holders(r) \subseteq {p} => tracks' = tracks \ {r}
  /\ ~(Holders(r) \subseteq {p}) => tracks' = tracks
  /\ todo' = todo \ {r} /\ toSend[r] = {}
  /\ made' = made /\ op' = op /\ live' = live /\ toSend' = toSend

\* Removing a writer from a track takes that writer only, and the track with the last.
LEMMA TakeWriter ==
  ASSUME TypeOK
  PROVE  \A p, r \in Participants : RemoveFromTrack(p, r) => WriterTaken(p, r)
  <1> SUFFICES ASSUME NEW p \in Participants, NEW r \in Participants, RemoveFromTrack(p, r)
               PROVE  WriterTaken(p, r)
    OBVIOUS
  <1>1. /\ op = Removing(p) /\ r \in todo
        /\ writers' = [writers EXCEPT ![r] = [writers[r] EXCEPT ![p] = NoWriter]]
        /\ todo' = todo \ {r} /\ toSend[r] = {}
        /\ made' = made /\ op' = op /\ live' = live /\ toSend' = toSend
    BY DEF RemoveFromTrack, TransmissionFree
  <1>2. tracks' = tracks \ {x \in {r} : EmptyWithout(r, p)}
    BY DEF RemoveFromTrack
  <1>3. Holders(r) \subseteq {p} => tracks' = tracks \ {r}
    BY <1>2 DEF EmptyWithout
  <1>4. ~(Holders(r) \subseteq {p}) => tracks' = tracks
    BY <1>2 DEF EmptyWithout
  <1>5. /\ \A x, q \in Participants :
             writers'[x][q] = IF x = r /\ q = p THEN NoWriter ELSE writers[x][q]
    BY <1>1 DEF TypeOK
  <1> QED
    BY <1>1, <1>3, <1>4, <1>5 DEF WriterTaken

\* Each step leaves every track with the writers its route asks for.
LEMMA WritersFollowStep ==
  TypeOK /\ WritersFollow /\ TracksHaveWriters /\ CreationIsUniform /\
  RemovalVisitsTracks /\ [Next]_vars
  => WritersFollow'
  <1> SUFFICES ASSUME TypeOK, WritersFollow, TracksHaveWriters, CreationIsUniform,
                      RemovalVisitsTracks,
                      [Next]_vars
               PROVE  WritersFollow'
    OBVIOUS
  <1>a. \A p, r \in Participants : AddToTrack(p, r) \/ NewTrack(p, r) => WriterGiven(p, r)
    BY GiveWriter
  <1>b. \A p, r \in Participants : RemoveFromTrack(p, r) => WriterTaken(p, r)
    BY TakeWriter
  <1> USE OperationsDiffer DEF TypeOK, WritersFollow, HasWriter
  <1>1. ASSUME NEW r \in Participants, Take(r) PROVE WritersFollow'
    BY <1>1 DEF Take
  <1>2. ASSUME NEW r \in Participants, Send(r) PROVE WritersFollow'
    BY <1>2 DEF Send
  <1>3. ASSUME NEW p \in Participants, CreateCall(p) PROVE WritersFollow'
    BY <1>3 DEF CreateCall
  <1>4. ASSUME NEW p \in Participants, NEW r \in Participants, KeepWriter(p, r)
       PROVE  WritersFollow'
    BY <1>4 DEF KeepWriter, CreationIsUniform
  <1>5. ASSUME NEW p \in Participants, NEW r \in Participants, AddToTrack(p, r)
       PROVE  WritersFollow'
    <2>1. WriterGiven(p, r)
      BY <1>5, <1>a
    <2> QED
      BY SMTT(30), <2>1 DEF WriterGiven
  <1>6. ASSUME NEW p \in Participants, NEW r \in Participants, NewTrack(p, r)
       PROVE  WritersFollow'
    <2>1. WriterGiven(p, r)
      BY <1>6, <1>a
    <2> QED
      BY SMTT(30), <2>1 DEF WriterGiven
  <1>7. ASSUME NEW p \in Participants, RemoveCall(p) PROVE WritersFollow'
    BY <1>7 DEF RemoveCall, TracksHaveWriters, Holders
  <1>8. ASSUME NEW p \in Participants, NEW r \in Participants, RemoveFromTrack(p, r)
       PROVE  WritersFollow'
    <2>1. WriterTaken(p, r)
      BY <1>8, <1>b
    <2> QED
      BY <2>1 DEF RemovalVisitsTracks, WriterTaken
  <1>9. CASE EnableCall
    BY <1>9 DEF EnableCall
  <1>10. ASSUME NEW r \in Participants, EnableTrack(r) PROVE WritersFollow'
    BY <1>10 DEF EnableTrack
  <1>11. CASE DisableCall
    BY <1>11 DEF DisableCall
  <1>12. ASSUME NEW r \in Participants, DisableTrack(r) PROVE WritersFollow'
    BY <1>12 DEF DisableTrack
  <1>13. ASSUME NEW r \in Participants, DisableWriters(r) PROVE WritersFollow'
    BY <1>13 DEF DisableWriters
  <1>14. CASE Return
    BY <1>14 DEF Return
  <1>15. CASE UNCHANGED vars
    BY <1>15 DEF vars
  <1> QED
    BY <1>1, <1>2, <1>3, <1>4, <1>5, <1>6, <1>7,
       <1>8, <1>9, <1>10, <1>11, <1>12, <1>13, <1>14, <1>15 DEF Next, Calls, Visit

\* A track is made with its first writer and destroyed with its last.
LEMMA TracksHaveWritersStep ==
  TypeOK /\ TracksHaveWriters /\ CreationIsUniform /\ RemovalVisitsTracks /\ [Next]_vars
  => TracksHaveWriters'
  <1> SUFFICES ASSUME TypeOK, TracksHaveWriters, CreationIsUniform, RemovalVisitsTracks,
                      [Next]_vars
               PROVE  TracksHaveWriters'
    OBVIOUS
  <1>a. \A p, r \in Participants : AddToTrack(p, r) \/ NewTrack(p, r) => WriterGiven(p, r)
    BY GiveWriter
  <1>b. \A p, r \in Participants : RemoveFromTrack(p, r) => WriterTaken(p, r)
    BY TakeWriter
  <1> USE OperationsDiffer DEF TypeOK, TracksHaveWriters, Holders
  <1>1. ASSUME NEW r \in Participants, Take(r) PROVE TracksHaveWriters'
    BY SMTT(30), <1>1 DEF Take
  <1>2. ASSUME NEW r \in Participants, Send(r) PROVE TracksHaveWriters'
    <2>1. UNCHANGED <<tracks, writers>>
      BY <1>2 DEF Send
    <2> QED
      BY <2>1
  <1>3. ASSUME NEW p \in Participants, CreateCall(p) PROVE TracksHaveWriters'
    BY <1>3 DEF CreateCall
  <1>4. ASSUME NEW p \in Participants, NEW r \in Participants, KeepWriter(p, r)
       PROVE  TracksHaveWriters'
    BY <1>4 DEF KeepWriter
  <1>5. ASSUME NEW p \in Participants, NEW r \in Participants, AddToTrack(p, r)
       PROVE  TracksHaveWriters'
    <2>1. WriterGiven(p, r)
      BY <1>5, <1>a
    <2>2. \A x \in Participants : x # r => Holders(x)' = Holders(x)
      BY <2>1 DEF WriterGiven
    <2>3. p \in Holders(r)'
      BY <2>1 DEF WriterGiven
    <2>4. tracks' = tracks \cup {r}
      BY <2>1 DEF WriterGiven
    <2> HIDE DEF Holders
    <2> QED
      BY <2>2, <2>3, <2>4
  <1>6. ASSUME NEW p \in Participants, NEW r \in Participants, NewTrack(p, r)
       PROVE  TracksHaveWriters'
    <2>1. WriterGiven(p, r)
      BY <1>6, <1>a
    <2>2. \A x \in Participants : x # r => Holders(x)' = Holders(x)
      BY <2>1 DEF WriterGiven
    <2>3. p \in Holders(r)'
      BY <2>1 DEF WriterGiven
    <2>4. tracks' = tracks \cup {r}
      BY <2>1 DEF WriterGiven
    <2> HIDE DEF Holders
    <2> QED
      BY <2>2, <2>3, <2>4
  <1>7. ASSUME NEW p \in Participants, RemoveCall(p) PROVE TracksHaveWriters'
    BY <1>7 DEF RemoveCall
  <1>8. ASSUME NEW p \in Participants, NEW r \in Participants, RemoveFromTrack(p, r)
       PROVE  TracksHaveWriters'
    <2>0. WriterTaken(p, r)
      BY <1>8, <1>b
    <2>1. \A x, q \in Participants :
            writers'[x][q] = IF x = r /\ q = p THEN NoWriter ELSE writers[x][q]
      BY <2>0, Zenon DEF WriterTaken
    <2>2. ASSUME NEW x \in Participants, x # r PROVE Holders(x)' = Holders(x)
      <3>1. \A q \in Participants : writers'[x][q] = writers[x][q]
        BY <2>1, <2>2
      <3> QED
        BY <3>1
    <2>3. Holders(r)' = Holders(r) \ {p}
      BY <2>1
    <2>4. r \in tracks
      BY <2>0 DEF RemovalVisitsTracks, WriterTaken
    <2> HIDE DEF Holders
    <2>5. CASE Holders(r) \subseteq {p}
      BY <2>0, <2>2, <2>3, <2>4, <2>5 DEF WriterTaken
    <2>6. CASE ~(Holders(r) \subseteq {p})
      BY <2>0, <2>2, <2>3, <2>4, <2>6 DEF WriterTaken
    <2> QED
      BY <2>5, <2>6
  <1>9. CASE EnableCall
    BY <1>9 DEF EnableCall
  <1>10. ASSUME NEW r \in Participants, EnableTrack(r) PROVE TracksHaveWriters'
    BY <1>10 DEF EnableTrack
  <1>11. CASE DisableCall
    BY <1>11 DEF DisableCall
  <1>12. ASSUME NEW r \in Participants, DisableTrack(r) PROVE TracksHaveWriters'
    BY <1>12 DEF DisableTrack
  <1>13. ASSUME NEW r \in Participants, DisableWriters(r) PROVE TracksHaveWriters'
    BY <1>13 DEF DisableWriters
  <1>14. CASE Return
    BY <1>14 DEF Return
  <1>15. CASE UNCHANGED vars
    BY <1>15 DEF vars
  <1> QED
    BY <1>1, <1>2, <1>3, <1>4, <1>5, <1>6, <1>7,
       <1>8, <1>9, <1>10, <1>11, <1>12, <1>13, <1>14, <1>15 DEF Next, Calls, Visit

\* create_writer treats all its tracks alike.
LEMMA CreationIsUniformStep ==
  TypeOK /\ WritersFollow /\ CreationIsUniform /\ [Next]_vars
  => CreationIsUniform'
  <1> SUFFICES ASSUME TypeOK, WritersFollow, CreationIsUniform,
                      [Next]_vars
               PROVE  CreationIsUniform'
    OBVIOUS
  <1> USE OperationsDiffer DEF TypeOK, CreationIsUniform, AllHold, VisitedHoldNew, HasWriter
  <1>1. ASSUME NEW r \in Participants, Take(r) PROVE CreationIsUniform'
    BY <1>1 DEF Take
  <1>2. ASSUME NEW r \in Participants, Send(r) PROVE CreationIsUniform'
    BY <1>2 DEF Send
  <1>3. ASSUME NEW p \in Participants, CreateCall(p) PROVE CreationIsUniform'
    <2>1. /\ op = Idle /\ op' = Creating(p) /\ p \in live'
          /\ todo' = {x \in Participants : p \in Route(x)} /\ UNCHANGED writers
          /\ made'[p] # 0
      BY <1>3 DEF CreateCall
    <2>2. \A x \in Participants : HasWriter(x, p) <=> p \in Route(x) \cap live
      BY <2>1 DEF WritersFollow
    <2>3. AllHold(p)' \/ VisitedHoldNew(p)'
      <3>1. CASE p \in live
        BY <2>1, <2>2, <3>1
      <3>2. CASE p \notin live
        BY <2>1, <2>2, <3>2
      <3> QED
        BY <3>1, <3>2
    <2> QED
      BY <2>1, <2>3
  <1>4. ASSUME NEW p \in Participants, NEW r \in Participants, KeepWriter(p, r)
       PROVE  CreationIsUniform'
    BY <1>4 DEF KeepWriter
  <1>5. ASSUME NEW p \in Participants, NEW r \in Participants, AddToTrack(p, r)
       PROVE  CreationIsUniform'
    BY <1>5 DEF AddToTrack, NoWriter
  <1>6. ASSUME NEW p \in Participants, NEW r \in Participants, NewTrack(p, r)
       PROVE  CreationIsUniform'
    BY <1>6 DEF NewTrack, NoWriter
  <1>7. ASSUME NEW p \in Participants, RemoveCall(p) PROVE CreationIsUniform'
    BY <1>7 DEF RemoveCall
  <1>8. ASSUME NEW p \in Participants, NEW r \in Participants, RemoveFromTrack(p, r)
       PROVE  CreationIsUniform'
    BY <1>8 DEF RemoveFromTrack
  <1>9. CASE EnableCall
    BY <1>9 DEF EnableCall
  <1>10. ASSUME NEW r \in Participants, EnableTrack(r) PROVE CreationIsUniform'
    BY <1>10 DEF EnableTrack
  <1>11. CASE DisableCall
    BY <1>11 DEF DisableCall
  <1>12. ASSUME NEW r \in Participants, DisableTrack(r) PROVE CreationIsUniform'
    BY <1>12 DEF DisableTrack
  <1>13. ASSUME NEW r \in Participants, DisableWriters(r) PROVE CreationIsUniform'
    BY <1>13 DEF DisableWriters
  <1>14. CASE Return
    BY <1>14 DEF Return
  <1>15. CASE UNCHANGED vars
    BY <1>15 DEF vars
  <1> QED
    BY <1>1, <1>2, <1>3, <1>4, <1>5, <1>6, <1>7,
       <1>8, <1>9, <1>10, <1>11, <1>12, <1>13, <1>14, <1>15 DEF Next, Calls, Visit

\* enable only visits tracks that exist.
LEMMA EnableVisitsTracksStep ==
  TypeOK /\ EnableVisitsTracks /\ [Next]_vars
  => EnableVisitsTracks'
  <1> SUFFICES ASSUME TypeOK, EnableVisitsTracks, [Next]_vars PROVE EnableVisitsTracks'
    OBVIOUS
  <1> USE OperationsDiffer DEF TypeOK, EnableVisitsTracks
  <1>1. ASSUME NEW r \in Participants, Take(r) PROVE EnableVisitsTracks'
    BY <1>1 DEF Take
  <1>2. ASSUME NEW r \in Participants, Send(r) PROVE EnableVisitsTracks'
    BY <1>2 DEF Send
  <1>3. ASSUME NEW p \in Participants, CreateCall(p) PROVE EnableVisitsTracks'
    BY <1>3 DEF CreateCall
  <1>4. ASSUME NEW p \in Participants, NEW r \in Participants, KeepWriter(p, r)
       PROVE  EnableVisitsTracks'
    BY <1>4 DEF KeepWriter
  <1>5. ASSUME NEW p \in Participants, NEW r \in Participants, AddToTrack(p, r)
       PROVE  EnableVisitsTracks'
    BY <1>5 DEF AddToTrack
  <1>6. ASSUME NEW p \in Participants, NEW r \in Participants, NewTrack(p, r)
       PROVE  EnableVisitsTracks'
    BY <1>6 DEF NewTrack
  <1>7. ASSUME NEW p \in Participants, RemoveCall(p) PROVE EnableVisitsTracks'
    BY <1>7 DEF RemoveCall
  <1>8. ASSUME NEW p \in Participants, NEW r \in Participants, RemoveFromTrack(p, r)
       PROVE  EnableVisitsTracks'
    BY <1>8 DEF RemoveFromTrack
  <1>9. CASE EnableCall
    BY <1>9 DEF EnableCall
  <1>10. ASSUME NEW r \in Participants, EnableTrack(r) PROVE EnableVisitsTracks'
    BY <1>10 DEF EnableTrack
  <1>11. CASE DisableCall
    BY <1>11 DEF DisableCall
  <1>12. ASSUME NEW r \in Participants, DisableTrack(r) PROVE EnableVisitsTracks'
    BY <1>12 DEF DisableTrack
  <1>13. ASSUME NEW r \in Participants, DisableWriters(r) PROVE EnableVisitsTracks'
    BY <1>13 DEF DisableWriters
  <1>14. CASE Return
    BY <1>14 DEF Return
  <1>15. CASE UNCHANGED vars
    BY <1>15 DEF vars
  <1> QED
    BY <1>1, <1>2, <1>3, <1>4, <1>5, <1>6, <1>7,
       <1>8, <1>9, <1>10, <1>11, <1>12, <1>13, <1>14, <1>15 DEF Next, Calls, Visit

\* remove_writer only visits tracks, and nobody gives the participant a writer meanwhile.
LEMMA RemovalVisitsTracksStep ==
  TypeOK /\ RemovalVisitsTracks /\ [Next]_vars
  => RemovalVisitsTracks'
  <1> SUFFICES ASSUME TypeOK, RemovalVisitsTracks,
                      [Next]_vars
               PROVE  RemovalVisitsTracks'
    OBVIOUS
  <1> USE OperationsDiffer DEF TypeOK, RemovalVisitsTracks
  <1>1. ASSUME NEW r \in Participants, Take(r) PROVE RemovalVisitsTracks'
    BY <1>1 DEF Take
  <1>2. ASSUME NEW r \in Participants, Send(r) PROVE RemovalVisitsTracks'
    BY <1>2 DEF Send
  <1>3. ASSUME NEW p \in Participants, CreateCall(p) PROVE RemovalVisitsTracks'
    BY <1>3 DEF CreateCall
  <1>4. ASSUME NEW p \in Participants, NEW r \in Participants, KeepWriter(p, r)
       PROVE  RemovalVisitsTracks'
    BY <1>4 DEF KeepWriter
  <1>5. ASSUME NEW p \in Participants, NEW r \in Participants, AddToTrack(p, r)
       PROVE  RemovalVisitsTracks'
    BY <1>5 DEF AddToTrack
  <1>6. ASSUME NEW p \in Participants, NEW r \in Participants, NewTrack(p, r)
       PROVE  RemovalVisitsTracks'
    BY <1>6 DEF NewTrack
  <1>7. ASSUME NEW p \in Participants, RemoveCall(p) PROVE RemovalVisitsTracks'
    BY <1>7 DEF RemoveCall
  <1>8. ASSUME NEW p \in Participants, NEW r \in Participants, RemoveFromTrack(p, r)
       PROVE  RemovalVisitsTracks'
    BY <1>8 DEF RemoveFromTrack
  <1>9. CASE EnableCall
    BY <1>9 DEF EnableCall
  <1>10. ASSUME NEW r \in Participants, EnableTrack(r) PROVE RemovalVisitsTracks'
    BY <1>10 DEF EnableTrack
  <1>11. CASE DisableCall
    BY <1>11 DEF DisableCall
  <1>12. ASSUME NEW r \in Participants, DisableTrack(r) PROVE RemovalVisitsTracks'
    BY <1>12 DEF DisableTrack
  <1>13. ASSUME NEW r \in Participants, DisableWriters(r) PROVE RemovalVisitsTracks'
    BY <1>13 DEF DisableWriters
  <1>14. CASE Return
    BY <1>14 DEF Return
  <1>15. CASE UNCHANGED vars
    BY <1>15 DEF vars
  <1> QED
    BY <1>1, <1>2, <1>3, <1>4, <1>5, <1>6, <1>7,
       <1>8, <1>9, <1>10, <1>11, <1>12, <1>13, <1>14, <1>15 DEF Next, Calls, Visit

\* No step gives a track a writer that differs from the one in another track.
LEMMA WritersAgreeStep ==
  TypeOK /\ WritersFollow /\ TracksHaveWriters /\ CreationIsUniform /\
  WritersAgree /\ [Next]_vars
  => WritersAgree'
  <1> SUFFICES ASSUME TypeOK, WritersFollow, TracksHaveWriters, CreationIsUniform,
                      WritersAgree,
                      [Next]_vars
               PROVE  WritersAgree'
    OBVIOUS
  <1>a. \A p, r \in Participants : AddToTrack(p, r) \/ NewTrack(p, r) => WriterGiven(p, r)
    BY GiveWriter
  <1>b. \A p, r \in Participants : RemoveFromTrack(p, r) => WriterTaken(p, r)
    BY TakeWriter
  <1> USE DEF WritersAgree, HasWriter
  <1>1. ASSUME NEW r \in Participants, Take(r) PROVE WritersAgree'
    BY <1>1 DEF Take
  <1>2. ASSUME NEW r \in Participants, Send(r) PROVE WritersAgree'
    BY <1>2 DEF Send
  <1>3. ASSUME NEW p \in Participants, CreateCall(p) PROVE WritersAgree'
    BY <1>3 DEF CreateCall
  <1>4. ASSUME NEW p \in Participants, NEW r \in Participants, KeepWriter(p, r)
       PROVE  WritersAgree'
    BY <1>4 DEF KeepWriter
  <1>5. ASSUME NEW p \in Participants, NEW r \in Participants, AddToTrack(p, r)
       PROVE  WritersAgree'
    <2>0. WriterGiven(p, r)
      BY <1>5, <1>a
    <2>1. VisitedHoldNew(p)
      BY <2>0 DEF CreationIsUniform, AllHold, WriterGiven
    <2>2. \A x \in Participants : HasWriter(x, p)' => writers'[x][p] = made[p]
      BY <2>0, <2>1 DEF VisitedHoldNew, WritersFollow, WriterGiven
    <2>3. \A x, q \in Participants : q # p => writers'[x][q] = writers[x][q]
      BY <2>0 DEF WriterGiven
    <2>4. SUFFICES ASSUME NEW x \in Participants, NEW y \in Participants,
                          NEW q \in Participants,
                          HasWriter(x, q)', HasWriter(y, q)'
                   PROVE  writers'[x][q] = writers'[y][q]
      OBVIOUS
    <2>5. CASE q = p
      BY <2>2, <2>4, <2>5
    <2>6. CASE q # p
      BY <2>3, <2>4, <2>6
    <2> QED
      BY <2>5, <2>6
  <1>6. ASSUME NEW p \in Participants, NEW r \in Participants, NewTrack(p, r)
       PROVE  WritersAgree'
    <2>0. WriterGiven(p, r)
      BY <1>6, <1>a
    <2>1. VisitedHoldNew(p)
      BY <2>0 DEF CreationIsUniform, AllHold, WriterGiven
    <2>2. \A x \in Participants : HasWriter(x, p)' => writers'[x][p] = made[p]
      BY <2>0, <2>1 DEF VisitedHoldNew, WritersFollow, WriterGiven
    <2>3. \A x, q \in Participants : q # p => writers'[x][q] = writers[x][q]
      BY <2>0 DEF WriterGiven
    <2>4. SUFFICES ASSUME NEW x \in Participants, NEW y \in Participants,
                          NEW q \in Participants,
                          HasWriter(x, q)', HasWriter(y, q)'
                   PROVE  writers'[x][q] = writers'[y][q]
      OBVIOUS
    <2>5. CASE q = p
      BY <2>2, <2>4, <2>5
    <2>6. CASE q # p
      BY <2>3, <2>4, <2>6
    <2> QED
      BY <2>5, <2>6
  <1>7. ASSUME NEW p \in Participants, RemoveCall(p) PROVE WritersAgree'
    BY <1>7 DEF RemoveCall
  <1>8. ASSUME NEW p \in Participants, NEW r \in Participants, RemoveFromTrack(p, r)
       PROVE  WritersAgree'
    <2>1. WriterTaken(p, r)
      BY <1>8, <1>b
    <2>2. \A x, q \in Participants :
            HasWriter(x, q)' => HasWriter(x, q) /\ writers'[x][q] = writers[x][q]
      BY <2>1 DEF WriterTaken
    <2>4. SUFFICES ASSUME NEW x \in Participants, NEW y \in Participants,
                          NEW q \in Participants,
                          HasWriter(x, q)', HasWriter(y, q)'
                   PROVE  writers'[x][q] = writers'[y][q]
      OBVIOUS
    <2> QED
      BY <2>2, <2>4
  <1>9. CASE EnableCall
    BY <1>9 DEF EnableCall
  <1>10. ASSUME NEW r \in Participants, EnableTrack(r) PROVE WritersAgree'
    BY <1>10 DEF EnableTrack
  <1>11. CASE DisableCall
    BY <1>11 DEF DisableCall
  <1>12. ASSUME NEW r \in Participants, DisableTrack(r) PROVE WritersAgree'
    BY <1>12 DEF DisableTrack
  <1>13. ASSUME NEW r \in Participants, DisableWriters(r) PROVE WritersAgree'
    BY <1>13 DEF DisableWriters
  <1>14. CASE Return
    BY <1>14 DEF Return
  <1>15. CASE UNCHANGED vars
    BY <1>15 DEF vars
  <1> QED
    BY <1>1, <1>2, <1>3, <1>4, <1>5, <1>6, <1>7,
       <1>8, <1>9, <1>10, <1>11, <1>12, <1>13, <1>14, <1>15 DEF Next, Calls, Visit

\* Tracks are switched by the bridge alone.
LEMMA SwitchedByBridgeStep ==
  TypeOK /\ SwitchedByBridge /\ [Next]_vars
  => SwitchedByBridge'
  <1> SUFFICES ASSUME TypeOK, SwitchedByBridge, [Next]_vars PROVE SwitchedByBridge'
    OBVIOUS
  <1> USE OperationsDiffer DEF TypeOK, SwitchedByBridge
  <1>1. ASSUME NEW r \in Participants, Take(r) PROVE SwitchedByBridge'
    BY <1>1 DEF Take
  <1>2. ASSUME NEW r \in Participants, Send(r) PROVE SwitchedByBridge'
    BY <1>2 DEF Send
  <1>3. ASSUME NEW p \in Participants, CreateCall(p) PROVE SwitchedByBridge'
    BY <1>3 DEF CreateCall
  <1>4. ASSUME NEW p \in Participants, NEW r \in Participants, KeepWriter(p, r)
       PROVE  SwitchedByBridge'
    BY <1>4 DEF KeepWriter
  <1>5. ASSUME NEW p \in Participants, NEW r \in Participants, AddToTrack(p, r)
       PROVE  SwitchedByBridge'
    BY <1>5 DEF AddToTrack
  <1>6. ASSUME NEW p \in Participants, NEW r \in Participants, NewTrack(p, r)
       PROVE  SwitchedByBridge'
    BY <1>6 DEF NewTrack
  <1>7. ASSUME NEW p \in Participants, RemoveCall(p) PROVE SwitchedByBridge'
    BY <1>7 DEF RemoveCall
  <1>8. ASSUME NEW p \in Participants, NEW r \in Participants, RemoveFromTrack(p, r)
       PROVE  SwitchedByBridge'
    BY <1>8 DEF RemoveFromTrack, Destroyed
  <1>9. CASE EnableCall
    BY <1>9 DEF EnableCall
  <1>10. ASSUME NEW r \in Participants, EnableTrack(r) PROVE SwitchedByBridge'
    BY <1>10 DEF EnableTrack
  <1>11. CASE DisableCall
    BY <1>11 DEF DisableCall
  <1>12. ASSUME NEW r \in Participants, DisableTrack(r) PROVE SwitchedByBridge'
    BY <1>12 DEF DisableTrack
  <1>13. ASSUME NEW r \in Participants, DisableWriters(r) PROVE SwitchedByBridge'
    BY <1>13 DEF DisableWriters
  <1>14. CASE Return
    BY <1>14 DEF Return
  <1>15. CASE UNCHANGED vars
    BY <1>15 DEF vars
  <1> QED
    BY <1>1, <1>2, <1>3, <1>4, <1>5, <1>6, <1>7,
       <1>8, <1>9, <1>10, <1>11, <1>12, <1>13, <1>14, <1>15 DEF Next, Calls, Visit

\* A track that is switched off has nothing in hand, or disable waits for it.
LEMMA SendingIsOnStep ==
  TypeOK /\ SwitchedByBridge /\ SendingIsOn /\ [Next]_vars
  => SendingIsOn'
  <1> SUFFICES ASSUME TypeOK, SwitchedByBridge, SendingIsOn,
                      [Next]_vars
               PROVE  SendingIsOn'
    OBVIOUS
  <1> USE OperationsDiffer DEF TypeOK, SendingIsOn, SwitchedByBridge
  <1>1. ASSUME NEW r \in Participants, Take(r) PROVE SendingIsOn'
    BY <1>1 DEF Take
  <1>2. ASSUME NEW r \in Participants, Send(r) PROVE SendingIsOn'
    BY SMTT(30), <1>2 DEF Send
  <1>3. ASSUME NEW p \in Participants, CreateCall(p) PROVE SendingIsOn'
    BY <1>3 DEF CreateCall
  <1>4. ASSUME NEW p \in Participants, NEW r \in Participants, KeepWriter(p, r)
       PROVE  SendingIsOn'
    BY <1>4 DEF KeepWriter
  <1>5. ASSUME NEW p \in Participants, NEW r \in Participants, AddToTrack(p, r)
       PROVE  SendingIsOn'
    BY <1>5 DEF AddToTrack
  <1>6. ASSUME NEW p \in Participants, NEW r \in Participants, NewTrack(p, r)
       PROVE  SendingIsOn'
    BY <1>6 DEF NewTrack
  <1>7. ASSUME NEW p \in Participants, RemoveCall(p) PROVE SendingIsOn'
    BY <1>7 DEF RemoveCall
  <1>8. ASSUME NEW p \in Participants, NEW r \in Participants, RemoveFromTrack(p, r)
       PROVE  SendingIsOn'
    BY <1>8 DEF RemoveFromTrack, Destroyed, TransmissionFree
  <1>9. CASE EnableCall
    BY <1>9 DEF EnableCall
  <1>10. ASSUME NEW r \in Participants, EnableTrack(r) PROVE SendingIsOn'
    BY <1>10 DEF EnableTrack
  <1>11. CASE DisableCall
    BY <1>11 DEF DisableCall
  <1>12. ASSUME NEW r \in Participants, DisableTrack(r) PROVE SendingIsOn'
    BY <1>12 DEF DisableTrack
  <1>13. ASSUME NEW r \in Participants, DisableWriters(r) PROVE SendingIsOn'
    BY <1>13 DEF DisableWriters, TransmissionFree
  <1>14. CASE Return
    BY <1>14 DEF Return
  <1>15. CASE UNCHANGED vars
    BY <1>15 DEF vars
  <1> QED
    BY <1>1, <1>2, <1>3, <1>4, <1>5, <1>6, <1>7,
       <1>8, <1>9, <1>10, <1>11, <1>12, <1>13, <1>14, <1>15 DEF Next, Calls, Visit

\* remove_writer waits for the transmission that may use the writer.
LEMMA SampleVisitsHeldWritersStep ==
  TypeOK /\ TracksHaveWriters /\ CreationIsUniform /\ SampleVisitsHeldWriters /\ [Next]_vars
  => SampleVisitsHeldWriters'
  <1> SUFFICES ASSUME TypeOK, TracksHaveWriters, CreationIsUniform, SampleVisitsHeldWriters,
                      [Next]_vars
               PROVE  SampleVisitsHeldWriters'
    OBVIOUS
  <1>a. \A p, r \in Participants : AddToTrack(p, r) \/ NewTrack(p, r) => WriterGiven(p, r)
    BY GiveWriter
  <1>b. \A p, r \in Participants : RemoveFromTrack(p, r) => WriterTaken(p, r)
    BY TakeWriter
  <1> USE OperationsDiffer DEF TypeOK, SampleVisitsHeldWriters, Holders
  <1>1. ASSUME NEW r \in Participants, Take(r) PROVE SampleVisitsHeldWriters'
    BY <1>1 DEF Take
  <1>2. ASSUME NEW r \in Participants, Send(r) PROVE SampleVisitsHeldWriters'
    <2>1. /\ UNCHANGED writers
          /\ \A x \in Participants : toSend'[x] \subseteq toSend[x]
      BY <1>2 DEF Send
    <2> QED
      BY <2>1
  <1>3. ASSUME NEW p \in Participants, CreateCall(p) PROVE SampleVisitsHeldWriters'
    BY <1>3 DEF CreateCall
  <1>4. ASSUME NEW p \in Participants, NEW r \in Participants, KeepWriter(p, r)
       PROVE  SampleVisitsHeldWriters'
    BY <1>4 DEF KeepWriter
  <1>5. ASSUME NEW p \in Participants, NEW r \in Participants, AddToTrack(p, r)
       PROVE  SampleVisitsHeldWriters'
    <2>1. WriterGiven(p, r)
      BY <1>5, <1>a
    <2>2. \A x, q \in Participants : writers[x][q] # NoWriter => writers'[x][q] # NoWriter
      BY <2>1 DEF WriterGiven
    <2>3. \A x \in Participants : Holders(x) \subseteq Holders(x)'
      BY <2>2
    <2>4. toSend' = toSend
      BY <2>1 DEF WriterGiven
    <2> QED
      BY <2>3, <2>4
  <1>6. ASSUME NEW p \in Participants, NEW r \in Participants, NewTrack(p, r)
       PROVE  SampleVisitsHeldWriters'
    <2>1. WriterGiven(p, r)
      BY <1>6, <1>a
    <2> QED
      BY <2>1 DEF WriterGiven
  <1>7. ASSUME NEW p \in Participants, RemoveCall(p) PROVE SampleVisitsHeldWriters'
    BY <1>7 DEF RemoveCall
  <1>8. ASSUME NEW p \in Participants, NEW r \in Participants, RemoveFromTrack(p, r)
       PROVE  SampleVisitsHeldWriters'
    <2>1. WriterTaken(p, r)
      BY <1>8, <1>b
    <2> QED
      BY <2>1 DEF WriterTaken
  <1>9. CASE EnableCall
    BY <1>9 DEF EnableCall
  <1>10. ASSUME NEW r \in Participants, EnableTrack(r) PROVE SampleVisitsHeldWriters'
    BY <1>10 DEF EnableTrack
  <1>11. CASE DisableCall
    BY <1>11 DEF DisableCall
  <1>12. ASSUME NEW r \in Participants, DisableTrack(r) PROVE SampleVisitsHeldWriters'
    BY <1>12 DEF DisableTrack
  <1>13. ASSUME NEW r \in Participants, DisableWriters(r) PROVE SampleVisitsHeldWriters'
    BY <1>13 DEF DisableWriters
  <1>14. CASE Return
    BY <1>14 DEF Return
  <1>15. CASE UNCHANGED vars
    BY <1>15 DEF vars
  <1> QED
    BY <1>1, <1>2, <1>3, <1>4, <1>5, <1>6, <1>7,
       <1>8, <1>9, <1>10, <1>11, <1>12, <1>13, <1>14, <1>15 DEF Next, Calls, Visit

\* The bridge as its constructor leaves it.
LEMMA IInvInit == Init => IInv
  <1> SUFFICES ASSUME Init PROVE IInv
    OBVIOUS
  <1> USE OperationsDiffer DEF Init
  <1>1. TypeOK
    BY TypeInit
  <1>2. WritersFollow
    BY DEF WritersFollow, HasWriter, NoWriter
  <1>3. TracksHaveWriters
    <2>1. \A r \in Participants : Holders(r) = Route(r) \cap live
      BY RouteType DEF Holders, NoWriter
    <2> QED
      BY <2>1 DEF TracksHaveWriters
  <1>4. CreationIsUniform /\ RemovalVisitsTracks /\ EnableVisitsTracks
    BY DEF CreationIsUniform, RemovalVisitsTracks, EnableVisitsTracks
  <1>5. WritersAgree
    BY DEF WritersAgree, HasWriter, NoWriter
  <1>6. SwitchedByBridge /\ SendingIsOn
    BY DEF SwitchedByBridge, SendingIsOn
  <1>7. SampleVisitsHeldWriters
    BY DEF SampleVisitsHeldWriters
  <1> QED
    BY <1>1, <1>2, <1>3, <1>4, <1>5, <1>6, <1>7 DEF IInv

\* Every step preserves the inductive invariant.
LEMMA IInvStep ==
  IInv /\ [Next]_vars
  => IInv'
  BY TypeStep, WritersFollowStep, TracksHaveWritersStep, CreationIsUniformStep,
     EnableVisitsTracksStep, RemovalVisitsTracksStep, WritersAgreeStep,
     SwitchedByBridgeStep, SendingIsOnStep, SampleVisitsHeldWritersStep DEF IInv

\* The inductive invariant of the bridge, for any participants, routes and
\* repeaters, and any number of writers created.
THEOREM Invariant == Spec => []IInv
  BY IInvInit, IInvStep, PTL DEF Spec

\* The bridge's state has its type, and only tracks that exist are enabled.
THEOREM TypeCorrect == Spec => []TypeOK
  <1>1. IInv => TypeOK
    BY DEF IInv
  <1> QED
    BY Invariant, <1>1, PTL

\* Between two operations of the bridge each reader forwards to the participants
\* on its route that have a writer (create_writer, remove_writer).
THEOREM RoutesFollowed == Spec => []TracksFollowRoutes
  <1>1. IInv => TracksFollowRoutes
    BY OperationsDiffer, RouteType
       DEF IInv, TypeOK, WritersFollow, TracksHaveWriters, TracksFollowRoutes, HasWriter,
           Holders
  <1> QED
    BY Invariant, <1>1, PTL

\* The tracks of a topic never write to a participant with different writers,
\* not even while create_writer is going through them.
THEOREM OneWriter == Spec => []OneWriterPerParticipant
  <1>1. IInv => OneWriterPerParticipant
    BY DEF IInv, TypeOK, WritersAgree, OneWriterPerParticipant, HasWriter, Holders
  <1> QED
    BY Invariant, <1>1, PTL

\* When DdsBridge::disable has returned no track has a sample in hand.
THEOREM DisabledBridgeIsQuiet == Spec => []QuietWhenDisabled
  <1>1. IInv => QuietWhenDisabled
    BY OperationsDiffer DEF IInv, SwitchedByBridge, SendingIsOn, QuietWhenDisabled
  <1> QED
    BY Invariant, <1>1, PTL

\* remove_writer never takes a writer away under a transmission.
THEOREM WritersOutliveSamples == Spec => []SampleVisitsHeldWriters
  <1>1. IInv => SampleVisitsHeldWriters
    BY DEF IInv
  <1> QED
    BY Invariant, <1>1, PTL

-----------------------------------------------------------------------------
(***************************************************************************)
(* EnabledTogether.  SwitchInv says of an enable or disable which way it   *)
(* is switching, and that a track it has visited is switched with all the  *)
(* writers it holds; and of create_writer that the writer it made is not   *)
(* on before the tracks are.                                               *)
(***************************************************************************)

Switching == op \in {Enabling, Disabling} \cup {Waiting(r) : r \in Participants}

\* enabled_ is set when the loop over the tracks is done.
SwitchesOver ==
  /\ op = Enabling => ~enabled
  /\ op = Disabling \/ (\E x \in Participants : op = Waiting(x)) => enabled

\* What the tracks are to be.
Target == IF Switching THEN ~enabled ELSE enabled
Settled(r, flag) ==
  /\ trackOn[r] = flag
  /\ \A p \in Participants : writers[r][p] # NoWriter => writerOn[p][writers[r][p]] = flag
TracksSettled == \A r \in tracks : (Switching /\ r \in todo) \/ Settled(r, Target)

\* Only writers that were made are held or on, and the one create_writer made is off
\* in a bridge that is.
WritersAreMade ==
  \A p \in Participants :
    /\ \A r \in Participants : writers[r][p] <= made[p]
    /\ \A k \in 1..MaxWriters : k > made[p] => ~writerOn[p][k]
    /\ op = Creating(p) /\ made[p] \in 1..MaxWriters => (writerOn[p][made[p]] => enabled)

SwitchInv == IInv /\ SwitchesOver /\ TracksSettled /\ WritersAreMade

\* enable and disable are told from the operations on writers.
LEMMA SwitchingOrNot ==
  /\ Enabling \in {Enabling, Disabling} \cup {Waiting(r) : r \in Participants}
  /\ Switching <=> op = Enabling \/ op = Disabling \/ \E x \in Participants : op = Waiting(x)
  /\ op = Idle => ~Switching
  /\ \A p \in Participants : op \in {Creating(p), Removing(p)} => ~Switching
  BY OperationsDiffer DEF Switching

\* The bridge as its constructor leaves it: all is off.
LEMMA SwitchInit == Init => SwitchInv
  <1> SUFFICES ASSUME Init PROVE SwitchInv
    OBVIOUS
  <1>1. IInv
    BY IInvInit
  <1>2. SwitchesOver
    BY OperationsDiffer DEF Init, SwitchesOver
  <1>3. ~Switching /\ enabled = FALSE
    BY SwitchingOrNot DEF Init
  <1>4. TracksSettled
    <2> SUFFICES ASSUME NEW r \in tracks PROVE Settled(r, FALSE)
      BY <1>3 DEF TracksSettled, Target
    <2>1. r \in Participants
      BY DEF Init
    <2>2. \A p \in Participants : writers[r][p] # NoWriter => writers[r][p] = 1
      BY <2>1 DEF Init
    <2> QED
      BY <2>1, <2>2, WritersAssumption DEF Init, Settled
  <1>5. WritersAreMade
    <2> SUFFICES ASSUME NEW p \in Participants
                 PROVE  /\ \A r \in Participants : writers[r][p] <= made[p]
                        /\ \A k \in 1..MaxWriters : ~writerOn[p][k]
      BY OperationsDiffer DEF Init, WritersAreMade
    <2> QED
      BY WritersAssumption DEF Init, NoWriter
  <1> QED
    BY <1>1, <1>2, <1>4, <1>5 DEF SwitchInv

\* An operation starts enabling an enabled bridge, or disabling a disabled one, never.
LEMMA SwitchesOverStep == TypeOK /\ SwitchesOver /\ [Next]_vars => SwitchesOver'
  <1> SUFFICES ASSUME TypeOK, SwitchesOver, [Next]_vars PROVE SwitchesOver'
    OBVIOUS
  <1> USE OperationsDiffer DEF SwitchesOver
  <1>1. CASE UNCHANGED <<enabled, op>>
    BY <1>1
  <1>2. ASSUME NEW p \in Participants, CreateCall(p) \/ RemoveCall(p) PROVE SwitchesOver'
    BY <1>2 DEF CreateCall, RemoveCall
  <1>3. CASE EnableCall \/ DisableCall
    BY <1>3 DEF EnableCall, DisableCall
  <1>4. ASSUME NEW r \in Participants, DisableTrack(r) \/ DisableWriters(r)
        PROVE  SwitchesOver'
    BY <1>4 DEF DisableTrack, DisableWriters
  <1>5. CASE Return
    BY <1>5 DEF Return
  <1> QED
    BY <1>1, <1>2, <1>3, <1>4, <1>5
    DEF Next, Calls, Visit, vars, Take, Send, KeepWriter, AddToTrack, NewTrack,
        RemoveFromTrack, EnableTrack

\* A writer is numbered when it is made, and switched on when a track holds it.
LEMMA WritersAreMadeStep == SwitchInv /\ [Next]_vars => WritersAreMade'
  <1> SUFFICES ASSUME SwitchInv, [Next]_vars PROVE WritersAreMade'
    OBVIOUS
  <1>t. /\ writers \in [Participants -> [Participants -> 0..MaxWriters]]
        /\ made \in [Participants -> 0..MaxWriters] /\ enabled \in BOOLEAN
        /\ writerOn \in [Participants -> [1..MaxWriters -> BOOLEAN]]
        /\ trackOn \in [Participants -> BOOLEAN]
        /\ MaxWriters \in Nat
    BY WritersAssumption DEF SwitchInv, IInv, TypeOK
  <1>m. \A p \in Participants :
          /\ \A r \in Participants : writers[r][p] <= made[p]
          /\ \A k \in 1..MaxWriters : k > made[p] => ~writerOn[p][k]
          /\ op = Creating(p) /\ made[p] \in 1..MaxWriters => (writerOn[p][made[p]] => enabled)
    BY DEF SwitchInv, WritersAreMade
  <1> USE <1>t DEF WritersAreMade
  <1>1. CASE UNCHANGED <<enabled, writers, made, writerOn, op>>
    BY <1>1, <1>m
  <1>2. ASSUME NEW p \in Participants, CreateCall(p) PROVE WritersAreMade'
    <2>1. /\ made[p] < MaxWriters /\ made' = [made EXCEPT ![p] = made[p] + 1]
          /\ op' = Creating(p) /\ UNCHANGED <<enabled, writers, writerOn>>
      BY <1>2 DEF CreateCall
    <2>2. ~writerOn[p][made[p] + 1]
      BY <2>1, <1>m
    <2> QED
      BY <2>1, <2>2, <1>m, OperationsDiffer
  <1>3. ASSUME NEW p \in Participants, RemoveCall(p) PROVE WritersAreMade'
    BY <1>3, <1>m, OperationsDiffer DEF RemoveCall
  <1>4. CASE EnableCall \/ DisableCall \/ Return
    BY <1>4, <1>m, OperationsDiffer DEF EnableCall, DisableCall, Return
  <1>5. ASSUME NEW r \in Participants, DisableTrack(r) PROVE WritersAreMade'
    BY <1>5, <1>m, OperationsDiffer DEF DisableTrack
  <1>6. ASSUME NEW r \in Participants, NEW flag \in BOOLEAN,
               EnableTrack(r) \/ DisableWriters(r), writerOn' = Switched(r, flag)
        PROVE  WritersAreMade'
    <2>1. /\ UNCHANGED <<enabled, writers, made>>
          /\ \A p \in Participants : op' # Creating(p)
      BY <1>6, OperationsDiffer DEF EnableTrack, DisableWriters
    <2>2. ASSUME NEW p \in Participants, NEW k \in 1..MaxWriters, k > made[p]
          PROVE  ~writerOn'[p][k]
      <3>1. k # writers[r][p]
        BY <2>2, <1>m
      <3>2. writerOn'[p][k] = IF k = writers[r][p] THEN flag ELSE writerOn[p][k]
        BY <1>6 DEF Switched
      <3> QED
        BY <2>2, <3>1, <3>2, <1>m
    <2> QED
      BY <2>1, <2>2, <1>m
  <1>7. ASSUME NEW p \in Participants, NEW r \in Participants, AddToTrack(p, r) \/ NewTrack(p, r)
        PROVE  WritersAreMade'
    <2>1. /\ op = Creating(p) /\ made[p] \in 1..MaxWriters
          /\ UNCHANGED <<enabled, made, op>>
          /\ writers' = [writers EXCEPT ![r] = [writers[r] EXCEPT ![p] = made[p]]]
      BY <1>7 DEF AddToTrack, NewTrack, SwitchInv, IInv, CreationIsUniform
    <2>2. trackOn[r] => enabled
      BY <2>1, OperationsDiffer DEF SwitchInv, IInv, SwitchedByBridge
    <2>3. PICK on \in BOOLEAN :
            /\ writerOn' = [writerOn EXCEPT ![p][made[p]] = @ \/ on]
            /\ on => enabled
      BY <1>7, <2>2 DEF NewTrack, AddToTrack, EnabledOnAdd
    <2>4. ASSUME NEW q \in Participants, NEW k \in 1..MaxWriters, ~(q = p /\ k = made[p])
          PROVE  writerOn'[q][k] = writerOn[q][k]
      BY <2>1, <2>3, <2>4
    <2>5. writerOn'[p][made[p]] => enabled
      BY <2>1, <2>3, <1>m
    <2>6. \A x, q \in Participants : writers'[x][q] = writers[x][q] \/ writers'[x][q] = made[q]
      BY <2>1
    <2>7. ASSUME NEW q \in Participants
          PROVE  /\ \A x \in Participants : writers'[x][q] <= made'[q]
                 /\ \A k \in 1..MaxWriters : k > made'[q] => ~writerOn'[q][k]
      <3>1. \A x \in Participants : writers'[x][q] <= made'[q]
        BY <2>1, <2>6, <1>m
      <3>2. ASSUME NEW k \in 1..MaxWriters, k > made'[q] PROVE ~writerOn'[q][k]
        <4>1. k > made[q] /\ made[q] \in Nat
          BY <2>1, <3>2
        <4>2. writerOn'[q][k] = writerOn[q][k]
          BY <4>1, <2>4
        <4> QED
          BY <4>1, <4>2, <1>m
      <3> QED
        BY <3>1, <3>2
    <2>8. \A q \in Participants : op' = Creating(q) => q = p
      BY <2>1, OperationsDiffer
    <2> QED
      BY <2>1, <2>5, <2>7, <2>8
  <1>8. ASSUME NEW p \in Participants, NEW r \in Participants, RemoveFromTrack(p, r)
        PROVE  WritersAreMade'
    <2>1. \A x, q \in Participants : writers'[x][q] = writers[x][q] \/ writers'[x][q] = 0
      BY <1>8 DEF RemoveFromTrack, NoWriter
    <2>2. UNCHANGED <<enabled, made, writerOn, op>>
      BY <1>8 DEF RemoveFromTrack
    <2>3. \A x, q \in Participants : writers'[x][q] <= made[q]
      <3>1. \A q \in Participants : 0 <= made[q]
        OBVIOUS
      <3> QED
        BY <2>1, <3>1, <1>m
    <2> QED
      BY <2>2, <2>3, <1>m
  <1> QED
    BY <1>1, <1>2, <1>3, <1>4, <1>5, <1>6, <1>7, <1>8
    DEF Next, Calls, Visit, vars, Take, Send, KeepWriter, EnableTrack, DisableWriters

\* One track is switched with its writers: those that were switched before stay so, for
\* the writers they share with it are switched the same way.
LEMMA SwitchOneTrack ==
  ASSUME SwitchInv, NEW r \in Participants, NEW flag \in BOOLEAN,
         UNCHANGED <<enabled, tracks, writers>>, flag = ~enabled,
         Switching, Switching', todo' = todo \ {r},
         trackOn' = [trackOn EXCEPT ![r] = flag], writerOn' = Switched(r, flag)
  PROVE  TracksSettled'
  <1>t. /\ writers \in [Participants -> [Participants -> 0..MaxWriters]]
        /\ trackOn \in [Participants -> BOOLEAN] /\ tracks \subseteq Participants
    BY DEF SwitchInv, IInv, TypeOK
  <1>1. ASSUME NEW p \in Participants, NEW k \in 1..MaxWriters
        PROVE  writerOn'[p][k] = IF k = writers[r][p] THEN flag ELSE writerOn[p][k]
    BY DEF Switched
  <1>2. ASSUME NEW x \in tracks, x \notin todo' PROVE Settled(x, flag)'
    <2>1. x = r \/ Settled(x, flag)
      BY <1>2 DEF SwitchInv, TracksSettled, Target
    <2>2. trackOn'[x] = flag
      BY <2>1, <1>t DEF Settled
    <2>3. ASSUME NEW p \in Participants, writers[x][p] # NoWriter
          PROVE  writerOn'[p][writers[x][p]] = flag
      <3>1. writers[x][p] \in 1..MaxWriters
        BY <2>3, <1>t, WritersAssumption DEF NoWriter
      <3>2. writers[x][p] = writers[r][p] \/ writerOn[p][writers[x][p]] = flag
        BY <2>1, <2>3 DEF Settled
      <3> QED
        BY <3>1, <3>2, <1>1
    <2> QED
      BY <2>2, <2>3 DEF Settled
  <1> QED
    BY <1>2 DEF TracksSettled, Target

\* A track gets a writer of a participant, and the flag of that writer is raised to
\* what the bridge is at: the tracks are all as the bridge is.
LEMMA AddSettled ==
  ASSUME SwitchInv, NEW p \in Participants, NEW r \in Participants,
         op = Creating(p), UNCHANGED <<enabled, op, made>>,
         made[p] \in 1..MaxWriters,
         writers' = [writers EXCEPT ![r][p] = made[p]],
         writerOn' = [writerOn EXCEPT ![p][made[p]] = @ \/ enabled],
         r \in tracks \/ Holders(r) = {},
         tracks' = tracks \cup {r},
         trackOn' = [trackOn EXCEPT ![r] = enabled]
  PROVE  TracksSettled'
  <1>t. /\ writers \in [Participants -> [Participants -> 0..MaxWriters]]
        /\ trackOn \in [Participants -> BOOLEAN] /\ tracks \subseteq Participants
        /\ enabled \in BOOLEAN /\ writerOn \in [Participants -> [1..MaxWriters -> BOOLEAN]]
    BY DEF SwitchInv, IInv, TypeOK
  <1>1. ~Switching /\ ~Switching'
    BY SwitchingOrNot DEF Switching
  <1>2. writerOn[p][made[p]] => enabled
    BY DEF SwitchInv, WritersAreMade
  <1>3. writerOn'[p][made[p]] = enabled
    BY <1>2, <1>t
  <1>4. ASSUME NEW q \in Participants, NEW k \in 1..MaxWriters, writerOn[q][k] = enabled
        PROVE  writerOn'[q][k] = enabled
    BY <1>3, <1>4, <1>t
  <1>5. ASSUME NEW x \in tracks' PROVE Settled(x, enabled)'
    <2>1. trackOn'[x] = enabled
      BY <1>1, <1>t DEF SwitchInv, TracksSettled, Target, Settled
    <2>2. ASSUME NEW q \in Participants, writers'[x][q] # NoWriter
          PROVE  writerOn'[q][writers'[x][q]] = enabled
      <3>1. CASE x = r /\ q = p
        BY <3>1, <1>3, <1>t
      <3>2. CASE ~(x = r /\ q = p)
        <4>1. writers'[x][q] = writers[x][q] /\ x \in Participants
          BY <3>2, <1>t
        <4>2. x \in tracks
          BY <2>2, <4>1 DEF Holders
        <4>3. writerOn[q][writers[x][q]] = enabled
          BY <1>1, <4>1, <4>2, <2>2 DEF SwitchInv, TracksSettled, Target, Settled
        <4>4. writers[x][q] \in 1..MaxWriters
          BY SMTT(30), <4>1, <2>2, <1>t, WritersAssumption DEF NoWriter
        <4> QED
          BY <4>1, <4>3, <4>4, <1>4
      <3> QED
        BY <3>1, <3>2
    <2> QED
      BY <2>1, <2>2 DEF Settled
  <1> QED
    BY <1>1, <1>5 DEF TracksSettled, Target

\* The tracks an enable or disable has visited, and all of them between two operations,
\* are switched with their writers.
LEMMA TracksSettledStep == SwitchInv /\ [Next]_vars => TracksSettled'
  <1> SUFFICES ASSUME SwitchInv, [Next]_vars PROVE TracksSettled'
    OBVIOUS
  <1>t. TypeOK /\ SwitchesOver /\ TracksSettled
    BY DEF SwitchInv, IInv
  <1>1. CASE UNCHANGED <<enabled, tracks, trackOn, writers, writerOn, op, todo>>
    BY <1>1, <1>t DEF TracksSettled, Settled, Target, Switching
  <1>2. ASSUME NEW p \in Participants,
               CreateCall(p) \/ RemoveCall(p) \/ \E r \in Participants : KeepWriter(p, r)
        PROVE  TracksSettled'
    <2>1. ~Switching /\ ~Switching'
      BY <1>2, OperationsDiffer DEF CreateCall, RemoveCall, KeepWriter, Switching
    <2>2. UNCHANGED <<enabled, tracks, trackOn, writers, writerOn>>
      BY <1>2 DEF CreateCall, RemoveCall, KeepWriter
    <2> QED
      BY <2>1, <2>2, <1>t DEF TracksSettled, Settled, Target
  <1>3. CASE EnableCall \/ DisableCall
    BY <1>3 DEF EnableCall, DisableCall, TracksSettled, Switching
  <1>4. ASSUME NEW r \in Participants, EnableTrack(r) PROVE TracksSettled'
    <2>1. Switching /\ Switching' /\ ~enabled
      BY <1>4, <1>t DEF EnableTrack, Switching, SwitchesOver
    <2> QED
      BY <1>4, <2>1, <1>t, SwitchOneTrack DEF EnableTrack, TypeOK
  <1>5. ASSUME NEW r \in Participants, DisableTrack(r) PROVE TracksSettled'
    <2>1. Switching /\ Switching' /\ r \in todo
      BY <1>5 DEF DisableTrack, Switching
    <2>2. /\ UNCHANGED <<enabled, tracks, writers, writerOn, todo>>
          /\ \A x \in Participants \ {r} : trackOn'[x] = trackOn[x]
      BY <1>5, <1>t DEF DisableTrack, TypeOK
    <2> QED
      BY <2>1, <2>2, <1>t DEF TracksSettled, Settled, Target, TypeOK
  <1>6. ASSUME NEW r \in Participants, DisableWriters(r) PROVE TracksSettled'
    <2>1. Switching /\ Switching' /\ enabled
      BY <1>6, <1>t DEF DisableWriters, Switching, SwitchesOver
    <2>2. ~trackOn[r]
      BY <1>6 DEF DisableWriters, SwitchInv, IInv, SwitchedByBridge
    <2>3. trackOn' = [trackOn EXCEPT ![r] = FALSE]
      BY <1>6, <2>2, <1>t DEF DisableWriters, TypeOK
    <2> QED
      BY <1>6, <2>1, <2>3, <1>t, SwitchOneTrack DEF DisableWriters, TypeOK
  <1>7. CASE Return
    <2>1. todo = {} /\ ~Switching' /\ UNCHANGED <<tracks, trackOn, writers, writerOn>>
      BY <1>7, OperationsDiffer DEF Return, Switching
    <2>2. enabled' = Target
      <3>1. CASE op = Enabling
        BY <1>7, <3>1, <1>t DEF Return, Target, Switching, SwitchesOver
      <3>2. CASE op = Disabling
        BY <1>7, <3>2, <1>t, OperationsDiffer DEF Return, Target, Switching, SwitchesOver
      <3>3. CASE op # Enabling /\ op # Disabling
        <4>1. \A x \in Participants : op # Waiting(x)
          BY <1>7 DEF Return, SwitchInv, IInv, SwitchedByBridge
        <4>2. ~Switching
          BY <3>3, <4>1 DEF Switching
        <4> QED
          BY <1>7, <3>3, <4>2 DEF Return, Target
      <3> QED
        BY <3>1, <3>2, <3>3
    <2> QED
      BY <2>1, <2>2, <1>t DEF TracksSettled, Settled, Target
  <1>8. ASSUME NEW p \in Participants, NEW r \in Participants, AddToTrack(p, r) \/ NewTrack(p, r)
        PROVE  TracksSettled'
    <2>1. /\ op = Creating(p) /\ made[p] \in 1..MaxWriters /\ ~Switching
      BY <1>8, <1>t, WritersAssumption, SwitchingOrNot
      DEF AddToTrack, NewTrack, SwitchInv, IInv, CreationIsUniform, TypeOK
    <2>2. CASE AddToTrack(p, r)
      <3>1. trackOn[r] = enabled /\ r \in tracks
        BY <2>1, <2>2, <1>t DEF AddToTrack, TracksSettled, Settled, Target
      <3>2. trackOn' = [trackOn EXCEPT ![r] = enabled]
        BY <2>2, <3>1, <1>t DEF AddToTrack, TypeOK
      <3>3. tracks' = tracks \cup {r}
        BY <2>2, <3>1 DEF AddToTrack
      <3>4. /\ UNCHANGED <<enabled, op, made>>
            /\ writers' = [writers EXCEPT ![r][p] = made[p]]
            /\ writerOn' = [writerOn EXCEPT ![p][made[p]] = @ \/ enabled]
        BY <2>2, <3>1 DEF AddToTrack, EnabledOnAdd
      <3> QED
        BY <2>1, <3>1, <3>2, <3>3, <3>4, AddSettled
    <2>3. CASE NewTrack(p, r)
      <3>1. Holders(r) = {}
        BY <2>3 DEF NewTrack, SwitchInv, IInv, TracksHaveWriters
      <3>2. /\ UNCHANGED <<enabled, op, made>> /\ tracks' = tracks \cup {r}
            /\ trackOn' = [trackOn EXCEPT ![r] = enabled]
            /\ writers' = [writers EXCEPT ![r][p] = made[p]]
            /\ writerOn' = [writerOn EXCEPT ![p][made[p]] = @ \/ enabled]
        BY <2>3 DEF NewTrack
      <3> QED
        BY <2>1, <3>1, <3>2, AddSettled
    <2> QED
      BY <1>8, <2>2, <2>3
  <1>9. ASSUME NEW p \in Participants, NEW r \in Participants, RemoveFromTrack(p, r)
        PROVE  TracksSettled'
    <2>1. ~Switching /\ ~Switching' /\ UNCHANGED <<enabled, writerOn>>
      BY <1>9, SwitchingOrNot DEF RemoveFromTrack, Switching
    <2>2. /\ tracks' \subseteq tracks
          /\ \A x \in tracks' : trackOn'[x] = trackOn[x]
      BY <1>9, <1>t DEF RemoveFromTrack, Destroyed, TypeOK
    <2>3. \A x, q \in Participants : writers'[x][q] = writers[x][q] \/ writers'[x][q] = NoWriter
      BY <1>9, <1>t DEF RemoveFromTrack, TypeOK
    <2>4. ASSUME NEW x \in tracks' PROVE Settled(x, enabled)'
      <3>1. x \in Participants /\ Settled(x, enabled)
        BY <2>1, <2>2, <1>t DEF TracksSettled, Target, TypeOK
      <3> QED
        BY <3>1, <2>1, <2>2, <2>3 DEF Settled
    <2> QED
      BY <2>1, <2>4 DEF TracksSettled, Target
  <1> QED
    BY <1>1, <1>2, <1>3, <1>4, <1>5, <1>6, <1>7, <1>8, <1>9
    DEF Next, Calls, Visit, vars, Take, Send

LEMMA SwitchStep == SwitchInv /\ [Next]_vars => SwitchInv'
  BY IInvStep, SwitchesOverStep, WritersAreMadeStep, TracksSettledStep DEF SwitchInv, IInv

\* Between two operations every track of the topic, and every writer of a track, is enabled
\* exactly when the bridge is: a writer created late, or shared by many tracks, too.
THEOREM TracksSwitchedTogether == Spec => []EnabledTogether
  <1>1. SwitchInv => EnabledTogether
    <2> SUFFICES ASSUME SwitchInv, op = Idle, NEW r \in tracks
                 PROVE  /\ trackOn[r] = enabled
                        /\ \A p \in Holders(r) : writerOn[p][writers[r][p]] = enabled
      BY DEF EnabledTogether
    <2>1. Settled(r, enabled)
      BY SwitchingOrNot DEF SwitchInv, TracksSettled, Target
    <2> QED
      BY <2>1 DEF Settled, Holders
  <1> QED
    BY SwitchInit, SwitchStep, <1>1, PTL DEF Spec
=============================================================================
