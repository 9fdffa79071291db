------------------------------ MODULE DdsBridge ------------------------------
(***************************************************************************)
(* DdsBridge: the tracks of one topic, one for each participant that       *)
(* reads it, and the writers they share: the writer of a participant is    *)
(* ONE object that sits in the tracks of all the readers routed to it.     *)
(*                                                                         *)
(* The operations of the bridge run under its mutex_ and visit the tracks  *)
(* one after the other; the tracks go on transmitting meanwhile, each      *)
(* under its own on_transmission_mutex_.  A track is seen here by its      *)
(* enabled_ flag, its writers_ and the sample it is sending; module Track  *)
(* shows how the locks inside it make these steps atomic.                  *)
(***************************************************************************)
EXTENDS Integers, FiniteSets

CONSTANTS
  Participants,
  Repeaters,     \* participants whose is_repeater() holds
  Routed,        \* participants with an entry in routes_
  RouteOf,       \* [Routed -> SUBSET Participants]: that entry
  MaxWriters     \* bound: writers created in the same participant

ASSUME RoutesAssumption ==
  /\ IsFiniteSet(Participants) /\ Participants # {}
  /\ Repeaters \subseteq Participants /\ Routed \subseteq Participants
  /\ RouteOf \in [Routed -> SUBSET Participants]
ASSUME WritersAssumption == MaxWriters \in Nat \ {0}

VARIABLES
  enabled,     \* DdsBridge::enabled_
  tracks,      \* keys of tracks_
  trackOn,     \* Track::enabled_
  writers,     \* writers[r][p]: which writer of p is in writers_ of track r, or none
  made,        \* how many writers p has created
  writerOn,    \* writerOn[p][k]: BaseWriter::enabled_ of the k-th of them
  toSend,      \* destinations the sample in hand of track r still has to visit
  op,          \* the operation that holds mutex_, and its argument
  todo,        \* tracks it still has to visit
  live         \* history: participants given a writer and not taken it away

vars == <<enabled, tracks, trackOn, writers, made, writerOn, toSend, op, todo, live>>

NoWriter == 0
Idle == <<"idle">>
Creating(p) == <<"create", p>>
Removing(p) == <<"remove", p>>
Enabling == <<"enable">>
Disabling == <<"disable">>
Waiting(r) == <<"wait", r>>   \* in Track::disable of r, for the transmission mutex

\* The writers the track of reader r may have.
Route(r) ==
  IF r \in Routed THEN RouteOf[r]
  ELSE IF r \in Repeaters THEN Participants ELSE Participants \ {r}

Holders(r) == {p \in Participants : writers[r][p] # NoWriter}

\* Track::has_writer.  Mutant: it finds nothing.
HasWriterMutant(r, p) == FALSE
HasWriter(r, p) == writers[r][p] # NoWriter

\* The lock of the track's on_transmission_mutex_.  Mutant: it is missing.
TransmissionFreeMutant(r) == TRUE
TransmissionFree(r) == toSend[r] = {}

\* The enabled_ flags after the writers that track r holds are set to `flag`.
Switched(r, flag) ==
  [p \in Participants |->
    [k \in 1..MaxWriters |-> IF k = writers[r][p] THEN flag ELSE writerOn[p][k]]]

\* The constructor: create_all_tracks_, or with remove_unused_entities the
\* writer of the topic's discoverer.
Init ==
  /\ enabled = FALSE
  /\ live \in {UNION {Route(r) : r \in Participants}} \cup {{p} : p \in Participants}
  /\ tracks = {r \in Participants : Route(r) \cap live # {}}
  /\ trackOn = [r \in Participants |-> FALSE]
  /\ writers = [r \in Participants |->
       [p \in Participants |-> IF p \in Route(r) \cap live THEN 1 ELSE NoWriter]]
  /\ made = [p \in Participants |-> IF p \in live THEN 1 ELSE 0]
  /\ writerOn = [p \in Participants |-> [k \in 1..MaxWriters |-> FALSE]]
  /\ toSend = [r \in Participants |-> {}]
  /\ op = Idle /\ todo = {}

-----------------------------------------------------------------------------
\* Track::transmit_ of the track of r: one sample to every writer.

Take(r) ==
  /\ r \in tracks /\ trackOn[r] /\ toSend[r] = {}
  /\ toSend' = [toSend EXCEPT ![r] = Holders(r)]
  /\ UNCHANGED <<enabled, tracks, trackOn, writers, made, writerOn, op, todo, live>>

Send(r) ==
  /\ \E p \in toSend[r] : toSend' = [toSend EXCEPT ![r] = @ \ {p}]
  /\ UNCHANGED <<enabled, tracks, trackOn, writers, made, writerOn, op, todo, live>>

-----------------------------------------------------------------------------
\* create_writer and add_writers_to_tracks_nts_.

CreateCall(p) ==
  /\ op = Idle /\ made[p] < MaxWriters
  /\ made' = [made EXCEPT ![p] = @ + 1]
  /\ op' = Creating(p)
  /\ todo' = {r \in Participants : p \in Route(r)}
  /\ live' = live \cup {p}
  /\ UNCHANGED <<enabled, tracks, trackOn, writers, writerOn, toSend>>

\* The track has a writer of that participant: the new one is dropped.
KeepWriter(p, r) ==
  /\ op = Creating(p) /\ r \in todo /\ r \in tracks /\ HasWriter(r, p)
  /\ todo' = todo \ {r}
  /\ UNCHANGED <<enabled, tracks, trackOn, writers, made, writerOn, toSend, op, live>>

\* add_writer enables the writer it is given.  Mutant: it does not.
EnabledOnAddMutant(r) == FALSE
EnabledOnAdd(r) == trackOn[r]

\* Track::add_writer, under the track's transmission mutex.
AddToTrack(p, r) ==
  /\ op = Creating(p) /\ r \in todo /\ r \in tracks /\ ~HasWriter(r, p)
  /\ TransmissionFree(r)
  /\ writers' = [writers EXCEPT ![r][p] = made[p]]
  /\ writerOn' = [writerOn EXCEPT ![p][made[p]] = @ \/ EnabledOnAdd(r)]
  /\ todo' = todo \ {r}
  /\ UNCHANGED <<enabled, tracks, trackOn, made, toSend, op, live>>

\* A new track, enabled at once in an enabled bridge.
NewTrack(p, r) ==
  /\ op = Creating(p) /\ r \in todo /\ r \notin tracks
  /\ tracks' = tracks \cup {r}
  /\ writers' = [writers EXCEPT ![r][p] = made[p]]
  /\ trackOn' = [trackOn EXCEPT ![r] = enabled]
  /\ writerOn' = [writerOn EXCEPT ![p][made[p]] = @ \/ enabled]
  /\ todo' = todo \ {r}
  /\ UNCHANGED <<enabled, made, toSend, op, live>>

-----------------------------------------------------------------------------
\* remove_writer

RemoveCall(p) ==
  /\ op = Idle
  /\ op' = Removing(p)
  /\ todo' = tracks
  /\ live' = live \ {p}
  /\ UNCHANGED <<enabled, tracks, trackOn, writers, made, writerOn, toSend>>

\* ~has_writers().  Mutant: never.
EmptyWithoutMutant(r, p) == FALSE
EmptyWithout(r, p) == Holders(r) \subseteq {p}

\* ~Track disables it.  Mutant: it does not.
DestroyedMutant(gone) == trackOn
Destroyed(gone) == [x \in Participants |-> trackOn[x] /\ x \notin gone]

\* Track::remove_writer, and ~Track if no writer is left.
RemoveFromTrack(p, r) ==
  /\ op = Removing(p) /\ r \in todo /\ TransmissionFree(r)
  /\ writers' = [writers EXCEPT ![r][p] = NoWriter]
  /\ LET gone == {x \in {r} : EmptyWithout(r, p)}
     IN  /\ tracks' = tracks \ gone
         /\ trackOn' = Destroyed(gone)
  /\ todo' = todo \ {r}
  /\ UNCHANGED <<enabled, made, writerOn, toSend, op, live>>

-----------------------------------------------------------------------------
\* enable and disable

EnableCall ==
  /\ op = Idle /\ ~enabled
  /\ op' = Enabling /\ todo' = tracks
  /\ UNCHANGED <<enabled, tracks, trackOn, writers, made, writerOn, toSend, live>>

EnableTrack(r) ==
  /\ op = Enabling /\ r \in todo
  /\ trackOn' = [trackOn EXCEPT ![r] = TRUE]
  /\ writerOn' = Switched(r, TRUE)
  /\ todo' = todo \ {r}
  /\ UNCHANGED <<enabled, tracks, writers, made, toSend, op, live>>

DisableCall ==
  /\ op = Idle /\ enabled
  /\ op' = Disabling /\ todo' = tracks
  /\ UNCHANGED <<enabled, tracks, trackOn, writers, made, writerOn, toSend, live>>

\* Mutant: enabled_ is cleared after the wait, not before.
DisableTrackMutant(r) ==
  /\ op = Disabling /\ r \in todo
  /\ op' = Waiting(r)
  /\ UNCHANGED <<enabled, tracks, trackOn, writers, made, writerOn, toSend, todo, live>>

\* Track::disable clears enabled_, ...
DisableTrack(r) ==
  /\ op = Disabling /\ r \in todo
  /\ trackOn' = [trackOn EXCEPT ![r] = FALSE]
  /\ op' = Waiting(r)
  /\ UNCHANGED <<enabled, tracks, writers, made, writerOn, toSend, todo, live>>

\* ... waits for this track's transmission, and disables its writers.
DisableWriters(r) ==
  /\ op = Waiting(r) /\ TransmissionFree(r)
  /\ writerOn' = Switched(r, FALSE)
  /\ op' = Disabling
  /\ todo' = todo \ {r}
  /\ UNCHANGED <<enabled, tracks, trackOn, writers, made, toSend, live>>

\* The operation returns.
Return ==
  /\ op # Idle /\ todo = {}
  /\ enabled' = (IF op = Enabling THEN TRUE ELSE IF op = Disabling THEN FALSE ELSE enabled)
  /\ op' = Idle
  /\ UNCHANGED <<tracks, trackOn, writers, made, writerOn, toSend, todo, live>>

-----------------------------------------------------------------------------
Calls == \/ EnableCall \/ DisableCall
         \/ \E p \in Participants : CreateCall(p) \/ RemoveCall(p)

Visit == \E r \in Participants :
  \/ EnableTrack(r) \/ DisableTrack(r) \/ DisableWriters(r)
  \/ \E p \in Participants : \/ KeepWriter(p, r) \/ AddToTrack(p, r)
                             \/ NewTrack(p, r) \/ RemoveFromTrack(p, r)

Next == Calls \/ Visit \/ Return \/ \E r \in Participants : Take(r) \/ Send(r)

Spec == Init /\ [][Next]_vars

\* The thread that holds mutex_ runs, and a write returns.  Nothing is assumed
\* of Take: traffic may stop, or never stop.
FairSpec == /\ Spec /\ WF_vars(Visit \/ Return)
            /\ \A r \in Participants : WF_vars(Send(r))

-----------------------------------------------------------------------------
\* Everything has its type, and only a track that exists can be enabled.
TypeOK ==
  /\ enabled \in BOOLEAN
  /\ tracks \subseteq Participants
  /\ trackOn \in [Participants -> BOOLEAN]
  /\ \A r \in Participants : trackOn[r] => r \in tracks
  /\ writers \in [Participants -> [Participants -> 0..MaxWriters]]
  /\ made \in [Participants -> 0..MaxWriters]
  /\ writerOn \in [Participants -> [1..MaxWriters -> BOOLEAN]]
  /\ toSend \in [Participants -> SUBSET Participants]
  /\ op \in {Idle, Enabling, Disabling} \cup {Waiting(r) : r \in Participants}
            \cup {Creating(p) : p \in Participants} \cup {Removing(p) : p \in Participants}
  /\ todo \subseteq Participants
  /\ live \subseteq Participants

\* Whatever the sequence of create_writer and remove_writer, between two
\* operations the tracks are those the routes ask for: each reader forwards to
\* every participant on its route that has a writer, to no other, and has no
\* track when there is none.
TracksFollowRoutes ==
  op = Idle =>
    \A r \in Participants : /\ Holders(r) = Route(r) \cap live
                            /\ r \in tracks <=> Holders(r) # {}

\* All the tracks that forward to participant p use the same writer, also in
\* the middle of an operation: a remote reader is never served by two writers.
OneWriterPerParticipant ==
  \A r, s \in tracks : \A p \in Holders(r) \cap Holders(s) : writers[r][p] = writers[s][p]

\* Between two operations every track, and every writer of a track, is enabled
\* exactly when the bridge is, however late it was added.
EnabledTogether ==
  op = Idle => \A r \in tracks : /\ trackOn[r] = enabled
                                 /\ \A p \in Holders(r) : writerOn[p][writers[r][p]] = enabled

\* Once disable has returned nothing of this topic is in flight, in any track.
QuietWhenDisabled == (op = Idle /\ ~enabled) => \A r \in Participants : toSend[r] = {}

\* A sample in hand only visits writers the track still holds, which are not
\* destroyed: remove_writer never pulls one from under a transmission.
SampleVisitsHeldWriters == \A r \in Participants : toSend[r] \subseteq Holders(r)

-----------------------------------------------------------------------------
\* The inductive invariant behind the properties below, in named parts (module
\* DdsBridgeProofs).

\* A track has the writers its route and `live` ask for, unless the operation
\* has yet to visit it for that very participant.
WritersFollow ==
  \A r, p \in Participants :
    /\ HasWriter(r, p) => p \in Route(r)
    /\ (r \in todo /\ op \in {Creating(p), Removing(p)})
         \/ (HasWriter(r, p) <=> p \in Route(r) \cap live)

\* A track exists as long as it has a writer.
TracksHaveWriters == \A r \in Participants : r \in tracks <=> Holders(r) # {}

\* create_writer finds either that all the tracks it visits have a writer of the
\* participant, or that none has: then those it has visited have the new one.
AllHold(p) == \A r \in Participants : p \in Route(r) => HasWriter(r, p)
VisitedHoldNew(p) ==
  \A r \in Participants : p \in Route(r) =>
    writers[r][p] = IF r \in todo THEN NoWriter ELSE made[p]
CreationIsUniform ==
  \A p \in Participants : op = Creating(p) =>
    /\ p \in live /\ made[p] # 0
    /\ todo \subseteq {r \in Participants : p \in Route(r)}
    /\ AllHold(p) \/ VisitedHoldNew(p)

\* enable and remove_writer have only tracks to visit.
EnableVisitsTracks == op = Enabling => todo \subseteq tracks
RemovalVisitsTracks ==
  \A p \in Participants : op = Removing(p) => p \notin live /\ todo \subseteq tracks

\* Two tracks never hold different writers of a participant.
WritersAgree ==
  \A r, s, p \in Participants :
    HasWriter(r, p) /\ HasWriter(s, p) => writers[r][p] = writers[s][p]

\* A track is on only in a bridge that is, and disable has yet to visit it.
SwitchedByBridge ==
  \A r \in Participants :
    /\ trackOn[r] => enabled \/ op = Enabling
    /\ op = Disabling \/ (\E x \in Participants : op = Waiting(x)) => (trackOn[r] => r \in todo)
    /\ op = Waiting(r) => ~trackOn[r] /\ r \in todo

\* A track sends only while it is on, or disable is waiting for it.
SendingIsOn ==
  \A r \in Participants : trackOn[r] \/ toSend[r] = {} \/ op = Waiting(r)

IInv == /\ TypeOK /\ WritersFollow /\ TracksHaveWriters /\ CreationIsUniform
        /\ EnableVisitsTracks /\ RemovalVisitsTracks /\ WritersAgree /\ SwitchedByBridge
        /\ SendingIsOn /\ SampleVisitsHeldWriters

\* disable returns although traffic never ends: clearing enabled_ first leaves
\* each track only the sample it has in hand.
DisableReturns == (op = Disabling) ~> (op = Idle)
=============================================================================
