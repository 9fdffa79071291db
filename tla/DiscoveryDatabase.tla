-------------------------- MODULE DiscoveryDatabase --------------------------
(***************************************************************************)
(* The database of remote endpoints that all the participants of the proxy *)
(* share (ddspipe_core DiscoveryDatabase).  The discovery callbacks of the *)
(* participants only push an operation into a queue; one thread pops the   *)
(* operations, changes the dictionary under mutex_, leaves mutex_, and     *)
(* calls whoever registered, with callbacks_mutex_ held.                   *)
(*                                                                         *)
(* `callback` is the interface to the subscriber: it holds the event whose *)
(* callback has been called and has not returned.  DdsPipe extends this    *)
(* module and says what the callback does.                                 *)
(***************************************************************************)
EXTENDS Integers, Sequences, FiniteSets

CONSTANTS
  Guids,        \* remote endpoints
  NoCallback,   \* no callback is running
  MaxPending,   \* bound: operations waiting in the queue
  MaxAdds       \* bound: how many times one endpoint is announced as new

ASSUME DatabaseAssumption == MaxPending \in Nat /\ MaxAdds \in Nat

VARIABLES
  alive,       \* what the discovery of a participant last said of an endpoint
  adds,        \* how many times it was announced as new
  operations,  \* entities_to_process_
  entities,    \* entities_: the flag `active` of each known endpoint
  callback,    \* event handed to the subscribers
  running,     \* the queue processing thread exists
  exit         \* exit_

databaseVars == <<alive, adds, operations, entities, callback, running, exit>>

\* An operation: "add" or "update", the endpoint and its flag `active`.
Operation == [kind : {"add", "update"}, guid : Guids, active : BOOLEAN]
States == {"absent", "active", "inactive"}

ASSUME CallbackAssumption == NoCallback \notin Operation

\* Mutant: the flag of the update is not stored.
StateOfMutant(active) == "active"
StateOf(active) == IF active THEN "active" ELSE "inactive"

DatabaseInit ==
  /\ alive = [g \in Guids |-> FALSE]
  /\ adds = [g \in Guids |-> 0]
  /\ operations = <<>>
  /\ entities = [g \in Guids |-> "absent"]
  /\ callback = NoCallback
  /\ running = TRUE
  /\ exit = FALSE

-----------------------------------------------------------------------------
\* onReaderDiscovery and onWriterDiscovery of a participant, and push_item_to_queue_.

PushOperation(kind, g, active) ==
  /\ Len(operations) < MaxPending
  /\ operations' = Append(operations, [kind |-> kind, guid |-> g, active |-> active])

Discovered(g) ==
  /\ ~alive[g] /\ adds[g] < MaxAdds
  /\ alive' = [alive EXCEPT ![g] = TRUE]
  /\ adds' = [adds EXCEPT ![g] = @ + 1]
  /\ PushOperation("add", g, TRUE)
  /\ UNCHANGED <<entities, callback, running, exit>>

ChangedQos(g) ==
  /\ alive[g]
  /\ PushOperation("update", g, TRUE)
  /\ UNCHANGED <<alive, adds, entities, callback, running, exit>>

\* Removed, or dropped because its participant's lease expired.
Removed(g) ==
  /\ alive[g]
  /\ alive' = [alive EXCEPT ![g] = FALSE]
  /\ PushOperation("update", g, FALSE)
  /\ UNCHANGED <<adds, entities, callback, running, exit>>

-----------------------------------------------------------------------------
\* An operation the dictionary does not refuse.  Mutant: an endpoint that is
\* known, though inactive, cannot be added again.
AcceptedMutant(op) == (op.kind = "add") = (entities[op.guid] = "absent")
Accepted(op) == IF op.kind = "add" THEN entities[op.guid] # "active"
                ELSE entities[op.guid] # "absent"

\* The queue processing thread: add_endpoint_ and update_endpoint_, up to the
\* call of the subscribers.  An endpoint that is added while the dictionary
\* still holds it as inactive replaces that entry and nobody is called.
Process ==
  /\ running /\ callback = NoCallback /\ operations # <<>>
  /\ LET op == Head(operations)
         known == entities[op.guid]
         announced == (op.kind = "add") = (known = "absent")
     IN  /\ entities' = IF Accepted(op)
                          THEN [entities EXCEPT ![op.guid] = StateOf(op.active)]
                          ELSE entities
         /\ callback' = IF announced /\ ~exit THEN op ELSE NoCallback
  /\ operations' = Tail(operations)
  /\ UNCHANGED <<alive, adds, running, exit>>

\* stop: the callbacks are cleared first, which waits for one that is running.
StopCall ==
  /\ running /\ ~exit /\ callback = NoCallback
  /\ exit' = TRUE
  /\ UNCHANGED <<alive, adds, operations, entities, callback, running>>

\* The thread sees exit_ between two batches and ends; what is queued is lost.
StopJoin ==
  /\ running /\ exit
  /\ running' = FALSE
  /\ UNCHANGED <<alive, adds, operations, entities, callback, exit>>

Environment == \E g \in Guids : Discovered(g) \/ ChangedQos(g) \/ Removed(g)
Stop == StopCall \/ StopJoin

-----------------------------------------------------------------------------
\* Everything has its type.
DatabaseTypeOK ==
  /\ alive \in [Guids -> BOOLEAN]
  /\ adds \in [Guids -> 0..MaxAdds]
  /\ operations \in Seq(Operation) /\ Len(operations) =< MaxPending
  /\ entities \in [Guids -> States]
  /\ callback \in Operation \cup {NoCallback}
  /\ running \in BOOLEAN /\ exit \in BOOLEAN

\* Every queued operation will be accepted when its turn comes, although it was
\* pushed without looking at the dictionary: no InconsistencyException.  The
\* dictionary plus the queue always tell the endpoint's life in order.
OperationsFit ==
  \A i \in 1..Len(operations) :
    LET g == operations[i].guid
        before == {j \in 1..(i - 1) : operations[j].guid = g}
        active == IF before = {} THEN entities[g] = "active"
                  ELSE operations[CHOOSE j \in before : \A k \in before : k =< j].active
    IN  /\ operations[i].kind = "add" <=> ~active
        /\ operations[i].kind = "update" => before # {} \/ entities[g] # "absent"

\* When the queue has been processed the dictionary says what the participants saw.
DatabaseCaughtUp ==
  (running /\ operations = <<>>) =>
    \A g \in Guids : (entities[g] = "active") = alive[g]
=============================================================================
