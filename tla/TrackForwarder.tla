--------------------------- MODULE TrackForwarder ---------------------------
(***************************************************************************)
(* A Track implements a Forwarder: the mapping of its state, with all its  *)
(* mutexes, flags and threads, to what Forwarder promises.                 *)
(***************************************************************************)
EXTENDS Track

Writing == {w \in Workers : pc[w] = "tx_write"}

\* The track is open on the master from the flag of enable until disable has
\* gone through the transmission mutex.
OpenForwarder == masterFlag /\ (enabled \/ \E c \in Controllers : pc[c] = "dis_tx")

Waiting == {history[i] : i \in DOMAIN history}
InFlight == {cur[w] : w \in Writing}
Owed == UNION {todo[w] : w \in Writing}

Forwarding == INSTANCE Forwarder WITH
  arrived      <- sent,
  waiting      <- Waiting,
  destinations <- Destinations,
  open         <- OpenForwarder,
  inFlight     <- InFlight,
  owed         <- Owed,
  given        <- out

\* Whatever its threads do, a track forwards as Forwarder says: in order, each
\* sample at most once, to all the writers of the moment its turn comes, never
\* on a standby proxy and never after disable has waited for the transmission;
\* neither disable, add_writer nor remove_writer cuts a sample short.
ImplementsForwarder == Forwarding!Spec

-----------------------------------------------------------------------------
\* What the refinement needs besides IInv (module TrackProofs): the
\* reader keeps what was sent in the order it was sent, and a thread in the loop
\* over writers_ has a sample and somebody to give it to.

HistoryInOrder ==
  /\ \A i \in 1..Len(history) : history[i] \in 1..sent
  /\ \A i, j \in 1..Len(history) : i < j => history[i] < history[j]

HasSample == \A w \in Writing : cur[w] \in 1..sent /\ todo[w] # {}

RInv == IInv /\ HistoryInOrder /\ HasSample
=============================================================================
