---------------------------- MODULE TrackTraffic ----------------------------
(***************************************************************************)
(* Track under traffic that never has to pause.  MaxSamples keeps the      *)
(* states of Track finite by ending the traffic, and a loop that goes on   *)
(* for as long as it finds data, as transmit_ does, ends with it.  Here    *)
(* the samples are numbered from the beginning again whenever none is      *)
(* held, so the remote side may send for ever.                             *)
(*                                                                         *)
(* A lock that is free again and again is given to the thread that waits   *)
(* for it (strong fairness): what blocks a call below is a lock that is    *)
(* never let go.  A call begins here once it holds track_mutex_; one that  *)
(* waits for track_mutex_ waits for as long as the call that holds it.     *)
(***************************************************************************)
EXTENDS Track

\* Not a step of the program: the numbers of the samples, and the record of what
\* was given to whom, begin anew.
Renumber ==
  /\ sent = MaxSamples /\ history = <<>> /\ \A w \in Workers : cur[w] = 0
  /\ sent' = 0 /\ out' = [p \in Participants |-> <<>>]
  /\ UNCHANGED <<trackVars, readerVars, writerVars, queued, masterFlag, pc, todo, arg, cur>>

TrafficSpec ==
  /\ Init /\ [][Next \/ Renumber]_vars
  /\ WF_vars(DataAvailable(Listener))
  /\ \A w \in Workers : WF_vars(StartTask(w)) /\ SF_vars(Transmit(w))
  /\ \A c \in Controllers : SF_vars(Continue(c))

-----------------------------------------------------------------------------
Ended(c) == pc[c] \in {"idle", "gone"}
ChangesWriters(c) == pc[c] \in {"add_tx", "rem_tx"}

\* On the master enable, disable and the destructor return although the traffic
\* never pauses: disable lowers enabled_ before it asks for the mutex of transmit_.
\* add_writer and remove_writer do not lower it: they return once the traffic ends,
\* and before that need not, whatever the comment over the loop says ("protected by
\* a mutex that is freed in every iteration").
CallsReturn ==
  <>masterFlag => \A c \in Controllers :
    /\ (~Ended(c) /\ ~ChangesWriters(c)) ~> Ended(c)
    /\ <>[][sent' = sent]_vars => (ChangesWriters(c) ~> Ended(c))
=============================================================================
