----------------------------- MODULE Forwarder -----------------------------
(***************************************************************************)
(* What a Track promises, without threads, mutexes or wake-ups: samples    *)
(* arrive, wait in order, and are passed on one at a time.  A sample that  *)
(* is passed on is given to every destination there is when its turn       *)
(* comes; until the last of them has it the forwarder does not close, the  *)
(* destinations do not change and no other sample gets its turn.           *)
(***************************************************************************)
EXTENDS Naturals, Sequences

CONSTANT Participants  \* whoever may be a destination

VARIABLES
  arrived,       \* number of the last sample that arrived
  waiting,       \* samples that wait for their turn
  destinations,  \* participants a sample is given to
  open,          \* may a sample get its turn?
  inFlight,      \* the sample that has its turn: a set of at most one
  owed,          \* destinations that do not have it yet
  given          \* what each participant was given

vars == <<arrived, waiting, destinations, open, inFlight, owed, given>>

Init ==
  /\ arrived = 0 /\ waiting = {}
  /\ destinations \in SUBSET Participants
  /\ open = FALSE
  /\ inFlight = {} /\ owed = {}
  /\ given = [p \in Participants |-> <<>>]

\* A filter may refuse the sample.
Arrive ==
  /\ arrived' = arrived + 1
  /\ waiting' \in {waiting, waiting \cup {arrived + 1}}
  /\ UNCHANGED <<destinations, open, inFlight, owed, given>>

IsFirst(s) == s \in waiting /\ \A r \in waiting : s =< r

\* The first sample gets its turn ...
Begin(s) ==
  /\ open /\ inFlight = {} /\ destinations # {}
  /\ IsFirst(s)
  /\ waiting' = waiting \ {s}
  /\ inFlight' = {s} /\ owed' = destinations
  /\ UNCHANGED <<arrived, destinations, open, given>>

\* ... or is lost, because it is damaged or nobody wants it.
Lose(s) ==
  /\ open /\ inFlight = {}
  /\ IsFirst(s)
  /\ waiting' = waiting \ {s}
  /\ UNCHANGED <<arrived, destinations, open, inFlight, owed, given>>

Give(s, p) ==
  /\ inFlight = {s} /\ p \in owed
  /\ given' = [given EXCEPT ![p] = Append(@, s)]
  /\ owed' = owed \ {p}
  /\ inFlight' = IF owed = {p} THEN {} ELSE inFlight
  /\ UNCHANGED <<arrived, waiting, destinations, open>>

\* Opening is possible at any time, closing only between two samples.
OpenOrClose ==
  /\ open => inFlight = {}
  /\ open' = ~open
  /\ UNCHANGED <<arrived, waiting, destinations, inFlight, owed, given>>

Redirect ==
  /\ inFlight = {}
  /\ destinations' \in SUBSET Participants
  /\ UNCHANGED <<arrived, waiting, open, inFlight, owed, given>>

Next ==
  \/ Arrive \/ OpenOrClose \/ Redirect
  \/ \E s \in 1..arrived : Begin(s) \/ Lose(s) \/ \E p \in Participants : Give(s, p)

Spec == Init /\ [][Next]_vars

-----------------------------------------------------------------------------
\* What follows from it.

\* Each participant is given samples in the order they arrived, none twice.
InOrder ==
  \A p \in Participants : \A i, j \in 1..Len(given[p]) : i < j => given[p][i] < given[p][j]

\* The inductive invariant behind InOrder (module TrackProofs).
Shapes ==
  /\ arrived \in Nat /\ waiting \subseteq 1..arrived /\ inFlight \subseteq 1..arrived
  /\ destinations \subseteq Participants /\ owed \subseteq Participants
  /\ given \in [Participants -> Seq(Nat)]

\* What was given is older than what has its turn, and that is older than what waits.
Older ==
  /\ \A s \in inFlight, r \in waiting : s < r
  /\ \A p \in Participants : \A i \in 1..Len(given[p]) :
       /\ given[p][i] =< arrived
       /\ \A r \in waiting : given[p][i] < r
       /\ \A s \in inFlight : given[p][i] =< s /\ (p \in owed => given[p][i] < s)
=============================================================================
