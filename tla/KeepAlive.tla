----------------------------- MODULE KeepAlive -----------------------------
(***************************************************************************)
(* Master and slave proxies.  A master writes a heartbeat every            *)
(* heartbeat_interval; a slave sleeps for keepalived_interval, and becomes *)
(* a master, for good, when no heartbeat arrived meanwhile.  Each proxy    *)
(* does so in one thread, started and joined by main; the listener of the  *)
(* heartbeats is a thread of DDS.                                          *)
(*                                                                         *)
(* Time advances in ticks.  A thread wakes up Late ticks after its sleep   *)
(* at most, a heartbeat takes MaxDelay ticks at most, endpoints that exist *)
(* match within MaxDiscovery ticks, and the steps between sleeps take no   *)
(* time.  DDS is external: heartbeats are reliable as long as the process  *)
(* that sends them lives, and the publisher or subscriber is always made   *)
(* (init does not fail: a master without its publisher would be silent).   *)
(***************************************************************************)
EXTENDS Integers, FiniteSets

CONSTANTS
  Proxies,             \* the processes
  FirstMaster,         \* the one that is started as master, before the slaves
  heartbeat_interval,  \* ticks between heartbeats
  keepalived_interval, \* ticks a slave waits
  Late,                \* ticks a sleep may last too long
  MaxDelay,            \* ticks a heartbeat may take
  MaxDiscovery,        \* ticks that endpoints may need to match
  MaxEnds              \* bound: crashes and stops

ASSUME TimeAssumption ==
  /\ {heartbeat_interval, keepalived_interval} \subseteq Nat \ {0}
  /\ {Late, MaxDelay, MaxDiscovery} \subseteq Nat
ASSUME ProxyAssumption == IsFiniteSet(Proxies) /\ FirstMaster \in Proxies

VARIABLES
  pc,        \* where the keep-alive thread of a proxy is; "down": no process
  master,    \* master_flag
  arrived,   \* heartbeat_arrived
  stop,      \* force_exit
  slept,     \* ticks since the thread began to sleep
  age,       \* ticks since its publisher or subscriber was created
  matched,   \* pairs of a publisher and a subscriber that found each other
  flight,    \* ages of the heartbeats on their way to a proxy
  orphaned,  \* history: ticks for which a standby proxy has had no publisher
  ends       \* crashes and stops so far

timeVars == <<slept, age, orphaned>>
vars == <<pc, master, arrived, stop, timeVars, matched, flight, ends>>

Publishing(p) == pc[p] \in {"publish", "publisher_sleeps"}
Listening(p) == pc[p] \in {"subscriber_sleeps", "reset"}
Standby(p) == pc[p] # "down" /\ ~master[p] /\ ~stop[p]
Serving(p) == pc[p] # "down" /\ master[p] /\ ~stop[p]

Init ==
  /\ pc = [p \in Proxies |-> IF p = FirstMaster THEN "choose" ELSE "down"]
  /\ master = [p \in Proxies |-> p = FirstMaster]
  /\ arrived = [p \in Proxies |-> FALSE] /\ stop = [p \in Proxies |-> FALSE]
  /\ slept = [p \in Proxies |-> 0] /\ age = [p \in Proxies |-> 0]
  /\ orphaned = [p \in Proxies |-> 0]
  /\ matched = {} /\ flight = [p \in Proxies |-> {}]
  /\ ends = 0

Goto(p, l) == pc' = [pc EXCEPT ![p] = l]
Without(p) == {m \in matched : m[1] # p /\ m[2] # p}

-----------------------------------------------------------------------------
\* main: a proxy is started as slave while a master serves, is asked to stop, and
\* ends after its thread was joined.

Start(p) ==
  /\ pc[p] = "down" /\ \E m \in Proxies : Serving(m) /\ Publishing(m)
  /\ Goto(p, "choose")
  /\ master' = [master EXCEPT ![p] = FALSE]
  /\ arrived' = [arrived EXCEPT ![p] = FALSE] /\ stop' = [stop EXCEPT ![p] = FALSE]
  /\ orphaned' = [orphaned EXCEPT ![p] = 0]
  /\ UNCHANGED <<slept, age, matched, flight, ends>>

Stop(p) ==
  /\ pc[p] # "down" /\ ~stop[p] /\ ends < MaxEnds
  /\ stop' = [stop EXCEPT ![p] = TRUE] /\ ends' = ends + 1
  /\ UNCHANGED <<pc, master, arrived, timeVars, matched, flight>>

Exit(p) ==
  /\ pc[p] = "ended" /\ Goto(p, "down")
  /\ UNCHANGED <<master, arrived, stop, timeVars, matched, flight, ends>>

\* What a dead process sent may still arrive, or not.
Crash(p) ==
  /\ pc[p] # "down" /\ ends < MaxEnds /\ ends' = ends + 1
  /\ Goto(p, "down")
  /\ matched' = Without(p)
  /\ \E lost \in BOOLEAN :
       flight' = [q \in Proxies |-> IF lost \/ q = p THEN {} ELSE flight[q]]
  /\ UNCHANGED <<master, arrived, stop, timeVars>>

\* The loop of the thread: a publisher or a subscriber, until it is done.
Choose(p) ==
  /\ pc[p] = "choose"
  /\ Goto(p, IF stop[p] THEN "ended" ELSE IF master[p] THEN "publish" ELSE "subscriber_sleeps")
  /\ slept' = [slept EXCEPT ![p] = 0] /\ age' = [age EXCEPT ![p] = 0]
  /\ UNCHANGED <<master, arrived, stop, orphaned, matched, flight, ends>>

-----------------------------------------------------------------------------
\* DDS.

Match(p, q) ==
  /\ Publishing(p) /\ Listening(q) /\ <<p, q>> \notin matched
  /\ matched' = matched \cup {<<p, q>>}
  /\ UNCHANGED <<pc, master, arrived, stop, timeVars, flight, ends>>

\* ProxyKeepAlivedSubscriber::SubListener::on_data_available
Deliver(q) ==
  /\ Listening(q)
  /\ \E n \in flight[q] : flight' = [flight EXCEPT ![q] = @ \ {n}]
  /\ arrived' = [arrived EXCEPT ![q] = TRUE]
  /\ UNCHANGED <<pc, master, stop, timeVars, matched, ends>>

-----------------------------------------------------------------------------
\* ProxyKeepAlivedPublisher::run.

\* publish writes to the subscribers that were found; it writes nothing before the
\* first of them.
Publish(p) ==
  /\ pc[p] = "publish" /\ ~stop[p]
  /\ flight' = [q \in Proxies |-> flight[q] \cup (IF <<p, q>> \in matched THEN {0} ELSE {})]
  /\ Goto(p, "publisher_sleeps") /\ slept' = [slept EXCEPT ![p] = 0]
  /\ UNCHANGED <<master, arrived, stop, age, orphaned, matched, ends>>

\* What the publisher sleeps for.  Mutant: the interval of the slave.
PeriodMutant == keepalived_interval
Period == heartbeat_interval

PublisherWakes(p) ==
  /\ pc[p] = "publisher_sleeps" /\ slept[p] >= Period
  /\ Goto(p, "publish")
  /\ UNCHANGED <<master, arrived, stop, timeVars, matched, flight, ends>>

PublisherEnds(p) ==
  /\ pc[p] = "publish" /\ stop[p]
  /\ Goto(p, "choose") /\ matched' = Without(p)
  /\ UNCHANGED <<master, arrived, stop, timeVars, flight, ends>>

-----------------------------------------------------------------------------
\* ProxyKeepAlivedSubscriber::run: the test of heartbeat_arrived and its reset are
\* two steps; a heartbeat that arrives between them is forgotten.

Overslept(p) == pc[p] = "subscriber_sleeps" /\ slept[p] >= keepalived_interval

Promote(p) ==
  /\ Overslept(p) /\ ~arrived[p]
  /\ master' = [master EXCEPT ![p] = TRUE]
  /\ Goto(p, "choose") /\ matched' = Without(p) /\ flight' = [flight EXCEPT ![p] = {}]
  /\ UNCHANGED <<arrived, stop, timeVars, ends>>

MasterIsAlive(p) ==
  /\ Overslept(p) /\ arrived[p]
  /\ Goto(p, "reset")
  /\ UNCHANGED <<master, arrived, stop, timeVars, matched, flight, ends>>

\* heartbeat_arrived after the test.  Mutant: it is never reset.
AfterTestMutant == TRUE
AfterTest == FALSE

Reset(p) ==
  /\ pc[p] = "reset"
  /\ arrived' = [arrived EXCEPT ![p] = AfterTest]
  /\ slept' = [slept EXCEPT ![p] = 0]
  /\ IF stop[p] THEN /\ Goto(p, "choose") /\ matched' = Without(p)
                     /\ flight' = [flight EXCEPT ![p] = {}]
                ELSE Goto(p, "subscriber_sleeps") /\ UNCHANGED <<matched, flight>>
  /\ UNCHANGED <<master, stop, age, orphaned, ends>>

-----------------------------------------------------------------------------
\* A tick passes when nothing is due.

FailoverTime == MaxDelay + 2 * (keepalived_interval + Late)

AtMost(n, m) == IF n < m THEN n ELSE m

NothingDue ==
  /\ \A p \in Proxies :
       /\ pc[p] \notin {"choose", "publish", "reset"}
       /\ pc[p] = "publisher_sleeps" => slept[p] < Period + Late
       /\ pc[p] = "subscriber_sleeps" => slept[p] < keepalived_interval + Late
       /\ \A n \in flight[p] : n < MaxDelay
  /\ \A p, q \in Proxies :
       Publishing(p) /\ Listening(q) /\ <<p, q>> \notin matched =>
         AtMost(age[p], age[q]) < MaxDiscovery

Asleep(p) == pc[p] \in {"publisher_sleeps", "subscriber_sleeps"}

Tick ==
  /\ NothingDue
  /\ slept' = [p \in Proxies |-> IF Asleep(p) THEN slept[p] + 1 ELSE slept[p]]
  /\ age' = [p \in Proxies |-> IF Asleep(p) THEN AtMost(age[p] + 1, MaxDiscovery) ELSE age[p]]
  /\ flight' = [p \in Proxies |-> {n + 1 : n \in flight[p]}]
  /\ orphaned' = [p \in Proxies |->
       IF Standby(p) /\ ~\E m \in Proxies : Publishing(m)
         THEN AtMost(orphaned[p] + 1, FailoverTime + 1) ELSE 0]
  /\ UNCHANGED <<pc, master, arrived, stop, matched, ends>>

Next ==
  \/ \E p \in Proxies :
       \/ Start(p) \/ Stop(p) \/ Exit(p) \/ Crash(p) \/ Choose(p)
       \/ Publish(p) \/ PublisherWakes(p) \/ PublisherEnds(p)
       \/ Promote(p) \/ MasterIsAlive(p) \/ Reset(p) \/ Deliver(p)
       \/ \E q \in Proxies : Match(p, q)
  \/ Tick

Spec == Init /\ [][Next]_vars

-----------------------------------------------------------------------------
\* Properties.

\* What AtMostOneMaster needs of the setting: there is a slave for the master, not two,
\* and keepalived_interval leaves room for the heartbeat that matters.  The slave starts
\* to sleep before the endpoints have matched, the next heartbeat is due an interval
\* later, its thread is late, and it takes its time to arrive.
TwoProxies == \A p, q, r \in Proxies : p = q \/ p = r \/ q = r
Margin == keepalived_interval > MaxDiscovery + heartbeat_interval + Late + MaxDelay

\* The slave leaves its master alone: with a margin of discovery, heartbeat, delay
\* and lateness inside keepalived_interval two proxies never serve at the same
\* time, although a heartbeat can be forgotten between the test and the reset.
AtMostOneMaster == Cardinality({p \in Proxies : Serving(p)}) <= 1

\* A standby proxy without a master serves within two intervals: one for the last
\* heartbeat, which it may find when it wakes, and one of silence.
FailoverInTime == \A p \in Proxies : orphaned[p] <= FailoverTime

=============================================================================
