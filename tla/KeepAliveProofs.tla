-------------------------- MODULE KeepAliveProofs --------------------------
(***************************************************************************)
(* The failover of a master and a slave, for any intervals and any bounds  *)
(* of time, and any number of stops, crashes and restarts: there is one    *)
(* master at a time if keepalived_interval leaves room for a heartbeat to  *)
(* be late (Margin), and a slave does not wait long for a dead one.        *)
(*                                                                         *)
(* Both need TwoProxies: two slaves of one master are promoted together.   *)
(***************************************************************************)
EXTENDS KeepAlive, FiniteSetTheorems, TLAPS

Places == {"down", "choose", "publish", "publisher_sleeps", "subscriber_sleeps", "reset", "ended"}
Shapes ==
  /\ pc \in [Proxies -> Places]
  /\ master \in [Proxies -> BOOLEAN] /\ arrived \in [Proxies -> BOOLEAN]
  /\ stop \in [Proxies -> BOOLEAN]
  /\ slept \in [Proxies -> Nat] /\ age \in [Proxies -> Nat] /\ orphaned \in [Proxies -> Nat]
  /\ matched \subseteq Proxies \X Proxies
  /\ flight \in [Proxies -> SUBSET Nat]

\* No clock goes further than what is due lets it.
ClocksBounded ==
  \A p \in Proxies :
    /\ Publishing(p) => slept[p] <= heartbeat_interval + Late
    /\ Listening(p) => slept[p] <= keepalived_interval + Late
    /\ age[p] <= MaxDiscovery
    /\ \A n \in flight[p] : n <= MaxDelay

\* A thread publishes as master and listens as slave, and ends when it is told to.
RolesKept ==
  \A p \in Proxies :
    /\ Publishing(p) => master[p]
    /\ Listening(p) => ~master[p]
    /\ pc[p] = "ended" => stop[p]

\* There is one slave at most, and a master that serves beside it has its publisher.
IsSlave(p) == pc[p] # "down" /\ ~master[p]
OneSlave ==
  \A p, q \in Proxies : p # q /\ IsSlave(p) =>
    /\ ~IsSlave(q)
    /\ Serving(q) => Publishing(q)

\* The subscriber of the slave is younger than the publisher of its master.
SlaveIsYounger ==
  \A p, q \in Proxies : Listening(p) /\ Serving(q) => age[p] <= age[q]

\* A slave that has heard nothing from a serving master since it went to sleep did so not
\* long ago: they have yet to match, or the next heartbeat is to be written, or is coming.
IsComing(q, p) ==
  \/ slept[p] <= MaxDiscovery + slept[q]
  \/ \E n \in flight[p] : slept[p] <= MaxDiscovery + heartbeat_interval + Late + n
SilenceIsShort ==
  \A p, q \in Proxies :
    (pc[p] = "subscriber_sleeps" /\ ~arrived[p] /\ Serving(q)) =>
      /\ <<q, p>> \notin matched => slept[p] <= age[p]
      /\ <<q, p>> \in matched => IsComing(q, p)

\* Two proxies do not serve together.
ServeAlone == \A p, q \in Proxies : p # q => ~(Serving(p) /\ Serving(q))

\* A slave without a publisher gets none, and counts what it hears of the dead one.
Grace == MaxDelay + keepalived_interval + Late
OrphanWaits(p) ==
  /\ pc[p] = "choose" => orphaned[p] = 0
  /\ orphaned[p] > 0 => \A m \in Proxies : ~Publishing(m)
  /\ \A n \in flight[p] : orphaned[p] <= n
  /\ pc[p] = "subscriber_sleeps" => orphaned[p] <= Grace + slept[p]
  /\ pc[p] = "subscriber_sleeps" /\ arrived[p] => orphaned[p] <= MaxDelay + slept[p]
  /\ pc[p] = "reset" => orphaned[p] <= Grace
OrphansWait == \A p \in Proxies : Standby(p) => OrphanWaits(p)

Base == Shapes /\ ClocksBounded /\ RolesKept /\ OneSlave
MasterInv == Base /\ SlaveIsYounger /\ SilenceIsShort /\ ServeAlone
FailoverInv == Base /\ OrphansWait /\ FailoverInTime

-----------------------------------------------------------------------------
\* Types.

\* Nobody sleeps, has matched or is sent a heartbeat at first.
LEMMA ShapesInit == Init => Shapes
  <1> SUFFICES ASSUME Init PROVE Shapes
    OBVIOUS
  <1>1. \A p \in Proxies : (IF p = FirstMaster THEN "choose" ELSE "down") \in Places
    BY DEF Places
  <1> QED
    BY <1>1 DEF Init, Shapes

\* What is left of the pairs without one proxy.
LEMMA PairsWithout ==
  ASSUME NEW x, NEW q, NEW p
  PROVE  <<q, p>> \in Without(x) <=> <<q, p>> \in matched /\ q # x /\ p # x
  BY DEF Without

\* The smaller of two numbers.
LEMMA AtMostIs ==
  ASSUME NEW n \in Nat, NEW m \in Nat
  PROVE  AtMost(n, m) \in Nat /\ AtMost(n, m) <= n /\ AtMost(n, m) <= m
         /\ AtMost(n, m) \in {n, m}
  BY DEF AtMost

\* Every step keeps the shapes.
LEMMA ShapesStep == Shapes /\ [Next]_vars => Shapes'
  <1> SUFFICES ASSUME Shapes, [Next]_vars PROVE Shapes'
    OBVIOUS
  <1> USE DEF Shapes, Places, timeVars, Goto
  <1>1. ASSUME NEW x \in Proxies, Start(x) PROVE Shapes'
    BY <1>1 DEF Start
  <1>2. ASSUME NEW x \in Proxies, Stop(x) PROVE Shapes'
    BY <1>2 DEF Stop
  <1>3. ASSUME NEW x \in Proxies, Exit(x) PROVE Shapes'
    BY <1>3 DEF Exit
  <1>4. ASSUME NEW x \in Proxies, Crash(x) PROVE Shapes'
    <2>1. flight' \in [Proxies -> SUBSET Nat]
      BY <1>4 DEF Crash
    <2>2. matched' \subseteq matched
      BY <1>4 DEF Crash, Without
    <2> QED
      BY <1>4, <2>1, <2>2 DEF Crash
  <1>5. ASSUME NEW x \in Proxies, Choose(x) PROVE Shapes'
    BY <1>5 DEF Choose
  <1>6. ASSUME NEW x \in Proxies, Publish(x) PROVE Shapes'
    BY <1>6 DEF Publish
  <1>7. ASSUME NEW x \in Proxies, PublisherWakes(x) PROVE Shapes'
    BY <1>7 DEF PublisherWakes
  <1>8. ASSUME NEW x \in Proxies, PublisherEnds(x) PROVE Shapes'
    <2>1. matched' \subseteq matched
      BY <1>8 DEF PublisherEnds, Without
    <2> QED
      BY <1>8, <2>1 DEF PublisherEnds
  <1>9. ASSUME NEW x \in Proxies, Promote(x) PROVE Shapes'
    <2>1. matched' \subseteq matched
      BY <1>9 DEF Promote, Without
    <2> QED
      BY <1>9, <2>1 DEF Promote
  <1>10. ASSUME NEW x \in Proxies, MasterIsAlive(x) PROVE Shapes'
    BY <1>10 DEF MasterIsAlive, Overslept
  <1>11. ASSUME NEW x \in Proxies, Reset(x) PROVE Shapes'
    <2>1. matched' \subseteq matched /\ AfterTest \in BOOLEAN
      BY <1>11 DEF Reset, Without, AfterTest
    <2> QED
      BY <1>11, <2>1 DEF Reset
  <1>12. ASSUME NEW x \in Proxies, Deliver(x) PROVE Shapes'
    BY <1>12 DEF Deliver
  <1>13. ASSUME NEW x \in Proxies, NEW y \in Proxies, Match(x, y) PROVE Shapes'
    BY <1>13 DEF Match
  <1>14. CASE Tick
    <2>1. /\ slept' \in [Proxies -> Nat]
          /\ flight' \in [Proxies -> SUBSET Nat]
      BY <1>14 DEF Tick
    <2>2. age' \in [Proxies -> Nat]
      <3>1. \A p \in Proxies : AtMost(age[p] + 1, MaxDiscovery) \in Nat
        BY AtMostIs, TimeAssumption
      <3> QED
        BY <1>14, <3>1 DEF Tick
    <2>3. orphaned' \in [Proxies -> Nat]
      <3>1. FailoverTime + 1 \in Nat
        BY TimeAssumption DEF FailoverTime
      <3>2. \A p \in Proxies : AtMost(orphaned[p] + 1, FailoverTime + 1) \in Nat
        BY <3>1 DEF AtMost
      <3> QED
        BY <1>14, <3>2 DEF Tick
    <2> QED
      BY <1>14, <2>1, <2>2, <2>3 DEF Tick
  <1>15. CASE UNCHANGED vars
    BY <1>15 DEF vars
  <1> QED
    BY <1>1, <1>2, <1>3, <1>4, <1>5, <1>6, <1>7, <1>8, <1>9, <1>10, <1>11, <1>12, <1>13, <1>14,
        <1>15 DEF Next

-----------------------------------------------------------------------------
\* What holds of one proxy, and of the roles of two.

\* The parts of Base at first.
LEMMA BaseInit == Init => Base
  <1> SUFFICES ASSUME Init PROVE Base
    OBVIOUS
  <1>1. Shapes
    BY ShapesInit
  <1>2. \A p \in Proxies :
          /\ pc[p] = IF p = FirstMaster THEN "choose" ELSE "down"
          /\ age[p] = 0 /\ flight[p] = {}
    BY DEF Init
  <1>3. ClocksBounded /\ RolesKept
    BY <1>2, TimeAssumption DEF ClocksBounded, RolesKept, Publishing, Listening
  <1>4. OneSlave
    BY <1>2 DEF OneSlave, IsSlave, Init
  <1> QED
    BY <1>1, <1>3, <1>4 DEF Base

\* Nothing sleeps longer than it is allowed to, and nothing travels longer.
LEMMA ClocksStep == Shapes /\ ClocksBounded /\ [Next]_vars => ClocksBounded'
  <1> SUFFICES ASSUME Shapes, ClocksBounded, [Next]_vars PROVE ClocksBounded'
    OBVIOUS
  <1> USE TimeAssumption DEF Shapes, Places, ClocksBounded, timeVars, Goto, Publishing, Listening
  <1>1. ASSUME NEW x \in Proxies, Start(x) PROVE ClocksBounded'
    BY <1>1 DEF Start
  <1>2. ASSUME NEW x \in Proxies, Stop(x) PROVE ClocksBounded'
    BY <1>2 DEF Stop
  <1>3. ASSUME NEW x \in Proxies, Exit(x) PROVE ClocksBounded'
    BY <1>3 DEF Exit
  <1>4. ASSUME NEW x \in Proxies, Crash(x) PROVE ClocksBounded'
    BY <1>4 DEF Crash
  <1>5. ASSUME NEW x \in Proxies, Choose(x) PROVE ClocksBounded'
    BY <1>5 DEF Choose
  <1>6. ASSUME NEW x \in Proxies, Publish(x) PROVE ClocksBounded'
    BY <1>6 DEF Publish
  <1>7. ASSUME NEW x \in Proxies, PublisherWakes(x) PROVE ClocksBounded'
    BY <1>7 DEF PublisherWakes
  <1>8. ASSUME NEW x \in Proxies, PublisherEnds(x) PROVE ClocksBounded'
    BY <1>8 DEF PublisherEnds
  <1>9. ASSUME NEW x \in Proxies, Promote(x) PROVE ClocksBounded'
    BY <1>9 DEF Promote, Overslept, Listening
  <1>10. ASSUME NEW x \in Proxies, MasterIsAlive(x) PROVE ClocksBounded'
    BY <1>10 DEF MasterIsAlive, Overslept
  <1>11. ASSUME NEW x \in Proxies, Reset(x) PROVE ClocksBounded'
    BY <1>11 DEF Reset
  <1>12. ASSUME NEW x \in Proxies, Deliver(x) PROVE ClocksBounded'
    BY <1>12 DEF Deliver
  <1>13. ASSUME NEW x \in Proxies, NEW y \in Proxies, Match(x, y) PROVE ClocksBounded'
    BY <1>13 DEF Match
  <1>14. CASE Tick
    <2>1. ASSUME NEW p \in Proxies
          PROVE  /\ Publishing(p)' => slept'[p] <= heartbeat_interval + Late
                 /\ Listening(p)' => slept'[p] <= keepalived_interval + Late
      <3>1. /\ pc' = pc /\ pc[p] \notin {"publish", "reset"}
            /\ slept'[p] = IF Asleep(p) THEN slept[p] + 1 ELSE slept[p]
            /\ pc[p] = "publisher_sleeps" => slept[p] < heartbeat_interval + Late
            /\ pc[p] = "subscriber_sleeps" => slept[p] < keepalived_interval + Late
        BY <1>14 DEF Tick, NothingDue, Period
      <3> QED
        BY <3>1 DEF Asleep
    <2>2. ASSUME NEW p \in Proxies PROVE age'[p] <= MaxDiscovery
      <3>1. age'[p] = IF Asleep(p) THEN AtMost(age[p] + 1, MaxDiscovery) ELSE age[p]
        BY <1>14 DEF Tick
      <3>2. age[p] + 1 \in Nat
        OBVIOUS
      <3>3. AtMost(age[p] + 1, MaxDiscovery) <= MaxDiscovery
        BY <3>2, AtMostIs
      <3> QED
        BY <3>1, <3>3
    <2>3. ASSUME NEW p \in Proxies PROVE \A n \in flight'[p] : n <= MaxDelay
      <3>1. flight'[p] = {n + 1 : n \in flight[p]} /\ \A n \in flight[p] : n < MaxDelay /\ n \in Nat
        BY <1>14 DEF Tick, NothingDue
      <3> QED
        BY <3>1
    <2> QED
      BY <2>1, <2>2, <2>3
  <1>15. CASE UNCHANGED vars
    BY <1>15 DEF vars
  <1> QED
    BY <1>1, <1>2, <1>3, <1>4, <1>5, <1>6, <1>7, <1>8, <1>9, <1>10, <1>11, <1>12, <1>13, <1>14,
        <1>15 DEF Next

\* The flag of a proxy is set before its thread publishes, and never lowered while it runs.
LEMMA RolesStep == Shapes /\ RolesKept /\ [Next]_vars => RolesKept'
  <1> SUFFICES ASSUME Shapes, RolesKept, [Next]_vars PROVE RolesKept'
    OBVIOUS
  <1> USE DEF Shapes, Places, RolesKept, Goto, Publishing, Listening
  <1>1. ASSUME NEW x \in Proxies, Start(x) PROVE RolesKept'
    BY <1>1 DEF Start
  <1>2. ASSUME NEW x \in Proxies, Stop(x) PROVE RolesKept'
    BY <1>2 DEF Stop
  <1>3. ASSUME NEW x \in Proxies, Exit(x) PROVE RolesKept'
    BY <1>3 DEF Exit
  <1>4. ASSUME NEW x \in Proxies, Crash(x) PROVE RolesKept'
    BY <1>4 DEF Crash
  <1>5. ASSUME NEW x \in Proxies, Choose(x) PROVE RolesKept'
    BY <1>5 DEF Choose
  <1>6. ASSUME NEW x \in Proxies, Publish(x) PROVE RolesKept'
    BY <1>6 DEF Publish
  <1>7. ASSUME NEW x \in Proxies, PublisherWakes(x) PROVE RolesKept'
    BY <1>7 DEF PublisherWakes
  <1>8. ASSUME NEW x \in Proxies, PublisherEnds(x) PROVE RolesKept'
    BY <1>8 DEF PublisherEnds
  <1>9. ASSUME NEW x \in Proxies, Promote(x) PROVE RolesKept'
    BY <1>9 DEF Promote, Overslept, Listening
  <1>10. ASSUME NEW x \in Proxies, MasterIsAlive(x) PROVE RolesKept'
    BY <1>10 DEF MasterIsAlive, Overslept
  <1>11. ASSUME NEW x \in Proxies, Reset(x) PROVE RolesKept'
    BY <1>11 DEF Reset
  <1>12. ASSUME NEW x \in Proxies, Deliver(x) PROVE RolesKept'
    BY <1>12 DEF Deliver
  <1>13. ASSUME NEW x \in Proxies, NEW y \in Proxies, Match(x, y) PROVE RolesKept'
    BY <1>13 DEF Match
  <1>14. CASE Tick
    BY <1>14 DEF Tick
  <1>15. CASE UNCHANGED vars
    BY <1>15 DEF vars
  <1> QED
    BY <1>1, <1>2, <1>3, <1>4, <1>5, <1>6, <1>7, <1>8, <1>9, <1>10, <1>11, <1>12, <1>13, <1>14,
        <1>15 DEF Next

\* A slave is started beside a master that serves, which is the only other.
LEMMA OneSlaveStep ==
  ASSUME TwoProxies, Shapes, RolesKept, OneSlave, [Next]_vars
  PROVE  OneSlave'
  <1> USE DEF Shapes, Places, OneSlave, RolesKept, Goto, Publishing, Serving, IsSlave
  <1>1. ASSUME NEW x \in Proxies, Start(x) PROVE OneSlave'
    <2>1. PICK m \in Proxies : Serving(m) /\ Publishing(m)
      BY <1>1 DEF Start
    <2>2. m # x /\ \A q \in Proxies : q = x \/ q = m
      BY <1>1, <2>1 DEF Start, TwoProxies
    <2>3. /\ pc' = [pc EXCEPT ![x] = "choose"] /\ master' = [master EXCEPT ![x] = FALSE]
          /\ stop' = [stop EXCEPT ![x] = FALSE]
      BY <1>1 DEF Start
    <2> QED
      BY <2>1, <2>2, <2>3
  <1>2. ASSUME NEW x \in Proxies, Stop(x) PROVE OneSlave'
    BY <1>2 DEF Stop
  <1>3. ASSUME NEW x \in Proxies, Exit(x) PROVE OneSlave'
    BY <1>3 DEF Exit
  <1>4. ASSUME NEW x \in Proxies, Crash(x) PROVE OneSlave'
    BY <1>4 DEF Crash
  <1>5. ASSUME NEW x \in Proxies, Choose(x) PROVE OneSlave'
    BY <1>5 DEF Choose
  <1>6. ASSUME NEW x \in Proxies, Publish(x) PROVE OneSlave'
    BY <1>6 DEF Publish
  <1>7. ASSUME NEW x \in Proxies, PublisherWakes(x) PROVE OneSlave'
    BY <1>7 DEF PublisherWakes
  <1>8. ASSUME NEW x \in Proxies, PublisherEnds(x) PROVE OneSlave'
    BY <1>8 DEF PublisherEnds
  <1>9. ASSUME NEW x \in Proxies, Promote(x) PROVE OneSlave'
    BY <1>9 DEF Promote, Overslept, Listening
  <1>10. ASSUME NEW x \in Proxies, MasterIsAlive(x) PROVE OneSlave'
    BY <1>10 DEF MasterIsAlive, Overslept
  <1>11. ASSUME NEW x \in Proxies, Reset(x) PROVE OneSlave'
    BY <1>11 DEF Reset
  <1>12. ASSUME NEW x \in Proxies, Deliver(x) PROVE OneSlave'
    BY <1>12 DEF Deliver
  <1>13. ASSUME NEW x \in Proxies, NEW y \in Proxies, Match(x, y) PROVE OneSlave'
    BY <1>13 DEF Match
  <1>14. CASE Tick
    BY <1>14 DEF Tick
  <1>15. CASE UNCHANGED vars
    BY <1>15 DEF vars
  <1> QED
    BY <1>1, <1>2, <1>3, <1>4, <1>5, <1>6, <1>7, <1>8, <1>9, <1>10, <1>11, <1>12, <1>13, <1>14,
        <1>15 DEF Next

\* Every step keeps types, clocks and roles, and leaves one slave at most.
LEMMA BaseStep == TwoProxies /\ Base /\ [Next]_vars => Base'
  BY ShapesStep, ClocksStep, RolesStep, OneSlaveStep DEF Base

\* A tick, for one proxy.
LEMMA TickIs ==
  ASSUME Shapes, Tick, NEW p \in Proxies
  PROVE  /\ UNCHANGED <<pc, master, arrived, stop, matched, ends>>
         /\ pc[p] \notin {"choose", "publish", "reset"}
         /\ slept'[p] = IF Asleep(p) THEN slept[p] + 1 ELSE slept[p]
         /\ age'[p] = IF Asleep(p) THEN AtMost(age[p] + 1, MaxDiscovery) ELSE age[p]
         /\ flight'[p] = {n + 1 : n \in flight[p]}
         /\ orphaned'[p] = IF Standby(p) /\ ~\E m \in Proxies : Publishing(m)
                             THEN AtMost(orphaned[p] + 1, FailoverTime + 1) ELSE 0
  BY DEF Shapes, Tick, NothingDue

-----------------------------------------------------------------------------
\* One master.

\* A publisher is older than the subscriber of the slave that was started beside it.
LEMMA YoungerStep ==
  ASSUME TwoProxies, Base, SlaveIsYounger, [Next]_vars
  PROVE  SlaveIsYounger'
  <1>0. Shapes /\ RolesKept /\ OneSlave /\ ClocksBounded
    BY DEF Base
  <1> USE DEF SlaveIsYounger, Goto, Publishing, Listening, Serving, timeVars
  <1>1. ASSUME NEW x \in Proxies, Start(x) PROVE SlaveIsYounger'
    BY <1>1, <1>0 DEF Start, Shapes
  <1>2. ASSUME NEW x \in Proxies, Stop(x) PROVE SlaveIsYounger'
    BY <1>2, <1>0 DEF Stop, Shapes
  <1>3. ASSUME NEW x \in Proxies, Exit(x) PROVE SlaveIsYounger'
    BY <1>3, <1>0 DEF Exit, Shapes
  <1>4. ASSUME NEW x \in Proxies, Crash(x) PROVE SlaveIsYounger'
    BY <1>4, <1>0 DEF Crash, Shapes
  <1>5. ASSUME NEW x \in Proxies, Choose(x) PROVE SlaveIsYounger'
    <2> SUFFICES ASSUME NEW p \in Proxies, NEW q \in Proxies, Listening(p)', Serving(q)'
                 PROVE  age'[p] <= age'[q]
      OBVIOUS
    <2>1. CASE x = p
      BY <1>0, <1>5, <2>1 DEF Choose, Shapes
    <2>2. CASE x # p
      <3>1. IsSlave(p) /\ Serving(q) /\ p # q
        BY <1>0, <1>5, <2>2 DEF Choose, Shapes, RolesKept, IsSlave
      <3>2. x # q
        BY <1>0, <1>5, <3>1 DEF Choose, OneSlave
      <3> QED
        BY <1>0, <1>5, <2>2, <3>1, <3>2 DEF Choose, Shapes
    <2> QED
      BY <2>1, <2>2
  <1>6. ASSUME NEW x \in Proxies, Publish(x) PROVE SlaveIsYounger'
    BY <1>6, <1>0 DEF Publish, Shapes
  <1>7. ASSUME NEW x \in Proxies, PublisherWakes(x) PROVE SlaveIsYounger'
    BY <1>7, <1>0 DEF PublisherWakes, Shapes
  <1>8. ASSUME NEW x \in Proxies, PublisherEnds(x) PROVE SlaveIsYounger'
    BY <1>8, <1>0 DEF PublisherEnds, Shapes
  <1>9. ASSUME NEW x \in Proxies, Promote(x) PROVE SlaveIsYounger'
    <2> SUFFICES ASSUME NEW p \in Proxies, NEW q \in Proxies, Listening(p)', Serving(q)'
                 PROVE  age'[p] <= age'[q]
      OBVIOUS
    <2>1. x # p /\ Listening(p) /\ IsSlave(p) /\ IsSlave(x)
      BY <1>0, <1>9 DEF Promote, Overslept, Shapes, RolesKept, IsSlave
    <2>2. FALSE
      BY <1>0, <2>1 DEF OneSlave
    <2> QED
      BY <2>2
  <1>10. ASSUME NEW x \in Proxies, MasterIsAlive(x) PROVE SlaveIsYounger'
    BY <1>10, <1>0 DEF MasterIsAlive, Overslept, Shapes
  <1>11. ASSUME NEW x \in Proxies, Reset(x) PROVE SlaveIsYounger'
    BY <1>11, <1>0 DEF Reset, Shapes
  <1>12. ASSUME NEW x \in Proxies, Deliver(x) PROVE SlaveIsYounger'
    BY <1>12, <1>0 DEF Deliver, Shapes
  <1>13. ASSUME NEW x \in Proxies, NEW y \in Proxies, Match(x, y) PROVE SlaveIsYounger'
    BY <1>13, <1>0 DEF Match, Shapes
  <1>14. CASE Tick
    <2> SUFFICES ASSUME NEW p \in Proxies, NEW q \in Proxies, Listening(p)', Serving(q)'
                 PROVE  age'[p] <= age'[q]
      OBVIOUS
    <2>1. Listening(p) /\ Serving(q) /\ p # q /\ IsSlave(p)
      BY <1>0, <1>14, TickIs DEF IsSlave, RolesKept
    <2>2. Asleep(p) /\ Asleep(q)
      BY <1>0, <1>14, <2>1, TickIs DEF OneSlave, Asleep
    <2>3. /\ age'[p] = AtMost(age[p] + 1, MaxDiscovery)
          /\ age'[q] = AtMost(age[q] + 1, MaxDiscovery)
      BY <1>0, <1>14, <2>2, TickIs
    <2>4. age[p] <= age[q] /\ age[p] \in Nat /\ age[q] \in Nat
      BY <1>0, <2>1 DEF Shapes
    <2> QED
      BY <2>3, <2>4, TimeAssumption DEF AtMost
  <1>15. CASE UNCHANGED vars
    BY <1>15 DEF vars
  <1> QED
    BY <1>1, <1>2, <1>3, <1>4, <1>5, <1>6, <1>7, <1>8, <1>9, <1>10, <1>11, <1>12, <1>13, <1>14,
        <1>15 DEF Next

\* A slave that has heard nothing did not sleep for long.
LEMMA SilenceStep ==
  ASSUME TwoProxies, Base, SlaveIsYounger, SilenceIsShort, [Next]_vars
  PROVE  SilenceIsShort'
  <1> SUFFICES ASSUME NEW p \in Proxies, NEW q \in Proxies,
                      pc'[p] = "subscriber_sleeps", ~arrived'[p], Serving(q)'
               PROVE  /\ <<q, p>> \notin matched' => slept'[p] <= age'[p]
                      /\ <<q, p>> \in matched' => IsComing(q, p)'
    BY DEF SilenceIsShort
  <1> DEFINE Goal == /\ <<q, p>> \notin matched' => slept'[p] <= age'[p]
                     /\ <<q, p>> \in matched' => IsComing(q, p)'
             Before == pc[p] = "subscriber_sleeps" /\ ~arrived[p] /\ Serving(q)
  <1>a. Shapes /\ RolesKept /\ OneSlave /\ ClocksBounded
    BY DEF Base
  <1>b. Base'
    BY BaseStep
  <1>c. p # q /\ \A x \in Proxies : x \in {p, q}
    BY <1>b, TwoProxies DEF Base, RolesKept, TwoProxies, Listening, Serving
  <1>d. Before => /\ <<q, p>> \notin matched => slept[p] <= age[p]
                  /\ <<q, p>> \in matched => IsComing(q, p)
    BY DEF SilenceIsShort
  <1>e. ASSUME Before, UNCHANGED matched, slept'[p] = slept[p], slept'[q] = slept[q],
               age'[p] = age[p], flight'[p] = flight[p]
        PROVE  Goal
    BY <1>d, <1>e DEF IsComing
  <1>f. Before => IsSlave(p) /\ Publishing(q)
    BY <1>a, <1>c DEF RolesKept, OneSlave, Listening, IsSlave
  <1>g. slept'[p] = 0 => Goal
    BY <1>b, TimeAssumption DEF Base, Shapes, IsComing
  <1> HIDE DEF Goal
  <1> USE DEF Goto, Shapes, timeVars, Serving
  <1>1. ASSUME NEW x \in Proxies, Start(x) PROVE Goal
    BY <1>1, <1>a, <1>c, <1>e DEF Start
  <1>2. ASSUME NEW x \in Proxies, Stop(x) PROVE Goal
    BY <1>2, <1>a, <1>c, <1>e DEF Stop
  <1>3. ASSUME NEW x \in Proxies, Exit(x) PROVE Goal
    BY <1>3, <1>a, <1>c, <1>e DEF Exit
  <1>4. ASSUME NEW x \in Proxies, Crash(x) PROVE Goal
    BY <1>4, <1>a, <1>c DEF Crash
  <1>5. ASSUME NEW x \in Proxies, Choose(x) PROVE Goal
    <2>1. CASE x = p
      BY <1>5, <1>a, <1>g, <2>1 DEF Choose
    <2>2. CASE x = q
      BY <1>5, <1>a, <1>c, <1>f, <2>2 DEF Choose, Publishing
    <2> QED
      BY <1>c, <2>1, <2>2
  <1>6. ASSUME NEW x \in Proxies, Publish(x) PROVE Goal
    <2>1. x = q /\ Before
      BY <1>6, <1>a, <1>c DEF Publish
    <2>2. UNCHANGED <<matched, age>> /\ slept'[p] = slept[p]
      BY <1>6, <1>a, <1>c, <2>1 DEF Publish
    <2>3. flight'[p] = flight[p] \cup (IF <<q, p>> \in matched THEN {0} ELSE {})
      BY <1>6, <2>1 DEF Publish
    <2>4. ASSUME <<q, p>> \in matched PROVE IsComing(q, p)'
      <3>1. CASE slept[p] <= MaxDiscovery + slept[q]
        <4>1. slept[q] <= heartbeat_interval + Late
          BY <1>a, <1>f, <2>1 DEF ClocksBounded
        <4>2. slept[p] <= MaxDiscovery + heartbeat_interval + Late + 0
          BY <1>a, <3>1, <4>1, TimeAssumption
        <4>3. 0 \in flight'[p]
          BY <2>3, <2>4
        <4> QED
          BY <2>2, <4>2, <4>3 DEF IsComing
      <3>2. CASE \E n \in flight[p] : slept[p] <= MaxDiscovery + heartbeat_interval + Late + n
        BY <2>2, <2>3, <3>2 DEF IsComing
      <3> QED
        BY <1>d, <2>1, <2>4, <3>1, <3>2 DEF IsComing
    <2> QED
      BY <1>d, <2>1, <2>2, <2>4 DEF Goal
  <1>7. ASSUME NEW x \in Proxies, PublisherWakes(x) PROVE Goal
    BY <1>7, <1>a, <1>c, <1>e DEF PublisherWakes
  <1>8. ASSUME NEW x \in Proxies, PublisherEnds(x) PROVE Goal
    BY <1>8, <1>a, <1>c, <1>e, PairsWithout DEF PublisherEnds
  <1>9. ASSUME NEW x \in Proxies, Promote(x) PROVE Goal
    <2>1. x = q /\ IsSlave(x) /\ IsSlave(p)
      BY <1>9, <1>a, <1>c, <1>b DEF Promote, Overslept, IsSlave, Listening, RolesKept, Base
    <2> QED
      BY <1>a, <1>c, <2>1 DEF OneSlave
  <1>10. ASSUME NEW x \in Proxies, MasterIsAlive(x) PROVE Goal
    BY <1>10, <1>a, <1>c, <1>e DEF MasterIsAlive, Overslept
  <1>11. ASSUME NEW x \in Proxies, Reset(x) PROVE Goal
    <2>1. CASE x = p
      BY <1>11, <1>a, <1>g, <2>1 DEF Reset
    <2>2. CASE x = q
      BY <1>11, <1>a, <1>b, <1>c, <2>2 DEF Reset, RolesKept, Listening, Base
    <2> QED
      BY <1>c, <2>1, <2>2
  <1>12. ASSUME NEW x \in Proxies, Deliver(x) PROVE Goal
    <2>1. CASE x = p
      BY <1>12, <1>a, <2>1 DEF Deliver
    <2>2. CASE x = q
      BY <1>12, <1>a, <1>c, <1>e, <2>2 DEF Deliver
    <2> QED
      BY <1>c, <2>1, <2>2
  <1>13. ASSUME NEW x \in Proxies, NEW y \in Proxies, Match(x, y) PROVE Goal
    <2>1. Before /\ matched' = matched \cup {<<x, y>>} /\ UNCHANGED <<slept, age, flight>>
      BY <1>13 DEF Match
    <2>2. CASE <<q, p>> \in matched \/ <<q, p>> \notin matched'
      BY <1>d, <2>1, <2>2 DEF Goal, IsComing
    <2>3. CASE <<q, p>> \notin matched /\ <<q, p>> \in matched'
      <3>1. slept[p] <= age[p] /\ age[p] <= MaxDiscovery
        BY <1>a, <1>d, <2>1, <2>3 DEF ClocksBounded
      <3>2. slept'[p] <= MaxDiscovery + slept'[q]
        BY <1>a, <2>1, <3>1, TimeAssumption
      <3> QED
        BY <2>3, <3>2 DEF Goal, IsComing
    <2> QED
      BY <2>2, <2>3
  <1>14. CASE Tick
    <2>1. Before /\ matched' = matched
      BY <1>14, <1>a, TickIs
    <2>2. Asleep(p) /\ Asleep(q) /\ Publishing(q) /\ Listening(p)
      BY <1>14, <1>a, <1>f, <2>1, TickIs DEF Asleep, Publishing, Listening
    <2>3. /\ slept'[p] = slept[p] + 1 /\ slept'[q] = slept[q] + 1
          /\ age'[p] = AtMost(age[p] + 1, MaxDiscovery)
          /\ flight'[p] = {n + 1 : n \in flight[p]}
      BY <1>14, <1>a, <2>2, TickIs
    <2>4. ASSUME <<q, p>> \notin matched PROVE slept'[p] <= age'[p]
      <3>1. AtMost(age[q], age[p]) < MaxDiscovery
        BY <1>14, <2>2, <2>4 DEF Tick, NothingDue
      <3>2. age[p] <= age[q] /\ slept[p] <= age[p]
        BY <1>d, <2>1, <2>2, <2>4 DEF SlaveIsYounger
      <3>3. age[p] \in Nat /\ age[q] \in Nat /\ slept[p] \in Nat
        BY <1>a
      <3>4. age[p] < MaxDiscovery
        BY <3>1, <3>2, <3>3, TimeAssumption DEF AtMost
      <3> QED
        BY <2>3, <3>2, <3>3, <3>4, TimeAssumption DEF AtMost
    <2>5. ASSUME <<q, p>> \in matched PROVE IsComing(q, p)'
      <3>0. slept[p] \in Nat /\ slept[q] \in Nat /\ flight[p] \subseteq Nat
        BY <1>a
      <3>1. CASE slept[p] <= MaxDiscovery + slept[q]
        <4>1. slept'[p] <= MaxDiscovery + slept'[q]
          BY <2>3, <3>0, <3>1, TimeAssumption
        <4> QED
          BY <4>1 DEF IsComing
      <3>2. ASSUME NEW n \in flight[p], slept[p] <= MaxDiscovery + heartbeat_interval + Late + n
            PROVE  IsComing(q, p)'
        <4>1. n + 1 \in flight'[p]
          BY <2>3
        <4>2. slept'[p] <= MaxDiscovery + heartbeat_interval + Late + (n + 1)
          BY <2>3, <3>0, <3>2, TimeAssumption
        <4> QED
          BY <4>1, <4>2 DEF IsComing
      <3> QED
        BY <1>d, <2>1, <2>5, <3>1, <3>2 DEF IsComing
    <2> QED
      BY <2>1, <2>4, <2>5 DEF Goal
  <1>15. CASE UNCHANGED vars
    BY <1>15, <1>e DEF vars, Goal
  <1> QED
    BY <1>1, <1>2, <1>3, <1>4, <1>5, <1>6, <1>7, <1>8, <1>9, <1>10, <1>11, <1>12, <1>13, <1>14,
        <1>15 DEF Next, Goal

\* Only a slave becomes a master, and it has heard nothing for too long.
LEMMA AloneStep ==
  ASSUME TwoProxies, Margin, MasterInv, [Next]_vars
  PROVE  ServeAlone'
  <1>0. Shapes /\ ClocksBounded /\ RolesKept /\ OneSlave /\ SilenceIsShort /\ ServeAlone
    BY DEF MasterInv, Base
  <1> USE DEF Shapes, Goto, Serving
  <1>1. ASSUME NEW x \in Proxies, Start(x) PROVE ServeAlone'
    BY <1>1, <1>0 DEF Start, ServeAlone
  <1>2. ASSUME NEW x \in Proxies, Stop(x) PROVE ServeAlone'
    BY <1>2, <1>0 DEF Stop, ServeAlone
  <1>3. ASSUME NEW x \in Proxies, Exit(x) PROVE ServeAlone'
    BY <1>3, <1>0 DEF Exit, ServeAlone
  <1>4. ASSUME NEW x \in Proxies, Crash(x) PROVE ServeAlone'
    BY <1>4, <1>0 DEF Crash, ServeAlone
  <1>5. ASSUME NEW x \in Proxies, Choose(x) PROVE ServeAlone'
    BY <1>5, <1>0 DEF Choose, ServeAlone
  <1>6. ASSUME NEW x \in Proxies, Publish(x) PROVE ServeAlone'
    BY <1>6, <1>0 DEF Publish, ServeAlone
  <1>7. ASSUME NEW x \in Proxies, PublisherWakes(x) PROVE ServeAlone'
    BY <1>7, <1>0 DEF PublisherWakes, ServeAlone
  <1>8. ASSUME NEW x \in Proxies, PublisherEnds(x) PROVE ServeAlone'
    BY <1>8, <1>0 DEF PublisherEnds, ServeAlone
  <1>9. ASSUME NEW x \in Proxies, Promote(x) PROVE ServeAlone'
    <2> SUFFICES ASSUME NEW q \in Proxies, q # x, Serving(q) PROVE FALSE
      BY <1>0, <1>9 DEF Promote, ServeAlone
    <2>1. /\ pc[x] = "subscriber_sleeps" /\ ~arrived[x] /\ slept[x] >= keepalived_interval
          /\ slept[x] \in Nat /\ slept[q] \in Nat /\ age[x] \in Nat /\ flight[x] \subseteq Nat
      BY <1>0, <1>9 DEF Promote, Overslept
    <2>2. /\ <<q, x>> \notin matched => slept[x] <= age[x]
          /\ <<q, x>> \in matched => IsComing(q, x)
      BY <1>0, <2>1 DEF SilenceIsShort
    <2>3. age[x] <= MaxDiscovery /\ \A n \in flight[x] : n <= MaxDelay
      BY <1>0 DEF ClocksBounded
    <2>4. slept[q] <= heartbeat_interval + Late
      <3>1. IsSlave(x) /\ Publishing(q)
        BY <1>0, <2>1 DEF RolesKept, OneSlave, Listening, IsSlave
      <3> QED
        BY <1>0, <3>1 DEF ClocksBounded
    <2>5. CASE <<q, x>> \notin matched
      BY <2>1, <2>2, <2>3, <2>5, TimeAssumption DEF Margin
    <2>6. CASE slept[x] <= MaxDiscovery + slept[q]
      BY <2>1, <2>4, <2>6, TimeAssumption DEF Margin
    <2>7. ASSUME NEW n \in flight[x], slept[x] <= MaxDiscovery + heartbeat_interval + Late + n
          PROVE  FALSE
      <3>1. n \in Nat /\ n <= MaxDelay
        BY <2>1, <2>3
      <3> QED
        BY <2>1, <2>7, <3>1, TimeAssumption DEF Margin
    <2> QED
      BY <2>2, <2>5, <2>6, <2>7 DEF IsComing
  <1>10. ASSUME NEW x \in Proxies, MasterIsAlive(x) PROVE ServeAlone'
    BY <1>10, <1>0 DEF MasterIsAlive, Overslept, ServeAlone
  <1>11. ASSUME NEW x \in Proxies, Reset(x) PROVE ServeAlone'
    BY <1>11, <1>0 DEF Reset, ServeAlone
  <1>12. ASSUME NEW x \in Proxies, Deliver(x) PROVE ServeAlone'
    BY <1>12, <1>0 DEF Deliver, ServeAlone
  <1>13. ASSUME NEW x \in Proxies, NEW y \in Proxies, Match(x, y) PROVE ServeAlone'
    BY <1>13, <1>0 DEF Match, ServeAlone
  <1>14. CASE Tick
    BY <1>14, <1>0 DEF Tick, ServeAlone
  <1>15. CASE UNCHANGED vars
    BY <1>0, <1>15 DEF vars, ServeAlone
  <1> QED
    BY <1>1, <1>2, <1>3, <1>4, <1>5, <1>6, <1>7, <1>8, <1>9, <1>10, <1>11, <1>12, <1>13, <1>14,
        <1>15 DEF Next

\* The master's invariant, from the start on.
LEMMA MasterInvInit == Init => MasterInv
  <1> SUFFICES ASSUME Init PROVE MasterInv
    OBVIOUS
  <1>1. \A p \in Proxies :
          pc[p] = (IF p = FirstMaster THEN "choose" ELSE "down")
    BY DEF Init
  <1>2. SlaveIsYounger /\ SilenceIsShort /\ ServeAlone
    BY <1>1 DEF SlaveIsYounger, SilenceIsShort, ServeAlone, Listening, Serving
  <1> QED
    BY <1>2, BaseInit DEF MasterInv

\* With the margin, each step leaves the slave a slave while its master serves.
LEMMA MasterInvStep == TwoProxies /\ Margin /\ MasterInv /\ [Next]_vars => MasterInv'
  BY BaseStep, YoungerStep, SilenceStep, AloneStep DEF MasterInv

\* A master and a slave never serve at the same time, however often they stop, crash and
\* start again, as long as keepalived_interval leaves the margin.
THEOREM OneMaster ==
  ASSUME TwoProxies, Margin
  PROVE  Spec => []AtMostOneMaster
  <1>1. MasterInv => AtMostOneMaster
    <2> SUFFICES ASSUME MasterInv PROVE AtMostOneMaster
      OBVIOUS
    <2> DEFINE S == {p \in Proxies : Serving(p)}
    <2>1. \A p, q \in S : p = q
      BY DEF MasterInv, ServeAlone
    <2>2. CASE S = {}
      BY <2>2, FS_EmptySet DEF AtMostOneMaster
    <2>3. CASE S # {}
      <3>1. PICK p : p \in S
        BY <2>3
      <3>2. S = {p}
        BY <2>1, <3>1
      <3>3. Cardinality(S) = 1
        BY <3>2, FS_Singleton
      <3> QED
        BY <3>3 DEF AtMostOneMaster
    <2> QED
      BY <2>2, <2>3
  <1> QED
    BY MasterInvInit, MasterInvStep, <1>1, PTL DEF Spec

-----------------------------------------------------------------------------
\* A master soon.

\* Bounds as numbers.
LEMMA Bounds ==
  /\ Grace \in Nat /\ FailoverTime \in Nat
  /\ Grace = MaxDelay + keepalived_interval + Late
  /\ FailoverTime = Grace + keepalived_interval + Late
  BY TimeAssumption DEF Grace, FailoverTime

\* A step of anyone keeps what a standby proxy without a publisher counts in its bounds.
LEMMA OrphansStep ==
  ASSUME TwoProxies, Base, OrphansWait, [Next]_vars
  PROVE  OrphansWait'
  <1> SUFFICES ASSUME NEW p \in Proxies, Standby(p)' PROVE OrphanWaits(p)'
    BY DEF OrphansWait
  <1>a. Shapes /\ RolesKept /\ OneSlave /\ ClocksBounded
    BY DEF Base
  <1>b. Grace \in Nat
    BY Bounds
  <1>c. Standby(p) => OrphanWaits(p)
    BY DEF OrphansWait
  <1>d. ASSUME Standby(p), UNCHANGED <<orphaned, arrived>>, slept'[p] = slept[p], pc'[p] = pc[p],
               flight'[p] \subseteq flight[p],
               \A m \in Proxies : Publishing(m)' => Publishing(m)
        PROVE  OrphanWaits(p)'
    BY <1>c, <1>d DEF OrphanWaits
  <1>e. \A m \in Proxies : Standby(p) /\ Serving(m) => Publishing(m)
    BY <1>a DEF OneSlave, Standby, Serving, IsSlave
  <1> USE DEF Goto, Shapes, Places, timeVars, Standby
  <1>1. ASSUME NEW x \in Proxies, Start(x) PROVE OrphanWaits(p)'
    <2>1. CASE x = p
      <3>1. orphaned'[p] = 0 /\ pc'[p] = "choose" /\ flight' = flight
        BY <1>1, <1>a, <2>1 DEF Start
      <3> QED
        BY <1>a, <3>1 DEF OrphanWaits
    <2>2. CASE x # p
      <3>1. /\ Standby(p) /\ pc'[p] = pc[p] /\ orphaned'[p] = orphaned[p]
            /\ arrived'[p] = arrived[p] /\ UNCHANGED <<slept, flight>>
            /\ \A m \in Proxies : Publishing(m)' => Publishing(m)
        BY <1>1, <1>a, <2>2 DEF Start, Publishing
      <3> QED
        BY <1>c, <3>1 DEF OrphanWaits
    <2> QED
      BY <2>1, <2>2
  <1>2. ASSUME NEW x \in Proxies, Stop(x) PROVE OrphanWaits(p)'
    BY <1>2, <1>a, <1>d DEF Stop, Publishing
  <1>3. ASSUME NEW x \in Proxies, Exit(x) PROVE OrphanWaits(p)'
    BY <1>3, <1>a, <1>d DEF Exit, Publishing
  <1>4. ASSUME NEW x \in Proxies, Crash(x) PROVE OrphanWaits(p)'
    BY <1>4, <1>a, <1>d DEF Crash, Publishing
  <1>5. ASSUME NEW x \in Proxies, Choose(x) PROVE OrphanWaits(p)'
    <2>1. Standby(p) /\ UNCHANGED <<orphaned, arrived, flight, master, stop>>
      BY <1>5, <1>a DEF Choose
    <2>2. CASE x = p
      <3>1. pc'[p] = "subscriber_sleeps" /\ slept'[p] = 0 /\ orphaned'[p] = 0
        BY <1>5, <1>a, <1>c, <2>1, <2>2 DEF Choose, OrphanWaits
      <3> QED
        BY <1>a, <1>b, <2>1, <3>1, TimeAssumption DEF OrphanWaits
    <2>3. CASE x # p
      <3>1. ~Serving(x)
        BY <1>5, <1>a, <1>e, <2>1 DEF Choose, Publishing
      <3>2. \A m \in Proxies : Publishing(m)' => Publishing(m)
        BY <1>5, <1>a, <3>1 DEF Choose, Publishing, Serving
      <3> QED
        BY <1>5, <1>a, <1>d, <2>1, <2>3, <3>2 DEF Choose
    <2> QED
      BY <2>2, <2>3
  <1>6. ASSUME NEW x \in Proxies, Publish(x) PROVE OrphanWaits(p)'
    <2>1. /\ Standby(p) /\ UNCHANGED <<orphaned, arrived>> /\ x # p /\ Publishing(x)
          /\ pc'[p] = pc[p] /\ slept'[p] = slept[p]
          /\ flight'[p] \subseteq flight[p] \cup {0}
      BY <1>6, <1>a DEF Publish, Publishing, RolesKept
    <2>2. orphaned[p] = 0
      BY <1>a, <1>c, <2>1 DEF OrphanWaits
    <2> QED
      BY <1>c, <2>1, <2>2 DEF OrphanWaits
  <1>7. ASSUME NEW x \in Proxies, PublisherWakes(x) PROVE OrphanWaits(p)'
    BY <1>7, <1>a, <1>d DEF PublisherWakes, Publishing, RolesKept
  <1>8. ASSUME NEW x \in Proxies, PublisherEnds(x) PROVE OrphanWaits(p)'
    BY <1>8, <1>a, <1>d DEF PublisherEnds, Publishing
  <1>9. ASSUME NEW x \in Proxies, Promote(x) PROVE OrphanWaits(p)'
    BY <1>9, <1>a, <1>d DEF Promote, Overslept, Publishing
  <1>10. ASSUME NEW x \in Proxies, MasterIsAlive(x) PROVE OrphanWaits(p)'
    <2>1. CASE x = p
      <3>1. /\ Standby(p) /\ arrived[p] /\ pc[p] = "subscriber_sleeps" /\ pc'[p] = "reset"
            /\ UNCHANGED <<orphaned, flight>>
            /\ \A m \in Proxies : Publishing(m)' => Publishing(m)
        BY <1>10, <1>a, <2>1 DEF MasterIsAlive, Overslept, Publishing
      <3>2. slept[p] <= keepalived_interval + Late /\ slept[p] \in Nat /\ orphaned[p] \in Nat
        BY <1>a, <3>1 DEF ClocksBounded, Listening
      <3>3. orphaned[p] <= Grace
        BY <1>c, <3>1, <3>2, TimeAssumption DEF OrphanWaits, Grace
      <3> QED
        BY <1>c, <3>1, <3>3 DEF OrphanWaits
    <2>2. CASE x # p
      BY <1>10, <1>a, <1>d, <2>2 DEF MasterIsAlive, Overslept, Publishing
    <2> QED
      BY <2>1, <2>2
  <1>11. ASSUME NEW x \in Proxies, Reset(x) PROVE OrphanWaits(p)'
    <2>1. CASE x = p
      <3>1. /\ Standby(p) /\ pc[p] = "reset" /\ pc'[p] = "subscriber_sleeps" /\ ~arrived'[p]
            /\ slept'[p] = 0 /\ UNCHANGED <<orphaned, flight>>
            /\ \A m \in Proxies : Publishing(m)' => Publishing(m)
        BY <1>11, <1>a, <2>1 DEF Reset, Publishing, AfterTest
      <3> QED
        BY <1>b, <1>c, <3>1 DEF OrphanWaits
    <2>2. CASE x # p
      <3>1. /\ Standby(p) /\ pc'[p] = pc[p] /\ orphaned' = orphaned
            /\ arrived'[p] = arrived[p] /\ slept'[p] = slept[p] /\ flight'[p] = flight[p]
            /\ \A m \in Proxies : Publishing(m)' => Publishing(m)
        BY <1>11, <1>a, <2>2 DEF Reset, Publishing
      <3> QED
        BY <1>c, <3>1 DEF OrphanWaits
    <2> QED
      BY <2>1, <2>2
  <1>12. ASSUME NEW x \in Proxies, Deliver(x) PROVE OrphanWaits(p)'
    <2>1. CASE x = p
      <3>1. PICK n \in flight[p] : flight' = [flight EXCEPT ![p] = flight[p] \ {n}]
        BY <1>12, <2>1 DEF Deliver
      <3>2. /\ Standby(p) /\ arrived'[p] /\ UNCHANGED <<pc, slept, orphaned>>
            /\ flight'[p] \subseteq flight[p]
            /\ \A m \in Proxies : Publishing(m)' => Publishing(m)
        BY <1>12, <1>a, <2>1, <3>1 DEF Deliver, Publishing
      <3>3. orphaned[p] <= MaxDelay
        BY <1>a, <1>c, <3>1, <3>2, TimeAssumption DEF OrphanWaits, ClocksBounded
      <3>4. orphaned[p] <= MaxDelay + slept[p]
        BY <1>a, <3>3, TimeAssumption
      <3> QED
        BY <1>c, <3>2, <3>4 DEF OrphanWaits
    <2>2. CASE x # p
      <3>1. /\ Standby(p) /\ UNCHANGED <<pc, slept, orphaned>> /\ arrived'[p] = arrived[p]
            /\ flight'[p] = flight[p] /\ \A m \in Proxies : Publishing(m)' => Publishing(m)
        BY <1>12, <1>a, <2>2 DEF Deliver, Publishing
      <3> QED
        BY <1>c, <3>1 DEF OrphanWaits
    <2> QED
      BY <2>1, <2>2
  <1>13. ASSUME NEW x \in Proxies, NEW y \in Proxies, Match(x, y) PROVE OrphanWaits(p)'
    BY <1>13, <1>a, <1>d DEF Match, Publishing
  <1>14. CASE Tick
    <2>1. /\ Standby(p) /\ UNCHANGED <<pc, arrived>> /\ pc[p] \notin {"choose", "reset"}
          /\ slept'[p] = IF Asleep(p) THEN slept[p] + 1 ELSE slept[p]
          /\ flight'[p] = {n + 1 : n \in flight[p]}
          /\ orphaned'[p] = IF ~\E m \in Proxies : Publishing(m)
                              THEN AtMost(orphaned[p] + 1, FailoverTime + 1) ELSE 0
      BY <1>14, <1>a, TickIs
    <2>2. \A m \in Proxies : Publishing(m)' <=> Publishing(m)
      BY <2>1 DEF Publishing
    <2>3. orphaned[p] \in Nat /\ slept[p] \in Nat /\ flight[p] \subseteq Nat
      BY <1>a
    <2>4. CASE \E m \in Proxies : Publishing(m)
      <3>1. orphaned'[p] = 0 /\ slept'[p] \in Nat
        BY <2>1, <2>3, <2>4
      <3> QED
        BY <1>b, <2>1, <2>3, <3>1, TimeAssumption DEF OrphanWaits
    <2>5. CASE ~\E m \in Proxies : Publishing(m)
      <3>1. orphaned'[p] <= orphaned[p] + 1 /\ orphaned'[p] \in Nat
        BY <2>1, <2>3, <2>5, Bounds DEF AtMost
      <3>2. \A n \in flight'[p] : orphaned'[p] <= n
        BY <1>c, <2>1, <2>3, <3>1 DEF OrphanWaits
      <3>3. pc[p] = "subscriber_sleeps" => slept'[p] = slept[p] + 1
        BY <2>1 DEF Asleep
      <3>4. pc[p] = "subscriber_sleeps" => orphaned'[p] <= Grace + slept'[p]
        BY <1>b, <1>c, <2>1, <2>3, <3>1, <3>3 DEF OrphanWaits
      <3>5. pc[p] = "subscriber_sleeps" /\ arrived[p] => orphaned'[p] <= MaxDelay + slept'[p]
        BY <1>c, <2>1, <2>3, <3>1, <3>3, TimeAssumption DEF OrphanWaits
      <3> QED
        BY <2>1, <2>2, <2>5, <3>2, <3>4, <3>5 DEF OrphanWaits
    <2> QED
      BY <2>4, <2>5
  <1>15. CASE UNCHANGED vars
    BY <1>15, <1>d DEF vars, Publishing
  <1> QED
    BY <1>1, <1>2, <1>3, <1>4, <1>5, <1>6, <1>7, <1>8, <1>9, <1>10, <1>11, <1>12, <1>13, <1>14,
        <1>15 DEF Next

\* Those bounds add up to FailoverTime.
LEMMA InTimeStep ==
  ASSUME Base, OrphansWait, FailoverInTime, [Next]_vars, OrphansWait', Base'
  PROVE  FailoverInTime'
  <1> SUFFICES ASSUME NEW p \in Proxies PROVE orphaned'[p] <= FailoverTime
    BY Bounds DEF FailoverInTime
  <1>a. Shapes /\ RolesKept
    BY DEF Base
  <1>1. orphaned[p] <= FailoverTime
    BY DEF FailoverInTime
  <1>2. orphaned' = orphaned \/ (\E x \in Proxies : Start(x)) \/ Tick
    BY DEF Next, vars, timeVars, Stop, Exit, Crash, Choose, Publish, PublisherWakes, PublisherEnds,
       Promote, MasterIsAlive, Reset, Deliver, Match
  <1>3. ASSUME NEW x \in Proxies, Start(x) PROVE orphaned'[p] <= FailoverTime
    BY <1>a, <1>1, <1>3, Bounds DEF Start, Shapes
  <1>4. CASE Tick
    <2>1. CASE Standby(p)
      <3>1. pc[p] = "subscriber_sleeps" /\ pc' = pc /\ Standby(p)'
        BY <1>a, <1>4, <2>1, TickIs DEF Standby, RolesKept, Publishing, Shapes, Places
      <3>2. orphaned'[p] <= Grace + slept'[p] /\ slept'[p] <= keepalived_interval + Late
        BY <3>1 DEF OrphansWait, OrphanWaits, Base, ClocksBounded, Listening
      <3>3. orphaned'[p] \in Nat /\ slept'[p] \in Nat
        BY DEF Base, Shapes
      <3> QED
        BY <3>2, <3>3, Bounds, TimeAssumption
    <2>2. CASE ~Standby(p)
      BY <1>a, <1>4, <2>2, TickIs, Bounds
    <2> QED
      BY <2>1, <2>2
  <1> QED
    BY <1>1, <1>2, <1>3, <1>4

\* Nobody is orphaned at first.
LEMMA FailoverInvInit == Init => FailoverInv
  <1> SUFFICES ASSUME Init PROVE FailoverInv
    OBVIOUS
  <1>1. /\ \A p \in Proxies : orphaned[p] = 0 /\ ~Standby(p)
        /\ FailoverTime \in Nat
    BY Bounds DEF Init, Standby
  <1> QED
    BY <1>1, BaseInit DEF FailoverInv, OrphansWait, FailoverInTime

\* The parts of FailoverInv together are inductive.
LEMMA FailoverInvStep == TwoProxies /\ FailoverInv /\ [Next]_vars => FailoverInv'
  BY BaseStep, OrphansStep, InTimeStep DEF FailoverInv

\* A slave does not stay on standby beside a master that died for longer than the last
\* heartbeat, an interval that hears it and an interval of silence.
THEOREM FailoverIsInTime ==
  ASSUME TwoProxies
  PROVE  Spec => []FailoverInTime
  <1>1. FailoverInv => FailoverInTime
    BY DEF FailoverInv
  <1> QED
    BY FailoverInvInit, FailoverInvStep, <1>1, PTL DEF Spec
=============================================================================
