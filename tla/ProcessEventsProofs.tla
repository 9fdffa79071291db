------------------------ MODULE ProcessEventsProofs ------------------------
(***************************************************************************)
(* For any timers, watchers and signals, in any order of registration: a   *)
(* reload never meets a proxy that is stopped, and no thread is inside a   *)
(* handler that main has destroyed.                                        *)
(*                                                                         *)
(* Both follow from the order of main's script, once it is known what a    *)
(* reset leaves behind: the thread of a timer or of a watcher has ended,   *)
(* and that of a signal, which is not joined, holds the mutex of its       *)
(* source for as long as it is inside, so telling the source waits for it. *)
(***************************************************************************)
EXTENDS ProcessEvents, SequenceTheorems, TLAPS

InEvent == {"event", "reload", "close", "over"}
Places == InEvent \cup {"wait", "lock", "routine", "falls_asleep", "asleep", "ended"}

Shapes ==
  /\ isSet \in [Handlers \cup {Close} -> BOOLEAN]
  /\ outer \in [Handlers -> Handlers \cup {Nobody}]
  /\ active \in [Handlers -> BOOLEAN]
  /\ pc \in [Handlers -> Places]
  /\ at \in 1..(Len(Script) + 1)
  /\ phase \in {"callback", "source", "notify", "join"}
  /\ phase # "callback" => Doing("reset")

\* Each thread runs what its handler was made for.
ThreadsKnowTheirJob ==
  \A h \in Handlers :
    /\ pc[h] = "reload" => h \in Range(Reloaders)
    /\ pc[h] = "close" => h \in Range(Closers)

\* The thread of a signal is inside its handler with the mutex of the source.
SignalsHold == \A h \in Signals : pc[h] \in InEvent => outer[h] = h

\* The source of h was told to end.
Told(h) == Gone(h) \/ (phase \in {"notify", "join"} /\ Subject = h)
ToldIsQuiet ==
  \A h \in Handlers : Told(h) => ~active[h] /\ (h \in Signals => pc[h] \notin InEvent)

\* The thread of a handler that is gone was joined, unless it is that of a signal.
GoneHasEnded == \A h \in Handlers \ Signals : Gone(h) => pc[h] = "ended"

\* The proxy is stopped at its place in the script.
StoppedInTurn == proxy = "running" \/ at > Len(Reloaders) + 3

IInv == /\ Shapes /\ ThreadsKnowTheirJob /\ SignalsHold
        /\ ToldIsQuiet /\ GoneHasEnded /\ StoppedInTurn

-----------------------------------------------------------------------------
\* The script of main, position by position.

Entries == {"wait", "reset", "join", "stop", "unset", "exit"}
             \X (Handlers \cup {Close, "alive", "proxy", Main})

\* A sequence of resets, one for each handler.
LEMMA ResetsAreEntries ==
  ASSUME NEW s \in Seq(Handlers)
  PROVE  /\ Resets(s) \in Seq(Entries) /\ Len(Resets(s)) = Len(s) /\ Len(s) \in Nat
         /\ \A i \in 1..Len(s) : Resets(s)[i] = <<"reset", s[i]>> /\ s[i] \in Handlers
  <1>1. Len(s) \in Nat /\ DOMAIN s = 1..Len(s) /\ \A i \in 1..Len(s) : s[i] \in Handlers
    BY LenProperties, ElementOfSeq
  <1>2. Resets(s) = [i \in 1..Len(s) |-> <<"reset", s[i]>>]
    BY <1>1 DEF Resets
  <1>3. \A i \in 1..Len(s) : <<"reset", s[i]>> \in Entries
    BY <1>1 DEF Entries
  <1>4. Resets(s) \in Seq(Entries) /\ Len(Resets(s)) = Len(s)
    BY <1>1, <1>2, <1>3
  <1> QED
    BY <1>1, <1>2, <1>4

\* One sequence after another.
LEMMA Joined ==
  ASSUME NEW s \in Seq(Entries), NEW t \in Seq(Entries), NEW u, u = s \o t
  PROVE  /\ u \in Seq(Entries) /\ Len(s) \in Nat /\ Len(t) \in Nat /\ Len(u) = Len(s) + Len(t)
         /\ \A i \in 1..Len(s) : u[i] = s[i]
         /\ \A i \in 1..Len(t) : u[Len(s) + i] = t[i]
  <1>1. Len(s) \in Nat /\ Len(t) \in Nat
    BY LenProperties
  <1>2. /\ u \in Seq(Entries) /\ Len(u) = Len(s) + Len(t)
        /\ \A i \in 1..(Len(s) + Len(t)) : u[i] = IF i <= Len(s) THEN s[i] ELSE t[i - Len(s)]
    BY ConcatProperties
  <1>3. \A i \in 1..Len(s) : u[i] = s[i]
    BY <1>1, <1>2
  <1>4. ASSUME NEW i \in 1..Len(t) PROVE u[Len(s) + i] = t[i]
    <2>1. Len(s) + i \in 1..(Len(s) + Len(t)) /\ ~(Len(s) + i <= Len(s)) /\ Len(s) + i - Len(s) = i
      BY <1>1
    <2> QED
      BY <1>2, <2>1
  <1> QED
    BY <1>1, <1>2, <1>3, <1>4

\* Waiting, the handlers that reload, the end of the keep-alive thread and of the proxy, the
\* handlers that close, and the end.
LEMMA ScriptLayout ==
  LET n == Len(Reloaders)
      m == Len(Closers)
  IN  /\ n \in Nat /\ m \in Nat /\ Len(Script) = n + m + 5
      /\ Script[1] = <<"wait", Close>>
      /\ \A i \in 1..n : Script[i + 1] = <<"reset", Reloaders[i]>> /\ Reloaders[i] \in Handlers
      /\ Script[n + 2] = <<"join", "alive">> /\ Script[n + 3] = <<"stop", "proxy">>
      /\ \A i \in 1..m : Script[n + 3 + i] = <<"reset", Closers[i]>> /\ Closers[i] \in Handlers
      /\ Script[n + m + 4] = <<"unset", Close>> /\ Script[n + m + 5] = <<"exit", Main>>
  <1> DEFINE n == Len(Reloaders)
             m == Len(Closers)
             s1 == <<<<"wait", Close>>>>
             s2 == Resets(Reloaders)
             s3 == <<<<"join", "alive">>, <<"stop", "proxy">>>>
             s4 == Resets(Closers)
             s5 == <<<<"unset", Close>>, <<"exit", Main>>>>
  <1>1. s1 \in Seq(Entries) /\ Len(s1) = 1 /\ s1[1] = <<"wait", Close>>
    BY DEF Entries
  <1>2. /\ s2 \in Seq(Entries) /\ Len(s2) = n /\ n \in Nat
        /\ \A i \in 1..n : s2[i] = <<"reset", Reloaders[i]>> /\ Reloaders[i] \in Handlers
    BY HandlerAssumption, ResetsAreEntries
  <1>3. /\ s3 \in Seq(Entries) /\ Len(s3) = 2
        /\ s3[1] = <<"join", "alive">> /\ s3[2] = <<"stop", "proxy">>
    BY DEF Entries
  <1>4. /\ s4 \in Seq(Entries) /\ Len(s4) = m /\ m \in Nat
        /\ \A i \in 1..m : s4[i] = <<"reset", Closers[i]>> /\ Closers[i] \in Handlers
    BY HandlerAssumption, ResetsAreEntries
  <1>5. /\ s5 \in Seq(Entries) /\ Len(s5) = 2
        /\ s5[1] = <<"unset", Close>> /\ s5[2] = <<"exit", Main>>
    BY DEF Entries
  <1>6. Script = (((s1 \o s2) \o s3) \o s4) \o s5
    BY DEF Script
  <1> HIDE DEF n, m, s1, s2, s3, s4, s5
  <1>7. PICK a : a = s1 \o s2
    OBVIOUS
  <1>8. PICK b : b = a \o s3
    OBVIOUS
  <1>9. PICK c : c = b \o s4
    OBVIOUS
  <1>10. Script = c \o s5
    BY <1>6, <1>7, <1>8, <1>9
  <1>11. /\ a \in Seq(Entries) /\ Len(a) = 1 + n /\ a[1] = s1[1]
         /\ \A i \in 1..n : a[1 + i] = s2[i]
    <2>1. s1 \in Seq(Entries) /\ s2 \in Seq(Entries)
      BY <1>1, <1>2
    <2>2. /\ a \in Seq(Entries) /\ Len(a) = Len(s1) + Len(s2)
          /\ \A i \in 1..Len(s1) : a[i] = s1[i]
          /\ \A i \in 1..Len(s2) : a[Len(s1) + i] = s2[i]
      BY <2>1, <1>7, Joined
    <2> QED
      BY <1>1, <1>2, <2>2
  <1>12. /\ b \in Seq(Entries) /\ Len(b) = n + 3 /\ b[n + 2] = s3[1] /\ b[n + 3] = s3[2]
         /\ \A i \in 1..(n + 1) : b[i] = a[i]
    <2>1. a \in Seq(Entries) /\ s3 \in Seq(Entries) /\ Len(a) = 1 + n /\ Len(s3) = 2 /\ n \in Nat
      BY <1>2, <1>3, <1>11
    <2>s. a \in Seq(Entries) /\ s3 \in Seq(Entries)
      BY <1>3, <1>11
    <2>0. /\ b \in Seq(Entries) /\ Len(b) = Len(a) + Len(s3)
          /\ \A i \in 1..Len(a) : b[i] = a[i]
          /\ \A i \in 1..Len(s3) : b[Len(a) + i] = s3[i]
      BY <2>s, <1>8, Joined
    <2>2. /\ b \in Seq(Entries) /\ Len(b) = (1 + n) + 2
          /\ \A i \in 1..(1 + n) : b[i] = a[i]
          /\ \A i \in 1..2 : b[(1 + n) + i] = s3[i]
      BY <2>0, <2>1
    <2>3. (1 + n) + 1 = n + 2 /\ (1 + n) + 2 = n + 3 /\ 1..(1 + n) = 1..(n + 1)
      BY <2>1
    <2>4. b[(1 + n) + 1] = s3[1] /\ b[(1 + n) + 2] = s3[2]
      BY <2>2
    <2> QED
      BY <2>2, <2>3, <2>4
  <1>13. /\ c \in Seq(Entries) /\ Len(c) = n + 3 + m
         /\ \A i \in 1..(n + 3) : c[i] = b[i]
         /\ \A i \in 1..m : c[n + 3 + i] = s4[i]
    <2>1. b \in Seq(Entries) /\ s4 \in Seq(Entries) /\ Len(b) = n + 3 /\ Len(s4) = m
      BY <1>4, <1>12
    <2>s. b \in Seq(Entries) /\ s4 \in Seq(Entries)
      BY <1>4, <1>12
    <2>2. /\ c \in Seq(Entries) /\ Len(c) = Len(b) + Len(s4)
          /\ \A i \in 1..Len(b) : c[i] = b[i]
          /\ \A i \in 1..Len(s4) : c[Len(b) + i] = s4[i]
      BY <2>s, <1>9, Joined
    <2> QED
      BY <2>1, <2>2
  <1>14. /\ Len(Script) = n + m + 5
         /\ \A i \in 1..(n + m + 3) : Script[i] = c[i]
         /\ Script[n + m + 4] = s5[1] /\ Script[n + m + 5] = s5[2]
    <2>1. /\ c \in Seq(Entries) /\ s5 \in Seq(Entries) /\ Len(c) = n + 3 + m /\ Len(s5) = 2
          /\ n \in Nat /\ m \in Nat
      BY <1>2, <1>4, <1>5, <1>13
    <2>s. c \in Seq(Entries) /\ s5 \in Seq(Entries)
      BY <1>5, <1>13
    <2>0. /\ Script \in Seq(Entries) /\ Len(Script) = Len(c) + Len(s5)
          /\ \A i \in 1..Len(c) : Script[i] = c[i]
          /\ \A i \in 1..Len(s5) : Script[Len(c) + i] = s5[i]
      BY <2>s, <1>10, Joined
    <2>2. /\ Len(Script) = (n + 3 + m) + 2
          /\ \A i \in 1..(n + 3 + m) : Script[i] = c[i]
          /\ \A i \in 1..2 : Script[(n + 3 + m) + i] = s5[i]
      BY <2>0, <2>1
    <2>3. /\ (n + 3 + m) + 1 = n + m + 4 /\ (n + 3 + m) + 2 = n + m + 5
          /\ 1..(n + 3 + m) = 1..(n + m + 3)
      BY <2>1
    <2>4. Script[(n + 3 + m) + 1] = s5[1] /\ Script[(n + 3 + m) + 2] = s5[2]
      BY <2>2
    <2> QED
      BY <2>2, <2>3, <2>4
  <1>15. /\ 1 \in 1..(n + m + 3) /\ 1 \in 1..(n + 3) /\ 1 \in 1..(n + 1)
         /\ n + 2 \in 1..(n + m + 3) /\ n + 2 \in 1..(n + 3)
         /\ n + 3 \in 1..(n + m + 3) /\ n + 3 \in 1..(n + 3)
         /\ \A i \in 1..n : 1 + i = i + 1 /\ 1 + i \in 1..(n + m + 3) /\ 1 + i \in 1..(n + 3)
                            /\ 1 + i \in 1..(n + 1)
         /\ \A i \in 1..m : n + 3 + i \in 1..(n + m + 3)
    BY <1>2, <1>4
  <1>16. \A i \in 1..n : Script[i + 1] = <<"reset", Reloaders[i]>> /\ Reloaders[i] \in Handlers
    <2> TAKE i \in 1..n
    <2>1. Script[1 + i] = c[1 + i] /\ c[1 + i] = b[1 + i] /\ b[1 + i] = a[1 + i] /\ a[1 + i] = s2[i]
      BY <1>11, <1>12, <1>13, <1>14, <1>15
    <2>2. 1 + i = i + 1
      BY <1>15
    <2> QED
      BY <1>2, <2>1, <2>2
  <1>17. /\ Script[1] = <<"wait", Close>>
         /\ Script[n + 2] = <<"join", "alive">> /\ Script[n + 3] = <<"stop", "proxy">>
    BY <1>1, <1>3, <1>11, <1>12, <1>13, <1>14, <1>15
  <1>18. \A i \in 1..m : Script[n + 3 + i] = <<"reset", Closers[i]>> /\ Closers[i] \in Handlers
    BY SMTT(30), <1>4, <1>13, <1>14, <1>15
  <1>19. Script[n + m + 4] = <<"unset", Close>> /\ Script[n + m + 5] = <<"exit", Main>>
    BY <1>5, <1>14
  <1> QED
    BY <1>2, <1>4, <1>14, <1>16, <1>17, <1>18, <1>19 DEF n, m

\* What a position is, from what main does there.
LEMMA ScriptKinds ==
  ASSUME NEW i \in 1..Len(Script)
  PROVE  \/ Script[i][1] = "wait"
         \/ Script[i][1] = "reset" /\ Script[i][2] \in Handlers
         \/ Script[i][1] = "join"
         \/ Script[i][1] = "stop" /\ i = Len(Reloaders) + 3
         \/ Script[i][1] = "unset" /\ Script[i][2] = Close /\ i = Len(Script) - 1
         \/ Script[i][1] = "exit"
  <1> DEFINE n == Len(Reloaders)
             m == Len(Closers)
  <1>1. n \in Nat /\ m \in Nat /\ Len(Script) = n + m + 5
    BY ScriptLayout
  <1>2. CASE i = 1
    <2>1. Script[i] = <<"wait", Close>>
      BY <1>2, ScriptLayout
    <2> QED
      BY <2>1
  <1>3. CASE i \in 2..(n + 1)
    <2>1. PICK j \in 1..n : i = j + 1
      <3>1. i - 1 \in 1..n /\ i = (i - 1) + 1
        BY <1>1, <1>3
      <3> QED
        BY <3>1
    <2>2. Script[j + 1] = <<"reset", Reloaders[j]>> /\ Reloaders[j] \in Handlers
      BY ScriptLayout
    <2> QED
      BY <2>1, <2>2
  <1>4. CASE i = n + 2
    <2>1. Script[i] = <<"join", "alive">>
      BY <1>4, ScriptLayout
    <2> QED
      BY <2>1
  <1>5. CASE i = n + 3
    <2>1. Script[i] = <<"stop", "proxy">>
      BY <1>5, ScriptLayout
    <2> QED
      BY <1>5, <2>1
  <1>6. CASE i \in (n + 4)..(n + m + 3)
    <2>1. PICK j \in 1..m : i = n + 3 + j
      <3>1. i - (n + 3) \in 1..m /\ i = n + 3 + (i - (n + 3))
        BY <1>1, <1>6
      <3> QED
        BY <3>1
    <2>2. Script[n + 3 + j] = <<"reset", Closers[j]>> /\ Closers[j] \in Handlers
      BY ScriptLayout
    <2> QED
      BY <2>1, <2>2
  <1>7. CASE i = n + m + 4
    <2>1. Script[i] = <<"unset", Close>>
      BY <1>7, ScriptLayout
    <2>2. i = Len(Script) - 1
      BY <1>1, <1>7
    <2> QED
      BY <2>1, <2>2
  <1>8. CASE i = n + m + 5
    <2>1. Script[i] = <<"exit", Main>>
      BY <1>8, ScriptLayout
    <2> QED
      BY <2>1
  <1>9. \/ i = 1 \/ i \in 2..(n + 1) \/ i = n + 2 \/ i = n + 3 \/ i \in (n + 4)..(n + m + 3)
        \/ i = n + m + 4 \/ i = n + m + 5
    BY <1>1
  <1> QED
    BY <1>2, <1>3, <1>4, <1>5, <1>6, <1>7, <1>8, <1>9

\* The handlers that reload go before the proxy, those that close before close_handler.
LEMMA ScriptOrder ==
  ASSUME at \in 1..(Len(Script) + 1)
  PROVE  /\ \A h \in Range(Reloaders) : at > Len(Reloaders) + 3 => Gone(h)
         /\ \A h \in Range(Closers) : Gone(Close) => Gone(h)
  <1> DEFINE n == Len(Reloaders)
             m == Len(Closers)
  <1>1. n \in Nat /\ m \in Nat /\ Len(Script) = n + m + 5
    BY ScriptLayout
  <1>2. DOMAIN Reloaders = 1..n /\ DOMAIN Closers = 1..m
    BY HandlerAssumption, LenProperties
  <1>3. ASSUME NEW h \in Range(Reloaders), at > n + 3 PROVE Gone(h)
    <2>1. PICK i \in 1..n : h = Reloaders[i]
      BY <1>2 DEF Range
    <2>2. Script[i + 1] = <<"reset", h>>
      BY <2>1, ScriptLayout
    <2>3. i + 1 \in 1..Len(Script) /\ i + 1 < at
      BY <1>1, <1>3
    <2> QED
      BY <2>2, <2>3 DEF Gone
  <1>4. ASSUME NEW h \in Range(Closers), Gone(Close) PROVE Gone(h)
    <2>1. PICK j \in 1..Len(Script) :
            j < at /\ Script[j][1] \in {"reset", "unset"} /\ Script[j][2] = Close
      BY <1>4 DEF Gone
    <2>2. j = Len(Script) - 1
      BY <2>1, ScriptKinds, HandlerAssumption
    <2>3. PICK i \in 1..m : h = Closers[i]
      BY <1>2 DEF Range
    <2>4. Script[n + 3 + i] = <<"reset", h>>
      BY <2>3, ScriptLayout
    <2>5. n + 3 + i \in 1..Len(Script) /\ n + 3 + i < at
      BY <1>1, <2>1, <2>2
    <2> QED
      BY <2>4, <2>5 DEF Gone
  <1> QED
    BY <1>3, <1>4

-----------------------------------------------------------------------------
\* What main has done stays done, and a step onward adds the handler it was resetting.
LEMMA GoneOnward ==
  ASSUME at \in 1..(Len(Script) + 1), at <= Len(Script), Onward, NEW h \in Handlers
  PROVE  Gone(h)' <=> Gone(h) \/ (Doing("reset") /\ Subject = h)
  <1>1. Len(Script) \in Nat
    BY ScriptLayout
  <1>2. at \in 1..Len(Script) /\ at' = at + 1
    BY <1>1 DEF Onward
  <1>3. \A i \in 1..Len(Script) : i < at' <=> i < at \/ i = at
    BY <1>1, <1>2
  <1>4. Script[at][1] = "unset" => Script[at][2] # h
    BY <1>2, ScriptKinds, HandlerAssumption
  <1>5. Gone(h)' <=> \E i \in 1..Len(Script) :
          i < at' /\ Script[i][1] \in {"reset", "unset"} /\ Script[i][2] = h
    BY DEF Gone
  <1>6. Gone(h) <=> \E i \in 1..Len(Script) :
          i < at /\ Script[i][1] \in {"reset", "unset"} /\ Script[i][2] = h
    BY DEF Gone
  <1> QED
    BY <1>1, <1>2, <1>3, <1>4, <1>5, <1>6 DEF Doing, Subject

\* While main stands still, nobody else is told or gone.
LEMMA MainStands ==
  UNCHANGED <<at, phase>> => \A h \in Handlers : (Gone(h)' <=> Gone(h)) /\ (Told(h)' <=> Told(h))
  BY DEF Gone, Told, Subject

\* main resets handlers.
LEMMA ResetsHandlers ==
  ASSUME at \in 1..(Len(Script) + 1), Doing("reset")
  PROVE  Subject \in Handlers /\ at \in 1..Len(Script)
  <1>1. at \in 1..Len(Script)
    BY ScriptLayout DEF Doing
  <1> QED
    BY <1>1, ScriptKinds DEF Doing, Subject

\* The objects are made, and main waits.
LEMMA IInvInit == Init => IInv
  <1> SUFFICES ASSUME Init PROVE IInv
    OBVIOUS
  <1>1. /\ at = 1 /\ phase = "callback" /\ proxy = "running"
        /\ pc = [h \in Handlers |-> "wait"] /\ active = [h \in Handlers |-> TRUE]
        /\ outer = [h \in Handlers |-> Nobody]
        /\ isSet = [h \in Handlers \cup {Close} |-> TRUE]
    BY DEF Init
  <1>2. 1 \in 1..(Len(Script) + 1)
    BY ScriptLayout
  <1>3. Shapes
    BY <1>1, <1>2 DEF Shapes, Places, InEvent
  <1>4. \A h \in Handlers : ~Gone(h) /\ ~Told(h)
    BY <1>1 DEF Gone, Told
  <1>5. \A h \in Handlers : pc[h] = "wait"
    BY <1>1
  <1>6. ThreadsKnowTheirJob /\ SignalsHold
    BY <1>5 DEF ThreadsKnowTheirJob, SignalsHold, InEvent, Handlers
  <1>7. ToldIsQuiet /\ GoneHasEnded
    BY <1>4 DEF ToldIsQuiet, GoneHasEnded
  <1> QED
    BY <1>1, <1>3, <1>6, <1>7 DEF IInv, StoppedInTurn

\* The thread of h goes to place x, and holds the mutex of its source or lets it go: that of a
\* signal into the handler only from a source that is active, and with the mutex.
Moves(h, x, y) ==
  /\ UNCHANGED <<isSet, active, at, phase, proxy>>
  /\ x \in Places /\ pc' = [pc EXCEPT ![h] = x]
  /\ y \in {outer[h], h, Nobody} /\ outer' = [outer EXCEPT ![h] = y]
  /\ x = "reload" => h \in Range(Reloaders)
  /\ x = "close" => h \in Range(Closers)
  /\ h \in Signals /\ x \in InEvent => y = h /\ (pc[h] \in InEvent \/ active[h])
  /\ pc[h] = "ended" => x = "ended"

\* Such a move keeps everything.
LEMMA ThreadMoves ==
  ASSUME IInv, NEW h \in Handlers, NEW x, NEW y, Moves(h, x, y)
  PROVE  IInv'
  <1> USE DEF Moves
  <1>1. \A g \in Handlers : pc'[g] = (IF g = h THEN x ELSE pc[g])
                            /\ outer'[g] = (IF g = h THEN y ELSE outer[g])
    BY DEF IInv, Shapes
  <1>2. Shapes'
    <2>1. pc' \in [Handlers -> Places] /\ outer' \in [Handlers -> Handlers \cup {Nobody}]
      BY DEF IInv, Shapes
    <2>2. Doing("reset")' <=> Doing("reset")
      BY DEF Doing
    <2> QED
      BY <2>1, <2>2 DEF IInv, Shapes
  <1>3. ThreadsKnowTheirJob'
    BY <1>1 DEF IInv, ThreadsKnowTheirJob
  <1>4. SignalsHold'
    BY <1>1 DEF IInv, SignalsHold, Handlers
  <1>5. ToldIsQuiet'
    <2> SUFFICES ASSUME NEW g \in Handlers, Told(g)'
                 PROVE  ~active'[g] /\ (g \in Signals => pc'[g] \notin InEvent)
      BY DEF ToldIsQuiet
    <2>1. Told(g)
      BY MainStands
    <2> QED
      BY <1>1, <2>1 DEF IInv, ToldIsQuiet
  <1>6. GoneHasEnded'
    BY <1>1, MainStands DEF IInv, GoneHasEnded
  <1> QED
    BY <1>2, <1>3, <1>4, <1>5, <1>6 DEF IInv, StoppedInTurn

\* A step that leaves the handlers, their threads and main alone.
LEMMA Idles ==
  IInv /\ UNCHANGED <<isSet, outer, active, pc, at, phase, proxy>> => IInv'
  BY MainStands DEF IInv, Shapes, ThreadsKnowTheirJob, SignalsHold, ToldIsQuiet, GoneHasEnded,
     StoppedInTurn, Doing

\* The threads of the sources.
LEMMA SourceKeeps ==
  ASSUME IInv, NEW h \in Handlers, Source(h)
  PROVE  IInv'
  <1> USE DEF Goto, Take, signalVars, mainVars, Places, InEvent
  <1>1. outer = [outer EXCEPT ![h] = outer[h]]
    BY DEF IInv, Shapes
  <1>2. Signals \cap (Timers \cup Watchers) = {} /\ Timers \cap Watchers = {}
    BY HandlerAssumption
  <1>3. CASE TimerFires(h)
    <2>1. Moves(h, "event", h) \/ Moves(h, "ended", outer[h])
      BY <1>1, <1>2, <1>3 DEF TimerFires, Moves
    <2> QED
      BY <2>1, ThreadMoves
  <1>4. CASE CallbackThread(h)
    <2>1. \E x : Moves(h, x, outer[h])
      BY <1>1, <1>2, <1>4 DEF CallbackThread, Moves
    <2> QED
      BY <2>1, ThreadMoves
  <1>5. CASE SignalThread(h)
    <2>1. \E x : Moves(h, x, outer[h])
      BY <1>1, <1>5 DEF SignalThread, Moves
    <2> QED
      BY <2>1, ThreadMoves
  <1>6. CASE SignalRoutine(h)
    <2>1. Moves(h, "event", h) \/ Moves(h, "wait", outer[h])
      BY <1>1, <1>6 DEF SignalRoutine, Moves
    <2> QED
      BY <2>1, ThreadMoves
  <1> QED
    BY <1>3, <1>4, <1>5, <1>6 DEF Source

\* The threads inside a handler.
LEMMA ThreadKeeps ==
  ASSUME IInv, NEW h \in Handlers, Thread(h)
  PROVE  IInv'
  <1> USE DEF Goto, Take, signalVars, mainVars, Places, InEvent
  <1>1. outer = [outer EXCEPT ![h] = outer[h]]
    BY DEF IInv, Shapes
  <1>2. h \in Signals /\ pc[h] \in InEvent => outer[h] = h
    BY DEF IInv, SignalsHold
  <1>3. h \in Range(Reloaders) \/ h \in Range(Closers)
    BY HandlerAssumption
  <1>4. CASE Event(h)
    <2>1. \E x : Moves(h, x, outer[h])
      BY <1>1, <1>2, <1>3, <1>4 DEF Event, Moves
    <2> QED
      BY <2>1, ThreadMoves
  <1>6. CASE CloseEvent(h)
    <2>1. Moves(h, "over", outer[h])
      BY <1>1, <1>2, <1>6 DEF CloseEvent, Moves
    <2> QED
      BY <2>1, ThreadMoves
  <1>7. CASE EventOver(h)
    <2>1. Moves(h, "event", Nobody) \/ Moves(h, "wait", Nobody)
      <3>1. CASE h \in Watchers
        BY <1>7, <3>1, HandlerAssumption DEF EventOver, Moves
      <3>2. CASE h \notin Watchers
        BY <1>7, <3>2 DEF EventOver, Moves
      <3> QED
        BY <3>1, <3>2
    <2> QED
      BY <2>1, ThreadMoves
  <1> QED
    BY <1>4, <1>6, <1>7 DEF Thread

\* A reload returns.
LEMMA ReloadKeeps ==
  ASSUME IInv, NEW h \in Handlers, Reload(h)
  PROVE  IInv'
  <1>1. outer = [outer EXCEPT ![h] = outer[h]]
    BY DEF IInv, Shapes
  <1>2. h \in Signals => outer[h] = h
    BY DEF Reload, InEvent, IInv, SignalsHold
  <1>3. Moves(h, "over", outer[h])
    BY <1>1, <1>2 DEF Reload, Moves, Goto, mainVars, Places, InEvent
  <1> QED
    BY <1>3, ThreadMoves

\* The folder changes, and the thread that reads it wakes the one that sleeps.
LEMMA WatchKeeps ==
  ASSUME IInv, NEW h \in Handlers, FileChanges(h) \/ WatchThread(h)
  PROVE  IInv'
  <1>1. outer = [outer EXCEPT ![h] = outer[h]]
    BY DEF IInv, Shapes
  <1>2. CASE FileChanges(h)
    BY <1>2, Idles DEF FileChanges, mainVars
  <1>3. CASE WatchLoop(h) \/ WatchRead(h)
    BY <1>3, Idles DEF WatchLoop, WatchRead, mainVars
  <1>4. CASE WatchNotify(h) /\ pc[h] = "asleep"
    <2>1. Moves(h, "lock", outer[h])
      BY <1>1, <1>4 DEF WatchNotify, Woken, mainVars, Moves, Places, InEvent
    <2> QED
      BY <2>1, ThreadMoves
  <1>5. CASE WatchNotify(h) /\ pc[h] # "asleep"
    BY <1>5, Idles DEF WatchNotify, Woken, mainVars
  <1> QED
    BY <1>2, <1>3, <1>4, <1>5 DEF WatchThread

\* A signal wakes the thread that sleeps, and tells it nothing else.
LEMMA SignalKeeps ==
  ASSUME IInv, NEW h \in Signals, SignalArrives(h) \/ SignalNotifies(h)
  PROVE  IInv'
  <1>1. outer = [outer EXCEPT ![h] = outer[h]] /\ h \in Handlers
    BY DEF IInv, Shapes, Handlers
  <1>2. CASE SignalArrives(h)
    BY <1>2, Idles DEF SignalArrives, mainVars
  <1>3. CASE SignalNotifies(h) /\ pc[h] = "asleep"
    <2>1. Moves(h, "wait", outer[h])
      BY <1>1, <1>3 DEF SignalNotifies, mainVars, Moves, Places, InEvent
    <2> QED
      BY <1>1, <2>1, ThreadMoves
  <1>4. CASE SignalNotifies(h) /\ pc[h] # "asleep"
    BY <1>4, Idles DEF SignalNotifies, mainVars
  <1> QED
    BY <1>2, <1>3, <1>4

-----------------------------------------------------------------------------
\* main goes on to the next entry of its script, with nothing left to do in this one.
Proceeds ==
  /\ at <= Len(Script) /\ Onward
  /\ UNCHANGED <<outer, active, pc>>
  /\ isSet' \in [Handlers \cup {Close} -> BOOLEAN]
  /\ Doing("reset") => phase = "join" /\ (Subject \in Signals \/ pc[Subject] = "ended")
  /\ proxy' = proxy \/ at = Len(Reloaders) + 3

\* What main leaves behind is gone, and quiet.
LEMMA ProceedsKeeps == IInv /\ Proceeds => IInv'
  <1> SUFFICES ASSUME IInv, Proceeds PROVE IInv'
    OBVIOUS
  <1>1. /\ at \in 1..(Len(Script) + 1) /\ at <= Len(Script) /\ Len(Script) \in Nat
        /\ Len(Reloaders) \in Nat /\ at' = at + 1 /\ phase' = "callback"
    BY ScriptLayout DEF IInv, Shapes, Proceeds, Onward
  <1>2. \A h \in Handlers : Gone(h)' <=> Gone(h) \/ (Doing("reset") /\ Subject = h)
    BY <1>1, GoneOnward DEF Proceeds
  <1>3. Shapes'
    BY <1>1 DEF IInv, Shapes, Proceeds
  <1>4. ASSUME NEW h \in Handlers, Told(h)' PROVE Told(h)
    BY <1>1, <1>2, <1>4 DEF Told, Proceeds
  <1>5. ToldIsQuiet'
    BY <1>4 DEF IInv, ToldIsQuiet, Proceeds
  <1>6. GoneHasEnded'
    BY <1>2 DEF IInv, GoneHasEnded, Proceeds
  <1>7. StoppedInTurn'
    BY <1>1 DEF IInv, StoppedInTurn, Proceeds
  <1> QED
    BY <1>3, <1>5, <1>6, <1>7 DEF IInv, ThreadsKnowTheirJob, SignalsHold, Proceeds

\* The first two steps of a reset: no thread moves, and telling the source waits for the
\* thread of a signal to come out.
LEMMA ResetKeeps == IInv /\ (ResetCallback \/ ResetSource) => IInv'
  <1> SUFFICES ASSUME IInv, ResetCallback \/ ResetSource PROVE IInv'
    OBVIOUS
  <1>1. /\ UNCHANGED <<outer, pc, at, proxy>> /\ Doing("reset")
        /\ at \in 1..(Len(Script) + 1)
    BY DEF IInv, Shapes, ResetCallback, ResetSource
  <1>2. Subject \in Handlers
    BY <1>1, ResetsHandlers
  <1>3. \A h \in Handlers : (Gone(h)' <=> Gone(h)) /\ Subject' = Subject
    BY <1>1 DEF Gone, Subject
  <1>4. Doing("reset")'
    BY <1>1 DEF Doing
  <1>5. Shapes'
    BY <1>1, <1>4 DEF IInv, Shapes, ResetCallback, ResetSource
  <1>6. ToldIsQuiet'
    <2>1. CASE ResetCallback
      <3>1. phase' = "source" /\ active' = active
        BY <2>1 DEF ResetCallback
      <3> QED
        BY <1>1, <1>3, <3>1 DEF IInv, ToldIsQuiet, Told
    <2>2. CASE ResetSource
      <3>1. active' = [active EXCEPT ![Subject] = FALSE] /\ outer[Subject] = Nobody
        BY <2>2 DEF ResetSource, MayStop, Free
      <3>2. Subject \in Signals => pc[Subject] \notin InEvent
        BY <1>2, <3>1, HandlerAssumption DEF IInv, SignalsHold
      <3>3. \A h \in Handlers : Told(h)' => Told(h) \/ Subject = h
        BY <1>3 DEF Told
      <3> QED
        BY <1>1, <1>2, <3>1, <3>2, <3>3 DEF IInv, Shapes, ToldIsQuiet
    <2> QED
      BY <2>1, <2>2
  <1>7. GoneHasEnded'
    BY <1>1, <1>3 DEF IInv, GoneHasEnded
  <1> QED
    BY <1>1, <1>5, <1>6, <1>7 DEF IInv, ThreadsKnowTheirJob, SignalsHold, StoppedInTurn

\* The notification of destroy, after which nothing is left to tell.
LEMMA NotifyKeeps == IInv /\ ResetNotifies => IInv'
  <1> SUFFICES ASSUME IInv, ResetNotifies PROVE IInv'
    OBVIOUS
  <1>1. /\ UNCHANGED <<isSet, outer, active, at, proxy>> /\ Doing("reset")
        /\ at \in 1..(Len(Script) + 1) /\ phase = "notify" /\ phase' = "join"
    BY DEF IInv, Shapes, ResetNotifies
  <1>2. Subject \in Handlers
    BY <1>1, ResetsHandlers
  <1>3. \A h \in Handlers : (Gone(h)' <=> Gone(h)) /\ (Told(h)' => Told(h))
    BY <1>1 DEF Gone, Told, Subject
  <1>4. pc' = pc \/ (pc' = [pc EXCEPT ![Subject] = "lock"] /\ pc[Subject] = "asleep")
    BY DEF ResetNotifies, Woken
  <1>5. \A h \in Handlers : pc'[h] = pc[h] \/ (pc'[h] = "lock" /\ pc[h] = "asleep")
    BY <1>2, <1>4 DEF IInv, Shapes
  <1>6. Shapes'
    <2>1. pc' \in [Handlers -> Places]
      BY <1>4 DEF IInv, Shapes, Places
    <2>2. Doing("reset")'
      BY <1>1 DEF Doing
    <2> QED
      BY <1>1, <2>1, <2>2 DEF IInv, Shapes
  <1>7. ThreadsKnowTheirJob' /\ SignalsHold'
    BY <1>1, <1>5 DEF IInv, ThreadsKnowTheirJob, SignalsHold, Handlers, InEvent
  <1>8. ToldIsQuiet'
    BY <1>1, <1>3, <1>5 DEF IInv, ToldIsQuiet, InEvent
  <1>9. GoneHasEnded'
    BY <1>3, <1>5 DEF IInv, GoneHasEnded
  <1> QED
    BY <1>1, <1>6, <1>7, <1>8, <1>9 DEF IInv, StoppedInTurn

\* main.
LEMMA MainKeeps == IInv /\ MainStep => IInv'
  <1> SUFFICES ASSUME IInv, MainStep PROVE IInv'
    OBVIOUS
  <1> USE DEF signalVars
  <1>1. at \in 1..(Len(Script) + 1) /\ isSet \in [Handlers \cup {Close} -> BOOLEAN]
    BY DEF IInv, Shapes
  <1>2. CASE EventComes
    BY <1>1, <1>2, ProceedsKeeps DEF EventComes, Proceeds, Doing
  <1>3. CASE ResetCallback \/ ResetSource
    BY <1>3, ResetKeeps
  <1>10. CASE ResetNotifies
    BY <1>10, NotifyKeeps
  <1>4. CASE ResetJoins
    BY <1>1, <1>4, ProceedsKeeps DEF ResetJoins, Proceeds, Doing
  <1>5. CASE AliveEnds
    BY <1>5, Idles DEF AliveEnds
  <1>6. CASE AliveJoined
    BY <1>1, <1>6, ProceedsKeeps DEF AliveJoined, Proceeds, Doing
  <1>7. CASE StopProxy
    <2>1. at \in 1..Len(Script) /\ Script[at][1] = "stop"
      BY <1>1, <1>7, ScriptLayout DEF StopProxy, Doing
    <2>2. at = Len(Reloaders) + 3
      BY <2>1, ScriptKinds
    <2> QED
      BY <1>1, <1>7, <2>1, <2>2, ProceedsKeeps DEF StopProxy, Proceeds, Doing
  <1>8. CASE UnsetClose
    BY <1>1, <1>8, ProceedsKeeps DEF UnsetClose, Proceeds, Doing
  <1>9. CASE Exit
    BY <1>1, <1>9, ProceedsKeeps DEF Exit, Proceeds, Doing
  <1> QED
    BY <1>2, <1>3, <1>4, <1>5, <1>6, <1>7, <1>8, <1>9, <1>10 DEF MainStep

\* Every step preserves the invariant.
LEMMA IInvStep == IInv /\ [Next]_vars => IInv'
  <1> SUFFICES ASSUME IInv, [Next]_vars PROVE IInv'
    OBVIOUS
  <1>1. CASE UNCHANGED vars
    BY <1>1, Idles DEF vars, mainVars
  <1> QED
    BY <1>1, MainKeeps, SourceKeeps, ThreadKeeps, ReloadKeeps, WatchKeeps, SignalKeeps DEF Next

\* What is known of the process in every reachable state: what a reset leaves behind.
THEOREM Invariant == Spec => []IInv
  BY IInvInit, IInvStep, PTL DEF Spec

\* No reload runs on a proxy that is stopped: main has joined all that reload by then.
THEOREM NoReloadAfterStop == Spec => []NoReloadOnStoppedProxy
  <1>1. IInv => NoReloadOnStoppedProxy
    <2> SUFFICES ASSUME IInv, NEW h \in Handlers, pc[h] = "reload", proxy # "running"
                 PROVE  FALSE
      BY DEF NoReloadOnStoppedProxy
    <2>1. h \in Range(Reloaders) /\ at > Len(Reloaders) + 3 /\ at \in 1..(Len(Script) + 1)
      BY DEF IInv, Shapes, ThreadsKnowTheirJob, StoppedInTurn
    <2>2. Gone(h)
      BY <2>1, ScriptOrder
    <2>3. h \notin Signals
      BY <2>1, HandlerAssumption
    <2>4. pc[h] = "ended"
      BY <2>2, <2>3 DEF IInv, GoneHasEnded
    <2> QED
      BY <2>4
  <1> QED
    BY Invariant, <1>1, PTL

\* No thread is inside a handler that was destroyed, nor calls close_handler after it was.
THEOREM NoCallAfterTheEnd == Spec => []NobodyCallsDeletedHandler
  <1>1. IInv => NobodyCallsDeletedHandler
    <2> SUFFICES ASSUME IInv, NEW h \in Handlers
                 PROVE  /\ pc[h] \in InEvent => ~Gone(h)
                        /\ pc[h] = "close" => ~Gone(Close)
      BY DEF NobodyCallsDeletedHandler, InEvent
    <2>1. pc[h] \in InEvent => ~Gone(h)
      <3>1. CASE h \in Signals
        BY <3>1 DEF IInv, ToldIsQuiet, Told
      <3>2. CASE h \notin Signals
        BY <3>2 DEF IInv, GoneHasEnded, InEvent
      <3> QED
        BY <3>1, <3>2
    <2>2. pc[h] = "close" => ~Gone(Close)
      <3>1. pc[h] = "close" => h \in Range(Closers) /\ ~Gone(h)
        BY <2>1 DEF IInv, ThreadsKnowTheirJob, InEvent
      <3>2. at \in 1..(Len(Script) + 1)
        BY DEF IInv, Shapes
      <3> QED
        BY <3>1, <3>2, ScriptOrder
    <2> QED
      BY <2>1, <2>2
  <1> QED
    BY Invariant, <1>1, PTL
=============================================================================
