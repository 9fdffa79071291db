--------------------------- MODULE RpcBridgeProofs ---------------------------
(***************************************************************************)
(* What the bridge of a service guarantees for any number of participants, *)
(* requests, threads and entries, and any number of enables and disables:  *)
(* no sample of a reader is left without a task, replies go where the      *)
(* request came from, and none overtakes its entry in the registry.        *)
(***************************************************************************)
EXTENDS RpcBridge, FiniteSetTheorems, SequenceTheorems, WellFoundedInduction, TLAPS

All == Readers \cup Writers

\* What a thread can be at.
RouteOf(q, todo) ==
  [pc |-> "route", reader |-> RequestReader(Origin[q]), data |-> q, todo |-> todo]
AddOf(q, todo, s, n) ==
  [pc |-> "add", reader |-> RequestReader(Origin[q]), data |-> q, todo |-> todo,
   in |-> s, sn |-> n]
GetOf(s, n) == [pc |-> "get", reader |-> ReplyReader(s), data |-> n]
ReplyOf(pc, s, n, entry) == [pc |-> pc, reader |-> ReplyReader(s), data |-> n, entry |-> entry]
Place(x) ==
  \/ x = Resting
  \/ \E r \in Readers : x = AtLoop(r)
  \/ \E q \in Requests, todo \in SUBSET Participants : x = RouteOf(q, todo)
  \/ \E q \in Requests, todo \in SUBSET Participants, s \in Participants :
       \E n \in 1..Len(sent[s]) : x = AddOf(q, todo, s, n)
  \/ \E s \in Participants : \E n \in 1..Len(sent[s]) : x = GetOf(s, n)
  \/ \E pc \in {"answer", "erase"}, s \in Participants, entry \in Entries :
       \E n \in 1..Len(sent[s]) : x = ReplyOf(pc, s, n, entry)

\* The shapes of what the threads read and write.
Written == [req : Requests, got : Seq(Entries)]
Shapes ==
  /\ enabled \in BOOLEAN /\ init \in BOOLEAN /\ crashed \in BOOLEAN
  /\ servers \subseteq Participants /\ registryOn \subseteq servers
  /\ on \subseteq All /\ toVisit \subseteq All
  /\ op \in {"none", "enable", "wait", "disable"} /\ switches \in 0..MaxSwitches
  /\ history \in [Readers -> Seq(Requests \cup Nat)]
  /\ flag \in [Readers -> BOOLEAN] /\ tasks \in [Readers -> Nat]
  /\ sent \in [Participants -> Seq(Written)]
  /\ holder \in [Participants -> Threads \cup {NoThread}]
  /\ registry = [s \in Participants |-> registry[s]]
  /\ dropped \in [Participants -> SUBSET Nat]
  /\ th = [t \in Threads |-> th[t]]
ThreadsPlaced == \A t \in Threads : Place(th[t])

\* A request reader holds requests of the clients beside it, a reply reader replies to
\* requests that were written, or to foreign ones.
HistoriesFit ==
  \A p \in Participants :
    /\ \A i \in 1..Len(history[RequestReader(p)]) :
         history[RequestReader(p)][i] \in {q \in Requests : Origin[q] = p}
    /\ \A i \in 1..Len(history[ReplyReader(p)]) :
         history[ReplyReader(p)][i] \in 0..Len(sent[p])

\* The endpoints that are enabled in the course of each call.
CallsInOrder ==
  /\ op = "none" => toVisit = {} /\ on = (IF enabled THEN All ELSE {})
  /\ op = "wait" => ~enabled /\ toVisit = {} /\ on = All
  /\ op = "enable" => enabled /\ on = All \ toVisit
  /\ op = "disable" => ~enabled /\ on = toVisit
  /\ on \cap Readers # {} /\ enabled => Writers \subseteq on
Busy(t) == th[t].pc \notin {"idle", "loop"}
BusyMeansOn ==
  \A t \in Threads : Busy(t) => Writers \subseteq on /\ op # "disable" /\ (op = "none" => enabled)

\* Requests that are in the registry of s, or were.
Settled(s) == 1..(IF holder[s] = NoThread THEN Len(sent[s]) ELSE Len(sent[s]) - 1)
EntryFor(s, n) == [to |-> Origin[sent[s][n].req], req |-> sent[s][n].req]

\* The mutex of a registry is held from the write of a request to its entry.
MutexHeld ==
  /\ \A t \in Threads : th[t].pc = "add" =>
       /\ holder[th[t].in] = t
       /\ th[t].sn = Len(sent[th[t].in]) /\ sent[th[t].in][th[t].sn].req = th[t].data
  /\ \A s \in Participants : holder[s] # NoThread =>
       th[holder[s]].pc = "add" /\ th[holder[s]].in = s

\* The entry found for a reply is the one of the request it answers.
Answering(t) ==
  LET s == th[t].reader[2]
      n == th[t].data
  IN  /\ th[t].pc \in {"answer", "erase"} => n \in Settled(s)
      /\ th[t].pc = "answer" => th[t].entry = EntryFor(s, n) /\ sent[s][n].got = <<>>
      /\ th[t].pc = "erase" => sent[s][n].got # <<>>
RepliesMatch == \A t \in Threads : Answering(t)

\* A registry, and the requests it was written for.
Erasing(s, n) ==
  \E t \in Threads : th[t].pc = "erase" /\ th[t].reader = ReplyReader(s) /\ th[t].data = n
Evicted(s, n) == Len(sent[s]) >= n + MaxEntries - 1
Recorded(s) ==
  /\ IsFiniteSet(DOMAIN registry[s]) /\ Cardinality(DOMAIN registry[s]) < MaxEntries
  /\ DOMAIN registry[s] \subseteq Settled(s) /\ dropped[s] \subseteq Settled(s)
  /\ \A n \in DOMAIN registry[s] :
       /\ registry[s][n] = EntryFor(s, n)
       /\ sent[s][n].got # <<>> => Erasing(s, n)
  /\ \A n \in 1..Len(sent[s]) :
       /\ Origin[sent[s][n].req] = s => s \in Repeaters
       /\ sent[s][n].got # <<>> => n \in Settled(s) /\ sent[s][n].got = <<EntryFor(s, n)>>
  /\ \A n \in Settled(s) : n \in DOMAIN registry[s] \/ sent[s][n].got # <<>> \/ Evicted(s, n)
  /\ \A n \in dropped[s] : sent[s][n].got # <<>> \/ Evicted(s, n)
RegistriesRecord == \A s \in Participants : Recorded(s)

IInv == /\ Shapes /\ ThreadsPlaced /\ HistoriesFit /\ CallsInOrder /\ BusyMeansOn
        /\ NoLostWakeup /\ MutexHeld /\ RepliesMatch /\ RegistriesRecord

-----------------------------------------------------------------------------
\* The endpoints are told apart, and an endpoint tells its participant.
LEMMA Endpoints ==
  /\ \A p \in Participants :
       /\ RequestReader(p) \in Readers /\ ReplyReader(p) \in Readers
       /\ RequestWriter(p) \in Writers /\ ReplyWriter(p) \in Writers
       /\ RequestReader(p)[1] = "request_reader" /\ RequestReader(p)[2] = p
       /\ ReplyReader(p)[1] = "reply_reader" /\ ReplyReader(p)[2] = p
  /\ \A r \in Readers :
       /\ r[2] \in Participants /\ r[1] \in {"request_reader", "reply_reader"}
       /\ r[1] = "request_reader" => r = RequestReader(r[2])
       /\ r[1] = "reply_reader" => r = ReplyReader(r[2])
  /\ \A w \in Writers : w[1] \in {"request_writer", "reply_writer"}
  /\ Readers \cap Writers = {}
  BY DEF Readers, Writers, RequestReader, ReplyReader, RequestWriter, ReplyWriter

\* A thread that transmits has a reader, and what it has in hand belongs to it.
LEMMA PlaceShapes ==
  ASSUME NEW x, Place(x)
  PROVE  /\ x.pc \in {"idle", "loop", "route", "add", "get", "answer", "erase"}
         /\ x.pc = "idle" => x = Resting
         /\ x.pc # "idle" => x.reader \in Readers
         /\ x.pc = "loop" => x = AtLoop(x.reader)
         /\ x.pc \in {"route", "add"} =>
              /\ x.data \in Requests /\ x.todo \subseteq Participants
              /\ x.reader = RequestReader(Origin[x.data]) /\ x.reader[2] = Origin[x.data]
         /\ x.pc = "route" => x = RouteOf(x.data, x.todo)
         /\ x.pc = "add" => x.in \in Participants /\ x.sn \in 1..Len(sent[x.in])
         /\ x.pc \in {"get", "answer", "erase"} =>
              /\ x.reader[2] \in Participants /\ x.reader = ReplyReader(x.reader[2])
              /\ x.data \in 1..Len(sent[x.reader[2]])
         /\ x.pc = "get" => x = GetOf(x.reader[2], x.data)
         /\ x.pc \in {"answer", "erase"} =>
              x.entry \in Entries /\ x = ReplyOf(x.pc, x.reader[2], x.data, x.entry)
  <1>1. CASE x = Resting
    BY <1>1 DEF Resting
  <1>2. CASE \E r \in Readers : x = AtLoop(r)
    BY <1>2 DEF AtLoop
  <1>3. CASE \E q \in Requests, todo \in SUBSET Participants : x = RouteOf(q, todo)
    BY <1>3, ServiceAssumption, Endpoints DEF RouteOf
  <1>4. CASE \E q \in Requests, todo \in SUBSET Participants, s \in Participants :
               \E n \in 1..Len(sent[s]) : x = AddOf(q, todo, s, n)
    BY <1>4, ServiceAssumption, Endpoints DEF AddOf
  <1>5. CASE \E s \in Participants : \E n \in 1..Len(sent[s]) : x = GetOf(s, n)
    BY <1>5, Endpoints DEF GetOf
  <1>6. CASE \E pc \in {"answer", "erase"}, s \in Participants, entry \in Entries :
               \E n \in 1..Len(sent[s]) : x = ReplyOf(pc, s, n, entry)
    BY <1>6, Endpoints DEF ReplyOf
  <1> QED
    BY <1>1, <1>2, <1>3, <1>4, <1>5, <1>6 DEF Place

\* A place stays one while the requests written become more.
SentGrows == \A s \in Participants : Len(sent[s]) \in Nat /\ Len(sent'[s]) \in Nat
                                     /\ Len(sent[s]) <= Len(sent'[s])
LEMMA PlaceStands ==
  ASSUME NEW x, Place(x), SentGrows
  PROVE  Place(x)'
  <1>1. \A s \in Participants : 1..Len(sent[s]) \subseteq 1..Len(sent'[s])
    BY DEF SentGrows
  <1> QED
    BY <1>1 DEF Place

LEMMA RoutingPlace ==
  ASSUME NEW q \in Requests, NEW todo \in SUBSET Participants
  PROVE  /\ Place(Routing(RequestReader(Origin[q]), q, todo))
         /\ Place(Routing(RequestReader(Origin[q]), q, todo))'
  <1>1. CASE todo = {}
    BY <1>1, ServiceAssumption, Endpoints DEF Routing, Place
  <1>2. CASE todo # {}
    BY <1>2 DEF Routing, Place, RouteOf
  <1> QED
    BY <1>1, <1>2

\* What the write of a request adds to the requests of its participant.
LEMMA WriteSends ==
  ASSUME Shapes, ThreadsPlaced, NEW t \in Threads, NEW s \in Participants,
         th[t].pc = "route",
         sent' = [sent EXCEPT ![s] = Append(@, [req |-> th[t].data, got |-> <<>>])]
  PROVE  /\ sent' \in [Participants -> Seq(Written)] /\ SentGrows
         /\ \A p \in Participants \ {s} : sent'[p] = sent[p]
         /\ Len(sent'[s]) = Len(sent[s]) + 1
         /\ \A n \in 1..Len(sent[s]) : sent'[s][n] = sent[s][n]
         /\ sent'[s][Len(sent[s]) + 1] = [req |-> th[t].data, got |-> <<>>]
  <1>1. PICK x : x = [req |-> th[t].data, got |-> <<>>]
    OBVIOUS
  <1>2. x \in Written
    BY <1>1, PlaceShapes, EmptySeq DEF ThreadsPlaced, Written
  <1>3. sent \in [Participants -> Seq(Written)] /\ sent' = [sent EXCEPT ![s] = Append(sent[s], x)]
    BY <1>1 DEF Shapes
  <1>4. sent'[s] = Append(sent[s], x) /\ \A p \in Participants \ {s} : sent'[p] = sent[p]
    BY <1>3
  <1>5. /\ Append(sent[s], x) \in Seq(Written) /\ Len(Append(sent[s], x)) = Len(sent[s]) + 1
        /\ \A n \in 1..Len(sent[s]) : Append(sent[s], x)[n] = sent[s][n]
        /\ Append(sent[s], x)[Len(sent[s]) + 1] = x
    BY <1>2, <1>3
  <1>6. \A p \in Participants : Len(sent[p]) \in Nat
    BY <1>3
  <1> QED
    BY <1>1, <1>3, <1>4, <1>5, <1>6 DEF SentGrows

\* What the write of a reply changes in the request it answers.
LEMMA PutRequest ==
  ASSUME NEW f \in [Participants -> Seq(Written)], NEW s \in Participants,
         NEW n \in 1..Len(f[s]), NEW x \in Written, NEW g,
         g = [f EXCEPT ![s] = [f[s] EXCEPT ![n] = x]]
  PROVE  /\ g \in [Participants -> Seq(Written)]
         /\ \A p \in Participants : Len(g[p]) = Len(f[p])
         /\ \A p \in Participants \ {s} : g[p] = f[p]
         /\ g[s][n] = x /\ \A m \in 1..Len(f[s]) : m # n => g[s][m] = f[s][m]
  <1>1. PICK after : after = [f[s] EXCEPT ![n] = x]
    OBVIOUS
  <1>2. /\ after \in Seq(Written) /\ Len(after) = Len(f[s]) /\ after[n] = x
        /\ \A m \in 1..Len(f[s]) : m # n => after[m] = f[s][m]
    BY <1>1
  <1>3. g = [f EXCEPT ![s] = after]
    BY <1>1
  <1> QED
    BY <1>2, <1>3

Answered(s, n, entry) ==
  \E x : /\ x = [sent[s][n] EXCEPT !.got = Append(sent[s][n].got, entry)]
         /\ sent' = [sent EXCEPT ![s] = [sent[s] EXCEPT ![n] = x]]
LEMMA AnswerSends ==
  ASSUME Shapes, NEW s \in Participants, NEW n \in 1..Len(sent[s]), NEW entry \in Entries,
         Answered(s, n, entry)
  PROVE  /\ sent' \in [Participants -> Seq(Written)] /\ SentGrows
         /\ \A p \in Participants : Len(sent'[p]) = Len(sent[p])
         /\ \A p \in Participants \ {s} : sent'[p] = sent[p]
         /\ \A m \in 1..Len(sent[s]) : /\ sent'[s][m].req = sent[s][m].req
                                       /\ m # n => sent'[s][m] = sent[s][m]
         /\ sent'[s][n].got = Append(sent[s][n].got, entry)
  <1>1. sent \in [Participants -> Seq(Written)]
    BY DEF Shapes
  <1>2. sent[s] \in Seq(Written) /\ sent[s][n] \in Written
    BY <1>1
  <1>3. PICK x : /\ x = [sent[s][n] EXCEPT !.got = Append(sent[s][n].got, entry)]
                 /\ sent' = [sent EXCEPT ![s] = [sent[s] EXCEPT ![n] = x]]
    BY DEF Answered
  <1>4. x \in Written /\ x.req = sent[s][n].req /\ x.got = Append(sent[s][n].got, entry)
    <2>1. PICK y : y = sent[s][n]
      OBVIOUS
    <2>2. y \in Written /\ x = [y EXCEPT !.got = Append(y.got, entry)]
      BY <1>2, <1>3, <2>1
    <2>3. PICK got : got = Append(y.got, entry)
      OBVIOUS
    <2>4. y.got \in Seq(Entries) /\ y = [req |-> y.req, got |-> y.got] /\ y.req \in Requests
      BY <2>2 DEF Written
    <2>5. got \in Seq(Entries)
      BY <2>3, <2>4
    <2>6. x = [req |-> y.req, got |-> got]
      BY <2>2, <2>3, <2>4
    <2> QED
      BY <2>1, <2>3, <2>4, <2>5, <2>6 DEF Written
  <1>5. /\ sent' \in [Participants -> Seq(Written)]
        /\ \A p \in Participants : Len(sent'[p]) = Len(sent[p])
        /\ \A p \in Participants \ {s} : sent'[p] = sent[p]
        /\ sent'[s][n] = x /\ \A m \in 1..Len(sent[s]) : m # n => sent'[s][m] = sent[s][m]
    <2>1. PICK f, g : f = sent /\ g = sent'
      OBVIOUS
    <2>2. f \in [Participants -> Seq(Written)] /\ n \in 1..Len(f[s])
      BY <1>1, <2>1
    <2>3. g = [f EXCEPT ![s] = [f[s] EXCEPT ![n] = x]]
      BY <1>3, <2>1
    <2>4. x \in Written
      BY <1>4
    <2>5. /\ g \in [Participants -> Seq(Written)]
          /\ \A p \in Participants : Len(g[p]) = Len(f[p])
          /\ \A p \in Participants \ {s} : g[p] = f[p]
          /\ g[s][n] = x /\ \A m \in 1..Len(f[s]) : m # n => g[s][m] = f[s][m]
      BY <2>2, <2>3, <2>4, PutRequest
    <2> QED
      BY <2>1, <2>5
  <1>6. SentGrows
    BY <1>1, <1>5 DEF SentGrows
  <1> QED
    BY <1>4, <1>5, <1>6

\* The thread that writes a reply has the place of its request.
LEMMA AnswerFits ==
  ASSUME ThreadsPlaced, NEW t \in Threads, Answer(t), NEW s, NEW n, NEW entry,
         s = th[t].reader[2], n = th[t].data, entry = th[t].entry
  PROVE  /\ s \in Participants /\ n \in 1..Len(sent[s]) /\ entry \in Entries
         /\ th[t].reader = ReplyReader(s) /\ th[t] = ReplyOf("answer", s, n, entry)
         /\ \/ Answered(s, n, entry) /\ th' = [th EXCEPT ![t] = ReplyOf("erase", s, n, entry)]
            \/ sent' = sent /\ th' = [th EXCEPT ![t] = AtLoop(th[t].reader)]
  <1>1. /\ th[t].pc = "answer" /\ s \in Participants /\ n \in 1..Len(sent[s]) /\ entry \in Entries
        /\ th[t].reader = ReplyReader(s) /\ th[t] = ReplyOf("answer", s, n, entry)
    BY PlaceShapes DEF Answer, ThreadsPlaced
  <1>2. CASE ReplyWriter(th[t].entry.to) \in on
    <2>1. /\ sent' = [sent EXCEPT ![s][n].got = Append(@, entry)]
          /\ th' = [th EXCEPT ![t] = [th[t] EXCEPT !.pc = "erase"]]
      BY <1>2 DEF Answer, Become
    <2>2. Answered(s, n, entry)
      BY <2>1 DEF Answered
    <2>3. [th[t] EXCEPT !.pc = "erase"] = ReplyOf("erase", s, n, entry)
      BY <1>1 DEF ReplyOf
    <2> QED
      BY <1>1, <2>1, <2>2, <2>3
  <1>3. CASE ReplyWriter(th[t].entry.to) \notin on
    BY <1>1, <1>3 DEF Answer, Become
  <1> QED
    BY <1>2, <1>3

\* A step is of the world, of a call or of one thread.
LEMMA NextCases ==
  ASSUME [Next]_vars
  PROVE  \/ World \/ Calls \/ UNCHANGED vars
         \/ \E t \in Threads : \/ \E r \in Readers : StartTask(t, r)
                               \/ \E s \in Participants : Skip(t, s) \/ WriteRequest(t, s)
                               \/ Finish(t) \/ Take(t) \/ TakeFails(t)
                               \/ Add(t) \/ Get(t) \/ Answer(t) \/ Erase(t)
  BY DEF Next, Running

\* The world and the calls leave the threads and the registries alone.
LEMMA OutsideThreads ==
  ASSUME World \/ Calls \/ (\E t \in Threads : TakeFails(t)) \/ UNCHANGED vars
  PROVE  UNCHANGED <<th, holder, registry, sent, dropped>>
  BY DEF World, Calls, TakeFails, vars, ClientAsks, ServerReplies, Discover, EnableCall,
     EnableStep, DisableCall, DisableWait, DisableStep

\* Only the writes of requests and of replies touch what was sent.
LEMMA SentStep ==
  ASSUME Shapes, ThreadsPlaced, [Next]_vars
  PROVE  sent' \in [Participants -> Seq(Written)] /\ SentGrows
  <1>1. CASE sent' = sent
    BY <1>1 DEF Shapes, SentGrows
  <1>2. ASSUME NEW t \in Threads, NEW s \in Participants, WriteRequest(t, s), sent' # sent
        PROVE  sent' \in [Participants -> Seq(Written)] /\ SentGrows
    BY <1>2, WriteSends DEF WriteRequest
  <1>3. ASSUME NEW t \in Threads, Answer(t), sent' # sent
        PROVE  sent' \in [Participants -> Seq(Written)] /\ SentGrows
    <2>1. PICK s, n, entry : s = th[t].reader[2] /\ n = th[t].data /\ entry = th[t].entry
      OBVIOUS
    <2>2. /\ s \in Participants /\ n \in 1..Len(sent[s]) /\ entry \in Entries
          /\ Answered(s, n, entry)
      BY <1>3, <2>1, AnswerFits
    <2> QED
      BY <2>2, AnswerSends
  <1> QED
    BY <1>1, <1>2, <1>3, NextCases, OutsideThreads
    DEF StartTask, Finish, Take, Skip, Add, Get, Erase

-----------------------------------------------------------------------------
\* A thread that moves to a place leaves every thread at one.
LEMMA OneMoves ==
  ASSUME Shapes, ThreadsPlaced, SentGrows, NEW t \in Threads, NEW x,
         Place(x)', th' = [th EXCEPT ![t] = x]
  PROVE  ThreadsPlaced'
  <1>1. \A u \in Threads : th'[u] = IF u = t THEN x ELSE th[u]
    BY DEF Shapes
  <1>2. ASSUME NEW u \in Threads, u # t PROVE Place(th[u])'
    <2>1. PICK y : y = th[u]
      OBVIOUS
    <2>2. Place(y)'
      BY <2>1, PlaceStands DEF ThreadsPlaced
    <2>3. th'[u] = y
      BY <1>1, <1>2, <2>1
    <2> QED
      BY <2>2, <2>3
  <1>3. Place(th[t])'
    BY <1>1
  <1> QED
    BY <1>2, <1>3 DEF ThreadsPlaced

\* The sample at the head of a reader belongs to it.
LEMMA TakenPlace ==
  ASSUME Shapes, HistoriesFit, NEW r \in Readers, history[r] # <<>>
  PROVE  Place(Taken(r, Head(history[r])))
  <1>1. /\ history[r] \in Seq(Requests \cup Nat) /\ 1 \in 1..Len(history[r])
        /\ Head(history[r]) = history[r][1]
    BY DEF Shapes
  <1>2. PICK m : m = Head(history[r])
    OBVIOUS
  <1>3. CASE r[1] = "request_reader"
    <2>1. m \in Requests /\ r = RequestReader(Origin[m]) /\ Origin[m] \in Participants
      BY <1>1, <1>2, <1>3, Endpoints DEF HistoriesFit
    <2>2. CASE m \notin Malformed
      BY <1>2, <1>3, <2>1, <2>2 DEF Taken, Place, RouteOf
    <2>3. CASE m \in Malformed
      BY <1>2, <1>3, <2>3 DEF Taken, Place
    <2> QED
      BY <2>2, <2>3
  <1>4. CASE r[1] = "reply_reader"
    <2>1. m \in 0..Len(sent[r[2]]) /\ r = ReplyReader(r[2]) /\ r[2] \in Participants
      BY <1>1, <1>2, <1>4, Endpoints DEF HistoriesFit
    <2>2. CASE m # ForeignReply
      <3>1. m \in 1..Len(sent[r[2]])
        BY <2>1, <2>2 DEF ForeignReply
      <3>2. Taken(r, m) = GetOf(r[2], m)
        BY <1>4, <2>1, <2>2 DEF Taken, GetOf
      <3> QED
        BY <1>2, <2>1, <3>1, <3>2 DEF Place
    <2>3. CASE m = ForeignReply
      BY <1>2, <1>4, <2>3 DEF Taken, Place
    <2> QED
      BY <2>2, <2>3
  <1> QED
    BY <1>3, <1>4, Endpoints

LEMMA ThreadsPlacedStep ==
  ASSUME Shapes, ThreadsPlaced, HistoriesFit, RegistriesRecord, MutexHeld, [Next]_vars
  PROVE  ThreadsPlaced'
  <1>g. SentGrows
    BY SentStep
  <1>1. CASE th' = th
    BY <1>1, <1>g, PlaceStands DEF ThreadsPlaced
  <1>o. CASE World \/ Calls \/ (\E t \in Threads : TakeFails(t)) \/ UNCHANGED vars
    BY <1>o, <1>1, OutsideThreads
  <1>l. ASSUME NEW t \in Threads, NEW r \in Readers, th' = [th EXCEPT ![t] = AtLoop(r)]
        PROVE  ThreadsPlaced'
    <2>1. PICK x : x = AtLoop(r)
      OBVIOUS
    <2>2. Place(x)'
      BY <2>1 DEF Place
    <2> QED
      BY <1>l, <1>g, <2>1, <2>2, OneMoves
  <1>r. ASSUME NEW t \in Threads, th[t].pc \in {"route", "add"}, NEW todo \in SUBSET Participants,
               th' = [th EXCEPT ![t] = Routing(th[t].reader, th[t].data, todo)]
        PROVE  ThreadsPlaced'
    <2>1. PICK q, x : q = th[t].data /\ x = Routing(RequestReader(Origin[q]), q, todo)
      OBVIOUS
    <2>2. q \in Requests /\ th[t].reader = RequestReader(Origin[q])
      BY <1>r, <2>1, PlaceShapes DEF ThreadsPlaced
    <2>3. Place(x)'
      BY <2>1, <2>2, RoutingPlace
    <2>4. th' = [th EXCEPT ![t] = x]
      BY <1>r, <2>1, <2>2
    <2> QED
      BY <1>g, <2>3, <2>4, OneMoves
  <1>2. ASSUME NEW t \in Threads, NEW r \in Readers, StartTask(t, r) PROVE ThreadsPlaced'
    BY <1>2, <1>l DEF StartTask, Become
  <1>3. ASSUME NEW t \in Threads, Finish(t) PROVE ThreadsPlaced'
    <2>1. PICK x : x = Resting
      OBVIOUS
    <2>2. Place(x)' /\ th' = [th EXCEPT ![t] = x]
      BY <1>3, <2>1 DEF Place, Finish, Become
    <2> QED
      BY <1>g, <2>2, OneMoves
  <1>4. ASSUME NEW t \in Threads, Take(t) PROVE ThreadsPlaced'
    <2>1. PICK r, x : r = th[t].reader /\ x = Taken(r, Head(history[r]))
      OBVIOUS
    <2>2. r \in Readers /\ history[r] # <<>> /\ th' = [th EXCEPT ![t] = x]
      BY <1>4, <2>1, PlaceShapes DEF Take, MayTake, Become, ThreadsPlaced
    <2>3. Place(x)
      BY <2>1, <2>2, TakenPlace
    <2> QED
      BY <1>g, <2>2, <2>3, PlaceStands, OneMoves
  <1>5. ASSUME NEW t \in Threads, NEW s \in Participants, Skip(t, s) PROVE ThreadsPlaced'
    <2>1. th[t].pc = "route" /\ th[t].todo \subseteq Participants
      BY <1>5, PlaceShapes DEF Skip, ThreadsPlaced
    <2> QED
      BY <1>5, <1>r, <2>1 DEF Skip, Become
  <1>6. ASSUME NEW t \in Threads, NEW s \in Participants, WriteRequest(t, s) PROVE ThreadsPlaced'
    <2>1. th[t].pc = "route" /\ th[t].todo \subseteq Participants
      BY <1>6, PlaceShapes DEF WriteRequest, ThreadsPlaced
    <2>2. CASE RequestWriter(s) \notin on
      BY <1>6, <1>r, <2>1, <2>2 DEF WriteRequest, Become
    <2>3. CASE RequestWriter(s) \in on
      <3>1. PICK q, todo, n : q = th[t].data /\ todo = th[t].todo \ {s} /\ n = Len(sent[s]) + 1
        OBVIOUS
      <3>2. q \in Requests /\ th[t].reader = RequestReader(Origin[q]) /\ todo \in SUBSET Participants
        BY <2>1, <3>1, PlaceShapes DEF ThreadsPlaced
      <3>3. /\ sent' = [sent EXCEPT ![s] = Append(@, [req |-> th[t].data, got |-> <<>>])]
            /\ th' = [th EXCEPT ![t] = AddOf(q, todo, s, n)]
        BY <1>6, <2>3, <3>1, <3>2 DEF WriteRequest, Become, AddOf
      <3>4. n \in 1..Len(sent'[s])
        <4>1. Len(sent'[s]) = Len(sent[s]) + 1
          BY <2>1, <3>3, WriteSends
        <4>2. Len(sent[s]) \in Nat
          BY <1>g DEF SentGrows
        <4> QED
          BY <3>1, <4>1, <4>2
      <3>5. PICK x : x = AddOf(q, todo, s, n)
        OBVIOUS
      <3>6. Place(x)'
        BY <3>2, <3>4, <3>5 DEF Place
      <3> QED
        BY <1>g, <3>3, <3>5, <3>6, OneMoves
    <2> QED
      BY <2>2, <2>3
  <1>7. ASSUME NEW t \in Threads, Add(t) PROVE ThreadsPlaced'
    <2>1. th[t].pc = "add" /\ th[t].todo \subseteq Participants
      BY <1>7, PlaceShapes DEF Add, ThreadsPlaced
    <2> QED
      BY <1>7, <1>r, <2>1 DEF Add, Become
  <1>8. ASSUME NEW t \in Threads, Get(t) PROVE ThreadsPlaced'
    <2>1. PICK s, n : s = th[t].reader[2] /\ n = th[t].data
      OBVIOUS
    <2>2. /\ s \in Participants /\ th[t].reader = ReplyReader(s) /\ n \in 1..Len(sent[s])
          /\ th[t].reader \in Readers
      BY <1>8, <2>1, PlaceShapes, Endpoints DEF Get, ThreadsPlaced
    <2>3. CASE n \notin DOMAIN registry[s]
      BY <1>8, <1>l, <2>1, <2>2, <2>3 DEF Get, Become
    <2>4. CASE n \in DOMAIN registry[s]
      <3>1. PICK entry, x : entry = registry[s][n] /\ x = ReplyOf("answer", s, n, entry)
        OBVIOUS
      <3>2. th' = [th EXCEPT ![t] = x]
        BY <1>8, <2>1, <2>2, <2>4, <3>1 DEF Get, Become, ReplyOf
      <3>3. entry = EntryFor(s, n) /\ sent[s] \in Seq(Written)
        BY <2>2, <2>4, <3>1 DEF RegistriesRecord, Recorded, Shapes
      <3>4. sent[s][n] \in Written
        BY <2>2, <3>3
      <3>5. entry \in Entries
        BY <3>3, <3>4, ServiceAssumption DEF EntryFor, Written, Entries
      <3>6. Place(x)
        BY <2>2, <3>1, <3>5 DEF Place
      <3> QED
        BY <1>g, <3>2, <3>6, PlaceStands, OneMoves
    <2> QED
      BY <2>3, <2>4
  <1>9. ASSUME NEW t \in Threads, Answer(t) PROVE ThreadsPlaced'
    <2>1. PICK s, n, entry : s = th[t].reader[2] /\ n = th[t].data /\ entry = th[t].entry
      OBVIOUS
    <2>2. /\ s \in Participants /\ n \in 1..Len(sent[s]) /\ entry \in Entries
          /\ th[t].reader = ReplyReader(s)
          /\ \/ th' = [th EXCEPT ![t] = ReplyOf("erase", s, n, entry)]
             \/ th' = [th EXCEPT ![t] = AtLoop(th[t].reader)]
      BY <1>9, <2>1, AnswerFits
    <2>3. CASE th' = [th EXCEPT ![t] = ReplyOf("erase", s, n, entry)]
      <3>1. PICK x : x = ReplyOf("erase", s, n, entry)
        OBVIOUS
      <3>2. Place(x)
        BY <2>2, <3>1 DEF Place
      <3> QED
        BY <1>g, <2>3, <3>1, <3>2, PlaceStands, OneMoves
    <2>4. CASE th' = [th EXCEPT ![t] = AtLoop(th[t].reader)]
      <3>1. th[t].reader \in Readers
        BY <2>2, Endpoints
      <3> QED
        BY <1>l, <2>4, <3>1
    <2> QED
      BY <2>2, <2>3, <2>4
  <1>10. ASSUME NEW t \in Threads, Erase(t) PROVE ThreadsPlaced'
    <2>1. th[t].reader \in Readers /\ th' = [th EXCEPT ![t] = AtLoop(th[t].reader)]
      BY <1>10, PlaceShapes DEF Erase, Become, ThreadsPlaced
    <2> QED
      BY <2>1, <1>l
  <1> QED
    BY <1>o, <1>2, <1>3, <1>4, <1>5, <1>6, <1>7, <1>8, <1>9, <1>10, NextCases

-----------------------------------------------------------------------------
\* A callback, or a sample that comes to a reader.
LEMMA CallbackShapes ==
  ASSUME Shapes, NEW r \in Readers, DataAvailable(r)
  PROVE  flag' \in [Readers -> BOOLEAN] /\ tasks' \in [Readers -> Nat]
  <1>1. flag \in [Readers -> BOOLEAN] /\ tasks \in [Readers -> Nat]
    BY DEF Shapes
  <1> QED
    BY <1>1 DEF DataAvailable

LEMMA ReceiveShapes ==
  ASSUME Shapes, NEW r \in Readers, NEW m \in Requests \cup Nat, Receive(r, m)
  PROVE  /\ history' = [history EXCEPT ![r] = Append(history[r], m)]
         /\ history' \in [Readers -> Seq(Requests \cup Nat)]
         /\ flag' \in [Readers -> BOOLEAN] /\ tasks' \in [Readers -> Nat]
  <1>1. /\ history \in [Readers -> Seq(Requests \cup Nat)]
        /\ flag \in [Readers -> BOOLEAN] /\ tasks \in [Readers -> Nat]
    BY DEF Shapes
  <1>2. history' = [history EXCEPT ![r] = Append(history[r], m)]
    BY DEF Receive
  <1>3. history' \in [Readers -> Seq(Requests \cup Nat)]
    BY <1>1, <1>2
  <1>4. flag' \in [Readers -> BOOLEAN] /\ tasks' \in [Readers -> Nat]
    BY <1>1, CallbackShapes DEF Receive
  <1> QED
    BY <1>2, <1>3, <1>4

\* What comes is a request of a client beside the reader, or a reply to a request.
LEMMA WorldSends ==
  ASSUME Shapes, World
  PROVE  \E r \in Readers, m \in Requests \cup Nat :
           /\ Receive(r, m) /\ UNCHANGED <<callVars, th, holder, registry, sent, dropped, crashed>>
           /\ \/ m \in Requests /\ r = RequestReader(Origin[m])
              \/ \E s \in Participants : r = ReplyReader(s) /\ m \in 0..Len(sent[s])
  <1>1. ASSUME NEW q \in Requests, ClientAsks(q) PROVE RequestReader(Origin[q]) \in Readers
    BY ServiceAssumption, Endpoints
  <1>2. ASSUME NEW s \in Participants, NEW n, n \in DOMAIN sent[s] \cup {ForeignReply}
        PROVE  n \in 0..Len(sent[s]) /\ n \in Nat /\ ReplyReader(s) \in Readers
    <2>1. sent[s] \in Seq(Written)
      BY DEF Shapes
    <2> QED
      BY <1>2, <2>1, Endpoints DEF ForeignReply
  <1>3. CASE \E q \in Requests : ClientAsks(q)
    BY <1>1, <1>3 DEF ClientAsks
  <1>4. CASE \E s \in Participants : \E n \in DOMAIN sent[s] \cup {ForeignReply} :
               ServerReplies(s, n)
    <2>1. PICK s \in Participants : \E n \in DOMAIN sent[s] \cup {ForeignReply} : ServerReplies(s, n)
      BY <1>4
    <2>n. PICK n : n \in DOMAIN sent[s] \cup {ForeignReply} /\ ServerReplies(s, n)
      BY <2>1
    <2>2. n \in 0..Len(sent[s]) /\ n \in Nat /\ ReplyReader(s) \in Readers
      BY <1>2, <2>n
    <2> QED
      BY <2>n, <2>2 DEF ServerReplies
  <1> QED
    BY <1>3, <1>4 DEF World

LEMMA HistoryTail ==
  ASSUME Shapes, NEW r \in Readers, history[r] # <<>>,
         history' = [history EXCEPT ![r] = Tail(@)]
  PROVE  /\ history' \in [Readers -> Seq(Requests \cup Nat)]
         /\ \A p \in Readers \ {r} : history'[p] = history[p]
         /\ Len(history[r]) \in Nat /\ Len(history'[r]) = Len(history[r]) - 1
         /\ \A i \in 1..Len(history'[r]) : history'[r][i] = history[r][i + 1]
  <1>1. history \in [Readers -> Seq(Requests \cup Nat)]
    BY DEF Shapes
  <1>2. history'[r] = Tail(history[r]) /\ \A p \in Readers \ {r} : history'[p] = history[p]
    BY <1>1
  <1>3. PICK h : h = history[r]
    OBVIOUS
  <1>4. h \in Seq(Requests \cup Nat) /\ h # <<>>
    BY <1>1, <1>3
  <1>5. /\ Tail(h) \in Seq(Requests \cup Nat) /\ Len(h) \in Nat /\ Len(Tail(h)) = Len(h) - 1
        /\ \A i \in 1..Len(Tail(h)) : Tail(h)[i] = h[i + 1]
    BY <1>4
  <1> QED
    BY <1>1, <1>2, <1>3, <1>5

\* The histories keep what belongs to their readers.
LEMMA HistoriesFitStep ==
  ASSUME Shapes, ThreadsPlaced, HistoriesFit, [Next]_vars
  PROVE  HistoriesFit'
  <1>g. \A s \in Participants : 0..Len(sent[s]) \subseteq 0..Len(sent'[s])
    BY SentStep DEF SentGrows
  <1>1. CASE history' = history
    BY <1>1, <1>g DEF HistoriesFit
  <1>2. CASE World
    <2>1. PICK r \in Readers, m \in Requests \cup Nat :
            /\ Receive(r, m)
            /\ UNCHANGED sent
            /\ \/ m \in Requests /\ r = RequestReader(Origin[m])
               \/ \E s \in Participants : r = ReplyReader(s) /\ m \in 0..Len(sent[s])
      BY <1>2, WorldSends
    <2>2. /\ history' = [history EXCEPT ![r] = Append(history[r], m)]
          /\ history \in [Readers -> Seq(Requests \cup Nat)]
      BY <2>1, ReceiveShapes DEF Shapes
    <2>3. PICK h : h = Append(history[r], m)
      OBVIOUS
    <2>4. \A i \in 1..Len(h) : h[i] = m \/ (i \in 1..Len(history[r]) /\ h[i] = history[r][i])
      BY <2>2, <2>3
    <2>5. \A p \in Readers : history'[p] = IF p = r THEN h ELSE history[p]
      BY <2>2, <2>3
    <2>6. ASSUME NEW p \in Participants, NEW i \in 1..Len(history'[RequestReader(p)])
          PROVE  history'[RequestReader(p)][i] \in {q \in Requests : Origin[q] = p}
      <3>1. CASE RequestReader(p) = r
        <4>1. m \in {q \in Requests : Origin[q] = p}
          BY <2>1, <3>1, Endpoints, ServiceAssumption
        <4> QED
          BY <2>4, <2>5, <3>1, <4>1 DEF HistoriesFit
      <3>2. CASE RequestReader(p) # r
        BY <2>5, <3>2, Endpoints DEF HistoriesFit
      <3> QED
        BY <3>1, <3>2
    <2>7. ASSUME NEW p \in Participants, NEW i \in 1..Len(history'[ReplyReader(p)])
          PROVE  history'[ReplyReader(p)][i] \in 0..Len(sent[p])
      <3>1. CASE ReplyReader(p) = r
        <4>1. m \in 0..Len(sent[p])
          BY <2>1, <3>1, Endpoints, ServiceAssumption
        <4> QED
          BY <2>4, <2>5, <3>1, <4>1 DEF HistoriesFit
      <3>2. CASE ReplyReader(p) # r
        BY <2>5, <3>2, Endpoints DEF HistoriesFit
      <3> QED
        BY <3>1, <3>2
    <2> QED
      BY <2>1, <2>6, <2>7 DEF HistoriesFit
  <1>3. ASSUME NEW t \in Threads, Take(t) PROVE HistoriesFit'
    <2>1. PICK r : r = th[t].reader
      OBVIOUS
    <2>2. r \in Readers /\ history[r] # <<>> /\ history' = [history EXCEPT ![r] = Tail(@)]
      BY <1>3, <2>1, PlaceShapes DEF Take, MayTake, ThreadsPlaced
    <2>3. \A p \in Readers : \A i \in 1..Len(history'[p]) :
            \E j \in 1..Len(history[p]) : history'[p][i] = history[p][j]
      <3> SUFFICES ASSUME NEW p \in Readers, NEW i \in 1..Len(history'[p])
                   PROVE  \E j \in 1..Len(history[p]) : history'[p][i] = history[p][j]
        OBVIOUS
      <3>1. CASE p # r
        BY <2>2, <3>1, HistoryTail
      <3>2. CASE p = r
        <4>1. /\ Len(history[r]) \in Nat /\ Len(history'[r]) = Len(history[r]) - 1
              /\ \A k \in 1..Len(history'[r]) : history'[r][k] = history[r][k + 1]
          BY <2>2, HistoryTail
        <4>2. i \in 1..(Len(history[r]) - 1) /\ history'[r][i] = history[r][i + 1]
          BY <3>2, <4>1
        <4>3. i + 1 \in 1..Len(history[r])
          BY <4>1, <4>2
        <4> QED
          BY <3>2, <4>2, <4>3
      <3> QED
        BY <3>1, <3>2
    <2>4. ASSUME NEW p \in Participants, NEW i \in 1..Len(history'[RequestReader(p)])
          PROVE  history'[RequestReader(p)][i] \in {q \in Requests : Origin[q] = p}
      <3>1. RequestReader(p) \in Readers
        BY Endpoints
      <3>2. PICK j \in 1..Len(history[RequestReader(p)]) :
              history'[RequestReader(p)][i] = history[RequestReader(p)][j]
        BY <2>3, <3>1
      <3> QED
        BY <3>2 DEF HistoriesFit
    <2>5. ASSUME NEW p \in Participants, NEW i \in 1..Len(history'[ReplyReader(p)])
          PROVE  history'[ReplyReader(p)][i] \in 0..Len(sent[p])
      <3>1. ReplyReader(p) \in Readers
        BY Endpoints
      <3>2. PICK j \in 1..Len(history[ReplyReader(p)]) :
              history'[ReplyReader(p)][i] = history[ReplyReader(p)][j]
        BY <2>3, <3>1
      <3> QED
        BY <3>2 DEF HistoriesFit
    <2> QED
      BY <1>g, <2>4, <2>5 DEF HistoriesFit
  <1> QED
    BY ZenonT(60), <1>1, <1>2, <1>3, NextCases
    DEF Calls, Discover, EnableCall, EnableStep, DisableCall, DisableWait, DisableStep,
        StartTask, Finish, TakeFails, Skip, WriteRequest, Add, Get, Answer, Erase, vars,
        readerVars

\* The shapes that the calls change, and those that the threads change.
CallShapes ==
  /\ enabled \in BOOLEAN /\ init \in BOOLEAN
  /\ servers \subseteq Participants /\ registryOn \subseteq servers
  /\ on \subseteq All /\ toVisit \subseteq All
  /\ op \in {"none", "enable", "wait", "disable"} /\ switches \in 0..MaxSwitches
ReaderShapes ==
  /\ history \in [Readers -> Seq(Requests \cup Nat)]
  /\ flag \in [Readers -> BOOLEAN] /\ tasks \in [Readers -> Nat]
RegistryShapes ==
  /\ holder \in [Participants -> Threads \cup {NoThread}]
  /\ registry = [s \in Participants |-> registry[s]]
  /\ dropped \in [Participants -> SUBSET Nat]
  /\ th = [t \in Threads |-> th[t]]
LEMMA ShapesParts ==
  /\ Shapes <=> /\ CallShapes /\ ReaderShapes /\ RegistryShapes
                /\ crashed \in BOOLEAN /\ sent \in [Participants -> Seq(Written)]
  BY DEF Shapes, CallShapes, ReaderShapes, RegistryShapes

LEMMA CallShapesStep ==
  ASSUME Shapes, CallsInOrder, [Next]_vars
  PROVE  CallShapes'
  <1>s. CallShapes
    BY ShapesParts
  <1>1. CASE UNCHANGED callVars
    BY <1>s, <1>1 DEF CallShapes, callVars
  <1>2. CASE \E p \in Participants : Discover(p)
    BY <1>s, <1>2 DEF CallShapes, Discover
  <1>3. CASE EnableCall
    BY <1>s, <1>3, BoundsAssumption DEF CallShapes, EnableCall, All
  <1>4. CASE EnableStep
    BY <1>s, <1>4 DEF CallShapes, EnableStep, NextOf, VisitedOne
  <1>5. CASE DisableCall
    <2>1. /\ switches < MaxSwitches /\ enabled' = FALSE /\ op' = "wait"
          /\ switches' = switches + 1 /\ UNCHANGED <<init, servers, registryOn, on, toVisit>>
      BY <1>5 DEF DisableCall
    <2>2. switches' \in 0..MaxSwitches
      BY <1>s, <2>1, BoundsAssumption DEF CallShapes
    <2> QED
      BY <1>s, <2>1, <2>2 DEF CallShapes
  <1>6. CASE DisableWait
    BY <1>s, <1>6 DEF CallShapes, DisableWait, All
  <1>7. CASE DisableStep
    BY <1>s, <1>7 DEF CallShapes, DisableStep, NextOf, VisitedOne
  <1> QED
    BY ZenonT(60), <1>1, <1>2, <1>3, <1>4, <1>5, <1>6, <1>7, NextCases
    DEF World, Calls, ClientAsks, ServerReplies, StartTask, Finish, Take, TakeFails,
        Skip, WriteRequest, Add, Get, Answer, Erase, vars

LEMMA ReaderShapesStep ==
  ASSUME Shapes, ThreadsPlaced, [Next]_vars
  PROVE  ReaderShapes'
  <1>s. ReaderShapes
    BY ShapesParts
  <1>1. CASE UNCHANGED readerVars
    BY <1>s, <1>1 DEF ReaderShapes, readerVars
  <1>2. CASE World
    BY <1>2, WorldSends, ReceiveShapes DEF ReaderShapes
  <1>3. CASE EnableStep
    <2>1. PICK e \in NextOf(EnableOrder) :
            IF NotifiesOnEnable(e) THEN DataAvailable(e) ELSE UNCHANGED <<flag, tasks>>
      BY <1>3 DEF EnableStep
    <2>2. UNCHANGED history
      BY <1>3 DEF EnableStep
    <2> QED
      BY <1>s, <2>1, <2>2, CallbackShapes DEF ReaderShapes, NotifiesOnEnable
  <1>4. ASSUME NEW t \in Threads, NEW r \in Readers, StartTask(t, r) PROVE ReaderShapes'
    BY <1>s, <1>4 DEF StartTask, ReaderShapes
  <1>5. ASSUME NEW t \in Threads, Finish(t) PROVE ReaderShapes'
    BY <1>s, <1>5 DEF Finish, FlagAfter, ReaderShapes
  <1>6. ASSUME NEW t \in Threads, Take(t) PROVE ReaderShapes'
    <2>1. PICK r : r = th[t].reader
      OBVIOUS
    <2>2. r \in Readers /\ history[r] # <<>> /\ history' = [history EXCEPT ![r] = Tail(@)]
      BY <1>6, <2>1, PlaceShapes DEF Take, MayTake, ThreadsPlaced
    <2> QED
      BY <1>s, <1>6, <2>2, HistoryTail DEF Take, ReaderShapes
  <1> QED
    BY <1>1, <1>2, <1>3, <1>4, <1>5, <1>6, NextCases
    DEF Calls, Discover, EnableCall, DisableCall, DisableWait, DisableStep, TakeFails,
        Skip, WriteRequest, Add, Get, Answer, Erase, vars

LEMMA RegistryShapesStep ==
  ASSUME Shapes, ThreadsPlaced, [Next]_vars
  PROVE  RegistryShapes'
  <1>s. RegistryShapes
    BY ShapesParts
  <1>1. CASE UNCHANGED <<th, holder, registry, dropped>>
    BY <1>s, <1>1 DEF RegistryShapes
  <1>b. ASSUME NEW t \in Threads, NEW x, th' = [th EXCEPT ![t] = x],
               UNCHANGED <<holder, registry, dropped>>
        PROVE  RegistryShapes'
    BY <1>s, <1>b DEF RegistryShapes
  <1>2. ASSUME NEW t \in Threads, NEW r \in Readers, StartTask(t, r) PROVE RegistryShapes'
    BY <1>2, <1>b DEF StartTask, Become
  <1>3. ASSUME NEW t \in Threads, Finish(t) PROVE RegistryShapes'
    BY <1>3, <1>b DEF Finish, Become
  <1>4. ASSUME NEW t \in Threads, Take(t) PROVE RegistryShapes'
    BY <1>4, <1>b DEF Take, Become
  <1>5. ASSUME NEW t \in Threads, NEW s \in Participants, Skip(t, s) PROVE RegistryShapes'
    BY <1>5, <1>b DEF Skip, Become
  <1>6. ASSUME NEW t \in Threads, NEW s \in Participants, WriteRequest(t, s) PROVE RegistryShapes'
    BY <1>6, <1>s DEF WriteRequest, Become, RegistryShapes
  <1>7. ASSUME NEW t \in Threads, Add(t) PROVE RegistryShapes'
    BY <1>7, <1>s DEF Add, Become, RegistryShapes
  <1>8. ASSUME NEW t \in Threads, Get(t) PROVE RegistryShapes'
    <2>1. PICK s, n : s = th[t].reader[2] /\ n = th[t].data
      OBVIOUS
    <2>2. sent[s] \in Seq(Written) /\ n \in 1..Len(sent[s])
      BY <1>8, <2>1, PlaceShapes DEF Get, ThreadsPlaced, Shapes
    <2>3. n \in Nat
      BY <2>2
    <2> QED
      BY <1>8, <1>s, <2>1, <2>3 DEF Get, Become, RegistryShapes
  <1>9. ASSUME NEW t \in Threads, Answer(t) PROVE RegistryShapes'
    BY <1>9, <1>s DEF Answer, Become, RegistryShapes
  <1>10. ASSUME NEW t \in Threads, Erase(t) PROVE RegistryShapes'
    BY <1>10, <1>s DEF Erase, Become, RegistryShapes
  <1>o. CASE World \/ Calls \/ (\E t \in Threads : TakeFails(t)) \/ UNCHANGED vars
    BY <1>o, <1>1, OutsideThreads
  <1> QED
    BY <1>o, <1>2, <1>3, <1>4, <1>5, <1>6, <1>7, <1>8, <1>9, <1>10, NextCases

LEMMA ShapesStep ==
  ASSUME Shapes, ThreadsPlaced, CallsInOrder, [Next]_vars
  PROVE  Shapes'
  <1>1. crashed' \in BOOLEAN
    BY ZenonT(60), NextCases, WorldSends
    DEF Shapes, World, Calls, ClientAsks, ServerReplies, Discover, EnableCall, EnableStep,
        DisableCall, DisableWait, DisableStep, StartTask, Finish, Take, TakeFails, Skip,
        WriteRequest, Add, Get, Answer, Erase, vars
  <1>2. Shapes' <=> /\ CallShapes' /\ ReaderShapes' /\ RegistryShapes'
                    /\ crashed' \in BOOLEAN /\ sent' \in [Participants -> Seq(Written)]
    BY DEF Shapes, CallShapes, ReaderShapes, RegistryShapes
  <1> QED
    BY <1>1, <1>2, CallShapesStep, ReaderShapesStep, RegistryShapesStep, SentStep

-----------------------------------------------------------------------------
\* enable comes to a reader when no writer is left.
LEMMA WritersFirst ==
  ASSUME NEW e \in NextOf(EnableOrder), e \in Readers, toVisit \subseteq All
  PROVE  toVisit \cap Writers = {}
  <1> SUFFICES ASSUME NEW f \in toVisit, f \in Writers PROVE FALSE
    OBVIOUS
  <1>1. PICK i \in 1..4 : EnableOrder[i] = e[1] /\ \A j \in 1..4 : EnableOrder[j] = f[1] => i <= j
    BY DEF NextOf
  <1>2. e[1] \in {"request_reader", "reply_reader"} /\ f[1] \in {"request_writer", "reply_writer"}
    BY Endpoints
  <1>3. /\ EnableOrder[1] = "request_writer" /\ EnableOrder[2] = "reply_writer"
        /\ EnableOrder[3] = "reply_reader" /\ EnableOrder[4] = "request_reader"
    BY DEF EnableOrder
  <1>4. i \in {3, 4}
    BY <1>1, <1>2, <1>3
  <1>5. \E j \in {1, 2} : EnableOrder[j] = f[1]
    BY <1>2, <1>3
  <1> QED
    BY <1>1, <1>4, <1>5

LEMMA CallsInOrderStep ==
  ASSUME Shapes, CallsInOrder, [Next]_vars
  PROVE  CallsInOrder'
  <1>s. on \subseteq All /\ toVisit \subseteq All /\ Readers \cap Writers = {}
    BY Endpoints DEF Shapes
  <1>1. CASE UNCHANGED <<enabled, on, op, toVisit>>
    BY <1>1 DEF CallsInOrder
  <1>2. CASE EnableCall
    BY <1>2 DEF CallsInOrder, EnableCall, All
  <1>3. CASE EnableStep
    <2>1. PICK e \in NextOf(EnableOrder) : VisitedOne(e) /\ on' = on \cup {e}
      BY <1>3 DEF EnableStep
    <2>2. /\ e \in toVisit /\ toVisit' = toVisit \ {e} /\ op = "enable" /\ enabled' = enabled
          /\ op' = IF toVisit = {e} THEN "none" ELSE op
      BY <1>3, <2>1 DEF NextOf, VisitedOne, EnableStep
    <2>3. on' \cap Readers # {} => Writers \subseteq on'
      <3>1. CASE e \in Readers
        BY <1>s, <2>1, <2>2, <3>1, WritersFirst DEF CallsInOrder, All
      <3>2. CASE e \notin Readers
        BY <2>1, <2>2, <3>2 DEF CallsInOrder
      <3> QED
        BY <3>1, <3>2
    <2>4. enabled /\ on = All \ toVisit
      BY <2>2 DEF CallsInOrder
    <2>5. on' = All \ toVisit'
      BY <1>s, <2>1, <2>2, <2>4
    <2>6. op' = "none" => toVisit' = {}
      BY <2>2
    <2>7. op' = "none" \/ op' = "enable"
      BY <2>2
    <2> QED
      BY <2>2, <2>3, <2>4, <2>5, <2>6, <2>7 DEF CallsInOrder
  <1>4. CASE DisableCall
    BY <1>4 DEF CallsInOrder, DisableCall
  <1>5. CASE DisableWait
    BY <1>5 DEF CallsInOrder, DisableWait, All
  <1>6. CASE DisableStep
    <2>1. PICK e \in NextOf(DisableOrder) : VisitedOne(e) /\ on' = on \ {e}
      BY <1>6 DEF DisableStep
    <2>2. /\ e \in toVisit /\ toVisit' = toVisit \ {e} /\ op = "disable" /\ enabled' = enabled
          /\ op' = IF toVisit = {e} THEN "none" ELSE op
      BY <1>6, <2>1 DEF NextOf, VisitedOne, DisableStep
    <2>3. ~enabled /\ on = toVisit
      BY <2>2 DEF CallsInOrder
    <2>4. on' = toVisit' /\ (op' = "none" => toVisit' = {})
      BY <2>1, <2>2, <2>3
    <2>5. op' = "none" \/ op' = "disable"
      BY <2>2
    <2> QED
      BY <2>2, <2>3, <2>4, <2>5 DEF CallsInOrder
  <1>7. CASE UNCHANGED callVars
    BY <1>1, <1>7 DEF callVars
  <1>8. CASE \E p \in Participants : Discover(p)
    BY <1>1, <1>8 DEF Discover
  <1> QED
    BY ZenonT(60), <1>2, <1>3, <1>4, <1>5, <1>6, <1>7, <1>8, NextCases
    DEF World, Calls, ClientAsks, ServerReplies, StartTask, Finish, Take, TakeFails,
        Skip, WriteRequest, Add, Get, Answer, Erase, vars

LEMMA BusyMeansOnStep ==
  ASSUME Shapes, ThreadsPlaced, CallsInOrder, BusyMeansOn, [Next]_vars
  PROVE  BusyMeansOn'
  <1>c. ASSUME UNCHANGED <<on, op, enabled>>, NEW t \in Threads, NEW x, th' = [th EXCEPT ![t] = x],
               x.pc \in {"idle", "loop"} \/ Busy(t)
                 \/ (enabled /\ th[t].reader \in on /\ th[t].reader \in Readers)
        PROVE  BusyMeansOn'
    <2>1. \A u \in Threads : th'[u] = IF u = t THEN x ELSE th[u]
      BY <1>c DEF Shapes
    <2>2. ASSUME NEW u \in Threads, u # t, Busy(u)' PROVE Busy(u)
      BY <2>1, <2>2 DEF Busy
    <2>3. Busy(t)' => Writers \subseteq on /\ op # "disable" /\ (op = "none" => enabled)
      BY <1>c, <2>1 DEF Busy, CallsInOrder, BusyMeansOn
    <2> QED
      BY <1>c, <2>2, <2>3 DEF BusyMeansOn
  <1>1. CASE UNCHANGED <<on, op, enabled, th>>
    BY <1>1 DEF BusyMeansOn, Busy
  <1>2. CASE EnableCall \/ DisableStep
    BY <1>2, CallsInOrderStep DEF BusyMeansOn, Busy, EnableCall, DisableStep
  <1>3. CASE EnableStep
    <2>1. /\ op = "enable" /\ op' \in {"enable", "none"} /\ on \subseteq on'
          /\ UNCHANGED <<enabled, th>>
      BY <1>3 DEF EnableStep, VisitedOne
    <2> QED
      BY <2>1 DEF BusyMeansOn, Busy, CallsInOrder
  <1>4. CASE DisableCall
    BY <1>4 DEF BusyMeansOn, Busy, DisableCall
  <1>5. CASE DisableWait
    BY <1>5 DEF BusyMeansOn, Busy, DisableWait
  <1>6. ASSUME NEW t \in Threads, NEW r \in Readers, StartTask(t, r) PROVE BusyMeansOn'
    BY <1>6, <1>c DEF StartTask, Become, AtLoop, callVars
  <1>7. ASSUME NEW t \in Threads, Finish(t) PROVE BusyMeansOn'
    BY <1>7, <1>c DEF Finish, Become, Resting, callVars
  <1>8. ASSUME NEW t \in Threads, Take(t) PROVE BusyMeansOn'
    <2>1. enabled /\ th[t].reader \in on /\ th[t].reader \in Readers
      BY <1>8, PlaceShapes DEF Take, MayTake, ThreadsPlaced
    <2> QED
      BY <1>8, <1>c, <2>1 DEF Take, Become, callVars
  <1>9. ASSUME NEW t \in Threads, NEW s \in Participants, Skip(t, s) \/ WriteRequest(t, s)
        PROVE  BusyMeansOn'
    <2>1. Busy(t)
      BY <1>9 DEF Skip, WriteRequest, Busy
    <2> QED
      BY <1>9, <1>c, <2>1 DEF Skip, WriteRequest, Become, callVars
  <1>10. ASSUME NEW t \in Threads, Add(t) \/ Get(t) \/ Answer(t) \/ Erase(t)
         PROVE  BusyMeansOn'
    <2>1. Busy(t)
      BY <1>10 DEF Add, Get, Answer, Erase, Busy
    <2> QED
      BY <1>10, <1>c, <2>1 DEF Add, Get, Answer, Erase, Become, callVars
  <1> QED
    BY <1>1, <1>2, <1>3, <1>4, <1>5, <1>6, <1>7, <1>8, <1>9, <1>10, NextCases
    DEF World, Calls, ClientAsks, ServerReplies, Discover, TakeFails, vars, callVars

-----------------------------------------------------------------------------
\* The threads that transmit reader r, and how many they are.
Serving(r) == {t \in Threads : Reading(t, r)}
OneTask(r) == tasks[r] + Running1(r) = IF flag[r] THEN 1 ELSE 0
Woken(r) == enabled /\ r \in on /\ history[r] # <<>> => flag[r]

LEMMA ServingCount ==
  ASSUME NEW r \in Readers
  PROVE  /\ IsFiniteSet(Serving(r)) /\ Running1(r) = Cardinality(Serving(r))
         /\ Running1(r) \in Nat
  <1>1. IsFiniteSet(Serving(r))
    BY ServiceAssumption, FS_Subset DEF Serving
  <1> QED
    BY <1>1, FS_CardinalityType DEF Running1, Serving

\* A thread that goes on transmitting its reader is counted as before.
LEMMA ServingStands ==
  ASSUME Shapes, NEW t \in Threads, NEW x, th' = [th EXCEPT ![t] = x],
         th[t].pc # "idle", x.pc # "idle", x.reader = th[t].reader, NEW r \in Readers
  PROVE  Running1(r)' = Running1(r)
  <1>1. \A u \in Threads : th'[u] = IF u = t THEN x ELSE th[u]
    BY DEF Shapes
  <1>2. \A u \in Threads : Reading(u, r)' <=> Reading(u, r)
    BY <1>1 DEF Reading
  <1> QED
    BY <1>2 DEF Running1

\* No two threads transmit one reader.
LEMMA OneServes ==
  ASSUME Shapes, NoLostWakeup, NEW r \in Readers, NEW t \in Threads, NEW u \in Threads,
         Reading(t, r), Reading(u, r)
  PROVE  t = u
  <1> SUFFICES ASSUME t # u PROVE FALSE
    OBVIOUS
  <1>1. PICK k, n : k = tasks[r] /\ n = Running1(r)
    OBVIOUS
  <1>2. k \in Nat /\ n \in Nat /\ k + n = IF flag[r] THEN 1 ELSE 0
    BY <1>1, ServingCount DEF NoLostWakeup, Shapes
  <1>3. {t, u} \subseteq Serving(r) /\ IsFiniteSet(Serving(r)) /\ n = Cardinality(Serving(r))
    BY <1>1, ServingCount DEF Serving
  <1>4. Cardinality({t, u}) = 2
    <2>1. IsFiniteSet({t}) /\ Cardinality({t}) = 1 /\ u \notin {t} /\ {t} \cup {u} = {t, u}
      BY FS_Singleton
    <2>2. Cardinality({t} \cup {u}) = Cardinality({t}) + 1
      BY <2>1, FS_AddElement
    <2> QED
      BY <2>1, <2>2
  <1>5. Cardinality({t, u}) <= n
    BY <1>3, FS_Subset
  <1> QED
    BY <1>2, <1>4, <1>5

\* A callback leaves exactly one task.
LEMMA CallbackWakes ==
  ASSUME Shapes, NoLostWakeup, NEW r \in Readers, DataAvailable(r), UNCHANGED th
  PROVE  /\ OneTask(r)' /\ flag'[r]
         /\ \A p \in Readers \ {r} : OneTask(p)' /\ flag'[p] = flag[p]
  <1>1. flag \in [Readers -> BOOLEAN] /\ tasks \in [Readers -> Nat]
    BY DEF Shapes
  <1>2. \A p \in Readers : Running1(p)' = Running1(p)
    BY DEF Running1, Reading
  <1>3. PICK n : n = Running1(r)
    OBVIOUS
  <1>4. n \in Nat /\ tasks[r] + n = IF flag[r] THEN 1 ELSE 0
    BY <1>3, ServingCount DEF NoLostWakeup
  <1>5. flag'[r] = TRUE /\ tasks'[r] = IF flag[r] THEN tasks[r] ELSE tasks[r] + 1
    BY <1>1 DEF DataAvailable
  <1>6. tasks'[r] + n = 1
    BY <1>1, <1>4, <1>5
  <1>7. OneTask(r)'
    BY <1>2, <1>3, <1>5, <1>6 DEF OneTask
  <1>8. ASSUME NEW p \in Readers \ {r} PROVE OneTask(p)' /\ flag'[p] = flag[p]
    <2>1. flag'[p] = flag[p] /\ tasks'[p] = tasks[p]
      BY <1>1 DEF DataAvailable
    <2> QED
      BY <1>2, <2>1 DEF OneTask, NoLostWakeup
  <1> QED
    BY <1>5, <1>7, <1>8

LEMMA NoLostWakeupStep ==
  ASSUME Shapes, ThreadsPlaced, CallsInOrder, NoLostWakeup, [Next]_vars
  PROVE  NoLostWakeup'
  <1>n. NoLostWakeup <=> \A r \in Readers : OneTask(r) /\ Woken(r)
    BY DEF NoLostWakeup, OneTask, Woken
  <1>p. (\A r \in Readers : OneTask(r)' /\ Woken(r)') => NoLostWakeup'
    BY DEF NoLostWakeup, OneTask, Woken
  <1>s. /\ flag \in [Readers -> BOOLEAN] /\ tasks \in [Readers -> Nat]
        /\ history \in [Readers -> Seq(Requests \cup Nat)]
    BY DEF Shapes
  <1>f. ASSUME UNCHANGED <<flag, tasks, th>>, NEW r \in Readers PROVE OneTask(r)'
    <2>1. Running1(r)' = Running1(r)
      BY <1>f DEF Running1, Reading
    <2> QED
      BY <1>f, <1>n, <2>1 DEF OneTask
  <1>1. CASE UNCHANGED vars
    BY <1>1 DEF vars, callVars, readerVars, NoLostWakeup, Running1, Reading
  <1>2. CASE World
    <2>1. PICK r \in Readers, m \in Requests \cup Nat :
            Receive(r, m) /\ UNCHANGED <<callVars, th>>
      BY <1>2, WorldSends
    <2>2. \A p \in Readers \ {r} : history'[p] = history[p]
      BY <1>s, <2>1 DEF Receive
    <2>3. CASE r \in on /\ enabled
      <3>1. DataAvailable(r) /\ UNCHANGED <<on, enabled, th>>
        BY <2>1, <2>3 DEF Receive, callVars
      <3>2. /\ OneTask(r)' /\ flag'[r]
            /\ \A p \in Readers \ {r} : OneTask(p)' /\ flag'[p] = flag[p]
        BY <3>1, CallbackWakes
      <3>3. \A p \in Readers \ {r} : Woken(p)'
        BY <1>n, <2>2, <3>1, <3>2 DEF Woken
      <3> QED
        BY <1>p, <3>2, <3>3 DEF Woken
    <2>4. CASE ~(r \in on /\ enabled)
      <3>1. UNCHANGED <<flag, tasks, on, enabled, th>>
        BY <2>1, <2>4 DEF Receive, callVars
      <3>2. \A p \in Readers : Woken(p)'
        BY <1>n, <2>2, <2>4, <3>1 DEF Woken
      <3> QED
        BY <1>p, <1>f, <3>1, <3>2
    <2> QED
      BY <2>3, <2>4
  <1>3. CASE EnableStep
    <2>1. PICK e \in NextOf(EnableOrder) :
            /\ on' = on \cup {e}
            /\ IF NotifiesOnEnable(e) THEN DataAvailable(e) ELSE UNCHANGED <<flag, tasks>>
      BY <1>3 DEF EnableStep
    <2>2. UNCHANGED <<history, th, enabled>>
      BY <1>3 DEF EnableStep
    <2>3. CASE e \in Readers
      <3>1. DataAvailable(e)
        BY <2>1, <2>3 DEF NotifiesOnEnable
      <3>2. /\ OneTask(e)' /\ flag'[e]
            /\ \A p \in Readers \ {e} : OneTask(p)' /\ flag'[p] = flag[p]
        BY <2>2, <2>3, <3>1, CallbackWakes
      <3>3. \A p \in Readers \ {e} : Woken(p)'
        BY <1>n, <2>1, <2>2, <3>2 DEF Woken
      <3> QED
        BY <1>p, <3>2, <3>3 DEF Woken
    <2>4. CASE e \notin Readers
      <3>1. UNCHANGED <<flag, tasks>>
        BY <2>1, <2>4 DEF NotifiesOnEnable
      <3>2. \A p \in Readers : Woken(p)'
        BY <1>n, <2>1, <2>2, <2>4, <3>1 DEF Woken
      <3> QED
        BY <1>p, <1>f, <2>2, <3>1, <3>2
    <2> QED
      BY <2>3, <2>4
  <1>4. CASE EnableCall \/ DisableCall \/ DisableWait \/ DisableStep
              \/ (\E p \in Participants : Discover(p))
    <2>1. UNCHANGED <<flag, tasks, th, history>>
      BY <1>4 DEF EnableCall, DisableCall, DisableWait, DisableStep, Discover, readerVars
    <2>2. CASE EnableCall
      <3>1. on' = {}
        BY <2>2 DEF EnableCall, CallsInOrder
      <3> QED
        BY <1>p, <1>f, <2>1, <3>1 DEF Woken
    <2>3. CASE DisableCall
      BY <1>p, <1>f, <2>1, <2>3 DEF Woken, DisableCall
    <2>4. CASE DisableWait \/ (\E p \in Participants : Discover(p))
      <3>1. UNCHANGED <<on, enabled>>
        BY <2>4 DEF DisableWait, Discover
      <3>2. \A p \in Readers : Woken(p)'
        BY <1>n, <2>1, <3>1 DEF Woken
      <3> QED
        BY <1>p, <1>f, <2>1, <3>2
    <2>5. CASE DisableStep
      <3>1. enabled' = FALSE
        BY <2>5 DEF DisableStep, CallsInOrder, Shapes
      <3> QED
        BY <1>p, <1>f, <2>1, <3>1 DEF Woken
    <2> QED
      BY <1>4, <2>2, <2>3, <2>4, <2>5
  <1>5. ASSUME NEW t \in Threads, NEW r \in Readers, StartTask(t, r) PROVE NoLostWakeup'
    <2>1. /\ th[t].pc = "idle" /\ tasks[r] > 0 /\ tasks' = [tasks EXCEPT ![r] = tasks[r] - 1]
          /\ th' = [th EXCEPT ![t] = AtLoop(r)] /\ UNCHANGED <<flag, history, on, enabled>>
      BY <1>5 DEF StartTask, Become, callVars
    <2>2. \A u \in Threads : th'[u] = IF u = t THEN AtLoop(r) ELSE th[u]
      BY <2>1 DEF Shapes
    <2>3. Serving(r)' = Serving(r) \cup {t} /\ t \notin Serving(r)
      BY <2>1, <2>2 DEF Serving, Reading, AtLoop
    <2>4. \A p \in Readers \ {r} : Serving(p)' = Serving(p)
      BY <2>1, <2>2 DEF Serving, Reading, AtLoop
    <2>5. PICK k, n \in Nat : k = tasks[r] /\ n = Running1(r)
      BY <1>s, ServingCount
    <2>6. n = Cardinality(Serving(r)) /\ IsFiniteSet(Serving(r))
      BY <2>5, ServingCount
    <2>7. Running1(r)' = n + 1
      <3>1. Cardinality(Serving(r) \cup {t}) = n + 1
        BY <2>3, <2>6, FS_AddElement
      <3> QED
        BY <2>3, <3>1 DEF Running1, Serving
    <2>8. tasks'[r] = k - 1 /\ k + n = IF flag[r] THEN 1 ELSE 0
      BY <1>n, <1>s, <2>1, <2>5 DEF OneTask
    <2>9. OneTask(r)'
      <3>1. (k - 1) + (n + 1) = k + n
        BY <2>5
      <3> QED
        BY <2>1, <2>7, <2>8, <3>1 DEF OneTask
    <2>10. ASSUME NEW p \in Readers \ {r} PROVE OneTask(p)'
      <3>1. tasks'[p] = tasks[p] /\ Running1(p)' = Running1(p)
        BY <1>s, <2>1, <2>4 DEF Running1, Serving
      <3> QED
        BY <1>n, <2>1, <3>1 DEF OneTask
    <2>11. \A p \in Readers : Woken(p)'
      BY <1>n, <2>1 DEF Woken
    <2> QED
      BY <1>p, <2>9, <2>10, <2>11
  <1>6. ASSUME NEW t \in Threads, Finish(t) PROVE NoLostWakeup'
    <2>r. PICK r : r = th[t].reader
      OBVIOUS
    <2>1. /\ th[t].pc = "loop" /\ r \in Readers /\ (~enabled \/ history[r] = <<>>)
          /\ flag' = [flag EXCEPT ![r] = FALSE]
          /\ th' = [th EXCEPT ![t] = Resting] /\ UNCHANGED <<tasks, history, on, enabled>>
      BY <1>6, <2>r, PlaceShapes DEF Finish, Become, callVars, FlagAfter, ThreadsPlaced
    <2>2. \A u \in Threads : th'[u] = IF u = t THEN Resting ELSE th[u]
      BY <2>1 DEF Shapes
    <2>3. Serving(r)' = Serving(r) \ {t} /\ t \in Serving(r)
      BY <2>r, <2>1, <2>2 DEF Serving, Reading, Resting
    <2>4. \A p \in Readers \ {r} : Serving(p)' = Serving(p)
      BY <2>r, <2>1, <2>2 DEF Serving, Reading, Resting
    <2>5. PICK k, n \in Nat : k = tasks[r] /\ n = Running1(r)
      BY <1>s, <2>1, ServingCount
    <2>6. n = Cardinality(Serving(r)) /\ IsFiniteSet(Serving(r))
      BY <2>1, <2>5, ServingCount
    <2>7. Running1(r)' = n - 1 /\ n # 0
      <3>1. Cardinality(Serving(r) \ {t}) = n - 1 /\ n # 0
        BY <2>3, <2>6, FS_RemoveElement, FS_EmptySet
      <3> QED
        BY <2>3, <3>1 DEF Running1, Serving
    <2>8. k + n = 1 \/ k + n = 0
      BY <1>n, <2>1, <2>5 DEF OneTask
    <2>9. OneTask(r)'
      <3>1. k = 0 /\ n - 1 = 0
        BY <2>5, <2>7, <2>8
      <3>2. flag'[r] = FALSE /\ tasks'[r] = 0 /\ Running1(r)' = 0
        BY <1>s, <2>1, <2>5, <2>7, <3>1
      <3> QED
        BY <3>2 DEF OneTask
    <2>10. ASSUME NEW p \in Readers \ {r} PROVE OneTask(p)'
      <3>1. tasks'[p] = tasks[p] /\ flag'[p] = flag[p] /\ Running1(p)' = Running1(p)
        BY <1>s, <2>1, <2>4 DEF Running1, Serving
      <3> QED
        BY <1>n, <3>1 DEF OneTask
    <2>11. \A p \in Readers : Woken(p)'
      BY <1>n, <1>s, <2>1 DEF Woken
    <2> QED
      BY <1>p, <2>9, <2>10, <2>11
  <1>t. ASSUME NEW t \in Threads, NEW x, th' = [th EXCEPT ![t] = x], th[t].pc # "idle",
               x.pc # "idle", x.reader = th[t].reader, UNCHANGED <<flag, tasks>>,
               NEW r \in Readers
        PROVE  OneTask(r)'
    BY <1>t, <1>n, ServingStands DEF OneTask
  <1>7. ASSUME NEW t \in Threads, Take(t) PROVE NoLostWakeup'
    <2>1. PICK r, x : r = th[t].reader /\ x = Taken(r, Head(history[r]))
      OBVIOUS
    <2>2. /\ r \in Readers /\ history[r] # <<>> /\ history' = [history EXCEPT ![r] = Tail(@)]
          /\ th' = [th EXCEPT ![t] = x] /\ th[t].pc = "loop" /\ UNCHANGED <<flag, tasks, on, enabled>>
      BY <1>7, <2>1, PlaceShapes DEF Take, MayTake, Become, ThreadsPlaced, callVars
    <2>3. x.pc # "idle" /\ x.reader = r
      BY <2>1, <2>2, Endpoints DEF Taken, AtLoop
    <2>4. \A p \in Readers : OneTask(p)'
      BY <1>t, <2>1, <2>2, <2>3
    <2>5. \A p \in Readers : Woken(p)'
      BY <1>n, <1>s, <2>2 DEF Woken
    <2> QED
      BY <1>p, <2>4, <2>5
  <1>u. ASSUME NEW t \in Threads, NEW x, th' = [th EXCEPT ![t] = x], th[t].pc # "idle",
               x.pc # "idle", x.reader = th[t].reader, UNCHANGED <<flag, tasks, history, on, enabled>>
        PROVE  NoLostWakeup'
    <2>1. \A p \in Readers : Woken(p)'
      BY <1>u, <1>n DEF Woken
    <2> QED
      BY <1>p, <1>t, <1>u, <2>1
  <1>8. ASSUME NEW t \in Threads, NEW s \in Participants, Skip(t, s) PROVE NoLostWakeup'
    BY <1>8, <1>u DEF Skip, Become, Routing, AtLoop, callVars, readerVars
  <1>9. ASSUME NEW t \in Threads, NEW s \in Participants, WriteRequest(t, s) PROVE NoLostWakeup'
    BY <1>9, <1>u DEF WriteRequest, Become, Routing, AtLoop, callVars, readerVars
  <1>10. ASSUME NEW t \in Threads, Add(t) PROVE NoLostWakeup'
    BY <1>10, <1>u DEF Add, Become, Routing, AtLoop, callVars, readerVars
  <1>11. ASSUME NEW t \in Threads, Get(t) PROVE NoLostWakeup'
    BY <1>11, <1>u DEF Get, Become, AtLoop, callVars, readerVars
  <1>12. ASSUME NEW t \in Threads, Answer(t) PROVE NoLostWakeup'
    <2>1. PICK s, n, entry : s = th[t].reader[2] /\ n = th[t].data /\ entry = th[t].entry
      OBVIOUS
    <2>2. /\ th[t].reader = ReplyReader(s)
          /\ \/ th' = [th EXCEPT ![t] = ReplyOf("erase", s, n, entry)]
             \/ th' = [th EXCEPT ![t] = AtLoop(th[t].reader)]
      BY <1>12, <2>1, AnswerFits
    <2>3. th[t].pc # "idle" /\ UNCHANGED <<flag, tasks, history, on, enabled>>
      BY <1>12 DEF Answer, callVars, readerVars
    <2>4. CASE th' = [th EXCEPT ![t] = ReplyOf("erase", s, n, entry)]
      <3>1. PICK x : x = ReplyOf("erase", s, n, entry)
        OBVIOUS
      <3>2. x.pc # "idle" /\ x.reader = th[t].reader
        BY <2>2, <3>1 DEF ReplyOf
      <3> QED
        BY <1>u, <2>3, <2>4, <3>1, <3>2
    <2>5. CASE th' = [th EXCEPT ![t] = AtLoop(th[t].reader)]
      <3>1. PICK x : x = AtLoop(th[t].reader)
        OBVIOUS
      <3>2. x.pc # "idle" /\ x.reader = th[t].reader
        BY <3>1 DEF AtLoop
      <3> QED
        BY <1>u, <2>3, <2>5, <3>1, <3>2
    <2> QED
      BY <2>2, <2>4, <2>5
  <1>13. ASSUME NEW t \in Threads, Erase(t) PROVE NoLostWakeup'
    <2>1. PICK x : x = AtLoop(th[t].reader)
      OBVIOUS
    <2>2. x.pc # "idle" /\ x.reader = th[t].reader
      BY <2>1 DEF AtLoop
    <2>3. /\ th[t].pc # "idle" /\ th' = [th EXCEPT ![t] = x]
          /\ UNCHANGED <<flag, tasks, history, on, enabled>>
      BY <1>13, <2>1 DEF Erase, Become, callVars, readerVars
    <2> QED
      BY <1>u, <2>2, <2>3
  <1>14. ASSUME NEW t \in Threads, TakeFails(t) PROVE NoLostWakeup'
    BY <1>14 DEF TakeFails, callVars, readerVars, NoLostWakeup, Running1, Reading
  <1> QED
    BY <1>1, <1>2, <1>3, <1>4, <1>5, <1>6, <1>7, <1>8, <1>9, <1>10, <1>11, <1>12, <1>13, <1>14,
       NextCases DEF Calls

-----------------------------------------------------------------------------
\* How each action of a thread moves it.
Moves(t, x) == th' = [th EXCEPT ![t] = x]
LEMMA Moved ==
  ASSUME Shapes, NEW t \in Threads, NEW x, Moves(t, x)
  PROVE  th'[t] = x /\ \A u \in Threads \ {t} : th'[u] = th[u]
  BY DEF Shapes, Moves

\* A step that neither takes a mutex nor leaves one, nor touches a registry.
Aside(t, x) ==
  /\ Moves(t, x) /\ th[t].pc \notin {"add", "erase"} /\ x.pc \notin {"add", "answer", "erase"}
  /\ UNCHANGED <<holder, registry, sent>>
WriteOk(t, s, q, todo) ==
  /\ th[t] = RouteOf(q, th[t].todo) /\ q \in Requests /\ (Origin[q] = s => s \in Repeaters)
  /\ holder[s] = NoThread /\ holder' = [holder EXCEPT ![s] = t]
  /\ sent' = [sent EXCEPT ![s] = Append(@, [req |-> th[t].data, got |-> <<>>])]
  /\ Moves(t, AddOf(q, todo, s, Len(sent[s]) + 1))
  /\ UNCHANGED <<registry, dropped>>
AddOk(t, s, n, x) ==
  /\ th[t].pc = "add" /\ s = th[t].in /\ n = th[t].sn
  /\ registry' = [registry EXCEPT ![s] = Insert(registry[s], n, EntryFor(s, n))]
  /\ holder' = [holder EXCEPT ![s] = NoThread]
  /\ Moves(t, x) /\ x.pc \in {"loop", "route"}
  /\ UNCHANGED <<sent, dropped>>
GetOk(t, s, n) ==
  /\ th[t] = GetOf(s, n) /\ n \in DOMAIN registry[s] /\ holder[s] = NoThread
  /\ Moves(t, ReplyOf("answer", s, n, registry[s][n]))
  /\ UNCHANGED <<holder, registry, sent, dropped>>
GetMisses(t, s, n) ==
  /\ th[t] = GetOf(s, n) /\ n \notin DOMAIN registry[s] /\ holder[s] = NoThread
  /\ dropped' = [dropped EXCEPT ![s] = dropped[s] \cup {n}]
AnswerOk(t, s, n, entry) ==
  /\ th[t] = ReplyOf("answer", s, n, entry) /\ entry \in Entries /\ Answered(s, n, entry)
  /\ Moves(t, ReplyOf("erase", s, n, entry))
  /\ UNCHANGED <<holder, registry, dropped>>
EraseOk(t, s, n) ==
  /\ th[t].pc = "erase" /\ th[t].reader = ReplyReader(s) /\ n = th[t].data
  /\ registry' = [registry EXCEPT ![s] = Without(registry[s], n)]
  /\ Moves(t, AtLoop(th[t].reader))
  /\ UNCHANGED <<holder, sent, dropped>>

Effect ==
  \/ UNCHANGED <<th, holder, registry, sent, dropped>>
  \/ \E t \in Threads :
       \/ \E x : Aside(t, x) /\ UNCHANGED dropped
       \/ \E s \in Participants : \E q, todo : WriteOk(t, s, q, todo)
       \/ \E s \in Participants :
            \/ \E n \in 1..Len(sent[s]) : \E x :
                 AddOk(t, s, n, x) \/ (GetMisses(t, s, n) /\ Aside(t, x))
            \/ \E n \in 1..Len(sent[s]) : \E entry : AnswerOk(t, s, n, entry)
            \/ \E n \in 1..Len(sent[s]) : GetOk(t, s, n) \/ EraseOk(t, s, n)

LEMMA StepEffects ==
  ASSUME Shapes, ThreadsPlaced, HistoriesFit, MutexHeld, [Next]_vars
  PROVE  Effect
  <1>o. CASE World \/ Calls \/ (\E t \in Threads : TakeFails(t)) \/ UNCHANGED vars
    BY <1>o, OutsideThreads DEF Effect
  <1>a. ASSUME NEW t \in Threads, NEW x, Aside(t, x), UNCHANGED dropped PROVE Effect
    BY <1>a DEF Effect
  <1>1. ASSUME NEW t \in Threads, NEW r \in Readers, StartTask(t, r) PROVE Effect
    <2>1. PICK x : x = AtLoop(r)
      OBVIOUS
    <2>2. Aside(t, x) /\ UNCHANGED dropped
      BY <1>1, <2>1 DEF StartTask, Become, AtLoop, Aside, Moves
    <2> QED
      BY <1>a, <2>2
  <1>2. ASSUME NEW t \in Threads, Finish(t) PROVE Effect
    <2>1. PICK x : x = Resting
      OBVIOUS
    <2>2. Aside(t, x) /\ UNCHANGED dropped
      BY <1>2, <2>1 DEF Finish, Become, Resting, Aside, Moves
    <2> QED
      BY <1>a, <2>2
  <1>3. ASSUME NEW t \in Threads, Take(t) PROVE Effect
    <2>1. PICK x : x = Taken(th[t].reader, Head(history[th[t].reader]))
      OBVIOUS
    <2>2. x.pc \notin {"add", "answer", "erase"}
      BY <2>1 DEF Taken, AtLoop
    <2>3. Aside(t, x) /\ UNCHANGED dropped
      BY <1>3, <2>1, <2>2 DEF Take, MayTake, Become, Aside, Moves
    <2> QED
      BY <1>a, <2>3
  <1>4. ASSUME NEW t \in Threads, NEW s \in Participants, Skip(t, s) PROVE Effect
    <2>1. PICK x : x = Routing(th[t].reader, th[t].data, th[t].todo \ {s})
      OBVIOUS
    <2>2. x.pc \notin {"add", "answer", "erase"}
      BY <2>1 DEF Routing, AtLoop
    <2>3. Aside(t, x) /\ UNCHANGED dropped
      BY <1>4, <2>1, <2>2 DEF Skip, Become, Aside, Moves
    <2> QED
      BY <1>a, <2>3
  <1>5. ASSUME NEW t \in Threads, NEW s \in Participants, WriteRequest(t, s) PROVE Effect
    <2>1. CASE RequestWriter(s) \notin on
      <3>1. PICK x : x = Routing(th[t].reader, th[t].data, th[t].todo \ {s})
        OBVIOUS
      <3>2. x.pc \notin {"add", "answer", "erase"}
        BY <3>1 DEF Routing, AtLoop
      <3>3. Aside(t, x) /\ UNCHANGED dropped
        BY <1>5, <2>1, <3>1, <3>2 DEF WriteRequest, Become, Aside, Moves
      <3> QED
        BY <1>a, <3>3
    <2>2. CASE RequestWriter(s) \in on
      <3>1. PICK q, todo : q = th[t].data /\ todo = th[t].todo \ {s}
        OBVIOUS
      <3>2. /\ q \in Requests /\ th[t].reader = RequestReader(Origin[q])
            /\ th[t].reader[2] = Origin[q] /\ th[t] = RouteOf(q, th[t].todo)
        BY <1>5, <3>1, PlaceShapes DEF WriteRequest, ThreadsPlaced
      <3>3. Origin[q] = s => s \in Repeaters
        BY <1>5, <3>2 DEF WriteRequest, Skipped
      <3>4. WriteOk(t, s, q, todo)
        BY <1>5, <2>2, <3>1, <3>2, <3>3
        DEF WriteRequest, WriteOk, Become, Moves, AddOf, RegistryFree
      <3> QED
        BY <3>4 DEF Effect
    <2> QED
      BY <2>1, <2>2
  <1>6. ASSUME NEW t \in Threads, Add(t) PROVE Effect
    <2>1. PICK s, n, x :
            s = th[t].in /\ n = th[t].sn /\ x = Routing(th[t].reader, th[t].data, th[t].todo)
      OBVIOUS
    <2>2. /\ s \in Participants /\ n \in 1..Len(sent[s]) /\ th[t].pc = "add"
          /\ th[t].reader[2] = Origin[th[t].data]
      BY <1>6, <2>1, PlaceShapes DEF Add, ThreadsPlaced
    <2>3. [to |-> th[t].reader[2], req |-> th[t].data] = EntryFor(s, n)
      BY <2>1, <2>2 DEF MutexHeld, EntryFor
    <2>4. x.pc \in {"loop", "route"}
      BY <2>1 DEF Routing, AtLoop
    <2>5. AddOk(t, s, n, x)
      BY <1>6, <2>1, <2>2, <2>3, <2>4 DEF Add, AddOk, Become, Moves
    <2> QED
      BY <2>2, <2>5 DEF Effect
  <1>7. ASSUME NEW t \in Threads, Get(t) PROVE Effect
    <2>1. PICK s, n : s = th[t].reader[2] /\ n = th[t].data
      OBVIOUS
    <2>2. /\ s \in Participants /\ n \in 1..Len(sent[s]) /\ th[t] = GetOf(s, n)
          /\ th[t].reader = ReplyReader(s)
      BY <1>7, <2>1, PlaceShapes DEF Get, ThreadsPlaced
    <2>3. CASE n \in DOMAIN registry[s]
      <3>1. GetOk(t, s, n)
        BY <1>7, <2>1, <2>2, <2>3 DEF Get, GetOk, Become, Moves, ReplyOf, MayGet, RegistryFree
      <3> QED
        BY <2>2, <3>1 DEF Effect
    <2>4. CASE n \notin DOMAIN registry[s]
      <3>1. PICK x : x = AtLoop(th[t].reader)
        OBVIOUS
      <3>2. GetMisses(t, s, n)
        BY <1>7, <2>1, <2>2, <2>4 DEF Get, GetMisses, MayGet, RegistryFree
      <3>3. Aside(t, x)
        BY <1>7, <2>1, <2>4, <3>1 DEF Get, Become, AtLoop, Aside, Moves
      <3> QED
        BY <2>2, <3>2, <3>3 DEF Effect
    <2> QED
      BY <2>3, <2>4
  <1>8. ASSUME NEW t \in Threads, Answer(t) PROVE Effect
    <2>1. PICK s, n, entry : s = th[t].reader[2] /\ n = th[t].data /\ entry = th[t].entry
      OBVIOUS
    <2>2. /\ s \in Participants /\ n \in 1..Len(sent[s]) /\ entry \in Entries
          /\ th[t] = ReplyOf("answer", s, n, entry)
          /\ \/ Answered(s, n, entry) /\ th' = [th EXCEPT ![t] = ReplyOf("erase", s, n, entry)]
             \/ sent' = sent /\ th' = [th EXCEPT ![t] = AtLoop(th[t].reader)]
      BY <1>8, <2>1, AnswerFits
    <2>3. UNCHANGED <<holder, registry, dropped>> /\ th[t].pc = "answer"
      BY <1>8 DEF Answer
    <2>4. CASE Answered(s, n, entry) /\ th' = [th EXCEPT ![t] = ReplyOf("erase", s, n, entry)]
      <3>1. AnswerOk(t, s, n, entry)
        BY <2>2, <2>3, <2>4 DEF AnswerOk, Moves
      <3> QED
        BY <2>2, <3>1 DEF Effect
    <2>5. CASE sent' = sent /\ th' = [th EXCEPT ![t] = AtLoop(th[t].reader)]
      <3>1. PICK x : x = AtLoop(th[t].reader)
        OBVIOUS
      <3>2. Aside(t, x) /\ UNCHANGED dropped
        BY <2>3, <2>5, <3>1 DEF AtLoop, Aside, Moves
      <3> QED
        BY <1>a, <3>2
    <2> QED
      BY <2>2, <2>4, <2>5
  <1>9. ASSUME NEW t \in Threads, Erase(t) PROVE Effect
    <2>1. PICK s, n : s = th[t].reader[2] /\ n = th[t].data
      OBVIOUS
    <2>2. /\ s \in Participants /\ n \in 1..Len(sent[s]) /\ th[t].reader = ReplyReader(s)
      BY <1>9, <2>1, PlaceShapes DEF Erase, ThreadsPlaced
    <2>3. EraseOk(t, s, n)
      BY <1>9, <2>1, <2>2 DEF Erase, EraseOk, Become, Moves
    <2> QED
      BY <2>2, <2>3 DEF Effect
  <1> QED
    BY <1>o, <1>1, <1>2, <1>3, <1>4, <1>5, <1>6, <1>7, <1>8, <1>9, NextCases

LEMMA WriteOkSends ==
  ASSUME Shapes, ThreadsPlaced, NEW t \in Threads, NEW s \in Participants, NEW q, NEW todo,
         WriteOk(t, s, q, todo)
  PROVE  /\ th[t].pc = "route" /\ Len(sent[s]) \in Nat
         /\ \A p \in Participants \ {s} : sent'[p] = sent[p] /\ holder'[p] = holder[p]
         /\ holder'[s] = t /\ Len(sent'[s]) = Len(sent[s]) + 1
         /\ \A n \in 1..Len(sent[s]) : sent'[s][n] = sent[s][n]
         /\ sent'[s][Len(sent[s]) + 1] = [req |-> q, got |-> <<>>]
  <1>1. /\ th[t].pc = "route" /\ th[t].data = q
        /\ sent' = [sent EXCEPT ![s] = Append(@, [req |-> th[t].data, got |-> <<>>])]
    BY DEF WriteOk, RouteOf
  <1>2. \A p \in Participants : holder'[p] = IF p = s THEN t ELSE holder[p]
    BY DEF WriteOk, Shapes
  <1>3. Len(sent[s]) \in Nat
    BY <1>1, WriteSends DEF SentGrows
  <1> QED
    BY <1>1, <1>2, <1>3, WriteSends

LEMMA HolderAdds ==
  ASSUME Shapes, MutexHeld, NEW s \in Participants, NEW u, u = holder[s], u # NoThread
  PROVE  u \in Threads /\ th[u].pc = "add" /\ th[u].in = s
  BY ZenonT(60) DEF Shapes, MutexHeld

LEMMA MutexHeldStep ==
  ASSUME Shapes, ThreadsPlaced, MutexHeld, Effect
  PROVE  MutexHeld'
  <1>1. CASE UNCHANGED <<th, holder, registry, sent, dropped>>
    BY <1>1 DEF MutexHeld
  <1>b. ASSUME NEW t \in Threads, NEW x, Moves(t, x), th[t].pc # "add", x.pc # "add",
               UNCHANGED holder,
               \A s \in Participants : \A n \in 1..Len(sent[s]) :
                 Len(sent'[s]) = Len(sent[s]) /\ sent'[s][n].req = sent[s][n].req
        PROVE  MutexHeld'
    <2>1. ASSUME NEW u \in Threads, th'[u].pc = "add"
          PROVE  /\ holder'[th'[u].in] = u /\ th'[u].sn = Len(sent'[th'[u].in])
                 /\ sent'[th'[u].in][th'[u].sn].req = th'[u].data
      <3>1. th'[u] = th[u] /\ th[u].pc = "add"
        BY <1>b, <2>1, Moved
      <3>2. PICK s, n : s = th[u].in /\ n = th[u].sn
        OBVIOUS
      <3>3. s \in Participants /\ n \in 1..Len(sent[s])
        BY <3>1, <3>2, PlaceShapes DEF ThreadsPlaced
      <3>4. holder[s] = u /\ n = Len(sent[s]) /\ sent[s][n].req = th[u].data
        BY <3>1, <3>2 DEF MutexHeld
      <3>5. holder'[s] = u /\ n = Len(sent'[s]) /\ sent'[s][n].req = th[u].data
        BY <1>b, <3>3, <3>4
      <3> QED
        BY <3>1, <3>2, <3>5
    <2>2. ASSUME NEW s \in Participants, holder'[s] # NoThread
          PROVE  th'[holder'[s]].pc = "add" /\ th'[holder'[s]].in = s
      <3>1. PICK u : u = holder[s]
        OBVIOUS
      <3>2. u \in Threads /\ th[u].pc = "add" /\ th[u].in = s /\ holder'[s] = u
        BY <1>b, <2>2, <3>1, HolderAdds
      <3>3. th'[u] = th[u]
        BY <1>b, <3>2, Moved
      <3> QED
        BY <3>2, <3>3
    <2> QED
      BY <2>1, <2>2 DEF MutexHeld
  <1>2. ASSUME NEW t \in Threads, NEW x, Aside(t, x) PROVE MutexHeld'
    BY <1>2, <1>b DEF Aside
  <1>3. ASSUME NEW t \in Threads, NEW s \in Participants, NEW q, NEW todo, WriteOk(t, s, q, todo)
        PROVE  MutexHeld'
    <2>w. \A p \in Participants \ {s} : sent'[p] = sent[p] /\ holder'[p] = holder[p]
      BY <1>3, WriteOkSends
    <2>1. PICK n, x : n = Len(sent[s]) + 1 /\ x = AddOf(q, todo, s, n)
      OBVIOUS
    <2>2. /\ th'[t] = x /\ \A u \in Threads \ {t} : th'[u] = th[u]
      BY <1>3, <2>1, Moved DEF WriteOk
    <2>3. x.pc = "add" /\ x.in = s /\ x.sn = n /\ x.data = q
      BY <2>1 DEF AddOf
    <2>4. ASSUME NEW u \in Threads, th'[u].pc = "add"
          PROVE  /\ holder'[th'[u].in] = u /\ th'[u].sn = Len(sent'[th'[u].in])
                 /\ sent'[th'[u].in][th'[u].sn].req = th'[u].data
      <3>1. CASE u = t
        <4>1. holder'[s] = t /\ n = Len(sent'[s]) /\ sent'[s][n] = [req |-> q, got |-> <<>>]
          BY <1>3, <2>1, WriteOkSends
        <4>2. sent'[s][n].req = q
          BY <4>1
        <4> QED
          BY <2>2, <2>3, <3>1, <4>1, <4>2
      <3>2. CASE u # t
        <4>1. th'[u] = th[u] /\ th[u].pc = "add"
          BY <2>2, <2>4, <3>2
        <4>2. /\ th[u].in \in Participants /\ holder[th[u].in] = u
              /\ th[u].sn = Len(sent[th[u].in])
              /\ sent[th[u].in][th[u].sn].req = th[u].data
          BY <4>1, PlaceShapes DEF MutexHeld, ThreadsPlaced
        <4>3. th[u].in # s
          BY <1>3, <4>2, ThreadsAssumption DEF WriteOk
        <4>4. sent'[th[u].in] = sent[th[u].in] /\ holder'[th[u].in] = holder[th[u].in]
          BY <2>w, <4>2, <4>3
        <4> QED
          BY <4>1, <4>2, <4>4
      <3> QED
        BY <3>1, <3>2
    <2>5. ASSUME NEW p \in Participants, holder'[p] # NoThread
          PROVE  th'[holder'[p]].pc = "add" /\ th'[holder'[p]].in = p
      <3>1. CASE p = s
        BY <1>3, <2>2, <2>3, <3>1, WriteOkSends
      <3>2. CASE p # s
        <4>1. PICK u : u = holder[p]
          OBVIOUS
        <4>2. u \in Threads /\ th[u].pc = "add" /\ th[u].in = p /\ holder'[p] = u
          <5>1. holder'[p] = holder[p]
            BY <2>w, <3>2
          <5> QED
            BY <2>5, <4>1, <5>1, HolderAdds
        <4>3. u # t
          BY <1>3, <4>2, WriteOkSends
        <4> QED
          BY <2>2, <4>2, <4>3
      <3> QED
        BY <3>1, <3>2
    <2> QED
      BY <2>4, <2>5 DEF MutexHeld
  <1>4. ASSUME NEW t \in Threads, NEW s \in Participants, NEW n, NEW x, AddOk(t, s, n, x)
        PROVE  MutexHeld'
    <2>1. /\ th'[t] = x /\ \A u \in Threads \ {t} : th'[u] = th[u]
      BY <1>4, Moved DEF AddOk
    <2>2. /\ th[t].pc = "add" /\ th[t].in = s /\ holder[s] = t /\ x.pc # "add"
          /\ \A p \in Participants : holder'[p] = IF p = s THEN NoThread ELSE holder[p]
          /\ UNCHANGED sent
      BY <1>4 DEF AddOk, MutexHeld, Shapes
    <2>3. ASSUME NEW u \in Threads, th'[u].pc = "add"
          PROVE  /\ holder'[th'[u].in] = u /\ th'[u].sn = Len(sent'[th'[u].in])
                 /\ sent'[th'[u].in][th'[u].sn].req = th'[u].data
      <3>1. u # t /\ th'[u] = th[u] /\ th[u].pc = "add"
        BY <2>1, <2>2, <2>3
      <3>2. /\ th[u].in \in Participants /\ holder[th[u].in] = u
            /\ th[u].sn = Len(sent[th[u].in])
            /\ sent[th[u].in][th[u].sn].req = th[u].data
        BY <3>1, PlaceShapes DEF MutexHeld, ThreadsPlaced
      <3>3. th[u].in # s
        BY <2>2, <3>1, <3>2
      <3> QED
        BY <2>2, <3>1, <3>2, <3>3
    <2>4. ASSUME NEW p \in Participants, holder'[p] # NoThread
          PROVE  th'[holder'[p]].pc = "add" /\ th'[holder'[p]].in = p
      <3>1. p # s
        BY <2>2, <2>4
      <3>2. PICK u : u = holder[p]
        OBVIOUS
      <3>3. u \in Threads /\ th[u].pc = "add" /\ th[u].in = p /\ holder'[p] = u
        BY <2>2, <2>4, <3>1, <3>2, HolderAdds
      <3> QED
        BY <2>1, <2>2, <3>1, <3>3
    <2> QED
      BY <2>3, <2>4 DEF MutexHeld
  <1>5. ASSUME NEW t \in Threads, NEW s \in Participants, NEW n, GetOk(t, s, n) PROVE MutexHeld'
    <2>1. PICK x : x = ReplyOf("answer", s, n, registry[s][n])
      OBVIOUS
    <2>2. th[t].pc # "add" /\ x.pc # "add" /\ Moves(t, x) /\ UNCHANGED <<holder, sent>>
      BY <1>5, <2>1 DEF GetOk, GetOf, ReplyOf
    <2> QED
      BY <1>b, <2>2
  <1>6. ASSUME NEW t \in Threads, NEW s \in Participants, NEW n \in 1..Len(sent[s]), NEW entry,
               AnswerOk(t, s, n, entry)
        PROVE  MutexHeld'
    <2>1. PICK x : x = ReplyOf("erase", s, n, entry)
      OBVIOUS
    <2>2. th[t].pc # "add" /\ x.pc # "add" /\ Moves(t, x) /\ UNCHANGED holder
      BY <1>6, <2>1 DEF AnswerOk, ReplyOf
    <2>3. entry \in Entries /\ Answered(s, n, entry)
      BY <1>6 DEF AnswerOk
    <2>4. /\ \A p \in Participants : Len(sent'[p]) = Len(sent[p])
          /\ \A p \in Participants \ {s} : sent'[p] = sent[p]
          /\ \A m \in 1..Len(sent[s]) : sent'[s][m].req = sent[s][m].req
      BY <2>3, AnswerSends
    <2> QED
      BY <1>b, <2>2, <2>4
  <1>7. ASSUME NEW t \in Threads, NEW s \in Participants, NEW n, EraseOk(t, s, n) PROVE MutexHeld'
    <2>1. PICK x : x = AtLoop(th[t].reader)
      OBVIOUS
    <2>2. th[t].pc # "add" /\ x.pc # "add" /\ Moves(t, x) /\ UNCHANGED <<holder, sent>>
      BY <1>7, <2>1 DEF EraseOk, AtLoop
    <2> QED
      BY <1>b, <2>2
  <1> QED
    BY <1>1, <1>2, <1>3, <1>4, <1>5, <1>6, <1>7 DEF Effect

-----------------------------------------------------------------------------
\* While a request is being recorded, the others stay settled; it is settled at its entry.
LEMMA SettledShapes ==
  ASSUME Shapes, NEW s \in Participants
  PROVE  /\ Len(sent[s]) \in Nat /\ Settled(s) \subseteq 1..Len(sent[s])
         /\ holder[s] = NoThread => Settled(s) = 1..Len(sent[s])
         /\ holder[s] # NoThread => Settled(s) = 1..(Len(sent[s]) - 1)
  <1>1. PICK n : n = Len(sent[s])
    OBVIOUS
  <1>2. n \in Nat
    BY <1>1 DEF Shapes
  <1> QED
    BY <1>1, <1>2 DEF Settled

LEMMA SettledAtWrite ==
  ASSUME Shapes, ThreadsPlaced, NEW t \in Threads, NEW s \in Participants, NEW q, NEW todo,
         WriteOk(t, s, q, todo)
  PROVE  \A p \in Participants : Settled(p)' = Settled(p)
  <1>1. \A p \in Participants \ {s} : sent'[p] = sent[p] /\ holder'[p] = holder[p]
    BY WriteOkSends
  <1>2. PICK n : n = Len(sent[s])
    OBVIOUS
  <1>3. n \in Nat /\ Len(sent'[s]) = n + 1 /\ holder[s] = NoThread /\ holder'[s] # NoThread
    <2>1. Len(sent[s]) \in Nat /\ Len(sent'[s]) = Len(sent[s]) + 1 /\ holder'[s] = t
      BY WriteOkSends
    <2>2. holder[s] = NoThread
      BY DEF WriteOk
    <2> QED
      BY <1>2, <2>1, <2>2, ThreadsAssumption
  <1>4. Settled(s)' = Settled(s)
    <2>1. (n + 1) - 1 = n
      BY <1>3
    <2> QED
      BY <1>2, <1>3, <2>1 DEF Settled
  <1> QED
    BY <1>1, <1>4 DEF Settled

LEMMA SettledAtAdd ==
  ASSUME Shapes, ThreadsPlaced, MutexHeld, NEW t \in Threads, NEW s \in Participants, NEW n, NEW x,
         AddOk(t, s, n, x)
  PROVE  /\ \A p \in Participants \ {s} : Settled(p)' = Settled(p)
         /\ n \in Nat /\ n = Len(sent[s]) /\ n >= 1 /\ Settled(s) = 1..(n - 1) /\ Settled(s)' = 1..n
  <1>1. holder[s] = t /\ n = Len(sent[s]) /\ n \in 1..Len(sent[s])
    BY PlaceShapes DEF AddOk, MutexHeld, ThreadsPlaced
  <1>2. \A p \in Participants : holder'[p] = IF p = s THEN NoThread ELSE holder[p]
    BY DEF AddOk, Shapes
  <1>3. UNCHANGED sent
    BY DEF AddOk
  <1>4. n \in Nat /\ Settled(s) = 1..(n - 1)
    BY <1>1, SettledShapes, ThreadsAssumption
  <1>5. Settled(s)' = 1..n
    BY <1>1, <1>2, <1>3 DEF Settled
  <1>6. \A p \in Participants \ {s} : Settled(p)' = Settled(p)
    BY <1>2, <1>3 DEF Settled
  <1> QED
    BY <1>1, <1>4, <1>5, <1>6

\* A thread that keeps its place, at a participant whose requests stand.
LEMMA AnsweringStands ==
  ASSUME ThreadsPlaced, RepliesMatch, NEW u \in Threads, th'[u] = th[u],
         th[u].pc \in {"answer", "erase"} =>
           /\ Settled(th[u].reader[2]) \subseteq Settled(th[u].reader[2])'
           /\ \A n \in 1..Len(sent[th[u].reader[2]]) :
                sent'[th[u].reader[2]][n] = sent[th[u].reader[2]][n]
  PROVE  Answering(u)'
  <1>1. CASE th[u].pc \notin {"answer", "erase"}
    BY <1>1 DEF Answering
  <1>2. CASE th[u].pc \in {"answer", "erase"}
    <2>1. PICK s, n : s = th[u].reader[2] /\ n = th[u].data
      OBVIOUS
    <2>2. s \in Participants /\ n \in 1..Len(sent[s])
      BY <1>2, <2>1, PlaceShapes DEF ThreadsPlaced
    <2>3. /\ n \in Settled(s)
          /\ th[u].pc = "answer" => th[u].entry = EntryFor(s, n) /\ sent[s][n].got = <<>>
          /\ th[u].pc = "erase" => sent[s][n].got # <<>>
      BY <1>2, <2>1 DEF RepliesMatch, Answering
    <2>4. sent'[s][n] = sent[s][n] /\ n \in Settled(s)'
      BY <1>2, <2>1, <2>2, <2>3
    <2> QED
      BY <2>1, <2>3, <2>4 DEF Answering, EntryFor
  <1> QED
    BY <1>1, <1>2

LEMMA RepliesMatchStep ==
  ASSUME Shapes, ThreadsPlaced, MutexHeld, NoLostWakeup, RepliesMatch, RegistriesRecord, Effect
  PROVE  RepliesMatch'
  <1>1. CASE UNCHANGED <<th, holder, registry, sent, dropped>>
    BY <1>1 DEF RepliesMatch, Answering, Settled, EntryFor
  <1>b. ASSUME NEW t \in Threads, NEW x, Moves(t, x), UNCHANGED sent,
               \A s \in Participants : Settled(s) \subseteq Settled(s)', Answering(t)'
        PROVE  RepliesMatch'
    <2>1. ASSUME NEW u \in Threads, u # t PROVE Answering(u)'
      <3>1. th'[u] = th[u]
        BY <1>b, <2>1, Moved
      <3>2. th[u].pc \in {"answer", "erase"} => th[u].reader[2] \in Participants
        BY PlaceShapes DEF ThreadsPlaced
      <3> QED
        BY <1>b, <3>1, <3>2, AnsweringStands
    <2> QED
      BY <1>b, <2>1 DEF RepliesMatch
  <1>2. ASSUME NEW t \in Threads, NEW x, Aside(t, x) PROVE RepliesMatch'
    <2>1. Answering(t)'
      BY <1>2, Moved DEF Aside, Answering
    <2>2. \A s \in Participants : Settled(s)' = Settled(s)
      BY <1>2 DEF Aside, Settled
    <2> QED
      BY <1>2, <1>b, <2>1, <2>2 DEF Aside
  <1>3. ASSUME NEW t \in Threads, NEW s \in Participants, NEW q, NEW todo, WriteOk(t, s, q, todo)
        PROVE  RepliesMatch'
    <2>1. PICK x : x = AddOf(q, todo, s, Len(sent[s]) + 1)
      OBVIOUS
    <2>2. Moves(t, x) /\ x.pc = "add"
      BY <1>3, <2>1 DEF WriteOk, AddOf
    <2>3. Answering(t)'
      BY <2>2, Moved DEF Answering
    <2>4. \A p \in Participants : Settled(p)' = Settled(p)
      BY <1>3, SettledAtWrite
    <2>5. \A p \in Participants : \A n \in 1..Len(sent[p]) : sent'[p][n] = sent[p][n]
      <3>1. /\ \A p \in Participants \ {s} : sent'[p] = sent[p]
            /\ \A n \in 1..Len(sent[s]) : sent'[s][n] = sent[s][n]
        BY <1>3, WriteOkSends
      <3> QED
        BY <3>1
    <2>6. ASSUME NEW u \in Threads, u # t PROVE Answering(u)'
      <3>1. th'[u] = th[u]
        BY <2>2, <2>6, Moved
      <3>2. th[u].pc \in {"answer", "erase"} => th[u].reader[2] \in Participants
        BY PlaceShapes DEF ThreadsPlaced
      <3> QED
        BY <2>4, <2>5, <3>1, <3>2, AnsweringStands
    <2> QED
      BY <2>3, <2>6 DEF RepliesMatch
  <1>4. ASSUME NEW t \in Threads, NEW s \in Participants, NEW n, NEW x, AddOk(t, s, n, x)
        PROVE  RepliesMatch'
    <2>1. \A p \in Participants : Settled(p) \subseteq Settled(p)'
      <3>1. /\ \A p \in Participants \ {s} : Settled(p)' = Settled(p)
            /\ n \in Nat /\ Settled(s) = 1..(n - 1) /\ Settled(s)' = 1..n
        BY <1>4, SettledAtAdd
      <3>2. 1..(n - 1) \subseteq 1..n
        BY <3>1
      <3> QED
        BY <3>1, <3>2
    <2>2. Moves(t, x) /\ x.pc \in {"loop", "route"} /\ UNCHANGED sent
      BY <1>4 DEF AddOk
    <2>3. Answering(t)'
      BY <2>2, Moved DEF Answering
    <2> QED
      BY <1>b, <2>1, <2>2, <2>3
  <1>5. ASSUME NEW t \in Threads, NEW s \in Participants, NEW n \in 1..Len(sent[s]), GetOk(t, s, n)
        PROVE  RepliesMatch'
    <2>1. PICK x : x = ReplyOf("answer", s, n, registry[s][n])
      OBVIOUS
    <2>2. /\ Moves(t, x) /\ UNCHANGED <<holder, sent>> /\ n \in DOMAIN registry[s]
          /\ th[t] = GetOf(s, n)
      BY <1>5, <2>1 DEF GetOk
    <2>3. \A p \in Participants : Settled(p)' = Settled(p)
      BY <2>2 DEF Settled
    <2>4. Recorded(s)
      BY DEF RegistriesRecord
    <2>5. n \in Settled(s) /\ registry[s][n] = EntryFor(s, n)
      BY <2>2, <2>4 DEF Recorded
    <2>6. sent[s][n].got = <<>>
      <3> SUFFICES ASSUME sent[s][n].got # <<>> PROVE FALSE
        OBVIOUS
      <3>1. Erasing(s, n)
        BY <2>2, <2>4 DEF Recorded
      <3>2. PICK u \in Threads : th[u].pc = "erase" /\ th[u].reader = ReplyReader(s)
        BY <3>1 DEF Erasing
      <3>3. Reading(u, ReplyReader(s)) /\ Reading(t, ReplyReader(s)) /\ th[t].pc = "get"
        BY <2>2, <3>2 DEF Reading, GetOf
      <3>4. ReplyReader(s) \in Readers
        BY Endpoints
      <3> QED
        BY <3>2, <3>3, <3>4, OneServes
    <2>7. th'[t] = x
      BY <2>2, Moved
    <2>8. x.pc = "answer" /\ x.reader[2] = s /\ x.data = n /\ x.entry = EntryFor(s, n)
      BY <2>1, <2>5, Endpoints DEF ReplyOf
    <2>9. Answering(t)'
      BY <2>2, <2>3, <2>5, <2>6, <2>7, <2>8 DEF Answering, EntryFor
    <2> QED
      BY <1>b, <2>2, <2>3, <2>9
  <1>6. ASSUME NEW t \in Threads, NEW s \in Participants, NEW n \in 1..Len(sent[s]), NEW entry,
               AnswerOk(t, s, n, entry)
        PROVE  RepliesMatch'
    <2>1. PICK x : x = ReplyOf("erase", s, n, entry)
      OBVIOUS
    <2>2. /\ Moves(t, x) /\ UNCHANGED holder /\ th[t] = ReplyOf("answer", s, n, entry)
          /\ entry \in Entries /\ Answered(s, n, entry)
      BY <1>6, <2>1 DEF AnswerOk
    <2>3. /\ \A p \in Participants : Len(sent'[p]) = Len(sent[p])
          /\ \A p \in Participants \ {s} : sent'[p] = sent[p]
          /\ sent'[s][n].got = Append(sent[s][n].got, entry)
      BY <2>2, AnswerSends
    <2>4. \A p \in Participants : Settled(p)' = Settled(p)
      BY <2>2, <2>3 DEF Settled
    <2>5. ASSUME NEW u \in Threads, u # t PROVE Answering(u)'
      <3>1. th'[u] = th[u]
        BY <2>2, <2>5, Moved
      <3>2. th[u].pc \in {"answer", "erase"} =>
              th[u].reader[2] \in Participants /\ th[u].reader[2] # s
        <4> SUFFICES ASSUME th[u].pc \in {"answer", "erase"}
                     PROVE  th[u].reader[2] \in Participants /\ th[u].reader[2] # s
          OBVIOUS
        <4>1. /\ th[u].reader[2] \in Participants
              /\ th[u].reader = ReplyReader(th[u].reader[2])
          BY PlaceShapes DEF ThreadsPlaced
        <4>2. th[u].reader # ReplyReader(s)
          <5>1. Reading(t, ReplyReader(s)) /\ ReplyReader(s) \in Readers
            BY <2>2, Endpoints DEF Reading, ReplyOf
          <5> QED
            BY <2>5, <5>1, OneServes DEF Reading
        <4> QED
          BY <4>1, <4>2
      <3> QED
        BY <2>3, <2>4, <3>1, <3>2, AnsweringStands
    <2>6. Answering(t)'
      <3>1. x.pc = "erase" /\ x.reader[2] = s /\ x.data = n /\ th'[t] = x
        BY <2>1, <2>2, Endpoints, Moved DEF ReplyOf
      <3>2. th[t].pc = "answer" /\ th[t].reader[2] = s /\ th[t].data = n
        BY <2>2, Endpoints DEF ReplyOf
      <3>3. n \in Settled(s)
        BY <3>2 DEF RepliesMatch, Answering
      <3>4. sent'[s][n].got # <<>>
        <4>1. sent[s] \in Seq(Written) /\ sent[s][n] \in Written
          BY DEF Shapes
        <4>2. sent[s][n].got \in Seq(Entries)
          BY <4>1 DEF Written
        <4>3. PICK got : got = sent[s][n].got
          OBVIOUS
        <4>4. Append(got, entry) # <<>>
          BY <2>2, <4>2, <4>3, AppendProperties
        <4> QED
          BY <2>3, <4>3, <4>4
      <3> QED
        BY <2>4, <3>1, <3>3, <3>4 DEF Answering
    <2> QED
      BY <2>5, <2>6 DEF RepliesMatch
  <1>7. ASSUME NEW t \in Threads, NEW s \in Participants, NEW n, EraseOk(t, s, n)
        PROVE  RepliesMatch'
    <2>1. PICK x : x = AtLoop(th[t].reader)
      OBVIOUS
    <2>2. x.pc = "loop" /\ Moves(t, x) /\ UNCHANGED <<holder, sent>>
      BY <1>7, <2>1 DEF EraseOk, AtLoop
    <2>3. Answering(t)' /\ \A p \in Participants : Settled(p)' = Settled(p)
      BY <2>2, Moved DEF Answering, Settled
    <2> QED
      BY <1>b, <2>2, <2>3
  <1> QED
    BY <1>1, <1>2, <1>3, <1>4, <1>5, <1>6, <1>7 DEF Effect

-----------------------------------------------------------------------------
\* ServiceRegistry::add: the new entry is there or the oldest is not, and an entry is
\* only evicted when enough younger ones are there.
LEMMA LeastExists ==
  ASSUME NEW S \in SUBSET Nat, S # {}
  PROVE  \E m \in S : \A n \in S : m <= n
  <1> DEFINE R == OpToRel(<, Nat)
  <1>1. IsWellFoundedOn(R, Nat)
    BY NatLessThanWellFounded
  <1>2. \A x, y \in Nat : <<y, x>> \in R <=> y < x
    BY DEF OpToRel
  <1> HIDE DEF R
  <1>3. PICK m \in S : \A y \in S : <<y, m>> \notin R
    BY <1>1, WFMin
  <1>4. \A y \in S : ~(y < m)
    BY <1>2, <1>3
  <1> QED
    BY <1>4

LEMMA InsertRecords ==
  ASSUME NEW reg, NEW n \in Nat, NEW entry, n >= 1, IsFiniteSet(DOMAIN reg),
         DOMAIN reg \subseteq 1..(n - 1), Cardinality(DOMAIN reg) < MaxEntries,
         NEW after, after = Insert(reg, n, entry)
  PROVE  /\ IsFiniteSet(DOMAIN after) /\ Cardinality(DOMAIN after) < MaxEntries
         /\ DOMAIN after \subseteq DOMAIN reg \cup {n}
         /\ \A k \in DOMAIN after : after[k] = IF k \in DOMAIN reg THEN reg[k] ELSE entry
         /\ \A k \in DOMAIN reg \cup {n} : k \in DOMAIN after \/ n >= k + MaxEntries - 1
  <1>1. PICK D : D = DOMAIN reg \cup {n}
    OBVIOUS
  <1>2. PICK full : full = [k \in D |-> IF k \in DOMAIN reg THEN reg[k] ELSE entry]
    OBVIOUS
  <1>3. DOMAIN full = D /\ n \notin DOMAIN reg /\ D \subseteq 1..n /\ n \in D
    BY <1>1, <1>2
  <1>4. PICK c : c = Cardinality(DOMAIN reg)
    OBVIOUS
  <1>5. c \in Nat /\ c < MaxEntries
    BY <1>4, FS_CardinalityType
  <1>6. IsFiniteSet(D) /\ Cardinality(D) = c + 1
    BY <1>1, <1>3, <1>4, FS_AddElement
  <1>7. PICK young : young = {k \in D : \E j \in D : j < k}
    OBVIOUS
  <1>8. after = IF c + 1 = MaxEntries THEN [k \in young |-> full[k]] ELSE full
    BY <1>1, <1>2, <1>3, <1>6, <1>7 DEF Insert
  <1>9. CASE c + 1 # MaxEntries
    <2>1. after = full /\ c + 1 < MaxEntries
      BY <1>5, <1>8, <1>9, RegistryAssumption
    <2> QED
      BY <1>1, <1>2, <1>3, <1>6, <2>1
  <1>10. CASE c + 1 = MaxEntries
    <2>1. after = [k \in young |-> full[k]] /\ DOMAIN after = young
      BY <1>8, <1>10
    <2>2. D \in SUBSET Nat /\ D # {}
      BY <1>3
    <2>3. PICK m \in D : \A k \in D : m <= k
      BY <2>2, LeastExists
    <2>4. young = D \ {m}
      <3>1. ASSUME NEW k \in D PROVE k \in young <=> k # m
        <4>1. k \in Nat /\ m \in Nat /\ m <= k
          BY <2>2, <2>3
        <4>2. k # m => m < k
          BY <4>1
        <4>3. \A j \in D : j < m => FALSE
          BY <2>2, <2>3
        <4> QED
          BY <1>7, <2>3, <4>2, <4>3
      <3> QED
        BY <1>7, <2>3, <3>1
    <2>5. IsFiniteSet(young) /\ Cardinality(young) = c
      <3>1. IsFiniteSet(D \ {m}) /\ Cardinality(D \ {m}) = (c + 1) - 1
        BY <1>6, <2>3, FS_RemoveElement
      <3> QED
        BY <1>5, <2>4, <3>1
    <2>6. n >= m + MaxEntries - 1
      <3>1. m \in Nat /\ m <= n /\ young \subseteq (m + 1)..n
        BY <1>3, <2>2, <2>3, <2>4
      <3>2. m + 1 \in Int /\ n \in Int
        BY <3>1
      <3>3. /\ IsFiniteSet((m + 1)..n)
            /\ Cardinality((m + 1)..n) = IF m + 1 > n THEN 0 ELSE n - (m + 1) + 1
        BY <3>2, FS_Interval
      <3>4. Cardinality((m + 1)..n) = n - m
        BY <3>1, <3>3
      <3>5. c <= n - m
        BY ZenonT(60), <2>5, <3>1, <3>3, <3>4, FS_Subset
      <3> QED
        BY <1>5, <1>10, <3>1, <3>5
    <2>7. /\ IsFiniteSet(DOMAIN after) /\ Cardinality(DOMAIN after) < MaxEntries
          /\ DOMAIN after \subseteq DOMAIN reg \cup {n}
      BY <1>1, <1>5, <2>1, <2>4, <2>5
    <2>8. \A k \in DOMAIN after : after[k] = IF k \in DOMAIN reg THEN reg[k] ELSE entry
      BY <1>2, <2>1, <2>4
    <2>9. \A k \in D : k \in DOMAIN after \/ n >= k + MaxEntries - 1
      BY <2>1, <2>4, <2>6
    <2> QED
      BY <1>1, <2>7, <2>8, <2>9
  <1> QED
    BY <1>9, <1>10

\* A reply that is being erased stays so while its thread does.
LEMMA ErasingStands ==
  ASSUME Shapes, NEW t \in Threads, NEW x, Moves(t, x), NEW s, NEW n,
         th[t].pc # "erase" \/ th[t].reader # ReplyReader(s) \/ th[t].data # n, Erasing(s, n)
  PROVE  Erasing(s, n)'
  <1>1. PICK u \in Threads : th[u].pc = "erase" /\ th[u].reader = ReplyReader(s) /\ th[u].data = n
    BY DEF Erasing
  <1>2. th'[u] = th[u]
    BY <1>1, Moved
  <1> QED
    BY <1>1, <1>2 DEF Erasing

\* A registry that the step leaves alone.
LEMMA RecordStands ==
  ASSUME NEW s \in Participants, Recorded(s),
         registry'[s] = registry[s], sent'[s] = sent[s], holder'[s] = holder[s],
         dropped'[s] = dropped[s], \A n : Erasing(s, n) => Erasing(s, n)'
  PROVE  Recorded(s)'
  <1>1. Settled(s)' = Settled(s) /\ \A n : EntryFor(s, n)' = EntryFor(s, n)
    BY DEF Settled, EntryFor
  <1>2. \A n : Evicted(s, n)' <=> Evicted(s, n)
    BY DEF Evicted
  <1> QED
    BY <1>1, <1>2 DEF Recorded

\* The registries, one effect at a time.
LEMMA WriteRecords ==
  ASSUME Shapes, ThreadsPlaced, RegistriesRecord,
         NEW t \in Threads, NEW s \in Participants, NEW q, NEW todo, WriteOk(t, s, q, todo)
  PROVE  Recorded(s)'
  <1>1. Recorded(s) /\ Settled(s)' = Settled(s)
    BY SettledAtWrite DEF RegistriesRecord
  <1>2. PICK k : k = Len(sent[s])
    OBVIOUS
  <1>3. /\ k \in Nat /\ Len(sent'[s]) = k + 1
        /\ \A n \in 1..k : sent'[s][n] = sent[s][n]
        /\ sent'[s][k + 1] = [req |-> q, got |-> <<>>]
    BY <1>2, WriteOkSends
  <1>4. Settled(s) \subseteq 1..k /\ UNCHANGED <<registry, dropped>> /\ (Origin[q] = s => s \in Repeaters)
    BY <1>2, SettledShapes DEF WriteOk
  <1>5. PICK x : x = AddOf(q, todo, s, Len(sent[s]) + 1)
    OBVIOUS
  <1>6. Moves(t, x) /\ th[t].pc = "route"
    BY <1>5 DEF WriteOk, RouteOf
  <1>7. \A n : Erasing(s, n) => Erasing(s, n)'
    BY <1>6, ErasingStands
  <1>8. \A n \in 1..k : EntryFor(s, n)' = EntryFor(s, n) /\ (Evicted(s, n) => Evicted(s, n)')
    BY <1>2, <1>3, RegistryAssumption DEF EntryFor, Evicted
  <1>9. \A n \in DOMAIN registry[s] :
          /\ registry[s][n] = EntryFor(s, n)' /\ (sent'[s][n].got # <<>> => Erasing(s, n)')
    BY <1>1, <1>3, <1>4, <1>7, <1>8 DEF Recorded
  <1>10. ASSUME NEW n \in 1..(k + 1)
         PROVE  /\ Origin[sent'[s][n].req] = s => s \in Repeaters
                /\ sent'[s][n].got # <<>> => n \in Settled(s) /\ sent'[s][n].got = <<EntryFor(s, n)'>>
    <2>1. CASE n = k + 1
      BY <1>3, <1>4, <2>1
    <2>2. CASE n \in 1..k
      BY <1>1, <1>2, <1>3, <1>8, <2>2 DEF Recorded
    <2> QED
      BY <1>3, <2>1, <2>2
  <1>11. \A n \in Settled(s) : n \in DOMAIN registry[s] \/ sent'[s][n].got # <<>> \/ Evicted(s, n)'
    BY <1>1, <1>3, <1>4, <1>8 DEF Recorded
  <1>12. dropped[s] \subseteq Settled(s) /\ DOMAIN registry[s] \subseteq Settled(s)
    BY <1>1 DEF Recorded
  <1>13. \A n \in dropped[s] : sent'[s][n].got # <<>> \/ Evicted(s, n)'
    BY <1>1, <1>3, <1>4, <1>8, <1>12 DEF Recorded
  <1>14. IsFiniteSet(DOMAIN registry[s]) /\ Cardinality(DOMAIN registry[s]) < MaxEntries
    BY <1>1 DEF Recorded
  <1> QED
    BY <1>1, <1>3, <1>4, <1>9, <1>10, <1>11, <1>12, <1>13, <1>14 DEF Recorded

LEMMA AddRecords ==
  ASSUME Shapes, ThreadsPlaced, MutexHeld, RegistriesRecord,
         NEW t \in Threads, NEW s \in Participants, NEW n, NEW x, AddOk(t, s, n, x)
  PROVE  Recorded(s)'
  <1>1. Recorded(s)
    BY DEF RegistriesRecord
  <1>2. /\ n \in Nat /\ n = Len(sent[s]) /\ n >= 1 /\ Settled(s) = 1..(n - 1) /\ Settled(s)' = 1..n
    BY SettledAtAdd
  <1>3. PICK reg, entry, after : reg = registry[s] /\ entry = EntryFor(s, n) /\ after = registry'[s]
    OBVIOUS
  <1>4. after = Insert(reg, n, entry) /\ UNCHANGED <<sent, dropped>> /\ Moves(t, x) /\ th[t].pc = "add"
    BY <1>3 DEF AddOk, Shapes
  <1>5. /\ IsFiniteSet(DOMAIN reg) /\ Cardinality(DOMAIN reg) < MaxEntries
        /\ DOMAIN reg \subseteq 1..(n - 1) /\ dropped[s] \subseteq 1..(n - 1)
    BY <1>1, <1>2, <1>3 DEF Recorded
  <1>6. /\ IsFiniteSet(DOMAIN after) /\ Cardinality(DOMAIN after) < MaxEntries
        /\ DOMAIN after \subseteq DOMAIN reg \cup {n}
        /\ \A k \in DOMAIN after : after[k] = IF k \in DOMAIN reg THEN reg[k] ELSE entry
        /\ \A k \in DOMAIN reg \cup {n} : k \in DOMAIN after \/ n >= k + MaxEntries - 1
    BY <1>2, <1>4, <1>5, InsertRecords
  <1>7. \A k : Erasing(s, k) => Erasing(s, k)'
    BY <1>4, ErasingStands
  <1>8. \A k : EntryFor(s, k)' = EntryFor(s, k) /\ (Evicted(s, k)' <=> Evicted(s, k))
    BY <1>4 DEF EntryFor, Evicted
  <1>9. sent[s][n].got = <<>>
    <2>1. n \in 1..Len(sent[s]) /\ n \notin Settled(s)
      BY <1>2
    <2> QED
      BY <1>1, <2>1 DEF Recorded
  <1>10. \A k \in DOMAIN after :
           after[k] = EntryFor(s, k) /\ (sent[s][k].got # <<>> => Erasing(s, k)')
    <2> SUFFICES ASSUME NEW k \in DOMAIN after
                 PROVE  after[k] = EntryFor(s, k) /\ (sent[s][k].got # <<>> => Erasing(s, k)')
      OBVIOUS
    <2>1. CASE k \in DOMAIN reg
      BY <1>1, <1>3, <1>6, <1>7, <2>1 DEF Recorded
    <2>2. CASE k \notin DOMAIN reg
      BY <1>3, <1>6, <1>9, <2>2
    <2> QED
      BY <2>1, <2>2
  <1>11. \A k \in 1..Len(sent[s]) :
           /\ Origin[sent[s][k].req] = s => s \in Repeaters
           /\ sent[s][k].got # <<>> => k \in 1..n /\ sent[s][k].got = <<EntryFor(s, k)>>
    BY <1>1, <1>2 DEF Recorded
  <1>12. \A k \in 1..n : k \in DOMAIN after \/ sent[s][k].got # <<>> \/ Evicted(s, k)
    <2> SUFFICES ASSUME NEW k \in 1..n
                 PROVE  k \in DOMAIN after \/ sent[s][k].got # <<>> \/ Evicted(s, k)
      OBVIOUS
    <2>1. CASE k \in DOMAIN reg \cup {n}
      BY <1>2, <1>6, <2>1 DEF Evicted
    <2>2. CASE k \notin DOMAIN reg \cup {n}
      <3>1. k \in 1..(n - 1)
        BY <1>2, <2>2
      <3> QED
        BY <1>1, <1>2, <1>3, <2>2, <3>1 DEF Recorded
    <2> QED
      BY <2>1, <2>2
  <1>13. \A k \in dropped[s] : sent[s][k].got # <<>> \/ Evicted(s, k)
    BY <1>1 DEF Recorded
  <1>14. DOMAIN after \subseteq 1..n /\ dropped[s] \subseteq 1..n
    BY <1>2, <1>5, <1>6
  <1> QED
    BY <1>2, <1>3, <1>4, <1>6, <1>8, <1>10, <1>11, <1>12, <1>13, <1>14 DEF Recorded

LEMMA AnswerRecords ==
  ASSUME Shapes, ThreadsPlaced, RepliesMatch, RegistriesRecord,
         NEW t \in Threads, NEW s \in Participants, NEW n \in 1..Len(sent[s]), NEW entry,
         AnswerOk(t, s, n, entry)
  PROVE  Recorded(s)'
  <1>1. Recorded(s)
    BY DEF RegistriesRecord
  <1>2. PICK x : x = ReplyOf("erase", s, n, entry)
    OBVIOUS
  <1>3. /\ Moves(t, x) /\ UNCHANGED <<holder, registry, dropped>> /\ entry \in Entries
        /\ th[t] = ReplyOf("answer", s, n, entry) /\ Answered(s, n, entry)
    BY <1>2 DEF AnswerOk
  <1>4. /\ \A p \in Participants : Len(sent'[p]) = Len(sent[p])
        /\ \A m \in 1..Len(sent[s]) : /\ sent'[s][m].req = sent[s][m].req
                                      /\ m # n => sent'[s][m] = sent[s][m]
        /\ sent'[s][n].got = Append(sent[s][n].got, entry)
    BY <1>3, AnswerSends
  <1>5. n \in Settled(s) /\ entry = EntryFor(s, n) /\ sent[s][n].got = <<>>
    <2>1. th[t].pc = "answer" /\ th[t].reader[2] = s /\ th[t].data = n /\ th[t].entry = entry
      BY <1>3, Endpoints DEF ReplyOf
    <2> QED
      BY <2>1 DEF RepliesMatch, Answering
  <1>6. sent'[s][n].got = <<entry>> /\ <<entry>> # <<>>
    BY <1>4, <1>5
  <1>7. Settled(s)' = Settled(s) /\ Settled(s) \subseteq 1..Len(sent[s])
    BY <1>3, <1>4, SettledShapes DEF Settled
  <1>8. \A m \in 1..Len(sent[s]) : EntryFor(s, m)' = EntryFor(s, m) /\ (Evicted(s, m)' <=> Evicted(s, m))
    BY <1>4 DEF EntryFor, Evicted
  <1>9. (\A m : Erasing(s, m) => Erasing(s, m)') /\ Erasing(s, n)'
    <2>1. th[t].pc = "answer"
      BY <1>3 DEF ReplyOf
    <2>2. th'[t] = x /\ x.pc = "erase" /\ x.reader = ReplyReader(s) /\ x.data = n
      BY <1>2, <1>3, Moved DEF ReplyOf
    <2>3. Erasing(s, n)'
      BY <2>2 DEF Erasing
    <2> QED
      BY <1>3, <2>1, <2>3, ErasingStands
  <1>10. IsFiniteSet(DOMAIN registry[s]) /\ Cardinality(DOMAIN registry[s]) < MaxEntries
    BY <1>1 DEF Recorded
  <1>11. DOMAIN registry[s] \subseteq Settled(s) /\ dropped[s] \subseteq Settled(s)
    BY <1>1 DEF Recorded
  <1>12. \A m \in DOMAIN registry[s] :
           registry[s][m] = EntryFor(s, m)' /\ (sent'[s][m].got # <<>> => Erasing(s, m)')
    <2> SUFFICES ASSUME NEW m \in DOMAIN registry[s]
                 PROVE  registry[s][m] = EntryFor(s, m)' /\ (sent'[s][m].got # <<>> => Erasing(s, m)')
      OBVIOUS
    <2>1. m \in 1..Len(sent[s]) /\ registry[s][m] = EntryFor(s, m)
      BY <1>1, <1>7, <1>11 DEF Recorded
    <2>2. sent'[s][m].got # <<>> => Erasing(s, m)'
      BY <1>1, <1>4, <1>9, <2>1 DEF Recorded
    <2> QED
      BY <1>8, <2>1, <2>2
  <1>13. \A m \in 1..Len(sent[s]) :
           /\ Origin[sent'[s][m].req] = s => s \in Repeaters
           /\ sent'[s][m].got # <<>> => m \in Settled(s) /\ sent'[s][m].got = <<EntryFor(s, m)'>>
    <2> SUFFICES ASSUME NEW m \in 1..Len(sent[s])
                 PROVE  /\ Origin[sent'[s][m].req] = s => s \in Repeaters
                        /\ sent'[s][m].got # <<>> =>
                             m \in Settled(s) /\ sent'[s][m].got = <<EntryFor(s, m)'>>
      OBVIOUS
    <2>1. Origin[sent'[s][m].req] = s => s \in Repeaters
      BY <1>1, <1>4 DEF Recorded
    <2>2. CASE m = n
      BY <1>5, <1>6, <1>8, <2>1, <2>2
    <2>3. CASE m # n
      BY <1>1, <1>4, <1>8, <2>1, <2>3 DEF Recorded
    <2> QED
      BY <2>2, <2>3
  <1>14. \A m \in 1..Len(sent[s]) : sent[s][m].got # <<>> => sent'[s][m].got # <<>>
    BY <1>4, <1>5
  <1>15. /\ \A m \in Settled(s) : m \in DOMAIN registry[s] \/ sent'[s][m].got # <<>> \/ Evicted(s, m)'
         /\ \A m \in dropped[s] : sent'[s][m].got # <<>> \/ Evicted(s, m)'
    <2>1. /\ \A m \in Settled(s) : m \in DOMAIN registry[s] \/ sent[s][m].got # <<>> \/ Evicted(s, m)
          /\ \A m \in dropped[s] : sent[s][m].got # <<>> \/ Evicted(s, m)
      BY <1>1 DEF Recorded
    <2> QED
      BY <1>7, <1>8, <1>11, <1>14, <2>1
  <1> QED
    BY <1>3, <1>4, <1>7, <1>10, <1>11, <1>12, <1>13, <1>15 DEF Recorded

LEMMA EraseRecords ==
  ASSUME Shapes, ThreadsPlaced, RepliesMatch, RegistriesRecord,
         NEW t \in Threads, NEW s \in Participants, NEW n, EraseOk(t, s, n)
  PROVE  Recorded(s)'
  <1>1. Recorded(s)
    BY DEF RegistriesRecord
  <1>2. PICK after, x : after = registry'[s] /\ x = AtLoop(th[t].reader)
    OBVIOUS
  <1>3. /\ after = [k \in DOMAIN registry[s] \ {n} |-> registry[s][k]]
        /\ UNCHANGED <<holder, sent, dropped>> /\ Moves(t, x)
        /\ th[t].pc = "erase" /\ th[t].reader[2] = s /\ th[t].data = n
    BY <1>2, Endpoints DEF EraseOk, Shapes, Without
  <1>4. DOMAIN after = DOMAIN registry[s] \ {n} /\ \A k \in DOMAIN after : after[k] = registry[s][k]
    BY <1>3
  <1>5. IsFiniteSet(DOMAIN after) /\ Cardinality(DOMAIN after) < MaxEntries
    <2>1. PICK a, b : a = Cardinality(DOMAIN registry[s]) /\ b = Cardinality(DOMAIN after)
      OBVIOUS
    <2>2. IsFiniteSet(DOMAIN registry[s]) /\ a < MaxEntries /\ a \in Nat
      BY <1>1, <2>1, FS_CardinalityType DEF Recorded
    <2>3. IsFiniteSet(DOMAIN after) /\ b <= a /\ b \in Nat
      BY <1>4, <2>1, <2>2, FS_Subset, FS_CardinalityType
    <2> QED
      BY <2>1, <2>2, <2>3, RegistryAssumption
  <1>6. sent[s][n].got # <<>>
    BY <1>3 DEF RepliesMatch, Answering
  <1>7. \A k \in DOMAIN after : Erasing(s, k) => Erasing(s, k)'
    BY <1>3, <1>4, ErasingStands
  <1>8. Settled(s)' = Settled(s) /\ \A k : EntryFor(s, k)' = EntryFor(s, k) /\ (Evicted(s, k)' <=> Evicted(s, k))
    BY <1>3 DEF Settled, EntryFor, Evicted
  <1>9. \A k \in Settled(s) : k \in DOMAIN after \/ sent[s][k].got # <<>> \/ Evicted(s, k)
    BY <1>1, <1>4, <1>6 DEF Recorded
  <1> QED
    BY <1>1, <1>2, <1>3, <1>4, <1>5, <1>7, <1>8, <1>9 DEF Recorded

LEMMA MissRecords ==
  ASSUME Shapes, RegistriesRecord,
         NEW t \in Threads, NEW s \in Participants, NEW n \in 1..Len(sent[s]), NEW x,
         GetMisses(t, s, n), Aside(t, x)
  PROVE  Recorded(s)'
  <1>1. Recorded(s)
    BY DEF RegistriesRecord
  <1>2. /\ UNCHANGED <<holder, registry, sent>> /\ Moves(t, x) /\ th[t].pc # "erase"
        /\ dropped'[s] = dropped[s] \cup {n} /\ n \notin DOMAIN registry[s] /\ holder[s] = NoThread
    BY DEF GetMisses, Aside, Shapes
  <1>3. Settled(s)' = Settled(s) /\ \A k : EntryFor(s, k)' = EntryFor(s, k) /\ (Evicted(s, k)' <=> Evicted(s, k))
    BY <1>2 DEF Settled, EntryFor, Evicted
  <1>4. n \in Settled(s)
    BY <1>2, SettledShapes
  <1>5. sent[s][n].got # <<>> \/ Evicted(s, n)
    BY <1>1, <1>2, <1>4 DEF Recorded
  <1>6. \A k : Erasing(s, k) => Erasing(s, k)'
    BY <1>2, ErasingStands
  <1> QED
    BY <1>1, <1>2, <1>3, <1>4, <1>5, <1>6 DEF Recorded

LEMMA RegistriesRecordStep ==
  ASSUME Shapes, ThreadsPlaced, MutexHeld, RepliesMatch, RegistriesRecord, Effect
  PROVE  RegistriesRecord'
  <1>1. CASE UNCHANGED <<th, holder, registry, sent, dropped>>
    BY SMTT(30), <1>1 DEF RegistriesRecord, Recorded, Settled, EntryFor, Evicted, Erasing
  <1>b. ASSUME NEW t \in Threads, NEW x, Moves(t, x), NEW p \in Participants,
               registry'[p] = registry[p], sent'[p] = sent[p], holder'[p] = holder[p],
               dropped'[p] = dropped[p],
               th[t].pc # "erase" \/ th[t].reader # ReplyReader(p)
        PROVE  Recorded(p)'
    <2>1. \A n : Erasing(p, n) => Erasing(p, n)'
      BY <1>b, ErasingStands
    <2> QED
      BY <1>b, <2>1, RecordStands DEF RegistriesRecord
  <1>2. ASSUME NEW t \in Threads, NEW x, Aside(t, x), UNCHANGED dropped PROVE RegistriesRecord'
    BY <1>2, <1>b DEF Aside, RegistriesRecord
  <1>3. ASSUME NEW t \in Threads, NEW s \in Participants, NEW q, NEW todo, WriteOk(t, s, q, todo)
        PROVE  RegistriesRecord'
    <2>1. PICK x : x = AddOf(q, todo, s, Len(sent[s]) + 1)
      OBVIOUS
    <2>2. Moves(t, x) /\ UNCHANGED <<registry, dropped>> /\ th[t].pc # "erase"
      BY <1>3, <2>1 DEF WriteOk, RouteOf
    <2>3. \A p \in Participants \ {s} : sent'[p] = sent[p] /\ holder'[p] = holder[p]
      BY <1>3, WriteOkSends
    <2>4. ASSUME NEW p \in Participants, p # s PROVE Recorded(p)'
      BY <1>b, <2>2, <2>3, <2>4
    <2> QED
      BY <1>3, <2>4, WriteRecords DEF RegistriesRecord
  <1>4. ASSUME NEW t \in Threads, NEW s \in Participants, NEW n, NEW x, AddOk(t, s, n, x)
        PROVE  RegistriesRecord'
    <2>1. /\ Moves(t, x) /\ th[t].pc # "erase" /\ UNCHANGED <<sent, dropped>>
          /\ \A p \in Participants \ {s} : registry'[p] = registry[p] /\ holder'[p] = holder[p]
      BY <1>4 DEF AddOk, Shapes
    <2>2. ASSUME NEW p \in Participants, p # s PROVE Recorded(p)'
      BY <1>b, <2>1, <2>2
    <2> QED
      BY <1>4, <2>2, AddRecords DEF RegistriesRecord
  <1>5. ASSUME NEW t \in Threads, NEW s \in Participants, NEW n, GetOk(t, s, n)
        PROVE  RegistriesRecord'
    <2>1. PICK x : x = ReplyOf("answer", s, n, registry[s][n])
      OBVIOUS
    <2>2. Moves(t, x) /\ th[t].pc # "erase" /\ UNCHANGED <<holder, registry, sent, dropped>>
      BY <1>5, <2>1 DEF GetOk, GetOf
    <2> QED
      BY <1>b, <2>2 DEF RegistriesRecord
  <1>6. ASSUME NEW t \in Threads, NEW s \in Participants, NEW n \in 1..Len(sent[s]), NEW x,
               GetMisses(t, s, n), Aside(t, x)
        PROVE  RegistriesRecord'
    <2>1. /\ Moves(t, x) /\ th[t].pc # "erase" /\ UNCHANGED <<holder, registry, sent>>
          /\ \A p \in Participants \ {s} : dropped'[p] = dropped[p]
      BY <1>6 DEF Aside, GetMisses, Shapes
    <2>2. ASSUME NEW p \in Participants, p # s PROVE Recorded(p)'
      BY <1>b, <2>1, <2>2
    <2> QED
      BY <1>6, <2>2, MissRecords DEF RegistriesRecord
  <1>7. ASSUME NEW t \in Threads, NEW s \in Participants, NEW n \in 1..Len(sent[s]), NEW entry,
               AnswerOk(t, s, n, entry)
        PROVE  RegistriesRecord'
    <2>1. PICK x : x = ReplyOf("erase", s, n, entry)
      OBVIOUS
    <2>2. /\ Moves(t, x) /\ th[t].pc # "erase" /\ UNCHANGED <<holder, registry, dropped>>
          /\ entry \in Entries /\ Answered(s, n, entry)
      BY <1>7, <2>1 DEF AnswerOk, ReplyOf
    <2>3. \A p \in Participants \ {s} : sent'[p] = sent[p]
      BY <2>2, AnswerSends
    <2>4. ASSUME NEW p \in Participants, p # s PROVE Recorded(p)'
      BY <1>b, <2>2, <2>3, <2>4
    <2> QED
      BY <1>7, <2>4, AnswerRecords DEF RegistriesRecord
  <1>8. ASSUME NEW t \in Threads, NEW s \in Participants, NEW n, EraseOk(t, s, n)
        PROVE  RegistriesRecord'
    <2>1. PICK x : x = AtLoop(th[t].reader)
      OBVIOUS
    <2>2. /\ Moves(t, x) /\ UNCHANGED <<holder, sent, dropped>> /\ th[t].reader = ReplyReader(s)
          /\ \A p \in Participants \ {s} : registry'[p] = registry[p]
      BY <1>8, <2>1 DEF EraseOk, Shapes
    <2>3. ASSUME NEW p \in Participants, p # s PROVE Recorded(p)'
      <3>1. ReplyReader(p) # ReplyReader(s)
        BY <2>3, Endpoints
      <3> QED
        BY <1>b, <2>2, <2>3, <3>1
    <2> QED
      BY <1>8, <2>3, EraseRecords DEF RegistriesRecord
  <1> QED
    BY <1>1, <1>2, <1>3, <1>4, <1>5, <1>6, <1>7, <1>8 DEF Effect

-----------------------------------------------------------------------------
LEMMA IInvInit == Init => IInv
  <1> SUFFICES ASSUME Init PROVE IInv
    OBVIOUS
  <1>1. Shapes
    <2>1. history \in [Readers -> Seq(Requests \cup Nat)] /\ sent \in [Participants -> Seq(Written)]
      <3>1. <<>> \in Seq(Requests \cup Nat) /\ <<>> \in Seq(Written)
        BY EmptySeq
      <3> QED
        BY <3>1 DEF Init
    <2>2. /\ flag \in [Readers -> BOOLEAN] /\ tasks \in [Readers -> Nat]
          /\ holder \in [Participants -> Threads \cup {NoThread}]
          /\ registry = [s \in Participants |-> registry[s]]
          /\ dropped \in [Participants -> SUBSET Nat] /\ th = [t \in Threads |-> th[t]]
      BY DEF Init
    <2>3. switches \in 0..MaxSwitches
      BY BoundsAssumption DEF Init
    <2> QED
      BY <2>1, <2>2, <2>3 DEF Init, Shapes
  <1>2. ThreadsPlaced /\ CallsInOrder /\ BusyMeansOn
    BY DEF Init, ThreadsPlaced, Place, CallsInOrder, BusyMeansOn, Busy, Resting
  <1>3. HistoriesFit
    BY Endpoints DEF Init, HistoriesFit
  <1>4. NoLostWakeup
    <2> SUFFICES ASSUME NEW r \in Readers PROVE tasks[r] + Running1(r) = 0 /\ ~enabled /\ ~flag[r]
      BY DEF NoLostWakeup
    <2>1. {t \in Threads : Reading(t, r)} = {}
      BY DEF Init, Reading, Resting
    <2>2. Running1(r) = 0
      BY <2>1, FS_EmptySet DEF Running1
    <2> QED
      BY <2>2 DEF Init
  <1>5. MutexHeld /\ RepliesMatch
    BY DEF Init, MutexHeld, RepliesMatch, Answering, Resting
  <1>6. RegistriesRecord
    <2> SUFFICES ASSUME NEW s \in Participants PROVE Recorded(s)
      BY DEF RegistriesRecord
    <2>1. /\ DOMAIN registry[s] = {} /\ dropped[s] = {} /\ 1..Len(sent[s]) = {}
      BY DEF Init
    <2>2. IsFiniteSet({}) /\ Cardinality({}) = 0
      BY FS_EmptySet
    <2>3. Settled(s) = {}
      BY <1>1, <2>1, SettledShapes
    <2> QED
      BY <2>1, <2>2, <2>3, RegistryAssumption DEF Recorded
  <1> QED
    BY <1>1, <1>2, <1>3, <1>4, <1>5, <1>6 DEF IInv

LEMMA IInvStep == IInv /\ [Next]_vars => IInv'
  <1> SUFFICES ASSUME IInv, [Next]_vars PROVE IInv'
    OBVIOUS
  <1>1. /\ Shapes /\ ThreadsPlaced /\ HistoriesFit /\ CallsInOrder /\ BusyMeansOn
        /\ NoLostWakeup /\ MutexHeld /\ RepliesMatch /\ RegistriesRecord
    BY DEF IInv
  <1>2. Effect
    BY <1>1, StepEffects
  <1>3. Shapes' /\ ThreadsPlaced' /\ HistoriesFit'
    BY <1>1, ShapesStep, ThreadsPlacedStep, HistoriesFitStep
  <1>4. CallsInOrder' /\ BusyMeansOn' /\ NoLostWakeup'
    BY <1>1, CallsInOrderStep, BusyMeansOnStep, NoLostWakeupStep
  <1>5. MutexHeld' /\ RepliesMatch' /\ RegistriesRecord'
    BY <1>1, <1>2, MutexHeldStep, RepliesMatchStep, RegistriesRecordStep
  <1> QED
    BY <1>3, <1>4, <1>5 DEF IInv

\* The invariant, for any number of participants, requests, threads and entries.
THEOREM Invariant == Spec => []IInv
  BY IInvInit, IInvStep, PTL DEF Spec

\* The shapes of the state; ServiceRegistry::add never leaves a registry full.
THEOREM TypeCorrect == Spec => []TypeOK
  <1>1. ASSUME IInv PROVE TypeOK
    <2>1. Shapes /\ RegistriesRecord
      BY <1>1 DEF IInv
    <2>2. ASSUME NEW s \in Participants
          PROVE  /\ DOMAIN registry[s] \subseteq DOMAIN sent[s]
                 /\ Cardinality(DOMAIN registry[s]) < MaxEntries
                 /\ \A n \in DOMAIN registry[s] : registry[s][n] \in Entries
      <3>1. Recorded(s) /\ Settled(s) \subseteq 1..Len(sent[s]) /\ sent[s] \in Seq(Written)
        BY <2>1, SettledShapes DEF RegistriesRecord, Shapes
      <3>2. DOMAIN sent[s] = 1..Len(sent[s])
        BY <3>1
      <3>3. DOMAIN registry[s] \subseteq 1..Len(sent[s]) /\ Cardinality(DOMAIN registry[s]) < MaxEntries
        BY <3>1 DEF Recorded
      <3>4. ASSUME NEW n \in DOMAIN registry[s] PROVE registry[s][n] \in Entries
        <4>1. registry[s][n] = EntryFor(s, n)
          BY <3>1 DEF Recorded
        <4>2. sent[s][n] \in Written
          BY <3>1, <3>3
        <4> QED
          BY <4>1, <4>2, ServiceAssumption DEF EntryFor, Written, Entries
      <3> QED
        BY <3>2, <3>3, <3>4
    <2> QED
      BY <2>1, <2>2 DEF TypeOK, Shapes, All
  <1> QED
    BY <1>1, Invariant, PTL

\* However callbacks, the ends of transmissions and a disable and enable in between are
\* ordered, a reader with data has exactly one task (RpcBridge::data_available_, transmit_).
THEOREM NoWakeupIsLost == Spec => []NoLostWakeup
  <1>1. IInv => NoLostWakeup
    BY DEF IInv
  <1> QED
    BY <1>1, Invariant, PTL

\* A request gets one reply at most through each proxy client, and it goes to the
\* participant whose client asked (RpcBridge::transmit_).
THEOREM RepliesReachTheirAsker == Spec => []RepliesGoToAsker
  <1>1. ASSUME IInv PROVE RepliesGoToAsker
    <2> SUFFICES ASSUME NEW s \in Participants, NEW n \in DOMAIN sent[s]
                 PROVE  /\ Len(sent[s][n].got) <= 1
                        /\ \A i \in DOMAIN sent[s][n].got :
                             sent[s][n].got[i] = [to |-> Origin[sent[s][n].req], req |-> sent[s][n].req]
                        /\ Origin[sent[s][n].req] = s => s \in Repeaters
      BY DEF RepliesGoToAsker
    <2>1. Recorded(s) /\ sent[s] \in Seq(Written)
      BY <1>1 DEF IInv, RegistriesRecord, Shapes
    <2>2. n \in 1..Len(sent[s])
      BY <2>1
    <2>3. /\ Origin[sent[s][n].req] = s => s \in Repeaters
          /\ sent[s][n].got # <<>> => sent[s][n].got = <<EntryFor(s, n)>>
      BY <2>1, <2>2 DEF Recorded
    <2>4. PICK e, got : e = EntryFor(s, n) /\ got = sent[s][n].got
      OBVIOUS
    <2>5. got = <<>> \/ got = <<e>>
      BY <2>3, <2>4
    <2>6. Len(got) <= 1 /\ \A i \in DOMAIN got : got[i] = e
      <3>1. CASE got = <<>>
        BY <3>1
      <3>2. CASE got = <<e>>
        BY <3>2
      <3> QED
        BY <2>5, <3>1, <3>2
    <2> QED
      BY <2>3, <2>4, <2>6 DEF EntryFor
  <1> QED
    BY <1>1, Invariant, PTL

\* A reply never overtakes the entry of its request: it is dropped only after the request
\* was answered or its entry evicted (RpcBridge::transmit_, ServiceRegistry::add, get).
THEOREM NoReplyOvertakesItsEntry == Spec => []RepliesFindTheirEntry
  <1>1. ASSUME IInv PROVE RepliesFindTheirEntry
    BY <1>1 DEF IInv, RegistriesRecord, Recorded, Evicted, RepliesFindTheirEntry
  <1> QED
    BY <1>1, Invariant, PTL

\* No sample is routed to a writer that a disable or an enable has not reached
\* (RpcBridge::enable, disable).
THEOREM RoutesMeetEnabledWriters == Spec => []WritersMeetEnabledWriters
  <1>1. IInv => WritersMeetEnabledWriters
    BY DEF IInv, BusyMeansOn, Busy, WritersMeetEnabledWriters
  <1> QED
    BY <1>1, Invariant, PTL
=============================================================================
