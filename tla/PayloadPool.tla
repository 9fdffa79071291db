---------------------------- MODULE PayloadPool ----------------------------
(***************************************************************************)
(* The payload pools and those who hold payloads of one track: the reader, *)
(* whose history holds one for each change received; the transmission,     *)
(* which takes the payload of a change and gives it to each writer; and    *)
(* the writers, whose histories hold it until the readers acknowledge it.  *)
(* A payload is shared, not copied: the pool counts its holders and frees  *)
(* the memory with the last of them.                                       *)
(*                                                                         *)
(* MapPayloadPool keeps the counts in a map guarded by a mutex.            *)
(* FastPayloadPool, the one DdsProxy creates, keeps an atomic in front of  *)
(* each payload, decrements it, and then reads it again to decide.         *)
(*                                                                         *)
(* Blocks are addresses: the allocator may return one as soon as it was    *)
(* freed.  The step that touches memory which is not allocated is the last *)
(* one of a behaviour.                                                     *)
(***************************************************************************)
EXTENDS Integers, Sequences, FiniteSets

CONSTANTS
  Pools,        \* the implementations considered, among "map" and "fast"
  Addresses,    \* what the allocator may return
  Writers,      \* the writers of the track
  Depth,        \* history depth of the writers
  MaxUnread,    \* bound: changes in the history of the reader
  Nothing,      \* no address
  NoThread      \* nobody has the mutex

ASSUME PoolAssumption ==
  /\ Pools \subseteq {"map", "fast"}
  /\ Nothing \notin Addresses /\ IsFiniteSet(Addresses) /\ IsFiniteSet(Writers)
  /\ Depth \in Nat \ {0} /\ MaxUnread \in Nat
  /\ Writers \cap {"receiver", "track", NoThread} = {} /\ NoThread \notin {"receiver", "track"}
  /\ Writers \cap {"unread", "idle", "taken", "write", "destroy"} = {}

VARIABLES
  pool,         \* the implementation
  allocated,    \* addresses in use
  count,        \* count[a]: the number in front of the data, or in the map
  known,        \* keys of reserved_payloads_
  mutex,        \* holder of reserved_payloads_mutex_
  outstanding,  \* reserve_count_ - release_count_
  busy,         \* busy[x]: the block thread x is in the middle of getting or releasing
  unread,       \* blocks of the changes in the reader's history
  step,         \* where the transmission is
  data,         \* block of the data being transmitted
  service,      \* it is an RpcBridge that transmits it
  todo,         \* writers it has still to go to
  change,       \* block of the change being written
  hist,         \* hist[w]: blocks of the changes in the history of writer w
  failed        \* an InconsistencyException, or memory that is not allocated was touched

poolVars == <<allocated, count, known, mutex, outstanding>>
trackVars == <<step, data, service, todo, change>>
vars == <<pool, poolVars, busy, unread, trackVars, hist, failed>>

\* A writer stands for the thread that gets its acknowledgements.
Threads == {"receiver", "track"} \cup Writers

Init ==
  /\ pool \in Pools
  /\ allocated = {} /\ known = {} /\ mutex = NoThread /\ outstanding = 0
  /\ count = [a \in Addresses |-> 0]
  /\ busy = [x \in Threads |-> Nothing]
  /\ unread = <<>>
  /\ step = "idle" /\ data = Nothing /\ service = FALSE /\ todo = {} /\ change = Nothing
  /\ hist = [w \in Writers |-> <<>>]
  /\ failed = FALSE

-----------------------------------------------------------------------------
\* The operations of the pools, as threads call them.

\* PayloadPool::reserve_ and FastPayloadPool::reserve_
Allocate(a) ==
  /\ a \notin allocated /\ allocated' = allocated \cup {a}
  /\ outstanding' = outstanding + 1

\* get_payload of a new block: the map's pool has yet to take the mutex.
GetNew(x, a) ==
  /\ Allocate(a)
  /\ IF pool = "fast"
       THEN count' = [count EXCEPT ![a] = 1] /\ UNCHANGED busy
       ELSE busy' = [busy EXCEPT ![x] = a] /\ UNCHANGED count
  /\ UNCHANGED <<known, mutex, failed>>

\* get_payload of a block that is referenced: one more holder.
Share(a) ==
  /\ IF pool = "fast"
       THEN failed' = (a \notin allocated)
       ELSE mutex = NoThread /\ failed' = (a \notin known)
  /\ count' = [count EXCEPT ![a] = @ + 1]
  /\ UNCHANGED <<allocated, known, mutex, outstanding, busy>>

\* The test that the counter came to zero.  Mutant: off by one.
LastHolderMutant(n) == n <= 1
LastHolder(n) == n = 0

\* The memory goes back to the allocator, and ++release_count_.  Two steps in the code
\* (so are malloc and ++reserve_count_): between them the counters speak of one block
\* more or less than there is, which only is_clean reads.
Free(a) == allocated' = allocated \ {a} /\ outstanding' = outstanding - 1

\* release_payload, first step: one holder less.  The map's pool goes on, with the
\* mutex, when that was the last.
Release(x, a) ==
  /\ count' = [count EXCEPT ![a] = @ - 1]
  /\ IF pool = "fast"
       THEN /\ busy' = [busy EXCEPT ![x] = a] /\ failed' = (a \notin allocated)
            /\ UNCHANGED <<allocated, mutex, outstanding>>
       ELSE /\ mutex = NoThread /\ failed' = (a \notin known)
            /\ IF LastHolder(count[a] - 1)
                 THEN Free(a) /\ busy' = [busy EXCEPT ![x] = a] /\ mutex' = x
                 ELSE UNCHANGED <<allocated, outstanding, busy, mutex>>
  /\ UNCHANGED known

Rest == <<pool, unread, trackVars, hist>>

\* FastPayloadPool::release_payload, second step: the counter is read again.
TestCounter(x) ==
  /\ pool = "fast" /\ busy[x] # Nothing
  /\ LET a == busy[x] IN
       /\ failed' = (a \notin allocated)
       /\ IF LastHolder(count[a]) THEN Free(a) ELSE UNCHANGED <<allocated, outstanding>>
  /\ busy' = [busy EXCEPT ![x] = Nothing]
  /\ UNCHANGED <<Rest, count, known, mutex>>

\* MapPayloadPool: the new block enters the map.  Mutant: without its mutex.
MayInsertMutant == TRUE
MayInsert == mutex = NoThread

Insert(x) ==
  /\ pool = "map" /\ busy[x] # Nothing /\ mutex # x /\ MayInsert
  /\ known' = known \cup {busy[x]}
  /\ count' = [count EXCEPT ![busy[x]] = 1]
  /\ busy' = [busy EXCEPT ![x] = Nothing]
  /\ UNCHANGED <<Rest, allocated, mutex, outstanding, failed>>

\* MapPayloadPool::release_payload, second step: the block leaves the map.
Erase(x) ==
  /\ pool = "map" /\ mutex = x
  /\ known' = known \ {busy[x]}
  /\ busy' = [busy EXCEPT ![x] = Nothing] /\ mutex' = NoThread
  /\ UNCHANGED <<Rest, allocated, count, outstanding, failed>>

-----------------------------------------------------------------------------
\* The holders.

Ready(x) == busy[x] = Nothing

\* A change arrives: the reader's pool is this one.
Receive(a) ==
  /\ Ready("receiver") /\ Len(unread) < MaxUnread
  /\ GetNew("receiver", a)
  /\ unread' = Append(unread, a)
  /\ UNCHANGED <<pool, trackVars, hist>>

\* A change whose payload is still being reserved is not there yet.
Arrived(a) == busy["receiver"] # a

At(s) == step = s /\ Ready("track")

\* fill_received_data_: the data shares the payload of the change...
TakeShares ==
  /\ At("idle") /\ unread # <<>> /\ Arrived(Head(unread))
  /\ Share(Head(unread))
  /\ data' = Head(unread) /\ service' \in BOOLEAN /\ step' = "taken"
  /\ UNCHANGED <<pool, unread, todo, change, hist>>

\* ... and the change leaves the reader's history.
TakeRemoves ==
  /\ At("taken")
  /\ Release("track", Head(unread))
  /\ unread' = Tail(unread) /\ todo' = Writers /\ step' = "write"
  /\ UNCHANGED <<pool, data, service, change, hist>>

\* BaseWriter::write: disabled, or above its rate.
WriteSkips(w) ==
  /\ At("write") /\ w \in todo
  /\ todo' = todo \ {w}
  /\ UNCHANGED <<pool, poolVars, busy, unread, step, data, service, change, hist, failed>>

\* fill_to_send_data_: the new change shares the payload of the data.
WriteShares(w) ==
  /\ At("write") /\ w \in todo
  /\ Share(data)
  /\ change' = data /\ step' = w
  /\ UNCHANGED <<pool, unread, data, service, todo, hist>>

\* The change of writer w is written: the oldest one goes when the history is full.
\* Its mutex is held over the release.
HistoryFree(w) == Ready(w)

\* WriterHistory::isFull
Full(w) == Len(hist[w]) = Depth

MakeRoom(w) ==
  /\ At(w) /\ HistoryFree(w) /\ Full(w)
  /\ Release("track", Head(hist[w]))
  /\ hist' = [hist EXCEPT ![w] = Tail(@)]
  /\ UNCHANGED <<pool, unread, trackVars>>

AddChange(w) ==
  /\ At(w) /\ HistoryFree(w) /\ ~Full(w)
  /\ hist' = [hist EXCEPT ![w] = Append(@, change)]
  /\ change' = Nothing /\ todo' = todo \ {w} /\ step' = "write"
  /\ UNCHANGED <<pool, poolVars, busy, unread, data, service, failed>>

\* onWriterChangeReceivedByAll, in the thread that handles acknowledgements.
Acknowledged(w) ==
  /\ Ready(w) /\ hist[w] # <<>> /\ (step = w => Ready("track"))
  /\ Release(w, Head(hist[w]))
  /\ hist' = [hist EXCEPT ![w] = Tail(@)]
  /\ UNCHANGED <<pool, unread, trackVars>>

\* release_payload leaves no data in the payload it is given, so that the destructor
\* does not release it again.  Mutant: it does.
AfterReleaseMutant(a) == a
AfterRelease(a) == Nothing

\* RpcBridge::transmit_ releases the payload itself.
ServiceReleases ==
  /\ At("write") /\ todo = {} /\ service
  /\ Release("track", data)
  /\ data' = AfterRelease(data) /\ step' = "destroy"
  /\ UNCHANGED <<pool, unread, service, todo, change, hist>>

TrackIsDone ==
  /\ At("write") /\ todo = {} /\ ~service
  /\ step' = "destroy"
  /\ UNCHANGED <<pool, poolVars, busy, unread, data, service, todo, change, hist, failed>>

\* fill_received_data_ sets payload_owner, for the destructor.  Mutant: it does not.
HasOwnerMutant == FALSE
HasOwner == TRUE

\* ~RtpsPayloadData releases what is left.
DestroyReleases ==
  /\ At("destroy") /\ data # Nothing /\ HasOwner
  /\ Release("track", data)
  /\ data' = Nothing /\ step' = "idle"
  /\ UNCHANGED <<pool, unread, service, todo, change, hist>>

DestroyEmpty ==
  /\ At("destroy") /\ (data = Nothing \/ ~HasOwner)
  /\ data' = Nothing /\ step' = "idle"
  /\ UNCHANGED <<pool, poolVars, busy, unread, service, todo, change, hist, failed>>

PoolStep(x) == TestCounter(x) \/ Insert(x) \/ Erase(x)
TrackStep ==
  \/ TakeShares \/ TakeRemoves
  \/ \E w \in Writers : WriteSkips(w) \/ WriteShares(w) \/ MakeRoom(w) \/ AddChange(w)
  \/ ServiceReleases \/ TrackIsDone \/ DestroyReleases \/ DestroyEmpty

Next ==
  /\ ~failed
  /\ \/ \E a \in Addresses : Receive(a)
     \/ TrackStep
     \/ \E w \in Writers : Acknowledged(w)
     \/ \E x \in Threads : PoolStep(x)

Spec == Init /\ [][Next]_vars

-----------------------------------------------------------------------------
\* Properties.

\* Places that hold block a.
Holders(a) ==
  {<<"unread", i>> : i \in {j \in DOMAIN unread : unread[j] = a}}
    \cup (UNION {{<<w, i>> : i \in {j \in DOMAIN hist[w] : hist[w][j] = a}} : w \in Writers})
    \cup (IF data = a THEN {<<"data">>} ELSE {}) \cup (IF change = a THEN {<<"change">>} ELSE {})

\* A block on its way into the map.
Entering(a) == pool = "map" /\ \E x \in Threads : busy[x] = a /\ mutex # x

\* The shapes of the state; no history is ever longer than its depth.
TypeOK ==
  /\ \A w \in Writers : Len(hist[w]) <= Depth
  /\ pool \in Pools /\ allocated \subseteq Addresses /\ known \subseteq Addresses
  /\ mutex \in Threads \cup {NoThread} /\ outstanding \in Int /\ count \in [Addresses -> Int]
  /\ busy \in [Threads -> Addresses \cup {Nothing}]
  /\ unread \in Seq(Addresses) /\ hist \in [Writers -> Seq(Addresses)]
  /\ step \in {"idle", "taken", "write", "destroy"} \cup Writers
  /\ data \in Addresses \cup {Nothing} /\ change \in Addresses \cup {Nothing}
  /\ todo \subseteq Writers /\ service \in BOOLEAN /\ failed \in BOOLEAN

\* The counter of a block is the number of its holders, whatever takes, writes,
\* evictions and acknowledgements of several writers overlap.
CountsHolders ==
  ~failed => \A a \in allocated : Entering(a) \/ count[a] = Cardinality(Holders(a))

\* No holder is left with a block that was freed, nor (in the map's pool) with one
\* the map does not know: an address that is used again is not taken for the old one.
HoldersOwnTheirBlock ==
  ~failed => \A a \in Addresses : Holders(a) # {} =>
               a \in allocated /\ (pool = "map" => a \in known \/ Entering(a))

\* A block nobody holds is free, or some thread is about to free it; reserves and
\* releases differ by the blocks in use (each counted with its malloc or free), so
\* is_clean holds when there are none.
NothingLeaks ==
  ~failed =>
    /\ outstanding = Cardinality(allocated)
    /\ \A a \in allocated : Holders(a) # {} \/ \E x \in Threads : busy[x] = a

\* MapPayloadPool never throws on what the readers and writers do with it, and its
\* map holds no block that is free, save the one the holder of the mutex removes.
MapNeverThrows ==
  pool = "map" =>
    /\ ~failed
    /\ \A a \in known : a \in allocated \/ (mutex # NoThread /\ busy[mutex] = a)

\* "It uses an atomic value so can be checked and modified in a single atomic
\* operation" (FastPayloadPool.hpp:30): no thread reads the counter of a block that
\* another has freed, or frees it again.
CheckedAndModifiedAtOnce == ~failed

=============================================================================
