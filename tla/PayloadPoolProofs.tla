------------------------- MODULE PayloadPoolProofs -------------------------
(***************************************************************************)
(* For any number of writers and blocks, any depth of their histories and  *)
(* any number of changes that wait: no block is lost, freed under a holder *)
(* or counted wrong, whatever takes, writes, evictions, acknowledgements   *)
(* and arrivals overlap, until the first touch of memory that is not       *)
(* allocated; and the map's pool never comes to that.                      *)
(*                                                                         *)
(* Everything is said of Num(a), the number of holders of block a.  The    *)
(* first part proves how each kind of step changes it; the second is the   *)
(* inductive invariant IInv.                                               *)
(***************************************************************************)
EXTENDS PayloadPool, FiniteSetTheorems, FunctionTheorems, SequenceTheorems, TLAPS

-----------------------------------------------------------------------------
\* The holders that are changes of one history.
Tagged(t, s, a) == {<<t, i>> : i \in {j \in DOMAIN s : s[j] = a}}

\* They are finitely many.
LEMMA TaggedFinite ==
  ASSUME NEW t, NEW s \in Seq(Addresses), NEW a
  PROVE  IsFiniteSet(Tagged(t, s, a))
  <1> DEFINE S == {j \in DOMAIN s : s[j] = a}
             f == [i \in S |-> <<t, i>>]
  <1>1. IsFiniteSet(S)
    <2>1. Len(s) \in Nat /\ DOMAIN s = 1..Len(s)
      BY LenProperties
    <2>2. IsFiniteSet(1..Len(s))
      BY <2>1, FS_Interval
    <2>3. S \in SUBSET (1..Len(s))
      BY <2>1
    <2> QED
      BY <2>2, <2>3, FS_Subset
  <1>2. f \in Surjection(S, Tagged(t, s, a))
    BY DEF Surjection, Tagged
  <1> QED
    BY <1>1, <1>2, FS_Surjection

\* One more when the block enters the history.
LEMMA TaggedAppend ==
  ASSUME NEW t, NEW s \in Seq(Addresses), NEW b \in Addresses, NEW a
  PROVE  /\ a # b => Tagged(t, Append(s, b), a) = Tagged(t, s, a)
         /\ Cardinality(Tagged(t, Append(s, b), b)) = Cardinality(Tagged(t, s, b)) + 1
  <1>1. /\ DOMAIN s = 1..Len(s) /\ DOMAIN Append(s, b) = 1..(Len(s) + 1) /\ Len(s) \in Nat
        /\ \A i \in 1..Len(s) : Append(s, b)[i] = s[i]
        /\ Append(s, b)[Len(s) + 1] = b
    BY AppendProperties, LenProperties
  <1>2. a # b => Tagged(t, Append(s, b), a) = Tagged(t, s, a)
    BY <1>1 DEF Tagged
  <1>3. Tagged(t, Append(s, b), b) = Tagged(t, s, b) \cup {<<t, Len(s) + 1>>}
    BY <1>1 DEF Tagged
  <1>4. <<t, Len(s) + 1>> \notin Tagged(t, s, b)
    BY <1>1 DEF Tagged
  <1> QED
    BY <1>2, <1>3, <1>4, TaggedFinite, FS_AddElement

\* One less when its oldest change leaves.
LEMMA TaggedTail ==
  ASSUME NEW t, NEW s \in Seq(Addresses), s # <<>>, NEW a
  PROVE  /\ a = Head(s) =>
              Cardinality(Tagged(t, Tail(s), a)) = Cardinality(Tagged(t, s, a)) - 1
         /\ a # Head(s) =>
              Cardinality(Tagged(t, Tail(s), a)) = Cardinality(Tagged(t, s, a))
  <1>1. /\ DOMAIN s = 1..Len(s) /\ Len(s) \in Nat /\ Len(s) >= 1 /\ Head(s) = s[1]
        /\ Tail(s) \in Seq(Addresses) /\ DOMAIN Tail(s) = 1..(Len(s) - 1)
        /\ \A i \in 1..(Len(s) - 1) : Tail(s)[i] = s[i + 1]
    BY HeadTailProperties, LenProperties, EmptySeq
  <1> DEFINE A == Tagged(t, Tail(s), a)
             B == Tagged(t, s, a) \ {<<t, 1>>}
             f == [p \in A |-> <<t, p[2] + 1>>]
  <1>2. IsFiniteSet(A) /\ IsFiniteSet(Tagged(t, s, a)) /\ IsFiniteSet(B)
    BY <1>1, TaggedFinite, FS_RemoveElement
  <1>3. f \in Bijection(A, B)
    <2>1. \A p \in A : f[p] \in B
      BY <1>1 DEF Tagged
    <2>2. ASSUME NEW p \in A, NEW q \in A, f[p] = f[q] PROVE p = q
      <3>1. PICK i \in 1..(Len(s) - 1) : p = <<t, i>>
        BY <1>1 DEF Tagged
      <3>2. PICK j \in 1..(Len(s) - 1) : q = <<t, j>>
        BY <1>1 DEF Tagged
      <3>3. f[p] = <<t, i + 1>> /\ f[q] = <<t, j + 1>>
        BY <3>1, <3>2
      <3>4. i + 1 = j + 1
        BY <2>2, <3>3
      <3> QED
        BY <1>1, <3>1, <3>2, <3>4
    <2>3. ASSUME NEW q \in B PROVE \E p \in A : f[p] = q
      <3>1. PICK i \in 1..Len(s) : q = <<t, i>> /\ s[i] = a /\ i # 1
        BY <1>1 DEF Tagged
      <3>2. <<t, i - 1>> \in A
        BY <1>1, <3>1 DEF Tagged
      <3> QED
        BY <3>1, <3>2
    <2>4. f \in [A -> B]
      BY <2>1
    <2> HIDE DEF f, A, B
    <2>5. f \in Injection(A, B)
      BY <2>2, <2>4 DEF Injection, IsInjective
    <2>6. f \in Surjection(A, B)
      BY <2>3, <2>4 DEF Surjection
    <2> QED
      BY <2>5, <2>6 DEF Bijection
  <1>4. Cardinality(A) = Cardinality(B)
    BY <1>2, <1>3, FS_Bijection DEF ExistsBijection
  <1>5. <<t, 1>> \in Tagged(t, s, a) <=> Head(s) = a
    BY <1>1 DEF Tagged
  <1>6. Head(s) = a => Cardinality(B) = Cardinality(Tagged(t, s, a)) - 1
    BY <1>2, <1>5, FS_RemoveElement
  <1>7. Head(s) # a => B = Tagged(t, s, a)
    BY <1>5
  <1> QED
    BY <1>4, <1>6, <1>7

-----------------------------------------------------------------------------
\* The holders by kind, for histories and data given as values, so that the lemmas speak of
\* the states before and after a step alike.
InHistories(h, W, a) == UNION {Tagged(w, h[w], a) : w \in W}
InSlot(s, x, a) == IF x = a THEN {<<s>>} ELSE {}
HoldersOf(u, h, d, c, a) ==
  ((Tagged("unread", u, a) \cup InHistories(h, Writers, a)) \cup InSlot("data", d, a))
    \cup InSlot("change", c, a)

Histories == {h \in [Writers -> Seq(Addresses)] : \A w \in Writers : Len(h[w]) <= Depth}
Slots == Addresses \cup {Nothing}

\* How many hold a block.
NumOf(u, h, d, c, a) == Cardinality(HoldersOf(u, h, d, c, a))
Num(a) == Cardinality(Holders(a))
One(x, a) == IF x = a THEN 1 ELSE 0

\* Disjoint sets add up.
LEMMA DisjointUnion ==
  ASSUME NEW S, IsFiniteSet(S), NEW T, IsFiniteSet(T), S \cap T = {}
  PROVE  IsFiniteSet(S \cup T) /\ Cardinality(S \cup T) = Cardinality(S) + Cardinality(T)
  <1>1. Cardinality(S \cap T) = 0
    BY FS_EmptySet
  <1>2. Cardinality(S) \in Nat /\ Cardinality(T) \in Nat
    BY FS_CardinalityType
  <1>3. /\ IsFiniteSet(S \cup T)
        /\ Cardinality(S \cup T) = Cardinality(S) + Cardinality(T) - Cardinality(S \cap T)
    BY FS_Union
  <1> QED
    BY <1>1, <1>2, <1>3

\* Finitely many changes are in the histories of the writers.
LEMMA HistoriesFinite ==
  ASSUME NEW h \in Histories, NEW W \in SUBSET Writers, NEW a
  PROVE  IsFiniteSet(InHistories(h, W, a))
  <1>1. IsFiniteSet(Writers \X (1..Depth))
    <2>1. IsFiniteSet(1..Depth)
      BY PoolAssumption, FS_Interval
    <2>2. IsFiniteSet(Writers)
      BY PoolAssumption
    <2> QED
      BY <2>1, <2>2, FS_Product
  <1>2. ASSUME NEW w \in W PROVE Tagged(w, h[w], a) \subseteq Writers \X (1..Depth)
    <2>1. h[w] \in Seq(Addresses) /\ Len(h[w]) <= Depth
      BY DEF Histories
    <2>2. DOMAIN h[w] = 1..Len(h[w]) /\ Len(h[w]) \in Nat
      BY <2>1, LenProperties
    <2> QED
      BY <2>1, <2>2, PoolAssumption DEF Tagged
  <1>3. InHistories(h, W, a) \in SUBSET (Writers \X (1..Depth))
    BY <1>2 DEF InHistories
  <1> QED
    BY <1>1, <1>3, FS_Subset

\* The kinds are disjoint, so the holders are the sum of them.
LEMMA NumSum ==
  ASSUME NEW u \in Seq(Addresses), NEW h \in Histories, NEW d, NEW c, NEW a
  PROVE  /\ NumOf(u, h, d, c, a)
              = Cardinality(Tagged("unread", u, a)) + Cardinality(InHistories(h, Writers, a))
                  + One(d, a) + One(c, a)
         /\ Cardinality(Tagged("unread", u, a)) \in Nat
         /\ Cardinality(InHistories(h, Writers, a)) \in Nat
         /\ NumOf(u, h, d, c, a) \in Nat
         /\ IsFiniteSet(HoldersOf(u, h, d, c, a))
  <1> DEFINE U == Tagged("unread", u, a)
             H == InHistories(h, Writers, a)
             D == InSlot("data", d, a)
             C == InSlot("change", c, a)
  <1>2. IsFiniteSet(U) /\ IsFiniteSet(H)
    BY TaggedFinite, HistoriesFinite
  <1>3. IsFiniteSet(D) /\ Cardinality(D) = One(d, a)
    BY FS_EmptySet, FS_Singleton DEF InSlot, One
  <1>4. IsFiniteSet(C) /\ Cardinality(C) = One(c, a)
    BY FS_EmptySet, FS_Singleton DEF InSlot, One
  <1>5. \A x \in U : \E i : x = <<"unread", i>>
    BY DEF Tagged
  <1>6. \A x \in H : \E w \in Writers : \E i : x = <<w, i>>
    BY DEF InHistories, Tagged
  <1>7. U \cap H = {}
    BY <1>5, <1>6, PoolAssumption
  <1>8. \A x, i : <<x, i>> # <<"data">> /\ <<x, i>> # <<"change">>
    OBVIOUS
  <1>9. (U \cup H) \cap D = {} /\ ((U \cup H) \cup D) \cap C = {}
    <2>1. <<"data">> # <<"change">>
      OBVIOUS
    <2> QED
      BY <1>5, <1>6, <1>8, <2>1 DEF InSlot
  <1> HIDE DEF U, H, D, C
  <1>10. Cardinality(U \cup H) = Cardinality(U) + Cardinality(H) /\ IsFiniteSet(U \cup H)
    BY <1>2, <1>7, DisjointUnion
  <1>11. /\ Cardinality((U \cup H) \cup D) = Cardinality(U \cup H) + Cardinality(D)
         /\ IsFiniteSet((U \cup H) \cup D)
    BY <1>3, <1>9, <1>10, DisjointUnion
  <1>12. /\ Cardinality(((U \cup H) \cup D) \cup C) = Cardinality((U \cup H) \cup D) + Cardinality(C)
         /\ IsFiniteSet(((U \cup H) \cup D) \cup C)
    BY <1>4, <1>9, <1>11, DisjointUnion
  <1>13. Cardinality(U) \in Nat /\ Cardinality(H) \in Nat
    BY <1>2, FS_CardinalityType
  <1>14. One(d, a) \in Nat /\ One(c, a) \in Nat
    BY DEF One
  <1>15. HoldersOf(u, h, d, c, a) = ((U \cup H) \cup D) \cup C
    BY DEF HoldersOf, U, H, D, C
  <1>16. NumOf(u, h, d, c, a) = Cardinality(U) + Cardinality(H) + One(d, a) + One(c, a)
    BY <1>3, <1>4, <1>10, <1>11, <1>12, <1>13, <1>14, <1>15 DEF NumOf
  <1> QED
    BY <1>12, <1>13, <1>14, <1>15, <1>16 DEF U, H

\* The histories by writer.
LEMMA OneHistory ==
  ASSUME NEW h \in Histories, NEW w \in Writers, NEW a
  PROVE  /\ Cardinality(InHistories(h, Writers, a))
              = Cardinality(Tagged(w, h[w], a)) + Cardinality(InHistories(h, Writers \ {w}, a))
         /\ Cardinality(Tagged(w, h[w], a)) \in Nat
         /\ Cardinality(InHistories(h, Writers \ {w}, a)) \in Nat
  <1> DEFINE T == Tagged(w, h[w], a)
             R == InHistories(h, Writers \ {w}, a)
  <1>1. InHistories(h, Writers, a) = T \cup R
    BY DEF InHistories
  <1>2. IsFiniteSet(T) /\ IsFiniteSet(R)
    BY TaggedFinite, HistoriesFinite DEF Histories
  <1>3. T \cap R = {}
    <2>1. \A x \in T : \E i : x = <<w, i>>
      BY DEF Tagged
    <2>2. \A x \in R : \E v \in Writers \ {w} : \E i : x = <<v, i>>
      BY DEF InHistories, Tagged
    <2> QED
      BY <2>1, <2>2
  <1> HIDE DEF T, R
  <1>4. Cardinality(T \cup R) = Cardinality(T) + Cardinality(R)
    BY <1>2, <1>3, DisjointUnion
  <1> QED
    BY <1>1, <1>2, <1>4, FS_CardinalityType DEF T, R

\* A change that arrives is one more holder, of its block.
LEMMA NumAppendUnread ==
  ASSUME NEW u \in Seq(Addresses), NEW h \in Histories, NEW d, NEW c, NEW a, NEW b \in Addresses
  PROVE  NumOf(Append(u, b), h, d, c, a) = NumOf(u, h, d, c, a) + One(a, b)
  <1>1. PICK v \in Seq(Addresses) : v = Append(u, b)
    BY AppendProperties
  <1>2. Cardinality(Tagged("unread", Append(u, b), a))
          = Cardinality(Tagged("unread", u, a)) + One(a, b)
    <2>1. Cardinality(Tagged("unread", u, a)) \in Nat
      BY NumSum
    <2> QED
      BY <2>1, TaggedAppend DEF One
  <1>3. One(a, b) \in Nat /\ One(d, a) \in Nat /\ One(c, a) \in Nat
    BY DEF One
  <1>4. NumOf(v, h, d, c, a)
          = Cardinality(Tagged("unread", v, a)) + Cardinality(InHistories(h, Writers, a))
              + One(d, a) + One(c, a)
    BY NumSum
  <1>5. /\ NumOf(u, h, d, c, a)
             = Cardinality(Tagged("unread", u, a)) + Cardinality(InHistories(h, Writers, a))
                 + One(d, a) + One(c, a)
        /\ Cardinality(Tagged("unread", u, a)) \in Nat
        /\ Cardinality(InHistories(h, Writers, a)) \in Nat
    BY NumSum
  <1> QED
    BY <1>1, <1>2, <1>3, <1>4, <1>5

\* A change that leaves the history of the reader is one less.
LEMMA NumTailUnread ==
  ASSUME NEW u \in Seq(Addresses), u # <<>>, NEW h \in Histories, NEW d, NEW c, NEW a
  PROVE  NumOf(Tail(u), h, d, c, a) = NumOf(u, h, d, c, a) - One(a, Head(u))
  <1>1. PICK v \in Seq(Addresses) : v = Tail(u)
    BY HeadTailProperties
  <1>2. Cardinality(Tagged("unread", Tail(u), a))
          = Cardinality(Tagged("unread", u, a)) - One(a, Head(u))
    <2>1. Cardinality(Tagged("unread", u, a)) \in Nat
      BY NumSum
    <2> QED
      BY <2>1, TaggedTail DEF One
  <1>3. One(a, Head(u)) \in Nat /\ One(d, a) \in Nat /\ One(c, a) \in Nat
    BY DEF One
  <1>4. NumOf(v, h, d, c, a)
          = Cardinality(Tagged("unread", v, a)) + Cardinality(InHistories(h, Writers, a))
              + One(d, a) + One(c, a)
    BY NumSum
  <1>5. /\ NumOf(u, h, d, c, a)
             = Cardinality(Tagged("unread", u, a)) + Cardinality(InHistories(h, Writers, a))
                 + One(d, a) + One(c, a)
        /\ Cardinality(Tagged("unread", u, a)) \in Nat
        /\ Cardinality(InHistories(h, Writers, a)) \in Nat
    BY NumSum
  <1> QED
    BY <1>1, <1>2, <1>3, <1>4, <1>5

\* A history that changes counts with its own changes.
LEMMA NumHistory ==
  ASSUME NEW u \in Seq(Addresses), NEW h \in Histories, NEW g \in Histories, NEW w \in Writers,
         \A v \in Writers : v # w => g[v] = h[v], NEW d, NEW c, NEW a
  PROVE  /\ NumOf(u, g, d, c, a) = NumOf(u, h, d, c, a) - Cardinality(Tagged(w, h[w], a))
                                     + Cardinality(Tagged(w, g[w], a))
         /\ Cardinality(Tagged(w, h[w], a)) \in Nat
  <1>1. InHistories(g, Writers \ {w}, a) = InHistories(h, Writers \ {w}, a)
    BY DEF InHistories
  <1>2. /\ Cardinality(InHistories(g, Writers, a))
             = Cardinality(Tagged(w, g[w], a)) + Cardinality(InHistories(g, Writers \ {w}, a))
        /\ Cardinality(InHistories(g, Writers \ {w}, a)) \in Nat
        /\ Cardinality(Tagged(w, g[w], a)) \in Nat
    BY OneHistory
  <1>3. /\ Cardinality(InHistories(h, Writers, a))
             = Cardinality(Tagged(w, h[w], a)) + Cardinality(InHistories(h, Writers \ {w}, a))
        /\ Cardinality(Tagged(w, h[w], a)) \in Nat
    BY OneHistory
  <1>4. NumOf(u, g, d, c, a)
          = Cardinality(Tagged("unread", u, a)) + Cardinality(InHistories(g, Writers, a))
              + One(d, a) + One(c, a)
    BY NumSum
  <1>5. /\ NumOf(u, h, d, c, a)
             = Cardinality(Tagged("unread", u, a)) + Cardinality(InHistories(h, Writers, a))
                 + One(d, a) + One(c, a)
        /\ Cardinality(Tagged("unread", u, a)) \in Nat
    BY NumSum
  <1>6. One(d, a) \in Nat /\ One(c, a) \in Nat
    BY DEF One
  <1> QED
    BY <1>1, <1>2, <1>3, <1>4, <1>5, <1>6

\* What the data and the change hold.
LEMMA NumSlots ==
  ASSUME NEW u \in Seq(Addresses), NEW h \in Histories, NEW d, NEW c, NEW d2, NEW c2, NEW a
  PROVE  NumOf(u, h, d2, c2, a)
           = NumOf(u, h, d, c, a) - One(d, a) - One(c, a) + One(d2, a) + One(c2, a)
  <1>1. One(d, a) \in Nat /\ One(c, a) \in Nat /\ One(d2, a) \in Nat /\ One(c2, a) \in Nat
    BY DEF One
  <1> QED
    BY SMTT(30), <1>1, NumSum

-----------------------------------------------------------------------------
\* What the transmission is holding at each of its places.
Stages ==
  /\ step = "idle" => data = Nothing
  /\ step \in {"taken", "write"} \cup Writers => data # Nothing
  /\ step = "taken" => unread # <<>> /\ Head(unread) = data
  /\ step \in Writers <=> change # Nothing

\* The last change of the reader's history is of block b.
Newest(b) == unread # <<>> /\ unread[Len(unread)] = b

\* The mutex of the map is held by no other than the thread that erases, and the block it
\* erases is not in use, or it is the one that the receiver waits to insert.  The receiver
\* alone waits with a new block: that of the newest change, which nothing else holds.
MapOrder ==
  /\ pool = "fast" => busy["receiver"] = Nothing /\ mutex = NoThread
  /\ pool = "map" =>
       /\ mutex # "receiver"
       /\ \A x \in Threads \ {"receiver"} : busy[x] # Nothing <=> mutex = x
       /\ mutex # NoThread /\ busy[mutex] \in allocated => busy["receiver"] = busy[mutex]
       /\ \A b \in Addresses : busy["receiver"] = b => Num(b) = 1 /\ Newest(b)

\* Every block in use is counted, ...
Counted == \A a \in allocated : Entering(a) \/ count[a] = Num(a)

\* ... every block held is in use, ...
Owned == \A a \in Addresses :
  Num(a) > 0 => a \in allocated /\ (pool = "map" => a \in known \/ Entering(a))

\* ... and every block in use is held, or FastPayloadPool is about to free it.
Freed ==
  /\ outstanding = Cardinality(allocated)
  /\ \A a \in allocated : Num(a) > 0 \/ (pool = "fast" /\ \E x \in Threads : busy[x] = a)

Sound == MapOrder /\ Counted /\ Owned /\ Freed

IInv == TypeOK /\ Stages /\ MapNeverThrows /\ (~failed => Sound)

-----------------------------------------------------------------------------
\* Threads and places are told apart by name.
LEMMA Names ==
  /\ "receiver" \in Threads /\ "track" \in Threads /\ Writers \subseteq Threads
  /\ "receiver" # "track" /\ "receiver" \notin Writers /\ "track" \notin Writers
  /\ NoThread \notin Threads /\ Nothing \notin Addresses
  /\ {"idle", "taken", "write", "destroy"} \cap Writers = {}
  BY PoolAssumption DEF Threads

\* The number of holders, before and after a step, as a function of what they are.
LEMMA NumNow ==
  \A a : /\ Num(a) = NumOf(unread, hist, data, change, a)
         /\ Num(a)' = NumOf(unread', hist', data', change', a)
  BY DEF Num, NumOf, Holders, HoldersOf, InHistories, InSlot, Tagged

\* The histories of a typed state.
LEMMA HistoriesNow == TypeOK => unread \in Seq(Addresses) /\ hist \in Histories
  BY DEF TypeOK, Histories

\* A number of holders is a number.
LEMMA NumType == TypeOK => \A a : Num(a) \in Nat
  BY NumNow, HistoriesNow, NumSum

\* How a step changes the number of holders.
Gains(b) == \A a \in Addresses : Num(a)' = Num(a) + One(a, b)
Loses(b) == \A a \in Addresses : Num(a)' = Num(a) - One(a, b)
Keeps == \A a \in Addresses : Num(a)' = Num(a)

\* Nobody comes and nobody goes.
LEMMA KeepsAll == UNCHANGED <<unread, hist, data, change>> => Keeps
  BY NumNow DEF Keeps

\* A change arrives.
LEMMA ReceiveGains == ASSUME TypeOK, NEW b \in Addresses, Receive(b) PROVE Gains(b)
  <1>1. unread' = Append(unread, b) /\ UNCHANGED <<hist, data, change>>
    BY DEF Receive, trackVars
  <1> QED
    BY <1>1, HistoriesNow, NumNow, NumAppendUnread DEF Gains

\* The data shares the block of the first change.
LEMMA TakeGains == ASSUME TypeOK, Stages, TakeShares PROVE Gains(Head(unread))
  <1>1. /\ data' = Head(unread) /\ data = Nothing /\ UNCHANGED <<unread, hist, change>>
        /\ Head(unread) \in Addresses
    BY HeadTailProperties DEF TakeShares, At, Stages, TypeOK
  <1>2. PICK b \in Addresses : b = Head(unread)
    BY <1>1
  <1>3. ASSUME NEW a \in Addresses PROVE Num(a)' = Num(a) + One(a, b)
    <2>1. One(Nothing, a) = 0 /\ One(b, a) = One(a, b)
      BY Names DEF One
    <2> QED
      BY <1>1, <1>2, <2>1, HistoriesNow, NumNow, NumSlots, NumType DEF One
  <1> QED
    BY <1>2, <1>3 DEF Gains

\* That change leaves the reader's history, and the data still holds its block.
LEMMA TakeLoses == ASSUME TypeOK, Stages, TakeRemoves PROVE unread # <<>> /\ Loses(Head(unread))
  <1>1. unread # <<>> /\ unread' = Tail(unread) /\ UNCHANGED <<hist, data, change>>
    BY DEF TakeRemoves, At, Stages
  <1> QED
    BY <1>1, HistoriesNow, NumNow, NumTailUnread DEF Loses

\* The change to write shares the block of the data.
LEMMA WriteGains == ASSUME TypeOK, Stages, NEW w \in Writers, WriteShares(w)
                    PROVE  data \in Addresses /\ Gains(data)
  <1>1. /\ change' = data /\ change = Nothing /\ UNCHANGED <<unread, hist, data>>
        /\ data \in Addresses
    BY Names DEF WriteShares, At, Stages, TypeOK
  <1>2. ASSUME NEW a \in Addresses PROVE Num(a)' = Num(a) + One(a, data)
    <2>1. One(Nothing, a) = 0 /\ One(data, a) = One(a, data)
      BY Names DEF One
    <2> QED
      BY <1>1, <2>1, HistoriesNow, NumNow, NumSlots, NumType DEF One
  <1> QED
    BY <1>1, <1>2 DEF Gains

\* One history changes, and nothing else.
LEMMA OneHistoryNow ==
  ASSUME TypeOK, NEW w \in Writers, hist' \in Histories,
         \A v \in Writers : v # w => hist'[v] = hist[v], UNCHANGED unread, NEW d, NEW c, NEW a
  PROVE  /\ NumOf(unread', hist', d, c, a)
              = NumOf(unread, hist, d, c, a) - Cardinality(Tagged(w, hist[w], a))
                  + Cardinality(Tagged(w, hist'[w], a))
         /\ Cardinality(Tagged(w, hist[w], a)) \in Nat
         /\ NumOf(unread, hist, d, c, a) \in Nat
  <1>1. unread \in Seq(Addresses) /\ hist \in Histories
    BY HistoriesNow
  <1>2. PICK u \in Seq(Addresses), h \in Histories, g \in Histories :
          u = unread /\ h = hist /\ g = hist'
    BY <1>1
  <1>3. \A v \in Writers : v # w => g[v] = h[v]
    BY <1>2
  <1>4. /\ NumOf(u, g, d, c, a) = NumOf(u, h, d, c, a) - Cardinality(Tagged(w, h[w], a))
                                    + Cardinality(Tagged(w, g[w], a))
        /\ Cardinality(Tagged(w, h[w], a)) \in Nat
        /\ NumOf(u, h, d, c, a) \in Nat
    BY SMTT(30), <1>3, NumHistory, NumSum
  <1> QED
    BY <1>2, <1>4

\* The oldest change of a history goes.
LEMMA TailHistory ==
  ASSUME TypeOK, NEW w \in Writers, hist[w] # <<>>, hist' = [hist EXCEPT ![w] = Tail(hist[w])],
         UNCHANGED <<unread, data, change>>, NEW a
  PROVE  Num(a)' = Num(a) - One(a, Head(hist[w])) /\ hist' \in Histories
  <1>1. hist[w] \in Seq(Addresses) /\ hist \in [Writers -> Seq(Addresses)]
        /\ \A v \in Writers : Len(hist[v]) <= Depth
    BY DEF TypeOK
  <1>2. Tail(hist[w]) \in Seq(Addresses) /\ Len(Tail(hist[w])) <= Depth
    BY <1>1, PoolAssumption, HeadTailProperties, LenProperties
  <1>3. hist'[w] = Tail(hist[w]) /\ \A v \in Writers : v # w => hist'[v] = hist[v]
    BY <1>1
  <1>4. hist' \in Histories
    BY <1>1, <1>2, <1>3 DEF Histories
  <1>5. /\ NumOf(unread', hist', data, change, a)
             = NumOf(unread, hist, data, change, a) - Cardinality(Tagged(w, hist[w], a))
                 + Cardinality(Tagged(w, hist'[w], a))
        /\ Cardinality(Tagged(w, hist[w], a)) \in Nat
        /\ NumOf(unread, hist, data, change, a) \in Nat
    BY <1>3, <1>4, OneHistoryNow
  <1>6. Cardinality(Tagged(w, hist'[w], a)) = Cardinality(Tagged(w, hist[w], a)) - One(a, Head(hist[w]))
    BY <1>1, <1>3, <1>5, TaggedTail DEF One
  <1>7. One(a, Head(hist[w])) \in Nat
    BY DEF One
  <1>8. /\ Num(a)' = NumOf(unread', hist', data, change, a)
        /\ Num(a) = NumOf(unread, hist, data, change, a)
    BY NumNow
  <1>9. Num(a)' = Num(a) - One(a, Head(hist[w]))
    BY <1>5, <1>6, <1>7, <1>8
  <1> QED
    BY <1>4, <1>9

\* A full history gives up its oldest change.
LEMMA RoomLoses == ASSUME TypeOK, NEW w \in Writers, MakeRoom(w)
                   PROVE  hist[w] # <<>> /\ hist' \in Histories /\ Loses(Head(hist[w]))
  <1>1. /\ hist' = [hist EXCEPT ![w] = Tail(hist[w])] /\ UNCHANGED <<unread, data, change>>
        /\ Len(hist[w]) = Depth
    BY DEF MakeRoom, Full, trackVars
  <1>2. hist[w] # <<>>
    BY <1>1, PoolAssumption
  <1>3. ASSUME NEW a \in Addresses PROVE Num(a)' = Num(a) - One(a, Head(hist[w]))
    BY <1>1, <1>2, TailHistory
  <1>4. hist' \in Histories
    BY <1>1, <1>2, TailHistory
  <1> QED
    BY <1>2, <1>3, <1>4 DEF Loses

\* The change goes from the hand of the transmission into the history.
LEMMA AddKeeps == ASSUME TypeOK, Stages, NEW w \in Writers, AddChange(w)
                  PROVE  change \in Addresses /\ hist' \in Histories /\ Keeps
  <1>1. /\ hist' = [hist EXCEPT ![w] = Append(hist[w], change)] /\ UNCHANGED <<unread, data>>
        /\ change' = Nothing /\ change \in Addresses /\ Len(hist[w]) # Depth
    BY DEF AddChange, Full, At, Stages, TypeOK
  <1>2. Len(hist[w]) < Depth
    <2>1. hist[w] \in Seq(Addresses) /\ Len(hist[w]) <= Depth
      BY DEF TypeOK
    <2> QED
      BY <1>1, <2>1, PoolAssumption, LenProperties
  <1>3. hist[w] \in Seq(Addresses) /\ hist \in [Writers -> Seq(Addresses)]
    BY DEF TypeOK
  <1>4. Append(hist[w], change) \in Seq(Addresses) /\ Len(Append(hist[w], change)) <= Depth
    BY <1>1, <1>2, <1>3, PoolAssumption, AppendProperties, LenProperties
  <1>5. hist'[w] = Append(hist[w], change) /\ \A v \in Writers : v # w => hist'[v] = hist[v]
    BY <1>1, <1>3
  <1>6. hist' \in Histories
    BY <1>1, <1>3, <1>4, <1>5 DEF Histories, TypeOK
  <1>7. ASSUME NEW a \in Addresses PROVE Num(a)' = Num(a)
    <2>1. /\ NumOf(unread', hist', data, Nothing, a)
               = NumOf(unread, hist, data, Nothing, a) - Cardinality(Tagged(w, hist[w], a))
                   + Cardinality(Tagged(w, hist'[w], a))
          /\ Cardinality(Tagged(w, hist[w], a)) \in Nat
          /\ NumOf(unread, hist, data, Nothing, a) \in Nat
      BY <1>1, <1>5, <1>6, OneHistoryNow
    <2>2. Cardinality(Tagged(w, hist'[w], a)) = Cardinality(Tagged(w, hist[w], a)) + One(a, change)
      BY <1>1, <1>3, <1>5, <2>1, TaggedAppend DEF One
    <2>3. NumOf(unread, hist, data, change, a)
            = NumOf(unread, hist, data, Nothing, a) - One(data, a) - One(Nothing, a)
                + One(data, a) + One(change, a)
      BY HistoriesNow, NumSlots
    <2>4. One(Nothing, a) = 0 /\ One(change, a) = One(a, change)
      BY Names DEF One
    <2>5. One(data, a) \in Nat /\ One(change, a) \in Nat
      BY DEF One
    <2>6. Num(a)' = NumOf(unread', hist', data, Nothing, a) /\ Num(a) = NumOf(unread, hist, data, change, a)
      BY <1>1, NumNow
    <2> QED
      BY <2>1, <2>2, <2>3, <2>4, <2>5, <2>6
  <1> QED
    BY <1>1, <1>6, <1>7 DEF Keeps

\* A change that every reader has acknowledged leaves the history.
LEMMA AcknowledgedLoses == ASSUME TypeOK, NEW w \in Writers, Acknowledged(w)
                           PROVE  hist[w] # <<>> /\ hist' \in Histories /\ Loses(Head(hist[w]))
  <1>1. /\ hist' = [hist EXCEPT ![w] = Tail(hist[w])] /\ UNCHANGED <<unread, data, change>>
        /\ hist[w] # <<>>
    BY DEF Acknowledged, trackVars
  <1>2. ASSUME NEW a \in Addresses PROVE Num(a)' = Num(a) - One(a, Head(hist[w]))
    BY <1>1, TailHistory
  <1>3. hist' \in Histories
    BY <1>1, TailHistory
  <1> QED
    BY <1>1, <1>2, <1>3 DEF Loses

\* The data lets its block go.
LEMMA DataLoses ==
  ASSUME TypeOK, data \in Addresses, data' = Nothing, UNCHANGED <<unread, hist, change>>
  PROVE  Loses(data)
  <1>1. ASSUME NEW a \in Addresses PROVE Num(a)' = Num(a) - One(a, data)
    <2>1. One(Nothing, a) = 0 /\ One(data, a) = One(a, data)
      BY Names DEF One
    <2> QED
      BY <2>1, HistoriesNow, NumNow, NumSlots, NumType DEF One
  <1> QED
    BY <1>1 DEF Loses

-----------------------------------------------------------------------------
\* The types by half: the pool, ...
PoolType ==
  /\ pool \in Pools /\ allocated \subseteq Addresses /\ known \subseteq Addresses
  /\ mutex \in Threads \cup {NoThread} /\ outstanding \in Int /\ count \in [Addresses -> Int]
  /\ busy \in [Threads -> Addresses \cup {Nothing}] /\ failed \in BOOLEAN

\* ... and those who hold.
HolderType ==
  /\ unread \in Seq(Addresses) /\ hist \in Histories
  /\ step \in {"idle", "taken", "write", "destroy"} \cup Writers
  /\ data \in Addresses \cup {Nothing} /\ change \in Addresses \cup {Nothing}
  /\ todo \subseteq Writers /\ service \in BOOLEAN

\* Together they are the type invariant.
LEMMA TypeHalves == TypeOK <=> PoolType /\ HolderType
  BY DEF TypeOK, PoolType, HolderType, Histories

\* The same of the next state.
LEMMA TypeHalvesNext == TypeOK' <=> PoolType' /\ HolderType'
  BY DEF TypeOK, PoolType, HolderType, Histories

\* The operations of the pools keep the types of the pool.
LEMMA ShareTypes == ASSUME PoolType, NEW b \in Addresses, Share(b), pool' = pool PROVE PoolType'
  <1>1. failed' \in BOOLEAN
    <2>1. failed' = (b \notin allocated) \/ failed' = (b \notin known)
      BY DEF Share
    <2> QED
      BY <2>1
  <1>2. count' \in [Addresses -> Int]
    BY DEF PoolType, Share
  <1> QED
    BY <1>1, <1>2 DEF PoolType, Share

\* A release, with or without the memory.
LEMMA ReleaseTypes ==
  ASSUME PoolType, NEW x \in Threads, NEW b \in Addresses, Release(x, b), pool' = pool
  PROVE  PoolType'
  <1>1. failed' \in BOOLEAN
    <2>1. failed' = (b \notin allocated) \/ failed' = (b \notin known)
      BY DEF Release
    <2> QED
      BY <2>1
  <1>2. count' \in [Addresses -> Int]
    BY DEF PoolType, Release
  <1>3. busy' \in [Threads -> Addresses \cup {Nothing}]
    BY DEF PoolType, Release
  <1>4. /\ allocated' \subseteq Addresses /\ outstanding' \in Int
        /\ mutex' \in Threads \cup {NoThread} /\ known' = known
    BY DEF PoolType, Release, Free
  <1> QED
    BY <1>1, <1>2, <1>3, <1>4 DEF PoolType

\* A new block.
LEMMA GetNewTypes ==
  ASSUME PoolType, NEW x \in Threads, NEW b \in Addresses, GetNew(x, b), pool' = pool
  PROVE  PoolType'
  BY DEF PoolType, GetNew, Allocate

\* The first change of a history is a block.
LEMMA HeadOf == ASSUME TypeOK PROVE /\ unread # <<>> => Head(unread) \in Addresses
                                    /\ \A w \in Writers : hist[w] # <<>> => Head(hist[w]) \in Addresses
  BY HeadTailProperties DEF TypeOK

\* Every action keeps the types of the pool.
LEMMA PoolTypeStep == TypeOK /\ Stages /\ [Next]_vars => PoolType'
  <1> SUFFICES ASSUME TypeOK, Stages, PoolType, [Next]_vars PROVE PoolType'
    BY TypeHalves
  <1>1. ASSUME NEW b \in Addresses, Receive(b) PROVE PoolType'
    BY <1>1, Names, GetNewTypes DEF Receive
  <1>2. CASE TakeShares
    BY <1>2, HeadOf, ShareTypes DEF TakeShares
  <1>3. CASE TakeRemoves
    BY <1>3, TakeLoses, HeadOf, Names, ReleaseTypes DEF TakeRemoves
  <1>4. ASSUME NEW w \in Writers, WriteSkips(w) PROVE PoolType'
    BY <1>4 DEF WriteSkips, poolVars, PoolType
  <1>5. ASSUME NEW w \in Writers, WriteShares(w) PROVE PoolType'
    BY <1>5, WriteGains, ShareTypes DEF WriteShares
  <1>6. ASSUME NEW w \in Writers, MakeRoom(w) PROVE PoolType'
    BY <1>6, RoomLoses, HeadOf, Names, ReleaseTypes DEF MakeRoom
  <1>7. ASSUME NEW w \in Writers, AddChange(w) PROVE PoolType'
    BY <1>7 DEF AddChange, poolVars, PoolType
  <1>8. CASE ServiceReleases
    BY <1>8, Names, ReleaseTypes DEF ServiceReleases, At, Stages, TypeOK
  <1>9. CASE TrackIsDone
    BY <1>9 DEF TrackIsDone, poolVars, PoolType
  <1>10. CASE DestroyReleases
    BY <1>10, Names, ReleaseTypes DEF DestroyReleases, TypeOK
  <1>11. CASE DestroyEmpty
    BY <1>11 DEF DestroyEmpty, poolVars, PoolType
  <1>12. ASSUME NEW w \in Writers, Acknowledged(w) PROVE PoolType'
    BY <1>12, AcknowledgedLoses, HeadOf, Names, ReleaseTypes DEF Acknowledged
  <1>13. ASSUME NEW x \in Threads, TestCounter(x) PROVE PoolType'
    BY <1>13 DEF TestCounter, Rest, PoolType, Free
  <1>14. ASSUME NEW x \in Threads, Insert(x) PROVE PoolType'
    BY <1>14 DEF Insert, Rest, PoolType
  <1>15. ASSUME NEW x \in Threads, Erase(x) PROVE PoolType'
    BY <1>15 DEF Erase, Rest, PoolType
  <1>16. CASE UNCHANGED vars
    BY <1>16 DEF vars, poolVars, PoolType
  <1> QED
    BY <1>1, <1>2, <1>3, <1>4, <1>5, <1>6, <1>7, <1>8, <1>9, <1>10, <1>11, <1>12,
       <1>13, <1>14, <1>15, <1>16 DEF Next, TrackStep, PoolStep

\* Every action keeps the types of the holders, and the depth of the histories.
LEMMA HolderTypeStep == TypeOK /\ Stages /\ [Next]_vars => HolderType'
  <1> SUFFICES ASSUME TypeOK, Stages, HolderType, [Next]_vars PROVE HolderType'
    BY TypeHalves
  <1>1. ASSUME NEW b \in Addresses, Receive(b) PROVE HolderType'
    BY <1>1, AppendProperties DEF Receive, trackVars, HolderType
  <1>2. CASE TakeShares
    BY <1>2, HeadOf DEF TakeShares, HolderType
  <1>3. CASE TakeRemoves
    BY <1>3, TakeLoses, HeadTailProperties DEF TakeRemoves, HolderType
  <1>4. ASSUME NEW w \in Writers, WriteSkips(w) PROVE HolderType'
    BY <1>4 DEF WriteSkips, HolderType
  <1>5. ASSUME NEW w \in Writers, WriteShares(w) PROVE HolderType'
    BY <1>5, WriteGains DEF WriteShares, HolderType
  <1>6. ASSUME NEW w \in Writers, MakeRoom(w) PROVE HolderType'
    <2>1. hist' \in Histories
      BY <1>6, RoomLoses DEF MakeRoom, trackVars
    <2> QED
      BY <1>6, <2>1 DEF MakeRoom, trackVars, HolderType
  <1>7. ASSUME NEW w \in Writers, AddChange(w) PROVE HolderType'
    BY <1>7, AddKeeps DEF AddChange, HolderType
  <1>8. CASE ServiceReleases
    BY <1>8 DEF ServiceReleases, AfterRelease, HolderType
  <1>9. CASE TrackIsDone
    BY <1>9 DEF TrackIsDone, HolderType
  <1>10. CASE DestroyReleases
    BY <1>10 DEF DestroyReleases, HolderType
  <1>11. CASE DestroyEmpty
    BY <1>11 DEF DestroyEmpty, HolderType
  <1>12. ASSUME NEW w \in Writers, Acknowledged(w) PROVE HolderType'
    <2>1. hist' \in Histories
      BY <1>12, AcknowledgedLoses DEF Acknowledged, trackVars
    <2> QED
      BY <1>12, <2>1 DEF Acknowledged, trackVars, HolderType
  <1>13. ASSUME NEW x \in Threads, TestCounter(x) PROVE HolderType'
    BY <1>13 DEF TestCounter, Rest, trackVars, HolderType
  <1>14. ASSUME NEW x \in Threads, Insert(x) PROVE HolderType'
    BY <1>14 DEF Insert, Rest, trackVars, HolderType
  <1>15. ASSUME NEW x \in Threads, Erase(x) PROVE HolderType'
    BY <1>15 DEF Erase, Rest, trackVars, HolderType
  <1>16. CASE UNCHANGED vars
    BY <1>16 DEF vars, trackVars, HolderType
  <1> QED
    BY <1>1, <1>2, <1>3, <1>4, <1>5, <1>6, <1>7, <1>8, <1>9, <1>10, <1>11, <1>12,
       <1>13, <1>14, <1>15, <1>16 DEF Next, TrackStep, PoolStep

\* Every action leaves the transmission holding what its next place wants.
LEMMA StagesStep == TypeOK /\ Stages /\ [Next]_vars => Stages'
  <1> SUFFICES ASSUME TypeOK, Stages, [Next]_vars PROVE Stages'
    OBVIOUS
  <1> USE Names
  <1>1. ASSUME NEW b \in Addresses, Receive(b) PROVE Stages'
    <2>1. unread # <<>> => unread' # <<>> /\ Head(unread') = Head(unread)
      BY <1>1, AppendProperties, HeadTailProperties, LenProperties DEF Receive, TypeOK
    <2> QED
      BY <1>1, <2>1 DEF Receive, trackVars, Stages
  <1>2. CASE TakeShares
    BY <1>2, HeadOf DEF TakeShares, At, Stages
  <1>3. CASE TakeRemoves
    BY <1>3 DEF TakeRemoves, At, Stages, TypeOK
  <1>4. ASSUME NEW w \in Writers, WriteSkips(w) PROVE Stages'
    BY <1>4 DEF WriteSkips, At, Stages, TypeOK
  <1>5. ASSUME NEW w \in Writers, WriteShares(w) PROVE Stages'
    BY <1>5 DEF WriteShares, At, Stages, TypeOK
  <1>6. ASSUME NEW w \in Writers, MakeRoom(w) PROVE Stages'
    BY <1>6 DEF MakeRoom, trackVars, Stages
  <1>7. ASSUME NEW w \in Writers, AddChange(w) PROVE Stages'
    BY <1>7 DEF AddChange, At, Stages, TypeOK
  <1>8. CASE ServiceReleases
    BY <1>8 DEF ServiceReleases, At, Stages, AfterRelease
  <1>9. CASE TrackIsDone
    BY <1>9 DEF TrackIsDone, At, Stages, TypeOK
  <1>10. CASE DestroyReleases
    BY <1>10 DEF DestroyReleases, At, Stages, TypeOK
  <1>11. CASE DestroyEmpty
    BY <1>11 DEF DestroyEmpty, At, Stages, TypeOK
  <1>12. ASSUME NEW w \in Writers, Acknowledged(w) PROVE Stages'
    BY <1>12 DEF Acknowledged, trackVars, Stages
  <1>13. ASSUME NEW x \in Threads, TestCounter(x) PROVE Stages'
    BY <1>13 DEF TestCounter, Rest, trackVars, Stages
  <1>14. ASSUME NEW x \in Threads, Insert(x) PROVE Stages'
    BY <1>14 DEF Insert, Rest, trackVars, Stages
  <1>15. ASSUME NEW x \in Threads, Erase(x) PROVE Stages'
    BY <1>15 DEF Erase, Rest, trackVars, Stages
  <1>16. CASE UNCHANGED vars
    BY <1>16 DEF vars, trackVars, Stages
  <1> QED
    BY <1>1, <1>2, <1>3, <1>4, <1>5, <1>6, <1>7, <1>8, <1>9, <1>10, <1>11, <1>12,
       <1>13, <1>14, <1>15, <1>16 DEF Next, TrackStep, PoolStep

-----------------------------------------------------------------------------
\* The implementation is one of two.
LEMMA PoolKinds == TypeOK => (pool = "map" \/ pool = "fast") /\ ~(pool = "map" /\ pool = "fast")
  BY PoolAssumption DEF TypeOK

\* The receiver's block alone is on its way into the map.
LEMMA EnteringNow ==
  TypeOK /\ MapOrder => \A a \in Addresses : Entering(a) <=> pool = "map" /\ busy["receiver"] = a
  BY Names DEF MapOrder, Entering, TypeOK

\* The same of the next state.
LEMMA EnteringNext ==
  TypeOK' /\ MapOrder' =>
    \A a \in Addresses : Entering(a)' <=> pool' = "map" /\ busy'["receiver"] = a
  BY Names DEF MapOrder, Entering, TypeOK

\* A number of holders after the step is a number too.
LEMMA NumTypeNext == TypeOK' => \A a : Num(a)' \in Nat
  <1> SUFFICES ASSUME TypeOK', NEW a PROVE Num(a)' \in Nat
    OBVIOUS
  <1>1. unread' \in Seq(Addresses) /\ hist' \in Histories
    BY DEF TypeOK, Histories
  <1> QED
    BY <1>1, NumNow, NumSum

\* Blocks in use are finitely many.
LEMMA AllocatedFinite == TypeOK => IsFiniteSet(allocated) /\ Cardinality(allocated) \in Nat
  BY PoolAssumption, FS_Subset, FS_CardinalityType DEF TypeOK

\* A change in a history counts.
LEMMA TaggedCounts ==
  ASSUME NEW t, NEW s \in Seq(Addresses), NEW i \in DOMAIN s
  PROVE  Cardinality(Tagged(t, s, s[i])) \in Nat \ {0}
  <1>1. IsFiniteSet(Tagged(t, s, s[i])) /\ Tagged(t, s, s[i]) # {}
    BY TaggedFinite DEF Tagged
  <1> QED
    BY <1>1, FS_EmptySet, FS_CardinalityType

\* A block that one of the later places holds has a second holder when it is the newest.
LEMMA NewestIsAnother ==
  ASSUME TypeOK, NEW a \in Addresses, NEW n \in Nat,
         n = Cardinality(InHistories(hist, Writers, a)) + One(data, a) + One(change, a), n > 0
  PROVE  Num(a) > 0 /\ (Newest(a) => Num(a) > 1)
  <1>1. /\ Num(a) = Cardinality(Tagged("unread", unread, a))
                      + Cardinality(InHistories(hist, Writers, a)) + One(data, a) + One(change, a)
        /\ Cardinality(Tagged("unread", unread, a)) \in Nat
        /\ Cardinality(InHistories(hist, Writers, a)) \in Nat
    BY HistoriesNow, NumNow, NumSum
  <1>2. One(data, a) \in Nat /\ One(change, a) \in Nat
    BY DEF One
  <1>3. Num(a) = Cardinality(Tagged("unread", unread, a)) + n
    BY <1>1, <1>2
  <1>4. Newest(a) => Cardinality(Tagged("unread", unread, a)) > 0
    <2>1. SUFFICES ASSUME Newest(a) PROVE Cardinality(Tagged("unread", unread, a)) > 0
      OBVIOUS
    <2>2. unread \in Seq(Addresses) /\ Len(unread) \in DOMAIN unread /\ unread[Len(unread)] = a
      BY <2>1, LenProperties, EmptySeq DEF Newest, TypeOK
    <2>3. PICK i \in DOMAIN unread : i = Len(unread)
      BY <2>2
    <2> QED
      BY <2>2, <2>3, TaggedCounts
  <1> QED
    BY <1>1, <1>3, <1>4

\* The data and the change being written hold their block, ...
LEMMA SlotHolds ==
  ASSUME TypeOK, NEW a \in Addresses, data = a \/ change = a
  PROVE  Num(a) > 0 /\ (Newest(a) => Num(a) > 1)
  <1>1. Cardinality(InHistories(hist, Writers, a)) \in Nat
    BY HistoriesNow, NumSum
  <1>2. /\ One(data, a) \in Nat /\ One(change, a) \in Nat
        /\ One(data, a) > 0 \/ One(change, a) > 0
    BY DEF One
  <1>3. PICK n \in Nat :
          n = Cardinality(InHistories(hist, Writers, a)) + One(data, a) + One(change, a)
    BY <1>1, <1>2
  <1>4. n > 0
    BY <1>1, <1>2, <1>3
  <1> QED
    BY <1>3, <1>4, NewestIsAnother

\* ... and so does the oldest change of a history.
LEMMA HistoryHolds ==
  ASSUME TypeOK, NEW w \in Writers, hist[w] # <<>>, NEW a \in Addresses, a = Head(hist[w])
  PROVE  Num(a) > 0 /\ (Newest(a) => Num(a) > 1)
  <1>1. /\ Cardinality(InHistories(hist, Writers, a))
             = Cardinality(Tagged(w, hist[w], a)) + Cardinality(InHistories(hist, Writers \ {w}, a))
        /\ Cardinality(Tagged(w, hist[w], a)) \in Nat
        /\ Cardinality(InHistories(hist, Writers \ {w}, a)) \in Nat
    BY HistoriesNow, OneHistory
  <1>2. Cardinality(Tagged(w, hist[w], a)) > 0
    <2>1. PICK s \in Seq(Addresses) : s = hist[w] /\ s # <<>> /\ a = Head(s)
      BY DEF TypeOK
    <2>2. 1 \in DOMAIN s /\ s[1] = a
      BY <2>1, HeadTailProperties, LenProperties, EmptySeq
    <2>3. PICK i \in DOMAIN s : i = 1
      BY <2>2
    <2> QED
      BY <2>1, <2>2, <2>3, TaggedCounts
  <1>3. One(data, a) \in Nat /\ One(change, a) \in Nat
    BY DEF One
  <1>4. PICK n \in Nat :
          n = Cardinality(InHistories(hist, Writers, a)) + One(data, a) + One(change, a)
    BY <1>1, <1>3
  <1>5. n > 0
    BY <1>1, <1>2, <1>3, <1>4
  <1> QED
    BY <1>4, <1>5, NewestIsAnother

\* The block the receiver waits to insert is none of them.
LEMMA HeldElsewhere ==
  ASSUME TypeOK, MapOrder, NEW a \in Addresses, Newest(a) => Num(a) > 1
  PROVE  a # busy["receiver"]
  <1>1. pool = "map" => a # busy["receiver"]
    <2>1. SUFFICES ASSUME pool = "map", busy["receiver"] = a PROVE FALSE
      OBVIOUS
    <2>2. Num(a) = 1 /\ Newest(a)
      BY <2>1 DEF MapOrder
    <2> QED
      BY <2>2
  <1>2. pool = "fast" => a # busy["receiver"]
    BY Names DEF MapOrder
  <1> QED
    BY <1>1, <1>2, PoolKinds

-----------------------------------------------------------------------------
\* The invariant by kind of step.  Before it: no failure yet.
Before == TypeOK /\ MapNeverThrows /\ ~failed /\ Sound

\* After it: types are proved apart.
After == MapNeverThrows' /\ (~failed' => Sound')

\* The change of the block that waits to enter the map is the newest after the step too.
NewestStays == \A b \in Addresses : busy["receiver"] = b /\ Newest(b) => Newest(b)'

\* Nothing happens to the pool.
LEMMA IdleKeeps ==
  ASSUME Before, Keeps, NewestStays, UNCHANGED <<pool, poolVars, busy, failed>>
  PROVE  After
  <1> USE DEF poolVars
  <1>1. MapOrder'
    BY DEF Before, Sound, MapOrder, Keeps, NewestStays
  <1>2. Counted' /\ Owned'
    <2>1. \A a \in Addresses : Entering(a)' <=> Entering(a)
      BY DEF Entering
    <2> QED
      BY <2>1 DEF Before, Sound, Counted, Owned, Keeps, TypeOK
  <1>3. Freed'
    BY DEF Before, Sound, Freed, Keeps, TypeOK
  <1>4. MapNeverThrows'
    BY DEF Before, MapNeverThrows
  <1> QED
    BY <1>1, <1>2, <1>3, <1>4 DEF After, Sound

\* A new block, for a change that arrives.
LEMMA NewKeeps ==
  ASSUME Before, TypeOK', NEW b \in Addresses, Gains(b), GetNew("receiver", b), Ready("receiver"),
         Newest(b)', UNCHANGED pool
  PROVE  After
  <1> USE Names
  <1>0. /\ b \notin allocated /\ allocated' = allocated \cup {b} /\ outstanding' = outstanding + 1
        /\ UNCHANGED <<known, mutex, failed>> /\ busy["receiver"] = Nothing
        /\ pool = "fast" => count' = [count EXCEPT ![b] = 1] /\ busy' = busy
        /\ pool = "map" => busy' = [busy EXCEPT !["receiver"] = b] /\ count' = count
    BY PoolKinds DEF GetNew, Allocate, Ready, Before
  <1>1. Num(b)' = 1 /\ \A a \in Addresses \ {b} : Num(a)' = Num(a)
    <2>1. Num(b) = 0
      BY <1>0, NumType DEF Before, Sound, Owned
    <2>2. \A a \in Addresses \ {b} : One(a, b) = 0
      BY DEF One
    <2>3. One(b, b) = 1
      BY DEF One
    <2> QED
      BY <2>1, <2>2, <2>3, NumType DEF Gains, Before
  <1>2. MapOrder'
    BY <1>0, <1>1 DEF Before, Sound, MapOrder, TypeOK
  <1>3. \A a \in Addresses : /\ ~Entering(a)
                             /\ Entering(a)' <=> pool = "map" /\ a = b
    BY <1>0, <1>2, EnteringNow, EnteringNext, PoolKinds DEF Before, Sound, TypeOK
  <1>4. Counted'
    BY <1>0, <1>1, <1>3, PoolKinds DEF Before, Sound, Counted, TypeOK
  <1>5. Owned'
    BY <1>0, <1>1, <1>3, PoolKinds DEF Before, Sound, Owned, TypeOK
  <1>6. Freed'
    <2>1. outstanding' = Cardinality(allocated')
      BY <1>0, AllocatedFinite, FS_AddElement DEF Before, Sound, Freed
    <2>2. pool = "fast" => busy' = busy
      BY <1>0
    <2> QED
      BY SMTT(30), <1>0, <1>1, <2>1, <2>2 DEF Before, Sound, Freed, TypeOK
  <1>7. MapNeverThrows'
    BY <1>0 DEF Before, MapNeverThrows, TypeOK
  <1> QED
    BY <1>2, <1>4, <1>5, <1>6, <1>7 DEF After, Sound

\* One more holder, of a block that has one.
LEMMA ShareKeeps ==
  ASSUME Before, TypeOK', NEW b \in Addresses, Gains(b), Share(b), Num(b) > 0,
         b # busy["receiver"], NewestStays, UNCHANGED pool
  PROVE  After
  <1> USE Names
  <1>0. b \in allocated /\ (pool = "map" => b \in known)
    BY EnteringNow DEF Before, Sound, Owned
  <1>1. /\ ~failed' /\ count' = [count EXCEPT ![b] = @ + 1]
        /\ UNCHANGED <<allocated, known, mutex, outstanding, busy>>
    BY <1>0, PoolKinds DEF Share, Before
  <1>2. Num(b)' = Num(b) + 1 /\ \A a \in Addresses \ {b} : Num(a)' = Num(a)
    <2>1. \A a \in Addresses \ {b} : One(a, b) = 0
      BY DEF One
    <2>2. One(b, b) = 1
      BY DEF One
    <2> QED
      BY <2>1, <2>2, NumType DEF Gains, Before
  <1>3. MapOrder'
    BY <1>1, <1>2 DEF Before, Sound, MapOrder, NewestStays
  <1>4. \A a \in Addresses : Entering(a)' <=> Entering(a)
    BY <1>1 DEF Entering
  <1>5. ~Entering(b) /\ Num(b) \in Nat
    BY EnteringNow, NumType DEF Before, Sound
  <1>6. Counted'
    BY <1>1, <1>2, <1>4, <1>5 DEF Before, Sound, Counted, TypeOK
  <1>7. Owned'
    BY <1>0, <1>1, <1>2, <1>4 DEF Before, Sound, Owned
  <1>8. Freed'
    <2>1. \A a \in Addresses : Num(a) > 0 => Num(a)' > 0
      BY <1>2, <1>5
    <2> QED
      BY <1>1, <2>1 DEF Before, Sound, Freed, TypeOK
  <1>9. MapNeverThrows'
    BY <1>1 DEF Before, MapNeverThrows
  <1> QED
    BY <1>3, <1>6, <1>7, <1>8, <1>9 DEF After, Sound

\* One holder less, in MapPayloadPool: the memory goes with the last.
LEMMA MapReleaseKeeps ==
  ASSUME Before, TypeOK', NEW x \in Threads \ {"receiver"}, NEW b \in Addresses, Loses(b),
         Release(x, b), Ready(x), Num(b) > 0, b # busy["receiver"], NewestStays, UNCHANGED pool,
         pool = "map"
  PROVE  After
  <1> USE Names
  <1>0. b \in allocated /\ b \in known /\ count[b] = Num(b) /\ Num(b) \in Nat
    BY EnteringNow, NumType DEF Before, Sound, Owned, Counted
  <1>1. /\ ~failed' /\ mutex = NoThread /\ count' = [count EXCEPT ![b] = @ - 1] /\ UNCHANGED known
        /\ IF Num(b) = 1
             THEN Free(b) /\ busy' = [busy EXCEPT ![x] = b] /\ mutex' = x
             ELSE UNCHANGED <<allocated, outstanding, busy, mutex>>
    <2>1. pool # "fast"
      OBVIOUS
    <2>2. failed' = (b \notin known)
      BY <2>1 DEF Release
    <2>3. ~failed'
      BY <1>0, <2>2
    <2>4. LastHolder(count[b] - 1) <=> Num(b) = 1
      BY <1>0 DEF LastHolder
    <2> QED
      BY <2>1, <2>3, <2>4 DEF Release
  <1>2. Num(b)' = Num(b) - 1 /\ \A a \in Addresses \ {b} : Num(a)' = Num(a)
    <2>1. \A a \in Addresses \ {b} : One(a, b) = 0
      BY DEF One
    <2>2. One(b, b) = 1
      BY DEF One
    <2> QED
      BY <2>1, <2>2, NumType DEF Loses, Before
  <1>3. MapOrder /\ Counted /\ Owned /\ Freed /\ TypeOK
    BY DEF Before, Sound
  <1>4. CASE Num(b) = 1
    <2>0. /\ allocated' = allocated \ {b} /\ outstanding' = outstanding - 1
          /\ busy' = [busy EXCEPT ![x] = b] /\ mutex' = x /\ Num(b)' = 0
      BY <1>1, <1>2, <1>4 DEF Free
    <2>1. MapOrder'
      BY <1>1, <1>2, <1>3, <2>0 DEF MapOrder, NewestStays, TypeOK
    <2>2. \A a \in Addresses : Entering(a)' <=> Entering(a)
      BY <1>3, <2>0, <2>1, EnteringNow, EnteringNext DEF TypeOK
    <2>3. Counted'
      BY <1>1, <1>2, <1>3, <2>0, <2>2 DEF Counted, TypeOK
    <2>4. Owned'
      BY <1>1, <1>2, <1>3, <2>0, <2>2 DEF Owned
    <2>5. Freed'
      <3>1. outstanding' = Cardinality(allocated')
        BY <1>0, <1>3, <2>0, AllocatedFinite, FS_RemoveElement DEF Freed
      <3> QED
        BY <1>2, <1>3, <2>0, <3>1, PoolKinds DEF Freed, TypeOK
    <2>6. MapNeverThrows'
      BY <1>1, <1>3, <2>0 DEF Before, MapNeverThrows, TypeOK
    <2> QED
      BY <2>1, <2>3, <2>4, <2>5, <2>6 DEF After, Sound
  <1>5. CASE Num(b) # 1
    <2>0. UNCHANGED <<allocated, outstanding, busy, mutex>> /\ Num(b)' > 0
      BY <1>0, <1>1, <1>2, <1>5
    <2>1. MapOrder'
      BY <1>2, <1>3, <2>0 DEF MapOrder, NewestStays
    <2>2. \A a \in Addresses : Entering(a)' <=> Entering(a)
      BY <2>0 DEF Entering
    <2>3. Counted'
      BY <1>0, <1>1, <1>2, <1>3, <2>0, <2>2 DEF Counted, TypeOK
    <2>4. Owned'
      BY <1>0, <1>1, <1>2, <1>3, <2>0, <2>2 DEF Owned
    <2>5. Freed'
      <3>1. \A a \in Addresses : Num(a) > 0 => Num(a)' > 0
        BY <1>2, <2>0
      <3> QED
        BY <1>3, <2>0, <3>1 DEF Freed, TypeOK
    <2>6. MapNeverThrows'
      BY <1>1, <2>0 DEF Before, MapNeverThrows
    <2> QED
      BY <2>1, <2>3, <2>4, <2>5, <2>6 DEF After, Sound
  <1> QED
    BY <1>4, <1>5

\* One holder less, in FastPayloadPool: whoever was the last looks at the counter again.
LEMMA FastReleaseKeeps ==
  ASSUME Before, TypeOK', NEW x \in Threads \ {"receiver"}, NEW b \in Addresses, Loses(b),
         Release(x, b), Ready(x), Num(b) > 0, UNCHANGED pool, pool = "fast"
  PROVE  After
  <1> USE Names
  <1>1. MapOrder /\ Counted /\ Owned /\ Freed /\ TypeOK
    BY DEF Before, Sound
  <1>2. /\ b \in allocated /\ count[b] = Num(b) /\ Num(b) \in Nat /\ busy[x] = Nothing
        /\ pool # "map" /\ \A a : ~Entering(a) /\ ~Entering(a)'
    BY <1>1, NumType, PoolKinds DEF Owned, Counted, Entering, Ready
  <1>3. /\ count' = [count EXCEPT ![b] = @ - 1] /\ busy' = [busy EXCEPT ![x] = b]
        /\ UNCHANGED <<allocated, mutex, outstanding, known>>
    BY DEF Release
  <1>4. Num(b)' = Num(b) - 1 /\ \A a \in Addresses \ {b} : Num(a)' = Num(a)
    <2>1. \A a \in Addresses \ {b} : One(a, b) = 0
      BY DEF One
    <2>2. One(b, b) = 1
      BY DEF One
    <2> QED
      BY <1>1, <2>1, <2>2, NumType DEF Loses
  <1>5. MapOrder'
    BY <1>1, <1>2, <1>3 DEF MapOrder, TypeOK
  <1>6. Counted'
    BY <1>1, <1>2, <1>3, <1>4 DEF Counted, TypeOK
  <1>7. Owned'
    BY <1>1, <1>2, <1>3, <1>4 DEF Owned
  <1>8. Freed'
    <2>1. ASSUME NEW a \in allocated', ~(Num(a)' > 0) PROVE \E y \in Threads : busy'[y] = a
      <3>1. CASE a = b
        BY <1>1, <1>3, <3>1 DEF TypeOK
      <3>2. CASE a # b
        <4>1. PICK y \in Threads : busy[y] = a
          BY <1>1, <1>3, <1>4, <2>1, <3>2 DEF Freed, TypeOK
        <4>2. y # x
          BY <1>1, <1>2, <1>3, <2>1, <4>1 DEF TypeOK
        <4> QED
          BY <1>1, <1>3, <4>1, <4>2 DEF TypeOK
      <3> QED
        BY <3>1, <3>2
    <2> QED
      BY <1>1, <1>3, <2>1 DEF Freed
  <1>9. MapNeverThrows'
    BY <1>2 DEF MapNeverThrows
  <1> QED
    BY <1>5, <1>6, <1>7, <1>8, <1>9 DEF After, Sound

\* A release, whichever the pool.
LEMMA ReleaseKeeps ==
  ASSUME Before, TypeOK', NEW x \in Threads \ {"receiver"}, NEW b \in Addresses, Loses(b),
         Release(x, b), Ready(x), Num(b) > 0, b # busy["receiver"], NewestStays, UNCHANGED pool
  PROVE  After
  BY PoolKinds, MapReleaseKeeps, FastReleaseKeeps DEF Before

\* The counter is read again: nobody holds a block that it finds at zero.
LEMMA TestKeeps ==
  ASSUME Before, TypeOK', Keeps, NEW x \in Threads, TestCounter(x)
  PROVE  After
  <1> USE Names
  <1>1. MapOrder /\ Counted /\ Owned /\ Freed /\ TypeOK
    BY DEF Before, Sound
  <1>2. PICK b \in Addresses : b = busy[x]
    BY <1>1 DEF TestCounter, TypeOK
  <1>3. /\ pool = "fast" /\ UNCHANGED <<pool, count, known, mutex>> /\ pool # "map"
        /\ failed' = (b \notin allocated) /\ busy' = [busy EXCEPT ![x] = Nothing]
        /\ IF count[b] = 0 THEN Free(b) ELSE UNCHANGED <<allocated, outstanding>>
    BY <1>2 DEF TestCounter, LastHolder, Rest
  <1>4. MapNeverThrows'
    BY <1>3 DEF MapNeverThrows
  <1>5. SUFFICES ASSUME ~failed' PROVE MapOrder' /\ Counted' /\ Owned' /\ Freed'
    BY <1>4 DEF After, Sound
  <1>6. b \in allocated /\ \A a : ~Entering(a) /\ ~Entering(a)'
    BY <1>3, <1>5 DEF Entering
  <1>7. \A a \in Addresses : Num(a)' = Num(a) /\ Num(a) \in Nat
    BY <1>1, NumType DEF Keeps
  <1>8. MapOrder'
    BY <1>1, <1>3 DEF MapOrder, TypeOK
  <1>9. CASE count[b] = 0
    <2>1. allocated' = allocated \ {b} /\ outstanding' = outstanding - 1 /\ Num(b) = 0
      BY <1>1, <1>3, <1>6, <1>9 DEF Free, Counted
    <2>2. Counted'
      BY <1>1, <1>3, <1>6, <1>7, <2>1 DEF Counted, TypeOK
    <2>3. Owned'
      BY <1>1, <1>3, <1>6, <1>7, <2>1 DEF Owned
    <2>4. outstanding' = Cardinality(allocated')
      BY <1>1, <1>6, <2>1, AllocatedFinite, FS_RemoveElement DEF Freed
    <2>5. ASSUME NEW a \in allocated', ~(Num(a)' > 0) PROVE \E y \in Threads : busy'[y] = a
      <3>1. PICK y \in Threads : busy[y] = a
        BY <1>1, <1>7, <2>1, <2>5 DEF Freed, TypeOK
      <3>2. y # x
        BY <1>2, <2>1, <2>5, <3>1
      <3> QED
        BY <1>1, <1>3, <3>1, <3>2 DEF TypeOK
    <2>6. Freed'
      BY <1>3, <2>4, <2>5 DEF Freed
    <2> QED
      BY <1>8, <2>2, <2>3, <2>6
  <1>10. CASE count[b] # 0
    <2>1. UNCHANGED <<allocated, outstanding>> /\ Num(b) > 0
      BY <1>1, <1>3, <1>6, <1>7, <1>10 DEF Counted
    <2>2. Counted'
      BY <1>1, <1>3, <1>6, <1>7, <2>1 DEF Counted, TypeOK
    <2>3. Owned'
      BY <1>1, <1>3, <1>6, <1>7, <2>1 DEF Owned
    <2>4. ASSUME NEW a \in allocated', ~(Num(a)' > 0) PROVE \E y \in Threads : busy'[y] = a
      <3>1. PICK y \in Threads : busy[y] = a
        BY <1>1, <1>7, <2>1, <2>4 DEF Freed, TypeOK
      <3>2. y # x
        BY <1>2, <1>7, <2>1, <2>4, <3>1
      <3> QED
        BY <1>1, <1>3, <3>1, <3>2 DEF TypeOK
    <2>5. Freed'
      BY <1>1, <1>3, <2>1, <2>4 DEF Freed
    <2> QED
      BY <1>8, <2>2, <2>3, <2>5
  <1> QED
    BY <1>9, <1>10

\* The receiver's block enters the map, its one holder counted.
LEMMA InsertKeeps ==
  ASSUME Before, TypeOK', Keeps, NEW x \in Threads, Insert(x)
  PROVE  After
  <1> USE Names
  <1>1. MapOrder /\ Counted /\ Owned /\ Freed /\ TypeOK
    BY DEF Before, Sound
  <1>2. x = "receiver" /\ pool = "map" /\ mutex = NoThread /\ busy[x] # Nothing
    BY <1>1 DEF Insert, MayInsert, MapOrder
  <1>3. PICK b \in Addresses : b = busy["receiver"]
    BY <1>1, <1>2 DEF TypeOK
  <1>4. Num(b) = 1 /\ b \in allocated
    <2>1. Num(b) = 1
      BY <1>1, <1>2, <1>3 DEF MapOrder
    <2> QED
      BY <1>1, <2>1 DEF Owned
  <1>5. /\ known' = known \cup {b} /\ count' = [count EXCEPT ![b] = 1]
        /\ busy' = [busy EXCEPT !["receiver"] = Nothing]
        /\ UNCHANGED <<pool, allocated, mutex, outstanding, failed>>
    BY <1>2, <1>3 DEF Insert, Rest
  <1>6. \A a \in Addresses : Num(a)' = Num(a)
    BY DEF Keeps
  <1>7. MapOrder'
    BY <1>1, <1>2, <1>5 DEF MapOrder, TypeOK
  <1>8. \A a \in Addresses : (Entering(a) <=> a = b) /\ ~Entering(a)'
    BY <1>1, <1>2, <1>3, <1>5, <1>7, EnteringNow, EnteringNext DEF TypeOK
  <1>9. Counted'
    BY <1>1, <1>4, <1>5, <1>6, <1>8 DEF Counted, TypeOK
  <1>10. Owned'
    BY <1>1, <1>4, <1>5, <1>6, <1>8 DEF Owned
  <1>11. Freed'
    BY <1>1, <1>2, <1>5, <1>6, PoolKinds DEF Freed, TypeOK
  <1>12. MapNeverThrows'
    BY <1>2, <1>4, <1>5 DEF Before, MapNeverThrows
  <1> QED
    BY <1>7, <1>9, <1>10, <1>11, <1>12 DEF After, Sound

\* A block leaves the map: when it is in use again, it is the one the receiver waits to insert.
LEMMA EraseKeeps ==
  ASSUME Before, TypeOK', Keeps, NewestStays, NEW x \in Threads, Erase(x)
  PROVE  After
  <1> USE Names
  <1>1. MapOrder /\ Counted /\ Owned /\ Freed /\ TypeOK
    BY DEF Before, Sound
  <1>2. x # "receiver" /\ pool = "map" /\ mutex = x /\ busy[x] # Nothing
    BY <1>1 DEF Erase, MapOrder
  <1>3. PICK b \in Addresses : b = busy[x]
    BY <1>1, <1>2 DEF TypeOK
  <1>4. /\ known' = known \ {b} /\ busy' = [busy EXCEPT ![x] = Nothing] /\ mutex' = NoThread
        /\ UNCHANGED <<pool, allocated, count, outstanding, failed>>
    BY <1>3 DEF Erase, Rest
  <1>5. \A a \in Addresses : Num(a)' = Num(a)
    BY DEF Keeps
  <1>6. MapOrder'
    BY <1>1, <1>2, <1>4, <1>5 DEF MapOrder, NewestStays, TypeOK
  <1>7. \A a \in Addresses : Entering(a)' <=> Entering(a)
    BY <1>1, <1>2, <1>4, <1>6, EnteringNow, EnteringNext DEF TypeOK
  <1>8. b \in allocated => Entering(b)
    BY <1>1, <1>2, <1>3, EnteringNow DEF MapOrder
  <1>9. Counted'
    BY <1>1, <1>4, <1>5, <1>7 DEF Counted, TypeOK
  <1>10. Owned'
    BY <1>1, <1>4, <1>5, <1>7, <1>8 DEF Owned
  <1>11. Freed'
    BY <1>1, <1>2, <1>4, <1>5, PoolKinds DEF Freed, TypeOK
  <1>12. MapNeverThrows'
    BY <1>2, <1>3, <1>4 DEF Before, MapNeverThrows
  <1> QED
    BY <1>6, <1>9, <1>10, <1>11, <1>12 DEF After, Sound

-----------------------------------------------------------------------------
\* A step that leaves the reader's history alone leaves its newest change.
LEMMA UnreadStays == unread' = unread => NewestStays
  BY DEF NewestStays, Newest

\* A change arrives, with a new block.
LEMMA ReceiveKeeps == ASSUME Before, TypeOK', NEW b \in Addresses, Receive(b) PROVE After
  <1>1. /\ Gains(b) /\ GetNew("receiver", b) /\ Ready("receiver") /\ pool' = pool
        /\ unread' = Append(unread, b)
    BY ReceiveGains DEF Before, Receive
  <1>2. Newest(b)'
    <2>1. PICK s \in Seq(Addresses) : s = unread
      BY DEF Before, TypeOK
    <2>2. Append(s, b) # <<>> /\ Append(s, b)[Len(Append(s, b))] = b
      BY AppendProperties, LenProperties
    <2> QED
      BY <1>1, <2>1, <2>2 DEF Newest
  <1> QED
    BY <1>1, <1>2, NewKeeps

\* The data shares the block of a change that waits.
LEMMA TakeSharesKeeps == ASSUME Before, Stages, TypeOK', TakeShares PROVE After
  <1>1. PICK b \in Addresses : b = Head(unread)
    BY HeadOf DEF TakeShares, Before
  <1>2. /\ Gains(b) /\ Share(b) /\ b # busy["receiver"] /\ UNCHANGED <<pool, unread>>
        /\ unread # <<>>
    BY <1>1, TakeGains DEF TakeShares, Arrived, Before
  <1>3. Num(b) > 0
    <2>1. PICK s \in Seq(Addresses) : s = unread
      BY DEF Before, TypeOK
    <2>2. 1 \in DOMAIN s /\ s[1] = b
      BY <1>1, <1>2, <2>1, HeadTailProperties, LenProperties, EmptySeq
    <2>3. PICK i \in DOMAIN s : i = 1
      BY <2>2
    <2>4. Cardinality(Tagged("unread", unread, b)) \in Nat \ {0}
      BY <2>1, <2>2, <2>3, TaggedCounts
    <2>5. /\ Num(b) = Cardinality(Tagged("unread", unread, b))
                        + Cardinality(InHistories(hist, Writers, b)) + One(data, b) + One(change, b)
          /\ Cardinality(InHistories(hist, Writers, b)) \in Nat
      BY HistoriesNow, NumNow, NumSum DEF Before
    <2> QED
      BY <2>4, <2>5 DEF One
  <1> QED
    BY <1>2, <1>3, UnreadStays, ShareKeeps

\* That change goes: it was not the newest, if the newest still waits to enter the map.
LEMMA TakeRemovesKeeps == ASSUME Before, Stages, TypeOK', TakeRemoves PROVE After
  <1>1. PICK b \in Addresses : b = Head(unread) /\ b = data
    BY HeadOf, TakeLoses DEF TakeRemoves, At, Stages, Before
  <1>2. /\ Loses(b) /\ Release("track", b) /\ Ready("track") /\ pool' = pool
        /\ unread # <<>> /\ unread' = Tail(unread)
    BY <1>1, TakeLoses DEF TakeRemoves, At, Before
  <1>3. Num(b) > 0 /\ b # busy["receiver"]
    BY <1>1, SlotHolds, HeldElsewhere DEF Before, Sound
  <1>4. NewestStays
    <2>1. SUFFICES ASSUME NEW a \in Addresses, a # b, Newest(a) PROVE Newest(a)'
      BY <1>3 DEF NewestStays
    <2>2. PICK s \in Seq(Addresses) : s = unread
      BY DEF Before, TypeOK
    <2>3. s # <<>> /\ s[Len(s)] = a /\ s[1] = b /\ Len(s) \in Nat \ {0}
      BY <1>1, <1>2, <2>1, <2>2, HeadTailProperties, LenProperties, EmptySeq DEF Newest
    <2>4. Len(s) > 1
      BY <2>1, <2>3
    <2>5. /\ Len(Tail(s)) = Len(s) - 1 /\ Tail(s)[Len(s) - 1] = s[Len(s)] /\ Tail(s) # <<>>
      <3>1. /\ Len(Tail(s)) = Len(s) - 1 /\ Tail(s) \in Seq(Addresses)
            /\ \A i \in 1..Len(Tail(s)) : Tail(s)[i] = s[i + 1]
        BY <2>3, HeadTailProperties
      <3>2. Len(s) - 1 \in 1..Len(Tail(s)) /\ (Len(s) - 1) + 1 = Len(s)
        BY <2>3, <2>4, <3>1
      <3>3. Tail(s)[Len(s) - 1] = s[Len(s)]
        BY <3>1, <3>2
      <3>4. Tail(s) # <<>>
        BY <2>3, <2>4, <3>1, EmptySeq
      <3> QED
        BY <3>1, <3>3, <3>4
    <2> QED
      BY <1>2, <2>2, <2>3, <2>5 DEF Newest
  <1> QED
    BY <1>2, <1>3, <1>4, Names, ReleaseKeeps

\* The change to write shares the block of the data.
LEMMA WriteSharesKeeps ==
  ASSUME Before, Stages, TypeOK', NEW w \in Writers, WriteShares(w) PROVE After
  <1>1. PICK b \in Addresses : b = data
    BY WriteGains DEF Before
  <1>2. Gains(b) /\ Share(b) /\ UNCHANGED <<pool, unread>>
    BY <1>1, WriteGains DEF WriteShares, Before
  <1>3. Num(b) > 0 /\ b # busy["receiver"]
    BY <1>1, SlotHolds, HeldElsewhere DEF Before, Sound
  <1> QED
    BY <1>2, <1>3, UnreadStays, ShareKeeps

\* The oldest change of a history releases its block, in the thread x that takes it away.
LEMMA OldestKeeps ==
  ASSUME Before, TypeOK', NEW w \in Writers, hist[w] # <<>>, NEW x \in Threads \ {"receiver"},
         Release(x, Head(hist[w])), Loses(Head(hist[w])), Ready(x), UNCHANGED <<pool, unread>>
  PROVE  After
  <1>1. PICK b \in Addresses : b = Head(hist[w])
    BY HeadOf DEF Before
  <1>2. Num(b) > 0 /\ b # busy["receiver"]
    BY <1>1, HistoryHolds, HeldElsewhere DEF Before, Sound
  <1> QED
    BY <1>1, <1>2, UnreadStays, ReleaseKeeps

\* The data releases its block, for RpcBridge or for the destructor.
LEMMA DataKeeps ==
  ASSUME Before, TypeOK', data \in Addresses, data' = Nothing, Release("track", data),
         Ready("track"), UNCHANGED <<pool, unread, change, hist>>
  PROVE  After
  <1>1. PICK b \in Addresses : b = data
    OBVIOUS
  <1>2. Num(b) > 0 /\ b # busy["receiver"]
    BY <1>1, SlotHolds, HeldElsewhere DEF Before, Sound
  <1>3. Loses(b)
    BY <1>1, DataLoses DEF Before
  <1> QED
    BY <1>1, <1>2, <1>3, Names, UnreadStays, ReleaseKeeps

\* Every action keeps the blocks counted, owned and freed.
LEMMA BlocksStep == Before /\ Stages /\ TypeOK' /\ [Next]_vars => After
  <1> SUFFICES ASSUME Before, Stages, TypeOK', [Next]_vars PROVE After
    OBVIOUS
  <1>1. ASSUME NEW b \in Addresses, Receive(b) PROVE After
    BY <1>1, ReceiveKeeps
  <1>2. CASE TakeShares
    BY <1>2, TakeSharesKeeps
  <1>3. CASE TakeRemoves
    BY <1>3, TakeRemovesKeeps
  <1>4. ASSUME NEW w \in Writers, WriteSkips(w) PROVE After
    BY <1>4, KeepsAll, UnreadStays, IdleKeeps DEF WriteSkips
  <1>5. ASSUME NEW w \in Writers, WriteShares(w) PROVE After
    BY <1>5, WriteSharesKeeps
  <1>6. ASSUME NEW w \in Writers, MakeRoom(w) PROVE After
    BY <1>6, Names, RoomLoses, OldestKeeps DEF MakeRoom, At, Before, trackVars
  <1>7. ASSUME NEW w \in Writers, AddChange(w) PROVE After
    BY <1>7, AddKeeps, UnreadStays, IdleKeeps DEF AddChange, Before
  <1>8. CASE ServiceReleases
    <2>1. data \in Addresses
      BY <1>8 DEF ServiceReleases, At, Stages, Before, TypeOK
    <2> QED
      BY <1>8, <2>1, DataKeeps DEF ServiceReleases, At, AfterRelease
  <1>9. CASE TrackIsDone
    BY <1>9, KeepsAll, UnreadStays, IdleKeeps DEF TrackIsDone
  <1>10. CASE DestroyReleases
    <2>1. data \in Addresses
      BY <1>10 DEF DestroyReleases, Before, TypeOK
    <2> QED
      BY <1>10, <2>1, DataKeeps DEF DestroyReleases, At
  <1>11. CASE DestroyEmpty
    <2>1. data = Nothing
      BY <1>11 DEF DestroyEmpty, HasOwner
    <2> QED
      BY <1>11, <2>1, KeepsAll, UnreadStays, IdleKeeps DEF DestroyEmpty
  <1>12. ASSUME NEW w \in Writers, Acknowledged(w) PROVE After
    BY <1>12, Names, AcknowledgedLoses, OldestKeeps DEF Acknowledged, Before, trackVars
  <1>13. ASSUME NEW x \in Threads, TestCounter(x) PROVE After
    BY <1>13, KeepsAll, TestKeeps DEF TestCounter, Rest, trackVars
  <1>14. ASSUME NEW x \in Threads, Insert(x) PROVE After
    BY <1>14, KeepsAll, InsertKeeps DEF Insert, Rest, trackVars
  <1>15. ASSUME NEW x \in Threads, Erase(x) PROVE After
    BY <1>15, KeepsAll, UnreadStays, EraseKeeps DEF Erase, Rest, trackVars
  <1>16. CASE UNCHANGED vars
    BY <1>16, KeepsAll, UnreadStays, IdleKeeps DEF vars, trackVars
  <1> QED
    BY <1>1, <1>2, <1>3, <1>4, <1>5, <1>6, <1>7, <1>8, <1>9, <1>10, <1>11, <1>12,
       <1>13, <1>14, <1>15, <1>16 DEF Next, TrackStep, PoolStep

-----------------------------------------------------------------------------
\* A pool that was just made has no block, and nobody holds one.
LEMMA IInvInit == Init => IInv
  <1> SUFFICES ASSUME Init PROVE IInv
    OBVIOUS
  <1> USE Names
  <1>1. TypeOK
    <2>1. \A w \in Writers : hist[w] = <<>> /\ Len(hist[w]) = 0
      BY DEF Init
    <2>2. <<>> \in Seq(Addresses) /\ 0 <= Depth
      BY EmptySeq, PoolAssumption
    <2>3. PoolType
      <3>1. failed \in BOOLEAN
        BY DEF Init
      <3>2. count \in [Addresses -> Int] /\ busy \in [Threads -> Addresses \cup {Nothing}]
        BY DEF Init
      <3> QED
        BY <3>1, <3>2 DEF Init, PoolType
    <2>4. hist \in Histories
      BY <2>1, <2>2 DEF Init, Histories
    <2>5. HolderType
      BY <2>2, <2>4 DEF Init, HolderType
    <2> QED
      BY <2>3, <2>5, TypeHalves
  <1>2. \A a \in Addresses : Num(a) = 0
    <2>1. ASSUME NEW a \in Addresses PROVE Holders(a) = {}
      <3>1. unread = <<>> /\ \A w \in Writers : hist[w] = <<>>
        BY DEF Init
      <3>2. data # a /\ change # a
        BY DEF Init
      <3> QED
        BY <3>1, <3>2 DEF Holders
    <2> QED
      BY <2>1, FS_EmptySet DEF Num
  <1>3. Stages /\ MapNeverThrows
    BY DEF Init, Stages, MapNeverThrows
  <1>4. MapOrder
    BY DEF Init, MapOrder
  <1>5. Counted /\ Owned /\ Freed
    BY <1>2, FS_EmptySet DEF Init, Counted, Owned, Freed
  <1> QED
    BY <1>1, <1>3, <1>4, <1>5 DEF IInv, Sound

\* The invariant is inductive.
LEMMA IInvStep == IInv /\ [Next]_vars => IInv'
  <1> SUFFICES ASSUME IInv, [Next]_vars PROVE IInv'
    OBVIOUS
  <1>1. TypeOK /\ Stages /\ MapNeverThrows
    BY DEF IInv
  <1>2. TypeOK' /\ Stages'
    BY <1>1, PoolTypeStep, HolderTypeStep, TypeHalvesNext, StagesStep
  <1>3. CASE ~failed
    BY <1>1, <1>2, <1>3, BlocksStep DEF IInv, Before, After
  <1>4. CASE failed
    <2>1. UNCHANGED <<pool, failed, known, allocated, mutex, busy>>
      BY <1>4 DEF Next, vars, poolVars
    <2>2. MapNeverThrows'
      BY <1>1, <2>1 DEF MapNeverThrows
    <2> QED
      BY <1>2, <1>4, <2>1, <2>2 DEF IInv
  <1> QED
    BY <1>3, <1>4

\* A block has holders when they are not none.
LEMMA NumPositive == TypeOK => \A a \in Addresses : Holders(a) # {} <=> Num(a) > 0
  <1> SUFFICES ASSUME TypeOK, NEW a \in Addresses PROVE Holders(a) # {} <=> Num(a) > 0
    OBVIOUS
  <1>1. Holders(a) = HoldersOf(unread, hist, data, change, a)
    BY DEF Holders, HoldersOf, InHistories, InSlot, Tagged
  <1>2. IsFiniteSet(Holders(a))
    BY <1>1, HistoriesNow, NumSum
  <1>3. Num(a) \in Nat /\ (Num(a) = 0 <=> Holders(a) = {})
    BY <1>2, FS_EmptySet, FS_CardinalityType DEF Num
  <1> QED
    BY <1>3

\* What the invariant says in the words of the properties.
LEMMA IInvImplies ==
  IInv => TypeOK /\ CountsHolders /\ HoldersOwnTheirBlock /\ NothingLeaks /\ MapNeverThrows
  <1> SUFFICES ASSUME IInv
               PROVE  /\ TypeOK /\ CountsHolders /\ HoldersOwnTheirBlock
                      /\ NothingLeaks /\ MapNeverThrows
    OBVIOUS
  <1>1. TypeOK /\ MapNeverThrows /\ allocated \subseteq Addresses
    BY DEF IInv, TypeOK
  <1>2. CountsHolders
    BY <1>1 DEF IInv, Sound, Counted, CountsHolders, Num
  <1>3. HoldersOwnTheirBlock
    BY <1>1, NumPositive DEF IInv, Sound, Owned, HoldersOwnTheirBlock
  <1>4. NothingLeaks
    BY <1>1, NumPositive DEF IInv, Sound, Freed, NothingLeaks
  <1> QED
    BY <1>1, <1>2, <1>3, <1>4

\* The strengthened invariant holds in every state that can be reached.
THEOREM Invariant == Spec => []IInv
  <1> QED
    BY IInvInit, IInvStep, PTL DEF Spec

\* CountsHolders, HoldersOwnTheirBlock, NothingLeaks and MapNeverThrows of PayloadPool,
\* and its types, hold in every such state.
THEOREM PoolIsSound ==
  Spec => [](TypeOK /\ CountsHolders /\ HoldersOwnTheirBlock /\ NothingLeaks /\ MapNeverThrows)
  <1> QED
    BY Invariant, IInvImplies, PTL

\* The counter of a block is the number of its holders, in MapPayloadPool always and in
\* FastPayloadPool until memory that is not allocated is touched.
THEOREM CountersAreHolders == Spec => []CountsHolders
  <1> QED
    BY PoolIsSound, PTL

\* No holder is left with a block that was freed or that its pool does not know.
THEOREM HoldersKeepTheirBlock == Spec => []HoldersOwnTheirBlock
  <1> QED
    BY PoolIsSound, PTL

\* No block is forgotten: what nobody holds is free or about to be freed.
THEOREM NoBlockLeaks == Spec => []NothingLeaks
  <1> QED
    BY PoolIsSound, PTL

\* MapPayloadPool never throws an InconsistencyException on what its users do.
THEOREM MapPoolNeverThrows == Spec => []MapNeverThrows
  <1> QED
    BY PoolIsSound, PTL
=============================================================================
