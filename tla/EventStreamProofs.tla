-------------------------- MODULE EventStreamProofs --------------------------
(***************************************************************************)
(* The event stream reads the journal and writes nothing to it: what is    *)
(* proved of the journal holds while clients follow it.  And what clients  *)
(* receive, over any number of connections, is the journal in its order.   *)
(***************************************************************************)
EXTENDS EventStream, JournalProofs, SequenceTheorems

(* A stream, its reconnects and its broken connections are no steps of the *)
(* journal (api.py, _stream_events).                                       *)
THEOREM StreamsOnlyRead == StreamSpec => Spec
<1>1. StreamInit => Init
  BY DEF StreamInit
<1>2. [StreamNext]_streamVars => [Next]_vars
  BY DEF StreamNext, StreamStep, StreamBatch, StreamStatus, Receive, Reconnect, Drop, streamVars
<1> QED BY <1>1, <1>2, PTL DEF StreamSpec, Spec

(* So verification is sound, and its refusals are explained, with clients  *)
(* attached.                                                               *)
THEOREM StreamedJournal == StreamSpec => []AcceptedJournalsWereWritten /\ []FalseAlarmsNeedARace
  BY StreamsOnlyRead, VerificationIsSound, RefusalsAreExplained, PTL

------------------------------------------------------------------------------
(* The order of list_events.                                               *)
Sorted(s) == \A i, j \in DOMAIN s : i < j => s[i] < s[j]

(* A finite set of numbers has its members in order: each at the place     *)
(* that is its rank.                                                       *)
LEMMA AscendingSorts ==
  ASSUME NEW S \in SUBSET Nat, IsFiniteSet(S)
  PROVE  /\ Cardinality(S) \in Nat
         /\ Ascending(S) \in [1..Cardinality(S) -> S] /\ Sorted(Ascending(S))
<1> DEFINE k == Cardinality(S)
           Upto(n) == {m \in S : m <= n}
           rank == [n \in S |-> Cardinality(Upto(n))]
<1>1. k \in Nat
  BY FS_CardinalityType
<1>0. \A x, y \in S : /\ x \in Nat
                      /\ x < y \/ x = y \/ y < x
                      /\ x <= x /\ ~(x < x)
                      /\ x < y => ~(y <= x) /\ ~(y < x) /\ \A z \in S : z <= x => z <= y
  OBVIOUS
<1>2. \A n \in S : /\ IsFiniteSet(Upto(n)) /\ Cardinality(Upto(n)) \in 1..k
  <2> SUFFICES ASSUME NEW n \in S
               PROVE  IsFiniteSet(Upto(n)) /\ Cardinality(Upto(n)) \in 1..k
    OBVIOUS
  <2>1. Upto(n) \in SUBSET S /\ n \in Upto(n)
    BY <1>0
  <2> HIDE DEF Upto
  <2>2. IsFiniteSet(Upto(n)) /\ Cardinality(Upto(n)) <= k
    BY <2>1, FS_Subset
  <2>3. Cardinality(Upto(n)) \in Nat /\ Cardinality(Upto(n)) # 0
    BY <2>1, <2>2, FS_CardinalityType, FS_EmptySet
  <2> QED BY <1>1, <2>2, <2>3
<1>3. \A m, n \in S : m < n => Cardinality(Upto(m)) < Cardinality(Upto(n))
  <2> SUFFICES ASSUME NEW m \in S, NEW n \in S, m < n
               PROVE  Cardinality(Upto(m)) < Cardinality(Upto(n))
    OBVIOUS
  <2>4. \A z \in Upto(m) : z \in Upto(n)
    BY <1>0
  <2>5. n \in Upto(n)
    BY <1>0
  <2>6. n \notin Upto(m)
    BY <1>0
  <2>1. Upto(m) \in SUBSET Upto(n) /\ n \in Upto(n) /\ n \notin Upto(m)
    BY <2>4, <2>5, <2>6
  <2>2. IsFiniteSet(Upto(n)) /\ Cardinality(Upto(m)) \in Nat /\ Cardinality(Upto(n)) \in Nat
    BY <1>2
  <2> HIDE DEF Upto
  <2>3. /\ Cardinality(Upto(m)) <= Cardinality(Upto(n))
        /\ Cardinality(Upto(n)) = Cardinality(Upto(m)) => Upto(n) = Upto(m)
    BY <2>1, <2>2, FS_Subset
  <2> QED BY <2>1, <2>2, <2>3
<1>4. rank \in Injection(S, 1..k)
  <2>1. rank \in [S -> 1..k]
    BY <1>2
  <2>2. \A m, n \in S : rank[m] = rank[n] => m = n
    <3> SUFFICES ASSUME NEW m \in S, NEW n \in S, m # n
                 PROVE  rank[m] # rank[n]
      OBVIOUS
    <3>1. m < n \/ n < m
      BY <1>0
    <3>2. Cardinality(Upto(m)) \in Nat /\ Cardinality(Upto(n)) \in Nat
      BY <1>2
    <3>3. Cardinality(Upto(m)) # Cardinality(Upto(n))
      BY <1>3, <3>1, <3>2
    <3> QED BY <3>3
  <2> HIDE DEF rank
  <2> QED BY <2>1, <2>2 DEF Injection, IsInjective
<1>5. rank \in Surjection(S, 1..k)
  <2>1. IsFiniteSet(1..k) /\ Cardinality(1..k) = k
    BY <1>1, FS_Interval
  <2> HIDE DEF rank
  <2> QED BY <1>4, <2>1, FS_Injection
<1> DEFINE s == [i \in 1..k |-> CHOOSE n \in S : rank[n] = i]
<1>6. \A i \in 1..k : s[i] \in S /\ rank[s[i]] = i
  <2> HIDE DEF rank
  <2> QED BY <1>5 DEF Surjection
<1>7. \A i, j \in DOMAIN s : i < j => s[i] < s[j]
  <2> SUFFICES ASSUME NEW i \in 1..k, NEW j \in 1..k, i < j
               PROVE  s[i] < s[j]
    BY Zenon
  <2>1. s[i] \in S /\ s[j] \in S /\ Cardinality(Upto(s[i])) = i /\ Cardinality(Upto(s[j])) = j
    BY <1>6
  <2> HIDE DEF s, Upto
  <2>2. s[i] < s[j] \/ s[i] = s[j] \/ s[j] < s[i]
    BY <1>0, <2>1
  <2>3. i \in Nat /\ j \in Nat /\ i # j /\ ~(j < i)
    BY <1>1
  <2>4. s[i] # s[j]
    BY <2>1, <2>3
  <2>5. ~(s[j] < s[i])
    BY <1>3, <2>1, <2>3
  <2> QED BY <2>2, <2>4, <2>5
<1>8. s \in [1..k -> S]
  BY <1>6
<1> HIDE DEF s, rank, Upto
<1>9. \E q \in [1..k -> S] : \A i, j \in DOMAIN q : i < j => q[i] < q[j]
  BY <1>7, <1>8
<1> QED BY <1>1, <1>9 DEF Ascending, Sorted

(* The members of an interval are where they have to be.                   *)
LEMMA AscendingInterval ==
  ASSUME NEW a \in Nat, NEW b \in Nat, a <= b
  PROVE  /\ Cardinality(a+1..b) = b - a
         /\ \A i \in 1..b-a : Ascending(a+1..b)[i] = a + i
<1> DEFINE S == a+1..b
           k == b - a
           s == Ascending(S)
<1>1. S \in SUBSET Nat /\ IsFiniteSet(S) /\ Cardinality(S) = k /\ k \in Nat
  <2>1. a + 1 \in Int /\ b \in Int /\ k \in Nat
    OBVIOUS
  <2>2. IsFiniteSet(S) /\ Cardinality(S) = IF a + 1 > b THEN 0 ELSE b - (a + 1) + 1
    <3> HIDE DEF S, k
    <3>1. a + 1 \in Int /\ b \in Int
      BY <2>1
    <3> QED BY <3>1, FS_Interval DEF S
  <2>4. k = IF a + 1 > b THEN 0 ELSE b - (a + 1) + 1
    OBVIOUS
  <2>3. IsFiniteSet(S) /\ Cardinality(S) = k
    BY <2>2, <2>4
  <2> QED BY <2>1, <2>3
<1>2. /\ s \in [1..k -> S] /\ Sorted(s)
  BY <1>1, AscendingSorts
<1> HIDE DEF s
<1>3. \A i \in 1..k : s[i] \in Nat /\ a + 1 <= s[i] /\ s[i] <= b /\ i \in Nat
  BY <1>2
<1>4. \A i \in 1..k : i + 1 \in 1..k => s[i] < s[i + 1]
  BY <1>2 DEF Sorted
<1>5. \A i \in 1..k : s[i] >= a + i
  <2> DEFINE T == {i \in 1..k : s[i] < a + i}
  <2> SUFFICES ASSUME T # {} PROVE FALSE
    BY <1>3
  <2>1. PICK i \in T : \A j \in T : i <= j
    <3>1. T \in SUBSET Nat
      OBVIOUS
    <3> HIDE DEF T
    <3> QED BY <3>1, LeastElement
  <2>2. i \in 1..k /\ s[i] < a + i /\ i # 1
    BY <1>3
  <2>3. i - 1 \in 1..k /\ (i - 1) + 1 = i /\ i - 1 \notin T
    BY <2>1, <2>2
  <2>4. s[i - 1] >= a + (i - 1) /\ s[i - 1] < s[i]
    BY <1>3, <1>4, <2>2, <2>3
  <2> QED BY <1>3, <2>2, <2>3, <2>4
<1>6. \A i \in 1..k : s[i] <= a + i
  <2> DEFINE T == {d \in 0..k-1 : s[k - d] > a + (k - d)}
  <2>1. CASE T = {}
    <3> SUFFICES ASSUME NEW i \in 1..k
                 PROVE  s[i] <= a + i
      OBVIOUS
    <3>1. k - i \in 0..k-1 /\ k - (k - i) = i
      BY <1>1
    <3>2. \A d \in 0..k-1 : ~(s[k - d] > a + (k - d))
      BY <2>1
    <3>3. ~(s[i] > a + i)
      <4> HIDE DEF T, k
      <4> QED BY <3>1, <3>2
    <3> QED BY <1>3, <3>3
  <2>2. CASE T # {}
    <3>1. PICK d \in T : \A j \in T : d <= j
      <4>1. T \in SUBSET Nat
        BY <1>1
      <4> HIDE DEF T
      <4> QED BY <2>2, <4>1, LeastElement
    <3>2. d \in 0..k-1 /\ s[k - d] > a + (k - d) /\ k - d \in 1..k
      BY <1>1
    <3>3. d # 0
      BY <1>1, <1>3, <3>2
    <3>4. d - 1 \in 0..k-1 /\ k - (d - 1) = (k - d) + 1 /\ (k - d) + 1 \in 1..k /\ d - 1 \notin T
      BY <1>1, <3>1, <3>2, <3>3
    <3>5. s[(k - d) + 1] <= a + ((k - d) + 1) /\ s[k - d] < s[(k - d) + 1]
      BY <1>3, <1>4, <3>2, <3>4
    <3> QED BY <1>1, <1>3, <3>2, <3>4, <3>5
  <2> QED BY <2>1, <2>2
<1>7. \A i \in 1..k : s[i] = a + i
  BY <1>3, <1>5, <1>6
<1> QED BY <1>1, <1>7 DEF s

------------------------------------------------------------------------------
(* What a client has and what is on its way to it.                         *)
Due == got \o pipe

(* The cursor of a connection is never behind what was sent; without       *)
(* damage everything up to it was sent, unless the connection broke.       *)
StreamTypes ==
  /\ server \in [pc: {"read", "status", "closed"}, cursor: Nat]
  /\ got \in Seq(Nat) /\ pipe \in Seq(Nat)

InOrder ==
  /\ StreamTypes /\ Sorted(Due)
  /\ \A i \in DOMAIN Due : Due[i] <= server.cursor

Gapless ==
  damage = 0 =>
    /\ \A i \in DOMAIN Due : Due[i] = i
    /\ server.pc # "closed" => server.cursor = Len(Due)

(* Rows in order after what was sent.                                      *)
LEMMA SortedFollows ==
  ASSUME NEW s \in Seq(Nat), NEW b \in Seq(Nat), NEW c \in Nat, Sorted(s), Sorted(b),
         \A i \in DOMAIN s : s[i] <= c, \A i \in DOMAIN b : c < b[i]
  PROVE  /\ s \o b \in Seq(Nat) /\ Sorted(s \o b) /\ LastOr(b, c) \in Nat
         /\ \A i \in DOMAIN (s \o b) : (s \o b)[i] <= LastOr(b, c)
<1> DEFINE q == s \o b
           m == Len(s)
           n == Len(b)
<1>1. /\ q \in Seq(Nat) /\ m \in Nat /\ n \in Nat /\ Len(q) = m + n
      /\ DOMAIN q = 1..m+n /\ DOMAIN s = 1..m /\ DOMAIN b = 1..n
      /\ \A i \in 1..m : s[i] \in Nat /\ \A j \in 1..n : b[j] \in Nat
  BY ConcatProperties, LenProperties, ElementOfSeq
<1>2. \A i \in 1..m+n : /\ i <= m => i \in 1..m /\ q[i] = s[i]
                        /\ ~(i <= m) => i - m \in 1..n /\ q[i] = b[i - m]
  BY <1>1, ConcatProperties
<1>0. \A j \in 1..n : b[j] \in Nat
  BY ElementOfSeq
<1>8. \A i \in 1..m : s[i] \in Nat
  BY ElementOfSeq
<1> HIDE DEF q, m, n
<1>3. Sorted(q)
  <2> SUFFICES ASSUME NEW i \in 1..m+n, NEW j \in 1..m+n, i < j
               PROVE  q[i] < q[j]
    BY <1>1 DEF Sorted
  <2>1. CASE j <= m
    <3>1. i <= m
      BY <1>1, <2>1
    <3> QED BY <1>1, <1>2, <2>1, <3>1 DEF Sorted
  <2>2. CASE i <= m /\ ~(j <= m)
    <3>1. q[i] <= c /\ c < q[j] /\ q[i] \in Nat /\ q[j] \in Nat
      BY <1>0, <1>1, <1>2, <1>8, <2>2
    <3> QED BY <3>1
  <2>3. CASE ~(i <= m)
    <3>1. ~(j <= m) /\ i - m < j - m
      BY <1>1, <2>3
    <3> QED BY <1>1, <1>2, <2>3, <3>1 DEF Sorted
  <2> QED BY <2>1, <2>2, <2>3
<1>4. CASE b = <<>>
  <2>1. LastOr(b, c) = c /\ n = 0
    BY <1>4 DEF LastOr, n
  <2>2. \A i \in 1..m+n : i <= m
    BY <1>1, <2>1
  <2> QED BY <1>1, <1>2, <1>3, <2>1, <2>2 DEF q
<1>5. CASE b # <<>>
  <2>1. LastOr(b, c) = b[n] /\ n \in 1..n
    BY <1>1, <1>5, EmptySeq DEF LastOr, n
  <2>2. \A j \in 1..n : b[j] <= b[n]
    <3> SUFFICES ASSUME NEW j \in 1..n, j # n PROVE b[j] <= b[n]
      BY <1>0
    <3>1. j < n
      BY <1>1
    <3>2. b[j] < b[n]
      BY <1>1, <2>1, <3>1 DEF Sorted
    <3> QED BY <1>0, <2>1, <3>2
  <2>3. c < b[n] /\ b[n] \in Nat
    BY <1>0, <1>1, <2>1
  <2>4. ASSUME NEW i \in 1..m+n PROVE q[i] <= b[n]
    <3>1. CASE i <= m
      <4>1. q[i] \in Nat /\ q[i] <= c
        BY <1>1, <1>2, <1>8, <3>1
      <4> QED BY <2>3, <4>1
    <3>2. CASE ~(i <= m)
      BY <1>2, <2>2, <3>2
    <3> QED BY <3>1, <3>2
  <2> QED BY <1>1, <1>3, <2>1, <2>3, <2>4 DEF q
<1> QED BY <1>4, <1>5

(* What list_events returns, in its order.                                 *)
LEMMA BatchFollows ==
  ASSUME Types, NEW c \in Nat
  PROVE  LET batch == Ascending(DOMAIN Listed(c, BatchLimit)) IN
         /\ batch \in Seq(Nat) /\ Sorted(batch)
         /\ \A i \in DOMAIN batch : c < batch[i]
<1> DEFINE S == DOMAIN Listed(c, BatchLimit)
           batch == Ascending(S)
<1>1. S \in SUBSET DOMAIN events /\ \A i \in S : c < i
  <2>1. \A i \in DOMAIN events : i \in Nat
    BY NewestBounds
  <2> QED BY <2>1 DEF Listed
<1>2. S \in SUBSET Nat /\ IsFiniteSet(S)
  <2>1. S \in SUBSET Seqs /\ Seqs \in SUBSET Nat
    BY <1>1, NewestBounds DEF Seqs
  <2>2. IsFiniteSet(Seqs)
    BY FS_Interval, JournalAssumption DEF JournalAssumption, Seqs
  <2> QED BY <2>1, <2>2, FS_Subset
<1> HIDE DEF S
<1>3. /\ Cardinality(S) \in Nat
      /\ batch \in [1..Cardinality(S) -> S] /\ Sorted(batch)
  BY <1>2, AscendingSorts
<1> HIDE DEF batch
<1>4. \A i \in DOMAIN batch : batch[i] \in S
  BY <1>3
<1>5. batch \in Seq(Nat)
  <2>1. batch \in [1..Cardinality(S) -> Nat]
    BY <1>2, <1>3
  <2> QED BY <1>3, <2>1, SeqDef
<1> QED BY <1>1, <1>3, <1>4, <1>5 DEF batch, S

LEMMA BatchGapless ==
  ASSUME Types, Sound, NEW c \in Nat
  PROVE  LET batch == Ascending(DOMAIN Listed(c, BatchLimit)) IN
         \A i \in DOMAIN batch : batch[i] = c + i
<1> DEFINE N == Newest(events)
           S == DOMAIN Listed(c, BatchLimit)
           top == IF N <= c + BatchLimit THEN N ELSE c + BatchLimit
<1>1. N \in Nat /\ DOMAIN events = 1..N /\ BatchLimit \in Nat \ {0}
  BY NewestBounds, StreamAssumption DEF StreamAssumption, Sound, Chained
<1> HIDE DEF N
<1>2. S = {i \in 1..N : i > c /\ Cardinality({m \in 1..N : c < m /\ m <= i}) <= BatchLimit}
  BY <1>1 DEF Listed
<1>3. \A i \in 1..N : i > c => Cardinality({m \in 1..N : c < m /\ m <= i}) = i - c
  <2> SUFFICES ASSUME NEW i \in 1..N, i > c
               PROVE  Cardinality({m \in 1..N : c < m /\ m <= i}) = i - c
    OBVIOUS
  <2>1. {m \in 1..N : c < m /\ m <= i} = c+1..i
    BY <1>1
  <2>2. i \in Nat /\ c <= i
    BY <1>1
  <2> QED BY <2>1, <2>2, AscendingInterval
<1>4. \A i : i \in S <=> i \in 1..N /\ i > c /\ i - c <= BatchLimit
  BY <1>2, <1>3
<1> HIDE DEF S
<1>5. CASE N <= c
  <2>1. S = {}
    BY <1>1, <1>4, <1>5
  <2>2. Ascending(S) \in [1..0 -> S]
    BY <2>1, AscendingSorts, FS_EmptySet
  <2>3. DOMAIN Ascending(S) = {}
    BY <2>2
  <2> QED BY <2>3 DEF S
<1>6. CASE ~(N <= c)
  <2>1. top \in Nat /\ c <= top /\ \A i : i \in S <=> i \in c+1..top
    BY <1>1, <1>4, <1>6
  <2> HIDE DEF top
  <2>2. S = c+1..top
    BY <2>1
  <2>3. Cardinality(S) = top - c /\ \A i \in 1..top-c : Ascending(S)[i] = c + i
    BY <2>1, <2>2, AscendingInterval
  <2>4. S \in SUBSET Nat /\ IsFiniteSet(S)
    BY <2>1, <2>2, FS_Interval
  <2>5. DOMAIN Ascending(S) = 1..top-c
    BY <2>3, <2>4, AscendingSorts
  <2> QED BY <2>3, <2>5 DEF S
<1> QED BY <1>5, <1>6

(* A batch is sent.                                                        *)
LEMMA BatchKeeps ==
  ASSUME Types, Undamaged, InOrder, Gapless, StreamBatch
  PROVE  InOrder' /\ Gapless'
<1> DEFINE c == server.cursor
           batch == Ascending(DOMAIN Listed(c, BatchLimit))
<1>1. /\ pipe' = pipe \o batch /\ got' = got /\ damage' = damage /\ server.pc = "read"
      /\ server' = [server EXCEPT !.pc = "status", !.cursor = LastOr(batch, c)]
  BY DEF StreamBatch, vars
<1>2. c \in Nat /\ pipe \in Seq(Nat) /\ got \in Seq(Nat) /\ Due \in Seq(Nat)
      /\ server \in [pc: {"read", "status", "closed"}, cursor: Nat]
  BY ConcatProperties DEF InOrder, StreamTypes, Due
<1>3. /\ batch \in Seq(Nat) /\ Sorted(batch)
      /\ \A i \in DOMAIN batch : c < batch[i]
  BY <1>2, BatchFollows
<1>4. Sound => \A i \in DOMAIN batch : batch[i] = c + i
  BY <1>2, BatchGapless
<1>5. Sorted(Due) /\ \A i \in DOMAIN Due : Due[i] <= c
  BY DEF InOrder
<1> HIDE DEF batch, c
<1>6. Due' = Due \o batch /\ pipe' \in Seq(Nat)
  <2>1. pipe \o batch \in Seq(Nat) /\ (got \o pipe) \o batch = got \o (pipe \o batch)
    <3>1. pipe \o batch \in Seq(Nat)
      BY <1>2, <1>3, ConcatProperties
    <3>2. (got \o pipe) \o batch = got \o (pipe \o batch)
      <4>1. \A s, t, u \in Seq(Nat) : (s \o t) \o u = s \o (t \o u)
        BY ConcatAssociative
      <4> QED BY <1>2, <1>3, <4>1, Zenon
    <3> QED BY <3>1, <3>2
  <2>2. Due' = got \o (pipe \o batch)
    BY <1>1 DEF Due
  <2> QED BY <1>1, <2>1, <2>2 DEF Due
<1>7. /\ Sorted(Due)' /\ LastOr(batch, c) \in Nat
      /\ \A i \in DOMAIN Due' : Due'[i] <= LastOr(batch, c)
  BY <1>2, <1>3, <1>5, <1>6, SortedFollows DEF Sorted
<1>8. server' \in [pc: {"read", "status", "closed"}, cursor: Nat]
      /\ server'.cursor = LastOr(batch, c) /\ server'.pc = "status"
  BY <1>1, <1>2, <1>7
<1>9. InOrder'
  BY <1>1, <1>2, <1>6, <1>7, <1>8 DEF InOrder, StreamTypes
<1>10. ASSUME damage = 0
       PROVE  /\ \A i \in DOMAIN Due' : Due'[i] = i
              /\ LastOr(batch, c) = Len(Due')
  <2>1. /\ c = Len(Due) /\ \A i \in DOMAIN Due : Due[i] = i
        /\ \A i \in DOMAIN batch : batch[i] = c + i
    BY <1>1, <1>4, <1>10 DEF Gapless, Undamaged, c
  <2>2. /\ Len(Due) \in Nat /\ Len(batch) \in Nat /\ DOMAIN batch = 1..Len(batch)
        /\ DOMAIN Due = 1..Len(Due)
        /\ Len(Due') = Len(Due) + Len(batch) /\ DOMAIN Due' = 1..Len(Due) + Len(batch)
        /\ \A i \in 1..Len(Due) + Len(batch) :
             Due'[i] = IF i <= Len(Due) THEN Due[i] ELSE batch[i - Len(Due)]
    BY <1>2, <1>3, <1>6, ConcatProperties, LenProperties
  <2>3. ASSUME NEW i \in 1..Len(Due) + Len(batch) PROVE Due'[i] = i
    <3>1. CASE i <= Len(Due)
      BY <2>1, <2>2, <3>1
    <3>2. CASE ~(i <= Len(Due))
      <4>1. i - Len(Due) \in 1..Len(batch) /\ Len(Due) + (i - Len(Due)) = i
        BY <2>2, <3>2
      <4> QED BY <2>1, <2>2, <3>2, <4>1
    <3> QED BY <3>1, <3>2
  <2>4. LastOr(batch, c) = Len(Due) + Len(batch)
    <3>1. CASE batch = <<>>
      BY <2>1, <2>2, <3>1 DEF LastOr
    <3>2. CASE batch # <<>>
      <4>1. Len(batch) \in 1..Len(batch)
        BY <1>3, <2>2, <3>2, EmptySeq
      <4> QED BY <2>1, <2>2, <3>2, <4>1 DEF LastOr
    <3> QED BY <3>1, <3>2
  <2> QED BY <2>2, <2>3, <2>4
<1>11. Gapless'
  BY <1>1, <1>8, <1>10 DEF Gapless
<1> QED BY <1>9, <1>11

(* The last event a client has is its greatest.                            *)
LEMMA LastIsGreatest ==
  ASSUME NEW s \in Seq(Nat), Sorted(s)
  PROVE  /\ LastOr(s, 0) \in Nat /\ \A i \in DOMAIN s : s[i] <= LastOr(s, 0)
         /\ (\A i \in DOMAIN s : s[i] = i) => LastOr(s, 0) = Len(s)
<1>1. Len(s) \in Nat /\ DOMAIN s = 1..Len(s)
  BY LenProperties
<1>2. \A i \in 1..Len(s) : s[i] \in Nat
  BY ElementOfSeq
<1>3. CASE s = <<>>
  BY <1>1, <1>3 DEF LastOr
<1>4. CASE s # <<>>
  <2>1. Len(s) \in 1..Len(s) /\ LastOr(s, 0) = s[Len(s)]
    BY <1>1, <1>4, EmptySeq DEF LastOr
  <2>2. ASSUME NEW i \in 1..Len(s) PROVE s[i] <= s[Len(s)]
    <3>1. CASE i = Len(s)
      BY <1>2, <2>1, <3>1
    <3>2. CASE i < Len(s)
      <4>1. s[i] < s[Len(s)]
        BY <1>1, <2>1, <3>2 DEF Sorted
      <4>2. s[i] \in Nat /\ s[Len(s)] \in Nat
        BY <1>2, <2>1
      <4> QED BY <4>1, <4>2
    <3>3. i = Len(s) \/ i < Len(s)
      <4>1. \A n \in Nat : \A j \in 1..n : j = n \/ j < n
        OBVIOUS
      <4> QED BY <1>1, <4>1
    <3> QED BY <3>1, <3>2, <3>3
  <2> QED BY <1>1, <1>2, <2>1, <2>2
<1> QED BY <1>3, <1>4

(* A beginning of a sequence in order is in order.                         *)
LEMMA ReceivedOfDue ==
  ASSUME StreamTypes
  PROVE  /\ Due \in Seq(Nat) /\ Len(got) \in Nat /\ Len(Due) \in Nat /\ Len(got) <= Len(Due)
         /\ DOMAIN got = 1..Len(got) /\ DOMAIN Due = 1..Len(Due)
         /\ \A i \in DOMAIN got : i \in DOMAIN Due /\ got[i] = Due[i]
<1>1. /\ Due \in Seq(Nat) /\ Len(got) \in Nat /\ Len(pipe) \in Nat
      /\ Len(Due) = Len(got) + Len(pipe)
      /\ DOMAIN got = 1..Len(got) /\ DOMAIN Due = 1..Len(Due)
      /\ \A i \in 1..Len(got) + Len(pipe) :
           Due[i] = IF i <= Len(got) THEN got[i] ELSE pipe[i - Len(got)]
  BY ConcatProperties, LenProperties DEF StreamTypes, Due
<1>2. \A i \in 1..Len(got) : i \in 1..Len(got) + Len(pipe) /\ i <= Len(got)
  BY <1>1
<1> QED BY <1>1, <1>2

LEMMA StreamKeeps ==
  ASSUME Types, Undamaged, InOrder, Gapless, [StreamNext]_streamVars,
         damage' = damage \/ damage' # 0
  PROVE  InOrder' /\ Gapless'
<1>1. CASE UNCHANGED stream
  <2>1. Due' = Due /\ server' = server /\ got' = got /\ pipe' = pipe
    BY <1>1 DEF stream, Due
  <2>2. InOrder'
    BY <2>1 DEF InOrder, StreamTypes, Sorted
  <2>3. Gapless'
    BY <2>1 DEF Gapless
  <2> QED BY <2>2, <2>3
<1>2. CASE StreamBatch
  BY <1>2, BatchKeeps
<1>3. CASE StreamStatus
  <2>1. /\ Due' = Due /\ got' = got /\ pipe' = pipe /\ damage' = damage
        /\ server.pc = "status"
        /\ \E next \in {"read", "closed"} : server' = [server EXCEPT !.pc = next]
    BY <1>3 DEF StreamStatus, Due, vars
  <2>2. server' \in [pc: {"read", "status", "closed"}, cursor: Nat]
        /\ server'.cursor = server.cursor
    BY <2>1 DEF InOrder, StreamTypes
  <2>3. InOrder'
    BY <2>1, <2>2 DEF InOrder, StreamTypes, Sorted
  <2>4. Gapless'
    BY <2>1, <2>2 DEF Gapless
  <2> QED BY <2>3, <2>4
<1>4. CASE Receive
  <2>1. /\ pipe # <<>> /\ got' = Append(got, Head(pipe)) /\ pipe' = Tail(pipe)
        /\ server' = server /\ damage' = damage
    BY <1>4 DEF Receive, vars
  <2>2. got \in Seq(Nat) /\ pipe \in Seq(Nat)
    BY DEF InOrder, StreamTypes
  <2>3. got' \in Seq(Nat) /\ pipe' \in Seq(Nat)
    BY <2>1, <2>2, HeadTailProperties, AppendProperties
  <2>4. Due' = Due
    <3>1. /\ Head(pipe) \in Nat /\ Len(pipe') = Len(pipe) - 1 /\ Len(pipe) \in Nat \ {0}
          /\ \A i \in 1..Len(pipe') : pipe'[i] = pipe[i + 1]
          /\ Head(pipe) = pipe[1] /\ Len(got) \in Nat
      BY <2>1, <2>2, HeadTailProperties, EmptySeq, LenProperties
    <3>2. /\ Len(got') = Len(got) + 1
          /\ \A i \in 1..Len(got) : got'[i] = got[i]
          /\ got'[Len(got) + 1] = Head(pipe)
      BY <2>1, <2>2, <3>1, AppendProperties
    <3>3. /\ got \o pipe \in Seq(Nat) /\ Len(got \o pipe) = Len(got) + Len(pipe)
          /\ \A i \in 1..Len(got) + Len(pipe) :
               (got \o pipe)[i] = IF i <= Len(got) THEN got[i] ELSE pipe[i - Len(got)]
      BY <2>2, ConcatProperties
    <3>4. /\ got' \o pipe' \in Seq(Nat) /\ Len(got' \o pipe') = Len(got') + Len(pipe')
          /\ \A i \in 1..Len(got') + Len(pipe') :
               (got' \o pipe')[i] = IF i <= Len(got') THEN got'[i] ELSE pipe'[i - Len(got')]
      BY <2>3, ConcatProperties
    <3>5. Len(got') + Len(pipe') = Len(got) + Len(pipe)
      BY <3>1, <3>2
    <3>6. ASSUME NEW i \in 1..Len(got) + Len(pipe)
          PROVE  (got' \o pipe')[i] = (got \o pipe)[i]
      <4>1. CASE i <= Len(got)
        <5>1. i \in 1..Len(got) /\ i <= Len(got')
          BY <3>1, <3>2, <4>1
        <5> QED BY <3>2, <3>3, <3>4, <3>5, <4>1, <5>1
      <4>2. CASE i = Len(got) + 1
        <5>1. i <= Len(got') /\ ~(i <= Len(got)) /\ i - Len(got) = 1
          BY <3>1, <3>2, <4>2
        <5>2. (got' \o pipe')[i] = got'[i] /\ (got \o pipe)[i] = pipe[i - Len(got)]
          BY <3>3, <3>4, <3>5, <5>1
        <5> QED BY <3>1, <3>2, <4>2, <5>1, <5>2
      <4>3. CASE i > Len(got) + 1
        <5>1. /\ ~(i <= Len(got')) /\ ~(i <= Len(got)) /\ i - Len(got') \in 1..Len(pipe')
              /\ i - Len(got') + 1 = i - Len(got)
          BY <3>1, <3>2, <4>3
        <5>2. (got' \o pipe')[i] = pipe'[i - Len(got')]
              /\ (got \o pipe)[i] = pipe[i - Len(got)]
          BY <3>3, <3>4, <3>5, <5>1
        <5>3. pipe'[i - Len(got')] = pipe[i - Len(got') + 1]
          BY <3>1, <5>1
        <5> QED BY <5>1, <5>2, <5>3
      <4>4. i <= Len(got) \/ i = Len(got) + 1 \/ i > Len(got) + 1
        BY <3>1
      <4> QED BY <4>1, <4>2, <4>3, <4>4
    <3> HIDE <2>1
    <3> QED BY <3>3, <3>4, <3>5, <3>6, SeqEqual DEF Due
  <2>5. InOrder'
    BY <2>1, <2>3, <2>4 DEF InOrder, StreamTypes, Sorted
  <2>6. Gapless'
    BY <2>1, <2>4 DEF Gapless
  <2> QED BY <2>5, <2>6
<1>5. ASSUME pipe' = <<>>, got' = got, damage' = damage,
             \/ server' = [server EXCEPT !.pc = "closed"]
             \/ server' = [pc |-> "read", cursor |-> LastOr(got, 0)]
      PROVE  InOrder' /\ Gapless'
  <2>1. got \in Seq(Nat) /\ StreamTypes /\ server \in [pc: {"read", "status", "closed"}, cursor: Nat]
    BY DEF InOrder, StreamTypes
  <2>2. Due' = got
    BY <1>5, <2>1, ConcatEmptySeq DEF Due
  <2>3. Sorted(got) /\ \A i \in DOMAIN got : got[i] <= server.cursor
    BY <2>1, ReceivedOfDue DEF InOrder, Sorted
  <2>4. damage = 0 => \A i \in DOMAIN got : got[i] = i
    BY <2>1, ReceivedOfDue DEF Gapless
  <2>5. /\ LastOr(got, 0) \in Nat /\ \A i \in DOMAIN got : got[i] <= LastOr(got, 0)
        /\ damage = 0 => LastOr(got, 0) = Len(got)
    BY <2>1, <2>3, <2>4, LastIsGreatest
  <2>6. /\ server' \in [pc: {"read", "status", "closed"}, cursor: Nat]
        /\ \/ server'.cursor = server.cursor /\ server'.pc = "closed"
           \/ server'.cursor = LastOr(got, 0)
    BY <1>5, <2>1, <2>5
  <2>7. InOrder'
    <3>1. \A i \in DOMAIN got : got[i] <= server'.cursor
      BY <2>3, <2>5, <2>6
    <3>2. <<>> \in Seq(Nat)
      BY EmptySeq
    <3> QED BY <1>5, <2>1, <2>2, <2>3, <2>6, <3>1, <3>2 DEF InOrder, StreamTypes, Sorted
  <2>8. Gapless'
    BY <1>5, <2>2, <2>4, <2>5, <2>6 DEF Gapless
  <2> QED BY <2>7, <2>8
<1>6. CASE Reconnect
  BY <1>5, <1>6 DEF Reconnect, vars
<1>7. CASE Drop
  BY <1>5, <1>7 DEF Drop, vars
<1> QED BY <1>1, <1>2, <1>3, <1>4, <1>6, <1>7 DEF StreamNext, StreamStep, streamVars

(* A client receives the events in their order, none twice, and without    *)
(* damage all of them up to the last: over any number of connections, with *)
(* any batch limit, whatever transitions come in between (api.py,          *)
(* _stream_events).                                                        *)
THEOREM ClientsReceiveInOrder == StreamSpec => []ReceivedInOrder
<1>1. StreamInit => InOrder /\ Gapless
  <2> SUFFICES ASSUME StreamInit PROVE InOrder /\ Gapless
    OBVIOUS
  <2>1. /\ got = <<>> /\ pipe = <<>> /\ server = [pc |-> "closed", cursor |-> 0]
    BY DEF StreamInit
  <2>2. <<>> \in Seq(Nat) /\ Len(<<>>) = 0 /\ <<>> \o <<>> = <<>>
    BY EmptySeq, ConcatEmptySeq
  <2>3. Due = <<>> /\ DOMAIN <<>> = {}
    BY <2>1, <2>2 DEF Due
  <2> QED BY <2>1, <2>2, <2>3 DEF InOrder, StreamTypes, Gapless, Sorted
<1>2. Types /\ [Next]_vars => damage' = damage \/ damage' # 0
  BY DEF Types, Next, vars, Apply, Read, ReadEvents, CheckTail, WriteProjection, Finish,
         Damage, tables
<1>3. Types /\ Undamaged /\ InOrder /\ Gapless /\ [StreamNext]_streamVars /\ [Next]_vars
        => InOrder' /\ Gapless'
  BY <1>2, StreamKeeps
<1>4. InOrder /\ Gapless => ReceivedInOrder
  BY ReceivedOfDue DEF InOrder, Gapless, ReceivedInOrder, Sorted
<1> QED BY <1>1, <1>3, <1>4, StreamsOnlyRead, JournalInvariant, UndamagedInvariant, PTL
        DEF StreamSpec, Spec

==============================================================================
