---------------------------- MODULE JournalProofs ----------------------------
(***************************************************************************)
(* Proofs about Journal.tla, for any number of readers, events and damaged *)
(* rows: what a verification accepts was written.                          *)
(***************************************************************************)
EXTENDS Journal, TLAPS, FiniteSetTheorems, WellFoundedInduction

(* Numbers are well-ordered; a bounded set of them has a greatest one.     *)
LEMMA LeastElement ==
  ASSUME NEW S \in SUBSET Nat, S # {}
  PROVE  \E m \in S : \A i \in S : m <= i
<1> DEFINE R == {p \in Nat \X Nat : p[1] < p[2]}
<1>1. IsWellFoundedOn(R, Nat)
  BY NatLessThanWellFounded DEF OpToRel
<1>2. \A i, m \in Nat : i < m => <<i, m>> \in R
  OBVIOUS
<1> HIDE DEF R
<1>3. PICK m \in S : \A i \in S : ~(<<i, m>> \in R)
  BY <1>1, WFMin
<1>4. m \in Nat /\ \A i \in S : i \in Nat /\ ~(i < m)
  BY <1>2, <1>3
<1> QED BY <1>4

LEMMA GreatestElement ==
  ASSUME NEW N \in Nat, NEW S \in SUBSET (0..N), S # {}
  PROVE  \E m \in S : \A i \in S : i <= m
<1> DEFINE T == {k \in Nat : N - k \in S}
<1>1. T \in SUBSET Nat /\ T # {}
  <2>1. PICK s \in S : TRUE
    OBVIOUS
  <2>2. s \in Nat /\ s <= N
    OBVIOUS
  <2>3. N - s \in Nat /\ N - (N - s) = s
    BY <2>2
  <2> QED BY <2>1, <2>3
<1>2. PICK k \in T : \A j \in T : k <= j
  BY <1>1, LeastElement
<1>3. \A i \in S : N - i \in T /\ i \in Nat
  OBVIOUS
<1>4. N - k \in S /\ k \in Nat
  OBVIOUS
<1> QED BY <1>2, <1>3, <1>4

(* What Newest finds.                                                      *)
LEMMA NewestRow ==
  ASSUME NEW rows, DOMAIN rows \subseteq Seqs
  PROVE  /\ Newest(rows) \in 0..MaxSeq
         /\ Newest(rows) = 0 <=> DOMAIN rows = {}
         /\ DOMAIN rows # {} => Newest(rows) \in DOMAIN rows
         /\ \A i \in DOMAIN rows : i <= Newest(rows)
<1>0. MaxSeq \in Nat /\ Seqs = 1..MaxSeq /\ Seqs \subseteq 0..MaxSeq
  BY JournalAssumption DEF JournalAssumption, Seqs
<1>1. CASE DOMAIN rows = {}
  BY <1>0, <1>1 DEF Newest
<1>2. CASE DOMAIN rows # {}
  <2>1. \E n \in DOMAIN rows : \A i \in DOMAIN rows : i <= n
    BY <1>0, <1>2, GreatestElement
  <2>2. Newest(rows) \in DOMAIN rows /\ \A i \in DOMAIN rows : i <= Newest(rows)
    BY <1>2, <2>1 DEF Newest
  <2> QED BY <1>0, <1>2, <2>2
<1> QED BY <1>1, <1>2

(* ... is what has the property of it.                                     *)
LEMMA NewestIs ==
  ASSUME NEW rows, DOMAIN rows \subseteq Seqs, NEW n \in DOMAIN rows,
         \A i \in DOMAIN rows : i <= n
  PROVE  Newest(rows) = n
<1>1. Newest(rows) \in DOMAIN rows /\ n <= Newest(rows)
  BY NewestRow
<1>2. Newest(rows) <= n
  BY <1>1
<1>3. n \in Nat /\ Newest(rows) \in Nat
  BY <1>1, JournalAssumption DEF JournalAssumption, Seqs
<1> QED BY <1>1, <1>2, <1>3

------------------------------------------------------------------------------
(* The digest of an event when the bodies up to it are those of f.         *)
Form(f, n) == [i \in 1..n |-> [seq |-> i, body |-> f[i]]]

LEMMA FormType ==
  ASSUME NEW f \in [Seqs -> Body], NEW n \in 0..MaxSeq
  PROVE  Form(f, n) \in DigestValue
<1>1. n \in Nat /\ \A i \in 1..n : i \in Seqs
  BY JournalAssumption DEF JournalAssumption, Seqs
<1>2. \A i \in 1..n : [seq |-> i, body |-> f[i]] \in [seq: Seqs, body: Body]
  BY <1>1
<1> QED BY <1>1, <1>2 DEF Form, DigestValue

LEMMA FormNext ==
  ASSUME NEW f, NEW n \in Nat
  PROVE  Digest(Form(f, n), n + 1, f[n + 1]) = Form(f, n + 1)
<1> DEFINE x == [seq |-> n + 1, body |-> f[n + 1]]
           S == {[seq |-> i, body |-> f[i]] : i \in 1..n+1}
<1>1. Form(f, n) \in Seq(S) /\ Len(Form(f, n)) = n /\ x \in S
  BY DEF Form
<1>2. Form(f, n + 1) \in Seq(S) /\ Len(Form(f, n + 1)) = n + 1
  BY DEF Form
<1>3. Append(Form(f, n), x) \in Seq(S) /\ Len(Append(Form(f, n), x)) = n + 1
  BY <1>1
<1>4. \A i \in 1..n+1 : Append(Form(f, n), x)[i] = Form(f, n + 1)[i]
  BY <1>1 DEF Form
<1> QED BY <1>2, <1>3, <1>4 DEF Digest

LEMMA FormSame ==
  ASSUME NEW f, NEW g, NEW n \in Nat, \A i \in 1..n : f[i] = g[i]
  PROVE  Form(f, n) = Form(g, n)
BY DEF Form

(* A row whose digest is right is the event its digest says.               *)
LEMMA DigestShowsBody ==
  ASSUME NEW f, NEW n \in Nat \ {0}, NEW p \in DigestValue, NEW b,
         Digest(p, n, b) = Form(f, n)
  PROVE  b = f[n] /\ p = Form(f, n - 1)
<1> DEFINE x == [seq |-> n, body |-> b]
<1>1. p \in Seq([seq: Seqs, body: Body]) /\ Append(p, x) = Form(f, n)
  BY DEF Digest, DigestValue
<1>2. Len(p) + 1 = n /\ Len(p) \in Nat
  BY <1>1 DEF Form
<1>3. x = Form(f, n)[n]
  BY <1>1, <1>2
<1>4. \A i \in 1..n-1 : p[i] = Form(f, n)[i]
  BY <1>1, <1>2
<1>5. p = Form(f, n - 1)
  <2>1. p = [i \in 1..Len(p) |-> p[i]] /\ Len(p) = n - 1
    BY <1>1, <1>2
  <2>2. \A i \in 1..n-1 : Form(f, n)[i] = [seq |-> i, body |-> f[i]]
    BY DEF Form
  <2> QED BY <1>4, <2>1, <2>2 DEF Form
<1> QED BY <1>3, <1>5 DEF Form

------------------------------------------------------------------------------
(* The types once more, in the form the provers need: rows are functions.  *)
Rows == UNION {[D -> Event] : D \in SUBSET Seqs}

ReaderState == [pc: {"idle", "listed", "accepted", "refused"}, rows: Rows]

Types ==
  /\ projection \in State
  /\ events \in Rows
  /\ DOMAIN checkpoints \subseteq Seqs /\ checkpoints \in [DOMAIN checkpoints -> Checkpoint]
  /\ emitted \in [Seqs -> Body]
  /\ written \subseteq Seq(Body)
  /\ reader \in [Reader -> ReaderState]
  /\ damage \in 0..MaxDamage

(* Damage changes contents and loses rows, but the digests that are there  *)
(* are those of what was emitted, a checkpoint's of a journal that was     *)
(* written to its end, and what a reader holds are those of one time.      *)
Digests(rows, f) == \A n \in DOMAIN rows : rows[n].hash = Form(f, n)

DigestsOK ==
  /\ Digests(events, emitted)
  /\ \A n \in DOMAIN checkpoints : \E w \in written :
       DOMAIN w = 1..n /\ checkpoints[n].hash = Form(w, n)
  /\ \A t \in Reader : \E f \in [Seqs -> Body] : Digests(reader[t].rows, f)

LEMMA RowsAre ==
  ASSUME NEW rows
  PROVE  /\ rows \in Rows <=> DOMAIN rows \subseteq Seqs /\ rows \in [DOMAIN rows -> Event]
BY DEF Rows

(* What a transition appends, and what has been emitted then.              *)
EmittedNext(n, body) ==
  [i \in Seqs |-> IF i \in Newest(events) + 1 .. Newest(events) + n THEN body ELSE emitted[i]]

AppendsLinked(n, body, tail, f) ==
  /\ tail \in Nat /\ f \in [Seqs -> Body]
  /\ Appended(n, body) \in Rows
  /\ DOMAIN Appended(n, body) = DOMAIN events \cup tail + 1 .. tail + n
  /\ \A i \in DOMAIN events : Appended(n, body)[i] = events[i] /\ i <= tail
  /\ \A i \in tail + 1 .. tail + n :
       Appended(n, body)[i] = [body |-> body, prev |-> Form(f, i - 1), hash |-> Form(f, i)]
  /\ Digests(Appended(n, body), f)
  /\ Newest(Appended(n, body)) = tail + n

LEMMA AppendedRows ==
  ASSUME Types, Digests(events, emitted), NEW n \in {1, 2}, NEW body \in Body,
         NEW tail, tail = Newest(events), tail + n \in Seqs,
         NEW f, f = EmittedNext(n, body)
  PROVE  AppendsLinked(n, body, tail, f)
<1> DEFINE prev == IF tail = 0 THEN Genesis ELSE events[tail].hash
           first == Linked(prev, tail + 1, body)
           second == Linked(first.hash, tail + 2, body)
           A == Appended(n, body)
<1>0. MaxSeq \in Nat /\ Seqs = 1..MaxSeq
  BY JournalAssumption DEF JournalAssumption, Seqs
<1>1. events \in [DOMAIN events -> Event] /\ DOMAIN events \subseteq Seqs
  BY RowsAre DEF Types
<1>2. /\ tail \in Nat /\ tail \in 0..MaxSeq /\ (tail = 0 <=> DOMAIN events = {})
      /\ (tail # 0 => tail \in DOMAIN events) /\ \A i \in DOMAIN events : i <= tail
  <2>1. /\ tail \in 0..MaxSeq /\ (tail = 0 <=> DOMAIN events = {})
        /\ (DOMAIN events # {} => tail \in DOMAIN events) /\ \A i \in DOMAIN events : i <= tail
    BY <1>1, NewestRow
  <2>2. tail \in Nat
    BY <1>0, <2>1
  <2>3. tail # 0 => tail \in DOMAIN events
    BY <2>1
  <2> QED BY <2>1, <2>2, <2>3
<1>3. /\ f = [i \in Seqs |-> IF i \in tail + 1 .. tail + n THEN body ELSE emitted[i]]
      /\ f \in [Seqs -> Body]
  BY DEF Types, EmittedNext
<1>4. \A i \in 1..tail : f[i] = emitted[i]
  BY <1>0, <1>2, <1>3
<1>5. prev = Form(f, tail)
  <2>1. CASE tail = 0
    BY <2>1 DEF Genesis, Form
  <2>2. CASE tail # 0
    BY <1>2, <1>4, <2>2, FormSame DEF Digests
  <2> QED BY <2>1, <2>2
<1>6. tail + 1 \in Seqs /\ f[tail + 1] = body /\ (n = 2 => f[tail + 2] = body)
  BY <1>0, <1>2, <1>3
<1>7. first = [body |-> body, prev |-> Form(f, tail), hash |-> Form(f, tail + 1)]
  BY <1>2, <1>5, <1>6, FormNext DEF Linked
<1>8. n = 2 => second = [body |-> body, prev |-> Form(f, tail + 1), hash |-> Form(f, tail + 2)]
  <2> SUFFICES ASSUME n = 2
               PROVE  second = [body |-> body, prev |-> Form(f, tail + 1), hash |-> Form(f, tail + 2)]
    OBVIOUS
  <2>1. Digest(Form(f, tail + 1), tail + 1 + 1, f[tail + 1 + 1]) = Form(f, tail + 1 + 1)
    BY <1>2, FormNext
  <2>2. tail + 1 + 1 = tail + 2
    BY <1>2
  <2> QED BY <1>6, <1>7, <2>1, <2>2 DEF Linked
<1>9. A = IF n = 1 THEN With(events, tail + 1, first)
          ELSE With(With(events, tail + 1, first), tail + 2, second)
  BY DEF Appended
<1> HIDE DEF prev, first, second, A
<1>10. /\ DOMAIN A = DOMAIN events \cup tail + 1 .. tail + n
       /\ A = [i \in DOMAIN A |-> A[i]]
       /\ \A i \in DOMAIN events : A[i] = events[i]
       /\ A[tail + 1] = first /\ (n = 2 => A[tail + 2] = second)
  <2>1. CASE n = 1
    BY <1>1, <1>2, <1>9, <2>1 DEF With
  <2>2. CASE n = 2
    <3>1. A = With(With(events, tail + 1, first), tail + 2, second)
      BY <1>9, <2>2
    <3>2. tail + 1 .. tail + n = {tail + 1, tail + 2}
      BY <1>2, <2>2
    <3> QED BY <1>1, <1>2, <2>2, <3>1, <3>2 DEF With
  <2> QED BY <2>1, <2>2
<1>11. \A i \in tail + 1 .. tail + n :
         /\ A[i] = [body |-> body, prev |-> Form(f, i - 1), hash |-> Form(f, i)]
         /\ i \in Seqs
  <2> SUFFICES ASSUME NEW i \in tail + 1 .. tail + n
               PROVE  /\ A[i] = [body |-> body, prev |-> Form(f, i - 1), hash |-> Form(f, i)]
                      /\ i \in Seqs
    OBVIOUS
  <2>1. i \in Seqs
    BY <1>0, <1>2
  <2>2. (i = tail + 1 /\ i - 1 = tail) \/ (n = 2 /\ i = tail + 2 /\ i - 1 = tail + 1)
    BY <1>2
  <2> QED BY <1>7, <1>8, <1>10, <2>1, <2>2
<1>12. A \in Rows
  <2>1. \A i \in tail + 1 .. tail + n : A[i] \in Event
    <3> SUFFICES ASSUME NEW i \in tail + 1 .. tail + n
                 PROVE  A[i] \in Event
      OBVIOUS
    <3>1. i \in 0..MaxSeq /\ i - 1 \in 0..MaxSeq
      BY <1>0, <1>2, <1>11
    <3>2. Form(f, i - 1) \in DigestValue /\ Form(f, i) \in DigestValue
      BY <1>3, <3>1, FormType
    <3>3. A[i] = [body |-> body, prev |-> Form(f, i - 1), hash |-> Form(f, i)]
      BY <1>11
    <3> QED BY <3>2, <3>3 DEF Event
  <2>2. \A i \in DOMAIN A : i \in Seqs /\ A[i] \in Event
    BY <1>1, <1>10, <1>11, <2>1
  <2> QED BY <1>10, <2>2, RowsAre
<1>13. Digests(A, f)
  <2> SUFFICES ASSUME NEW i \in DOMAIN A PROVE A[i].hash = Form(f, i)
    BY DEF Digests
  <2>1. CASE i \in DOMAIN events
    <3>1. i \in Nat /\ \A j \in 1..i : f[j] = emitted[j]
      BY <1>0, <1>1, <1>2, <1>4, <2>1
    <3>2. Form(f, i) = Form(emitted, i)
      BY <3>1, FormSame
    <3> QED BY <1>10, <2>1, <3>2 DEF Digests
  <2>2. CASE i \in tail + 1 .. tail + n
    <3>1. A[i] = [body |-> body, prev |-> Form(f, i - 1), hash |-> Form(f, i)]
      BY <1>11, <2>2
    <3> QED BY <3>1
  <2> QED BY <1>10, <2>1, <2>2
<1>14. Newest(A) = tail + n
  <2>1. tail + n \in DOMAIN A /\ DOMAIN A \subseteq Seqs /\ \A i \in DOMAIN A : i <= tail + n
    BY <1>0, <1>1, <1>2, <1>10, <1>11
  <2> QED BY <2>1, NewestIs
<1> QED BY <1>2, <1>3, <1>10, <1>11, <1>12, <1>13, <1>14 DEF A, AppendsLinked

------------------------------------------------------------------------------
(* The invariant, step by step.                                            *)

LEMMA ApplyKeeps ==
  ASSUME Types, DigestsOK, NEW n \in {1, 2}, NEW body \in Body,
         NEW status \in {"open", "terminal"}, Apply(n, body, status)
  PROVE  Types' /\ DigestsOK' /\ written \subseteq written'
<1> DEFINE tail == Newest(events)
           last == Newest(events) + n
           A == Appended(n, body)
           state == [revision |-> projection.revision + 1, status |-> status]
           f == [i \in Seqs |-> IF i \in tail + 1 .. last THEN body ELSE emitted[i]]
           w == [i \in 1..last |-> f[i]]
<1>0. MaxSeq \in Nat /\ Seqs = 1..MaxSeq /\ last \in Seqs /\ tail \in Nat
  <2>1. tail \in 0..MaxSeq
    BY NewestRow, RowsAre DEF Types
  <2> QED BY <2>1, JournalAssumption DEF JournalAssumption, Seqs, Apply
<1>1. /\ emitted' = f /\ events' = A /\ written' = written \cup {w} /\ projection' = state
      /\ checkpoints' = With(checkpoints, last, [state |-> state, hash |-> A[last].hash])
      /\ reader' = reader /\ damage' = damage
  BY DEF Apply, Checkpointed
<1>2. /\ f \in [Seqs -> Body] /\ A \in Rows /\ Digests(A, f)
      /\ DOMAIN A = DOMAIN events \cup tail + 1 .. last
  <2>1. tail = Newest(events) /\ tail + n \in Seqs /\ last = tail + n
    BY <1>0
  <2>2. f = EmittedNext(n, body) /\ A = Appended(n, body) /\ Digests(events, emitted)
    BY DEF EmittedNext, DigestsOK
  <2> HIDE DEF tail, last, f, A
  <2>3. AppendsLinked(n, body, tail, f)
    BY <2>1, <2>2, AppendedRows
  <2> QED BY <2>1, <2>2, <2>3 DEF AppendsLinked
<1>3. state \in State
  BY JournalAssumption DEF JournalAssumption, Apply, State, Types
<1>4. w \in Seq(Body) /\ DOMAIN w = 1..last /\ Form(w, last) = Form(f, last)
  <2>1. \A i \in 1..last : i \in Seqs /\ w[i] = f[i]
    BY <1>0
  <2>2. last \in Nat
    BY <1>0
  <2> HIDE DEF f, last
  <2>3. Form(w, last) = Form(f, last)
    BY <2>1, <2>2, FormSame
  <2>4. w \in Seq(Body)
    BY <1>2, <2>1, <2>2
  <2> QED BY <2>3, <2>4
<1>5. A[last].hash = Form(f, last) /\ Form(f, last) \in DigestValue
  <2>1. last \in tail + 1 .. last /\ last \in 0..MaxSeq
    BY <1>0
  <2>2. last \in DOMAIN A
    BY <1>2, <2>1
  <2> HIDE DEF f, last, A
  <2> QED BY <1>2, <2>1, <2>2, FormType DEF Digests
<1> HIDE DEF tail, last, A, state, f, w
<1>6. /\ DOMAIN checkpoints' = DOMAIN checkpoints \cup {last}
      /\ checkpoints' = [i \in DOMAIN checkpoints' |-> checkpoints'[i]]
      /\ \A i \in DOMAIN checkpoints : i # last => checkpoints'[i] = checkpoints[i]
      /\ checkpoints'[last] = [state |-> state, hash |-> Form(f, last)]
  BY <1>1, <1>5 DEF With
<1>7. Types'
  <2>1. [state |-> state, hash |-> Form(f, last)] \in Checkpoint
    BY <1>3, <1>5 DEF Checkpoint
  <2>2. /\ DOMAIN checkpoints' \subseteq Seqs
        /\ \A i \in DOMAIN checkpoints' : checkpoints'[i] \in Checkpoint
    BY <1>0, <1>6, <2>1 DEF Types
  <2>3. checkpoints' \in [DOMAIN checkpoints' -> Checkpoint]
    BY <1>6, <2>2
  <2> QED BY <1>1, <1>2, <1>3, <1>4, <2>2, <2>3 DEF Types
<1>8. \A i \in DOMAIN checkpoints' : \E x \in written' :
        DOMAIN x = 1..i /\ checkpoints'[i].hash = Form(x, i)
  <2> SUFFICES ASSUME NEW i \in DOMAIN checkpoints'
               PROVE  \E x \in written' : DOMAIN x = 1..i /\ checkpoints'[i].hash = Form(x, i)
    OBVIOUS
  <2>1. CASE i = last
    <3>1. checkpoints'[i].hash = Form(w, i)
      BY <1>4, <1>6, <2>1
    <3> QED BY <1>1, <1>4, <2>1, <3>1
  <2>2. CASE i # last
    BY <1>1, <1>6, <2>2 DEF DigestsOK
  <2> QED BY <2>1, <2>2
<1>9. DigestsOK'
  BY <1>1, <1>2, <1>8 DEF DigestsOK, Digests
<1> QED BY <1>1, <1>7, <1>9

LEMMA ReadKeeps ==
  ASSUME Types, DigestsOK, NEW t \in Reader, Read(t)
  PROVE  Types' /\ DigestsOK'
<1>1. reader[t] \in ReaderState /\ DOMAIN reader = Reader
  BY DEF Types
<1>2. ASSUME NEW x \in ReaderState, reader' = [reader EXCEPT ![t] = x],
             \E f \in [Seqs -> Body] : Digests(x.rows, f),
             UNCHANGED <<events, checkpoints, emitted, written, damage>>, projection' \in State
      PROVE  Types' /\ DigestsOK'
  <2>1. reader' \in [Reader -> ReaderState]
    BY <1>2 DEF Types
  <2>2. \A u \in Reader : \E f \in [Seqs -> Body] : Digests(reader'[u].rows, f)
    BY <1>1, <1>2 DEF DigestsOK
  <2> QED BY <1>2, <2>1, <2>2 DEF Types, DigestsOK, Digests
<1>3. Unread \in ReaderState /\ \E f \in [Seqs -> Body] : Digests(Unread.rows, f)
  <2>1. DOMAIN Unread.rows = {} /\ Unread.rows \in [DOMAIN Unread.rows -> Event]
    BY DEF Unread
  <2>2. Unread.rows \in Rows
    BY <2>1, RowsAre
  <2>3. Unread \in ReaderState
    BY <2>2 DEF Unread, ReaderState
  <2>4. Digests(Unread.rows, emitted)
    BY <2>1 DEF Digests
  <2> QED BY <2>3, <2>4 DEF Types
<1>4. CASE ReadEvents(t)
  <2> DEFINE rows == Listed(0, ReadLimit)
             x == [pc |-> "listed", rows |-> rows]
  <2>1. DOMAIN rows \subseteq DOMAIN events /\ rows = [n \in DOMAIN rows |-> events[n]]
    BY DEF Listed
  <2> HIDE DEF rows
  <2>2. rows \in Rows /\ Digests(rows, emitted)
    <3>1. events \in [DOMAIN events -> Event] /\ DOMAIN events \subseteq Seqs
      BY RowsAre DEF Types
    <3>2. rows \in [DOMAIN rows -> Event] /\ DOMAIN rows \subseteq Seqs
      BY <2>1, <3>1
    <3>3. \A n \in DOMAIN rows : rows[n].hash = Form(emitted, n)
      BY <2>1 DEF DigestsOK, Digests
    <3> QED BY <3>2, <3>3, RowsAre DEF Digests
  <2>3. x \in ReaderState /\ x.rows = rows
    BY <2>2 DEF ReaderState
  <2>4. reader' = [reader EXCEPT ![t] = x] /\ UNCHANGED tables
    BY <1>4 DEF ReadEvents, rows
  <2> HIDE DEF x
  <2> QED BY <1>2, <2>2, <2>3, <2>4 DEF tables, Types
<1>5. CASE CheckTail(t)
  <2> DEFINE pc == IF Verifies(reader[t].rows) THEN "accepted" ELSE "refused"
             x == [reader[t] EXCEPT !.pc = pc]
  <2>1. x \in ReaderState /\ x.rows = reader[t].rows
    BY <1>1 DEF ReaderState
  <2>2. reader' = [reader EXCEPT ![t] = x] /\ UNCHANGED tables
    BY <1>1, <1>5 DEF CheckTail
  <2> HIDE DEF x
  <2> QED BY <1>2, <2>1, <2>2 DEF tables, Types, DigestsOK
<1>6. CASE WriteProjection(t)
  <2>1. Newest(checkpoints) \in DOMAIN checkpoints
    BY <1>6, NewestRow DEF WriteProjection, Types
  <2>2. projection' \in State
    BY <1>6, <2>1 DEF WriteProjection, Types, Checkpoint
  <2> QED BY <1>2, <1>3, <1>6, <2>2 DEF WriteProjection
<1>7. CASE Finish(t)
  BY <1>2, <1>3, <1>7 DEF Finish, tables, Types
<1> QED BY <1>4, <1>5, <1>6, <1>7 DEF Read

LEMMA DamageKeeps ==
  ASSUME Types, DigestsOK, Damage
  PROVE  Types' /\ DigestsOK'
<1>1. damage' \in 0..MaxDamage /\ UNCHANGED <<reader, emitted, written>>
  BY JournalAssumption DEF JournalAssumption, Damage, Types
<1>2. events \in [DOMAIN events -> Event] /\ DOMAIN events \subseteq Seqs
  BY RowsAre DEF Types
<1>3. ASSUME projection' \in State, UNCHANGED checkpoints, events' \in Rows,
             Digests(events', emitted)
      PROVE  Types' /\ DigestsOK'
  BY <1>1, <1>3 DEF Types, DigestsOK, Digests
<1>4. CASE projection' \in State \ {projection} /\ UNCHANGED <<events, checkpoints>>
  BY <1>3, <1>4 DEF Types, DigestsOK
<1>5. ASSUME NEW n \in DOMAIN events, NEW b \in Garbage,
             events' = [events EXCEPT ![n].body = b], UNCHANGED <<projection, checkpoints>>
      PROVE  Types' /\ DigestsOK'
  <2>1. [events[n] EXCEPT !.body = b] \in Event
    BY <1>2 DEF Event
  <2>2. events' \in [DOMAIN events -> Event] /\ DOMAIN events' = DOMAIN events
    BY <1>2, <1>5, <2>1
  <2>3. \A i \in DOMAIN events : events'[i].hash = events[i].hash
    BY <1>2, <1>5 DEF Event
  <2> QED BY <1>2, <1>3, <1>5, <2>2, <2>3, RowsAre DEF Types, DigestsOK, Digests
<1>6. ASSUME NEW n \in DOMAIN events, events' = Without(events, n),
             UNCHANGED <<projection, checkpoints>>
      PROVE  Types' /\ DigestsOK'
  <2>1. /\ DOMAIN events' = DOMAIN events \ {n} /\ events' \in [DOMAIN events' -> Event]
        /\ \A i \in DOMAIN events' : events'[i] = events[i]
    BY <1>2, <1>6 DEF Without
  <2> QED BY <1>2, <1>3, <1>6, <2>1, RowsAre DEF Types, DigestsOK, Digests
<1>7. ASSUME NEW n \in DOMAIN checkpoints, checkpoints' = Without(checkpoints, n),
             UNCHANGED <<projection, events>>
      PROVE  Types' /\ DigestsOK'
  <2>1. /\ DOMAIN checkpoints' = DOMAIN checkpoints \ {n}
        /\ checkpoints' \in [DOMAIN checkpoints' -> Checkpoint]
        /\ \A i \in DOMAIN checkpoints' : checkpoints'[i] = checkpoints[i]
    BY <1>7 DEF Without, Types
  <2> QED BY <1>1, <1>7, <2>1 DEF Types, DigestsOK, Digests
<1> QED BY <1>4, <1>5, <1>6, <1>7 DEF Damage

------------------------------------------------------------------------------
(* Rows that form a chain have no gap.                                     *)
LEMMA ChainIsGapless ==
  ASSUME NEW rows, DOMAIN rows \subseteq Seqs, DOMAIN rows # {}, ChainHolds(rows)
  PROVE  DOMAIN rows = 1..Newest(rows)
<1> DEFINE tail == Newest(rows)
           M == (1..tail) \ DOMAIN rows
<1>1. tail \in DOMAIN rows /\ tail \in Nat /\ \A i \in DOMAIN rows : i <= tail /\ i \in Nat /\ i >= 1
  <2>1. tail \in DOMAIN rows /\ \A i \in DOMAIN rows : i <= tail
    BY NewestRow
  <2>2. \A i \in DOMAIN rows : i \in Nat /\ i >= 1
    BY DEF Seqs
  <2> QED BY <2>1, <2>2
<1> HIDE DEF tail
<1>2. ASSUME M # {} PROVE FALSE
  <2>1. PICK m \in M : \A i \in M : i <= m
    <3>1. M \in SUBSET (0..tail)
      BY <1>1
    <3> HIDE DEF M
    <3> QED BY <1>1, <1>2, <3>1, GreatestElement
  <2>2. m \in 1..tail /\ m \notin DOMAIN rows
    OBVIOUS
  <2>3. m + 1 \in 1..tail /\ m + 1 \notin M
    <3>1. m # tail
      BY <1>1, <2>2
    <3>2. m + 1 \in 1..tail
      BY <1>1, <2>2, <3>1
    <3>3. ~(m + 1 <= m)
      BY <2>2
    <3> QED BY <2>1, <3>2, <3>3
  <2>4. m + 1 \in DOMAIN rows /\ m + 1 # 1 /\ m + 1 - 1 = m
    BY <2>2, <2>3
  <2>5. m \in DOMAIN rows
    BY <2>4 DEF ChainHolds
  <2> QED BY <2>2, <2>5
<1>3. DOMAIN rows = 1..tail
  <2>1. \A i \in DOMAIN rows : i \in 1..tail
    BY <1>1
  <2>2. \A i \in 1..tail : i \in DOMAIN rows
    BY <1>2
  <2> QED BY <2>1, <2>2
<1> QED BY <1>3 DEF tail

(* What a verification accepts is what some transaction left.              *)
LEMMA AcceptedIsWritten ==
  ASSUME Types, DigestsOK, NEW t \in Reader, Verifies(reader[t].rows)
  PROVE  [n \in DOMAIN reader[t].rows |-> reader[t].rows[n].body] \in written
<1> DEFINE rows == reader[t].rows
           tail == Newest(rows)
<1>1. rows \in [DOMAIN rows -> Event] /\ DOMAIN rows \subseteq Seqs /\ DOMAIN rows # {}
      /\ ChainHolds(rows) /\ TailCovered(rows)
  <2>1. rows \in Rows
    BY DEF Types, ReaderState
  <2> QED BY <2>1, RowsAre DEF Verifies
<1>2. PICK f \in [Seqs -> Body] : Digests(rows, f)
  BY DEF DigestsOK
<1> HIDE DEF rows
<1>3. DOMAIN rows = 1..tail /\ tail \in DOMAIN rows /\ tail \in Nat
  BY <1>1, ChainIsGapless, NewestRow DEF Seqs
<1>4. \A n \in DOMAIN rows : rows[n].body = f[n]
  <2> SUFFICES ASSUME NEW n \in DOMAIN rows PROVE rows[n].body = f[n]
    OBVIOUS
  <2>1. n \in Nat \ {0} /\ rows[n].prev \in DigestValue
    BY <1>1 DEF Seqs, Event
  <2>2. Digest(rows[n].prev, n, rows[n].body) = Form(f, n)
    BY <1>1, <1>2 DEF ChainHolds, Digests
  <2> QED BY <2>1, <2>2, DigestShowsBody
<1>5. tail \in DOMAIN checkpoints /\ checkpoints[tail].hash = Form(f, tail)
  <2>1. Newest(checkpoints) = tail /\ checkpoints[tail].hash = rows[tail].hash
    BY <1>1 DEF TailCovered
  <2>2. tail # 0
    BY <1>1, <1>3 DEF Seqs
  <2>3. tail \in DOMAIN checkpoints
    BY <2>1, <2>2, NewestRow DEF Types
  <2> QED BY <1>2, <1>3, <2>1, <2>3 DEF Digests
<1>6. PICK w \in written : DOMAIN w = 1..tail /\ Form(f, tail) = Form(w, tail)
  BY <1>5 DEF DigestsOK
<1>7. \A i \in 1..tail : f[i] = w[i]
  <2> SUFFICES ASSUME NEW i \in 1..tail PROVE f[i] = w[i]
    OBVIOUS
  <2>1. Form(f, tail)[i].body = f[i] /\ Form(w, tail)[i].body = w[i]
    BY DEF Form
  <2> QED BY <1>6, <2>1
<1>8. w = [i \in 1..tail |-> w[i]]
  <2>1. w \in Seq(Body)
    BY <1>6 DEF Types
  <2> QED BY <1>6, <2>1
<1>9. [n \in DOMAIN rows |-> rows[n].body] = w
  BY <1>3, <1>4, <1>7, <1>8
<1> QED BY <1>6, <1>9 DEF rows

LEMMA StepAccepts ==
  ASSUME Types, DigestsOK, AcceptedJournalsWereWritten, [Next]_vars
  PROVE  AcceptedJournalsWereWritten'
<1>1. ASSUME written \subseteq written', UNCHANGED reader
      PROVE  AcceptedJournalsWereWritten'
  BY <1>1 DEF AcceptedJournalsWereWritten
<1>2. ASSUME NEW n \in {1, 2}, NEW body \in Body, NEW status \in {"open", "terminal"},
             Apply(n, body, status)
      PROVE  AcceptedJournalsWereWritten'
  BY <1>1, <1>2, ApplyKeeps DEF Apply
<1>3. ASSUME NEW t \in Reader, CheckTail(t)
      PROVE  AcceptedJournalsWereWritten'
  <2> SUFFICES ASSUME NEW u \in Reader, reader'[u].pc = "accepted"
               PROVE  [n \in DOMAIN reader'[u].rows |-> reader'[u].rows[n].body] \in written'
    BY DEF AcceptedJournalsWereWritten
  <2>1. reader'[u].rows = reader[u].rows /\ written' = written
    BY <1>3 DEF CheckTail, tables, Types, ReaderState
  <2>2. reader[u].pc = "accepted" \/ Verifies(reader[u].rows)
    BY <1>3 DEF CheckTail, Types, ReaderState
  <2> QED BY <2>1, <2>2, AcceptedIsWritten DEF AcceptedJournalsWereWritten
<1>4. ASSUME NEW t \in Reader, ReadEvents(t) \/ WriteProjection(t) \/ Finish(t)
      PROVE  AcceptedJournalsWereWritten'
  <2>1. written' = written /\ DOMAIN reader = Reader
    BY <1>4 DEF ReadEvents, WriteProjection, Finish, tables, Types
  <2>2. \A u \in Reader : reader'[u].pc = "accepted" => reader'[u] = reader[u]
    BY <1>4, <2>1 DEF ReadEvents, WriteProjection, Finish, Unread
  <2> QED BY <2>1, <2>2 DEF AcceptedJournalsWereWritten
<1>5. CASE Damage \/ UNCHANGED vars
  BY <1>1, <1>5 DEF Damage, vars
<1> QED BY <1>2, <1>3, <1>4, <1>5 DEF Next, Read

LEMMA InitialRow ==
  ASSUME Init
  PROVE  /\ Types /\ DigestsOK
         /\ DOMAIN events = {1} /\ DOMAIN checkpoints = {1} /\ damage = 0
         /\ events[1] = [body |-> emitted[1], prev |-> Form(emitted, 0), hash |-> Form(emitted, 1)]
<1>1. PICK body \in Body :
        LET state == [revision |-> 1, status |-> "open"]
            first == Linked(Genesis, 1, body) IN
        /\ projection = state
        /\ events = [i \in {1} |-> first]
        /\ checkpoints = [i \in {1} |-> [state |-> state, hash |-> first.hash]]
        /\ reader = [t \in Reader |-> Unread]
        /\ emitted = [i \in Seqs |-> body]
        /\ written = {[i \in 1..1 |-> body]}
        /\ damage = 0
  BY DEF Init
<1> DEFINE first == Linked(Genesis, 1, body)
           state == [revision |-> 1, status |-> "open"]
<1>2. 1 \in Seqs /\ 1 \in 0..MaxSeq /\ 0 \in 0..MaxSeq /\ emitted \in [Seqs -> Body]
      /\ emitted[1] = body
  BY <1>1, JournalAssumption DEF JournalAssumption, Seqs
<1>3. first = [body |-> body, prev |-> Form(emitted, 0), hash |-> Form(emitted, 1)]
  <2>1. Digest(Form(emitted, 0), 0 + 1, emitted[0 + 1]) = Form(emitted, 0 + 1)
    BY FormNext
  <2>2. Genesis = Form(emitted, 0)
    BY DEF Genesis, Form
  <2> QED BY <1>2, <2>1, <2>2 DEF Linked
<1>4. Form(emitted, 0) \in DigestValue /\ Form(emitted, 1) \in DigestValue
  BY <1>2, FormType
<1>5. first \in Event /\ state \in State
  BY <1>3, <1>4, JournalAssumption DEF JournalAssumption, Event, State
<1> HIDE DEF first, state
<1>6. events \in Rows /\ Digests(events, emitted)
  BY <1>1, <1>2, <1>3, <1>5, RowsAre DEF Digests, first
<1>7. checkpoints \in [{1} -> Checkpoint] /\ DOMAIN checkpoints = {1}
      /\ checkpoints[1].hash = Form(emitted, 1)
  BY <1>1, <1>3, <1>4, <1>5 DEF Checkpoint, first, state
<1>8. Unread \in ReaderState /\ Digests(Unread.rows, emitted)
  <2>1. DOMAIN Unread.rows = {} /\ Unread.rows \in [DOMAIN Unread.rows -> Event]
    BY DEF Unread
  <2>2. Unread.rows \in Rows
    BY <2>1, RowsAre
  <2> QED BY <2>1, <2>2 DEF Unread, ReaderState, Digests
<1>9. Types
  <2>1. [i \in 1..1 |-> body] \in Seq(Body)
    OBVIOUS
  <2>2. 0 \in 0..MaxDamage
    BY JournalAssumption DEF JournalAssumption
  <2> QED BY <1>1, <1>2, <1>5, <1>6, <1>7, <1>8, <2>1, <2>2 DEF Types, state
<1>10. DigestsOK
  <2>1. \E w \in written : DOMAIN w = 1..1 /\ checkpoints[1].hash = Form(w, 1)
    <3> DEFINE w == [i \in 1..1 |-> body]
    <3>1. w \in written /\ DOMAIN w = 1..1 /\ \A i \in 1..1 : emitted[i] = w[i]
      BY <1>1, <1>2
    <3> HIDE DEF w
    <3>2. Form(emitted, 1) = Form(w, 1)
      BY <3>1, FormSame
    <3> QED BY <1>7, <3>1, <3>2
  <2> QED BY <1>1, <1>2, <1>6, <1>7, <1>8, <2>1 DEF DigestsOK
<1> QED BY <1>1, <1>2, <1>3, <1>7, <1>9, <1>10 DEF first

THEOREM JournalInvariant == Spec => [](Types /\ DigestsOK)
<1>1. Init => Types /\ DigestsOK
  BY InitialRow
<1>2. Types /\ DigestsOK /\ [Next]_vars => Types' /\ DigestsOK'
  <2>1. UNCHANGED vars => (Types /\ DigestsOK => Types' /\ DigestsOK')
    BY DEF vars, Types, DigestsOK, Digests
  <2> QED BY <2>1, ApplyKeeps, ReadKeeps, DamageKeeps DEF Next
<1> QED BY <1>1, <1>2, PTL DEF Spec

(* verify_integrity accepts nothing that was not written, whatever storage *)
(* did to the rows and whatever was committed between its two reads.       *)
THEOREM VerificationIsSound == Spec => []AcceptedJournalsWereWritten
<1>1. Init => AcceptedJournalsWereWritten
  BY DEF Init, AcceptedJournalsWereWritten, Unread
<1>2. Types /\ DigestsOK /\ AcceptedJournalsWereWritten /\ [Next]_vars
        => AcceptedJournalsWereWritten'
  BY StepAccepts
<1> QED BY <1>1, <1>2, JournalInvariant, PTL DEF Spec

(* The tables hold rows of their types.                                    *)
THEOREM JournalTypes == Spec => []TypeOK
<1>1. Types => TypeOK
  <2> SUFFICES ASSUME Types PROVE TypeOK
    OBVIOUS
  <2>1. \A t \in Reader : /\ reader[t].pc \in {"idle", "listed", "accepted", "refused"}
                          /\ reader[t].rows \in Rows
    BY DEF Types, ReaderState
  <2> QED BY <2>1, RowsAre DEF Types, TypeOK
<1> QED BY <1>1, JournalInvariant, PTL

------------------------------------------------------------------------------
(* A journal nobody damaged.                                               *)

(* Rows are a chain of what was emitted.                                   *)
Chained(rows) ==
  /\ DOMAIN rows = 1..Newest(rows)
  /\ \A n \in DOMAIN rows :
       rows[n] = [body |-> emitted[n], prev |-> Form(emitted, n - 1), hash |-> Form(emitted, n)]

(* ... of which a reader has seen a beginning.                             *)
Sound ==
  /\ Chained(events) /\ DOMAIN events # {}
  /\ Newest(checkpoints) = Newest(events)
  /\ checkpoints[Newest(events)].hash = Form(emitted, Newest(events))
  /\ \A t \in Reader : reader[t].pc = "listed" =>
       /\ DOMAIN reader[t].rows # {}
       /\ DOMAIN reader[t].rows \subseteq DOMAIN events
       /\ reader[t].rows = [n \in 1..Newest(reader[t].rows) |-> events[n]]

Undamaged == damage = 0 => Sound

LEMMA ApplySound ==
  ASSUME Types, DigestsOK, Sound, NEW n \in {1, 2}, NEW body \in Body,
         NEW status \in {"open", "terminal"}, Apply(n, body, status)
  PROVE  /\ Sound' /\ Newest(events) \in Nat /\ Newest(events)' = Newest(events) + n
         /\ Newest(checkpoints)' = Newest(events)'
<1> DEFINE tail == Newest(events)
           last == Newest(events) + n
           f == EmittedNext(n, body)
           A == Appended(n, body)
<1>1. /\ tail = Newest(events) /\ last = tail + n /\ last \in Seqs /\ f = EmittedNext(n, body)
      /\ A = Appended(n, body) /\ emitted' = f /\ events' = A /\ reader' = reader
      /\ \E state : checkpoints' = With(checkpoints, last, [state |-> state, hash |-> A[last].hash])
  BY DEF Apply, Checkpointed, EmittedNext
<1> HIDE DEF tail, last, f, A
<1>2. /\ tail \in Nat /\ f \in [Seqs -> Body] /\ A \in Rows
      /\ DOMAIN A = DOMAIN events \cup tail + 1 .. last
      /\ \A i \in DOMAIN events : A[i] = events[i] /\ i <= tail
      /\ \A i \in tail + 1 .. last :
           A[i] = [body |-> body, prev |-> Form(f, i - 1), hash |-> Form(f, i)]
      /\ Digests(A, f) /\ Newest(A) = last
  <2>1. /\ Digests(events, emitted) /\ tail + n \in Seqs /\ tail = Newest(events)
        /\ f = EmittedNext(n, body) /\ A = Appended(n, body)
    BY <1>1 DEF DigestsOK
  <2>2. AppendsLinked(n, body, tail, f)
    BY <2>1, AppendedRows
  <2>3. last = tail + n
    BY <1>1
  <2> QED BY <2>1, <2>2, <2>3 DEF AppendsLinked
<1>3. \A i \in 1..last : f[i] = IF i <= tail THEN emitted[i] ELSE body
  <2>1. last \in Nat /\ \A i \in 1..last : i \in Seqs
    BY <1>1, JournalAssumption DEF JournalAssumption, Seqs
  <2> QED BY <1>1, <1>2, <2>1 DEF EmittedNext
<1>4. DOMAIN A = 1..last /\ DOMAIN events = 1..tail
  <2>1. DOMAIN events = 1..tail
    BY <1>1 DEF Sound, Chained
  <2> QED BY <1>1, <1>2, <2>1
<1>5. \A i \in 1..last :
        A[i] = [body |-> f[i], prev |-> Form(f, i - 1), hash |-> Form(f, i)]
  <2> SUFFICES ASSUME NEW i \in 1..last
               PROVE  A[i] = [body |-> f[i], prev |-> Form(f, i - 1), hash |-> Form(f, i)]
    OBVIOUS
  <2>1. CASE i <= tail
    <3>1. i \in DOMAIN events /\ i \in Nat /\ i - 1 \in Nat
      BY <1>4, <2>1
    <3>2. \A j \in 1..i : f[j] = emitted[j]
      BY <1>1, <1>2, <1>3, <2>1
    <3>3. Form(f, i) = Form(emitted, i)
      BY <3>1, <3>2, FormSame
    <3>4. \A j \in 1..i-1 : f[j] = emitted[j]
      BY <3>2
    <3>5. Form(f, i - 1) = Form(emitted, i - 1)
      BY <3>1, <3>4, FormSame
    <3>6. events[i] = [body |-> emitted[i], prev |-> Form(emitted, i - 1), hash |-> Form(emitted, i)]
      BY <3>1 DEF Sound, Chained
    <3>7. f[i] = emitted[i]
      BY <1>3, <2>1
    <3> QED BY <1>2, <3>1, <3>3, <3>5, <3>6, <3>7
  <2>2. CASE ~(i <= tail)
    <3>1. i \in tail + 1 .. last
      BY <1>1, <1>2, <2>2
    <3>2. f[i] = body
      BY <1>3, <2>2
    <3> QED BY <1>2, <3>1, <3>2
  <2> QED BY <2>1, <2>2
<1>6. last \in 1..last /\ last \in DOMAIN A
  BY <1>1, <1>2, <1>4
<1>7. Newest(checkpoints)' = last /\ checkpoints'[last].hash = Form(f, last)
  <2>1. PICK state :
          checkpoints' = With(checkpoints, last, [state |-> state, hash |-> A[last].hash])
    BY <1>1
  <2>2. DOMAIN checkpoints' = DOMAIN checkpoints \cup {last}
        /\ checkpoints'[last].hash = A[last].hash
    BY <2>1 DEF With
  <2>3. DOMAIN checkpoints' \subseteq Seqs
    BY <1>1, <2>2 DEF Types
  <2>4. \A i \in DOMAIN checkpoints : i <= tail /\ i \in Nat
    BY <1>1, NewestRow DEF Types, Sound, Seqs
  <2>5. \A i \in DOMAIN checkpoints' : i <= last
    BY <1>1, <1>2, <2>2, <2>4
  <2>6. Newest(checkpoints') = last
    BY <2>2, <2>3, <2>5, NewestIs
  <2>7. A[last].hash = Form(f, last)
    BY <1>2, <1>6 DEF Digests
  <2> QED BY <2>2, <2>6, <2>7 DEF Newest
<1>8. Newest(events)' = last
  BY <1>1, <1>2 DEF Newest
<1>9. Chained(events)' /\ DOMAIN events' # {}
  BY <1>1, <1>4, <1>5, <1>6, <1>8 DEF Chained
<1>10. \A t \in Reader : reader'[t].pc = "listed" =>
         /\ DOMAIN reader'[t].rows # {}
         /\ DOMAIN reader'[t].rows \subseteq DOMAIN events'
         /\ reader'[t].rows = [i \in 1..Newest(reader'[t].rows) |-> events'[i]]
  <2> SUFFICES ASSUME NEW t \in Reader, reader[t].pc = "listed"
               PROVE  /\ DOMAIN reader[t].rows # {}
                      /\ DOMAIN reader[t].rows \subseteq DOMAIN A
                      /\ reader[t].rows = [i \in 1..Newest(reader[t].rows) |-> A[i]]
    BY <1>1
  <2>1. /\ DOMAIN reader[t].rows # {} /\ DOMAIN reader[t].rows \subseteq DOMAIN events
        /\ reader[t].rows = [i \in 1..Newest(reader[t].rows) |-> events[i]]
    BY DEF Sound
  <2>2. \A i \in 1..Newest(reader[t].rows) : A[i] = events[i]
    BY <1>2, <2>1
  <2> QED BY <1>2, <2>1, <2>2
<1> QED BY <1>1, <1>2, <1>7, <1>8, <1>9, <1>10 DEF Sound

(* list_events reads a beginning of a journal without gaps, up to the      *)
(* limit.                                                                  *)
LEMMA ListedBeginning ==
  ASSUME Types, Sound, NEW rows, rows = Listed(0, ReadLimit)
  PROVE  /\ DOMAIN rows # {} /\ DOMAIN rows \subseteq DOMAIN events
         /\ rows = [n \in 1..Newest(rows) |-> events[n]]
<1> DEFINE N == Newest(events)
           k == IF N <= ReadLimit THEN N ELSE ReadLimit
<1>1. N \in Nat \ {0} /\ DOMAIN events = 1..N /\ 1..N \subseteq Seqs
  <2>1. DOMAIN events \subseteq Seqs
    BY RowsAre DEF Types
  <2>2. N \in DOMAIN events /\ DOMAIN events = 1..N
    BY <2>1, NewestRow DEF Sound, Chained
  <2> QED BY <2>1, <2>2 DEF Seqs
<1> HIDE DEF N
<1>2. k \in Nat \ {0} /\ k <= N /\ ReadLimit \in Nat \ {0}
  BY <1>1, JournalAssumption DEF JournalAssumption
<1>3. \A i \in 1..N : Cardinality({m \in DOMAIN events : 0 < m /\ m <= i}) = i
  <2> SUFFICES ASSUME NEW i \in 1..N
               PROVE  Cardinality({m \in DOMAIN events : 0 < m /\ m <= i}) = i
    OBVIOUS
  <2>1. {m \in DOMAIN events : 0 < m /\ m <= i} = 1..i
    BY <1>1
  <2>2. Cardinality(1..i) = i
    BY FS_Interval
  <2> QED BY <2>1, <2>2
<1>4. DOMAIN rows = {i \in 1..N : i <= ReadLimit}
  <2>1. DOMAIN rows = {i \in DOMAIN events :
          i > 0 /\ Cardinality({m \in DOMAIN events : 0 < m /\ m <= i}) <= ReadLimit}
    BY DEF Listed
  <2>2. \A i \in 1..N :
          (i > 0 /\ Cardinality({m \in DOMAIN events : 0 < m /\ m <= i}) <= ReadLimit)
            <=> i <= ReadLimit
    BY <1>1, <1>3
  <2> QED BY <1>1, <2>1, <2>2
<1>5. DOMAIN rows = 1..k
  <2>1. \A i : i \in 1..N /\ i <= ReadLimit <=> i \in 1..k
    BY <1>1, <1>2
  <2> QED BY <1>4, <2>1
<1>6. rows = [n \in 1..k |-> events[n]]
  BY <1>5 DEF Listed
<1>7. Newest(rows) = k
  <2>1. k \in DOMAIN rows /\ DOMAIN rows \subseteq Seqs /\ \A i \in DOMAIN rows : i <= k
    BY <1>1, <1>2, <1>5
  <2> HIDE DEF k
  <2> QED BY <2>1, NewestIs
<1>8. 1 \in 1..k /\ \A i \in 1..k : i \in 1..N
  BY <1>1, <1>2
<1> HIDE DEF k
<1> QED BY <1>1, <1>5, <1>6, <1>7, <1>8

LEMMA StepUndamaged ==
  ASSUME Types, DigestsOK, Undamaged, [Next]_vars
  PROVE  Undamaged'
<1>1. CASE Damage
  <2>1. damage' # 0
    BY <1>1 DEF Damage, Types
  <2> QED BY <2>1 DEF Undamaged
<1>2. ASSUME NEW n \in {1, 2}, NEW body \in Body, NEW status \in {"open", "terminal"},
             Apply(n, body, status)
      PROVE  Undamaged'
  <2>1. damage' = damage
    BY <1>2 DEF Apply
  <2> QED BY <1>2, <2>1, ApplySound DEF Undamaged
<1>3. ASSUME UNCHANGED <<events, checkpoints, emitted, damage>>,
             Sound => \A u \in Reader : reader'[u].pc = "listed" =>
               \/ reader'[u] = reader[u]
               \/ reader'[u].rows = Listed(0, ReadLimit)
      PROVE  Undamaged'
  <2>1. CASE damage # 0
    BY <1>3, <2>1 DEF Undamaged
  <2>2. CASE Sound
    <3>1. \A u \in Reader : reader'[u].pc = "listed" =>
         /\ DOMAIN reader'[u].rows # {}
         /\ DOMAIN reader'[u].rows \subseteq DOMAIN events
         /\ reader'[u].rows = [i \in 1..Newest(reader'[u].rows) |-> events[i]]
      BY <1>3, <2>2, ListedBeginning DEF Sound
    <3>2. Chained(events)' /\ Newest(checkpoints)' = Newest(checkpoints)
          /\ Newest(events)' = Newest(events)
      BY <1>3, <2>2 DEF Sound, Chained
    <3> QED BY <1>3, <2>2, <3>1, <3>2 DEF Undamaged, Sound
  <2> QED BY <2>1, <2>2 DEF Undamaged
<1>4. ASSUME NEW t \in Reader, Read(t)
      PROVE  Undamaged'
  <2>1. \A u \in Reader : reader'[u].pc = "listed" =>
               \/ reader'[u] = reader[u]
               \/ reader'[u].rows = Listed(0, ReadLimit)
    BY <1>4 DEF Read, ReadEvents, CheckTail, WriteProjection, Finish, Unread, Types, ReaderState
  <2> QED BY <1>3, <1>4, <2>1 DEF Read, ReadEvents, CheckTail, WriteProjection, Finish, tables
<1>5. CASE UNCHANGED vars
  BY <1>3, <1>5 DEF vars
<1> QED BY <1>1, <1>2, <1>4, <1>5 DEF Next

(* A verification of all of an undamaged journal succeeds.                 *)
LEMMA SoundVerifies ==
  ASSUME Types, Sound, NEW t \in Reader, reader[t].pc = "listed"
  PROVE  \/ Newest(events) > Newest(reader[t].rows)
         \/ Verifies(reader[t].rows)
<1> DEFINE rows == reader[t].rows
<1>1. /\ DOMAIN rows # {} /\ DOMAIN rows \subseteq DOMAIN events
      /\ rows = [i \in 1..Newest(rows) |-> events[i]]
  BY DEF Sound
<1> HIDE DEF rows
<1>2. /\ DOMAIN events \subseteq Seqs /\ DOMAIN rows \subseteq Seqs
      /\ DOMAIN events = 1..Newest(events)
  BY <1>1, RowsAre DEF Types, Sound, Chained
<1>3. Newest(events) \in Nat /\ Newest(rows) \in Nat /\ Newest(rows) <= Newest(events)
      /\ Newest(rows) \in DOMAIN rows /\ Newest(rows) # 0
  <2>1. /\ Newest(rows) \in DOMAIN rows /\ Newest(rows) \in 0..MaxSeq
        /\ Newest(events) \in 0..MaxSeq /\ \A i \in DOMAIN events : i <= Newest(events)
        /\ Newest(rows) # 0
    BY <1>1, <1>2, NewestRow
  <2> QED BY <1>1, <2>1, JournalAssumption DEF JournalAssumption
<1>4. ASSUME Newest(rows) = Newest(events)
      PROVE  Verifies(rows)
  <2>1. DOMAIN rows = 1..Newest(events) /\ \A n \in DOMAIN rows : rows[n] = events[n]
    BY <1>1, <1>4
  <2>2. TailCovered(rows)
    <3>1. rows[Newest(rows)].hash = Form(emitted, Newest(events))
      BY <1>2, <1>3, <1>4, <2>1 DEF Sound, Chained
    <3> QED BY <1>4, <3>1 DEF Sound, TailCovered
  <2>3. ChainHolds(rows)
    <3> SUFFICES ASSUME NEW n \in DOMAIN rows
                 PROVE  /\ n = 1 \/ n - 1 \in DOMAIN rows
                        /\ rows[n].prev = IF n = 1 THEN Genesis ELSE rows[n - 1].hash
                        /\ rows[n].hash = Digest(rows[n].prev, n, rows[n].body)
      BY DEF ChainHolds
    <3>1. rows[n] = [body |-> emitted[n], prev |-> Form(emitted, n - 1),
                     hash |-> Form(emitted, n)]
      BY <1>2, <2>1 DEF Sound, Chained
    <3>2. n \in Nat \ {0} /\ n - 1 \in Nat /\ (n = 1 \/ n - 1 \in DOMAIN rows)
      BY <1>3, <2>1
    <3>3. Digest(Form(emitted, n - 1), n - 1 + 1, emitted[n - 1 + 1]) = Form(emitted, n - 1 + 1)
      BY <3>2, FormNext
    <3>4. n - 1 + 1 = n
      BY <3>2
    <3>5. CASE n = 1
      <4>1. Form(emitted, 0) = Genesis
        BY DEF Form, Genesis
      <4> QED BY <3>1, <3>3, <3>4, <3>5, <4>1
    <3>6. CASE n # 1
      <4>1. rows[n - 1].hash = Form(emitted, n - 1)
        BY <1>2, <2>1, <3>2, <3>6 DEF Sound, Chained
      <4> QED BY <3>1, <3>2, <3>3, <3>4, <3>6, <4>1
    <3> QED BY <3>5, <3>6
  <2> QED BY <1>1, <2>2, <2>3 DEF Verifies
<1> QED BY <1>3, <1>4 DEF rows

LEMMA StepRefuses ==
  ASSUME Types, DigestsOK, Undamaged, FalseAlarmsNeedARace, [Next]_vars
  PROVE  FalseAlarmsNeedARace'
<1>1. CASE Damage
  BY <1>1 DEF Damage, Types, FalseAlarmsNeedARace
<1>2. ASSUME NEW n \in {1, 2}, NEW body \in Body, NEW status \in {"open", "terminal"},
             Apply(n, body, status)
      PROVE  FalseAlarmsNeedARace'
  <2>1. damage' = damage /\ reader' = reader
    BY <1>2 DEF Apply
  <2> SUFFICES ASSUME NEW t \in Reader, reader[t].pc = "refused", ~(damage > 0)
               PROVE  Newest(events)' > Newest(reader[t].rows)
    BY <2>1 DEF FalseAlarmsNeedARace
  <2>2. damage = 0
    BY DEF Types
  <2>3. Newest(events) \in Nat /\ Newest(events)' = Newest(events) + n
    BY <1>2, <2>2, ApplySound DEF Undamaged
  <2>4. Newest(events) > Newest(reader[t].rows)
    BY DEF FalseAlarmsNeedARace
  <2>5. Newest(reader[t].rows) \in Nat
    <3>1. reader[t].rows \in Rows
      BY DEF Types, ReaderState
    <3> QED BY <3>1, RowsAre, NewestRow, JournalAssumption DEF JournalAssumption
  <2> QED BY <2>3, <2>4, <2>5
<1>3. ASSUME UNCHANGED <<events, damage>>,
             \A u \in Reader : reader'[u].pc = "refused" =>
               \/ reader'[u] = reader[u]
               \/ /\ reader'[u].rows = reader[u].rows /\ reader[u].pc = "listed"
                  /\ ~Verifies(reader[u].rows)
      PROVE  FalseAlarmsNeedARace'
  <2> SUFFICES ASSUME NEW u \in Reader, reader'[u].pc = "refused", ~(damage > 0)
               PROVE  Newest(events) > Newest(reader'[u].rows)
    BY <1>3 DEF FalseAlarmsNeedARace
  <2>1. Sound
    BY DEF Types, Undamaged
  <2> QED BY <1>3, <2>1, SoundVerifies DEF FalseAlarmsNeedARace
<1>4. ASSUME NEW t \in Reader, Read(t)
      PROVE  FalseAlarmsNeedARace'
  <2>1. \A u \in Reader : reader'[u].pc = "refused" =>
               \/ reader'[u] = reader[u]
               \/ /\ reader'[u].rows = reader[u].rows /\ reader[u].pc = "listed"
                  /\ ~Verifies(reader[u].rows)
    BY <1>4 DEF Read, ReadEvents, CheckTail, WriteProjection, Finish, Unread, Types, ReaderState
  <2> QED BY <1>3, <1>4, <2>1 DEF Read, ReadEvents, CheckTail, WriteProjection, Finish, tables
<1>5. CASE UNCHANGED vars
  BY <1>3, <1>5 DEF vars
<1> QED BY <1>1, <1>2, <1>4, <1>5 DEF Next

LEMMA InitialSound ==
  ASSUME Init
  PROVE  Sound
<1>1. 1 \in Seqs
  BY JournalAssumption DEF JournalAssumption, Seqs
<1>2. Newest(events) = 1 /\ Newest(checkpoints) = 1
  BY <1>1, InitialRow, NewestIs
<1>3. checkpoints[1].hash = Form(emitted, 1)
  BY InitialRow DEF Init
<1>4. Chained(events)
  BY <1>2, InitialRow DEF Chained
<1>5. \A t \in Reader : reader[t].pc # "listed"
  BY DEF Init, Unread
<1> QED BY <1>2, <1>3, <1>4, <1>5, InitialRow DEF Sound

THEOREM UndamagedInvariant == Spec => []Undamaged
<1>1. Init => Undamaged
  BY InitialSound DEF Undamaged
<1>2. Types /\ DigestsOK /\ Undamaged /\ [Next]_vars => Undamaged'
  BY StepUndamaged
<1> QED BY <1>1, <1>2, JournalInvariant, PTL DEF Spec

(* An undamaged journal is refused only after a transition between the two *)
(* reads of the verification, or because it is too long for it.            *)
THEOREM RefusalsAreExplained == Spec => []FalseAlarmsNeedARace
<1>1. Init => FalseAlarmsNeedARace
  BY DEF Init, FalseAlarmsNeedARace, Unread
<1>2. Types /\ DigestsOK /\ Undamaged /\ FalseAlarmsNeedARace /\ [Next]_vars
        => FalseAlarmsNeedARace'
  BY StepRefuses
<1> QED BY <1>1, <1>2, JournalInvariant, UndamagedInvariant, PTL DEF Spec

(* On an undamaged database the newest checkpoint says what the projection *)
(* says, so restore_run rewrites the row with itself.                      *)
LEMMA StepRestoresSame ==
  ASSUME Types, DigestsOK, Undamaged, Undamaged', RestoringChangesNothing, [Next]_vars
  PROVE  RestoringChangesNothing'
<1> SUFFICES ASSUME damage' = 0
             PROVE  projection' = checkpoints'[Newest(checkpoints')].state
  BY DEF RestoringChangesNothing, Undamaged, Sound
<1>1. ~Damage
  BY DEF Damage, Types
<1>2. damage = 0
  BY <1>1 DEF Next, vars, Apply, Read, ReadEvents, CheckTail, WriteProjection, Finish, tables
<1>3. Sound /\ projection = checkpoints[Newest(checkpoints)].state
  BY <1>2 DEF Undamaged, RestoringChangesNothing
<1>4. ASSUME NEW n \in {1, 2}, NEW body \in Body, NEW status \in {"open", "terminal"},
             Apply(n, body, status)
      PROVE  projection' = checkpoints'[Newest(checkpoints')].state
  <2> DEFINE last == Newest(events) + n
  <2>1. Newest(checkpoints') = last
    BY <1>3, <1>4, ApplySound
  <2>2. \E hash : checkpoints' = With(checkpoints, last, [state |-> projection', hash |-> hash])
    BY <1>4 DEF Apply, Checkpointed
  <2> HIDE DEF last
  <2>3. checkpoints'[last].state = projection'
    BY <2>2 DEF With
  <2> QED BY <2>1, <2>3
<1>5. ASSUME NEW t \in Reader, Read(t)
      PROVE  projection' = checkpoints'[Newest(checkpoints')].state
  BY <1>3, <1>5 DEF Read, ReadEvents, CheckTail, WriteProjection, Finish, tables
<1>6. CASE UNCHANGED vars
  BY <1>3, <1>6 DEF vars
<1> QED BY <1>1, <1>4, <1>5, <1>6 DEF Next

(* Restoring an undamaged run is no step of it, at whatever point of other *)
(* transitions restore_run's own transaction comes (storage.py,            *)
(* restore_run).                                                           *)
THEOREM RestoreIsIdentity == Spec => []RestoringChangesNothing
<1>1. Init => RestoringChangesNothing
  <2> SUFFICES ASSUME Init PROVE RestoringChangesNothing
    OBVIOUS
  <2>1. Newest(events) = 1 /\ Newest(checkpoints) = 1
    BY InitialSound, InitialRow, NewestIs, JournalAssumption DEF JournalAssumption, Seqs
  <2>2. checkpoints[1].state = projection
    BY DEF Init
  <2> QED BY <2>1, <2>2 DEF RestoringChangesNothing
<1>2. /\ Types /\ DigestsOK /\ Undamaged /\ Undamaged' /\ RestoringChangesNothing /\ [Next]_vars
      => RestoringChangesNothing'
  BY StepRestoresSame
<1> QED BY <1>1, <1>2, JournalInvariant, UndamagedInvariant, PTL DEF Spec

------------------------------------------------------------------------------
(* Restoring, while at most one row is damaged.                            *)

(* A lost event may put the next transition where the newest checkpoint    *)
(* is, and its transaction fails; it never puts it below.                  *)
Lag == Newest(checkpoints) <= Newest(events) + damage

LEMMA NewestBounds ==
  ASSUME Types
  PROVE  /\ Newest(events) \in Nat /\ Newest(checkpoints) \in Nat /\ damage \in Nat
         /\ \A i \in DOMAIN events : i \in Nat /\ i <= Newest(events)
         /\ \A i \in DOMAIN checkpoints : i \in Nat /\ i <= Newest(checkpoints)
         /\ DOMAIN events \subseteq Seqs /\ DOMAIN checkpoints \subseteq Seqs
<1>1. DOMAIN events \subseteq Seqs /\ DOMAIN checkpoints \subseteq Seqs
  BY RowsAre DEF Types
<1>2. \A i \in Seqs : i \in Nat
  BY DEF Seqs
<1>3. \A n \in 0..MaxSeq : n \in Nat
  BY JournalAssumption DEF JournalAssumption
<1>4. damage \in Nat
  BY JournalAssumption DEF JournalAssumption, Types
<1> QED BY <1>1, <1>2, <1>3, <1>4, NewestRow

LEMMA ApplyIsNewest ==
  ASSUME MaxDamage <= 1, Types, DigestsOK, Lag, NEW n \in {1, 2}, NEW body \in Body,
         NEW status \in {"open", "terminal"}, Apply(n, body, status)
  PROVE  LET last == Newest(events) + n IN
         /\ last \in Seqs /\ \A i \in DOMAIN checkpoints : i < last
         /\ Newest(events') = last /\ Newest(checkpoints') = last
<1> DEFINE tail == Newest(events)
           last == Newest(events) + n
<1>1. /\ last \in Seqs /\ last \notin DOMAIN checkpoints /\ events' = Appended(n, body)
      /\ DOMAIN checkpoints' = DOMAIN checkpoints \cup {last}
  BY DEF Apply, Checkpointed, With
<1>2. damage \in Nat /\ damage <= 1
  BY NewestBounds, JournalAssumption DEF JournalAssumption, Types
<1>3. tail \in Nat /\ Newest(checkpoints) \in Nat /\ Newest(checkpoints) <= tail + damage
  BY NewestBounds DEF Lag
<1> HIDE DEF tail
<1>4. \A i \in DOMAIN checkpoints : i < last
  <2> SUFFICES ASSUME NEW i \in DOMAIN checkpoints PROVE i < last
    OBVIOUS
  <2>1. i \in Nat /\ i <= Newest(checkpoints) /\ i # last
    BY <1>1, NewestBounds
  <2>2. last = tail + n
    BY DEF tail
  <2> HIDE DEF last
  <2> QED BY <1>2, <1>3, <2>1, <2>2
<1>5. Newest(events') = last
  <2>1. AppendsLinked(n, body, tail, EmittedNext(n, body))
    BY <1>1, AppendedRows DEF DigestsOK, tail
  <2> QED BY <1>1, <2>1 DEF AppendsLinked, tail
<1>6. Newest(checkpoints') = last
  <2>1. last \in DOMAIN checkpoints' /\ DOMAIN checkpoints' \subseteq Seqs
    BY <1>1, NewestBounds
  <2>2. \A i \in DOMAIN checkpoints' : i <= last
    BY <1>1, <1>3, <1>4, NewestBounds DEF Seqs
  <2> HIDE DEF last
  <2> QED BY <2>1, <2>2, NewestIs
<1> QED BY <1>1, <1>4, <1>5, <1>6

LEMMA DamageLags ==
  ASSUME MaxDamage <= 1, Types, DigestsOK, Undamaged, Lag, Damage
  PROVE  Lag'
<1>1. damage = 0 /\ damage' = 1
  BY NewestBounds, JournalAssumption DEF JournalAssumption, Damage
<1>2. Sound
  BY <1>1 DEF Undamaged
<1> DEFINE N == Newest(events)
<1>3. N \in Nat /\ Newest(checkpoints) = N /\ DOMAIN events = 1..N /\ 1..N \subseteq Seqs
  BY <1>2, NewestBounds DEF Sound, Chained
<1>4. ASSUME DOMAIN events' \subseteq Seqs, DOMAIN checkpoints' \subseteq Seqs,
             N - 1 \in DOMAIN events' \/ N \in DOMAIN events' \/ N <= 1,
             DOMAIN checkpoints' \subseteq DOMAIN checkpoints
      PROVE  Lag'
  <2>1. /\ Newest(events') \in 0..MaxSeq /\ \A i \in DOMAIN events' : i <= Newest(events')
        /\ Newest(checkpoints') \in 0..MaxSeq
        /\ Newest(checkpoints') = 0 \/ Newest(checkpoints') \in DOMAIN checkpoints'
    BY <1>4, NewestRow
  <2>2. Newest(checkpoints') <= N
    BY <1>3, <1>4, <2>1, NewestBounds
  <2>3. N <= Newest(events') + 1
    BY <1>3, <1>4, <2>1, JournalAssumption DEF JournalAssumption
  <2>4. Newest(checkpoints') \in Nat /\ Newest(events') \in Nat
    BY <2>1, JournalAssumption DEF JournalAssumption
  <2> HIDE DEF N
  <2> QED BY <1>1, <1>3, <2>2, <2>3, <2>4 DEF Lag
<1>5. N \in DOMAIN events
  BY <1>2, NewestRow, NewestBounds DEF Sound
<1>6. CASE DOMAIN events' = DOMAIN events /\ DOMAIN checkpoints' = DOMAIN checkpoints
  BY <1>4, <1>5, <1>6, NewestBounds
<1>7. ASSUME NEW n \in DOMAIN events, events' = Without(events, n), UNCHANGED checkpoints
      PROVE  Lag'
  <2>1. DOMAIN events' = (1..N) \ {n}
    BY <1>3, <1>7 DEF Without
  <2>2. N - 1 \in DOMAIN events' \/ N \in DOMAIN events' \/ N <= 1
    BY <1>3, <2>1
  <2> QED BY <1>3, <1>4, <1>7, <2>1, <2>2, NewestBounds
<1>8. ASSUME NEW n \in DOMAIN checkpoints, checkpoints' = Without(checkpoints, n),
             UNCHANGED events
      PROVE  Lag'
  BY <1>4, <1>5, <1>8, NewestBounds DEF Without
<1>9. ASSUME NEW n \in DOMAIN events, NEW b, events' = [events EXCEPT ![n].body = b]
      PROVE  DOMAIN events' = DOMAIN events
  BY <1>9
<1> QED BY <1>6, <1>7, <1>8, <1>9 DEF Damage

LEMMA StepLags ==
  ASSUME MaxDamage <= 1, Types, DigestsOK, Undamaged, Lag, [Next]_vars
  PROVE  Lag'
<1>1. ASSUME NEW n \in {1, 2}, NEW body \in Body, NEW status \in {"open", "terminal"},
             Apply(n, body, status)
      PROVE  Lag'
  <2>1. Newest(events') = Newest(events) + n /\ Newest(checkpoints') = Newest(events) + n
    BY <1>1, ApplyIsNewest
  <2>2. damage' = damage
    BY <1>1 DEF Apply
  <2> QED BY <2>1, <2>2, NewestBounds DEF Lag
<1>2. CASE Damage
  BY <1>2, DamageLags
<1>3. CASE UNCHANGED <<events, checkpoints, damage>>
  BY <1>3 DEF Lag
<1>4. ASSUME NEW t \in Reader, Read(t)
      PROVE  UNCHANGED <<events, checkpoints, damage>>
  BY <1>4 DEF Read, ReadEvents, CheckTail, WriteProjection, Finish, tables
<1> QED BY <1>1, <1>2, <1>3, <1>4 DEF Next, vars

(* The step of the abstract run that a step of the journal is.             *)
LEMMA StepIsDurable ==
  ASSUME MaxDamage <= 1, Types, Types', DigestsOK, Lag, [Next]_vars
  PROVE  [Durable!Next]_<<[n \in DOMAIN checkpoints |-> checkpoints[n].state], projection, damage>>
<1> DEFINE saved == [n \in DOMAIN checkpoints |-> checkpoints[n].state]
<1>0. \A i \in DOMAIN checkpoints : checkpoints[i].state \in State
  BY DEF Types, Checkpoint
<1>1. ASSUME NEW n \in {1, 2}, NEW body \in Body, NEW status \in {"open", "terminal"},
             Apply(n, body, status)
      PROVE  Durable!Commit
  <2> DEFINE last == Newest(events) + n
  <2>1. last \in Seqs /\ \A i \in DOMAIN checkpoints : i < last
    BY <1>1, ApplyIsNewest
  <2>2. PICK state, hash :
          /\ checkpoints' = With(checkpoints, last, [state |-> state, hash |-> hash])
          /\ projection' = state /\ state.revision = projection.revision + 1
          /\ damage' = damage
    <3>1. LET state == [revision |-> projection.revision + 1, status |-> status]
              hash == Appended(n, body)[last].hash IN
          /\ checkpoints' = With(checkpoints, last, [state |-> state, hash |-> hash])
          /\ projection' = state /\ state.revision = projection.revision + 1
          /\ damage' = damage
      BY <1>1 DEF Apply, Checkpointed
    <3> QED BY <3>1
  <2>3. state \in State
    BY <2>2 DEF Types
  <2> HIDE DEF last
  <2>4. saved' = [i \in DOMAIN saved \cup {last} |-> IF i = last THEN state ELSE saved[i]]
    BY <2>2 DEF With
  <2> QED BY <2>1, <2>2, <2>3, <2>4 DEF Durable!Commit
<1>2. ASSUME NEW t \in Reader, WriteProjection(t)
      PROVE  Durable!Restore
  <2>1. /\ DOMAIN checkpoints \subseteq Seqs /\ DOMAIN checkpoints # {}
        /\ projection' = checkpoints[Newest(checkpoints)].state
        /\ checkpoints' = checkpoints /\ damage' = damage
    BY <1>2, NewestBounds DEF WriteProjection
  <2>2. Newest(checkpoints) \in DOMAIN checkpoints
        /\ \A i \in DOMAIN checkpoints : i <= Newest(checkpoints)
    BY <2>1, NewestRow
  <2> QED BY <2>1, <2>2 DEF Durable!Restore
<1>3. CASE Damage
  <2>1. damage' = damage + 1 /\ projection' \in State
    BY <1>3 DEF Damage, Types
  <2>2. CASE UNCHANGED checkpoints
    BY <2>1, <2>2 DEF Durable!Fault, Durable!Next
  <2>3. ASSUME NEW n \in DOMAIN checkpoints, checkpoints' = Without(checkpoints, n),
               UNCHANGED projection
        PROVE  Durable!Fault
    <3>1. saved' = [i \in DOMAIN saved \ {n} |-> saved[i]]
      BY <2>3 DEF Without
    <3> QED BY <2>1, <2>3, <3>1 DEF Durable!Fault
  <2> QED BY <1>3, <2>2, <2>3 DEF Damage, Durable!Next
<1>4. ASSUME NEW t \in Reader, ReadEvents(t) \/ CheckTail(t) \/ Finish(t)
      PROVE  UNCHANGED <<saved, projection, damage>>
  BY <1>4 DEF ReadEvents, CheckTail, Finish, tables
<1>5. CASE UNCHANGED vars
  BY <1>5 DEF vars
<1> QED BY <1>1, <1>2, <1>3, <1>4, <1>5 DEF Next, Read, Durable!Next

(* With at most one row damaged the tables implement DurableRun: a restore *)
(* makes the projection the newest saved state, and takes no transition    *)
(* back that committed while it was at work (storage.py, restore_run).     *)
THEOREM RestoreIsDurable == MaxDamage <= 1 => (Spec => RestoresNewest)
<1> SUFFICES ASSUME MaxDamage <= 1 PROVE Spec => RestoresNewest
  OBVIOUS
<1>1. Init => Lag
  <2> SUFFICES ASSUME Init PROVE Lag
    OBVIOUS
  <2>1. Sound /\ Types /\ damage = 0
    BY InitialSound, InitialRow
  <2> QED BY <2>1, NewestBounds DEF Sound, Lag
<1>2. Types /\ DigestsOK /\ Undamaged /\ Lag /\ [Next]_vars => Lag'
  BY StepLags
<1>3. Init => Durable!Init
  <2> SUFFICES ASSUME Init PROVE Durable!Init
    OBVIOUS
  <2>1. 1 \in Seqs /\ projection \in State
    BY InitialRow, JournalAssumption DEF JournalAssumption, Seqs, Types
  <2>2. DOMAIN checkpoints = {1} /\ checkpoints[1].state = projection /\ damage = 0
    BY DEF Init
  <2> QED BY <2>1, <2>2 DEF Durable!Init
<1>4. Types /\ Types' /\ DigestsOK /\ Lag /\ [Next]_vars =>
        [Durable!Next]_<<[n \in DOMAIN checkpoints |-> checkpoints[n].state], projection, damage>>
  BY StepIsDurable
<1> QED
  BY <1>1, <1>2, <1>3, <1>4, JournalInvariant, UndamagedInvariant, PTL
  DEF Spec, RestoresNewest, Durable!Spec

==============================================================================
