------------------------------- MODULE Journal -------------------------------
(***************************************************************************)
(* The three tables of storage.py that hold one run: the projection (row   *)
(* of runs), the events, chained by digests, and the checkpoints.  Every   *)
(* transition writes all three in one transaction; verify_integrity and    *)
(* restore_run read and repair them in several, while transitions go on.   *)
(* Storage may damage single rows in between.                              *)
(*                                                                         *)
(* Of a transition this module keeps how many events it emits and whether  *)
(* the state it leads to is terminal; Supervisor.tla says which            *)
(* transitions there are.                                                  *)
(***************************************************************************)
EXTENDS Naturals, Sequences, FiniteSets

CONSTANTS
  Body,        \* contents of events: type, node, payload, time, key
  Garbage,     \* contents a damaged row may have; may be in Body
  Reader,      \* callers of restore_run and verify_integrity
  ReadLimit,   \* the limit verify_integrity gives list_events: 1,000,000
  Damages,     \* what storage may do to a row: see Damage
  MaxSeq,      \* bound: sequence numbers of events
  MaxRevision, \* bound: revisions of states
  MaxDamage    \* bound: rows damaged

ASSUME JournalAssumption ==
  /\ ReadLimit \in Nat \ {0} /\ MaxSeq \in Nat \ {0} /\ MaxRevision \in Nat \ {0}
  /\ MaxDamage \in Nat /\ Body # {}
  /\ Damages \subseteq {"projection", "event", "lost_event", "lost_checkpoint"}

VARIABLES
  projection,   \* runs.state_json
  events,       \* table events: the rows by sequence number
  checkpoints,  \* table checkpoints: the rows by sequence number
  reader,       \* each reader: where it is, and the rows it has read
  emitted,      \* history: the body last emitted for a sequence number
  written,      \* history: each journal a transaction left, as bodies
  damage        \* number of rows damaged so far

tables == <<projection, events, checkpoints, emitted, written, damage>>

Seqs == 1..MaxSeq
State == [revision: 1..MaxRevision, status: {"open", "terminal"}]

(* SHA-256 of an event's canonical JSON, the previous digest among it: a   *)
(* digest stands for its event and every event before it.                  *)
Genesis == <<>>

(* Mutated form of Digest: the sequence number left out.                   *)
DigestUnnumbered(prev, seq, body) == Append(prev, [seq |-> 0, body |-> body])

Digest(prev, seq, body) == Append(prev, [seq |-> seq, body |-> body])

DigestValue == Seq([seq: Seqs, body: Body])
Event == [body: Body \cup Garbage, prev: DigestValue, hash: DigestValue]
Checkpoint == [state: State, hash: DigestValue]

(* SELECT ... ORDER BY seq DESC LIMIT 1; 0 when there is no row.           *)
Newest(rows) ==
  IF DOMAIN rows = {} THEN 0
  ELSE CHOOSE n \in DOMAIN rows : \A i \in DOMAIN rows : i <= n

Without(rows, n) == [i \in DOMAIN rows \ {n} |-> rows[i]]
With(rows, n, row) == [i \in DOMAIN rows \cup {n} |-> IF i = n THEN row ELSE rows[i]]

------------------------------------------------------------------------------
(* One transition.                                                         *)

(* An event as _append_events writes it after an event with digest prev.   *)
Linked(prev, seq, body) == [body |-> body, prev |-> prev, hash |-> Digest(prev, seq, body)]

(* The events table after n more events, which stand for the one to three  *)
(* a transition emits.                                                     *)
Appended(n, body) ==
  LET tail == Newest(events)
      prev == IF tail = 0 THEN Genesis ELSE events[tail].hash
      first == Linked(prev, tail + 1, body)
      one == With(events, tail + 1, first) IN
  IF n = 1 THEN one ELSE With(one, tail + 2, Linked(first.hash, tail + 2, body))

(* Mutated form of Checkpointed: the checkpoint carries the first of the   *)
(* transition's events, events[0] for events[-1].                          *)
CheckpointedFirst(state, last, rows) ==
  LET first == Newest(events) + 1 IN
  With(checkpoints, first, [state |-> state, hash |-> rows[first].hash])

Checkpointed(state, last, rows) ==
  With(checkpoints, last, [state |-> state, hash |-> rows[last].hash])

(* apply: the new state is made of the projection, whatever the checkpoint *)
(* says.  A checkpoint that is already there is an IntegrityError: the     *)
(* transaction leaves nothing.                                             *)
Apply(n, body, status) ==
  LET last == Newest(events) + n
      state == [revision |-> projection.revision + 1, status |-> status] IN
  /\ last \in Seqs /\ projection.revision < MaxRevision
  /\ last \notin DOMAIN checkpoints
  /\ events' = Appended(n, body)
  /\ checkpoints' = Checkpointed(state, last, Appended(n, body))
  /\ projection' = state
  /\ emitted' = [i \in Seqs |-> IF i \in Newest(events) + 1 .. last THEN body ELSE emitted[i]]
  /\ written' = written \cup {[i \in 1..last |-> emitted'[i]]}
  /\ UNCHANGED <<reader, damage>>

------------------------------------------------------------------------------
(* The readers.                                                            *)

(* list_events: the rows after a sequence number, oldest first, up to the  *)
(* limit.                                                                  *)
Listed(after, limit) ==
  [n \in {i \in DOMAIN events :
            i > after /\ Cardinality({m \in DOMAIN events : after < m /\ m <= i}) <= limit}
   |-> events[n]]

Unread == [pc |-> "idle", rows |-> <<>>]

(* verify_integrity's first transaction.                                   *)
ReadEvents(t) ==
  /\ reader[t].pc = "idle"
  /\ reader' = [reader EXCEPT ![t] = [pc |-> "listed", rows |-> Listed(0, ReadLimit)]]
  /\ UNCHANGED tables

(* Mutated form of ChainHolds: the links are followed, but no digest is    *)
(* computed again.                                                         *)
LinksOnly(rows) ==
  \A n \in DOMAIN rows :
    /\ n = 1 \/ n - 1 \in DOMAIN rows
    /\ rows[n].prev = IF n = 1 THEN Genesis ELSE rows[n - 1].hash

(* Without a gap from 1, each event linked to the one before it, and each  *)
(* digest that of what the row says.                                       *)
ChainHolds(rows) ==
  \A n \in DOMAIN rows :
    /\ n = 1 \/ n - 1 \in DOMAIN rows
    /\ rows[n].prev = IF n = 1 THEN Genesis ELSE rows[n - 1].hash
    /\ rows[n].hash = Digest(rows[n].prev, n, rows[n].body)

(* The newest checkpoint is that of the newest event read.                 *)
TailCovered(rows) ==
  LET tail == Newest(rows) IN
  /\ Newest(checkpoints) = tail
  /\ checkpoints[tail].hash = rows[tail].hash

(* The loop over the rows and verify_integrity's second transaction.       *)
Verifies(rows) == DOMAIN rows # {} /\ ChainHolds(rows) /\ TailCovered(rows)

CheckTail(t) ==
  LET rows == reader[t].rows IN
  /\ reader[t].pc = "listed"
  /\ reader' = [reader EXCEPT ![t].pc = IF Verifies(rows) THEN "accepted" ELSE "refused"]
  /\ UNCHANGED tables

(* Mutated form of WriteProjection: the checkpoint of the tail that was    *)
(* verified is written, not the newest one.                                *)
WriteVerified(t) ==
  LET tail == Newest(reader[t].rows) IN
  /\ reader[t].pc = "accepted" /\ tail \in DOMAIN checkpoints
  /\ projection' = checkpoints[tail].state
  /\ reader' = [reader EXCEPT ![t] = Unread]
  /\ UNCHANGED <<events, checkpoints, emitted, written, damage>>

(* restore_run's own transaction: whatever checkpoint is newest by now.    *)
WriteProjection(t) ==
  /\ reader[t].pc = "accepted" /\ DOMAIN checkpoints # {}
  /\ projection' = checkpoints[Newest(checkpoints)].state
  /\ reader' = [reader EXCEPT ![t] = Unread]
  /\ UNCHANGED <<events, checkpoints, emitted, written, damage>>

(* verify-journal stops after the verification; a refusal raises, and so   *)
(* does restore_run when no checkpoint is left.                            *)
Finish(t) ==
  /\ reader[t].pc \in {"accepted", "refused"}
  /\ reader' = [reader EXCEPT ![t] = Unread]
  /\ UNCHANGED tables

------------------------------------------------------------------------------
(* Storage damages one row: the projection changes, an event's contents    *)
(* change under its digest, an event or a checkpoint is lost.              *)
Damage ==
  /\ damage < MaxDamage /\ damage' = damage + 1
  /\ \/ /\ "projection" \in Damages
        /\ projection' \in State \ {projection}
        /\ UNCHANGED <<events, checkpoints>>
     \/ /\ "event" \in Damages
        /\ \E n \in DOMAIN events : \E b \in Garbage \ {events[n].body} :
             events' = [events EXCEPT ![n].body = b]
        /\ UNCHANGED <<projection, checkpoints>>
     \/ /\ "lost_event" \in Damages
        /\ \E n \in DOMAIN events : events' = Without(events, n)
        /\ UNCHANGED <<projection, checkpoints>>
     \/ /\ "lost_checkpoint" \in Damages
        /\ \E n \in DOMAIN checkpoints : checkpoints' = Without(checkpoints, n)
        /\ UNCHANGED <<projection, events>>
  /\ UNCHANGED <<reader, emitted, written>>

(* What create_run leaves: the row, its first event, that event's          *)
(* checkpoint, all in one transaction.                                     *)
Init ==
  \E body \in Body :
    LET state == [revision |-> 1, status |-> "open"]
        first == Linked(Genesis, 1, body) IN
    /\ projection = state
    /\ events = [i \in {1} |-> first]
    /\ checkpoints = [i \in {1} |-> [state |-> state, hash |-> first.hash]]
    /\ reader = [t \in Reader |-> Unread]
    /\ emitted = [i \in Seqs |-> body]
    /\ written = {[i \in 1..1 |-> body]}
    /\ damage = 0

Read(t) == ReadEvents(t) \/ CheckTail(t) \/ WriteProjection(t) \/ Finish(t)

Next ==
  \/ \E n \in {1, 2}, body \in Body, status \in {"open", "terminal"} : Apply(n, body, status)
  \/ \E t \in Reader : Read(t)
  \/ Damage

vars == <<projection, events, checkpoints, reader, emitted, written, damage>>

Spec == Init /\ [][Next]_vars

------------------------------------------------------------------------------
TypeOK ==
  /\ projection \in State
  /\ DOMAIN events \subseteq Seqs /\ \A n \in DOMAIN events : events[n] \in Event
  /\ DOMAIN checkpoints \subseteq Seqs
  /\ \A n \in DOMAIN checkpoints : checkpoints[n] \in Checkpoint
  /\ emitted \in [Seqs -> Body]
  /\ \A w \in written : w \in Seq(Body)
  /\ \A t \in Reader :
       /\ reader[t].pc \in {"idle", "listed", "accepted", "refused"}
       /\ DOMAIN reader[t].rows \subseteq Seqs
       /\ \A n \in DOMAIN reader[t].rows : reader[t].rows[n] \in Event
  /\ damage \in 0..MaxDamage

(* Whatever rows storage damaged, and however transitions came between the *)
(* two reads of a verification: what it accepts is word for word a journal *)
(* that some transition left, never one cut inside a transition            *)
(* (storage.py, verify_integrity).                                         *)
AcceptedJournalsWereWritten ==
  \A t \in Reader :
    reader[t].pc = "accepted" =>
      [n \in DOMAIN reader[t].rows |-> reader[t].rows[n].body] \in written

(* A journal nobody damaged is refused only when a transition committed    *)
(* between the two reads, or when it is longer than verify_integrity       *)
(* reads: then every drive() of the run is refused.                        *)
FalseAlarmsNeedARace ==
  \A t \in Reader :
    reader[t].pc = "refused" =>
      \/ damage > 0
      \/ Newest(events) > Newest(reader[t].rows)

(* On a database nobody damaged a restore changes nothing: the newest      *)
(* checkpoint is the newest event's and says what the projection says,     *)
(* whatever transitions came between a restore's transactions.  This is    *)
(* what Supervisor.tla takes restore_run to be.                            *)
RestoringChangesNothing ==
  damage = 0 =>
    /\ Newest(checkpoints) = Newest(events)
    /\ projection = checkpoints[Newest(checkpoints)].state

(* Restoring shows what the newest transition saved, never something       *)
(* older: a transition that commits while a restore is between its         *)
(* transactions is not taken back (storage.py, restore_run).               *)
Durable == INSTANCE DurableRun WITH
  saved <- [n \in DOMAIN checkpoints |-> checkpoints[n].state],
  shown <- projection, faults <- damage, Position <- Seqs

RestoresNewest == Durable!Spec
==============================================================================
