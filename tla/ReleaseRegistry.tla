--------------------------- MODULE ReleaseRegistry ---------------------------
(***************************************************************************)
(* The release registry of storage.py: the tables versions, channels and   *)
(* channel_history, and the four writes SQLiteRepository.apply makes to    *)
(* them inside a transaction.  Read with Init and Next below it is the     *)
(* abstract specification of the registry: what any user of it may rely on *)
(* however transitions interleave.  Supervisor.tla uses the same writes    *)
(* as parts of its transactions and is shown to implement this module.     *)
(***************************************************************************)
EXTENDS Naturals, Sequences, FiniteSets

CONSTANTS
  Run,        \* run ids
  Version,    \* version ids new_id("ver") can return; finite for TLC
  Channel,    \* release channels
  ChannelOf,  \* the channel of each run: RunConfig.channel, frozen
  None        \* Python's None, SQL's NULL

ASSUME RegistryAssumption ==
  /\ ChannelOf \in [Run -> Channel]
  /\ None \notin Version

VARIABLES
  ver,      \* table versions: status, creating run and validation of an id,
            \* and of what it was made
  active,   \* table channels: the active version of each channel
  history   \* table channel_history: its rows in revision order; the
            \* channel's revision is the number of rows

registry == <<ver, active, history>>

VersionStatus ==
  {"candidate", "validated", "active", "superseded", "rejected", "rolled_back"}

(* "free" marks an id that no row has yet.  "madeOn" is history: the base  *)
(* that the agent's request named, where the row's parent_version_id says  *)
(* the run's last candidate, if it had one.                                *)
VersionState ==
  [status: VersionStatus \cup {"free"}, run: Run \cup {None},
   validation: {"none", "passed", "failed"}, madeOn: Version \cup {None}]

(* A history row, and in "reported" the version that the event committed   *)
(* by the same transaction names as replaced.                              *)
Row == [action: {"promote", "rollback"}, version: Version,
        previous: Version \cup {None}, run: Run, reported: Version \cup {None}]

RegistryTypeOK ==
  /\ ver \in [Version -> VersionState]
  /\ active \in [Channel -> Version \cup {None}]
  /\ history \in [Channel -> Seq(Row)]

Exists(v) == v \in Version /\ ver[v].status # "free"

(* The versions that were at some time the active version of channel c.    *)
Released(c) == {history[c][i].version : i \in DOMAIN history[c]}

(* previous_channel_version: what the newest history row replaced.         *)
PreviousVersion(c) ==
  IF history[c] = <<>> THEN None ELSE history[c][Len(history[c])].previous

------------------------------------------------------------------------------
RegistryInit ==
  /\ ver = [v \in Version |-> [status |-> "free", run |-> None,
                                validation |-> "none", madeOn |-> None]]
  /\ active = [c \in Channel |-> None]
  /\ history = [c \in Channel |-> <<>>]

InsertVersion(v, r, base) ==
  /\ ver' = [ver EXCEPT ![v] = [status |-> "candidate", run |-> r,
                                validation |-> "none", madeOn |-> base]]
  /\ UNCHANGED <<active, history>>

UpdateVersion(v, passed) ==
  /\ ver' = [ver EXCEPT
               ![v].status     = IF passed THEN "validated" ELSE "rejected",
               ![v].validation = IF passed THEN "passed" ELSE "failed"]
  /\ UNCHANGED <<active, history>>

(* Mutated form of MovePointer: the version given up keeps its status.     *)
MovePointerOnly(c, v, demoted, row) ==
  /\ ver' = [ver EXCEPT ![v].status = "active"]
  /\ active' = [active EXCEPT ![c] = v]
  /\ history' = [history EXCEPT ![c] = Append(@, row)]

(* The status updates of one pointer move: the version given up gets       *)
(* "demoted", then the new one "active", which wins when they are the same.*)
MovePointer(c, v, demoted, row) ==
  /\ active' = [active EXCEPT ![c] = v]
  /\ history' = [history EXCEPT ![c] = Append(@, row)]
  /\ ver' = [w \in Version |->
               IF w = v THEN [ver[w] EXCEPT !.status = "active"]
               ELSE IF w = active[c] THEN [ver[w] EXCEPT !.status = demoted]
               ELSE ver[w]]

(* Mutated form of CasHolds: the compare of compare-and-swap left out.     *)
CasSkipped(c, expected) == TRUE

CasHolds(c, expected) == active[c] = expected

(* Mutated form of PromotionRow: the row forgets what it replaced, as if   *)
(* every promotion were the first of its channel.                          *)
PromotionRowUnlinked(c, v, expected, r) ==
  [action |-> "promote", version |-> v, previous |-> None,
   run |-> r, reported |-> expected]

PromotionRow(c, v, expected, r) ==
  [action |-> "promote", version |-> v, previous |-> active[c],
   run |-> r, reported |-> expected]

(* _promote, when it does not raise PromotionConflict.                     *)
Promote(r, v, expected) ==
  LET c == ChannelOf[r] IN
  /\ CasHolds(c, expected)
  /\ Exists(v)
  /\ MovePointer(c, v, "superseded", PromotionRow(c, v, expected, r))

(* The checks of _rollback that raise StorageError.                        *)
RollbackAccepted(c, target) == active[c] # None /\ Exists(target)

(* _rollback.  "from" is what the release.rolled_back event names as given *)
(* up; the caller read it before the transaction.                          *)
Rollback(r, target, from) ==
  LET c == ChannelOf[r] IN
  /\ RollbackAccepted(c, target)
  /\ MovePointer(c, target, "rolled_back",
       [action |-> "rollback", version |-> target, previous |-> active[c],
        run |-> r, reported |-> from])

------------------------------------------------------------------------------
(* As a specification of its own: any run may make any of the writes.      *)
RegistryNext ==
  \/ \E v \in Version, r \in Run, base \in Version \cup {None} :
       ~Exists(v) /\ InsertVersion(v, r, base)
  \/ \E v \in Version, passed \in BOOLEAN : Exists(v) /\ UpdateVersion(v, passed)
  \/ \E v \in Version, r \in Run, base \in Version \cup {None} :
       ver[v].run = r /\ Promote(r, v, base)
  \/ \E v \in Version, r \in Run, from \in Version \cup {None} : Rollback(r, v, from)

RegistrySpec == RegistryInit /\ [][RegistryNext]_registry

------------------------------------------------------------------------------
(* Every channel's pointer is the version of its newest history row, and   *)
(* every row replaced the version of the row before it: no release ever    *)
(* disappears under another (storage.py, _promote and _rollback).          *)
HistoryChain ==
  \A c \in Channel :
    /\ active[c] = IF history[c] = <<>> THEN None
                   ELSE history[c][Len(history[c])].version
    /\ \A i \in DOMAIN history[c] :
         history[c][i].previous = IF i = 1 THEN None ELSE history[c][i - 1].version

==============================================================================
