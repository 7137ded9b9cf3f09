----------------------- MODULE ReleaseRegistryProofs -----------------------
(***************************************************************************)
(* What the registry's writes guarantee for every set of runs, versions    *)
(* and channels: RegistrySpec keeps its types, the chain of history rows   *)
(* and the ownership of what runs release.  Any specification shown to     *)
(* implement RegistrySpec inherits the three.                              *)
(***************************************************************************)
EXTENDS ReleaseRegistry, TLAPS

(* The parts of a MovePointer, on which the theorems below rest: only      *)
(* channel c changes, and its history grows by the row.                    *)
LEMMA MovePointerTypeOK ==
  ASSUME RegistryAssumption, RegistryTypeOK,
         NEW c \in Channel, NEW v \in Version, NEW demoted \in VersionStatus,
         NEW row \in Row, MovePointer(c, v, demoted, row)
  PROVE  RegistryTypeOK'
<1>1. ver' \in [Version -> VersionState]
  <2> SUFFICES ASSUME NEW w \in Version
               PROVE  ver'[w] \in VersionState /\ ver' = [x \in Version |-> ver'[x]]
    BY DEF MovePointer
  <2>1. ver[w] \in VersionState
    BY DEF RegistryTypeOK
  <2>2. CASE w = v
    BY <2>1, <2>2 DEF MovePointer, VersionState, VersionStatus
  <2>3. CASE w # v /\ w = active[c]
    BY <2>1, <2>3 DEF MovePointer, VersionState
  <2>4. CASE w # v /\ w # active[c]
    BY <2>1, <2>4 DEF MovePointer
  <2> QED BY <2>2, <2>3, <2>4 DEF MovePointer
<1>2. active' \in [Channel -> Version \cup {None}]
  BY DEF MovePointer, RegistryTypeOK
<1>3. history' \in [Channel -> Seq(Row)]
  <2>1. history[c] \in Seq(Row) BY DEF RegistryTypeOK
  <2>2. Append(history[c], row) \in Seq(Row) BY <2>1
  <2> QED BY <2>2 DEF MovePointer, RegistryTypeOK
<1> QED BY <1>1, <1>2, <1>3 DEF RegistryTypeOK

(* A row that names what it replaces continues the chain.                  *)
LEMMA MovePointerHistoryChain ==
  ASSUME RegistryTypeOK, HistoryChain,
         NEW c \in Channel, NEW v \in Version, NEW demoted, NEW row \in Row,
         row.version = v, row.previous = active[c],
         MovePointer(c, v, demoted, row)
  PROVE  HistoryChain'
<1> SUFFICES ASSUME NEW d \in Channel
             PROVE
    /\ active'[d] = IF history'[d] = <<>> THEN None
                    ELSE history'[d][Len(history'[d])].version
    /\ \A i \in DOMAIN history'[d] :
         history'[d][i].previous = IF i = 1 THEN None ELSE history'[d][i - 1].version
  BY DEF HistoryChain
<1>1. CASE d # c
  BY <1>1 DEF MovePointer, RegistryTypeOK, HistoryChain
<1>2. CASE d = c
  <2> DEFINE h == history[c]
  <2>1. /\ h \in Seq(Row)
        /\ history'[c] = Append(h, row)
        /\ active'[c] = v
    BY DEF MovePointer, RegistryTypeOK
  <2>2. /\ Len(history'[c]) = Len(h) + 1
        /\ history'[c][Len(h) + 1] = row
        /\ \A i \in 1 .. Len(h) : history'[c][i] = h[i]
        /\ DOMAIN history'[c] = 1 .. (Len(h) + 1)
        /\ history'[c] # <<>>
    BY <2>1
  <2>3. row.previous = IF Len(h) + 1 = 1 THEN None ELSE history'[c][Len(h)].version
    BY <2>1, <2>2 DEF HistoryChain
  <2>4. \A i \in 1 .. Len(h) :
          history'[c][i].previous = IF i = 1 THEN None ELSE history'[c][i - 1].version
    BY <2>1, <2>2 DEF HistoryChain
  <2>5. Len(h) \in Nat BY <2>1
  <2> HIDE DEF h
  <2> QED BY <1>2, <2>1, <2>2, <2>3, <2>4, <2>5
<1> QED BY <1>1, <1>2

------------------------------------------------------------------------------
(* Each of the four writes keeps the tables well-typed.                    *)
LEMMA InsertVersionTypeOK ==
  ASSUME RegistryTypeOK, NEW v \in Version, NEW r \in Run,
         NEW base \in Version \cup {None}, InsertVersion(v, r, base)
  PROVE  RegistryTypeOK'
  BY DEF InsertVersion, RegistryTypeOK, VersionState, VersionStatus

(* A verdict changes one version's status and validation.                  *)
LEMMA UpdateVersionTypeOK ==
  ASSUME RegistryTypeOK, NEW v, NEW passed \in BOOLEAN, UpdateVersion(v, passed)
  PROVE  RegistryTypeOK'
<1>1. PICK status \in {"validated", "rejected"}, validation \in {"passed", "failed"} :
        ver' = [ver EXCEPT ![v].status = status, ![v].validation = validation]
  <2>1. CASE passed BY <2>1, Zenon DEF UpdateVersion
  <2>2. CASE ~passed BY <2>2, Zenon DEF UpdateVersion
  <2> QED BY <2>1, <2>2
<1>2. UNCHANGED <<active, history>> BY DEF UpdateVersion
<1> QED BY <1>1, <1>2, ZenonT(40) DEF RegistryTypeOK, VersionState, VersionStatus

(* A promotion is a pointer move by a run, over the base it names.         *)
LEMMA PromotionMovesPointer ==
  ASSUME RegistryAssumption, RegistryTypeOK,
         NEW v, NEW r \in Run, NEW base \in Version \cup {None},
         Promote(r, v, base)
  PROVE  /\ ChannelOf[r] \in Channel
         /\ v \in Version
         /\ active[ChannelOf[r]] = base
         /\ PromotionRow(ChannelOf[r], v, base, r) \in Row
         /\ MovePointer(ChannelOf[r], v, "superseded",
                        PromotionRow(ChannelOf[r], v, base, r))
  BY DEF RegistryAssumption, RegistryTypeOK, Promote, CasHolds, PromotionRow, Row, Exists

(* ... and so keeps the types,                                            *)
LEMMA PromoteTypeOK ==
  ASSUME RegistryAssumption, RegistryTypeOK,
         NEW v, NEW r \in Run, NEW base \in Version \cup {None},
         Promote(r, v, base)
  PROVE  RegistryTypeOK'
<1>1. "superseded" \in VersionStatus BY DEF VersionStatus
<1>2. /\ ChannelOf[r] \in Channel /\ v \in Version
      /\ PromotionRow(ChannelOf[r], v, base, r) \in Row
      /\ MovePointer(ChannelOf[r], v, "superseded",
                     PromotionRow(ChannelOf[r], v, base, r))
  BY PromotionMovesPointer
<1> QED BY <1>1, <1>2, MovePointerTypeOK

(* ... as does a rollback.                                                 *)
LEMMA RollbackTypeOK ==
  ASSUME RegistryAssumption, RegistryTypeOK,
         NEW v, NEW r \in Run, NEW from \in Version \cup {None},
         Rollback(r, v, from)
  PROVE  RegistryTypeOK'
<1> DEFINE c == ChannelOf[r]
           row == [action |-> "rollback", version |-> v, previous |-> active[c],
                   run |-> r, reported |-> from]
<1>1. c \in Channel /\ v \in Version
  BY DEF RegistryAssumption, Rollback, RollbackAccepted, Exists
<1>2. row \in Row
  BY <1>1 DEF Row, RegistryTypeOK
<1>3. MovePointer(c, v, "rolled_back", row)
  BY DEF Rollback
<1>4. "rolled_back" \in VersionStatus BY DEF VersionStatus
<1> QED BY <1>1, <1>2, <1>3, <1>4, MovePointerTypeOK

(* The registry's tables keep their types: ids, statuses and rows are what *)
(* storage.py's schema says.                                               *)
THEOREM RegistryTypes == RegistrySpec => []RegistryTypeOK
<1>1. RegistryInit => RegistryTypeOK
  BY DEF RegistryInit, RegistryTypeOK, VersionState
<1>2. RegistryTypeOK /\ [RegistryNext]_registry => RegistryTypeOK'
  BY RegistryAssumption, InsertVersionTypeOK, UpdateVersionTypeOK, PromoteTypeOK,
     RollbackTypeOK DEF RegistryNext, registry, RegistryTypeOK
<1> QED BY <1>1, <1>2, PTL DEF RegistrySpec

(* History rows chain, and every channel points to the version of its      *)
(* newest row, after any sequence of registry writes.                      *)
THEOREM RegistryHistory == RegistrySpec => []HistoryChain
<1>1. RegistryInit => HistoryChain
  BY DEF RegistryInit, HistoryChain
<1>2. RegistryTypeOK /\ HistoryChain /\ [RegistryNext]_registry => HistoryChain'
  <2> SUFFICES ASSUME RegistryTypeOK, HistoryChain, [RegistryNext]_registry
               PROVE  HistoryChain'
    OBVIOUS
  <2>1. CASE UNCHANGED <<active, history>>
    BY <2>1 DEF HistoryChain
  <2>2. ASSUME NEW v \in Version, NEW r \in Run, NEW base \in Version \cup {None},
               Promote(r, v, base)
        PROVE  HistoryChain'
    <3> DEFINE c == ChannelOf[r]
               row == PromotionRow(c, v, base, r)
    <3>1. /\ c \in Channel /\ row \in Row
          /\ MovePointer(c, v, "superseded", row)
      BY <2>2, RegistryAssumption, PromotionMovesPointer
    <3>2. row.version = v /\ row.previous = active[c]
      BY DEF PromotionRow
    <3> HIDE DEF c, row
    <3> QED BY <3>1, <3>2, MovePointerHistoryChain
  <2>3. ASSUME NEW v \in Version, NEW r \in Run, NEW from \in Version \cup {None},
               Rollback(r, v, from)
        PROVE  HistoryChain'
    <3> DEFINE c == ChannelOf[r]
               row == [action |-> "rollback", version |-> v, previous |-> active[c],
                       run |-> r, reported |-> from]
    <3>1. c \in Channel
      BY RegistryAssumption DEF RegistryAssumption
    <3>2. row \in Row /\ row.version = v /\ row.previous = active[c]
      BY <3>1 DEF Row, RegistryTypeOK
    <3>3. MovePointer(c, v, "rolled_back", row)
      BY <2>3 DEF Rollback
    <3> HIDE DEF c, row
    <3> QED BY <3>1, <3>2, <3>3, MovePointerHistoryChain
  <2>4. CASE UNCHANGED registry
    BY <2>1, <2>4 DEF registry
  <2> QED
    BY <2>1, <2>2, <2>3, <2>4 DEF RegistryNext, InsertVersion, UpdateVersion
<1> QED BY <1>1, <1>2, RegistryTypes, PTL DEF RegistrySpec

------------------------------------------------------------------------------
(* A release names a version that exists, and a promotion one that the     *)
(* promoting run made: no run releases another's candidate.                *)
ReleasesAreOwn ==
  \A c \in Channel : \A i \in DOMAIN history[c] :
    LET row == history[c][i] IN
    Exists(row.version) /\ (row.action = "promote" => ver[row.version].run = row.run)

(* A version that exists keeps existing and stays the run's that made it,  *)
(* on the base it was made on.                                             *)
LEMMA VersionsStay ==
  ASSUME RegistryTypeOK, [RegistryNext]_registry, NEW v \in Version, Exists(v)
  PROVE  Exists(v)' /\ ver'[v].run = ver[v].run /\ ver'[v].madeOn = ver[v].madeOn
<1>1. ASSUME NEW c, NEW w, NEW demoted \in {"superseded", "rolled_back"}, NEW row,
             MovePointer(c, w, demoted, row)
      PROVE  Exists(v)' /\ ver'[v].run = ver[v].run /\ ver'[v].madeOn = ver[v].madeOn
  <2>1. ver'[v] \in {[ver[v] EXCEPT !.status = "active"],
                     [ver[v] EXCEPT !.status = demoted], ver[v]}
    BY <1>1 DEF MovePointer
  <2>2. ver[v] \in VersionState
    BY DEF RegistryTypeOK
  <2> QED BY <2>1, <2>2 DEF VersionState, Exists
<1>2. ASSUME NEW w \in Version, NEW r \in Run, NEW base, ~Exists(w), InsertVersion(w, r, base)
      PROVE  Exists(v)' /\ ver'[v].run = ver[v].run /\ ver'[v].madeOn = ver[v].madeOn
  BY <1>2 DEF InsertVersion, RegistryTypeOK, Exists
<1>3. ASSUME NEW w \in Version, NEW passed \in BOOLEAN, UpdateVersion(w, passed)
      PROVE  Exists(v)' /\ ver'[v].run = ver[v].run /\ ver'[v].madeOn = ver[v].madeOn
  BY <1>3 DEF UpdateVersion, RegistryTypeOK, VersionState, Exists
<1>4. CASE UNCHANGED ver
  BY <1>4 DEF Exists
<1> QED
  BY <1>1, <1>2, <1>3, <1>4 DEF RegistryNext, registry, Promote, Rollback

(* No run releases another's candidate, after any sequence of writes.      *)
THEOREM RegistryOwnership == RegistrySpec => []ReleasesAreOwn
<1>1. RegistryInit => ReleasesAreOwn
  BY DEF RegistryInit, ReleasesAreOwn
<1>2. ASSUME RegistryTypeOK, ReleasesAreOwn, [RegistryNext]_registry
      PROVE  ReleasesAreOwn'
  <2>1. ASSUME NEW c \in Channel, NEW i \in DOMAIN history[c], NEW v,
               v = history[c][i].version
        PROVE  Exists(v)' /\ (history[c][i].action = "promote" => ver'[v].run = history[c][i].run)
    <3>1. Exists(v) /\ v \in Version
      BY <1>2, <2>1 DEF ReleasesAreOwn, Exists
    <3> QED BY <1>2, <2>1, <3>1, VersionsStay DEF ReleasesAreOwn
  <2>2. CASE UNCHANGED history
    <3> SUFFICES ASSUME NEW c \in Channel, NEW i \in DOMAIN history[c]
                 PROVE  /\ history[c][i].version \in Version
                        /\ ver'[history[c][i].version].status # "free"
                        /\ history[c][i].action = "promote" =>
                             ver'[history[c][i].version].run = history[c][i].run
      BY <2>2 DEF ReleasesAreOwn, Exists
    <3> QED BY <2>1 DEF Exists
  <2>3. ASSUME NEW d \in Channel, NEW v \in Version, NEW demoted, NEW row,
               MovePointer(d, v, demoted, row), Exists(v)', row.version = v,
               row.action = "promote" => ver'[v].run = row.run
        PROVE  ReleasesAreOwn'
    <3> SUFFICES ASSUME NEW c \in Channel, NEW i \in DOMAIN history'[c]
                 PROVE  /\ history'[c][i].version \in Version
                        /\ ver'[history'[c][i].version].status # "free"
                        /\ history'[c][i].action = "promote" =>
                             ver'[history'[c][i].version].run = history'[c][i].run
      BY DEF ReleasesAreOwn, Exists
    <3>1. /\ history[c] \in Seq(Row)
          /\ history'[c] = IF c = d THEN Append(history[c], row) ELSE history[c]
      BY <1>2, <2>3 DEF RegistryTypeOK, MovePointer
    <3>2. CASE i \in DOMAIN history[c]
      <4>1. history'[c][i] = history[c][i]
        BY <3>1, <3>2
      <4> QED BY <2>1, <3>2, <4>1 DEF Exists
    <3>3. CASE i \notin DOMAIN history[c]
      <4>1. history'[c][i] = row
        BY <3>1, <3>3
      <4> QED BY <2>3, <4>1 DEF Exists
    <3> QED BY <3>2, <3>3
  <2>4. ASSUME NEW v \in Version, NEW r \in Run, NEW base \in Version \cup {None},
               ver[v].run = r, Promote(r, v, base)
        PROVE  ReleasesAreOwn'
    <3>1. /\ ChannelOf[r] \in Channel
          /\ MovePointer(ChannelOf[r], v, "superseded", PromotionRow(ChannelOf[r], v, base, r))
      BY <1>2, <2>4, RegistryAssumption, PromotionMovesPointer
    <3>2. Exists(v)' /\ ver'[v].run = r
      BY <1>2, <2>4, VersionsStay DEF Promote
    <3>3. PromotionRow(ChannelOf[r], v, base, r).version = v
          /\ PromotionRow(ChannelOf[r], v, base, r).run = r
      BY DEF PromotionRow
    <3> QED BY <2>3, <3>1, <3>2, <3>3
  <2>5. ASSUME NEW v \in Version, NEW r \in Run, NEW from \in Version \cup {None},
               Rollback(r, v, from)
        PROVE  ReleasesAreOwn'
    <3> DEFINE row == [action |-> "rollback", version |-> v,
                       previous |-> active[ChannelOf[r]], run |-> r, reported |-> from]
    <3>1. ChannelOf[r] \in Channel /\ MovePointer(ChannelOf[r], v, "rolled_back", row)
      BY <2>5, RegistryAssumption DEF Rollback, RegistryAssumption
    <3>2. Exists(v)'
      BY <1>2, <2>5, VersionsStay DEF Rollback, RollbackAccepted
    <3>3. row.version = v /\ row.action # "promote"
      OBVIOUS
    <3> HIDE DEF row
    <3> QED BY <2>3, <3>1, <3>2, <3>3
  <2> QED
    BY <1>2, <2>2, <2>4, <2>5 DEF RegistryNext, registry, InsertVersion, UpdateVersion
<1> QED BY <1>1, <1>2, RegistryTypes, PTL DEF RegistrySpec

------------------------------------------------------------------------------
(* What was once released stays in the history.                            *)
LEMMA ReleasedGrows ==
  ASSUME RegistryTypeOK, [RegistryNext]_registry, NEW c \in Channel
  PROVE  Released(c) \subseteq Released(c)'
<1>1. ASSUME NEW d, NEW v, NEW demoted, NEW row, MovePointer(d, v, demoted, row)
      PROVE  Released(c) \subseteq Released(c)'
  <2>1. history[c] \in Seq(Row) /\ history' = [history EXCEPT ![d] = Append(@, row)]
    BY <1>1 DEF MovePointer, RegistryTypeOK
  <2>2. history'[c] = IF c = d THEN Append(history[c], row) ELSE history[c]
    BY <2>1 DEF RegistryTypeOK
  <2>3. \A i \in DOMAIN history[c] : i \in DOMAIN history'[c] /\ history'[c][i] = history[c][i]
    BY <2>1, <2>2
  <2> QED BY <2>3 DEF Released
<1>2. CASE UNCHANGED history
  BY <1>2 DEF Released
<1> QED
  BY <1>1, <1>2 DEF RegistryNext, registry, InsertVersion, UpdateVersion, Promote, Rollback

(* The active version is a released one.                                   *)
LEMMA ActiveIsReleased ==
  ASSUME RegistryTypeOK, HistoryChain, NEW c \in Channel, active[c] # None
  PROVE  active[c] \in Released(c)
<1>1. history[c] \in Seq(Row)
  BY DEF RegistryTypeOK
<1>2. history[c] # <<>> /\ active[c] = history[c][Len(history[c])].version
  BY DEF HistoryChain
<1>3. Len(history[c]) \in DOMAIN history[c]
  BY <1>1, <1>2
<1> QED BY <1>2, <1>3 DEF Released

==============================================================================
