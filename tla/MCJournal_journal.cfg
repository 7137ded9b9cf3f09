\* One run's tables under transitions, a restoring reader, a stream with its
\* client, and one damaged row of any kind.
SPECIFICATION StreamSpec
CONSTANTS
  k1 = k1  k2 = k2
  Body = {1}
  Garbage = {2}
  Reader = {k1}
  ReadLimit = 3
  Damages = {"projection", "event", "lost_event", "lost_checkpoint"}
  MaxSeq = 4
  MaxRevision = 3
  MaxDamage = 1
  BatchLimit = 2
  MaxDrops = 1
INVARIANTS
  TypeOK AcceptedJournalsWereWritten FalseAlarmsNeedARace ReceivedInOrder
  RestoringChangesNothing
PROPERTIES
  RestoresNewest EventsArrive
