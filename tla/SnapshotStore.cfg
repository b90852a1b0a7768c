SPECIFICATION Spec
CONSTANTS
  Slots = {s1, s2, s3}
  Readers = {r1, r2, r3}
  Updaters = {u1, u2}
  NoSlot = NoSlot
  NoLease = NoLease
  Dates = {1, 2}
  MaxReaders = 2
  MaxRevision = 2
  MaxUpdates = 3
INVARIANT ReadersCounted
PROPERTIES ImplementsVersions DatesAscend AnswersCurrent RetiredReclaimed
CHECK_DEADLOCK FALSE
