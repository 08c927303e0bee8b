SPECIFICATION FairSpec
CONSTANT MaxInbox = 2
INVARIANTS TypeOK NothingLeftBehind CancellationIsHeard
PROPERTIES LossIsNoticed EverythingEnds KeepsPromise
\* A session that is done has nothing left to do.
CHECK_DEADLOCK FALSE
