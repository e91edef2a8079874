SPECIFICATION FairSpec
CONSTANTS
  Txn = {t1, t2}
  Client = {c1}
  PageSize = 1
  MaxPages = 2
INVARIANTS
  TypeOK
  ShownUnlessExcused
PROPERTIES
  FeedIsFollowed
  ReaderCatchesUp
  EveryTransactionEnds
CHECK_DEADLOCK FALSE
