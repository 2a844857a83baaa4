\* Three transactions, two blocks: two readers and an upgrade on one block,
\* and the crosswise waits of a deadlock over two.
CONSTANTS
    Txn = {t1, t2, t3}
    Block = {b1, b2}
    NoRequest = NoRequest
SPECIFICATION FairSpec
INVARIANTS
    TypeOK
    Exclusion
    CountMatchesHolders
    NoReaderSleepsThroughRelease
PROPERTIES
    ImplementsLockSpec
    EveryCallReturns
