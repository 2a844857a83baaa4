\* Three transactions that each may hold buffers while they wait for one of two; no writes.
CONSTANTS
    Txn = {t1, t2, t3}
    Block = {b1, b2, b3}
    NumBuffs = 2
    NoTxn = NoTxn
    NoBlock = NoBlock
    MaxWrites = 0
    MaxPins = 1
SPECIFICATION FairSpec
INVARIANT NobodySleepsWhileAvailable
PROPERTY EveryPinReturns
