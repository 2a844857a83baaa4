\* Two readers of one block, one of which upgrades.
CONSTANTS
    Txn = {t1, t2, t3}
    Block = {b1}
    NoRequest = NoRequest
SPECIFICATION Spec
INVARIANT NoUpgradeSleepsThroughRelease
