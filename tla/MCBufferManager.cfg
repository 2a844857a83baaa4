\* Two transactions and three blocks that compete for two buffers.
CONSTANTS
    Txn = {t1, t2}
    Block = {b1, b2, b3}
    NumBuffs = 2
    NoTxn = NoTxn
    NoBlock = NoBlock
    MaxWrites = 2
    MaxPins = 2
SPECIFICATION Spec
SYMMETRY Symmetry
INVARIANTS
    TypeOK
    PinsAreRight
    OneBufferPerBlock
    CachedOrOnDisk
    WriteAhead
    CommittedIsOnDisk
