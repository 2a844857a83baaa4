\* Two transactions over two blocks of two slots, with two logged writes that
\* are not committed at a time.  One value is enough: the writes that insert and
\* delete change a record as a SetVal would.
\* No bound ends a behaviour: a transaction that ends begins again.
CONSTANTS
    Txn = {t1, t2}
    NumSlots = 2
    MaxBlocks = 2
    MaxVal = 0
    MaxWrites = 2
    None = None
SPECIFICATION Spec
SYMMETRY Symmetry
INVARIANTS
    TypeOK
    ReadsAreRepeatable
    ScanReturnsTheTable
    PageIsPinned
PROPERTY ImplementsAtomicStore
