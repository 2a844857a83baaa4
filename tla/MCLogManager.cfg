\* One thread and two crashes.  A block holds two records of size 1, or one
\* of size 4 that fits exactly.  The bounds on records and crashes end a behaviour.
CONSTANTS
    Thread = {t1}
    BlockSize = 6
    RecordSize = {1, 4}
    MaxRecords = 4
    MaxCrashes = 2
SPECIFICATION Spec
CHECK_DEADLOCK FALSE
INVARIANTS
    TypeOK
    DiskIsPrefixOfLog
    AckedIsDurable
    PageNeverOverflows
    IteratorReadsLogBackwards
PROPERTY ImplementsLogSpec
