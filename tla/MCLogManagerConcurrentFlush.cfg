\* Two threads, no crash: Flush takes no lock.
CONSTANTS
    Thread = {t1, t2}
    BlockSize = 6
    RecordSize = {1, 4}
    MaxRecords = 3
    MaxCrashes = 0
SPECIFICATION Spec
CHECK_DEADLOCK FALSE
INVARIANT AckedIsDurable
