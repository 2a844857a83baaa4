\* Two clients, two writes and a crash; or one client and two crashes, the second
\* of which may come before the recovery from the first has finished.
\* The bounds on clients, writes and crashes end a behaviour.
CONSTANTS
    Block = {b1, b2}
    NoBlock = NoBlock
    NoVal = NoVal
    MaxClients = 2
    MaxWrites = 2
    MaxCrashes = 2
    MaxEvents = 3
SPECIFICATION Spec
CHECK_DEADLOCK FALSE
SYMMETRY Symmetry
INVARIANTS
    TypeOK
    CommittedIsWhatIsSeen
    VisibleIsCommitted
PROPERTY ImplementsAtomicStore
