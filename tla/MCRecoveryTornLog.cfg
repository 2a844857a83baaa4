\* One client, one write, and a crash that may come while the log is extended.
\* The bounds on clients, writes and crashes end a behaviour.
CONSTANTS
    Block = {b1, b2}
    NoBlock = NoBlock
    NoVal = NoVal
    MaxClients = 1
    MaxWrites = 1
    MaxCrashes = 1
    MaxEvents = 2
SPECIFICATION TornSpec
CHECK_DEADLOCK FALSE
INVARIANT VisibleIsCommitted
