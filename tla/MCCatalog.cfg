CONSTANTS
  Txn = {t1, t2}
  UserTable <- MCUserTable
  Fields <- MCFields
  RefreshAfter = 2
  MaxCreated = 2
  MaxRows = 1
  MaxCrashes = 1
  None = None
SPECIFICATION FairSpec
INVARIANTS
  TypeOK
  LayoutIsRight
  StatsAreFresh
PROPERTY
  MutexIsReleased
