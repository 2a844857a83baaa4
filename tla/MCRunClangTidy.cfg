\* Two threads for four files, one of which is skipped and one entry filtered out.
\* The script stops where a thread has died with a file, or at its end.
CONSTANTS
  Worker = {w1, w2}
  NumFiles = 5
  Matching <- MCMatching
  ThirdParty <- MCThirdParty
SPECIFICATION FairSpec
CHECK_DEADLOCK FALSE
INVARIANTS
  TypeOK
  ExitCodeIsTrue
  FixesAreComplete
PROPERTY
  ComesToAnEnd
