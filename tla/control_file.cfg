\* Two threads of the console whose requests may overlap, a second between texts
\* and the next request.
SPECIFICATION FileFairSpec
CONSTANTS
  Thread = {a, b}
  Posts = 4
  Seconds = 6
  MinGap = 1
  None = None
CHECK_DEADLOCK FALSE
INVARIANTS
  TroubleNeedsOverlap
PROPERTIES
  ImplementsSharedSettings
  FollowsFile
