SPECIFICATION FairSpec
CONSTANTS
  Limits <- MCLimits
  Clarifications = {q1, q2}
  NoClarification = none
INVARIANTS
  TypeOK
  SpentWithinLimits
  RecursionLimitUnreached
  ErrorLeadsOnlyToFailure
  CompletedIsRecorded
  InterruptedIsResumable
  
PROPERTIES
  FollowsLifecycle
  InvocationStops
\* A run ends, and a user may never answer.
CHECK_DEADLOCK FALSE
