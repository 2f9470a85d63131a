SPECIFICATION FairSpec
CONSTANTS
  plain = plain
  both = both
  CallIds = {plain, both}
  Over <- MCOver
  MaxAsks = 4
  MaxChanges = 1
INVARIANT SubscribersReachable
PROPERTIES DialogKeepsTag EndsCurrent
CHECK_DEADLOCK FALSE
