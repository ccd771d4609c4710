SPECIFICATION RecordsSpec
CONSTANTS
  View <- MCView
  PullbackView <- MCPullbackView
  MinScore = 30
  MinAtr = 15
  Ttl = 1
  NoRow = NoRow
  Stale = 1
  MaxDay = 2
  Cooldown = 2
  MaxStarts = 3
  MaxCalls = 2
INVARIANT CrossoversAreNew
CHECK_DEADLOCK FALSE
