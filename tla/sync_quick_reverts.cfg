SPECIFICATION Spec
CONSTANTS
  NoLimit = NoLimit
  Sites <- PullThenQuick
  Slack = 1
PROPERTIES PullsOnlyNewer
CHECK_DEADLOCK FALSE
