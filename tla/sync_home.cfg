SPECIFICATION Spec
CONSTANTS
  NoLimit = NoLimit
  Sites <- AllSites
  Slack = 1
INVARIANTS NewestSurvives WatermarkSound
PROPERTIES OverwriteCovered RunEndsNewest
CHECK_DEADLOCK FALSE
