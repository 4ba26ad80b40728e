SPECIFICATION Spec
CONSTANTS
  once = once  every = every  cron = cron  once2 = once2  bad = bad  zone = zone
  None = None
  Jobs <- SmallJobs
  Kind <- MCKind
  Period <- MCPeriod
  DeleteAfter <- MCDeleteAfter
  BadExpr <- MCBadExpr
  BadZone <- MCBadZone
  Preset <- SmallPreset
  MaxTime = 3
  MaxSkillOps = 2
  MaxCrashes = 0
PROPERTY NoLostJob
CHECK_DEADLOCK FALSE
