SPECIFICATION FairSpec
CONSTANTS
  once = once  every = every  cron = cron  once2 = once2  bad = bad  zone = zone
  None = None
  Jobs <- MCJobs
  Kind <- MCKind
  Period <- MCPeriod
  DeleteAfter <- MCDeleteAfter
  BadExpr <- MCBadExpr
  BadZone <- MCBadZone
  Preset <- MCPreset
  MaxTime = 2
  MaxSkillOps = 2
  MaxCrashes = 1
PROPERTIES
  NoSpuriousFire
  DueJobsNotSkipped
  JobsKept
  DueJobsFire
CHECK_DEADLOCK FALSE
