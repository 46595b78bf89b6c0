SPECIFICATION Spec
CONSTANT unknown = unknown
INVARIANTS ShowsWhereTheUserIs LogTellsTheTruth RestartRestores MediaTimeIsExact DesktopFollowsThePlayer
CHECK_DEADLOCK FALSE
