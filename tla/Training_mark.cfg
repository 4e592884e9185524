SPECIFICATION Spec
CONSTANTS
  Configs <- MarkConfigs
  Fitness = {2, 4}
  SaveInterval = 1
  SampleWindow = 2
  OldArchives <- OldArchive
  Imports = {}
  MaxSessions = 1
  MaxCommands = 0
  Horizon = 1
PROPERTIES
  PromotionMarks
CHECK_DEADLOCK FALSE
