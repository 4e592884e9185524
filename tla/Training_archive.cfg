SPECIFICATION FairSpec
CONSTANTS
  Configs <- ArchiveConfigs
  Fitness = {2, 4}
  SaveInterval = 2
  SampleWindow = 2
  OldArchives <- OldArchive
  Imports <- ManagedImports
  MaxSessions = 2
  MaxCommands = 1
  Horizon = 1
INVARIANTS
  ArchiveBounded
PROPERTIES
  TrainingEnds
CHECK_DEADLOCK FALSE
