SPECIFICATION Spec
CONSTANTS
  Configs <- SafetyConfigs
  Fitness = {2, 4}
  SaveInterval = 2
  SampleWindow = 2
  OldArchives <- NoArchive
  Imports = {}
  MaxSessions = 1
  MaxCommands = 0
  Horizon = 1
INVARIANTS
  TypeOK
  ResultsMatchPopulation
  EachScoredOnce
  RecordsCount
PROPERTIES
  BestSurvives
  BestNeverFalls
  CallerKeepsContract
CHECK_DEADLOCK FALSE
