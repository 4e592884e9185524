SPECIFICATION FairSpec
CONSTANTS
  Buttons = {0, 1}
  MaxEpisodeFrames = 3
INVARIANT
  SavestateAtBoundary
PROPERTIES
  StepExact
  LoadRestores
  CallsReturn
