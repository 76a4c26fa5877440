SPECIFICATION UsesSpec
CONSTANTS
  MaxStarts = 3
  Examples <- MCExamples
  Prompt = TRUE
INVARIANTS
  LifeTypeOK
  StopsWhatItStarted
  AnswersOwnPru
PROPERTIES
  StartupEnds
  EveryExamplePasses
