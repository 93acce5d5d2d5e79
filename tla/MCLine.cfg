SPECIFICATION Spec
CONSTANTS
  Starts <- AllStarts
  Cap = 3
  FiftyMovePlies = 100
INVARIANTS
  EvaluationCurrent
  GeneratorExact
  RepetitionExact
  DeadForever
  SampleRoundTrips
PROPERTY UnmakeRestores
CHECK_DEADLOCK FALSE
