\* The handover of events, with a queue that may overflow, under fairness.
CONSTANTS
  Interval = 2
  QueueSize = 2
  MaxEvents = 8
SPECIFICATION LiveSpec
INVARIANTS
  NoLostEvent
  OneEvalPerTrigger
  FireWhenQuiet
PROPERTIES
  ChangeEvaluated
  StopEnds
