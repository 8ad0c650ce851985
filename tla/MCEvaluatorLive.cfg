\* The pipeline and a client that sends every command, under fairness.
CONSTANTS
  c1 = c1
  c2 = c2
  p1 = p1
  p2 = p2
  NoContent = NoContent
  Contents = {c1,c2}
  MinInterval = 0
  MaxSnapshots = 1
  Clients = {p1}
  Cmds = {"pause", "resume", "prune"}
  MaxEvents = 3
  MaxFaults = 1
  MaxCalls = 2
  MaxClock = 0
SPECIFICATION LiveSpec
PROPERTIES
  LatestSaveCaptured
  NoneWaitsForever
