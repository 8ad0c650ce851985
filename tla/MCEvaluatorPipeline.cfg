\* The pipeline, and a client that pauses and resumes it.
CONSTANTS
  c1 = c1
  c2 = c2
  p1 = p1
  NoContent = NoContent
  Contents = {c1, c2}
  MinInterval = 2
  MaxSnapshots = 2
  Clients = {p1}
  Cmds = {"pause", "resume"}
  MaxEvents = 4
  MaxFaults = 2
  MaxCalls = 2
  MaxClock = 2
SPECIFICATION Spec
SYMMETRY Symmetry
INVARIANTS
  TypeOK
  NewestRestorable
  RefCounted
  SizeBound
  BaselineIsNewest
PROPERTIES
  NoConsecutiveDuplicates
  History
