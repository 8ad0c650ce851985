\* A save between the hash and the copy.
CONSTANTS
  c1 = c1
  c2 = c2
  NoContent = NoContent
  Contents = {c1, c2}
  MinInterval = 0
  MaxSnapshots = 1
  Clients = {}
  Cmds = {}
  MaxEvents = 4
  MaxFaults = 0
  MaxCalls = 0
  MaxClock = 0
SPECIFICATION Spec
INVARIANTS
  Intact
