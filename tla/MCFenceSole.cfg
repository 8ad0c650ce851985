\* The fence around a backup.
CONSTANTS
  c1 = c1
  p1 = p1
  u1 = u1
  NoContent = NoContent
  Contents = {c1}
  MinInterval = 0
  MaxSnapshots = 50
  Users = {u1}
  Clients = {p1}
  Cmds = {}
  Commands = {"backup"}
  MaxCommands = 1
  MaxEvents = 1
  MaxFaults = 0
  MaxCalls = 2
  MaxClock = 0
SPECIFICATION FenceSpec
INVARIANTS
  FenceTypeOK
  SoleWriter
