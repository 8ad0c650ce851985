\* The manifest a restore writes back.
CONSTANTS
  c1 = c1
  c2 = c2
  p1 = p1
  u1 = u1
  NoContent = NoContent
  Contents = {c1, c2}
  MinInterval = 0
  MaxSnapshots = 50
  Users = {u1}
  Clients = {p1}
  Cmds = {}
  Commands = {"restore"}
  MaxCommands = 1
  MaxEvents = 2
  MaxFaults = 0
  MaxCalls = 2
  MaxClock = 0
SPECIFICATION FenceSpec
PROPERTY
  RecentKept
