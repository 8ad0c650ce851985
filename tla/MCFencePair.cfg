\* Two commands at a time, beside the daemon.
CONSTANTS
  c1 = c1
  p1 = p1
  p2 = p2
  u1 = u1
  u2 = u2
  NoContent = NoContent
  Contents = {c1}
  MinInterval = 0
  MaxSnapshots = 50
  Users = {u1, u2}
  Clients = {p1, p2}
  Cmds = {}
  Commands = {"backup", "restore"}
  MaxCommands = 2
  MaxEvents = 1
  MaxFaults = 0
  MaxCalls = 4
  MaxClock = 0
SPECIFICATION FenceLiveSpec
INVARIANT
  EntriesBacked
PROPERTIES
  CommandsEnd
  DaemonResumes
