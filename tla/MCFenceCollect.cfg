\* Backups and collections by the daemon and by prune, one command at a time.
CONSTANTS
  c1 = c1
  c2 = c2
  p1 = p1
  p2 = p2
  u1 = u1
  NoContent = NoContent
  Contents = {c1, c2}
  MinInterval = 0
  MaxSnapshots = 1
  Users = {u1}
  Clients = {p1, p2}
  Cmds = {}
  Commands = {"backup", "prune"}
  MaxCommands = 2
  MaxEvents = 2
  MaxFaults = 1
  MaxCalls = 4
  MaxClock = 0
SPECIFICATION FenceSpec
INVARIANTS
  NewestRestorableIfClear
  SoleWriterIfClear
SYMMETRY Symmetry
