\* Two directories, three names of which two collide, a command.
CONSTANTS
  d1 = d1
  d2 = d2
  f1 = f1
  f2 = f2
  f3 = f3
  c1 = c1
  None = None
  Dirs = {d1, d2}
  Files = {f1, f2, f3}
  Sanitize <- TwoShare
  Clients = {c1}
  MaxCalls = 2
  MaxChanges = 3
SPECIFICATION CallsSpec
INVARIANTS
  OwnReply
  ServesTarget
CHECK_DEADLOCK FALSE
