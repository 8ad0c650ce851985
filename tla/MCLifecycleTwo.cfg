\* Two watches at once.
CONSTANTS
  c1 = c1
  c2 = c2
  Clients = {c1, c2}
  MaxCommands = 2
  MaxFaults = 0
SPECIFICATION Spec
INVARIANTS
  TypeOK
  OneDaemon
