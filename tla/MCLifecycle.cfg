\* Two users, or one who does not wait; crashes, interrupts, calls that fail or are late.
CONSTANTS
  c1 = c1
  c2 = c2
  Clients = {c1, c2}
  MaxCommands = 3
  MaxFaults = 2
SPECIFICATION LiveSpec
INVARIANTS
  InOrder
PROPERTIES
  Truthful
  StoppedEnds
  CommandEnds
