\* Two writers that may share every name, one kill or crash.
CONSTANTS
  w1 = w1
  w2 = w2
  d1 = d1
  d2 = d2
  Nothing = Nothing
  Seed = d1
  Writers = {w1, w2}
  Docs = {d1, d2}
  Parts = 2
  Inodes = {1, 2, 3, 4, 5, 6, 7, 8, 9, 10}
  Numbers = {1, 2}
  MaxRetries = 1
  MaxJobs = 2
  MaxFaults = 1
SPECIFICATION FairSpec
INVARIANTS
  ManifestWhole
  WholeIfAlone
  EntryBackedIfAlone
  NoLitter
PROPERTIES
  ChangesWholeIfAlone
  JobsEnd
CHECK_DEADLOCK FALSE
