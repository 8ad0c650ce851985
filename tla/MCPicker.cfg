\* Three blobs, and a clock with three readings that may come in any order; the
\* picker on short manifests.
CONSTANTS
  h1 = h1
  h2 = h2
  h3 = h3
  Hashes = {h1, h2, h3}
  Times = {1, 2, 3}
  MaxSnapshots = 2
  MaxEntries = 5
  MaxListed = 3
  MaxFlight = 1
SPECIFICATION PickerSpec
INVARIANTS
  SortsByRank
  BaselineStable
  KeptRestorable
  SetView
  IndexInRange
  RestoresShownUnfiltered
SYMMETRY Symmetry
