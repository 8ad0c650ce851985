\* The picker with a filter.
CONSTANTS
  h1 = h1
  h2 = h2
  h3 = h3
  Hashes = {h1, h2, h3}
  Times = {1, 2}
  MaxSnapshots = 2
  MaxEntries = 2
  MaxListed = 2
  MaxFlight = 1
SPECIFICATION PickerSpec
INVARIANT
  RestoresShown
