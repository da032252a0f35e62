SPECIFICATION Spec
CONSTANTS
  i1 = i1 i2 = i2 i3 = i3 w1 = w1 w2 = w2 r1 = r1 None = None
  Items = {i1, i2, i3}
  UrlOf <- SharedUrl
  HasContent = {i1, i2}
  Rules = {r1}
  Match <- MatchOne
  Workers = {w1, w2}
  Capacity = 1
  BatchSize = 2
  MaxFaults = 0
SYMMETRY WorkerSymmetry
INVARIANT FlushedOnClose
