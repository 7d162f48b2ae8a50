SPECIFICATION Spec
CONSTANTS
  s0 = s0
  a1 = a1
  a2 = a2
  a3 = a3
  a4 = a4
  Addr = {s0, a1, a2, a3, a4}
  Sentry = s0
  Null = Null
  Keys = {1, 2, 3}
  Data = {7, 8}
  HashSize = 2
  QueueSize = 2
SYMMETRY mcSymmetry
INVARIANT TouchesNoFreedItem HoldsWhatIsUsed
PROPERTY ImplementsCollections
