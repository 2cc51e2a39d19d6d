SPECIFICATION Spec
CONSTANTS
  SizeOf <- MCSizes
  Capacity = 8
  MaxView = 5
  MaxAccount = 16
INVARIANTS BufferBounded AccountCoversBuffer
PROPERTY EvictsHighestFirst
