SPECIFICATION Spec
CONSTANTS
  SessionHandles = {s1}
  ObjectHandles = {o1, o2, o3}
  NvIndexes = {}
  RH_NULL = RH_NULL
  Data = {d1, d2}
  NoData = NoData
  SlotCount = 2
SYMMETRY Symmetry
INVARIANTS
  TypeOK
  HandlesAreUnique
  SlotsFollowTpm
PROPERTY
  RefinesHandleStore
