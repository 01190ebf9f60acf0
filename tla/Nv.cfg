SPECIFICATION Spec
CONSTANTS
  Indexes = {i1}
  Definitions = {d1, d2}
  Undefined = Undefined
  NoFile = NoFile
  Torn = Torn
  NoCommand = NoCommand
SYMMETRY Symmetry
INVARIANTS
  TypeOK
  NvNamesAgree
  UndefinedLeavesNothing
  HealthyUpdateFollows
