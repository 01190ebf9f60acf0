SPECIFICATION Spec
CONSTANTS
  Transients = {t1}
  Persistents = {p1}
  Contexts = {c1}
  Objects = {o1, o2}
  Sequence = Sequence
  NoObject = NoObject
  NoFile = NoFile
  Torn = Torn
  NoCommand = NoCommand
SYMMETRY Symmetry
INVARIANT
  SequenceContextIsSaved
