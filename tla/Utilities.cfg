SPECIFICATION Spec
CONSTANTS
  Programs <- MCPrograms
  Deciding <- MCDeciding
INVARIANTS
  TypeOK
  StartsDisciplined
  InputsComplete
  HandlesFit
  EverythingReleased
  SuccessMeansDone
