SPECIFICATION Spec
CONSTANTS
  Handles = {h1, h2}
  NoHandle = NoHandle
  Entities = {e1}
  NoEntity = NoEntity
  AuthValues = {empty, secret}
  EmptyAuth = empty
  NoSession = NoSession
  Torn = Torn
  NoCommand = NoCommand
  MaxSessions = 3
  Templates <- MCTemplates
  MaxNonce = 3
SYMMETRY Symmetry
INVARIANTS
  TypeOK
  SavedSessionAgrees
  SavedFlagsAgree
  SentCommandIsAuthorized
  GenuineResponseVerifies
