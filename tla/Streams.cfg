SPECIFICATION Spec
CONSTANTS
  Marshal <- MCMarshal
  Unmarshal <- MCUnmarshal
  Calls <- MCCalls
  Files <- MCFiles
INVARIANTS
  TypeOK
  RangeCheckIsExact
  TpmReceivesTheCommand
  ApplicationReceivesTheResponse
  DecryptSessionEncrypts
  StructureReadsBack
