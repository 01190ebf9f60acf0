SPECIFICATION Spec
CONSTANTS
  Marshal <- MCMarshal
  Unmarshal <- MCUnmarshal
  Calls <- MixedCalls
  Files <- NoFiles
INVARIANT
  AnyDecryptSessionEncrypts
