SPECIFICATION FairSpec
CONSTANTS
  s1 = s1
  s2 = s2
  Servers <- MCServers
  ServerFormat <- MCServerFormat
  Devices = {d1}
  NoConnection = NoConnection
  NoCall = NoCall
  Error = Error
  Garbled = Garbled
  FieldSize = 2
  MaxCommand = 3
INVARIANTS
  TypeOK
  ConnectionFollowsConfiguration
PROPERTIES
  RefinesChannel
  EveryCallReturns
