CONSTANTS
  u1 = u1
  s1 = s1
  d1 = d1
  d2 = d2
  Empty = Empty
  None = None
  Data <- MCData
  UdpSenders <- MCUdp
  SerialSenders <- MCNoone
SPECIFICATION Spec
INVARIANTS
  TypeOK
  FreshFrame
  NoSilentLoss
  BlankOnlyOnTerminate
  ReleasedWhenJoined
PROPERTIES
  ChannelSpec
  WorkerSpec
  JoinCompletesWhilePosting
  SendDataReturns
CHECK_DEADLOCK FALSE
