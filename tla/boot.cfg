CONSTANTS
  Capacity = 9
  OutLen = 2
  Packets <- MCPackets
  None = None
SPECIFICATION BootFairSpec
INVARIANTS
  BootTypeOK
  NoLostWakeup
  SharedMemoryReady
  NetTriggersHeard
PROPERTY PacketsGetRead
