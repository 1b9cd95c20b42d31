\* The crate's proportions: BufSize does not divide IdxMod (24 = 3 * 7 + 3).
CONSTANTS
  BufSize = 7
  IdxMod = 24
  ByteMod = 4
  OutLen = 5
  Packets <- MCPackets
  Uninit = {3}
  None = None
SPECIFICATION Spec
INVARIANT ReadsNextPacket
