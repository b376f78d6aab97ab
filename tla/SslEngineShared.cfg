SPECIFICATION Spec
CONSTANTS
  Role = "client"
  Shared = TRUE
  IBufLen = 14
  OBufLen = 14
  InPre = 1
  InPost = 1
  OutPre = 1
  OutPost = 1
  MaxPlain = 12
  RecLens = {0, 1, 3, 12}
  MaxFrag0 = 8
  FragSizes = {2}
  MsgLen = 3
  PartialIO = TRUE
  NoReneg = FALSE
  Forces = {FALSE}
INVARIANT TypeOK
INVARIANT NoOverrun
INVARIANT SharedBufferExclusive
INVARIANT OneWindowWhenShared
INVARIANT ReceivingHasRoom
INVARIANT HandshakeReadsHandshake
PROPERTY CleanClose
PROPERTY CloseNotifyIsLast
