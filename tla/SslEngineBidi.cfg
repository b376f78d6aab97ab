SPECIFICATION FairSpec
CONSTANTS
  Role = "server"
  Shared = FALSE
  IBufLen = 10
  OBufLen = 14
  InPre = 1
  InPost = 1
  OutPre = 1
  OutPost = 1
  MaxPlain = 4
  RecLens = {0, 1, 4}
  MaxFrag0 = 3
  FragSizes = {2}
  MsgLen = 3
  PartialIO = FALSE
  NoReneg = TRUE
  Forces = {FALSE, TRUE}
INVARIANT SealedAsWritten
INVARIANT SealedWithinFragment
INVARIANT AppDataProtected
INVARIANT StateNotZero
PROPERTY CallReturns
PROPERTY CloseNotifySent
