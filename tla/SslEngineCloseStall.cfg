SPECIFICATION FairSpec
CONSTANTS
  Role = "client"
  Shared = TRUE
  IBufLen = 14
  OBufLen = 14
  InPre = 1
  InPost = 1
  OutPre = 1
  OutPost = 1
  MaxPlain = 2
  RecLens = {1, 4}
  MaxFrag0 = 8
  FragSizes = {2}
  MsgLen = 2
  PartialIO = TRUE
  NoReneg = TRUE
  Forces = {FALSE}
PROPERTY CloseNotifySent
