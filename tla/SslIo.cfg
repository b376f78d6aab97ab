SPECIFICATION IoSpec
CONSTANTS
  Role = "client"
  Shared = TRUE
  IBufLen = 14
  OBufLen = 14
  InPre = 1
  InPost = 1
  OutPre = 1
  OutPost = 1
  MaxPlain = 6
  RecLens = {1, 3, 4}
  MaxFrag0 = 4
  FragSizes = {}
  MsgLen = 1
  PartialIO = FALSE
  NoReneg = TRUE
  Forces = {FALSE}
  Lens = {1, 5}
  MaxRecs = 6
INVARIANT IoTypeOK
 
PROPERTY IoReturns
PROPERTY FlushSendsAll
PROPERTY ErrorsExplained
