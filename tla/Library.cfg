SPECIFICATION LibrarySpec
CONSTANTS
  W = 7
  B = 2
  MaxWindow = 2
  Moduli <- MCModuli
  Operands <- MCOperands
  Exponents <- MCExponents
  TLen = 24
  MaxCalls = 2
  Keys <- MCKeys
  Curves <- MCCurves
  Points <- MCPoints
  Multipliers <- MCMultipliers
  Sums <- MCSums
  Strings <- MCStrings
  Signatures <- MCSignatures
  BS = 4
  Cipher <- MCCipher
  GhashStep <- MCGhashStep
  Nonces <- MCNonces
  CcmNonces <- MCCcmNonces
  Sizes = {0, 1, 3, 4, 5, 8, 9}
  Pieces = {1, 2, 3, 4, 5, 7, 9}
  Modes = {"gcm", "ccm", "eax", "eax_pre", "eax_post"}
  EaxAnyPiece = FALSE
  Hashes <- MCHashes
  Compress <- MCCompress
  MultiBlock = 8
  Rate = 3
  Permute <- MCPermute
  MaxChunks = 4
  KeySizes = {0, 2, 9}
  StreamSizes = {0, 1, 2, 3, 5, 6, 7, 8, 9, 14, 17}
  StreamPieces = {1, 2, 3, 5, 8}
  OutSizes = {0, 1}
  CbcBlock = 4
  BlockEncrypt <- MCBlockEncrypt
  BlockDecrypt <- MCBlockDecrypt
  MaxPlain = 12
  MaxOutOverhead = 24
  BufSizes = {37}
  PlainSizes = {0, 1, 8, 12, 13}
  Flaws <- MCFlaws
  MaxRecords = 2
  Offered <- MCOffered
  Contexts <- MCContexts
  ServerNames <- MCServerNames
  CertPieces = {5, 8}
  Forms <- MCForms
  Texts <- MCTexts
  LinkSizes = {41, 48}
  MaxText = 20
  MaxSealed = 3
  MaxFaults = 1
INVARIANT NumbersExact
INVARIANT AeadIgnoresPieces
INVARIANT StreamsIgnorePieces
 
INVARIANT ChainAccepted
INVARIANT OpenedInOrder
CHECK_DEADLOCK FALSE
