SPECIFICATION LibrarySpec
CONSTANTS
  W = 7
  B = 2
  MaxWindow = 2
  Moduli = {}
  Operands <- MCOperands
  Exponents <- MCExponents
  TLen = 24
  MaxCalls = 2
  Keys = {}
  Curves = {}
  Points <- MCPoints
  Multipliers <- MCMultipliers
  Sums <- MCSums
  Strings <- MCStrings
  Signatures <- MCSignatures
  BS = 4
  Cipher <- MCCipher
  GhashStep <- MCGhashStep
  Nonces <- MCNonces
  CcmNonces <- MCCcmNonces
  Sizes = {0, 1, 6, 9}
  Pieces = {1, 2, 5, 9}
  Modes = {"eax"}
  EaxAnyPiece = TRUE
  Hashes <- MCHashes
  Compress <- MCCompress
  MultiBlock = 8
  Rate = 3
  Permute <- MCPermute
  MaxChunks = 4
  KeySizes = {}
  StreamSizes = {}
  StreamPieces = {1}
  OutSizes = {0}
  CbcBlock = 4
  BlockEncrypt <- MCBlockEncrypt
  BlockDecrypt <- MCBlockDecrypt
  MaxPlain = 12
  MaxOutOverhead = 24
  BufSizes = {}
  PlainSizes = {}
  Flaws <- MCFlaws
  MaxRecords = 2
  Offered <- MCOffered
  Contexts = {}
  ServerNames <- MCServerNames
  CertPieces = {5, 8}
  Forms = {}
  Texts <- MCTexts
  LinkSizes = {41, 48}
  MaxText = 20
  MaxSealed = 3
  MaxFaults = 1
INVARIANT AeadIgnoresPieces
CHECK_DEADLOCK FALSE
