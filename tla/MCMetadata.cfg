SPECIFICATION Spec
CONSTANTS
  Base = 8
  HashLen = 2
  SizeLen = 2
  KeyLen = 1
  PadLen = 1
  Raw = 1
  Bridge = 2
  Resolver = 3
  EncryptedStatic = 4
  OtherTypes = {5, 6, 7}
  RegistryTypeCID = 1
  RegistryTypeEncryptedCID = 3
  HashTypeBlake3 = 0
  HashTypeEd25519 = 5
  CIDTypeMetadataMedia = 5
  CIDTypeMetadataWebapp = 6
  CIDTypeDirectory = 7
  None = None
  Tasks = {t1, t2}
  PathOrder <- MCPathOrder
  Names = {"a", "b"}
  AskedTypes = {1, 2, 5, 6, 7}
  DirectoryRefs <- MCDirectoryRefs
  FileRefs <- MCFileRefs
  Cids <- MCCids
  Extensions = {"timestamp", "tags", "updateCID"}
  ErrorCodes = {404, 500}
  Foreign <- MCForeign
  WrongBytes <- MCWrongBytes
  MaxParts = 2
SYMMETRY Symmetry
INVARIANTS
  TypeOK
  ReadBack
  SignedBodyRead
  HonestAnswers
  OneHash
