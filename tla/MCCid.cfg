SPECIFICATION Spec
CONSTANTS
  Base = 6
  HashLen = 2
  SizeLen = 2
  KeyLen = 1
  PadLen = 1
  Raw = 1
  Bridge = 2
  Resolver = 3
  EncryptedStatic = 4
  OtherTypes = {}
  RegistryTypeCID = 1
  RegistryTypeEncryptedCID = 3
  HashTypeBlake3 = 0
  HashTypeEd25519 = 5
  Digests <- MCDigests
  Sizes <- MCSizes
  Paddings = {5, 6}
  Foreign <- MCForeign
  None = None
INVARIANTS
  TypeOK
  RoundTrip
  EqualsExact
  FailsSafely
