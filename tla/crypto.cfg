SPECIFICATION Spec
CONSTANTS
  ByteBits = 2
  WordBytes = 2
  uECC_RNG_MAX_TRIES = 2
  Curves <- MCCurves
  Draws <- MCDraws
  GivenKeys <- MCGivenKeys
  GivenNonces <- MCGivenNonces
  PeerKeys <- MCPeerKeys
  Hashes <- MCHashes
  BlockBytes = 16
  LengthBytes = 2
  Message <- MCMessage
  UpdateLengths <- MCUpdateLengths
CHECK_DEADLOCK FALSE
INVARIANTS
  ShaTypeOK
  NothingLost
  DigestOfPaddedMessage
  EcTypeOK
  KeyPairSound
  RefusesOnlyExceptional
  SecretsAgree
  SignatureEquation
  NoncePoint
  AcceptsOnlyValid
  AcceptsValid
  OwnSignatureValid
PROPERTIES
  CallsReturn
