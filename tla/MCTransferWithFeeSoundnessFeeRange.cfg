\* A dishonest sender submits one envelope, which is then verified: does an
\* accepted envelope hold a u64 fee the collector can decrypt (spec 2)?
CONSTANTS
  WordBits = 8
  LimbBits = 4
  RateBits = 8
  FEE_DENOMINATOR = 100
  OverflowChecks = TRUE
  ByteBits = 4
  Source = Source
  Dest = Dest
  Auditor = Auditor
  FeeCollector = FeeCollector
  NoEnvelope = NoEnvelope
  OpeningOf <- MCOpeningOf
  GroupOrder = 65537
  Limbs <- MCLimbs
  FeeValues <- MCFeeValues
  ClaimedValues <- MCClaimedValues
  BalanceValues <- MCBalanceValues
  FeeParameterSet <- MCFeeParameterSet
  TamperableHandles <- MCNoTampering
SPECIFICATION Spec
INVARIANT AcceptedFeeIsU64
