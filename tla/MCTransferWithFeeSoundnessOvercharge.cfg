\* A dishonest sender submits one envelope, which is then verified: can an
\* accepted envelope encrypt more than the ceiling fee the rate asks for?
CONSTANTS
  WordBits = 8
  LimbBits = 4
  RateBits = 8
  FEE_DENOMINATOR = 100
  OverflowChecks = TRUE
  ByteBits = 4
  Source = Source
  Dest = Dest
  Auditor = Auditor
  FeeCollector = FeeCollector
  NoEnvelope = NoEnvelope
  OpeningOf <- MCOpeningOf
  GroupOrder = 65537
  Limbs <- MCLimbs
  FeeValues <- MCFeeValues
  ClaimedValues <- MCClaimedValues
  BalanceValues <- MCBalanceValues
  FeeParameterSet <- MCFeeParameterSet
  TamperableHandles <- MCNoTampering
SPECIFICATION Spec
INVARIANT AcceptedFeeAtMostDue
