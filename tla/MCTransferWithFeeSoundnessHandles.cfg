\* A dishonest sender submits one envelope, which is then verified (any
\* number of times, with the same result).
CONSTANTS
  WordBits = 8
  LimbBits = 4
  RateBits = 8
  FEE_DENOMINATOR = 100
  OverflowChecks = TRUE
  ByteBits = 4
  Source = Source
  Dest = Dest
  Auditor = Auditor
  FeeCollector = FeeCollector
  NoEnvelope = NoEnvelope
  OpeningOf <- MCOpeningOf
  GroupOrder = 65537
  Limbs <- MCLimbsHandles
  FeeValues <- MCFeeValuesHandles
  ClaimedValues <- MCClaimedValues
  BalanceValues <- MCBalanceValuesHandles
  FeeParameterSet <- MCFeeParameterSet
  TamperableHandles <- MCAnyOneHandle
SPECIFICATION Spec
INVARIANT AcceptedAmountReachesRecipients
