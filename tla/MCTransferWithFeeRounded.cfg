\* One honest transfer whose fee is rounded up and not capped (spec 8,
\* round-trip soundness).  Nothing follows a failed generation.
CONSTANTS
  WordBits = 8
  LimbBits = 4
  RateBits = 8
  FEE_DENOMINATOR = 100
  OverflowChecks = TRUE
  ByteBits = 4
  Source = Source
  Dest = Dest
  Auditor = Auditor
  FeeCollector = FeeCollector
  NoEnvelope = NoEnvelope
  NotDecrypted = NotDecrypted
  Requests <- MCRequestsRounded
  OpeningOf <- MCOpeningOf
  GroupOrder = 65537
SPECIFICATION Spec
CHECK_DEADLOCK FALSE
INVARIANT RoundTrip
