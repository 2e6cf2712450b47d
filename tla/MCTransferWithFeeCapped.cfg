\* The spec's capped scenario (spec 8): a 100% fee capped at the maximum.
\* Nothing follows a failed generation.
CONSTANTS
  WordBits = 8
  LimbBits = 4
  RateBits = 8
  FEE_DENOMINATOR = 100
  OverflowChecks = TRUE
  ByteBits = 4
  Source = Source
  Dest = Dest
  Auditor = Auditor
  FeeCollector = FeeCollector
  NoEnvelope = NoEnvelope
  NotDecrypted = NotDecrypted
  Requests <- MCRequestsCapped
  OpeningOf <- MCOpeningOf
  GroupOrder = 65537
SPECIFICATION Spec
CHECK_DEADLOCK FALSE
INVARIANT RoundTrip
