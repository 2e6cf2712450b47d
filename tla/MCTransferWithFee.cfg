\* The honest sender over all of MCRequests.  A failed generation ends the
\* transfer with nothing left to do, so deadlock is not a fault here.
CONSTANTS
  WordBits = 8
  LimbBits = 4
  RateBits = 8
  FEE_DENOMINATOR = 100
  OverflowChecks = TRUE
  ByteBits = 4
  Source = Source
  Dest = Dest
  Auditor = Auditor
  FeeCollector = FeeCollector
  NoEnvelope = NoEnvelope
  NotDecrypted = NotDecrypted
  Requests <- MCRequests
  OpeningOf <- MCOpeningOf
  GroupOrder = 65537
SPECIFICATION Spec
CHECK_DEADLOCK FALSE
INVARIANT TypeOK
INVARIANT TranscriptAgreement
INVARIANT RoundTripWhenDeltaMatches
PROPERTY FeeTransferRefinement
