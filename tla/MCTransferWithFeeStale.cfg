\* Callers whose spendable_balance and ciphertext_old_source disagree.
\* Generation ends the transfer, so deadlock is not a fault here.
CONSTANTS
  WordBits = 8
  LimbBits = 4
  RateBits = 8
  FEE_DENOMINATOR = 100
  OverflowChecks = TRUE
  ByteBits = 4
  Source = Source
  Dest = Dest
  Auditor = Auditor
  FeeCollector = FeeCollector
  NoEnvelope = NoEnvelope
  NotDecrypted = NotDecrypted
  Requests <- MCRequestsStale
  OpeningOf <- MCOpeningOf
  GroupOrder = 65537
SPECIFICATION Spec
CHECK_DEADLOCK FALSE
INVARIANT StaleBalanceNeverVerifies
