\* u64 -> 8 bits, u32 -> 4 bits, u16 -> 8 bits; FEE_DENOMINATOR 10000 -> 100
\* (so rate 1 here is 100 basis points).  Rates range over every u16 value:
\* nothing in the code rejects a rate above FEE_DENOMINATOR.
CONSTANTS
  WordBits = 8
  LimbBits = 4
  RateBits = 8
  FEE_DENOMINATOR = 100
  OverflowChecks = TRUE
  ByteBits = 4
  Amounts <- MCAmounts
  Rates <- MCAllRates
  MaximumFees <- MCMaximumFees
SPECIFICATION Spec
INVARIANT FeeIsCeiling
