\* u64 -> 8 bits, u32 -> 4 bits, u16 -> 8 bits, a byte -> 4 bits; FEE_DENOMINATOR 10000 -> 100
\* (so rate 1 here is 100 basis points).  Rates range over the policy domain
\* 0..FEE_DENOMINATOR of spec section 8.
CONSTANTS
  WordBits = 8
  LimbBits = 4
  RateBits = 8
  FEE_DENOMINATOR = 100
  OverflowChecks = TRUE
  ByteBits = 4
  Amounts <- MCAmounts
  Rates <- MCPolicyRates
  MaximumFees <- MCMaximumFees
SPECIFICATION Spec
INVARIANT FeeIsCeiling
INVARIANT CapIsMinimum
INVARIANT FeeParametersRoundTrip
