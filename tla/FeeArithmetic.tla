--------------------------- MODULE FeeArithmetic ---------------------------
(***************************************************************************)
(* The integer arithmetic of transfer_with_fee.rs: calculate_fee, the      *)
(* constant-time capping of the fee at maximum_fee, and the split of a     *)
(* 64-bit amount into two 32-bit limbs and its recombination.              *)
(*                                                                         *)
(* Widths are parameters: WordBits stands for the 64 of u64, LimbBits for  *)
(* the 32 of u32, RateBits for the 16 of u16.  A cast `as u64` is reduced  *)
(* modulo 2^WordBits, as Rust does.  The u128 intermediate of              *)
(* calculate_fee never overflows (64 + 16 < 128 bits) and is kept exact.   *)
(***************************************************************************)
EXTENDS Integers, Sequences
LOCAL INSTANCE SequencesExt

CONSTANTS
  WordBits,         \* bits of u64 in the code
  LimbBits,         \* bits of u32 in the code
  RateBits,         \* bits of u16 in the code
  FEE_DENOMINATOR,  \* 10000 in the code: one basis point is 1/FEE_DENOMINATOR
  OverflowChecks,   \* TRUE: a debug build (u64 overflow panics); FALSE: release (wraps)
  ByteBits          \* bits of a byte in the code's little-endian encodings

ASSUME /\ LimbBits \in Nat \ {0}
       /\ WordBits = 2 * LimbBits
       /\ RateBits \in Nat \ {0}
       /\ FEE_DENOMINATOR \in Nat \ {0}
       /\ OverflowChecks \in BOOLEAN
       /\ ByteBits \in Nat \ {0}
       /\ RateBits % ByteBits = 0 /\ WordBits % ByteBits = 0

U64Max == 2^WordBits                     \* u64::MAX + 1
TWO_32 == 2^LimbBits                     \* TWO_32 of instruction/mod.rs
U64 == 0 .. (U64Max - 1)
U32 == 0 .. (TWO_32 - 1)
U16 == 0 .. (2^RateBits - 1)

\* `x as u64`: truncation to the low WordBits bits.
AsU64(x) == x % U64Max

\* u64 addition `a + b`: panics on overflow in a debug build, wraps in a
\* release build.  The outcome is a record; ok = FALSE is the panic.
U64Add(a, b) ==
  IF a + b < U64Max THEN [ok |-> TRUE, val |-> a + b]
  ELSE IF OverflowChecks THEN [ok |-> FALSE, val |-> 0]
  ELSE [ok |-> TRUE, val |-> AsU64(a + b)]

\* u64 subtraction `a - b`, with the same build-dependent overflow.
U64Sub(a, b) ==
  IF a >= b THEN [ok |-> TRUE, val |-> a - b]
  ELSE IF OverflowChecks THEN [ok |-> FALSE, val |-> 0]
  ELSE [ok |-> TRUE, val |-> AsU64(a - b)]

\* Mutant: `saturating_sub` in place of `checked_sub`, so a balance below the
\* amount gives 0 instead of the Generation error.
SaturatingSub(a, b) == [ok |-> TRUE, val |-> IF a >= b THEN a - b ELSE 0]
\* u64::checked_sub: None (ok FALSE) when b exceeds a, whatever the build.
CheckedSub(a, b) == IF a >= b THEN [ok |-> TRUE, val |-> a - b] ELSE [ok |-> FALSE, val |-> 0]

(***************************************************************************)
(* calculate_fee (transfer_with_fee.rs 612-624).  The fee is rounded up;   *)
(* the second component is the remainder of the division, which the code  *)
(* passes on as delta_fee.  Result: [ok, fee, rem]; ok = FALSE when the    *)
(* `fee + 1` panics.                                                       *)
(***************************************************************************)
\* Mutant: the rounding-up branch dropped (fee returned as floor).
CalculateFeeFloor(transfer_amount, fee_rate_basis_points) ==
  LET fee_scaled == transfer_amount * fee_rate_basis_points
  IN [ok |-> TRUE, fee |-> AsU64(fee_scaled \div FEE_DENOMINATOR),
      rem |-> AsU64(fee_scaled % FEE_DENOMINATOR)]

CalculateFee(transfer_amount, fee_rate_basis_points) ==
  LET fee_scaled == transfer_amount * fee_rate_basis_points
      fee == AsU64(fee_scaled \div FEE_DENOMINATOR)
      rem == AsU64(fee_scaled % FEE_DENOMINATOR)
      up  == U64Add(fee, 1)
  IN IF rem = 0 THEN [ok |-> TRUE, fee |-> fee, rem |-> rem]
     ELSE [ok |-> up.ok, fee |-> up.val, rem |-> rem]

\* subtle's ConstantTimeGreater::ct_gt and ConditionallySelectable::
\* conditional_select(a, b, choice): b when choice is set, a otherwise.
CtGt(a, b) == a > b
ConditionalSelect(a, b, choice) == IF choice THEN b ELSE a

\* Mutant: the commented-out selection of line 120, arguments swapped.
FeeToEncryptSwapped(fee_amount, maximum_fee) ==
  ConditionalSelect(fee_amount, maximum_fee, CtGt(maximum_fee, fee_amount))

\* The capping in TransferWithFeeData::new (lines 117-119).
FeeToEncrypt(fee_amount, maximum_fee) ==
  LET below_max == CtGt(maximum_fee, fee_amount)
  IN ConditionalSelect(maximum_fee, fee_amount, below_max)

\* split_u64_into_u32 and the recombination lo + TWO_32 * hi of
\* instruction/mod.rs and decrypt_amount.
SplitU64IntoU32(amount) == <<amount % TWO_32, AsU64(amount \div TWO_32) % TWO_32>>
CombineU32(lo, hi) == lo + TWO_32 * hi

(***************************************************************************)
(* FeeParameters::to_bytes / from_bytes (lines 591-610): the rate as a     *)
(* little-endian u16 followed by maximum_fee as a little-endian u64.       *)
(***************************************************************************)
RateBytes == RateBits \div ByteBits
WordBytes == WordBits \div ByteBits

\* to_le_bytes: n bytes, the least significant first.
ToLeBytes(x, n) == [i \in 1..n |-> (x \div 2^(ByteBits * (i - 1))) % 2^ByteBits]
\* from_le_bytes: the first byte is the least significant.
FromLeBytes(bytes) == FoldRight(LAMBDA b, acc : b + 2^ByteBits * acc, bytes, 0)

FeeParametersToBytes(fp) ==
  ToLeBytes(fp.fee_rate_basis_points, RateBytes) \o ToLeBytes(fp.maximum_fee, WordBytes)

\* Mutant: the fields read back with from_be_bytes.
FeeParametersFromBytesBigEndian(bytes) ==
  LET FromBe(s) == FoldLeft(LAMBDA acc, b : acc * 2^ByteBits + b, 0, s)
  IN [fee_rate_basis_points |-> FromBe(SubSeq(bytes, 1, RateBytes)),
      maximum_fee |-> FromBe(SubSeq(bytes, RateBytes + 1, RateBytes + WordBytes))]

FeeParametersFromBytes(bytes) ==
  [fee_rate_basis_points |-> FromLeBytes(SubSeq(bytes, 1, RateBytes)),
   maximum_fee |-> FromLeBytes(SubSeq(bytes, RateBytes + 1, RateBytes + WordBytes))]

(***************************************************************************)
(* Reference definitions, from the spec (section 4.2).                     *)
(***************************************************************************)
CeilDiv(a, b) == (a + b - 1) \div b
MinOf(a, b) == IF a <= b THEN a ELSE b
=============================================================================
