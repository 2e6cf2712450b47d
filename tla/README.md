# TLA+ models of the confidential transfer-with-fee instruction

This directory models `src/zk-token-sdk/src/instruction/transfer_with_fee.rs`
(the only source file of this repository), checked with TLC.

## The system

`TransferWithFeeData` is the payload of a confidential token transfer that
also pays a fee to a fee collector. It has four parts.

* **Fee arithmetic** (`calculate_fee`, lines 613-624). It computes the fee as
  ceil(amount * rate / 10000) in u128, converts it back with `as u64`, and adds
  `fee + 1` when there is a remainder. `TransferWithFeeData::new` (lines
  117-120) then caps the fee with a constant-time select of
  min(fee, maximum_fee).
* **Amount codec.** The amount is split into two 32-bit limbs, and each limb is
  encrypted under the source, destination and auditor keys. The limbs are
  recombined homomorphically (for the new source balance) and after
  decryption (`decrypt_amount`).
* **Delta commitment engine** (lines 627-655). It computes
  delta = fee * D - amount * rate on Pedersen commitments, and on their
  openings too.
* **Proof bundle** (`TransferWithFeeProof`, lines 265-470). `transcript_new`
  binds the public inputs. `new` appends two commitments and generates five
  sub-proofs in a fixed order:
  1. equality,
  2. aggregated validity,
  3. fee sigma,
  4. fee validity,
  5. range.

  `verify` replays the same appends and checks the five sub-proofs in the
  same order. It stops at the first failure.

They interact in this order:

1. `new` feeds the fee and the remainder into the proof.
2. `Verifiable::verify` (lines 222-248) rebuilds the transcript from the
   envelope and calls the proof's `verify`.
3. `decrypt_amount` is used by a receiver holding one of the three keys.

Everything is synchronous. There are no threads, messages or persistence, so
the hard behaviours are arithmetic edges, prover/verifier ordering, and what a
dishonest prover can make the verifier accept.

## Modules

| module | models | state and actions |
|---|---|---|
| `FeeArithmetic` | `calculate_fee`, the cap select, limb split and combine | operators only |
| `FeeArithmetic` (continued) | `FeeParameters::to_bytes`/`from_bytes` | operators only |
| `FeeProof` | commitments, ciphertexts, the pod encodings of `FeeEncryption` and `TransferWithFeePubkeys`, the transcript, `transcript_new`, `TransferWithFeeProof::new`/`verify`, the delta commitments, `Verifiable::verify`, `ciphertext_lo`/`ciphertext_hi` and the result of `decrypt_amount` | operators only |
| `FeeTransfer` | the abstract specification of one transfer: the values an envelope stands for | `request, outcome, transfer, decrypted`; actions `GenerateRejected`, `Generate`, `Decrypt(role)` |
| `TransferWithFee` | one honest `TransferWithFeeData::new` followed by `verify` and `decrypt_amount` for each role | `request, outcome, data, verdict, trace, decrypted`; actions `New`, `Verify`, `DecryptAmount(role)` |
| `TransferWithFeeSoundness` | `verify` and `decrypt_amount` against an envelope a dishonest sender builds, optionally with one corrupted limb handle | `data, verdict`; actions `Submit`, `Verify` |
| `MCFeeArithmetic`, `MCTransferWithFee`, `MCTransferWithFeeSoundness` | bounds and model values for TLC; `MCTransferWithFee` also holds the unit test's scenario | |

### Abstractions

* **Widths.** u64 becomes 8 bits (`WordBits`), u32 becomes 4 bits
  (`LimbBits`), and u16 becomes 8 bits (`RateBits`). `FEE_DENOMINATOR` is 100,
  so a rate of 1 stands for 100 basis points. `as u64` is `% 2^WordBits`.
  `OverflowChecks` chooses what `fee + 1` does on overflow: it panics in a
  debug build and wraps in a release build.
* **Pedersen commitments** are the record `[v, r]`: a value and an opening.
  The value is a scalar modulo the group order (`Scalar`, with
  `GroupOrder` = 65537, a prime above every product of two scaled u64
  values), as `curve25519_dalek::scalar::Scalar` is modulo l. Openings stay
  integers. Group operations act componentwise, so the homomorphic algebra
  of the code holds, wrap-around included: `FEE_DENOMINATOR` is invertible,
  and a negative or oversized value is a large residue, as in the code.
* **Decrypt handles** are coefficient vectors over the keys. A ciphertext
  encrypts x under a key when its commitment holds x and its handle is that
  key's handle for the commitment's opening.
* **Openings** are fixed, distinct integers per call site (`OpeningOf`).
  Randomness plays no part in any property.
* **The transcript** is the sequence of labelled messages appended to it.
* **A sub-proof** records its kind, its statement, whether its relation held,
  and the transcript it was made under. A verifier accepts it iff all of
  these match.
  * For the honest prover the relation is evaluated on the prover's witness.
    In particular, the fee sigma proof depends on `delta_fee` and on the
    branch chosen by `ct_gt(maximum_fee, fee_amount)`.
  * For the dishonest sender, `Provable` gives knowledge soundness: a valid
    proof exists exactly when the statement's relation holds of the committed
    values.
* **Pod encodings.** The envelope carries its pod fields, as the code does:
  * `fee_parameters` is the byte sequence of `FeeParameters::to_bytes`. A
    byte is 4 bits here, so the u16 rate and the u64 cap (both scaled to 8
    bits) take two little-endian bytes each.
  * `ciphertext_fee` and `transfer_with_fee_pubkeys` are sequences with one
    entry per 32-byte block.

  The transcript absorbs these pod fields. `Verifiable::verify` decodes them
  with the `from_bytes` functions before checking. The compressed encoding of
  a curve point is not modelled.
* **Spec-modelled collaborators.** The split/combine helpers and the
  crypto primitives live outside `src/` and are modelled from `spec.md`.

## Runs

| run | cfg | expect | shows |
|---|---|---|---|
| fee_arith | MCFeeArithmetic.cfg | pass | For all 8-bit amounts and rates 0..D, `calculate_fee` is the exact ceiling with no overflow, the select gives min(fee, max), and `FeeParameters::from_bytes` inverts `to_bytes`. |
| fee_rate_overflow | MCFeeArithmeticAllRates.cfg | violation | For rates above D (any u16 is accepted), `as u64` truncates and `fee + 1` overflows (amount 101, rate 253). |
| honest | MCTransferWithFee.cfg | pass | See the list below this table. |
| roundtrip_rounded | MCTransferWithFeeRounded.cfg | violation | An honest transfer with a rounded-up, uncapped fee fails `verify` at the fee sigma proof, because `delta_fee` is the remainder and not D - remainder. |
| roundtrip_capped | MCTransferWithFeeCapped.cfg | violation | An honest transfer with a capped fee fails at the fee validity proof, because the proof is made for the uncapped fee. |
| soundness | MCTransferWithFeeSoundness.cfg | pass | See the list below this table. |
| soundness_cap | MCTransferWithFeeSoundnessCap.cfg | violation | `verify` accepts a fee above `maximum_fee`, contrary to spec section 3; TLC's shortest trace is the field quotient fee of soundness_fee_range. |
| soundness_overcharge | MCTransferWithFeeSoundnessOvercharge.cfg | violation | `verify` accepts a fee above the ceiling: amount 0, rate 3, fee 1 with claimed = D. |
| soundness_fee_range | MCTransferWithFeeSoundnessFeeRange.cfg | violation | `verify` accepts a fee commitment that holds no u64: fee = (amount * rate + claimed) / D in the scalar field (amount 3, rate 3, claimed 0, fee 28181), which the fee collector cannot decrypt (`AcceptedFeeIsU64`). |
| soundness_handles | MCTransferWithFeeSoundnessHandles.cfg | pass | A sender that may also corrupt any one limb handle never gets an envelope accepted that the destination or the auditor cannot decrypt to the committed amount (`AcceptedAmountReachesRecipients`). |
| soundness_source_handle | MCTransferWithFeeSoundnessSourceHandle.cfg | violation | `verify` accepts an envelope whose lo-limb source handle is the zero handle, and `decrypt_amount` with the source key then fails (`AcceptedAmountDecryptsAlike`). |
| stale_balance | MCTransferWithFeeStale.cfg | pass | A caller whose `spendable_balance` disagrees with its `ciphertext_old_source` still gets an envelope from `new`, but `verify` never accepts it (`StaleBalanceNeverVerifies`). |

The **honest** run checks, over 240 requests (including the scaled unit-test
scenario), that:

* the envelope has in-range limbs and a u64 new-balance ciphertext, which `checked_sub` (lines 95-97) guarantees (`TypeOK`);
* every sub-proof `verify` reaches is checked under the transcript it was
  generated under (`TranscriptAgreement`);
* `verify` accepts the envelope whenever the code's own precondition holds:
  the remainder passed as `delta_fee` equals the delta commitment's value, or
  the fee equals the cap, and the fee was not capped below `calculate_fee`
  (`RoundTripWhenDeltaMatches`). This is the whole prover/verifier agreement,
  through the pod encodings, short of findings 1 and 2. It includes the
  range-proof bit lengths, which `new` (lines 359-362, `RangeBitsNew`) and
  `verify` (line 464, `RangeBits`) write out separately;
* the detailed model refines `FeeTransfer` (`FeeTransferRefinement`, checked
  as a PROPERTY).

The refinement mapping sends an envelope to the values its key holders
decrypt. A ciphertext counts for a key only when its handle is that key's
handle for the commitment's opening. Under the mapping:

* the amount must reach all three roles;
* the new balance must be spendable_balance - amount under the source key;
* the fee must be min(ceil, max) for both the destination and the fee
  collector;
* `new` must not panic and must fail exactly when the amount exceeds the
  balance;
* `decrypt_amount` must return the amount;
* `verify` is a stuttering step.

The requests include the scenario of the repository's unit test
`test_fee_correctness` (lines 662-688): balance 120, amount 100, 100 basis
points and cap 3, which is rate 1 here (`TestFeeCorrectnessRequests`). Its
two assertions, that `new` returns Ok and that `verify` accepts, are
instances of `RoundTripWhenDeltaMatches` and of the refinement there. The fee
is exact and not capped, so neither finding 1 nor finding 2 applies, which
is why the test passes while most honest rounded or capped transfers fail.

The refinement replaces three invariants of the first version (decryption,
new balance, capped fee), which it implies.

The **soundness** run covers every envelope a dishonest sender can build. The
sender chooses:

* limbs in {-1, 0, 3, 15, 16};
* fees in -1..52, and for each claimed delta c in 0..D the fee that the
  scalar field allows, (amount * rate + c) / D mod l (`FeeForDelta`);
* a claimed delta at the range edges or equal to the real delta;
* a new balance ciphertext at the u64 edges, with a commitment equal to it or
  one more;
* two rates and two caps.

It checks that an accepted envelope has:

* 32-bit limbs and a u64 balance matching its commitment
  (`AcceptedAmountsInRange`);
* a fee of at least min(ceil(amount * rate / D), max), the fee read as its
  least residue (`AcceptedFeeCoversRate`).

No upper bound on the fee holds: the fee commitment is in none of the range
proofs, so the field quotient fees are accepted (soundness_cap,
soundness_fee_range, finding 7).

The **soundness_handles** run lets the sender also replace any one of the
six limb decrypt handles by the zero handle. Those are the source,
destination and auditor handles of each of the two limbs. The value sets are
narrower (limbs {-1, 0, 3, 16}, fees -1..4, balances {-1, 0, max}), and the
run reaches 194k states. `decrypt_amount` is evaluated on the envelope as a
pure operator, `DecryptAmountOf`. The destination and the auditor always read
the committed amount from an accepted envelope. The corrupted source handle
gives finding 6.

The **stale_balance** run models a caller whose two views of its balance
disagree. `new` takes `spendable_balance` and `ciphertext_old_source` as two
arguments. It checks the amount against the plaintext (line 96) and subtracts
it from the ciphertext (lines 110-111). Each request records the value that
the caller's ciphertext really encrypts (`old_source_balance`). The run uses
a balance of 120 with ciphertexts of 0, 119, 120, 121 and 255. The 0 makes
the new-balance ciphertext negative. The run checks that `verify` accepts
only envelopes whose two views agreed. What rejects the others is the
equality proof, which links `commitment_new_source` (made from the plaintext)
to `ciphertext_new_source`. The mutant drops the `?` after each check but the
last.

Each property of a passing run has a mutant in `PROJECT.json`. The mutant is a
plausible slip in the mapped code that makes TLC report the property violated.

### Bounds

* **Arithmetic.** The 8-bit words and denominator 100 keep the same relations
  that matter in the code:
  * amount * rate can exceed a word when the rate is above D;
  * the remainder is below D;
  * limbs split at 2^4.

  All 256 amounts and every rate up to 255 are enumerated.
* **Honest run.** The request values cover:
  * exact and rounded fees;
  * capped and uncapped fees;
  * a zero amount;
  * the remainder D / 2 (10 at 5%), the one rounded fee that verifies
    despite finding 1, because there the remainder equals D - remainder;
  * balance < amount (the generation error).
* **Soundness run.** The value sets include one value beyond each range edge
  that the range proofs must rule out.

### Fairness

None is assumed and only safety is checked. Every operation is a synchronous
call, and nothing in the code must eventually happen.

`TransferWithFee` sets `CHECK_DEADLOCK FALSE`. A failed generation leaves no
envelope, so no further call is possible, and in the code that is where the
transfer ends.

## Findings

The details and counterexamples are in `PROJECT.json` under "findings".

1. `delta_fee` passed to the fee sigma proof is the remainder, while the delta
   commitment holds D - remainder. Honest rounded fees do not verify.
2. The proofs use the uncapped fee, while the ciphertext holds the capped one.
   Honest capped fees do not verify.
3. Rates above `FEE_DENOMINATOR` truncate and overflow in `calculate_fee`.
4. `verify` does not enforce fee <= maximum_fee. Any fee solving
   fee * D = amount * rate + claimed in the scalar field is accepted.
5. `verify` accepts fees above the ceiling, for two reasons:
   * the complement range admits claimed = D, so one token more is accepted
     on an exact division;
   * the fee sigma proof's first branch accepts fee = maximum_fee for any
     amount.

   With finding 7, the overcharge is not bounded at all.

6. `verify` never checks the limbs' source handles. The aggregated validity
   proof covers only the destination and auditor handles (lines 418-427).
   An envelope whose source handle decrypts nothing is accepted, contrary to
   spec sections 4.6 and 8. Those sections say the source decrypts the
   amount too. The damage stays with the sender, who built the envelope, and
   with any tool that reads the sender's history from it.
7. `verify` never range-checks the fee commitment (lines 455-466 cover the
   new balance, the limbs, claimed and D - claimed). Since D is invertible
   modulo l, a sender commits fee = (amount * rate + claimed) / D mod l, and
   the delta commitment opens to zero. The accepted fee is no u64, so the
   collector cannot decrypt it, contrary to spec section 3 ("all
   balance/fee/delta values fit in 64 bits").

## Not modelled

* **Curve-point encodings.** The model keeps group elements whole, so it does
  not cover the compressed encoding of a curve point, or the decode failures
  that invalid points cause (`ok_or(ProofError::Verification)` in the
  `from_bytes` functions and `try_into` in `verify`). Those failures give the
  same Verification error that a failed check does.
  `TransferWithFeePubkeys::to_bytes` is not called in this file.
* **Zero-knowledge, hashing and group security.** These are out of TLC's
  reach.
* **Timing of `decrypt_amount`.** This is a side channel, and time is not
  modelled.
* **What remains partly modelled, and why it stays so.**
  * *Byte encodings* is partly modelled. The 32-byte compressed encodings of
    curve points, and the `None` that an invalid point gives, are kept
    abstract: a group element is carried whole. Everything else about the
    pod layout is modelled: field order, offsets and little-endian integers.
  * *Cryptographic collaborators* is partly modelled. The primitives are
    modelled from `spec.md` by what they accept (`Provable`) and not by
    their algebra.

  Neither component can be modelled further in TLC without enumerating
  curve points.

## Plan for later work

1. **Proof replay** needs no model of its own. An adversary that moves whole
   sub-proofs between envelopes could change the fields that `transcript_new`
   does not bind (`fee_parameters`, `ciphertext_new_source`). Every sub-proof
   binds its statement, and the statement contains both fields. So a replayed
   sub-proof passes only where `Provable` already accepts some proof, and the
   soundness run covers every such envelope.
2. Liveness has no place here: every operation is one synchronous call.
3. Larger soundness sets. Adding rate 0 and cap 0 gives 968k states. That
   run passes in about a minute, but a counterexample lies past the whole
   first breadth-first level, so the runs that must find one take too long.
