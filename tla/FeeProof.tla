------------------------------ MODULE FeeProof ------------------------------
(***************************************************************************)
(* The data of transfer_with_fee.rs and the two halves of the proof:       *)
(* TransferWithFeeProof::new (the prover) and TransferWithFeeProof::verify *)
(* (the verifier), as operators over abstract cryptographic values.        *)
(*                                                                         *)
(* The cryptographic collaborators are abstracted by what they compute:   *)
(*  - a Pedersen commitment xG + rH is the pair [v |-> x, r |-> r]; the    *)
(*    group operations act on both components, and x is a scalar modulo   *)
(*    the group order, so FEE_DENOMINATOR can be divided by;             *)
(*  - a decrypt handle is the vector of coefficients of the public keys   *)
(*    it is a combination of, so r * P_k is [k |-> r, others |-> 0];       *)
(*  - the Fiat-Shamir transcript is the sequence of labelled messages     *)
(*    appended to it; a sub-proof appends its own messages, written here   *)
(*    as one <<kind, "challenge">> entry;                                  *)
(*  - a sub-proof records the statement it was generated for, the         *)
(*    transcript it was generated under, and whether the prover's witness *)
(*    satisfies the relation.  Its verifier accepts exactly when the       *)
(*    statement and transcript it is given are those, and the witness     *)
(*    was valid (completeness plus soundness of the primitive).            *)
(***************************************************************************)
EXTENDS FeeArithmetic, Sequences

CONSTANTS
  Source, Dest, Auditor, FeeCollector, \* the ElGamal public keys, model values
  OpeningOf,    \* the randomness each Pedersen::new call site draws
  GroupOrder    \* the order l of the group: committed values are scalars mod l

Keys == {Source, Dest, Auditor, FeeCollector}
Roles == {Source, Dest, Auditor}          \* the Role enum of instruction/mod.rs
Sites == {"old_source", "lo", "hi", "fee", "new_source", "claimed"}

ASSUME OpeningOf \in [Sites -> Int]
\* l is prime and far above every u64 value (2^252 against 2^64 in the code).
ASSUME /\ GroupOrder > 2^(2 * WordBits)
       /\ \A d \in 2 .. GroupOrder - 1 : d <= GroupOrder \div d => GroupOrder % d # 0

----------------------------------------------------------------------------
(* Pedersen commitments and openings (encryption/pedersen.rs).            *)

\* The committed value is a Scalar: every group operation reduces it mod l.
\* Openings stay integers: the model's openings are fixed and distinct, so
\* two of them agree over the integers exactly when they agree mod l.
Scalar(x) == x % GroupOrder
PedersenNew(x, r) == [v |-> Scalar(x), r |-> r]
PedersenEncode(x) == [v |-> Scalar(x), r |-> 0]
CAdd(a, b) == [v |-> Scalar(a.v + b.v), r |-> a.r + b.r]
CSub(a, b) == [v |-> Scalar(a.v - b.v), r |-> a.r - b.r]
CScale(a, s) == [v |-> Scalar(a.v * s), r |-> a.r * s]

COMMITMENT_FEE_DENOMINATOR == PedersenEncode(FEE_DENOMINATOR)

(* ElGamal decrypt handles and ciphertexts (encryption/elgamal.rs).        *)

DecryptHandleOf(pk, r) == [k \in Keys |-> IF k = pk THEN r ELSE 0]
HSub(a, b) == [k \in Keys |-> a[k] - b[k]]

Encrypt(pk, x, r) ==
  [commitment |-> PedersenNew(x, r), handle |-> DecryptHandleOf(pk, r)]

CtSub(a, b) == [commitment |-> CSub(a.commitment, b.commitment),
                handle |-> HSub(a.handle, b.handle)]

\* The ciphertext encrypts x to the holder of pk: its handle is r * pk for
\* the opening r of its commitment, and the commitment holds x.
EncryptsUnder(ct, pk, x) ==
  /\ ct.commitment.v = Scalar(x)
  /\ ct.handle = DecryptHandleOf(pk, ct.commitment.r)

\* decrypt_u32_online: the discrete log is searched in the 32-bit range.
DecryptU32(ct, pk) ==
  IF EncryptsUnder(ct, pk, ct.commitment.v) /\ ct.commitment.v \in U32
  THEN [ok |-> TRUE, val |-> ct.commitment.v]
  ELSE [ok |-> FALSE, val |-> 0]

(* combine_u32_* of instruction/mod.rs: lo + TWO_32 * hi.                 *)

CombineU32Commitments(lo, hi) == CAdd(lo, CScale(hi, TWO_32))
CombineU32Openings(lo, hi) == lo + TWO_32 * hi

\* Mutant: the limbs weighted the wrong way round.
CombineU32CiphertextsSwapped(lo, hi) ==
  [commitment |-> CAdd(hi.commitment, CScale(lo.commitment, TWO_32)),
   handle |-> [k \in Keys |-> hi.handle[k] + TWO_32 * lo.handle[k]]]

CombineU32Ciphertexts(lo, hi) ==
  [commitment |-> CombineU32Commitments(lo.commitment, hi.commitment),
   handle |-> [k \in Keys |-> lo.handle[k] + TWO_32 * hi.handle[k]]]

(* TransferAmountEncryption::new (instruction/transfer.rs) and             *)
(* FeeEncryption::new (lines 539-554).                                     *)

TransferAmountEncryptionNew(amount, r) ==
  [commitment |-> PedersenNew(amount, r),
   source |-> DecryptHandleOf(Source, r),
   dest |-> DecryptHandleOf(Dest, r),
   auditor |-> DecryptHandleOf(Auditor, r)]

FeeEncryptionNew(amount, r) ==
  [commitment |-> PedersenNew(amount, r),
   dest |-> DecryptHandleOf(Dest, r),
   fee_collector |-> DecryptHandleOf(FeeCollector, r)]

(* The pod byte encodings (lines 483-579).  A 32-byte block holding one   *)
(* group element is one entry of the sequence; its encoding of the curve    *)
(* point is not modelled, so decoding never meets an invalid point.        *)

\* pod::TransferWithFeePubkeys::new: the four keys in their fixed order.
PodTransferWithFeePubkeysNew(source, dest, auditor, fee_collector) ==
  <<source, dest, auditor, fee_collector>>

\* TransferWithFeePubkeys::from_bytes: array_refs![bytes, 32, 32, 32, 32].
TransferWithFeePubkeysFromBytes(bytes) ==
  [source |-> bytes[1], dest |-> bytes[2], auditor |-> bytes[3], fee_collector |-> bytes[4]]

FeeEncryptionToBytes(ct) == <<ct.commitment, ct.dest, ct.fee_collector>>

\* Mutant: the two decrypt handles read from each other's block.
FeeEncryptionFromBytesSwapped(bytes) ==
  [commitment |-> bytes[1], dest |-> bytes[3], fee_collector |-> bytes[2]]

FeeEncryptionFromBytes(bytes) ==
  [commitment |-> bytes[1], dest |-> bytes[2], fee_collector |-> bytes[3]]

----------------------------------------------------------------------------
(* The delta commitment (lines 626-655).                                   *)

ComputeDeltaCommitmentAndOpening(c_lo, r_lo, c_hi, r_hi, c_fee, r_fee, rate) ==
  <<CSub(CScale(c_fee, FEE_DENOMINATOR), CScale(CombineU32Commitments(c_lo, c_hi), rate)),
    r_fee * FEE_DENOMINATOR - CombineU32Openings(r_lo, r_hi) * rate>>

\* Mutant: the two terms subtracted the other way round.
ComputeDeltaCommitmentNegated(c_lo, c_hi, c_fee, rate) ==
  CSub(CScale(CombineU32Commitments(c_lo, c_hi), rate), CScale(c_fee, FEE_DENOMINATOR))

ComputeDeltaCommitment(c_lo, c_hi, c_fee, rate) ==
  CSub(CScale(c_fee, FEE_DENOMINATOR), CScale(CombineU32Commitments(c_lo, c_hi), rate))

----------------------------------------------------------------------------
(* The transcript (lines 267-281) and the sub-proof primitives            *)
(* (sigma_proofs/*, range_proof), abstracted as described above.          *)

TranscriptNew(pubkeys, ciphertext_lo, ciphertext_hi, ciphertext_fee) ==
  << <<"FeeProof">>,
     <<"transfer-with-fee-pubkeys", pubkeys>>,
     <<"ciphertext-lo", ciphertext_lo>>,
     <<"ciphertext-hi", ciphertext_hi>>,
     <<"ciphertext-fee", ciphertext_fee>> >>

\* The messages a sub-proof of this kind adds to the transcript.
AfterSubProof(ts, kind) == Append(ts, <<kind, "challenge">>)

SubProof(kind, stmt, valid, ts) == [kind |-> kind, stmt |-> stmt, valid |-> valid, ts |-> ts]

VerifySubProof(proof, kind, stmt, ts) ==
  /\ proof.kind = kind
  /\ proof.stmt = stmt
  /\ proof.ts = ts
  /\ proof.valid

EqualityStmt(pk, ct, commitment) == [pubkey |-> pk, ciphertext |-> ct, commitment |-> commitment]
EqualityProofNew(pk, ct, x, r, ts) ==
  SubProof("equality_proof", EqualityStmt(pk, ct, PedersenNew(x, r)), EncryptsUnder(ct, pk, x), ts)

AggregatedValidityStmt(pks, commitments, handles_dest, handles_auditor) ==
  [pubkeys |-> pks, commitments |-> commitments,
   handles_dest |-> handles_dest, handles_auditor |-> handles_auditor]
AggregatedValidityProofNew(pks, xs, rs, ts) ==
  SubProof("ciphertext_amount_validity_proof",
           AggregatedValidityStmt(pks,
             <<PedersenNew(xs[1], rs[1]), PedersenNew(xs[2], rs[2])>>,
             <<DecryptHandleOf(pks[1], rs[1]), DecryptHandleOf(pks[1], rs[2])>>,
             <<DecryptHandleOf(pks[2], rs[1]), DecryptHandleOf(pks[2], rs[2])>>),
           TRUE, ts)

\* FeeSigmaProof: either the fee commitment holds maximum_fee, or the delta
\* and claimed commitments hold the same value.  The prover proves the first
\* branch for real when ct_gt(max_fee, fee_amount) is false, else the second.
FeeSigmaStmt(c_fee, c_delta, c_claimed, max_fee) ==
  [fee |-> c_fee, delta |-> c_delta, claimed |-> c_claimed, max_fee |-> max_fee]
FeeSigmaProofNew(fee_amount, c_fee, r_fee, delta_fee, c_delta, r_delta, c_claimed, r_claimed, max_fee, ts) ==
  SubProof("fee_sigma_proof", FeeSigmaStmt(c_fee, c_delta, c_claimed, max_fee),
           IF CtGt(max_fee, fee_amount)
           THEN /\ c_delta = PedersenNew(delta_fee, r_delta)
                /\ c_claimed = PedersenNew(delta_fee, r_claimed)
           ELSE c_fee = PedersenNew(max_fee, r_fee),
           ts)

ValidityStmt(commitment, pks, handles) == [commitment |-> commitment, pubkeys |-> pks, handles |-> handles]
ValidityProofNew(pks, x, r, ts) ==
  SubProof("ciphertext_fee_validity_proof",
           ValidityStmt(PedersenNew(x, r), pks,
                        <<DecryptHandleOf(pks[1], r), DecryptHandleOf(pks[2], r)>>),
           TRUE, ts)


\* commitment_claimed_negated of verify (line 455): FEE_DENOMINATOR - claimed.
CommitmentClaimedNegated(c_claimed) == CSub(COMMITMENT_FEE_DENOMINATOR, c_claimed)

RangeStmt(commitments, bits) == [commitments |-> commitments, bits |-> bits]
RangeProofNew(values, bits, rs, ts) ==
  SubProof("range_proof",
           RangeStmt([i \in DOMAIN values |-> PedersenNew(values[i], rs[i])], bits),
           \A i \in DOMAIN values : values[i] \in 0 .. (2^bits[i] - 1),
           ts)

\* Mutant: every value range-checked at 64 bits, the limbs included.
RangeBitsAllWords == <<WordBits, WordBits, WordBits, WordBits, WordBits>>

\* The bit lengths new passes to RangeProof::new (lines 359-362).
RangeBitsNew == <<WordBits, LimbBits, LimbBits, WordBits, WordBits>>
\* The bit lengths verify passes to RangeProof::verify (line 464).
RangeBits == <<WordBits, LimbBits, LimbBits, WordBits, WordBits>>

----------------------------------------------------------------------------
(***************************************************************************)
(* TransferWithFeeProof::new (lines 283-382).  The sub-proofs are          *)
(* generated in the fixed order, each under the transcript left by the     *)
(* previous one.  Result: [ok, proof]; ok = FALSE when                    *)
(* FEE_DENOMINATOR - delta_fee overflows in a debug build.                 *)
(***************************************************************************)
ProofNew(amount_lo, ciphertext_lo, opening_lo, amount_hi, ciphertext_hi, opening_hi, source_new_balance, ciphertext_new_source, fee_amount, ciphertext_fee, opening_fee, delta_fee, fee_parameters, ts0) ==
  LET opening_source == OpeningOf["new_source"]
      opening_claimed == OpeningOf["claimed"]
      commitment_new_source == PedersenNew(source_new_balance, opening_source)
      commitment_claimed == PedersenNew(delta_fee, opening_claimed)
      ts1 == Append(Append(ts0, <<"commitment-new-source", commitment_new_source>>),
                    <<"commitment-claimed", commitment_claimed>>)
      equality_proof ==
        EqualityProofNew(Source, ciphertext_new_source, source_new_balance, opening_source, ts1)
      ts2 == AfterSubProof(ts1, "equality_proof")
      amount_validity_proof ==
        AggregatedValidityProofNew(<<Dest, Auditor>>, <<amount_lo, amount_hi>>,
                                   <<opening_lo, opening_hi>>, ts2)
      ts3 == AfterSubProof(ts2, "ciphertext_amount_validity_proof")
      delta == ComputeDeltaCommitmentAndOpening(
                 ciphertext_lo.commitment, opening_lo, ciphertext_hi.commitment, opening_hi,
                 ciphertext_fee.commitment, opening_fee, fee_parameters.fee_rate_basis_points)
      fee_sigma_proof ==
        FeeSigmaProofNew(fee_amount, ciphertext_fee.commitment, opening_fee,
                         delta_fee, delta[1], delta[2],
                         commitment_claimed, opening_claimed,
                         fee_parameters.maximum_fee, ts3)
      ts4 == AfterSubProof(ts3, "fee_sigma_proof")
      fee_validity_proof ==
        ValidityProofNew(<<Dest, FeeCollector>>, fee_amount, opening_fee, ts4)
      ts5 == AfterSubProof(ts4, "ciphertext_fee_validity_proof")
      complement == U64Sub(FEE_DENOMINATOR, delta_fee)
      opening_claimed_negated == 0 - opening_claimed
      range_proof ==
        RangeProofNew(<<source_new_balance, amount_lo, amount_hi, delta_fee, complement.val>>,
                      RangeBitsNew,
                      <<opening_source, opening_lo, opening_hi, opening_claimed,
                        opening_claimed_negated>>, ts5)
  IN [ok |-> complement.ok,
      proof |-> [commitment_new_source |-> commitment_new_source,
                 commitment_claimed |-> commitment_claimed,
                 equality_proof |-> equality_proof,
                 ciphertext_amount_validity_proof |-> amount_validity_proof,
                 fee_sigma_proof |-> fee_sigma_proof,
                 ciphertext_fee_validity_proof |-> fee_validity_proof,
                 range_proof |-> range_proof]]

(***************************************************************************)
(* TransferWithFeeProof::verify (lines 384-470).  The checks in their      *)
(* order: each names the sub-proof field and the statement the verifier    *)
(* rebuilds from the public data.                                          *)
(***************************************************************************)
ProofVerifyChecks(proof, ciphertext_lo, ciphertext_hi, pubkeys, new_spendable_ciphertext, ciphertext_fee, fee_parameters) ==
  << [kind |-> "equality_proof",
      stmt |-> EqualityStmt(pubkeys.source, new_spendable_ciphertext,
                            proof.commitment_new_source)],
     [kind |-> "ciphertext_amount_validity_proof",
      stmt |-> AggregatedValidityStmt(<<pubkeys.dest, pubkeys.auditor>>,
                 <<ciphertext_lo.commitment, ciphertext_hi.commitment>>,
                 <<ciphertext_lo.dest, ciphertext_hi.dest>>,
                 <<ciphertext_lo.auditor, ciphertext_hi.auditor>>)],
     [kind |-> "fee_sigma_proof",
      stmt |-> FeeSigmaStmt(ciphertext_fee.commitment,
                 ComputeDeltaCommitment(ciphertext_lo.commitment, ciphertext_hi.commitment,
                                        ciphertext_fee.commitment,
                                        fee_parameters.fee_rate_basis_points),
                 proof.commitment_claimed, fee_parameters.maximum_fee)],
     [kind |-> "ciphertext_fee_validity_proof",
      stmt |-> ValidityStmt(ciphertext_fee.commitment, <<pubkeys.dest, pubkeys.fee_collector>>,
                            <<ciphertext_fee.dest, ciphertext_fee.fee_collector>>)],
     [kind |-> "range_proof",
      stmt |-> RangeStmt(<<proof.commitment_new_source, ciphertext_lo.commitment,
                           ciphertext_hi.commitment, proof.commitment_claimed,
                           CommitmentClaimedNegated(proof.commitment_claimed)>>,
                         RangeBits)] >>

\* Mutant: the Result of every check but the last dropped instead of
\* propagated with `?`, so only the range proof decides.
RECURSIVE RunChecksUnchecked(_, _, _)
RunChecksUnchecked(proof, checks, ts) ==
  IF checks = <<>> THEN [ok |-> TRUE, trace |-> <<>>]
  ELSE LET c == Head(checks)
           passed == VerifySubProof(proof[c.kind], c.kind, c.stmt, ts)
           rest == RunChecksUnchecked(proof, Tail(checks), AfterSubProof(ts, c.kind))
       IN [ok |-> IF Tail(checks) = <<>> THEN passed ELSE rest.ok,
           trace |-> <<[kind |-> c.kind, ts |-> ts]>> \o rest.trace]

\* Runs the checks in order and stops at the first failing one (the `?`).
\* Result: [ok, trace], trace holding the kind and the verifier's transcript
\* of every check reached.
RECURSIVE RunChecks(_, _, _)
RunChecks(proof, checks, ts) ==
  IF checks = <<>> THEN [ok |-> TRUE, trace |-> <<>>]
  ELSE LET c == Head(checks)
           reached == <<[kind |-> c.kind, ts |-> ts]>>
       IN IF VerifySubProof(proof[c.kind], c.kind, c.stmt, ts)
          THEN LET rest == RunChecks(proof, Tail(checks), AfterSubProof(ts, c.kind))
               IN [ok |-> rest.ok, trace |-> reached \o rest.trace]
          ELSE [ok |-> FALSE, trace |-> reached]

\* Mutant: the two commitments appended in the opposite order.
ProofVerifySwappedAppends(proof, ciphertext_lo, ciphertext_hi, pubkeys, new_spendable_ciphertext, ciphertext_fee, fee_parameters, ts0) ==
  LET ts1 == Append(Append(ts0, <<"commitment-claimed", proof.commitment_claimed>>),
                    <<"commitment-new-source", proof.commitment_new_source>>)
  IN RunChecks(proof, ProofVerifyChecks(proof, ciphertext_lo, ciphertext_hi, pubkeys,
                                        new_spendable_ciphertext, ciphertext_fee,
                                        fee_parameters), ts1)

ProofVerify(proof, ciphertext_lo, ciphertext_hi, pubkeys, new_spendable_ciphertext, ciphertext_fee, fee_parameters, ts0) ==
  LET ts1 == Append(Append(ts0, <<"commitment-new-source", proof.commitment_new_source>>),
                    <<"commitment-claimed", proof.commitment_claimed>>)
  IN RunChecks(proof, ProofVerifyChecks(proof, ciphertext_lo, ciphertext_hi, pubkeys,
                                        new_spendable_ciphertext, ciphertext_fee,
                                        fee_parameters), ts1)

(* Verifiable::verify for TransferWithFeeData (lines 222-248): the          *)
(* transcript is rebuilt from the pod fields as they are, the fields are    *)
(* decoded, and the proof is verified.                                     *)
VerifyData(d) ==
  ProofVerify(d.proof, d.ciphertext_lo, d.ciphertext_hi,
              TransferWithFeePubkeysFromBytes(d.transfer_with_fee_pubkeys),
              d.ciphertext_new_source, FeeEncryptionFromBytes(d.ciphertext_fee),
              FeeParametersFromBytes(d.fee_parameters),
              TranscriptNew(d.transfer_with_fee_pubkeys, d.ciphertext_lo,
                            d.ciphertext_hi, d.ciphertext_fee))

(* ciphertext_lo / ciphertext_hi (lines 168-198): the limb ciphertext as   *)
(* seen by one role.                                                       *)
\* Mutant: the auditor's arm of the match takes the destination's handle.
CiphertextLoAuditorAsDest(d, role) ==
  [commitment |-> d.ciphertext_lo.commitment,
   handle |-> CASE role = Source -> d.ciphertext_lo.source
                [] role \in {Dest, Auditor} -> d.ciphertext_lo.dest]
CiphertextLo(d, role) ==
  [commitment |-> d.ciphertext_lo.commitment,
   handle |-> CASE role = Source -> d.ciphertext_lo.source
                [] role = Dest -> d.ciphertext_lo.dest
                [] role = Auditor -> d.ciphertext_lo.auditor]
CiphertextHi(d, role) ==
  [commitment |-> d.ciphertext_hi.commitment,
   handle |-> CASE role = Source -> d.ciphertext_hi.source
                [] role = Dest -> d.ciphertext_hi.dest
                [] role = Auditor -> d.ciphertext_hi.auditor]

(* The result of decrypt_amount (lines 206-217) with the secret key of     *)
(* `role`: both limbs are decrypted, then Ok only if both succeeded.       *)
DecryptAmountOf(d, role) ==
  LET amount_lo == DecryptU32(CiphertextLo(d, role), role)
      amount_hi == DecryptU32(CiphertextHi(d, role), role)
  IN IF amount_lo.ok /\ amount_hi.ok
     THEN [ok |-> TRUE, val |-> CombineU32(amount_lo.val, amount_hi.val)]
     ELSE [ok |-> FALSE, val |-> 0]

(***************************************************************************)
(* Soundness of the primitives: the statements for which a prover that    *)
(* made every commitment itself (and so knows every opening) can produce  *)
(* a sub-proof that verifies, per sub-proof kind.                          *)
(***************************************************************************)
Provable(kind, stmt) ==
  CASE kind = "equality_proof" ->
         EncryptsUnder(stmt.ciphertext, stmt.pubkey, stmt.commitment.v)
    [] kind = "ciphertext_amount_validity_proof" ->
         \A i \in 1..2 :
           /\ stmt.handles_dest[i] = DecryptHandleOf(stmt.pubkeys[1], stmt.commitments[i].r)
           /\ stmt.handles_auditor[i] = DecryptHandleOf(stmt.pubkeys[2], stmt.commitments[i].r)
    [] kind = "fee_sigma_proof" ->
         stmt.fee.v = stmt.max_fee \/ stmt.delta.v = stmt.claimed.v
    [] kind = "ciphertext_fee_validity_proof" ->
         \A j \in 1..2 : stmt.handles[j] = DecryptHandleOf(stmt.pubkeys[j], stmt.commitment.r)
    [] kind = "range_proof" ->
         \A i \in DOMAIN stmt.bits : stmt.commitments[i].v \in 0 .. (2^stmt.bits[i] - 1)
=============================================================================
