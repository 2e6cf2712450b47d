----------------------- MODULE TransferWithFeeSoundness -----------------------
(***************************************************************************)
(* The verifier of transfer_with_fee.rs against a dishonest sender.  The   *)
(* sender commits to values of its choice (limbs, fee, claimed delta, new  *)
(* balance), builds every ciphertext itself and attaches, for each check   *)
(* of TransferWithFeeProof::verify, the strongest sub-proof it can make:   *)
(* one under the verifier's own transcript, valid exactly when the         *)
(* primitive's relation holds (FeeProof!Provable).  What the verifier      *)
(* accepts is then what the composition of the five checks guarantees.     *)
(***************************************************************************)
EXTENDS FeeProof

CONSTANTS
  Limbs,          \* values the sender may commit to as a 32-bit limb
  FeeValues,      \* values it may commit to as the fee
  ClaimedValues,  \* values it may commit to as the claimed delta
  BalanceValues,  \* values it may put in the new-balance ciphertext
  FeeParameterSet,\* the mint's fee parameters
  TamperableHandles, \* <<limb, handle>> pairs the sender may corrupt
  NoEnvelope      \* model value: nothing submitted yet

ASSUME FeeParameterSet \subseteq [fee_rate_basis_points : U16, maximum_fee : U64]
ASSUME TamperableHandles \subseteq
         ({"lo", "hi"} \X {"source", "dest", "auditor"}) \cup {<<"none", "none">>}

VARIABLES
  data,     \* the submitted TransferWithFeeData, or NoEnvelope
  verdict   \* "None", or the result of verify: "Ok" or "Verification"

vars == <<data, verdict>>

\* The sub-proofs the sender attaches: for the k-th check of verify, a proof
\* of the verifier's statement under the verifier's transcript at that check.
RECURSIVE ForgedProofs(_, _)
ForgedProofs(checks, ts) ==
  IF checks = <<>> THEN <<>>
  ELSE LET c == Head(checks)
       IN << SubProof(c.kind, c.stmt, Provable(c.kind, c.stmt), ts) >>
          \o ForgedProofs(Tail(checks), AfterSubProof(ts, c.kind))

\* A limb encryption with the handle `tampered` names, if it names one of
\* this limb's, replaced by the zero handle, which decrypts nothing.
Tampered(enc, limb, tampered) ==
  [f \in DOMAIN enc |-> IF tampered = <<limb, f>> THEN [k \in Keys |-> 0] ELSE enc[f]]

\* An envelope whose commitments hold the chosen values.  The openings are
\* the sender's own; every handle is well formed but the one `tampered`
\* names.
Forged(lo, hi, fee, claimed, ct_balance, commitment_balance, fee_parameters, tampered) ==
  LET ciphertext_lo == Tampered(TransferAmountEncryptionNew(lo, OpeningOf["lo"]), "lo", tampered)
      ciphertext_hi == Tampered(TransferAmountEncryptionNew(hi, OpeningOf["hi"]), "hi", tampered)
      ciphertext_fee == FeeEncryptionNew(fee, OpeningOf["fee"])
      ciphertext_new_source == Encrypt(Source, ct_balance, OpeningOf["old_source"])
      commitments == [commitment_new_source |-> PedersenNew(commitment_balance, OpeningOf["new_source"]),
                      commitment_claimed |-> PedersenNew(claimed, OpeningOf["claimed"])]
      pod_pubkeys == PodTransferWithFeePubkeysNew(Source, Dest, Auditor, FeeCollector)
      ts0 == TranscriptNew(pod_pubkeys, ciphertext_lo, ciphertext_hi,
                           FeeEncryptionToBytes(ciphertext_fee))
      ts1 == Append(Append(ts0, <<"commitment-new-source", commitments.commitment_new_source>>),
                    <<"commitment-claimed", commitments.commitment_claimed>>)
      checks == ProofVerifyChecks(commitments, ciphertext_lo, ciphertext_hi,
                                  TransferWithFeePubkeysFromBytes(pod_pubkeys),
                                  ciphertext_new_source,
                                  FeeEncryptionFromBytes(FeeEncryptionToBytes(ciphertext_fee)),
                                  FeeParametersFromBytes(FeeParametersToBytes(fee_parameters)))
      proofs == ForgedProofs(checks, ts1)
  IN [ciphertext_lo |-> ciphertext_lo,
      ciphertext_hi |-> ciphertext_hi,
      transfer_with_fee_pubkeys |-> pod_pubkeys,
      ciphertext_new_source |-> ciphertext_new_source,
      ciphertext_fee |-> FeeEncryptionToBytes(ciphertext_fee),
      fee_parameters |-> FeeParametersToBytes(fee_parameters),
      proof |-> [commitment_new_source |-> commitments.commitment_new_source,
                 commitment_claimed |-> commitments.commitment_claimed,
                 equality_proof |-> proofs[1],
                 ciphertext_amount_validity_proof |-> proofs[2],
                 fee_sigma_proof |-> proofs[3],
                 ciphertext_fee_validity_proof |-> proofs[4],
                 range_proof |-> proofs[5]]]

\* The value the verifier's delta commitment holds for these choices.  A
\* claimed value passes the second branch of the fee sigma proof only if it
\* equals this, so the sender may always claim it; ClaimedValues adds the
\* edges of the range proofs for the first branch.
DeltaOf(lo, hi, fee, fee_parameters) ==
  fee * FEE_DENOMINATOR - (lo + TWO_32 * hi) * fee_parameters.fee_rate_basis_points

\* FEE_DENOMINATOR^-1 in the scalar field.
DenominatorInverse == CHOOSE x \in 1 .. GroupOrder - 1 : Scalar(FEE_DENOMINATOR * x) = 1

\* The fee that makes the delta commitment hold exactly `claimed`: the
\* scalar (amount * rate + claimed) / FEE_DENOMINATOR.  Nothing bounds the
\* fee commitment itself, so the sender may commit to it; unless the
\* division is exact it is a scalar far above any u64.
FeeForDelta(lo, hi, claimed, fee_parameters) ==
  Scalar(((lo + TWO_32 * hi) * fee_parameters.fee_rate_basis_points + claimed)
         * DenominatorInverse)

Init ==
  /\ data = NoEnvelope
  /\ verdict = "None"

\* The sender submits an envelope.
Submit ==
  /\ data = NoEnvelope
  /\ \E lo, hi \in Limbs, ct_balance \in BalanceValues,
        fee_parameters \in FeeParameterSet, tampered \in TamperableHandles :
     \E fee \in FeeValues \cup {FeeForDelta(lo, hi, c, fee_parameters) :
                                  c \in ClaimedValues \cap 0 .. FEE_DENOMINATOR} :
     \E commitment_balance \in {ct_balance, ct_balance + 1} :
       \E claimed \in ClaimedValues \cup {DeltaOf(lo, hi, fee, fee_parameters)} :
         data' = Forged(lo, hi, fee, claimed, ct_balance, commitment_balance, fee_parameters,
                         tampered)
  /\ UNCHANGED verdict

\* Verifiable::verify on the submitted envelope.
Verify ==
  /\ data # NoEnvelope
  /\ verdict' = IF VerifyData(data).ok THEN "Ok" ELSE "Verification"
  /\ UNCHANGED data

Next == Submit \/ Verify

Spec == Init /\ [][Next]_vars

----------------------------------------------------------------------------
(* Properties.  amount is the 64-bit value the two limb commitments        *)
(* stand for.                                                              *)

Amount(d) == d.ciphertext_lo.commitment.v + TWO_32 * d.ciphertext_hi.commitment.v
FeeCommitted(d) == FeeEncryptionFromBytes(d.ciphertext_fee).commitment.v
Params(d) == FeeParametersFromBytes(d.fee_parameters)

(* An accepted envelope transfers a genuine u64 amount in two 32-bit limbs *)
(* and leaves the source with a non-negative u64 balance, held alike in    *)
(* the new-balance ciphertext and commitment (equality and range proofs of *)
(* verify, lines 409-415 and 455-466).                                     *)
AcceptedAmountsInRange ==
  verdict = "Ok" =>
    /\ data.ciphertext_lo.commitment.v \in U32
    /\ data.ciphertext_hi.commitment.v \in U32
    /\ data.ciphertext_new_source.commitment.v \in U64
    /\ data.proof.commitment_new_source.v = data.ciphertext_new_source.commitment.v

(* The fee collector is never short-changed: an accepted envelope encrypts *)
(* a fee of at least min(ceil(amount * rate / FEE_DENOMINATOR),           *)
(* maximum_fee).  This is what the delta commitment (lines 430-443), the  *)
(* fee sigma proof and the range proofs over claimed and                   *)
(* FEE_DENOMINATOR - claimed (lines 455-466) achieve together.            *)
AcceptedFeeCoversRate ==
  verdict = "Ok" =>
    FeeCommitted(data) >=
      MinOf(CeilDiv(Amount(data) * Params(data).fee_rate_basis_points, FEE_DENOMINATOR),
            Params(data).maximum_fee)

(* Spec section 3: "0 <= fee_amount <= maximum_fee always, ... further     *)
(* enforced in zero-knowledge by the range proof over delta_fee and        *)
(* DENOMINATOR - delta_fee".                                               *)
AcceptedFeeWithinCap ==
  verdict = "Ok" => FeeCommitted(data) \in 0 .. Params(data).maximum_fee

(* Spec section 2: "all balance/fee/delta values fit in 64 bits".  An     *)
(* accepted envelope's fee commitment holds a u64, which the fee collector *)
(* can decrypt.  The range proof of verify (lines 455-466) covers the new  *)
(* balance, the limbs, claimed and FEE_DENOMINATOR - claimed, but not the  *)
(* fee; the fee is bounded only through the delta, a scalar equation.      *)
AcceptedFeeIsU64 ==
  verdict = "Ok" => FeeCommitted(data) \in U64

(* Spec sections 1 and 4.2: the fee is the ceiling of amount * rate /     *)
(* FEE_DENOMINATOR, capped at maximum_fee, so an accepted envelope never   *)
(* encrypts more than the ceiling.                                         *)
AcceptedFeeAtMostDue ==
  verdict = "Ok" =>
    FeeCommitted(data) <= CeilDiv(Amount(data) * Params(data).fee_rate_basis_points,
                                  FEE_DENOMINATOR)

(* The destination and the auditor can read what they were sent: for an   *)
(* accepted envelope, decrypt_amount (lines 206-217) with either key       *)
(* returns the amount the limb commitments hold.  The aggregated validity  *)
(* proof of verify (lines 418-427) covers exactly their handles of both    *)
(* limbs, and ciphertext_lo/hi (lines 169-197) pick each role's handle.    *)
AcceptedAmountReachesRecipients ==
  verdict = "Ok" =>
    \A role \in {Dest, Auditor} : DecryptAmountOf(data, role) = [ok |-> TRUE, val |-> Amount(data)]

(* Spec sections 4.6 and 8: each of the three roles decrypts the transfer  *)
(* amount from the envelope, the source included.                          *)
AcceptedAmountDecryptsAlike ==
  verdict = "Ok" =>
    \A role \in Roles : DecryptAmountOf(data, role) = [ok |-> TRUE, val |-> Amount(data)]
=============================================================================
