--------------------------- MODULE TransferWithFee ---------------------------
(***************************************************************************)
(* TransferWithFeeData::new (with TransferWithFeeProof::new), verify and   *)
(* decrypt_amount, for an honest sender: one call of new with arguments   *)
(* from Requests, then any number of verifications and decryptions of the *)
(* envelope it returns.                                                   *)
(***************************************************************************)
EXTENDS FeeProof

CONSTANTS
  Requests,     \* the arguments TransferWithFeeData::new is called with
  NoEnvelope,   \* model value: no TransferWithFeeData exists
  NotDecrypted  \* model value: decrypt_amount not yet called for a role

\* old_source_balance is the value the caller's ciphertext_old_source
\* encrypts; new trusts it to equal spendable_balance and never checks.
ASSUME Requests \subseteq [transfer_amount : U64, spendable_balance : U64,
                          old_source_balance : U64,
                          fee_rate_basis_points : U16, maximum_fee : U64]

----------------------------------------------------------------------------
(* The state: the call's arguments, its outcome, the TransferWithFeeData    *)
(* it produced, and the results of verify and decrypt_amount on it.        *)

VARIABLES
  request,    \* the arguments of TransferWithFeeData::new
  outcome,    \* "None" before the call, then "Ok", "Generation" or "Panic"
  data,       \* the TransferWithFeeData, or NoEnvelope
  verdict,    \* "None", or the result of verify: "Ok" or "Verification"
  trace,      \* the sub-proofs the last verify reached, with its transcripts
  decrypted   \* per role, the result of decrypt_amount, or NotDecrypted

vars == <<request, outcome, data, verdict, trace, decrypted>>

Init ==
  /\ request \in Requests
  /\ outcome = "None"
  /\ data = NoEnvelope
  /\ verdict = "None"
  /\ trace = <<>>
  /\ decrypted = [role \in Roles |-> NotDecrypted]

(***************************************************************************)
(* TransferWithFeeData::new (lines 71-166), with the call it makes to      *)
(* TransferWithFeeProof::new.                                              *)
(***************************************************************************)
New ==
  /\ outcome = "None"
  /\ LET transfer_amount == request.transfer_amount
         spendable_balance == request.spendable_balance
         fee_parameters == [fee_rate_basis_points |-> request.fee_rate_basis_points,
                            maximum_fee |-> request.maximum_fee]
         ciphertext_old_source == Encrypt(Source, request.old_source_balance, OpeningOf["old_source"])
         amount_lo == SplitU64IntoU32(transfer_amount)[1]
         amount_hi == SplitU64IntoU32(transfer_amount)[2]
         ciphertext_lo == TransferAmountEncryptionNew(amount_lo, OpeningOf["lo"])
         ciphertext_hi == TransferAmountEncryptionNew(amount_hi, OpeningOf["hi"])
         new_spendable == CheckedSub(spendable_balance, transfer_amount)
         new_spendable_balance == new_spendable.val
         ciphertext_new_source ==
           CtSub(ciphertext_old_source,
                 CombineU32Ciphertexts(
                   [commitment |-> ciphertext_lo.commitment, handle |-> ciphertext_lo.source],
                   [commitment |-> ciphertext_hi.commitment, handle |-> ciphertext_hi.source]))
         fee == CalculateFee(transfer_amount, fee_parameters.fee_rate_basis_points)
         fee_to_encrypt == FeeToEncrypt(fee.fee, fee_parameters.maximum_fee)
         ciphertext_fee == FeeEncryptionNew(fee_to_encrypt, OpeningOf["fee"])
         pod_transfer_with_fee_pubkeys == PodTransferWithFeePubkeysNew(Source, Dest, Auditor,
                                                                       FeeCollector)
         pod_ciphertext_fee == FeeEncryptionToBytes(ciphertext_fee)
         transcript == TranscriptNew(pod_transfer_with_fee_pubkeys, ciphertext_lo, ciphertext_hi,
                                     pod_ciphertext_fee)
         proof == ProofNew(amount_lo, ciphertext_lo, OpeningOf["lo"],
                           amount_hi, ciphertext_hi, OpeningOf["hi"],
                           new_spendable_balance, ciphertext_new_source,
                           fee.fee, ciphertext_fee, OpeningOf["fee"], fee.rem,
                           fee_parameters, transcript)
     IN IF ~new_spendable.ok      \* checked_sub fails
        THEN /\ outcome' = "Generation"
             /\ UNCHANGED data
        ELSE IF ~fee.ok \/ ~proof.ok
        THEN /\ outcome' = "Panic"
             /\ UNCHANGED data
        ELSE /\ outcome' = "Ok"
             /\ data' = [ciphertext_lo |-> ciphertext_lo,
                         ciphertext_hi |-> ciphertext_hi,
                         transfer_with_fee_pubkeys |-> pod_transfer_with_fee_pubkeys,
                         ciphertext_new_source |-> ciphertext_new_source,
                         ciphertext_fee |-> pod_ciphertext_fee,
                         fee_parameters |-> FeeParametersToBytes(fee_parameters),
                         proof |-> proof.proof]
  /\ UNCHANGED <<request, verdict, trace, decrypted>>

(* Verifiable::verify on the envelope.                                      *)
Verify ==
  /\ data # NoEnvelope
  /\ LET result == VerifyData(data)
     IN /\ verdict' = IF result.ok THEN "Ok" ELSE "Verification"
        /\ trace' = result.trace
  /\ UNCHANGED <<request, outcome, data, decrypted>>

(* decrypt_amount (lines 200-218), with the secret key of `role`.          *)
DecryptAmount(role) ==
  /\ data # NoEnvelope
  /\ decrypted' = [decrypted EXCEPT ![role] = DecryptAmountOf(data, role)]
  /\ UNCHANGED <<request, outcome, data, verdict, trace>>

Next ==
  \/ New
  \/ Verify
  \/ \E role \in Roles : DecryptAmount(role)

Spec == Init /\ [][Next]_vars

----------------------------------------------------------------------------
(* Properties.                                                            *)

ProofKinds == {"equality_proof", "ciphertext_amount_validity_proof", "fee_sigma_proof",
               "ciphertext_fee_validity_proof", "range_proof"}

(* The type invariant.  Besides the field types, the envelope's          *)
(* new-balance ciphertext holds a u64: new never subtracts more than the   *)
(* balance, because checked_sub (lines 95-97) ends generation first.       *)
TypeOK ==
  /\ request \in Requests
  /\ outcome \in {"None", "Ok", "Generation", "Panic"}
  /\ (data = NoEnvelope) = (outcome # "Ok")
  /\ data # NoEnvelope =>
       /\ data.ciphertext_lo.commitment.v \in U32
       /\ data.ciphertext_hi.commitment.v \in U32
       /\ data.ciphertext_fee[1].v \in U64
       /\ data.proof.commitment_new_source.v \in U64
       /\ data.ciphertext_new_source.commitment.v \in U64
  /\ verdict \in {"None", "Ok", "Verification"}
  /\ \A i \in DOMAIN trace : trace[i].kind \in ProofKinds
  /\ \A role \in Roles : decrypted[role] \in {NotDecrypted} \cup [ok : BOOLEAN, val : U64]

(* Fiat-Shamir ordering (spec 4.4, 4.5, 6): every sub-proof verify reaches *)
(* is checked under exactly the transcript TransferWithFeeProof::new       *)
(* generated it under, so the appends of lines 308-309 and 395-396 and the *)
(* order of the five sub-proofs agree between prover and verifier.         *)
TranscriptAgreement ==
  \A i \in DOMAIN trace : trace[i].ts = data.proof[trace[i].kind].ts

(* The code's own condition for an envelope that verifies: when the       *)
(* remainder new hands to the fee sigma proof as delta_fee (line 151) is   *)
(* the value of the delta commitment, or the fee equals the cap so the     *)
(* other branch is proved, and the fee was not capped below calculate_fee *)
(* (line 150), verify accepts what new generated.  This exercises the      *)
(* whole agreement of new and verify: transcripts, statements rebuilt from *)
(* the decoded pod fields, openings and range bit lengths.                 *)
RoundTripWhenDeltaMatches ==
  LET fee == CalculateFee(request.transfer_amount, request.fee_rate_basis_points)
      delta == fee.fee * FEE_DENOMINATOR
                 - request.transfer_amount * request.fee_rate_basis_points
  IN (/\ verdict # "None"
      /\ fee.fee <= request.maximum_fee
      /\ fee.fee = request.maximum_fee \/ fee.rem = delta)
     => verdict = "Ok"

(***************************************************************************)
(* Refinement of FeeTransfer.  An envelope stands for the values its key   *)
(* holders decrypt: a ciphertext counts for a key only when its handle is  *)
(* that key's handle for the commitment's opening (-1 marks one that does  *)
(* not); the amount counts only when all three roles see both limbs, and   *)
(* the fee only when the destination and the fee collector both see it.   *)
(***************************************************************************)
Plaintext(ct, pk) == IF EncryptsUnder(ct, pk, ct.commitment.v) THEN ct.commitment.v ELSE -1

EnvelopeAmount ==
  IF \A role \in Roles : /\ Plaintext(CiphertextLo(data, role), role) \in U32
                         /\ Plaintext(CiphertextHi(data, role), role) \in U32
  THEN CombineU32(data.ciphertext_lo.commitment.v, data.ciphertext_hi.commitment.v)
  ELSE -1

EnvelopeFee ==
  LET c == FeeEncryptionFromBytes(data.ciphertext_fee)
      to_dest == Plaintext([commitment |-> c.commitment, handle |-> c.dest], Dest)
      to_collector == Plaintext([commitment |-> c.commitment, handle |-> c.fee_collector],
                                FeeCollector)
  IN IF to_dest = to_collector THEN to_dest ELSE -1

EnvelopeTransfer ==
  IF data = NoEnvelope THEN NoEnvelope
  ELSE [amount |-> EnvelopeAmount,
        new_source_balance |-> Plaintext(data.ciphertext_new_source, Source),
        fee |-> EnvelopeFee]

FT == INSTANCE FeeTransfer WITH transfer <- EnvelopeTransfer, NoTransfer <- NoEnvelope

(* TransferWithFeeData::new, verify and decrypt_amount implement           *)
(* FeeTransfer: new never panics on a policy rate and fails exactly when   *)
(* the amount exceeds the balance; its envelope encrypts the amount to     *)
(* all three roles, spendable_balance - transfer_amount to the source      *)
(* (the homomorphic subtraction of lines 100-111) and the capped fee to    *)
(* the destination and the fee collector (lines 113-123, through the pod   *)
(* encoding); decrypt_amount returns the amount for every role (lines      *)
(* 168-218); verify changes none of it.                                    *)
FeeTransferRefinement == FT!Spec

(* A stale balance never verifies: new takes spendable_balance and         *)
(* ciphertext_old_source as two arguments (line 72) and subtracts the      *)
(* amount from each separately (lines 95-111), never checking that they    *)
(* agree.  An envelope verify accepts was generated by a caller whose      *)
(* ciphertext encrypts the balance it claimed: the equality proof (lines   *)
(* 312-318, checked at 402-408) ties commitment_new_source, made from the  *)
(* plaintext, to ciphertext_new_source, made from the ciphertext.          *)
StaleBalanceNeverVerifies ==
  verdict = "Ok" => request.old_source_balance = request.spendable_balance

(* Round-trip soundness (spec 8): an envelope an honest sender generated   *)
(* verifies.                                                               *)
RoundTrip == verdict # "None" => verdict = "Ok"

=============================================================================
