-------------------------- MODULE MCFeeArithmetic --------------------------
(***************************************************************************)
(* Checks the fee arithmetic against its reference definitions over every  *)
(* input of the scaled widths: each input triple is an initial state, and  *)
(* the invariants are evaluated on all of them.                            *)
(***************************************************************************)
EXTENDS FeeArithmetic

CONSTANTS Amounts, Rates, MaximumFees

MCAmounts == U64
MCPolicyRates == 0 .. FEE_DENOMINATOR
MCAllRates == U16
MCMaximumFees == {0, 1, 3, 50, U64Max - 2, U64Max - 1}

VARIABLES transfer_amount, fee_rate_basis_points, maximum_fee
vars == <<transfer_amount, fee_rate_basis_points, maximum_fee>>

Init == /\ transfer_amount \in Amounts
        /\ fee_rate_basis_points \in Rates
        /\ maximum_fee \in MaximumFees

\* The arithmetic is a pure function: nothing changes after the inputs.
Next == UNCHANGED vars

Spec == Init /\ [][Next]_vars

(* calculate_fee returns the ceiling of amount * rate / FEE_DENOMINATOR,   *)
(* without panicking, and a remainder below FEE_DENOMINATOR (spec 4.2 and  *)
(* the "Fee correctness" property of section 8).                           *)
FeeIsCeiling ==
  LET r == CalculateFee(transfer_amount, fee_rate_basis_points)
  IN /\ r.ok
     /\ r.fee = CeilDiv(transfer_amount * fee_rate_basis_points, FEE_DENOMINATOR)
     /\ r.rem < FEE_DENOMINATOR

(* The constant-time select of lines 117-119 encrypts min(fee, maximum_fee) *)
(* ("Cap correctness", spec section 8), for every fee calculate_fee yields. *)
CapIsMinimum ==
  LET fee == CalculateFee(transfer_amount, fee_rate_basis_points).fee
  IN FeeToEncrypt(fee, maximum_fee) = MinOf(fee, maximum_fee)

(* The fee parameters survive the pod encoding: FeeParameters::from_bytes  *)
(* of FeeParameters::to_bytes gives back the rate and the cap, so the      *)
(* verifier checks the proof against the parameters the sender used       *)
(* (TransferWithFeeData::new line 163, Verifiable::verify line 236).       *)
FeeParametersRoundTrip ==
  LET fp == [fee_rate_basis_points |-> fee_rate_basis_points, maximum_fee |-> maximum_fee]
  IN FeeParametersFromBytes(FeeParametersToBytes(fp)) = fp
=============================================================================
