------------------------- MODULE MCTransferWithFee -------------------------
(***************************************************************************)
(* Instantiates TransferWithFee for TLC.  Widths are scaled down as in     *)
(* MCFeeArithmetic: u64 -> 8 bits, u32 -> 4 bits, u16 -> 8 bits,          *)
(* FEE_DENOMINATOR 10000 -> 100, so a rate of 1 here is 100 basis points.  *)
(***************************************************************************)
EXTENDS TransferWithFee

\* Distinct openings for the Pedersen::new call sites: two random scalars
\* coincide with negligible probability.
MCOpeningOf ==
  [s \in Sites |-> CASE s = "old_source" -> 2 [] s = "lo" -> 3 [] s = "hi" -> 5
                     [] s = "fee" -> 7 [] s = "new_source" -> 11 [] s = "claimed" -> 13]

\* test_fee_correctness (lines 662-676): a balance of 120 encrypted under the
\* source key, an amount of 100, 100 basis points and a cap of 3, which is
\* rate 1 over the scaled FEE_DENOMINATOR; fresh random keys for all four
\* roles are the four distinct model values.
TestFeeCorrectnessRequests ==
  {[transfer_amount |-> 100, spendable_balance |-> 120, old_source_balance |-> 120,
    fee_rate_basis_points |-> 1, maximum_fee |-> 3]}

\* Amounts with both limbs non-zero and at the top of the range, balances
\* below, equal to and above them; fee rates 0%, 1%, 3%, 5% and 100%; caps
\* that bind and that do not.  10 * 5% leaves the remainder D / 2, the one
\* rounded fee whose remainder equals D - remainder.  The unit test's
\* scenario is among them, and its two assertions (lines 686 and 688: new
\* unwraps, verify is Ok) are instances of RoundTripWhenDeltaMatches and
\* FeeTransferRefinement.  The caller's ciphertext encrypts
\* spendable_balance.
MCRequests ==
  {[transfer_amount |-> a, spendable_balance |-> b, old_source_balance |-> b,
    fee_rate_basis_points |-> rate, maximum_fee |-> max] :
     a \in {0, 10, 100, 255}, b \in {0, 120, 255}, rate \in {0, 1, 3, 5, 100},
     max \in {0, 3, 50, 255}}
  \cup TestFeeCorrectnessRequests

\* A caller whose spendable_balance disagrees with ciphertext_old_source (a
\* balance decrypted before a deposit or a transfer changed the account),
\* by one either way, down to zero and up to the u64 edge, next to callers
\* that agree.
MCRequestsStale ==
  [transfer_amount : {10, 100}, spendable_balance : {120},
   old_source_balance : {0, 119, 120, 121, 255},
   fee_rate_basis_points : {0, 100}, maximum_fee : {255}]

\* A fee that is rounded up and not capped: 10 * 3% = 0.3, fee 1.
MCRequestsRounded ==
  {[transfer_amount |-> 10, spendable_balance |-> 120, old_source_balance |-> 120,
    fee_rate_basis_points |-> 3, maximum_fee |-> 50]}

\* The spec's capped scenario: a 100% fee of 100 capped at 50; exact division.
MCRequestsCapped ==
  {[transfer_amount |-> 100, spendable_balance |-> 120, old_source_balance |-> 120,
    fee_rate_basis_points |-> 100, maximum_fee |-> 50]}
=============================================================================
