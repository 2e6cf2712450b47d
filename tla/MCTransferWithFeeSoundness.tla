--------------------- MODULE MCTransferWithFeeSoundness ---------------------
(***************************************************************************)
(* Instantiates TransferWithFeeSoundness with the scaled widths of         *)
(* MCTransferWithFee (u64 -> 8 bits, u32 -> 4, FEE_DENOMINATOR -> 100).    *)
(***************************************************************************)
EXTENDS TransferWithFeeSoundness

MCOpeningOf ==
  [s \in Sites |-> CASE s = "old_source" -> 2 [] s = "lo" -> 3 [] s = "hi" -> 5
                     [] s = "fee" -> 7 [] s = "new_source" -> 11 [] s = "claimed" -> 13]

\* Limbs inside and just outside the 32-bit range (negative values stand for
\* the field elements p - k); 3 + 16 * 3 = 51 makes a fee above a cap of 50.
MCLimbs == {-1, 0, 3, 15, 16}
MCFeeValues == -1 .. 52
\* The edges of [0, FEE_DENOMINATOR] that the two range proofs bound.
MCClaimedValues == {-1, 0, FEE_DENOMINATOR, FEE_DENOMINATOR + 1}
MCBalanceValues == {-1, 0, U64Max - 1, U64Max}
\* Rates 3% and 100%, caps 2 and 50.
MCFeeParameterSet == [fee_rate_basis_points : {3, 100}, maximum_fee : {2, 50}]
\* The sender corrupts no handle.
MCNoTampering == {<<"none", "none">>}

\* The sender corrupts any one limb handle, or none.  The value sets are
\* narrowed to the in-range limbs and fees around the caps so that the six
\* corruptions fit; the edges beyond the ranges stay, so that a corrupted
\* handle on a rejected limb is not mistaken for an accepted one.
MCAnyOneHandle == ({"lo", "hi"} \X {"source", "dest", "auditor"}) \cup {<<"none", "none">>}
MCLimbsHandles == {-1, 0, 3, 16}
MCFeeValuesHandles == -1 .. 4
MCBalanceValuesHandles == {-1, 0, U64Max}
=============================================================================
