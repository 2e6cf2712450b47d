----------------------------- MODULE FeeTransfer -----------------------------
(***************************************************************************)
(* What one confidential transfer with fee promises, over plaintext        *)
(* values (spec sections 2, 3 and 8): generation either fails with a       *)
(* Generation error because the amount exceeds the balance, or yields an   *)
(* envelope standing for the amount, the new source balance and the fee    *)
(* min(ceil(amount * rate / FEE_DENOMINATOR), maximum_fee); each of the    *)
(* three roles decrypts the amount from it.  Nothing else changes these.   *)
(* TransferWithFee implements this specification (FeeTransferRefinement). *)
(***************************************************************************)
EXTENDS FeeArithmetic

CONSTANTS
  Requests,      \* the arguments generation is called with
  Roles,         \* the holders of a secret key who may decrypt the amount
  NoTransfer,    \* no envelope exists
  NotDecrypted   \* a role has not decrypted yet

VARIABLES
  request,    \* the arguments of the generation
  outcome,    \* "None", then "Ok" or "Generation"
  transfer,   \* NoTransfer, or what the envelope stands for
  decrypted   \* per role, what decryption returned, or NotDecrypted

vars == <<request, outcome, transfer, decrypted>>

Init ==
  /\ request \in Requests
  /\ outcome = "None"
  /\ transfer = NoTransfer
  /\ decrypted = [role \in Roles |-> NotDecrypted]

GenerateRejected ==
  /\ outcome = "None"
  /\ request.spendable_balance < request.transfer_amount
  /\ outcome' = "Generation"
  /\ UNCHANGED <<request, transfer, decrypted>>

Generate ==
  /\ outcome = "None"
  /\ request.transfer_amount <= request.spendable_balance
  /\ outcome' = "Ok"
  /\ transfer' =
       [amount |-> request.transfer_amount,
        new_source_balance |-> request.spendable_balance - request.transfer_amount,
        fee |-> MinOf(CeilDiv(request.transfer_amount * request.fee_rate_basis_points,
                              FEE_DENOMINATOR),
                      request.maximum_fee)]
  /\ UNCHANGED <<request, decrypted>>

Decrypt(role) ==
  /\ transfer # NoTransfer
  /\ decrypted' = [decrypted EXCEPT ![role] = [ok |-> TRUE, val |-> transfer.amount]]
  /\ UNCHANGED <<request, outcome, transfer>>

Next ==
  \/ GenerateRejected
  \/ Generate
  \/ \E role \in Roles : Decrypt(role)

Spec == Init /\ [][Next]_vars
=============================================================================
