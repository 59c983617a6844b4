------------------------- MODULE MCPaymentApproval -------------------------
(* Instances of PaymentApproval for TLC.                                   *)
EXTENDS PaymentApproval, TLC

CONSTANTS alice, bob

Roles == alice :> "admin" @@ bob :> "approver"

\* One approval first; then an admin and anyone else; then nobody need approve,
\* but for the human floor.
Tightening == <<[outcome |-> "confirm", required |-> <<"signer">>],
                [outcome |-> "confirm", required |-> <<"admin", "signer">>],
                [outcome |-> "allow", required |-> <<>>]>>

Interchangeable == Permutations(Requests)
============================================================================
