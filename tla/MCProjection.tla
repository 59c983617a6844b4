---------------------------- MODULE MCProjection ----------------------------
(* Instances of Projection for TLC: two ageing reports that name the same  *)
(* invoice and customer, the first of which is parsed twice.               *)
EXTENDS Projection, TLC

CONSTANTS march, april, invoice, customer, worker, drain, apar

Parsed == march :> 2 @@ april :> 1
Contents == [s \in Sources |-> IF s[1] = april THEN {invoice, customer} ELSE {invoice}]
Poison == {<<march, 2>>}
Bad == {<<march, 1>>}
Tables == invoice :> "obligation" @@ customer :> "counterparty"
Parties == invoice :> customer @@ customer :> None
Work == apar :> {invoice, customer}
=============================================================================
