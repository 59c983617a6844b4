------------------------- MODULE MCExecutionOutbox -------------------------
(* Instances of ExecutionOutbox for TLC.                                   *)
EXTENDS ExecutionOutbox, TLC

CONSTANTS i1, i2

\* An agent's onchain transfer, and its ACH payment.
TwoRails == i1 :> "onchain_transfer" @@ i2 :> "ach_outbound"

\* An onchain transfer, and a settlement the executions table refuses.
OnchainAndX402 == i1 :> "onchain_transfer" @@ i2 :> "x402_settle"
OnchainOnly == [i \in Intents |-> "onchain_transfer"]

\* What the API would have to wire for Plaid to be reached.
CompleteCredentials == [t \in ActionTypes |->
  IF t = "ach_outbound" THEN {"access_token", "account_id", "user"} ELSE {}]
============================================================================
