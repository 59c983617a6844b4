------------------------------- MODULE Rails -------------------------------
(***************************************************************************)
(* The payment rails of services/execution/src/rails as the outbox worker  *)
(* meets them: which rail an action type is sent to, which fields the rail *)
(* demands of the action and which it is given, which fields its receipt   *)
(* carries and which the receipt schema demands, and which rails the       *)
(* executions table admits.  Field values are abstracted away: a payload   *)
(* or a receipt is the set of its field names.  Only the live rails are    *)
(* described; the stub rails refuse to run in production.                  *)
(***************************************************************************)

\* EXECUTABLE_PAYMENT_INTENT_ACTION_TYPES
ActionTypes == {"ach_outbound", "ach_inbound", "wire", "card_payment",
                "onchain_transfer", "x402_settle", "escrow_release",
                "erp_writeback"}

LiveRails == {"bank_ach", "onchain_base", "x402_base", "escrow_base"}

RailFor(type) ==
  CASE type \in {"ach_outbound", "ach_inbound", "wire", "card_payment"} -> "bank_ach"
    [] type = "onchain_transfer" -> "onchain_base"
    [] type = "x402_settle" -> "x402_base"
    [] type = "escrow_release" -> "escrow_base"
    [] type = "erp_writeback" -> "erp_writeback"

\* The action types whose hand-off holds funds in ledger_reservations.
RequiresReservation(type) == type \notin {"x402_settle", "escrow_release"}

----------------------------------------------------------------------------
\* The payload execute() stores in the outbox row; the fields a resolver may
\* withhold (onchain parameters, pay_to, escrow_id) are taken as resolved.
PayloadFields(type) ==
  {"kind", "source_account_id", "destination_counterparty_id", "amount", "currency"}
  \cup CASE type = "onchain_transfer" ->
              {"smart_account", "holder", "target", "data", "value", "policy_version"}
         [] type = "x402_settle" -> {"asset", "network", "pay_to"}
         [] type = "escrow_release" -> {"escrow_id", "job_terms_hash", "amount_units"}
         [] OTHER -> {}

\* What each rail's parse function throws without, before any provider call.
DemandedFields(rail) ==
  CASE rail = "bank_ach" -> {"access_token", "account_id", "amount", "user",
                             "destination_counterparty_id"}
    [] rail = "onchain_base" -> {"smart_account", "holder", "target", "data",
                                 "policy_version"}
    [] rail = "x402_base" -> {"asset", "network", "amount", "pay_to"}
    [] rail = "escrow_base" -> {"escrow_id", "amount_units"}
    [] OTHER -> {}

\* The fields outboxResolveDispatchCredentials adds in memory at dispatch.
ResolvedCredentials(type) ==
  IF type = "ach_outbound" THEN {"access_token", "account_id"} ELSE {}

ReceiptFields(rail) ==
  CASE rail = "bank_ach" -> {"rail", "authorization_id", "transfer_id", "status",
                             "destination_counterparty_id"}
    [] rail = "onchain_base" -> {"rail", "tx_hash", "block_number", "gas_used",
                                 "nonce", "policy_version"}
    [] rail = "x402_base" -> {"rail", "asset", "network", "tx_hash",
                              "settled_amount", "pay_to"}
    [] rail = "escrow_base" -> {"rail", "tx_hash", "escrow_id", "released_units"}
    [] OTHER -> {}

\* railKeyForActionType and REQUIRED_FIELDS: an action type without a typed
\* receipt schema demands nothing.
RequiredReceiptFields(type) ==
  CASE type \in {"ach_outbound", "ach_inbound"} -> {"ach_trace"}
    [] type = "wire" -> {"omad", "imad"}
    [] type = "erp_writeback" -> {"erp_record_id"}
    [] type = "onchain_transfer" -> {"tx_hash", "block_number"}
    [] OTHER -> {}

----------------------------------------------------------------------------
\* RailRegistry.get throws for a rail that is not registered, the rail's parse
\* function for a missing field: either way no provider is called.
ReachesProvider(type, registered, credentials) ==
  /\ RailFor(type) \in registered
  /\ DemandedFields(RailFor(type)) \subseteq PayloadFields(type) \cup credentials

ReceiptAccepted(type) ==
  RequiredReceiptFields(type) \subseteq ReceiptFields(RailFor(type))

\* A repeated dispatch with the same key makes no second transfer: Plaid's
\* client_transaction_id.  The onchain, escrow and x402 rails read the live
\* nonce at every dispatch.
IdempotencyKeyed(type) == RailFor(type) = "bank_ach"

\* Only OnchainBaseRail tags an error with permanent_failure.
TagsPermanent(type) == RailFor(type) = "onchain_base"

\* The CHECK constraint on executions.rail.
ExecutionsAdmits(type) ==
  RailFor(type) \in {"bank_ach", "erp_writeback", "onchain_base", "notification"}
============================================================================
