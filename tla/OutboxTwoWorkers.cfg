SPECIFICATION Spec
CONSTANTS
  i1 = i1
  i2 = i2
  Nil = Nil
  Intents = {i1, i2}
  TypeOf <- OnchainAndX402
  AgentIntents = {}
  Calls = {c1, c2}
  Workers = {w1, w2}
  Registered = {"bank_ach", "onchain_base", "x402_base"}
  Credentials <- CompleteCredentials
  MaxDispatchAttempts = 1
  MaxTotalAttempts = 2
  BatchLimit = 2
  SlowWorkers = FALSE
  MaxAborts = 1
  MaxFaults = 1
  MaxHalts = 0
INVARIANTS ClaimsAreExclusive AttemptsStayUnderCeiling TransfersAreAccountedFor
PROPERTIES OutcomesAreFinal StoredReceiptSettles
