SPECIFICATION Spec
CONSTANTS
  i1 = i1
  i2 = i2
  Nil = Nil
  Intents = {i1}
  TypeOf <- OnchainOnly
  AgentIntents = {i1}
  Calls = {c1}
  Workers = {w1}
  Registered = {"bank_ach", "onchain_base"}
  Credentials <- CompleteCredentials
  MaxDispatchAttempts = 2
  MaxTotalAttempts = 3
  BatchLimit = 2
  SlowWorkers = FALSE
  MaxAborts = 1
  MaxFaults = 0
  MaxHalts = 0
INVARIANTS OneEconomicEffect
