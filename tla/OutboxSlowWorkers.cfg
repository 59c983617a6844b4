SPECIFICATION Spec
CONSTANTS
  i1 = i1
  i2 = i2
  Nil = Nil
  Intents = {i1}
  TypeOf <- OnchainOnly
  AgentIntents = {}
  Calls = {c1}
  Workers = {w1, w2}
  Registered = {"bank_ach", "onchain_base"}
  Credentials <- CompleteCredentials
  MaxDispatchAttempts = 1
  MaxTotalAttempts = 2
  BatchLimit = 2
  SlowWorkers = TRUE
  MaxAborts = 1
  MaxFaults = 1
  MaxHalts = 0
INVARIANTS OneExecutionPerSettlement RowsOutliveTheirIntents ExecutedWasPaidAndAudited
PROPERTIES KeepsPromise
