SPECIFICATION Spec
CONSTANTS
  i1 = i1
  i2 = i2
  Nil = Nil
  Intents = {i1, i2}
  TypeOf <- TwoRails
  AgentIntents = {i1, i2}
  Calls = {c1, c2}
  Workers = {w1}
  Registered = {"bank_ach", "onchain_base"}
  Credentials <- CompleteCredentials
  MaxDispatchAttempts = 2
  MaxTotalAttempts = 3
  BatchLimit = 2
  SlowWorkers = FALSE
  MaxAborts = 1
  MaxFaults = 1
  MaxHalts = 1
INVARIANTS HandedOverOnce FundsFollowIntent KeyedRailPaysOnce HaltOvertakesOneCallEach
PROPERTIES RowsResolve
