SPECIFICATION Spec
CONSTANTS
  march = march
  april = april
  invoice = invoice
  customer = customer
  worker = worker
  drain = drain
  apar = apar
  None = None
  Pages = {march, april}
  Versions <- Parsed
  Objects <- Contents
  Poisoned <- Poison
  Refused <- Bad
  Records = {invoice, customer}
  KindOf <- Tables
  PartyOf <- Parties
  Projectors = {worker, drain}
  Leased = worker
  LedgerWorkers = {apar}
  Serves <- Work
  MaxAttempts = 2
  MaxFaults = 1
INVARIANT TerminalIsCurrent
INVARIANT ProjectedIsLogged
PROPERTY ProjectionSettles
CHECK_DEADLOCK FALSE
