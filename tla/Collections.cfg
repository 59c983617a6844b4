SPECIFICATION Spec
CONSTANTS
  scan = scan
  event = event
  ann = ann
  bob = bob
  worker = worker
  None = None
  Runs = {scan, event}
  Members = {ann}
  Reconcilers = {worker}
  LastDay = 2
  Rules <- SomeRules
  Connections = 3
  MaxTurns = 2
INVARIANT OneActionableProposal
INVARIANT DecidedIsOnRecord
PROPERTY ProposalFollowsInvoice
CHECK_DEADLOCK FALSE
