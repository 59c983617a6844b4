SPECIFICATION Spec
CONSTANTS
  scan = scan
  event = event
  ann = ann
  bob = bob
  worker = worker
  None = None
  Runs = {scan, event}
  Members = {ann, bob}
  Reconcilers = {}
  LastDay = 1
  Rules <- SomeRules
  Connections = 2
  MaxTurns = 0
PROPERTY ClientsAreReleased
CHECK_DEADLOCK FALSE
