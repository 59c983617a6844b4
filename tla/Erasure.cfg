SPECIFICATION Spec
CONSTANTS
  east = east
  west = west
  north = north
  south = south
  late = late
  None = None
  Deleters = {east, west}
  Purgers = {north, south}
  Uploads = {late}
  Arriving = {late}
  MaxAttempts = 2
  MaxPublish = 1
  MaxFaults = 2
INVARIANT ErasureIsReal
PROPERTY PurgeVerdictStands
PROPERTY ErasureSettles
CHECK_DEADLOCK FALSE
