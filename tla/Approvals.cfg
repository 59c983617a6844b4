SPECIFICATION Spec
CONSTANTS
  alice = alice
  bob = bob
  NoOne = NoOne
  Members = {alice, bob}
  RoleOf <- Roles
  Cautious = {bob}
  Policies <- Tightening
  HumanFloor = TRUE
  Requests = {r1, r2, r3, r4}
  MayCrash = TRUE
SYMMETRY Interchangeable
INVARIANTS ApprovedHasAuthority HandedOverWithQuorum
PROPERTIES DecisionIsOnRecord DualControl DecisionsStand
CHECK_DEADLOCK FALSE
