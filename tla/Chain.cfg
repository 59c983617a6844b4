SPECIFICATION Spec
CONSTANTS
  older = older
  first = first
  again = again
  key = key
  None = None
  Calls = {older, first, again}
  Previous = {older}
  KeyOf <- Keyed
  ContentOf <- Told
  Keys = {key}
  Contents = {"a", "b"}
  Existing <- Legacy
  OldContent = "a"
  OtherVersion = {2}
  MaxPlace = 3
  PageSize <- Sizes
  MaxEdits = 1
  MaxAnchors = 1
INVARIANT ChainIsLinear
INVARIANT EmitIsServed
PROPERTY TamperIsFound
PROPERTY CleanPassIsHonest
