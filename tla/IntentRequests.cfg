SPECIFICATION Spec
CONSTANTS
  first = first
  again = again
  other = other
  call = call
  recall = recall
  key = key
  None = None
  Requests = {first, again, other, call, recall}
  Http = {first, again, other}
  Keys = {key}
  KeyOf <- Headers
  Bodies = {"x", "y"}
  BodyOf <- Payloads
CHECK_DEADLOCK FALSE
INVARIANT AnswersAgree
INVARIANT AnsweredIsLogged
SYMMETRY Retries
