CONSTANTS
  Reqs = {q1, q2}
  MaxCalls = 5
  q1 = q1
  q2 = q2
  NoMw = NoMw
  Middlewares = {"Recover", "Log", "Auth"}
  Programs <- MCMains
  Inputs <- WiringInputs
  KeyKind = "string"
SPECIFICATION Spec
INVARIANT ValidRequestIsHandled
