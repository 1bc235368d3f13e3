CONSTANTS
  Reqs = {q1, q2}
  MaxCalls = 5
  q1 = q1
  q2 = q2
  NoMw = NoMw
  Middlewares = {"Recover", "Log", "Auth"}
  Programs <- MCPrograms
  Inputs <- MCInputs
  KeyKind = "bytes"
SPECIFICATION FairSpec
INVARIANTS TypeOK HandlerHasUser PanicIsAnswered LogTellsAnswer ZeroMeansDrained ClosedUnderwayIsTold
PROPERTIES ShallowIsSafe StopEnds
