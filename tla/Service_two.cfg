SPECIFICATION Spec
CONSTANTS
  Svc = {a, b}
  Pid = {p1, p2}
  NoPid = NoPid
  NoSvc = NoSvc
  Sig = {}
  Interval = {1}
  SVC_LIMIT = 2
  FORK_RETRY_DELAY = 1
  IDLE_WAKE = 2
  MaxTime = 2
  FreshPids = TRUE
SYMMETRY Symmetric
INVARIANTS
  UpHasProcess ChildOwned ReportAccurate
PROPERTIES
  SignalsOwnChild
