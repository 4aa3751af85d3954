SPECIFICATION FairSpec
CONSTANTS
  Svc = {a}
  Pid = {p1}
  NoPid = NoPid
  NoSvc = NoSvc
  Sig = {g}
  Interval = {2}
  SVC_LIMIT = 1
  FORK_RETRY_DELAY = 1
  IDLE_WAKE = 3
  MaxTime = 4
  FreshPids = TRUE
INVARIANTS
  NoLostWakeup DeadlineCovered TriggerHonoured
PROPERTIES
  RestartSpacing StartsEventually ReapedEventually
