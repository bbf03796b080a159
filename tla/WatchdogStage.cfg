SPECIFICATION Spec
CONSTANTS
  Jobs = {j1}
  Reqs = {r1}
  MaxRetry = 1
  MaxEdits = 0
  MaxSends = 1
  AdminStatuses = {"queued"}
  UrlInBody = FALSE
INVARIANTS SweptHasStage
CHECK_DEADLOCK FALSE
