SPECIFICATION FairSpec
CONSTANTS
  Jobs = {j1}
  Reqs = {r1, r2}
  MaxRetry = 2
  MaxEdits = 1
  MaxSends = 1
  AdminStatuses = {"photo_done", "sent"}
  UrlInBody = TRUE
INVARIANTS TypeOK SentWasDelivered AssetsBehindStatus RetryBudget
PROPERTIES Settles
\* Edits and deliveries are bounded here: the row really comes to rest.
CHECK_DEADLOCK FALSE
