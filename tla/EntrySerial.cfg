SPECIFICATION SerialSpec
CONSTANTS
  Users = {u1, u2}
  NoUser = NoUser
  Reqs = {r1, r2}
  MaxJobs = 2
  MaxOtps = 2
  AllowMultiple = FALSE
  MaxVideos = 1
  UnlimitedNumbers = {u2}
  ClientNumbers = {u1}
  HeldNumbers = {}
  FlagValues = {TRUE, FALSE}
  FlagLost = TRUE
  AdminStatuses = {"failed"}
  SendsWaiting = TRUE
SYMMETRY RequestSymmetry
INVARIANTS TypeOK CountIsJobCount OneInFlight CapRespected
PROPERTIES DirectQueueIsVetted ClaimedNotRequeued
\* Allocatable ids and codes are finite here: the system really is at rest once
\* they are used up.
CHECK_DEADLOCK FALSE
