SPECIFICATION Spec
CONSTANTS
  Users = {u1}
  NoUser = NoUser
  Reqs = {r1, r2}
  MaxJobs = 2
  MaxOtps = 2
  AllowMultiple = FALSE
  MaxVideos = 2
  UnlimitedNumbers = {}
  ClientNumbers = {}
  HeldNumbers = {}
  FlagValues = {TRUE}
  FlagLost = FALSE
  AdminStatuses = {}
  SendsWaiting = FALSE
PROPERTY ClaimedNotRequeued
\* Requests, allocatable ids and the other inputs are finite here: the system
\* really is at rest once they are used up.
CHECK_DEADLOCK FALSE
