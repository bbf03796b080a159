----------------------------- MODULE JobPipeline -----------------------------
(***************************************************************************)
(* A jobs row after it entered the queue: the in-database watchdog, the    *)
(* panel's update-job, video-url and asset deletion, and /send-video.  The *)
(* renderer is a separate program; its actions are what README and         *)
(* schema.sql say it does to the row: lock it, advance it, store the URLs, *)
(* or fail it.                                                             *)
(*                                                                         *)
(* A worker that dies is one whose Finish never happens.  The API handlers *)
(* work on a snapshot, and their UPDATE sets only the columns whose value  *)
(* differs from the snapshot.                                              *)
(***************************************************************************)
EXTENDS Naturals, FiniteSets

CONSTANTS
  Jobs,           \* entries under way
  Reqs,           \* requests that may be in progress at the same time
  MaxRetry,       \* pipeline_config.max_retry
  MaxEdits,       \* bound: update-job calls per entry
  MaxSends,       \* bound: deliveries per entry
  AdminStatuses,  \* statuses the panel sets
  UrlInBody       \* whether send-video callers may bring a URL of their own

JOB_STATUSES == {"wait", "process_stop", "unverified", "queued",
  "photo_processing", "photo_done", "video_processing", "video_done",
  "stitching", "uploaded", "sent", "failed", "client", "repeat"}

ASSUME PipelineAssumption ==
  /\ MaxRetry \in Nat /\ MaxEdits \in Nat /\ MaxSends \in Nat
  /\ AdminStatuses \subseteq JOB_STATUSES
  /\ UrlInBody \in BOOLEAN

VARIABLES
  status,      \* jobs.status
  retries,     \* jobs.retry_count
  lock,        \* jobs.locked_at: "none", "fresh", or "stale" (stuck_after_minutes old)
  failedStage, \* jobs.failed_stage
  errorCode,   \* jobs.last_error_code
  done,        \* job_assets: the stages whose URLs are stored
  delivered,   \* videos the participant got over WhatsApp
  sess,        \* what each request has read and where it stands
  \* history, read by the properties and by MaxEdits only
  edits,       \* update-job calls that committed
  rewinds,     \* rewinds by the watchdog
  overwritten, \* update-job calls that wrote over a newer retry_count
  byHand,      \* statuses update-job has set
  cleared      \* stages with a URL deleted since they were last rendered

row  == <<status, retries, lock, failedStage, errorCode, done>>
hist == <<edits, rewinds, overwritten, byHand, cleared>>
vars == <<row, delivered, sess, hist>>

\* What the renderer makes of a row it picks up, and of one it finishes; a
\* finished video is picked up once more, to be sent.
Claimed  == [queued |-> "photo_processing", photo_done |-> "video_processing",
             video_done |-> "stitching", uploaded |-> "uploaded"]
Finished == [photo_processing |-> "photo_done", video_processing |-> "video_done",
             stitching |-> "uploaded"]
Produces == [photo_processing |-> "photo", video_processing |-> "video",
             stitching |-> "final"]

\* The failed_stage of each status that has one.
StageArms == [photo_processing |-> "photo", video_processing |-> "video",
              stitching |-> "stitch", uploaded |-> "delivery"]

Watched  == {"photo_processing", "video_processing", "stitching", "uploaded"}
Stages   == {"photo", "video", "stitch", "delivery"}

Errors   == {"none", "render", "rewind", "max_retry"}

Idle == [op |-> "none", pc |-> "idle"]
Snapshot(j) == [status |-> status[j], retries |-> retries[j],
                failedStage |-> failedStage[j], errorCode |-> errorCode[j]]
\* Of the row a delivery has read it assigns the status only.
StatusOnly(was) == [was EXCEPT !.retries = 0, !.failedStage = "none", !.errorCode = "none"]
Snapshots == [status : JOB_STATUSES, retries : Nat,
              failedStage : Stages \union {"none"}, errorCode : Errors]
Session == {Idle} \union [op : {"update", "send"}, pc : {"read", "delivered"}, job : Jobs,
                          to : JOB_STATUSES, was : Snapshots]

\* Every status written is one the ENUM has, every failed_stage a stage.
TypeOK ==
  /\ status \in [Jobs -> JOB_STATUSES]
  /\ retries \in [Jobs -> Nat]
  /\ lock \in [Jobs -> {"none", "fresh", "stale"}]
  /\ failedStage \in [Jobs -> Stages \union {"none"}]
  /\ errorCode \in [Jobs -> Errors]
  /\ done \in [Jobs -> SUBSET {"photo", "video", "final"}]
  /\ delivered \in [Jobs -> Nat]
  /\ sess \in [Reqs -> Session]
  /\ edits \in [Jobs -> Nat] /\ rewinds \in [Jobs -> Nat] /\ overwritten \in [Jobs -> Nat]
  /\ byHand \in [Jobs -> SUBSET JOB_STATUSES]
  /\ cleared \in [Jobs -> SUBSET {"photo", "video"}]

Init ==
  /\ status = [j \in Jobs |-> "queued"]
  /\ retries = [j \in Jobs |-> 0]
  /\ lock = [j \in Jobs |-> "none"]
  /\ failedStage = [j \in Jobs |-> "none"]
  /\ errorCode = [j \in Jobs |-> "none"]
  /\ done = [j \in Jobs |-> {}]
  /\ delivered = [j \in Jobs |-> 0]
  /\ sess = [r \in Reqs |-> Idle]
  /\ edits = [j \in Jobs |-> 0] /\ rewinds = [j \in Jobs |-> 0]
  /\ overwritten = [j \in Jobs |-> 0]
  /\ byHand = [j \in Jobs |-> {}] /\ cleared = [j \in Jobs |-> {}]

-----------------------------------------------------------------------------
(* The renderer (external) *)

Claim(j) ==
  /\ status[j] \in DOMAIN Claimed
  /\ status[j] = "uploaded" => lock[j] = "none"
  /\ status' = [status EXCEPT ![j] = Claimed[@]]
  /\ lock' = [lock EXCEPT ![j] = "fresh"]
  /\ UNCHANGED <<retries, failedStage, errorCode, done, delivered, sess, hist>>

\* The stage's URLs, the next status and the unlock.
Finish(j) ==
  /\ status[j] \in DOMAIN Finished /\ lock[j] # "none"
  /\ status' = [status EXCEPT ![j] = Finished[@]]
  /\ done' = [done EXCEPT ![j] = @ \union {Produces[status[j]]}]
  /\ cleared' = [cleared EXCEPT ![j] = @ \ {Produces[status[j]]}]
  /\ lock' = [lock EXCEPT ![j] = "none"]
  /\ UNCHANGED <<retries, failedStage, errorCode, delivered, sess,
                 edits, rewinds, overwritten, byHand>>

FailStage(j) ==
  /\ status[j] \in DOMAIN Finished /\ lock[j] # "none"
  /\ status' = [status EXCEPT ![j] = "failed"]
  /\ failedStage' = [failedStage EXCEPT ![j] = StageArms[status[j]]]
  /\ errorCode' = [errorCode EXCEPT ![j] = "render"]
  /\ lock' = [lock EXCEPT ![j] = "none"]
  /\ UNCHANGED <<retries, done, delivered, sess, hist>>

LockAges(j) ==
  /\ lock[j] = "fresh"
  /\ lock' = [lock EXCEPT ![j] = "stale"]
  /\ UNCHANGED <<status, retries, failedStage, errorCode, done, delivered, sess, hist>>

-----------------------------------------------------------------------------
(* sp_watchdog_tick *)

StuckNotStitching(j) ==                                             \* mutant
  status[j] \in Watched \ {"stitching"} /\ lock[j] = "stale"
Stuck(j) == status[j] \in Watched /\ lock[j] = "stale"

RetriesOverOnlyAbove(j) == retries[j] > MaxRetry                    \* mutant
RetriesOver(j) == retries[j] >= MaxRetry

RewindForward ==                                                    \* mutant
  [photo_processing |-> "queued", video_processing |-> "video_done",
   stitching |-> "video_done", uploaded |-> "uploaded"]
RewindTo ==
  [photo_processing |-> "queued", video_processing |-> "photo_done",
   stitching |-> "video_done", uploaded |-> "uploaded"]

StageRaw(s) == s                                                    \* mutant
\* A CASE without an ELSE: NULL for a status that has no arm.
StageOf(s) == IF s \in DOMAIN StageArms THEN StageArms[s] ELSE "none"

\* UPDATE (a).  MySQL evaluates the assignments of a single-table UPDATE from left
\* to right, so the CASE already sees the new status.
FailOver ==
  LET over == {j \in Jobs : Stuck(j) /\ RetriesOver(j)} IN
  /\ over # {}
  /\ status' = [j \in Jobs |-> IF j \in over THEN "failed" ELSE status[j]]
  /\ failedStage' = [j \in Jobs |-> IF j \in over THEN StageOf("failed") ELSE failedStage[j]]
  /\ errorCode' = [j \in Jobs |-> IF j \in over THEN "max_retry" ELSE errorCode[j]]
  /\ lock' = [j \in Jobs |-> IF j \in over THEN "none" ELSE lock[j]]
  /\ UNCHANGED <<retries, done, delivered, sess, hist>>

\* UPDATE (b), a statement and a commit of its own.
Rewind ==
  LET back == {j \in Jobs : Stuck(j) /\ ~RetriesOver(j)} IN
  /\ back # {}
  /\ status' = [j \in Jobs |-> IF j \in back THEN RewindTo[status[j]] ELSE status[j]]
  /\ lock' = [j \in Jobs |-> IF j \in back THEN "none" ELSE lock[j]]
  /\ retries' = [j \in Jobs |-> IF j \in back THEN retries[j] + 1 ELSE retries[j]]
  /\ errorCode' = [j \in Jobs |-> IF j \in back THEN "rewind" ELSE errorCode[j]]
  /\ rewinds' = [j \in Jobs |-> IF j \in back THEN rewinds[j] + 1 ELSE rewinds[j]]
  /\ UNCHANGED <<failedStage, done, delivered, sess, edits, overwritten, byHand, cleared>>

-----------------------------------------------------------------------------
(* The panel and delivery *)

Begin(r, op, j, to, was) ==
  /\ sess[r].pc = "idle"
  /\ sess' = [sess EXCEPT ![r] = [op |-> op, pc |-> "read", job |-> j, to |-> to,
                                  was |-> was]]
Close(r) == sess' = [sess EXCEPT ![r] = Idle]
At(r, op, pc) == sess[r].op = op /\ sess[r].pc = pc

\* The column's value after a flush that found `old` and assigned `new`.
Written(now, old, new) == IF new = old THEN now ELSE new

UpdateRead(r, j, s) ==
  /\ edits[j] + Cardinality({q \in Reqs : At(q, "update", "read") /\ sess[q].job = j}) < MaxEdits
  /\ Begin(r, "update", j, s, Snapshot(j))
  /\ UNCHANGED <<row, delivered, hist>>

UpdateCommit(r) ==
  LET j == sess[r].job
      was == sess[r].was IN
  /\ At(r, "update", "read")
  /\ status' = [status EXCEPT ![j] = Written(@, was.status, sess[r].to)]
  /\ retries' = [retries EXCEPT ![j] = was.retries + 1]
  /\ failedStage' = [failedStage EXCEPT ![j] = Written(@, was.failedStage, "none")]
  /\ errorCode' = [errorCode EXCEPT ![j] = Written(@, was.errorCode, "none")]
  /\ edits' = [edits EXCEPT ![j] = @ + 1]
  /\ overwritten' = [overwritten EXCEPT ![j] = IF was.retries = retries[j] THEN @ ELSE @ + 1]
  /\ byHand' = [byHand EXCEPT ![j] = IF was.status = sess[r].to THEN @ ELSE @ \union {sess[r].to}]
  /\ Close(r)
  /\ UNCHANGED <<lock, done, delivered, rewinds, cleared>>

\* PATCH /{job_id}/video-url.
SetVideoUrl(j) ==
  /\ "final" \notin done[j]
  /\ done' = [done EXCEPT ![j] = @ \union {"final"}]
  /\ UNCHANGED <<status, retries, lock, failedStage, errorCode, delivered, sess, hist>>

\* DELETE /{job_id}/assets/{field}, at any status: a photo's or a video's column
\* is cleared; the finished film is protected.  AssetStore has its steps.
DeleteAsset(j, a) ==
  /\ a \in done[j] \ {"final"}
  /\ done' = [done EXCEPT ![j] = @ \ {a}]
  /\ cleared' = [cleared EXCEPT ![j] = @ \union {a}]
  /\ UNCHANGED <<status, retries, lock, failedStage, errorCode, delivered, sess,
                 edits, rewinds, overwritten, byHand>>

\* POST /{job_id}/send-video looks at the URL only, never at the status.
SendRead(r, j) ==
  /\ UrlInBody \/ "final" \in done[j]
  /\ Begin(r, "send", j, "sent", StatusOnly(Snapshot(j)))
  /\ UNCHANGED <<row, delivered, hist>>

\* send_video: WhatsApp takes the message, or the handler answers 502.
SendOk(r) ==
  LET j == sess[r].job IN
  /\ At(r, "send", "read") /\ delivered[j] < MaxSends
  /\ delivered' = [delivered EXCEPT ![j] = @ + 1]
  /\ sess' = [sess EXCEPT ![r].pc = "delivered"]
  /\ UNCHANGED <<row, hist>>

DeliveredAlready(r) == sess[r].op = "send" /\ sess[r].pc \in {"read", "delivered"}   \* mutant
Delivered(r) == At(r, "send", "delivered")

SendCommit(r) ==
  LET j == sess[r].job IN
  /\ Delivered(r)
  /\ status' = [status EXCEPT ![j] = Written(@, sess[r].was.status, "sent")]
  /\ done' = [done EXCEPT ![j] = @ \union {"final"}]
  /\ Close(r)
  /\ UNCHANGED <<retries, lock, failedStage, errorCode, delivered, hist>>

\* A refusal by WhatsApp, an exception or a crash: nothing is committed.
Fail(r) ==
  /\ sess[r].pc # "idle"
  /\ Close(r)
  /\ UNCHANGED <<row, delivered, hist>>

Next ==
  \/ \E j \in Jobs : Claim(j) \/ Finish(j) \/ FailStage(j) \/ LockAges(j) \/ SetVideoUrl(j)
                     \/ \E a \in {"photo", "video"} : DeleteAsset(j, a)
  \/ FailOver \/ Rewind
  \/ \E r \in Reqs :
       \/ \E j \in Jobs : SendRead(r, j) \/ \E s \in AdminStatuses : UpdateRead(r, j, s)
       \/ UpdateCommit(r) \/ SendOk(r) \/ SendCommit(r) \/ Fail(r)

Spec == Init /\ [][Next]_vars

\* evt_watchdog_tick runs every minute inside MySQL, a lock grows old by itself,
\* and some live worker polls for claimable rows.  Nothing makes a worker
\* finish, a request commit or the panel act.
Fairness == WF_vars(FailOver) /\ WF_vars(Rewind)
              /\ \A j \in Jobs : WF_vars(LockAges(j)) /\ WF_vars(Claim(j))
FairSpec == Spec /\ Fairness

-----------------------------------------------------------------------------
\* README "Entry lifecycle", jobs.py "would put a lie in the campaign data": an
\* entry is `sent` only after WhatsApp took its video, or because an admin set `sent`
\* by hand, whatever the watchdog, the panel and a second send did to the row meanwhile.
SentWasDelivered ==
  \A j \in Jobs : status[j] = "sent" => delivered[j] > 0 \/ "sent" \in byHand[j]

\* The stage whose URLs each status stands on.
Needs == [photo_done |-> "photo", video_processing |-> "photo", video_done |-> "video",
          stitching |-> "video", uploaded |-> "final", sent |-> "final"]

\* A stage's URLs are behind every status that stands on them, unless they were
\* deleted after the stage was last rendered or an admin set such a status by hand:
\* the watchdog rewinds to what is rendered, neither before it nor past it, and no
\* stale write of the panel or of a delivery puts the row ahead of its assets.
AssetsBehindStatus ==
  \A j \in Jobs : status[j] \in DOMAIN Needs =>
    \/ Needs[status[j]] \in done[j] \union cleared[j]
    \/ \E s \in byHand[j] \intersect DOMAIN Needs : Needs[s] = Needs[status[j]]

\* What one update-job call with an old snapshot can take off the count.
Regained == IF MaxRetry = 0 THEN 0 ELSE MaxRetry - 1

\* schema.sql "permanently fails rows past max_retry", jobs.py "Increments
\* retry_count": the watchdog rewinds an entry at most max_retry times, and at most
\* max_retry - 1 times more for each update-job call that wrote its old count over a
\* newer one.  No entry is given up for more retries than it had rewinds and edits.
RetryBudget ==
  \A j \in Jobs :
    /\ rewinds[j] <= MaxRetry + overwritten[j] * Regained
    /\ retries[j] <= rewinds[j] + edits[j]

\* README "rewinds stuck rows and fails them past max_retry, surviving an
\* all-EC2-down outage": an entry in the queue or in any stage ends up sent or
\* failed, although no worker ever has to finish what it locked.
Settles ==
  \A j \in Jobs : status[j] \in DOMAIN Claimed \union DOMAIN Finished
                    ~> status[j] \in {"sent", "failed"}

\* schema.sql, the CASE for failed_stage ("stuck send call"): an entry failed by
\* the watchdog says in which stage it was stuck.
SweptHasStage == \A j \in Jobs : errorCode[j] = "max_retry" => failedStage[j] # "none"

-----------------------------------------------------------------------------
(* The inductive invariant behind SentWasDelivered, AssetsBehindStatus, RetryBudget *)

\* What a request works from was earned: no count beyond what happened, no `sent`
\* without the delivery.
SessionInv ==
  \A r \in Reqs : sess[r] # Idle =>
    /\ sess[r].was.retries <= rewinds[sess[r].job] + edits[sess[r].job]
    /\ sess[r].op = "send" => sess[r].to = "sent"
    /\ At(r, "send", "delivered") => delivered[sess[r].job] > 0

\* The rewinds an entry had and those its count still allows.
Left(j) == IF retries[j] >= MaxRetry THEN 0 ELSE MaxRetry - retries[j]
Allowance ==
  \A j \in Jobs : rewinds[j] + Left(j) <= MaxRetry + overwritten[j] * Regained
PipelineInv == SessionInv /\ SentWasDelivered /\ AssetsBehindStatus /\ RetryBudget /\ Allowance
=============================================================================
