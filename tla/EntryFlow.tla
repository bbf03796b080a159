------------------------------ MODULE EntryFlow ------------------------------
(***************************************************************************)
(* The entry path of the API: /video/submit, /verify-otp, /resend-otp, and *)
(* what the admin panel, the send-video call and the (external) renderer   *)
(* do to the rows they create.                                             *)
(*                                                                         *)
(* A handler is a transaction under MySQL's REPEATABLE READ: it reads a    *)
(* snapshot, computes in Python, and commits ABSOLUTE values.  So every    *)
(* request is a session that reads in one step and writes in a later one,  *)
(* and other sessions run in between.  The one lock that orders them is    *)
(* the users row: inserting a job takes it shared (the foreign key), and   *)
(* `video_count` needs it exclusively.                                     *)
(***************************************************************************)
EXTENDS Naturals, FiniteSets

CONSTANTS
  Users,             \* phone numbers, each standing for its users row
  NoUser,            \* not a number
  Reqs,              \* requests that may be in progress at the same time
  MaxJobs,           \* bound: jobs.id values that can be allocated
  MaxOtps,           \* bound: user_otp rows that can be inserted
  AllowMultiple,     \* setting allow_multiple_requests
  MaxVideos,         \* setting max_videos_per_user
  UnlimitedNumbers,  \* setting unlimited_numbers
  ClientNumbers,     \* setting client_numbers
  HeldNumbers,       \* setting held_numbers
  FlagValues,        \* values the admin gives the photo_validation flag
  FlagLost,          \* whether Redis may lose the flag or fail to answer for it
  AdminStatuses,     \* statuses the admin sets through PATCH /update-job
  SendsWaiting       \* whether send-video is called for entries still in `wait`

JobIds == 1 .. MaxJobs
OtpIds == 1 .. MaxOtps

\* models/job.py, the ENUM of the live table; `repeat` came with
\* migrations/005_repeat_entries.sql, schema.sql alone does not have it yet.
JOB_STATUSES == {"wait", "process_stop", "unverified", "queued",
  "photo_processing", "photo_done", "video_processing", "video_done",
  "stitching", "uploaded", "sent", "failed", "client", "repeat"}

ASSUME EntryAssumption ==
  /\ NoUser \notin Users
  /\ MaxJobs \in Nat /\ MaxOtps \in Nat /\ MaxVideos \in Nat
  /\ AllowMultiple \in BOOLEAN /\ SendsWaiting \in BOOLEAN /\ FlagLost \in BOOLEAN
  /\ FlagValues \subseteq BOOLEAN
  /\ AdminStatuses \subseteq JOB_STATUSES
  /\ UnlimitedNumbers \subseteq Users
  /\ ClientNumbers \subseteq Users
  /\ HeldNumbers \subseteq Users

VARIABLES
  users,        \* numbers with a users row (and its user_verification row)
  verified,     \* those whose user_verification.is_verified is set
  video_count,  \* users.video_count
  status,       \* jobs.status, "none" when there is no such row
  owner,        \* jobs.user_id
  vetted,       \* jobs whose submit passed the photo check
  nextJob,      \* jobs AUTO_INCREMENT
  otp,          \* user_otp: its age while unused, or "used"
  otpUser,      \* user_otp.user_id
  nextOtp,      \* user_otp rows so far; ids follow created_at
  plates,       \* share_events rows with channel video_request
  photos,       \* job ids whose photo was uploaded to S3
  pending,      \* Redis pending_video key: a job id, 0 when missing
  flag,         \* Redis photo_validation flag
  sess          \* what each request has read and where it stands

db    == <<users, verified, video_count, status, owner, vetted, nextJob, plates>>
codes == <<otp, otpUser, nextOtp>>
vars  == <<db, codes, photos, pending, flag, sess>>

Idle == [op |-> "none", pc |-> "idle", user |-> NoUser, new |-> FALSE,
         verified |-> FALSE, flag |-> FALSE, count |-> 0, job |-> 0, otp |-> 0]

Session ==
  [op : {"none", "submit", "verify", "resend", "admin"},
   pc : {"idle", "read", "flagged", "flushed", "uploaded", "committed"},
   user : Users \union {NoUser}, new : BOOLEAN, verified : BOOLEAN,
   flag : BOOLEAN, count : Nat, job : 0 .. MaxJobs, otp : 0 .. MaxOtps]

\* Every row, key and session holds a value its column or type allows; in
\* particular no handler writes a status that the ENUM does not have.
TypeOK ==
  /\ users \subseteq Users
  /\ verified \subseteq users
  /\ video_count \in [Users -> Nat]
  /\ status \in [JobIds -> JOB_STATUSES \union {"none"}]
  /\ owner \in [JobIds -> Users \union {NoUser}]
  /\ vetted \subseteq JobIds
  /\ nextJob \in 1 .. MaxJobs + 1
  /\ otp \in [OtpIds -> {"none", "fresh", "cool", "expired", "used"}]
  /\ otpUser \in [OtpIds -> Users \union {NoUser}]
  /\ nextOtp \in 1 .. MaxOtps + 1
  /\ plates \in Nat
  /\ photos \subseteq JobIds
  /\ pending \in [Users -> 0 .. MaxJobs]
  /\ flag \in BOOLEAN
  /\ sess \in [Reqs -> Session]

Init ==
  /\ users = {} /\ verified = {}
  /\ video_count = [u \in Users |-> 0]
  /\ status = [j \in JobIds |-> "none"]
  /\ owner = [j \in JobIds |-> NoUser]
  /\ vetted = {} /\ nextJob = 1
  /\ otp = [o \in OtpIds |-> "none"]
  /\ otpUser = [o \in OtpIds |-> NoUser]
  /\ nextOtp = 1
  /\ plates = 0 /\ photos = {}
  /\ pending = [u \in Users |-> 0]
  /\ flag \in FlagValues
  /\ sess = [r \in Reqs |-> Idle]

-----------------------------------------------------------------------------
(* Queries *)

JobsOf(u)  == {j \in JobIds : owner[j] = u /\ status[j] # "none"}

WaitingAnyStatus(u) == JobsOf(u)                                    \* mutant
Waiting(u)  == {j \in JobsOf(u) : status[j] = "wait"}

InFlightNotUploaded(u) ==                                           \* mutant
  {j \in JobsOf(u) : status[j] \notin {"sent", "failed", "uploaded"}}
InFlight(u) == {j \in JobsOf(u) : status[j] \notin {"sent", "failed"}}

\* .first() without an ORDER BY: any matching row, 0 for None.
FirstOf(S) == IF S = {} THEN {0} ELSE S

UnusedOtps(u) == {o \in OtpIds : otpUser[o] = u /\ otp[o] \in {"fresh", "cool", "expired"}}
LiveOtps(u)   == {o \in UnusedOtps(u) : otp[o] # "expired"}
IsNewest(o, S) == o \in S /\ \A p \in S : p <= o

CapReachedLate(u) ==                                                \* mutant
  ~AllowMultiple /\ u \in users /\ video_count[u] > MaxVideos /\ u \notin UnlimitedNumbers
CapReached(u) ==
  ~AllowMultiple /\ u \in users /\ video_count[u] >= MaxVideos /\ u \notin UnlimitedNumbers

EntryStatusUnlisted(u, on) ==                                       \* mutant
  IF on THEN "queued" ELSE "not_validated"
EntryStatus(u, on) ==
  IF ~on THEN "unverified"
  ELSE IF u \in ClientNumbers THEN "client"
  ELSE IF u \in HeldNumbers THEN "process_stop"
  ELSE "queued"

-----------------------------------------------------------------------------
(* Rows and locks *)

SessionUser(r) == sess[r].user

\* A flushed job keeps a shared lock on its users row until the session ends,
\* and writing video_count waits for every such lock but the session's own.
LocksUser(r, u) ==
  sess[r].op = "submit" /\ sess[r].user = u /\ sess[r].pc \in {"flushed", "uploaded"}
CanWriteUser(r) == \A q \in Reqs \ {r} : ~LocksUser(q, SessionUser(r))

InsertJobWithoutPlate(r, s) ==                                      \* mutant
  LET j == sess[r].job IN
  /\ status' = [status EXCEPT ![j] = s]
  /\ owner'  = [owner EXCEPT ![j] = SessionUser(r)]
  /\ vetted' = IF sess[r].flag THEN vetted \union {j} ELSE vetted
  /\ plates' = plates
\* The jobs row and the plate of _attribute_request, committed together.
InsertJob(r, s) ==
  LET j == sess[r].job IN
  /\ status' = [status EXCEPT ![j] = s]
  /\ owner'  = [owner EXCEPT ![j] = SessionUser(r)]
  /\ vetted' = IF sess[r].flag THEN vetted \union {j} ELSE vetted
  /\ plates' = plates + 1

\* A new code for u, of which `spent` are the ones the same commit marks used.
IssueOtp(u, spent) ==
  /\ nextOtp <= MaxOtps
  /\ otp' = [o \in OtpIds |-> IF o = nextOtp THEN "fresh"
                              ELSE IF o \in spent THEN "used" ELSE otp[o]]
  /\ otpUser' = [otpUser EXCEPT ![nextOtp] = u]
  /\ nextOtp' = nextOtp + 1

CountForgotten(r) == sess[r].count                                  \* mutant
\* user.video_count += 1: computed from the snapshot, written as a value.
CountAfter(r) == sess[r].count + 1

Goto(r, pc) == sess' = [sess EXCEPT ![r].pc = pc]
Close(r)    == sess' = [sess EXCEPT ![r] = Idle]

Open(r, op, u, j, o, f) ==
  /\ sess[r].pc = "idle"
  /\ sess' = [sess EXCEPT ![r] =
       [op |-> op, pc |-> "read", user |-> u, new |-> u \notin users,
        verified |-> u \in verified, flag |-> f, count |-> video_count[u],
        job |-> j, otp |-> o]]

At(r, op, pc) == sess[r].op = op /\ sess[r].pc = pc

\* FeatureFlags.is_enabled("photo_validation", default=True): a key that is gone
\* and a Redis that does not answer both read as on.
FlagRead == IF FlagLost THEN {flag, TRUE} ELSE {flag}

-----------------------------------------------------------------------------
(* POST /video/submit *)

\* The flag and the token, the user, the cap, the verification, and the job
\* that decides the branch: a `wait` one, or one in flight unless the setting
\* allows several.
SubmitRead(r, u) ==
  /\ ~CapReached(u)
  /\ \E j \in FirstOf(IF u \notin verified THEN Waiting(u)
                      ELSE IF AllowMultiple THEN {} ELSE InFlight(u)), f \in FlagRead :
       Open(r, "submit", u, j, 0, f)
  /\ UNCHANGED <<db, codes, photos, pending, flag>>

SubmitReissueForAPlate(r) ==                                        \* mutant
  /\ At(r, "submit", "read") /\ ~sess[r].verified /\ sess[r].job # 0
  /\ IssueOtp(SessionUser(r), {})
  /\ Close(r)
  /\ plates' = plates + 1
  /\ UNCHANGED <<users, verified, video_count, status, owner, vetted, nextJob,
                 photos, pending, flag>>
\* Unverified, and an entry already waits: a further code, no second job.
SubmitReissue(r) ==
  /\ At(r, "submit", "read") /\ ~sess[r].verified /\ sess[r].job # 0
  /\ IssueOtp(SessionUser(r), {})
  /\ Close(r)
  /\ UNCHANGED <<db, photos, pending, flag>>

\* Verified, one entry at a time, and one is in flight by the cache or by the
\* snapshot: "pending", caching what the database said.
SubmitPending(r) ==
  LET u == SessionUser(r) IN
  /\ At(r, "submit", "read") /\ sess[r].verified /\ ~AllowMultiple
  /\ pending[u] # 0 \/ sess[r].job # 0
  /\ pending' = IF pending[u] # 0 THEN pending ELSE [pending EXCEPT ![u] = sess[r].job]
  /\ Close(r)
  /\ UNCHANGED <<db, codes, photos, flag>>

PhoneHashUnchecked(r) == TRUE                                       \* mutant
\* UNIQUE phone_hash: inserting the users row waits for an uncommitted one with
\* the same hash and fails after a committed one.
PhoneHashFree(r) == sess[r].new => SessionUser(r) \notin users /\ CanWriteUser(r)

\* db.flush(): the new users row, if any, goes in and the job gets its id.
SubmitFlush(r) ==
  /\ At(r, "submit", "read") /\ sess[r].job = 0
  /\ sess[r].verified /\ ~AllowMultiple => pending[SessionUser(r)] = 0
  /\ PhoneHashFree(r)
  /\ nextJob <= MaxJobs
  /\ nextJob' = nextJob + 1
  /\ sess' = [sess EXCEPT ![r].pc = "flushed", ![r].job = nextJob]
  /\ UNCHANGED <<users, verified, video_count, status, owner, vetted, plates,
                 codes, photos, pending, flag>>

SubmitUploadAndCache(r) ==                                          \* mutant
  /\ At(r, "submit", "flushed")
  /\ photos' = photos \union {sess[r].job}
  /\ pending' = [pending EXCEPT ![SessionUser(r)] = sess[r].job]
  /\ Goto(r, "uploaded")
  /\ UNCHANGED <<db, codes, flag>>
SubmitUpload(r) ==
  /\ At(r, "submit", "flushed")
  /\ photos' = photos \union {sess[r].job}
  /\ Goto(r, "uploaded")
  /\ UNCHANGED <<db, codes, pending, flag>>

\* Everything the commit needs is staged, the photo's URL included.
Staged(r) == At(r, "submit", "uploaded")

\* Unverified: the `wait` job, its plate and the code.
SubmitCommitWait(r) ==
  /\ Staged(r) /\ ~sess[r].verified
  /\ users' = users \union {SessionUser(r)}
  /\ InsertJob(r, "wait")
  /\ IssueOtp(SessionUser(r), {})
  /\ Close(r)
  /\ UNCHANGED <<verified, video_count, nextJob, photos, pending, flag>>

FlagNow(r) == flag                                                  \* mutant
\* The flag decides by the value read when the submit was admitted.
FlagAtSubmit(r) == sess[r].flag

\* Verified: the job in its entry status, its plate and the count.
SubmitCommitEntry(r) ==
  LET u == SessionUser(r) IN
  /\ Staged(r) /\ sess[r].verified
  /\ CanWriteUser(r)
  /\ InsertJob(r, EntryStatus(u, FlagAtSubmit(r)))
  /\ video_count' = [video_count EXCEPT ![u] = CountAfter(r)]
  /\ Goto(r, "committed")
  /\ UNCHANGED <<users, verified, nextJob, codes, photos, pending, flag>>

-----------------------------------------------------------------------------
(* POST /verify-otp *)

\* The code typed matches the newest live one; a waiting job, if any.
VerifyRead(r, u) ==
  /\ u \in users
  /\ \E o \in OtpIds, j \in FirstOf(Waiting(u)) :
       IsNewest(o, LiveOtps(u)) /\ Open(r, "verify", u, j, o, FALSE)
  /\ UNCHANGED <<db, codes, photos, pending, flag>>

\* A waiting job was found: its status is decided by the flag as it is now.
VerifyFlag(r) ==
  /\ At(r, "verify", "read") /\ sess[r].job # 0
  /\ \E f \in FlagRead : sess' = [sess EXCEPT ![r].pc = "flagged", ![r].flag = f]
  /\ UNCHANGED <<db, codes, photos, pending, flag>>

VerifyCommit(r) ==
  LET u == SessionUser(r)
      j == sess[r].job IN
  /\ At(r, "verify", IF j = 0 THEN "read" ELSE "flagged")
  /\ otp' = [otp EXCEPT ![sess[r].otp] = "used"]
  /\ verified' = verified \union {u}
  /\ \/ /\ j = 0
        /\ Close(r)
        /\ UNCHANGED <<status, video_count>>
     \/ /\ j # 0 /\ CanWriteUser(r)
        /\ status' = [status EXCEPT ![j] = EntryStatus(u, sess[r].flag)]
        /\ video_count' = [video_count EXCEPT ![u] = CountAfter(r)]
        /\ Goto(r, "committed")
  /\ UNCHANGED <<users, owner, vetted, nextJob, plates, otpUser, nextOtp,
                 photos, pending, flag>>

\* Cache.set_pending_video after the commit, of submit and of verify alike.
CachePending(r) ==
  /\ sess[r].op \in {"submit", "verify"} /\ sess[r].pc = "committed"
  /\ pending' = [pending EXCEPT ![SessionUser(r)] = sess[r].job]
  /\ Close(r)
  /\ UNCHANGED <<db, codes, photos, flag>>

-----------------------------------------------------------------------------
(* POST /resend-otp *)

\* Not verified, and the latest unused code is past its cooldown.
ResendRead(r, u) ==
  /\ u \in users \ verified
  /\ \A o \in OtpIds : IsNewest(o, UnusedOtps(u)) => otp[o] # "fresh"
  /\ Open(r, "resend", u, 0, 0, FALSE)
  /\ UNCHANGED <<db, codes, photos, pending, flag>>

\* UPDATE ... WHERE is_used = 0 sees the rows as they are at the commit.
ResendCommit(r) ==
  /\ At(r, "resend", "read")
  /\ IssueOtp(SessionUser(r), UnusedOtps(SessionUser(r)))
  /\ Close(r)
  /\ UNCHANGED <<db, photos, pending, flag>>

-----------------------------------------------------------------------------
(* The panel, delivery and the renderer *)

Clearing(u, j) ==
  [op |-> "admin", pc |-> "committed", user |-> u, new |-> FALSE,
   verified |-> FALSE, flag |-> FALSE, count |-> 0, job |-> j, otp |-> 0]

\* A committed status change; a final status has the cached id still to clear.
SetStatus(r, j, s) ==
  /\ sess[r].pc = "idle"
  /\ status' = [status EXCEPT ![j] = s]
  /\ sess' = IF s \in {"sent", "failed"}
             THEN [sess EXCEPT ![r] = Clearing(owner[j], j)]
             ELSE sess
  /\ UNCHANGED <<users, verified, video_count, owner, vetted, nextJob, plates,
                 codes, photos, pending, flag>>

\* PATCH /update-job: any status to any status.
AdminUpdate(r, j, s) == status[j] # "none" /\ SetStatus(r, j, s)

\* POST /{job_id}/send-video: the caller's URL or the stored one is delivered,
\* whatever the job's status; while the OTP is out nothing has been rendered, so
\* only a caller with a film from elsewhere gets that far.
SendVideo(r, j) ==
  /\ status[j] # "none"
  /\ status[j] = "wait" => SendsWaiting
  /\ SetStatus(r, j, "sent")

\* Cache.clear_pending_video(job.user_id): by user, whichever job is cached.
ClearPending(r) ==
  /\ At(r, "admin", "committed")
  /\ pending' = [pending EXCEPT ![SessionUser(r)] = 0]
  /\ Close(r)
  /\ UNCHANGED <<db, codes, photos, flag>>

\* The (external) renderer claims a queued job, and finishes it or gives it up;
\* JobPipeline has the stages in between.
Render(j) ==
  /\ \/ status[j] = "queued" /\ status' = [status EXCEPT ![j] = "photo_processing"]
     \/ /\ status[j] = "photo_processing"
        /\ \E s \in {"uploaded", "failed"} : status' = [status EXCEPT ![j] = s]
  /\ UNCHANGED <<users, verified, video_count, owner, vetted, nextJob, plates,
                 codes, photos, pending, flag, sess>>

\* sp_watchdog_tick on a job whose holder died: it goes back to the queue, or
\* fails when its retries are over; JobPipeline counts them.
Watchdog(j) ==
  /\ \/ status[j] = "photo_processing" /\ status' = [status EXCEPT ![j] = "queued"]
     \/ /\ status[j] \in {"photo_processing", "uploaded"}
        /\ status' = [status EXCEPT ![j] = "failed"]
  /\ UNCHANGED <<users, verified, video_count, owner, vetted, nextJob, plates,
                 codes, photos, pending, flag, sess>>

-----------------------------------------------------------------------------
(* Time, failures and the flag *)

\* An exception or a crash: what was not committed is rolled back, a photo
\* already in the bucket and an id already allocated stay as they are.
Fail(r) ==
  /\ sess[r].pc # "idle"
  /\ Close(r)
  /\ UNCHANGED <<db, codes, photos, pending, flag>>

\* A code passes the resend cooldown, later its expiry; older codes first.
OtpAges(o) ==
  /\ \/ otp[o] = "fresh" /\ otp' = [otp EXCEPT ![o] = "cool"]
     \/ otp[o] = "cool"  /\ otp' = [otp EXCEPT ![o] = "expired"]
  /\ \A p \in 1 .. o - 1 : otp[p] \notin {"fresh", otp[o]}
  /\ UNCHANGED <<db, otpUser, nextOtp, photos, pending, flag, sess>>

PendingExpires(u) ==
  /\ pending[u] # 0
  /\ pending' = [pending EXCEPT ![u] = 0]
  /\ UNCHANGED <<db, codes, photos, flag, sess>>

SetFlag(v) ==
  /\ flag # v
  /\ flag' = v
  /\ UNCHANGED <<db, codes, photos, pending, sess>>

Submit(r) ==
  \/ \E u \in Users : SubmitRead(r, u)
  \/ SubmitReissue(r) \/ SubmitPending(r) \/ SubmitFlush(r) \/ SubmitUpload(r)
  \/ SubmitCommitWait(r) \/ SubmitCommitEntry(r)

Verify(r) == (\E u \in Users : VerifyRead(r, u)) \/ VerifyFlag(r) \/ VerifyCommit(r)
Resend(r) == (\E u \in Users : ResendRead(r, u)) \/ ResendCommit(r)

Panel(r) ==
  \/ \E j \in JobIds : SendVideo(r, j) \/ \E s \in AdminStatuses : AdminUpdate(r, j, s)
  \/ ClearPending(r)

Next ==
  \/ \E r \in Reqs : Submit(r) \/ Verify(r) \/ Resend(r) \/ Panel(r)
                     \/ CachePending(r) \/ Fail(r)
  \/ \E j \in JobIds : Render(j) \/ Watchdog(j)
  \/ \E o \in OtpIds : OtpAges(o)
  \/ \E u \in Users : PendingExpires(u)
  \/ \E v \in FlagValues : SetFlag(v)

Spec == Init /\ [][Next]_vars

Entries == {j \in JobIds : status[j] # "none"}

-----------------------------------------------------------------------------
(* Orderly behaviours: what some of the sources' statements rely on although no
   code enforces it *)

\* Staff and deliveries leave `wait` to the OTP: an entry leaves it only once its
\* number is verified, and none is put back.
WaitOrderly ==
  \A j \in Entries :
    /\ status[j] = "wait" /\ status'[j] # "wait" => owner[j] \in verified'
    /\ status'[j] = "wait" => status[j] = "wait"

\* The submits and verifications of one number do not overlap (those of different
\* numbers may): each reads after the one before has committed.
InTransaction(r) == sess[r].op \in {"submit", "verify"} /\ sess[r].pc # "committed"
OneByOne ==
  \A r, q \in Reqs :
    InTransaction(r) /\ InTransaction(q) /\ SessionUser(r) = SessionUser(q) => r = q

\* The panel does not put an entry that is sent or has failed back to work.
FinishedForGood ==
  \A r \in Reqs, j \in JobIds, s \in AdminStatuses :
    AdminUpdate(r, j, s) /\ status[j] \in {"sent", "failed"} => s \in {"sent", "failed"}

\* The photo check is switched on only when no entry that skipped it waits for its
\* OTP and no submit that skips it is under way.
CheckOnWhenDrained ==
  ~flag /\ flag' =>
    /\ \A j \in Entries : status[j] = "wait" => j \in vetted
    /\ \A r \in Reqs : sess[r].op = "submit" => sess[r].flag

OrderlySpec == Init /\ [][Next /\ WaitOrderly]_vars
SerialSpec  == Init /\ [][Next /\ WaitOrderly /\ OneByOne']_vars

-----------------------------------------------------------------------------
(* What holds whatever the requests' order *)

\* The detailed flow implements the ledger: a jobs row and its plate appear in
\* one step, after the photo is stored, and no other path (a reissued code, a
\* "pending" answer, a failed or retried submit, a crash) earns a plate.
Ledger == INSTANCE EntryLedger WITH
            Ids <- JobIds, stored <- photos, entries <- Entries, plates <- plates
LedgerSpec == Ledger!LedgerSpec

\* share_service: one video_request row per jobs row, and every jobs row has
\* its photo in the bucket (the upload precedes the commit).
OnePlatePerEntry == Entries \subseteq photos /\ plates = Cardinality(Entries)

\* u's entries that have left `wait`.
Promoted == [u \in Users |-> {j \in JobsOf(u) : status[j] # "wait"}]

\* users.video_count may lose an update when two requests of one number
\* overlap, but never counts an entry that does not exist: nobody is refused
\* by the cap for videos they did not request.
CountNeverExceeds == \A u \in Users : video_count[u] <= Cardinality(Promoted[u])

\* The id cached for "your previous video is still being processed" is a
\* committed job of that very user, although it is set outside the transaction.
PendingNamesOwnEntry == \A u \in Users : pending[u] # 0 => pending[u] \in JobsOf(u)

\* README "Entry lifecycle", auth.py: `wait` means the OTP is not yet verified, so
\* no verified number has an entry left behind.  Two first submits of a number
\* race for the same phone_hash: the unique key, not the check for a waiting
\* job, keeps the loser from leaving a second one.
WaitMeansUnverified == \A j \in Entries : status[j] = "wait" => owner[j] \notin verified

\* video.py: the in-flight guard reads before it inserts, so overlapping submits pass
\* it together, and a late verification puts a finished entry back to work; still no
\* more entries of a number are unfinished than requests run at once.
FewInFlight ==
  ~AllowMultiple => \A u \in Users :
    Cardinality({j \in JobsOf(u) : status[j] \notin {"sent", "failed"}}) <= Cardinality(Reqs)

\* A submit by a verified number never puts an unchecked photo in front of the
\* renderer, however the admin toggles the check while the request runs.
DirectQueueIsVetted ==
  [][\A j \in JobIds : status[j] = "none" /\ status'[j] = "queued" => j \in vetted']_vars

-----------------------------------------------------------------------------
(* What the sources state; it holds while a number's requests are OneByOne *)

\* schema.sql, users.video_count: "denormalised job count" (of the entries that
\* have left `wait`).
CountIsJobCount == \A u \in Users : video_count[u] = Cardinality(Promoted[u])

\* video.py "reject if a job is still in flight", config.py "the one video in
\* flight guard": with the guard on, a number has one unfinished job at most.
OneInFlight ==
  ~AllowMultiple => \A j, k \in Entries :
    owner[j] = owner[k] /\ {status[j], status[k]} \cap {"sent", "failed"} = {} => j = k

\* config.py "Max videos a single phone number may generate".
CapRespected ==
  ~AllowMultiple => \A u \in Users \ UnlimitedNumbers : Cardinality(Promoted[u]) <= MaxVideos

\* README "so nothing unvetted reaches the renderer unnoticed": a job leaves
\* `wait` or is created as `queued` only with a checked photo, unless an admin
\* did it.
UnvettedNeverQueued ==
  [][\A j \in JobIds : status[j] \in {"none", "wait"} /\ status'[j] = "queued"
       => j \in vetted']_vars

\* README "Entry lifecycle": `wait -> queued -> photo_processing -> ...`; a job the
\* renderer has claimed goes back to the queue by the watchdog only, or by the panel
\* (which never queues one in the runs that check this).
ClaimedNotRequeued ==
  [][\A j \in JobIds :
       status[j] \in {"photo_processing", "uploaded", "sent", "failed"} /\ status'[j] = "queued"
         => Watchdog(j)]_vars

-----------------------------------------------------------------------------
(* The inductive invariant behind the first group *)

\* What a session holds once it has read: a number, and the ids it needs.
SessionTyped ==
  \A r \in Reqs :
    /\ sess[r].op \in {"submit", "verify", "resend"} => SessionUser(r) \in Users
    /\ sess[r].op = "submit" /\ sess[r].pc # "read" => sess[r].job \in JobIds
    /\ sess[r].op = "verify" => sess[r].otp \in OtpIds /\ SessionUser(r) \in users

\* An allocated id that is not committed yet belongs to one session only.
Allocated(r) == LocksUser(r, SessionUser(r))
IdsInv ==
  /\ \A j \in JobIds : j >= nextJob => status[j] = "none"
  /\ \A r \in Reqs : Allocated(r) => sess[r].job < nextJob /\ status[sess[r].job] = "none"
  /\ \A r, q \in Reqs : Allocated(r) /\ Allocated(q) /\ r # q => sess[r].job # sess[q].job

\* Outside that, a job a session knows of is committed, and its user's.
RowsInv ==
  /\ \A j \in Entries : owner[j] \in Users
  /\ \A r \in Reqs : sess[r].op \in {"submit", "verify"} /\ ~Allocated(r) /\ sess[r].job # 0
       => sess[r].job \in JobsOf(SessionUser(r))
  /\ PendingNamesOwnEntry

\* The photo is stored before the commit, and plates follow the entries.
PlatesInv ==
  /\ \A r \in Reqs : Staged(r) => sess[r].job \in photos
  /\ OnePlatePerEntry

EntryInv == SessionTyped /\ IdsInv /\ RowsInv /\ PlatesInv

\* A count about to be written counts entries only, the one it is for included.
CountInv ==
  /\ CountNeverExceeds
  /\ \A r \in Reqs : sess[r].op \in {"submit", "verify"} /\ sess[r].pc # "committed" =>
       LET u == SessionUser(r) IN
       /\ sess[r].count <= Cardinality(Promoted[u])
       /\ sess[r].op = "verify" /\ sess[r].job # 0 =>
            sess[r].count + 1 <= Cardinality(Promoted[u] \union {sess[r].job})
=============================================================================
