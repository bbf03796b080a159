--------------------------- MODULE EntryFlowProofs ---------------------------
(***************************************************************************)
(* Theorems about EntryFlow, for every set of numbers and requests and     *)
(* every bound.                                                            *)
(***************************************************************************)
EXTENDS EntryFlow, FiniteSetTheorems, TLAPS

TypeInv == TypeOK /\ SessionTyped

\* Every entry status a submit or a verification can choose is in the ENUM.
LEMMA EntryStatusListed ==
  \A u \in Users, on \in BOOLEAN : EntryStatus(u, on) \in JOB_STATUSES \ {"wait"}
BY DEF EntryStatus, JOB_STATUSES

\* The rows a query finds are rows.
LEMMA QueryTyped ==
  ASSUME NEW u, NEW j \in FirstOf(Waiting(u)) \union FirstOf(InFlight(u)) \union FirstOf({})
  PROVE  j \in 0 .. MaxJobs /\ (j # 0 => j \in JobsOf(u))
BY EntryAssumption DEF FirstOf, JobsOf, Waiting, InFlight, JobIds

\* What EXCEPT does to a session and to the cached ids.
LEMMA SessionExcept ==
  ASSUME NEW s \in Session
  PROVE  /\ \A pc \in {"flushed", "uploaded", "committed"} : [s EXCEPT !.pc = pc] \in Session
         /\ \A j \in 0 .. MaxJobs : [s EXCEPT !.job = j] \in Session
         /\ \A j \in 0 .. MaxJobs : [s EXCEPT !.pc = "flushed", !.job = j] \in Session
<1>1. \A pc \in {"flushed", "uploaded", "committed"} : [s EXCEPT !.pc = pc] \in Session
  BY DEF Session
<1>2. \A j \in 0 .. MaxJobs : [s EXCEPT !.job = j] \in Session
  BY DEF Session
<1>3. \A j \in 0 .. MaxJobs : [s EXCEPT !.pc = "flushed", !.job = j] \in Session
  BY DEF Session
<1> QED BY <1>1, <1>2, <1>3

\* The second read of a verification: the flag, and nothing else.
LEMMA FlagEffect ==
  ASSUME TypeOK, NEW r \in Reqs, VerifyFlag(r)
  PROVE  /\ sess' \in [Reqs -> Session]
         /\ \A q \in Reqs \ {r} : sess'[q] = sess[q]
         /\ sess[r].op = "verify" /\ sess[r].pc = "read" /\ sess[r].job # 0
         /\ sess'[r].op = "verify" /\ sess'[r].pc = "flagged" /\ sess'[r].flag \in FlagRead
         /\ sess'[r].user = sess[r].user /\ sess'[r].verified = sess[r].verified
         /\ sess'[r].count = sess[r].count /\ sess'[r].job = sess[r].job
         /\ sess'[r].otp = sess[r].otp
         /\ UNCHANGED <<users, verified, video_count, status, owner, vetted, nextJob, plates>>
         /\ UNCHANGED <<otp, otpUser, nextOtp, photos, pending, flag>>
<1>1. PICK f \in FlagRead : sess' = [sess EXCEPT ![r].pc = "flagged", ![r].flag = f]
  BY DEF VerifyFlag
<1>2. f \in BOOLEAN /\ sess[r] \in Session
  BY DEF FlagRead, TypeOK
<1>3. [sess[r] EXCEPT !.pc = "flagged", !.flag = f] \in Session
  BY <1>2 DEF Session
<1>4. sess' = [sess EXCEPT ![r] = [sess[r] EXCEPT !.pc = "flagged", !.flag = f]]
  BY <1>1 DEF TypeOK
<1>5. sess' \in [Reqs -> Session] /\ \A q \in Reqs \ {r} : sess'[q] = sess[q]
  BY <1>3, <1>4 DEF TypeOK
<1>6. sess'[r] = [sess[r] EXCEPT !.pc = "flagged", !.flag = f]
  BY <1>4 DEF TypeOK
<1>7. /\ sess'[r].op = sess[r].op /\ sess'[r].pc = "flagged" /\ sess'[r].flag = f
      /\ sess'[r].user = sess[r].user /\ sess'[r].verified = sess[r].verified
      /\ sess'[r].count = sess[r].count /\ sess'[r].job = sess[r].job
      /\ sess'[r].otp = sess[r].otp
  BY <1>2, <1>6 DEF Session
<1>8. /\ sess[r].op = "verify" /\ sess[r].pc = "read" /\ sess[r].job # 0
      /\ UNCHANGED <<users, verified, video_count, status, owner, vetted, nextJob, plates>>
      /\ UNCHANGED <<otp, otpUser, nextOtp, photos, pending, flag>>
  BY DEF VerifyFlag, At, db, codes
<1> QED BY <1>1, <1>5, <1>7, <1>8

\* What the two ends of a watched stage do: the entry keeps being one that has left
\* `wait`, and a finished one is left alone.
LEMMA StageEffect ==
  ASSUME TypeOK, NEW j \in JobIds, Render(j) \/ Watchdog(j)
  PROVE  /\ j \in Entries
         /\ status[j] \notin {"wait", "sent", "failed"}
         /\ \E s \in JOB_STATUSES \ {"wait"} : status' = [status EXCEPT ![j] = s]
         /\ UNCHANGED <<users, verified, video_count, owner, vetted, nextJob, plates>>
         /\ UNCHANGED <<codes, photos, pending, flag, sess>>
BY DEF Render, Watchdog, Entries, JOB_STATUSES

LEMMA PendingExcept ==
  ASSUME NEW f \in [Users -> 0 .. MaxJobs], NEW x
  PROVE  [f EXCEPT ![x] = 0] \in [Users -> 0 .. MaxJobs]
<1>1. 0 \in 0 .. MaxJobs
  BY EntryAssumption
<1> QED BY <1>1

\* Opening a session leaves a well-typed one.
LEMMA OpenTyped ==
  ASSUME TypeInv, NEW r \in Reqs, NEW op \in {"submit", "verify", "resend"},
         NEW u \in Users, NEW j \in 0 .. MaxJobs, NEW o \in 0 .. MaxOtps, NEW f \in BOOLEAN,
         op = "verify" => o \in OtpIds /\ u \in users,
         users' = users, Open(r, op, u, j, o, f)
  PROVE  sess' \in [Reqs -> Session] /\ SessionTyped'
BY DEF Open, TypeInv, TypeOK, SessionTyped, Session, SessionUser

\* Closing one does, too.
LEMMA CloseTyped ==
  ASSUME TypeInv, NEW r \in Reqs, users \subseteq users', Close(r)
  PROVE  sess' \in [Reqs -> Session] /\ SessionTyped'
<1>1. Idle \in Session
  BY EntryAssumption DEF Idle, Session
<1> QED BY <1>1 DEF Close, TypeInv, TypeOK, SessionTyped, SessionUser, Idle

\* And so does moving one on that has already read.
LEMMA GotoTyped ==
  ASSUME TypeInv, NEW r \in Reqs, NEW pc \in {"uploaded", "committed"},
         sess[r].op = "submit" => sess[r].pc # "read",
         users' = users, Goto(r, pc)
  PROVE  sess' \in [Reqs -> Session] /\ SessionTyped'
BY DEF Goto, TypeInv, TypeOK, SessionTyped, Session, SessionUser

\* Issuing a code keeps the code table's types.
LEMMA IssueTyped ==
  ASSUME TypeInv, NEW u \in Users, NEW spent, IssueOtp(u, spent)
  PROVE  /\ otp' \in [OtpIds -> {"none", "fresh", "cool", "expired", "used"}]
         /\ otpUser' \in [OtpIds -> Users \union {NoUser}]
         /\ nextOtp' \in 1 .. MaxOtps + 1
BY EntryAssumption DEF IssueOtp, OtpIds, TypeInv, TypeOK

\* A session that has read names a number, and one that flushed names a job.
LEMMA Named ==
  ASSUME TypeInv, NEW r \in Reqs
  PROVE  /\ sess[r].op \in {"submit", "verify", "resend"} => SessionUser(r) \in Users
         /\ sess[r].op = "submit" /\ sess[r].pc # "read" => sess[r].job \in JobIds
         /\ sess[r].op = "verify" => sess[r].otp \in OtpIds /\ SessionUser(r) \in users
         /\ sess[r].job \in 0 .. MaxJobs
         /\ sess[r].flag \in BOOLEAN
         /\ CountAfter(r) \in Nat
BY DEF TypeInv, TypeOK, SessionTyped, Session, CountAfter

LEMMA TypeInvInductive == TypeInv /\ [Next]_vars => TypeInv'
<1> SUFFICES ASSUME TypeInv, [Next]_vars
             PROVE  TypeOK' /\ SessionTyped'
  BY DEF TypeInv
<1> USE EntryAssumption DEF TypeOK
<1>t. TypeOK
  BY DEF TypeInv
<1>1. ASSUME NEW r \in Reqs, NEW u \in Users, SubmitRead(r, u)
      PROVE  TypeOK' /\ SessionTyped'
  <2>1. PICK j \in 0 .. MaxJobs, f \in FlagRead : Open(r, "submit", u, j, 0, f)
    BY <1>1, QueryTyped DEF SubmitRead
  <2>2. f \in BOOLEAN
    BY <1>t DEF FlagRead
  <2> QED BY <1>t, <1>1, <2>1, <2>2, OpenTyped DEF SubmitRead, db, codes
<1>2. ASSUME NEW r \in Reqs, SubmitReissue(r)
      PROVE  TypeOK' /\ SessionTyped'
  BY <1>t, <1>2, CloseTyped, IssueTyped, Named DEF SubmitReissue, At, db
<1>3. ASSUME NEW r \in Reqs, SubmitPending(r)
      PROVE  TypeOK' /\ SessionTyped'
  BY <1>t, <1>3, CloseTyped, Named DEF SubmitPending, db, codes
<1>4. ASSUME NEW r \in Reqs, SubmitFlush(r)
      PROVE  TypeOK' /\ SessionTyped'
  <2>1. nextJob \in JobIds /\ nextJob' \in 1 .. MaxJobs + 1
    BY <1>t, <1>4 DEF SubmitFlush, JobIds
  <2>a. [sess[r] EXCEPT !.pc = "flushed", !.job = nextJob] \in Session
    <3>1. sess[r] \in Session /\ nextJob \in 0 .. MaxJobs
      BY <1>t, <2>1 DEF JobIds
    <3> QED BY <3>1, SessionExcept
  <2>2. sess' \in [Reqs -> Session]
    <3>1. sess' = [sess EXCEPT ![r] = [sess[r] EXCEPT !.pc = "flushed", !.job = nextJob]]
      BY <1>t, <1>4 DEF SubmitFlush
    <3> QED BY <1>t, <2>a, <3>1
  <2>3. \A q \in Reqs \ {r} : sess'[q] = sess[q]
    BY <1>t, <1>4 DEF SubmitFlush
  <2>4. sess'[r].op = "submit" /\ sess'[r].user = sess[r].user /\ sess'[r].job = nextJob
    BY <1>t, <1>4 DEF SubmitFlush, At, Session
  <2>5. SessionTyped'
    BY <1>4, <2>1, <2>3, <2>4, Named DEF SubmitFlush, SessionTyped, SessionUser, At, TypeInv
  <2> QED BY <1>t, <1>4, <2>1, <2>2, <2>5 DEF SubmitFlush, codes
<1>5. ASSUME NEW r \in Reqs, SubmitUpload(r)
      PROVE  TypeOK' /\ SessionTyped'
  <2>1. sess' \in [Reqs -> Session] /\ SessionTyped'
    BY <1>5, GotoTyped DEF SubmitUpload, At, db
  <2> QED BY <1>t, <1>5, <2>1, Named DEF SubmitUpload, At, db, codes
<1>6. ASSUME NEW r \in Reqs, SubmitCommitWait(r)
      PROVE  TypeOK' /\ SessionTyped'
  BY <1>t, <1>6, CloseTyped, IssueTyped, Named
     DEF SubmitCommitWait, Staged, At, InsertJob, JOB_STATUSES
<1>7. ASSUME NEW r \in Reqs, SubmitCommitEntry(r)
      PROVE  TypeOK' /\ SessionTyped'
  <2>1. sess' \in [Reqs -> Session] /\ SessionTyped'
    BY <1>7, GotoTyped DEF SubmitCommitEntry, Staged, At
  <2>2. EntryStatus(SessionUser(r), FlagAtSubmit(r)) \in JOB_STATUSES
    BY <1>7, Named, EntryStatusListed DEF SubmitCommitEntry, Staged, At, FlagAtSubmit
  <2> QED BY <1>t, <1>7, <2>1, <2>2, Named DEF SubmitCommitEntry, Staged, At, InsertJob, codes
<1>8. ASSUME NEW r \in Reqs, NEW u \in Users, VerifyRead(r, u)
      PROVE  TypeOK' /\ SessionTyped'
  <2>1. PICK o \in OtpIds, j \in 0 .. MaxJobs : Open(r, "verify", u, j, o, FALSE)
    BY <1>8, QueryTyped DEF VerifyRead
  <2>2. o \in 0 .. MaxOtps
    BY DEF OtpIds
  <2> QED BY <1>t, <1>8, <2>1, <2>2, OpenTyped DEF VerifyRead, db, codes
<1>9. ASSUME NEW r \in Reqs, VerifyCommit(r)
      PROVE  TypeOK' /\ SessionTyped'
  <2>1. sess' \in [Reqs -> Session] /\ SessionTyped'
    BY <1>9, GotoTyped, CloseTyped DEF VerifyCommit, At
  <2>2. EntryStatus(SessionUser(r), sess[r].flag) \in JOB_STATUSES
    BY <1>9, Named, EntryStatusListed DEF VerifyCommit, At
  <2>3. SessionUser(r) \in users
    BY <1>9, Named DEF VerifyCommit, At
  <2> QED BY <1>t, <1>9, <2>1, <2>2, <2>3, Named DEF VerifyCommit, At
<1>10. ASSUME NEW r \in Reqs, CachePending(r)
       PROVE  TypeOK' /\ SessionTyped'
  BY <1>t, <1>10, CloseTyped, Named DEF CachePending, db, codes
<1>11. ASSUME NEW r \in Reqs, NEW u \in Users, ResendRead(r, u)
       PROVE  TypeOK' /\ SessionTyped'
  <2>1. Open(r, "resend", u, 0, 0, FALSE)
    BY <1>11 DEF ResendRead
  <2>2. 0 \in 0 .. MaxJobs /\ 0 \in 0 .. MaxOtps /\ FALSE \in BOOLEAN
    BY EntryAssumption
  <2> QED BY <1>t, <1>11, <2>1, <2>2, OpenTyped DEF ResendRead, db, codes
<1>12. ASSUME NEW r \in Reqs, ResendCommit(r)
       PROVE  TypeOK' /\ SessionTyped'
  BY <1>t, <1>12, CloseTyped, IssueTyped, Named DEF ResendCommit, At, db
<1>13. ASSUME NEW r \in Reqs, NEW j \in JobIds, NEW s \in JOB_STATUSES, SetStatus(r, j, s)
       PROVE  TypeOK' /\ SessionTyped'
  <2>a. Clearing(owner[j], j) \in Session
    BY <1>t DEF Session, Clearing, JobIds
  <2>1. sess' \in [Reqs -> Session]
    BY <1>t, <1>13, <2>a DEF SetStatus
  <2>2. sess'[r].op \in {"none", "admin"} \/ sess' = sess
    BY <1>t, <1>13 DEF SetStatus, Clearing
  <2>3. \A q \in Reqs \ {r} : sess'[q] = sess[q]
    BY <1>t, <1>13 DEF SetStatus
  <2>4. SessionTyped'
    BY <1>13, <2>2, <2>3 DEF SetStatus, SessionTyped, SessionUser, TypeInv
  <2> QED BY <1>t, <1>13, <2>1, <2>4 DEF SetStatus, codes
<1>14. ASSUME NEW r \in Reqs, ClearPending(r)
       PROVE  TypeOK' /\ SessionTyped'
  <2>1. pending' \in [Users -> 0 .. MaxJobs]
    BY <1>t, <1>14, PendingExcept DEF ClearPending
  <2> QED BY <1>t, <1>14, <2>1, CloseTyped DEF ClearPending, db, codes
<1>15. ASSUME NEW r \in Reqs, Fail(r)
       PROVE  TypeOK' /\ SessionTyped'
  BY <1>t, <1>15, CloseTyped DEF Fail, db, codes
<1>16. ASSUME NEW j \in JobIds, Render(j) \/ Watchdog(j)
       PROVE  TypeOK' /\ SessionTyped'
  BY <1>t, <1>16, StageEffect DEF codes, JOB_STATUSES, TypeInv, SessionTyped, SessionUser
<1>17. ASSUME NEW o \in OtpIds, OtpAges(o)
       PROVE  TypeOK' /\ SessionTyped'
  BY <1>t, <1>17 DEF OtpAges, db, TypeInv, SessionTyped, SessionUser
<1>18. ASSUME \/ \E u \in Users : PendingExpires(u)
              \/ \E v \in FlagValues : SetFlag(v)
              \/ UNCHANGED vars
       PROVE  TypeOK' /\ SessionTyped'
  BY <1>t, <1>18 DEF PendingExpires, SetFlag, vars, db, codes, TypeInv, SessionTyped, SessionUser
<1>19. \A s \in AdminStatuses \union {"sent"} : s \in JOB_STATUSES
  BY DEF JOB_STATUSES
<1>20. ASSUME NEW r \in Reqs, VerifyFlag(r)
       PROVE  TypeOK' /\ SessionTyped'
  <2>1. SessionTyped'
    BY <1>t, <1>20, FlagEffect DEF TypeInv, SessionTyped, SessionUser
  <2> QED BY <1>t, <1>20, <2>1, FlagEffect
<1> QED
  BY <1>1, <1>2, <1>3, <1>4, <1>5, <1>6, <1>7, <1>8, <1>9, <1>10, <1>11, <1>12, <1>13,
     <1>14, <1>15, <1>16, <1>17, <1>18, <1>19, <1>20
     DEF Next, Submit, Verify, Resend, Panel, AdminUpdate, SendVideo

\* Each handler leaves every row, key and session within its type, and every
\* status it writes is one the ENUM has.
THEOREM TypeCorrect == Spec => []TypeOK
<1>1. Init => TypeInv
  BY EntryAssumption
     DEF Init, TypeInv, TypeOK, SessionTyped, JobIds, OtpIds, Idle, Session, SessionUser
<1> QED BY <1>1, TypeInvInductive, PTL DEF Spec, TypeInv

-----------------------------------------------------------------------------
Inv == TypeInv /\ EntryInv

\* The parts of the state that EntryInv speaks of and that a step which only
\* opens, closes or finishes a session leaves alone.
RowsKept == UNCHANGED <<status, owner, nextJob, plates, photos>>

\* A step that keeps the rows and drops or closes sessions keeps EntryInv.
LEMMA ClosingKeeps ==
  ASSUME Inv, RowsKept, SessionTyped',
         \A q \in Reqs : sess'[q] = sess[q] \/ sess'[q].op \in {"none", "admin"},
         PendingNamesOwnEntry'
  PROVE  EntryInv'
<1>1. IdsInv'
  BY DEF Inv, EntryInv, IdsInv, RowsKept, Allocated, LocksUser, SessionUser
<1>2. RowsInv'
  BY DEF Inv, EntryInv, RowsInv, RowsKept, Allocated, LocksUser, SessionUser, JobsOf, Entries
<1>3. PlatesInv'
  BY DEF Inv, EntryInv, PlatesInv, RowsKept, Staged, At, OnePlatePerEntry, Entries
<1> QED BY <1>1, <1>2, <1>3 DEF EntryInv

\* A step that keeps the rows and opens one session on a committed job, or none.
LEMMA OpeningKeeps ==
  ASSUME Inv, RowsKept, SessionTyped', pending' = pending,
         NEW r \in Reqs, NEW op \in {"submit", "verify", "resend"}, NEW u \in Users,
         NEW j, NEW o, NEW f, j # 0 => j \in JobsOf(u), Open(r, op, u, j, o, f)
  PROVE  EntryInv'
<1>1. /\ \A q \in Reqs \ {r} : sess'[q] = sess[q]
      /\ sess'[r].op = op /\ sess'[r].pc = "read" /\ sess'[r].user = u /\ sess'[r].job = j
  BY DEF Open, Inv, TypeInv, TypeOK
<1>2. IdsInv'
  BY <1>1 DEF Inv, EntryInv, IdsInv, RowsKept, Allocated, LocksUser, SessionUser
<1>3. RowsInv'
  BY <1>1 DEF Inv, EntryInv, RowsInv, RowsKept, Allocated, LocksUser, SessionUser, JobsOf,
              Entries, PendingNamesOwnEntry
<1>4. PlatesInv'
  BY <1>1 DEF Inv, EntryInv, PlatesInv, RowsKept, Staged, At, OnePlatePerEntry, Entries
<1> QED BY <1>2, <1>3, <1>4 DEF EntryInv

\* A step that gives committed jobs another status keeps it, too.
LEMMA RestatusKeeps ==
  ASSUME Inv, SessionTyped', UNCHANGED <<owner, nextJob, plates, photos, pending>>,
         NEW j \in Entries, NEW s \in JOB_STATUSES,
         status' = [status EXCEPT ![j] = s],
         \A q \in Reqs : \/ sess'[q] = sess[q]
                        \/ sess'[q].op \in {"none", "admin"}
                        \/ /\ sess[q].op = "verify"
                           /\ sess'[q].op = "verify" /\ sess'[q].user = sess[q].user
                           /\ sess'[q].job = sess[q].job
  PROVE  EntryInv'
<1>1. /\ \A k \in JobIds : status'[k] = "none" <=> status[k] = "none"
      /\ Entries' = Entries
      /\ \A u : JobsOf(u)' = JobsOf(u)
  BY DEF Inv, TypeInv, TypeOK, Entries, JobsOf, JOB_STATUSES
<1>2. IdsInv'
  BY <1>1 DEF Inv, TypeInv, EntryInv, IdsInv, Allocated, LocksUser, SessionUser, SessionTyped
<1>3. RowsInv'
  BY <1>1 DEF Inv, EntryInv, RowsInv, Allocated, LocksUser, SessionUser, PendingNamesOwnEntry
<1>4. PlatesInv'
  BY <1>1 DEF Inv, EntryInv, PlatesInv, Staged, At, OnePlatePerEntry
<1> QED BY <1>2, <1>3, <1>4 DEF EntryInv

\* The set of ids is finite, so plates can be compared with it.
LEMMA EntriesFinite == IsFiniteSet(Entries) /\ \A u \in Users : IsFiniteSet(Promoted[u])
<1>1. IsFiniteSet(JobIds)
  BY FS_Interval, EntryAssumption DEF JobIds
<1>2. Entries \subseteq JobIds /\ \A u \in Users : Promoted[u] \subseteq JobIds
  BY DEF Entries, Promoted, JobsOf
<1> QED BY <1>1, <1>2, FS_Subset

\* Committing a staged job adds exactly one entry, with its photo and plate.
LEMMA InsertKeeps ==
  ASSUME Inv, SessionTyped', NEW r \in Reqs, Staged(r),
         NEW s \in JOB_STATUSES, InsertJob(r, s),
         UNCHANGED <<nextJob, photos, pending>>,
         \/ Close(r)
         \/ Goto(r, "committed")
  PROVE  EntryInv'
<1> DEFINE j == sess[r].job
<1>1. /\ j \in JobIds /\ SessionUser(r) \in Users
      /\ Allocated(r) /\ status[j] = "none" /\ j < nextJob /\ j \in photos
  BY Named, EntryAssumption
     DEF Inv, EntryInv, IdsInv, PlatesInv, Allocated, LocksUser, SessionUser, Staged, At
<1>2. /\ status' = [status EXCEPT ![j] = s] /\ s # "none"
      /\ owner' = [owner EXCEPT ![j] = SessionUser(r)]
      /\ plates' = plates + 1
  BY DEF InsertJob, JOB_STATUSES
<1>3. /\ status'[j] = s /\ owner'[j] = SessionUser(r)
      /\ \A k \in JobIds \ {j} : status'[k] = status[k] /\ owner'[k] = owner[k]
  BY <1>1, <1>2 DEF Inv, TypeInv, TypeOK
<1>4. /\ Entries' = Entries \union {j} /\ j \notin Entries
      /\ \A u : JobsOf(u) \subseteq JobsOf(u)'
      /\ j \in {k \in JobIds : owner'[k] = SessionUser(r) /\ status'[k] # "none"}
  <2>1. status'[j] # "none" /\ owner'[j] = sess[r].user
    BY <1>2, <1>3 DEF SessionUser
  <2>2. Entries' = Entries \union {j} /\ j \notin Entries
    BY <1>1, <1>3, <2>1 DEF Entries
  <2>3. \A u : JobsOf(u) \subseteq JobsOf(u)'
    BY <1>1, <1>3 DEF JobsOf
  <2> QED BY <1>1, <1>3, <2>1, <2>2, <2>3
<1>5. /\ \A q \in Reqs \ {r} : sess'[q] = sess[q]
      /\ \/ sess'[r].op = "none" /\ sess'[r].pc = "idle"
         \/ /\ sess'[r].op = "submit" /\ sess'[r].pc = "committed"
            /\ sess'[r].user = SessionUser(r) /\ sess'[r].job = j
  BY DEF Close, Goto, Idle, Staged, At, SessionUser, Inv, TypeInv, TypeOK, Session
<1>6. IdsInv'
  <2>1. \A k \in JobIds : k >= nextJob' => status'[k] = "none"
    <3>1. \A k \in JobIds : k >= nextJob => status[k] = "none"
      BY DEF Inv, EntryInv, IdsInv
    <3>2. nextJob' = nextJob /\ nextJob \in Nat /\ j \in Nat /\ ~(j >= nextJob)
      BY <1>1 DEF Inv, TypeInv, TypeOK, JobIds
    <3> QED BY <1>3, <3>1, <3>2
  <2>2. \A q \in Reqs : Allocated(q)' => q # r /\ Allocated(q) /\ sess'[q] = sess[q]
    BY <1>5 DEF Allocated, LocksUser, SessionUser
  <2>3. \A q \in Reqs : Allocated(q) => sess[q].job \in JobIds
    BY Named DEF Inv, Allocated, LocksUser
  <2>4. \A q \in Reqs : Allocated(q)' =>
          sess'[q].job < nextJob' /\ status'[sess'[q].job] = "none"
    BY <1>1, <1>3, <2>2, <2>3 DEF Inv, EntryInv, IdsInv
  <2> QED BY <2>1, <2>2, <2>4 DEF Inv, EntryInv, IdsInv
<1>7. RowsInv'
  <2>1. \A k \in Entries' : owner'[k] \in Users
    BY <1>1, <1>3, <1>4 DEF Inv, EntryInv, RowsInv, Entries
  <2>2. \A q \in Reqs : sess'[q].op \in {"submit", "verify"} /\ ~Allocated(q)' /\ sess'[q].job # 0
          => sess'[q].job \in {k \in JobIds : owner'[k] = sess'[q].user /\ status'[k] # "none"}
    <3>1. \A q \in Reqs \ {r} : Allocated(q)' <=> Allocated(q)
      BY <1>5 DEF Allocated, LocksUser, SessionUser
    <3>2. \A q \in Reqs \ {r} : sess[q].op \in {"submit", "verify"} /\ ~Allocated(q) /\ sess[q].job # 0
            => sess[q].job \in JobsOf(sess[q].user)
      BY DEF Inv, EntryInv, RowsInv, SessionUser
    <3>3. \A q \in Reqs \ {r} : sess[q].job \in JobsOf(sess[q].user)
            => sess[q].job \in {k \in JobIds : owner'[k] = sess[q].user /\ status'[k] # "none"}
      BY <1>1, <1>3 DEF JobsOf
    <3> QED BY <1>4, <1>5, <3>1, <3>2, <3>3
  <2>3. PendingNamesOwnEntry'
    BY <1>4 DEF Inv, EntryInv, RowsInv, PendingNamesOwnEntry
  <2> QED BY <2>1, <2>2, <2>3 DEF RowsInv, SessionUser, JobsOf
<1>8. PlatesInv'
  <2>1. \A q \in Reqs : Staged(q)' => sess'[q].job \in photos'
    BY <1>5 DEF Inv, EntryInv, PlatesInv, Staged, At
  <2>2. Cardinality(Entries') = Cardinality(Entries) + 1
    BY <1>4, EntriesFinite, FS_AddElement
  <2>3. Entries \subseteq photos /\ plates = Cardinality(Entries)
    BY DEF Inv, EntryInv, PlatesInv, OnePlatePerEntry
  <2>4. Entries' \subseteq photos' /\ plates' = Cardinality(Entries')
    BY <1>1, <1>2, <1>4, <2>2, <2>3
  <2> QED BY <2>1, <2>4 DEF PlatesInv, OnePlatePerEntry
<1> QED BY <1>6, <1>7, <1>8 DEF EntryInv

LEMMA EntryInvInductive == Inv /\ [Next]_vars => EntryInv'
<1> SUFFICES ASSUME Inv, [Next]_vars
             PROVE  EntryInv'
  OBVIOUS
<1>t. TypeInv' /\ SessionTyped'
  BY TypeInvInductive DEF Inv, TypeInv
<1>i. PendingNamesOwnEntry /\ TypeOK
  BY DEF Inv, TypeInv, EntryInv, RowsInv
<1>c. ASSUME NEW r \in Reqs, Close(r)
      PROVE  \A q \in Reqs : sess'[q] = sess[q] \/ sess'[q].op \in {"none", "admin"}
  BY <1>c, <1>i DEF Close, Idle, TypeOK
<1>p. RowsKept /\ pending' = pending => PendingNamesOwnEntry'
  BY <1>i DEF RowsKept, PendingNamesOwnEntry, JobsOf
<1>1. ASSUME NEW r \in Reqs, NEW u \in Users, SubmitRead(r, u)
      PROVE  EntryInv'
  <2>1. PICK j \in 0 .. MaxJobs, f \in FlagRead :
          (j # 0 => j \in JobsOf(u)) /\ Open(r, "submit", u, j, 0, f)
    BY <1>1, QueryTyped DEF SubmitRead
  <2> QED BY <1>1, <2>1, <1>t, OpeningKeeps DEF SubmitRead, db, RowsKept
<1>2. ASSUME NEW r \in Reqs, SubmitReissue(r) \/ ResendCommit(r) \/ Fail(r)
      PROVE  EntryInv'
  <2>1. Close(r) /\ RowsKept /\ pending' = pending
    BY <1>2 DEF SubmitReissue, ResendCommit, Fail, db, RowsKept
  <2> QED BY <2>1, <1>t, <1>c, <1>p, ClosingKeeps
<1>3. ASSUME NEW r \in Reqs, SubmitPending(r)
      PROVE  EntryInv'
  <2>1. Close(r) /\ RowsKept
    BY <1>3 DEF SubmitPending, db, RowsKept
  <2>2. SessionUser(r) \in Users /\ (sess[r].job # 0 => sess[r].job \in JobsOf(SessionUser(r)))
    BY <1>3, Named DEF SubmitPending, At, Inv, EntryInv, RowsInv, Allocated, LocksUser
  <2>3. PendingNamesOwnEntry'
    BY <1>3, <1>i, <2>1, <2>2 DEF SubmitPending, PendingNamesOwnEntry, RowsKept, JobsOf, TypeOK
  <2> QED BY <2>1, <2>3, <1>t, <1>c, ClosingKeeps
<1>4. ASSUME NEW r \in Reqs, SubmitFlush(r)
      PROVE  EntryInv'
  <2>1. /\ nextJob \in JobIds /\ nextJob' = nextJob + 1
        /\ UNCHANGED <<status, owner, plates, photos, pending>>
    BY <1>4, <1>i DEF SubmitFlush, JobIds, TypeOK
  <2>2. /\ \A q \in Reqs \ {r} : sess'[q] = sess[q]
        /\ sess'[r].op = "submit" /\ sess'[r].pc = "flushed" /\ sess'[r].job = nextJob
    BY <1>4, <1>i DEF SubmitFlush, At, TypeOK, Session
  <2>3. IdsInv'
    <3>1. \A q \in Reqs \ {r} : Allocated(q)' => Allocated(q) /\ sess[q].job \in JobIds
      BY <2>2, Named DEF Inv, Allocated, LocksUser, SessionUser
    <3> QED BY <2>1, <2>2, <3>1 DEF Inv, EntryInv, IdsInv, JobIds
  <2>4. RowsInv'
    BY <2>1, <2>2 DEF Inv, EntryInv, RowsInv, Allocated, LocksUser, SessionUser, JobsOf, Entries,
                      PendingNamesOwnEntry
  <2>5. PlatesInv'
    BY <2>1, <2>2 DEF Inv, EntryInv, PlatesInv, Staged, At, OnePlatePerEntry, Entries
  <2> QED BY <1>t, <2>3, <2>4, <2>5 DEF EntryInv
<1>5. ASSUME NEW r \in Reqs, SubmitUpload(r)
      PROVE  EntryInv'
  <2>1. /\ UNCHANGED <<status, owner, plates, nextJob, pending>>
        /\ photos' = photos \union {sess[r].job} /\ sess[r].job \in JobIds
    BY <1>5, Named DEF SubmitUpload, db, At, Inv
  <2>2. /\ \A q \in Reqs \ {r} : sess'[q] = sess[q]
        /\ sess[r].op = "submit" /\ sess[r].pc = "flushed"
        /\ sess'[r].op = "submit" /\ sess'[r].pc = "uploaded" /\ sess'[r].job = sess[r].job
        /\ sess'[r].user = sess[r].user
    BY <1>5, <1>i DEF SubmitUpload, Goto, At, TypeOK, Session
  <2>3. IdsInv'
    BY <2>1, <2>2 DEF Inv, EntryInv, IdsInv, Allocated, LocksUser, SessionUser
  <2>4. RowsInv'
    BY <2>1, <2>2 DEF Inv, EntryInv, RowsInv, Allocated, LocksUser, SessionUser, JobsOf, Entries,
                      PendingNamesOwnEntry
  <2>5. PlatesInv'
    BY <2>1, <2>2 DEF Inv, EntryInv, PlatesInv, Staged, At, OnePlatePerEntry, Entries
  <2> QED BY <1>t, <2>3, <2>4, <2>5 DEF EntryInv
<1>6. ASSUME NEW r \in Reqs, SubmitCommitWait(r)
      PROVE  EntryInv'
  BY <1>6, <1>t, InsertKeeps DEF SubmitCommitWait, JOB_STATUSES
<1>7. ASSUME NEW r \in Reqs, SubmitCommitEntry(r)
      PROVE  EntryInv'
  <2>1. EntryStatus(SessionUser(r), FlagAtSubmit(r)) \in JOB_STATUSES
    BY <1>7, Named, EntryStatusListed DEF SubmitCommitEntry, Staged, At, FlagAtSubmit, Inv
  <2> QED BY <1>7, <1>t, <2>1, InsertKeeps DEF SubmitCommitEntry
<1>8. ASSUME NEW r \in Reqs, NEW u \in Users, VerifyRead(r, u)
      PROVE  EntryInv'
  <2>1. PICK o \in OtpIds, j \in 0 .. MaxJobs :
          (j # 0 => j \in JobsOf(u)) /\ Open(r, "verify", u, j, o, FALSE)
    BY <1>8, QueryTyped DEF VerifyRead
  <2> QED BY <1>8, <2>1, <1>t, OpeningKeeps DEF VerifyRead, db, RowsKept
<1>9. ASSUME NEW r \in Reqs, VerifyCommit(r)
      PROVE  EntryInv'
  <2>1. CASE sess[r].job = 0
    <3>1. Close(r) /\ RowsKept /\ pending' = pending
      BY <1>9, <2>1 DEF VerifyCommit, RowsKept
    <3> QED BY <3>1, <1>t, <1>c, <1>p, ClosingKeeps
  <2>2. CASE sess[r].job # 0
    <3> DEFINE s == EntryStatus(SessionUser(r), sess[r].flag)
    <3>1. s \in JOB_STATUSES
      BY <1>9, Named, EntryStatusListed DEF VerifyCommit, At, Inv
    <3>2. sess[r].job \in Entries
      BY <1>9, <2>2 DEF VerifyCommit, At, Inv, EntryInv, RowsInv, Allocated, LocksUser, JobsOf,
                        Entries
    <3>3. /\ status' = [status EXCEPT ![sess[r].job] = s] /\ Goto(r, "committed")
          /\ UNCHANGED <<owner, nextJob, plates, photos, pending>> /\ sess[r].op = "verify"
      BY <1>9, <2>2 DEF VerifyCommit, At
    <3>4. \A q \in Reqs : \/ sess'[q] = sess[q]
                         \/ /\ sess[q].op = "verify" /\ sess'[q].op = "verify"
                            /\ sess'[q].user = sess[q].user /\ sess'[q].job = sess[q].job
      BY <1>i, <3>3 DEF Goto, TypeOK, Session
    <3> HIDE DEF s
    <3> QED BY <1>t, <3>1, <3>2, <3>3, <3>4, RestatusKeeps
  <2> QED BY <2>1, <2>2
<1>10. ASSUME NEW r \in Reqs, CachePending(r)
       PROVE  EntryInv'
  <2>1. Close(r) /\ RowsKept
    BY <1>10 DEF CachePending, db, RowsKept
  <2>2. sess[r].job # 0 => sess[r].job \in JobsOf(SessionUser(r))
    BY <1>10 DEF CachePending, Inv, EntryInv, RowsInv, Allocated, LocksUser
  <2>3. PendingNamesOwnEntry'
    BY <1>10, <1>i, <2>1, <2>2 DEF CachePending, PendingNamesOwnEntry, RowsKept, JobsOf, TypeOK
  <2> QED BY <2>1, <2>3, <1>t, <1>c, ClosingKeeps
<1>11. ASSUME NEW r \in Reqs, NEW u \in Users, ResendRead(r, u)
       PROVE  EntryInv'
  BY <1>11, <1>t, OpeningKeeps DEF ResendRead, db, RowsKept
<1>12. ASSUME NEW r \in Reqs, NEW j \in Entries, NEW s \in JOB_STATUSES, SetStatus(r, j, s)
       PROVE  EntryInv'
  <2>1. \A q \in Reqs : sess'[q] = sess[q] \/ sess'[q].op = "admin"
    BY <1>12, <1>i DEF SetStatus, Clearing, TypeOK
  <2> QED BY <1>12, <1>t, <2>1, RestatusKeeps DEF SetStatus
<1>13. ASSUME NEW j \in JobIds, Render(j) \/ Watchdog(j)
       PROVE  EntryInv'
  <2>1. PICK s \in JOB_STATUSES : status' = [status EXCEPT ![j] = s]
    BY <1>13, <1>i, StageEffect
  <2>2. j \in Entries /\ UNCHANGED <<owner, nextJob, plates, photos, pending, sess>>
    BY <1>13, <1>i, StageEffect
  <2> QED BY <1>t, <2>1, <2>2, RestatusKeeps
<1>14. ASSUME \/ \E r \in Reqs : ClearPending(r)
              \/ \E u \in Users : PendingExpires(u)
              \/ \E o \in OtpIds : OtpAges(o)
              \/ \E v \in FlagValues : SetFlag(v)
              \/ UNCHANGED vars
       PROVE  EntryInv'
  <2>1. RowsKept
    BY <1>14 DEF ClearPending, PendingExpires, OtpAges, SetFlag, vars, db, RowsKept
  <2>2. \A q \in Reqs : sess'[q] = sess[q] \/ sess'[q].op \in {"none", "admin"}
    BY <1>14, <1>c DEF ClearPending, PendingExpires, OtpAges, SetFlag, vars
  <2>3. \A u \in Users : pending'[u] \in {0, pending[u]}
    BY <1>14, <1>i DEF ClearPending, PendingExpires, OtpAges, SetFlag, vars, TypeOK
  <2>4. PendingNamesOwnEntry'
    BY <1>i, <2>1, <2>3 DEF PendingNamesOwnEntry, RowsKept, JobsOf
  <2> QED BY <1>t, <2>1, <2>2, <2>4, ClosingKeeps
<1>15. \A s \in AdminStatuses \union {"sent"} : s \in JOB_STATUSES
  BY EntryAssumption DEF JOB_STATUSES
<1>16. \A j \in JobIds : status[j] # "none" <=> j \in Entries
  BY DEF Entries
<1>17. ASSUME NEW r \in Reqs, VerifyFlag(r)
       PROVE  EntryInv'
  <2>1. UNCHANGED <<status, owner, nextJob, plates, photos, pending>>
    BY <1>17, <1>i, FlagEffect
  <2>2. \A q \in Reqs : \/ sess'[q] = sess[q]
                       \/ /\ sess[q].op = "verify" /\ sess'[q].op = "verify"
                          /\ sess'[q].user = sess[q].user /\ sess'[q].job = sess[q].job
    BY <1>17, <1>i, FlagEffect
  <2>3. IdsInv'
    BY <2>1, <2>2 DEF Inv, TypeInv, EntryInv, IdsInv, Allocated, LocksUser, SessionUser
  <2>4. RowsInv'
    BY <2>1, <2>2 DEF Inv, EntryInv, RowsInv, Allocated, LocksUser, SessionUser, JobsOf, Entries,
                      PendingNamesOwnEntry
  <2>5. PlatesInv'
    BY <2>1, <2>2 DEF Inv, EntryInv, PlatesInv, Staged, At, OnePlatePerEntry, Entries
  <2> QED BY <1>t, <2>3, <2>4, <2>5 DEF EntryInv
<1> QED
  BY <1>1, <1>2, <1>3, <1>4, <1>5, <1>6, <1>7, <1>8, <1>9, <1>10, <1>11, <1>12, <1>13,
     <1>14, <1>15, <1>16, <1>17
     DEF Next, Submit, Verify, Resend, Panel, AdminUpdate, SendVideo

LEMMA InvInit == Init => Inv
<1> SUFFICES ASSUME Init PROVE Inv
  OBVIOUS
<1>1. TypeInv
  BY EntryAssumption
     DEF Init, TypeInv, TypeOK, SessionTyped, JobIds, OtpIds, Idle, Session, SessionUser
<1>2. Entries = {} /\ Cardinality({}) = 0
  BY FS_EmptySet DEF Init, Entries
<1>3. \A r \in Reqs : sess[r].op = "none"
  BY DEF Init, Idle
<1>4. IdsInv
  BY <1>3 DEF Init, IdsInv, Allocated, LocksUser
<1>5. RowsInv
  BY <1>2, <1>3 DEF Init, RowsInv, PendingNamesOwnEntry
<1>6. PlatesInv
  BY <1>2, <1>3 DEF Init, PlatesInv, Staged, At, OnePlatePerEntry
<1> QED BY <1>1, <1>4, <1>5, <1>6 DEF Inv, EntryInv, TypeInv

LEMMA InvHolds == Spec => []Inv
<1>1. Inv /\ [Next]_vars => Inv'
  BY TypeInvInductive, EntryInvInductive DEF Inv
<1> QED BY InvInit, <1>1, PTL DEF Spec

\* Allocated ids belong to one session and to no entry yet, a session's photo is
\* stored before it commits, and what a session or the cache knows of is a
\* committed entry of that very number.
THEOREM SessionsHoldTheirOwn == Spec => []EntryInv
<1>1. Inv => EntryInv
  BY DEF Inv
<1> QED BY <1>1, InvHolds, PTL

\* share_service: whatever fails, overlaps or is retried, one plate per jobs
\* row, and every jobs row has its photo in the bucket.
THEOREM PlatesMatchEntries == Spec => []OnePlatePerEntry
BY InvHolds, PTL DEF Inv, EntryInv, PlatesInv

\* The cached id is always a committed job of the user it is cached for.
THEOREM PendingIsOwn == Spec => []PendingNamesOwnEntry
BY InvHolds, PTL DEF Inv, EntryInv, RowsInv

-----------------------------------------------------------------------------
(* The entry path implements the ledger *)

\* A job that has a row keeps it when its status changes.
LEMMA RestatusEntries ==
  ASSUME TypeOK, NEW j \in Entries, NEW s \in JOB_STATUSES,
         status' = [status EXCEPT ![j] = s]
  PROVE  Entries' = Entries
BY DEF TypeOK, Entries, JOB_STATUSES

\* The row a commit inserts is a new entry, whose photo is in the bucket.
LEMMA InsertEnters ==
  ASSUME Inv, NEW r \in Reqs, Staged(r), NEW s \in JOB_STATUSES, InsertJob(r, s),
         photos' = photos
  PROVE  \E i \in JobIds : Ledger!Enter(i)
<1> DEFINE j == sess[r].job
<1>1. j \in JobIds /\ Allocated(r)
  BY Named DEF Inv, Allocated, LocksUser, SessionUser, Staged, At
<1>2. status[j] = "none" /\ j \in photos
  BY <1>1 DEF Inv, EntryInv, IdsInv, PlatesInv
<1>3. status' = [status EXCEPT ![j] = s] /\ plates' = plates + 1
  BY DEF InsertJob
<1>4. Entries' = Entries \union {j} /\ j \notin Entries
  BY <1>1, <1>2, <1>3 DEF Inv, TypeInv, TypeOK, Entries, JOB_STATUSES
<1> QED BY <1>1, <1>2, <1>3, <1>4 DEF Ledger!Enter

LEMMA LedgerStep == Inv /\ [Next]_vars => [Ledger!LedgerNext]_<<photos, Entries, plates>>
<1> SUFFICES ASSUME Inv, [Next]_vars
             PROVE  [Ledger!LedgerNext]_<<photos, Entries, plates>>
  OBVIOUS
<1> USE DEF Ledger!LedgerNext
<1>t. TypeOK
  BY DEF Inv, TypeInv
<1>1. CASE \E r \in Reqs : SubmitUpload(r)
  <2>1. PICK r \in Reqs : SubmitUpload(r)
    BY <1>1
  <2>2. sess[r].job \in JobIds
    BY <2>1, Named DEF Inv, SubmitUpload, At
  <2>3. Ledger!StorePhoto(sess[r].job)
    BY <2>1 DEF SubmitUpload, db, Entries, Ledger!StorePhoto
  <2> QED BY <2>2, <2>3
<1>2. CASE \E r \in Reqs : SubmitCommitWait(r)
  <2>1. PICK r \in Reqs : SubmitCommitWait(r)
    BY <1>2
  <2> QED BY <2>1, InsertEnters DEF SubmitCommitWait, JOB_STATUSES
<1>3. CASE \E r \in Reqs : SubmitCommitEntry(r)
  <2>1. PICK r \in Reqs : SubmitCommitEntry(r)
    BY <1>3
  <2>2. EntryStatus(SessionUser(r), FlagAtSubmit(r)) \in JOB_STATUSES
    BY <2>1, Named, EntryStatusListed DEF SubmitCommitEntry, Staged, At, FlagAtSubmit, Inv
  <2> QED BY <2>1, <2>2, InsertEnters DEF SubmitCommitEntry
<1>4. CASE \E r \in Reqs : VerifyCommit(r)
  <2>1. PICK r \in Reqs : VerifyCommit(r)
    BY <1>4
  <2>2. CASE sess[r].job = 0
    BY <2>1, <2>2 DEF VerifyCommit, Entries
  <2>3. CASE sess[r].job # 0
    <3>1. EntryStatus(SessionUser(r), sess[r].flag) \in JOB_STATUSES
      BY <2>1, Named, EntryStatusListed DEF VerifyCommit, At, Inv
    <3>2. sess[r].job \in Entries
      BY <2>1, <2>3 DEF VerifyCommit, At, Inv, EntryInv, RowsInv, Allocated, LocksUser, JobsOf,
                        Entries
    <3> QED BY <1>t, <2>1, <2>3, <3>1, <3>2, RestatusEntries DEF VerifyCommit
  <2> QED BY <2>2, <2>3
<1>5. CASE \E r \in Reqs, j \in Entries, x \in JOB_STATUSES : SetStatus(r, j, x)
  BY <1>t, <1>5, RestatusEntries DEF SetStatus
<1>6. CASE \E j \in JobIds : Render(j) \/ Watchdog(j)
  <2>1. PICK j \in JobIds : Render(j) \/ Watchdog(j)
    BY <1>6
  <2>2. PICK x \in JOB_STATUSES : status' = [status EXCEPT ![j] = x]
    BY <1>t, <2>1, StageEffect
  <2>3. j \in Entries /\ UNCHANGED <<photos, plates>>
    BY <1>t, <2>1, StageEffect
  <2> QED BY <1>t, <2>2, <2>3, RestatusEntries
<1>7. CASE \/ \E r \in Reqs, u \in Users : SubmitRead(r, u) \/ VerifyRead(r, u) \/ ResendRead(r, u)
           \/ \E r \in Reqs : \/ SubmitReissue(r) \/ SubmitPending(r) \/ SubmitFlush(r)
                              \/ VerifyFlag(r) \/ ResendCommit(r) \/ ClearPending(r) \/ CachePending(r) \/ Fail(r)
           \/ \E o \in OtpIds : OtpAges(o)
           \/ \E u \in Users : PendingExpires(u)
           \/ \E v \in FlagValues : SetFlag(v)
           \/ UNCHANGED vars
  <2>1. UNCHANGED <<photos, status, plates>>
    BY <1>7 DEF SubmitRead, VerifyRead, ResendRead, SubmitReissue, SubmitPending, SubmitFlush,
                VerifyFlag, ResendCommit, ClearPending, CachePending, Fail, OtpAges, PendingExpires, SetFlag,
                vars, db
  <2> QED BY <2>1 DEF Entries
<1>8. \A x \in AdminStatuses \union {"sent"} : x \in JOB_STATUSES
  BY EntryAssumption DEF JOB_STATUSES
<1>9. \A j \in JobIds : status[j] # "none" <=> j \in Entries
  BY DEF Entries
<1> QED
  BY <1>1, <1>2, <1>3, <1>4, <1>5, <1>6, <1>7, <1>8, <1>9
     DEF Next, Submit, Verify, Resend, Panel, AdminUpdate, SendVideo

\* The requests, the panel and the renderer together do nothing to photos,
\* entries and plates that the ledger does not allow: an entry and its plate
\* appear in one step, after the photo, and neither is ever taken back.
THEOREM LedgerImplemented == Spec => LedgerSpec
<1>1. Init => Ledger!LedgerInit
  BY DEF Init, Entries, Ledger!LedgerInit
<1> QED
  BY <1>1, InvHolds, LedgerStep, PTL DEF Spec, LedgerSpec, Ledger!LedgerSpec, Ledger!ledgerVars

-----------------------------------------------------------------------------
(* users.video_count never exceeds the entries there are *)

\* Every update of the column, and every session about to make one, counts
\* entries that exist, and entries that have left `wait` do not return to it
\* unless the panel is told to.
LEMMA CountKept ==
  ASSUME Inv, CountInv, TypeInv', \A u \in Users : Promoted[u] \subseteq Promoted'[u],
         \A u \in Users : \/ video_count'[u] = video_count[u]
                          \/ video_count'[u] <= Cardinality(Promoted'[u]),
         \A q \in Reqs :
           \/ sess'[q].op \notin {"submit", "verify"} \/ sess'[q].pc = "committed"
           \/ /\ sess'[q].op = sess[q].op /\ sess[q].pc # "committed"
              /\ sess'[q].user = sess[q].user /\ sess'[q].count = sess[q].count
              /\ sess'[q].op = "verify" => sess'[q].job = sess[q].job
           \/ /\ sess'[q].user \in Users /\ sess'[q].count = video_count[sess'[q].user]
              /\ sess'[q].op = "verify" /\ sess'[q].job # 0 =>
                   sess'[q].job \in JobIds \ Promoted[sess'[q].user]
  PROVE  CountInv'
<1> DEFINE size(u)     == Cardinality(Promoted[u])
           sizep(u)    == Cardinality(Promoted'[u])
           more(u, j)  == Cardinality(Promoted[u] \union {j})
           morep(u, j) == Cardinality(Promoted'[u] \union {j})
<1>1. \A u \in Users : /\ IsFiniteSet(Promoted[u]) /\ size(u) \in Nat
                       /\ IsFiniteSet(Promoted'[u]) /\ sizep(u) \in Nat
  <2>1. \A u \in Users : IsFiniteSet(Promoted[u]) /\ IsFiniteSet(Promoted'[u])
    <3>1. IsFiniteSet(JobIds)
      BY FS_Interval, EntryAssumption DEF JobIds
    <3>2. \A u \in Users : Promoted[u] \subseteq JobIds /\ Promoted'[u] \subseteq JobIds
      BY DEF Promoted, JobsOf
    <3> QED BY <3>1, <3>2, FS_Subset
  <2> QED BY <2>1, FS_CardinalityType
<1>2. \A u \in Users : size(u) <= sizep(u)
  BY <1>1, FS_Subset
<1>3. ASSUME NEW u \in Users, NEW j \in JobIds
      PROVE  /\ more(u, j) \in Nat /\ morep(u, j) \in Nat /\ more(u, j) <= morep(u, j)
             /\ (j \notin Promoted[u] => more(u, j) = size(u) + 1)
  <2>1. IsFiniteSet(Promoted[u] \union {j}) /\ IsFiniteSet(Promoted'[u] \union {j})
    BY <1>1, FS_AddElement
  <2>2. Promoted[u] \union {j} \subseteq Promoted'[u] \union {j}
    OBVIOUS
  <2>3. more(u, j) <= morep(u, j)
    BY <2>1, <2>2, FS_Subset
  <2>4. more(u, j) \in Nat /\ morep(u, j) \in Nat
    BY <2>1, FS_CardinalityType
  <2>5. j \notin Promoted[u] => more(u, j) = size(u) + 1
    BY <1>1, FS_AddElement
  <2> QED BY <2>3, <2>4, <2>5
<1>4. \A u \in Users : video_count[u] \in Nat /\ video_count[u] <= size(u)
  BY DEF CountInv, CountNeverExceeds, Inv, TypeInv, TypeOK
<1>5. CountNeverExceeds'
  <2>1. \A u \in Users : video_count'[u] <= sizep(u)
    <3> HIDE DEF size
    <3> QED BY <1>1, <1>2, <1>4
  <2> QED BY <2>1 DEF CountNeverExceeds
<1>6. ASSUME NEW q \in Reqs, sess'[q].op \in {"submit", "verify"}, sess'[q].pc # "committed",
             NEW u \in Users, u = sess'[q].user
      PROVE  /\ sess'[q].count <= sizep(u)
             /\ sess'[q].op = "verify" /\ sess'[q].job # 0 =>
                  sess'[q].count + 1 <= morep(u, sess'[q].job)
  <2>0. sess'[q].job \in 0 .. MaxJobs /\ sess'[q].count \in Nat
    BY <1>6 DEF TypeInv, TypeOK, Session
  <2>1. CASE /\ sess'[q].op = sess[q].op /\ sess[q].pc # "committed"
             /\ sess'[q].user = sess[q].user /\ sess'[q].count = sess[q].count
             /\ sess'[q].op = "verify" => sess'[q].job = sess[q].job
    <3>1. /\ sess[q].count <= size(u)
          /\ sess[q].op = "verify" /\ sess[q].job # 0 =>
               sess[q].count + 1 <= more(u, sess[q].job)
      BY <1>6, <2>1 DEF CountInv, SessionUser
    <3> HIDE DEF size, sizep, more, morep
    <3>2. sess'[q].count <= sizep(u)
      BY <1>1, <1>2, <2>0, <2>1, <3>1
    <3>3. sess'[q].op = "verify" /\ sess'[q].job # 0 =>
            sess'[q].count + 1 <= morep(u, sess'[q].job)
      BY <1>3, <2>0, <2>1, <3>1, EntryAssumption DEF JobIds
    <3> QED BY <3>2, <3>3
  <2>2. CASE /\ sess'[q].count = video_count[u]
             /\ sess'[q].op = "verify" /\ sess'[q].job # 0 =>
                  sess'[q].job \in JobIds \ Promoted[u]
    <3> HIDE DEF size, sizep, more, morep
    <3>1. sess'[q].count <= sizep(u)
      BY <1>1, <1>2, <1>4, <2>2
    <3>2. sess'[q].op = "verify" /\ sess'[q].job # 0 =>
            sess'[q].count + 1 <= morep(u, sess'[q].job)
      BY <1>1, <1>3, <1>4, <2>2
    <3> QED BY <3>1, <3>2
  <2> QED BY <1>6, <2>1, <2>2
<1>7. \A q \in Reqs : sess'[q].op \in {"submit", "verify"} => sess'[q].user \in Users
  BY DEF TypeInv, SessionTyped, SessionUser
<1> QED BY <1>5, <1>6, <1>7 DEF CountInv, SessionUser

\* How each step moves the sessions and what it may do to the rows counted.
LEMMA CountInvInductive ==
  ASSUME "wait" \notin AdminStatuses
  PROVE  Inv /\ CountInv /\ [Next]_vars => CountInv'
<1> SUFFICES ASSUME Inv, CountInv, [Next]_vars
             PROVE  CountInv'
  OBVIOUS
<1>t. TypeOK /\ TypeInv'
  BY TypeInvInductive DEF Inv, TypeInv
<1> DEFINE
     Grow == \A u \in Users : Promoted[u] \subseteq Promoted'[u]
     Counts == \A u \in Users : \/ video_count'[u] = video_count[u]
                                \/ video_count'[u] <= Cardinality(Promoted'[u])
     Out(q)   == sess'[q].op \notin {"submit", "verify"} \/ sess'[q].pc = "committed"
     Stays(q) == /\ sess'[q].op = sess[q].op /\ sess[q].pc # "committed"
                 /\ sess'[q].user = sess[q].user /\ sess'[q].count = sess[q].count
                 /\ sess'[q].op = "verify" => sess'[q].job = sess[q].job
     Fresh(q) == /\ sess'[q].user \in Users /\ sess'[q].count = video_count[sess'[q].user]
                 /\ sess'[q].op = "verify" /\ sess'[q].job # 0 =>
                      sess'[q].job \in JobIds \ Promoted[sess'[q].user]
<1>k. ASSUME Grow, Counts, \A q \in Reqs : Out(q) \/ Stays(q) \/ Fresh(q)
      PROVE  CountInv'
  BY <1>t, <1>k, CountKept
<1>s. \A q \in Reqs : sess'[q] = sess[q] => Out(q) \/ Stays(q)
  OBVIOUS
<1>r. UNCHANGED <<status, owner>> => Grow
  BY DEF Promoted, JobsOf
<1>c. ASSUME NEW r \in Reqs, Close(r)
      PROVE  \A q \in Reqs : Out(q) \/ Stays(q) \/ Fresh(q)
  BY <1>s, <1>t, <1>c DEF Close, Idle, TypeOK
<1>g. ASSUME NEW j \in Entries, NEW x \in JOB_STATUSES \ {"wait"},
             status' = [status EXCEPT ![j] = x], owner' = owner
      PROVE  Grow
  BY <1>g, <1>t DEF Promoted, JobsOf, TypeOK, JOB_STATUSES
<1>o. ASSUME NEW r \in Reqs, NEW op \in {"submit", "verify", "resend"}, NEW u \in Users,
             NEW j, NEW o, NEW f, Open(r, op, u, j, o, f),
             op = "verify" /\ j # 0 => j \in Waiting(u)
      PROVE  \A q \in Reqs : Out(q) \/ Stays(q) \/ Fresh(q)
  <2>1. /\ \A q \in Reqs \ {r} : sess'[q] = sess[q]
        /\ sess'[r].op = op /\ sess'[r].user = u /\ sess'[r].job = j
        /\ sess'[r].count = video_count[u]
    BY <1>o, <1>t DEF Open, TypeOK
  <2>2. op = "verify" /\ j # 0 => j \in JobIds \ Promoted[u]
    BY <1>o DEF Waiting, Promoted, JobsOf
  <2>3. Fresh(r)
    BY <2>1, <2>2
  <2> QED BY <1>s, <2>1, <2>3
<1>i. ASSUME NEW r \in Reqs, Staged(r), NEW x \in JOB_STATUSES, InsertJob(r, x)
      PROVE  /\ Grow
             /\ x # "wait" => Cardinality(Promoted'[SessionUser(r)]) =
                                Cardinality(Promoted[SessionUser(r)]) + 1
  <2> DEFINE j == sess[r].job
             u == SessionUser(r)
  <2>1. j \in JobIds /\ u \in Users /\ Allocated(r)
    BY <1>i, Named DEF Inv, Allocated, LocksUser, SessionUser, Staged, At
  <2>2. status[j] = "none"
    BY <2>1 DEF Inv, EntryInv, IdsInv
  <2>3. /\ status'[j] = x /\ owner'[j] = u
        /\ \A k \in JobIds \ {j} : status'[k] = status[k] /\ owner'[k] = owner[k]
    BY <1>i, <1>t, <2>1 DEF InsertJob, TypeOK
  <2>4. Grow
    BY <2>1, <2>2, <2>3 DEF Promoted, JobsOf
  <2>5. x # "wait" => Promoted'[u] = Promoted[u] \union {j} /\ j \notin Promoted[u]
    BY <2>1, <2>2, <2>3 DEF Promoted, JobsOf, JOB_STATUSES
  <2>6. IsFiniteSet(Promoted[u])
    BY <2>1, EntriesFinite
  <2>7. x # "wait" => Cardinality(Promoted'[u]) = Cardinality(Promoted[u]) + 1
    BY <2>5, <2>6, FS_AddElement
  <2> QED BY <2>4, <2>7
<1>1. ASSUME NEW r \in Reqs, NEW u \in Users, SubmitRead(r, u)
      PROVE  CountInv'
  <2>1. PICK j \in 0 .. MaxJobs, f \in FlagRead : Open(r, "submit", u, j, 0, f)
    BY <1>1, QueryTyped DEF SubmitRead
  <2>2. Grow /\ Counts
    BY <1>1, <1>r DEF SubmitRead, db
  <2> QED BY <2>1, <2>2, <1>o, <1>k
<1>2. ASSUME NEW r \in Reqs,
             SubmitReissue(r) \/ SubmitPending(r) \/ ResendCommit(r) \/ CachePending(r)
             \/ ClearPending(r) \/ Fail(r)
      PROVE  CountInv'
  <2>1. Close(r) /\ UNCHANGED <<status, owner, video_count>>
    BY <1>2 DEF SubmitReissue, SubmitPending, ResendCommit, CachePending, ClearPending, Fail, db
  <2> QED BY <2>1, <1>c, <1>k, <1>r
<1>3. ASSUME NEW r \in Reqs, SubmitFlush(r) \/ SubmitUpload(r)
      PROVE  CountInv'
  <2>1. UNCHANGED <<status, owner, video_count>>
    BY <1>3 DEF SubmitFlush, SubmitUpload, db
  <2>2. /\ \A q \in Reqs \ {r} : sess'[q] = sess[q]
        /\ sess[r].op = "submit" /\ sess[r].pc # "committed"
        /\ sess'[r].op = "submit" /\ sess'[r].user = sess[r].user
        /\ sess'[r].count = sess[r].count
    BY <1>3, <1>t DEF SubmitFlush, SubmitUpload, Goto, At, TypeOK, Session
  <2> QED BY <2>1, <2>2, <1>k, <1>r, <1>s
<1>4. ASSUME NEW r \in Reqs, SubmitCommitWait(r)
      PROVE  CountInv'
  <2>1. Grow /\ Counts
    BY <1>4, <1>i DEF SubmitCommitWait, JOB_STATUSES
  <2> QED BY <1>4, <2>1, <1>c, <1>k DEF SubmitCommitWait
<1>5. ASSUME NEW r \in Reqs, SubmitCommitEntry(r)
      PROVE  CountInv'
  <2> DEFINE u == SessionUser(r)
             x == EntryStatus(u, FlagAtSubmit(r))
  <2>1. x \in JOB_STATUSES \ {"wait"} /\ u \in Users
    BY <1>5, Named, EntryStatusListed DEF SubmitCommitEntry, Staged, At, FlagAtSubmit, Inv
  <2>2. Staged(r) /\ InsertJob(r, x) /\ video_count' = [video_count EXCEPT ![u] = CountAfter(r)]
    BY <1>5 DEF SubmitCommitEntry
  <2>3. Grow /\ Cardinality(Promoted'[u]) = Cardinality(Promoted[u]) + 1
    <3> HIDE DEF x
    <3> QED BY <2>1, <2>2, <1>i
  <2>4. sess[r].count <= Cardinality(Promoted[u]) /\ sess[r].count \in Nat
    BY <1>5, <1>t DEF SubmitCommitEntry, Staged, At, CountInv, TypeOK, Session
  <2>5. Cardinality(Promoted[u]) \in Nat
    BY <2>1, EntriesFinite, FS_CardinalityType
  <2>6. CountAfter(r) <= Cardinality(Promoted'[u])
    BY <2>3, <2>4, <2>5 DEF CountAfter
  <2>7. Counts
    BY <2>1, <2>2, <2>6, <1>t DEF TypeOK
  <2>8. \A q \in Reqs : sess'[q] = sess[q] \/ sess'[q].pc = "committed"
    BY <1>5, <1>t DEF SubmitCommitEntry, Goto, TypeOK, Session
  <2> QED BY <2>3, <2>7, <2>8, <1>k, <1>s
<1>6. ASSUME NEW r \in Reqs, NEW u \in Users, VerifyRead(r, u)
      PROVE  CountInv'
  <2>0. PICK o \in OtpIds, j \in FirstOf(Waiting(u)) : Open(r, "verify", u, j, o, FALSE)
    BY <1>6 DEF VerifyRead
  <2>1. j \in 0 .. MaxJobs /\ (j # 0 => j \in Waiting(u))
    BY EntryAssumption DEF FirstOf, Waiting, JobsOf, JobIds
  <2>2. Grow /\ Counts
    BY <1>6, <1>r DEF VerifyRead, db
  <2> QED BY <2>0, <2>1, <2>2, <1>o, <1>k
<1>7. ASSUME NEW r \in Reqs, NEW u \in Users, ResendRead(r, u)
      PROVE  CountInv'
  <2>1. Grow /\ Counts
    BY <1>7, <1>r DEF ResendRead, db
  <2> QED BY <1>7, <2>1, <1>o, <1>k DEF ResendRead
<1>8. ASSUME NEW r \in Reqs, VerifyCommit(r)
      PROVE  CountInv'
  <2>1. CASE sess[r].job = 0
    BY <1>8, <2>1, <1>c, <1>k, <1>r DEF VerifyCommit
  <2>2. CASE sess[r].job # 0
    <3> DEFINE u == SessionUser(r)
               j == sess[r].job
               x == EntryStatus(u, sess[r].flag)
    <3>1. x \in JOB_STATUSES \ {"wait"} /\ u \in Users
      BY <1>8, Named, EntryStatusListed DEF VerifyCommit, At, Inv
    <3>2. j \in JobsOf(u)
      BY <1>8, <2>2 DEF VerifyCommit, At, Inv, EntryInv, RowsInv, Allocated, LocksUser
    <3>3. /\ status' = [status EXCEPT ![j] = x] /\ owner' = owner
          /\ video_count' = [video_count EXCEPT ![u] = CountAfter(r)]
      BY <1>8, <2>2 DEF VerifyCommit
    <3>4. Grow
      <4>1. j \in Entries
        BY <3>2 DEF JobsOf, Entries
      <4> HIDE DEF x
      <4> QED BY <1>g, <3>1, <3>3, <4>1
    <3>5. Promoted'[u] = Promoted[u] \union {j}
      <4> HIDE DEF x
      <4>1. j \in JobIds /\ owner[j] = u
        BY <3>2 DEF JobsOf
      <4>2. status'[j] = x /\ \A k \in JobIds \ {j} : status'[k] = status[k]
        BY <3>3, <4>1, <1>t DEF TypeOK
      <4>3. x # "none" /\ x # "wait"
        BY <3>1 DEF JOB_STATUSES
      <4> QED BY <3>1, <3>3, <4>1, <4>2, <4>3 DEF Promoted, JobsOf
    <3>6. CountAfter(r) <= Cardinality(Promoted'[u])
      BY <1>8, <2>2, <3>5 DEF VerifyCommit, At, CountInv, CountAfter
    <3>7. Counts
      BY <3>1, <3>3, <3>6, <1>t DEF TypeOK
    <3>8. \A q \in Reqs : sess'[q] = sess[q] \/ sess'[q].pc = "committed"
      BY <1>8, <2>2, <1>t DEF VerifyCommit, Goto, TypeOK, Session
    <3> QED BY <3>4, <3>7, <3>8, <1>k, <1>s
  <2> QED BY <2>1, <2>2
<1>9. ASSUME NEW r \in Reqs, NEW j \in Entries, NEW x \in JOB_STATUSES \ {"wait"},
             SetStatus(r, j, x)
      PROVE  CountInv'
  <2>1. \A q \in Reqs : sess'[q] = sess[q] \/ sess'[q].op = "admin"
    BY <1>9, <1>t DEF SetStatus, Clearing, TypeOK
  <2>2. Grow /\ Counts
    BY <1>9, <1>g DEF SetStatus
  <2> QED BY <2>1, <2>2, <1>k, <1>s
<1>10. ASSUME NEW j \in JobIds, Render(j) \/ Watchdog(j)
       PROVE  CountInv'
  <2>1. PICK x \in JOB_STATUSES \ {"wait"} : status' = [status EXCEPT ![j] = x]
    BY <1>10, <1>t, StageEffect
  <2>2. j \in Entries /\ UNCHANGED <<owner, video_count, sess>>
    BY <1>10, <1>t, StageEffect
  <2>3. Grow /\ Counts
    BY <2>1, <2>2, <1>g
  <2> QED BY <2>2, <2>3, <1>k, <1>s
<1>11. ASSUME \/ \E u \in Users : PendingExpires(u)
              \/ \E o \in OtpIds : OtpAges(o)
              \/ \E v \in FlagValues : SetFlag(v)
              \/ UNCHANGED vars
       PROVE  CountInv'
  <2>1. UNCHANGED <<status, owner, video_count, sess>>
    BY <1>11 DEF PendingExpires, OtpAges, SetFlag, vars, db
  <2> QED BY <2>1, <1>k, <1>r, <1>s
<1>12. \A x \in AdminStatuses \union {"sent"} : x \in JOB_STATUSES \ {"wait"}
  BY EntryAssumption DEF JOB_STATUSES
<1>13. \A j \in JobIds : status[j] # "none" <=> j \in Entries
  BY DEF Entries
<1>14. ASSUME NEW r \in Reqs, VerifyFlag(r)
       PROVE  CountInv'
  <2>1. UNCHANGED <<status, owner, video_count>>
    BY <1>14, <1>t, FlagEffect
  <2>2. \A q \in Reqs : sess'[q] = sess[q] \/ Stays(q)
    BY <1>14, <1>t, FlagEffect
  <2>3. \A q \in Reqs : Out(q) \/ Stays(q) \/ Fresh(q)
    BY <1>s, <2>2
  <2> QED BY <2>1, <2>3, <1>k, <1>r
<1> QED
  BY <1>1, <1>2, <1>3, <1>4, <1>5, <1>6, <1>7, <1>8, <1>9, <1>10, <1>11, <1>12, <1>13, <1>14
     DEF Next, Submit, Verify, Resend, Panel, AdminUpdate, SendVideo

\* What a session is about to write to video_count counts entries of its number
\* only, the one it is promoting included, unless the panel sends entries back to
\* `wait`: nothing else that runs in between can make the write too high.
THEOREM CountsToWriteAreReal ==
  ASSUME "wait" \notin AdminStatuses
  PROVE  Spec => []CountInv
<1>1. Init => CountInv
  <2> SUFFICES ASSUME Init PROVE CountInv
    OBVIOUS
  <2>1. \A r \in Reqs : sess[r].op = "none"
    BY DEF Init, Idle
  <2>2. \A u \in Users : video_count[u] = 0 /\ Promoted[u] = {}
    BY DEF Init, Promoted, JobsOf
  <2>3. Cardinality({}) = 0
    BY FS_EmptySet
  <2>4. CountNeverExceeds
    BY <2>2, <2>3 DEF CountNeverExceeds
  <2> QED BY <2>1, <2>4 DEF CountInv
<1>2. Inv /\ CountInv /\ [Next]_vars => CountInv'
  BY CountInvInductive
<1> QED BY InvHolds, <1>1, <1>2, PTL DEF Spec

\* As long as the panel never sends an entry back to `wait`, the column can miss
\* entries but never counts one that is not there, whatever requests overlap.
THEOREM CountNeverTooHigh ==
  ASSUME "wait" \notin AdminStatuses
  PROVE  Spec => []CountNeverExceeds
<1>1. CountInv => CountNeverExceeds
  BY DEF CountInv
<1> QED BY CountsToWriteAreReal, <1>1, PTL

-----------------------------------------------------------------------------
(* `wait` means the number is not verified *)

\* A number without a users row has no entry, a verified one none in `wait`, and
\* any other exactly one, which waits.
NumbersInv ==
  \A u \in Users :
    /\ u \notin users => JobsOf(u) = {}
    /\ u \in verified => Waiting(u) = {}
    /\ u \in users \ verified => \E j \in JobIds : JobsOf(u) = {j} /\ status[j] = "wait"

\* A session that has not seen a verified number either knows the waiting entry or
\* is the one that will create the number; a verification that found no entry
\* is of a number that is verified already.
ClaimsInv ==
  \A r \in Reqs :
    /\ sess[r].op = "submit" /\ sess[r].verified => SessionUser(r) \in verified
    /\ At(r, "submit", "read") /\ ~sess[r].verified /\ sess[r].job = 0 => sess[r].new
    /\ Allocated(r) /\ ~sess[r].verified => SessionUser(r) \notin users /\ CanWriteUser(r)
    /\ At(r, "verify", "read") /\ sess[r].job = 0 => SessionUser(r) \in verified

WaitInv == NumbersInv /\ ClaimsInv

\* A step that keeps the rows, and `wait` where it is.
LEMMA NumbersKept ==
  ASSUME NumbersInv, UNCHANGED <<users, verified, owner>>,
         \A j \in JobIds : /\ status'[j] = "none" <=> status[j] = "none"
                           /\ status'[j] = "wait" <=> status[j] = "wait"
  PROVE  NumbersInv'
<1>1. \A u : JobsOf(u)' = JobsOf(u) /\ Waiting(u)' = Waiting(u)
  BY DEF JobsOf, Waiting
<1> QED BY <1>1 DEF NumbersInv

\* A step that lets sessions end, upload or commit, and no number appear.
LEMMA ClaimsKept ==
  ASSUME TypeOK, ClaimsInv, users' = users, verified \subseteq verified',
         \A q \in Reqs :
           \/ sess'[q] = sess[q]
           \/ sess'[q].op \notin {"submit", "verify"}
           \/ /\ sess'[q].op = sess[q].op /\ sess'[q].user = sess[q].user
              /\ sess'[q].verified = sess[q].verified
              /\ \/ sess'[q].pc \in {"committed", "flagged"}
                 \/ sess[q].pc = "flushed" /\ sess'[q].pc = "uploaded"
  PROVE  ClaimsInv'
<1>1. \A u : \A q \in Reqs : LocksUser(q, u)' => LocksUser(q, u)
  BY DEF LocksUser
<1>2. ASSUME NEW r \in Reqs, Allocated(r)', ~sess'[r].verified
      PROVE  sess'[r].user \notin users' /\ CanWriteUser(r)'
  <2>1. Allocated(r) /\ ~sess[r].verified /\ sess'[r].user = sess[r].user
    BY <1>2 DEF Allocated, LocksUser, SessionUser
  <2>2. SessionUser(r) \notin users /\ CanWriteUser(r)
    BY <2>1 DEF ClaimsInv
  <2> QED BY <1>1, <2>1, <2>2 DEF CanWriteUser, SessionUser
<1>3. ASSUME NEW r \in Reqs
      PROVE  /\ sess'[r].op = "submit" /\ sess'[r].verified => sess'[r].user \in verified'
             /\ At(r, "submit", "read")' /\ ~sess'[r].verified /\ sess'[r].job = 0 => sess'[r].new
             /\ At(r, "verify", "read")' /\ sess'[r].job = 0 => sess'[r].user \in verified'
  <2>1. sess[r].op = "submit" /\ sess[r].verified => sess[r].user \in verified
    BY DEF ClaimsInv, SessionUser
  <2>2. CASE sess'[r] = sess[r]
    BY <2>1, <2>2 DEF ClaimsInv, At, SessionUser
  <2>3. CASE sess'[r] # sess[r]
    BY <2>1, <2>3 DEF At
  <2> QED BY <2>2, <2>3
<1> QED BY <1>2, <1>3 DEF ClaimsInv, SessionUser

\* An orderly panel changes the status of entries that have left `wait`: a number
\* whose entry waits is not verified, so the panel cannot be taking it out.
LEMMA PanelKeepsWaits ==
  ASSUME Inv, NumbersInv, WaitOrderly, NEW r \in Reqs, NEW j \in JobIds, NEW s \in JOB_STATUSES,
         status[j] # "none", SetStatus(r, j, s)
  PROVE  /\ UNCHANGED <<users, verified, owner, video_count>>
         /\ \A k \in JobIds : /\ status'[k] = "none" <=> status[k] = "none"
                              /\ status'[k] = "wait" <=> status[k] = "wait"
         /\ \A q \in Reqs : sess'[q] = sess[q] \/ sess'[q].op = "admin"
<1>1. /\ UNCHANGED <<users, verified, owner, video_count>>
      /\ status'[j] = s /\ \A k \in JobIds \ {j} : status'[k] = status[k]
  BY DEF SetStatus, Inv, TypeInv, TypeOK
<1>2. \A q \in Reqs : sess'[q] = sess[q] \/ sess'[q].op = "admin"
  BY DEF SetStatus, Clearing, Inv, TypeInv, TypeOK
<1>3. s # "none" /\ j \in Entries
  BY DEF Entries, JOB_STATUSES
<1>4. status[j] = "wait" => s = "wait"
  <2>1. owner[j] \in Users
    BY <1>3 DEF Inv, EntryInv, RowsInv
  <2>2. status[j] = "wait" => owner[j] \notin verified
    BY <1>3, <2>1 DEF NumbersInv, Waiting, JobsOf
  <2>3. status[j] = "wait" /\ s # "wait" => owner[j] \in verified'
    BY <1>1, <1>3 DEF WaitOrderly
  <2> QED BY <1>1, <2>2, <2>3
<1>5. s = "wait" => status[j] = "wait"
  BY <1>1, <1>3 DEF WaitOrderly
<1> QED BY <1>1, <1>2, <1>3, <1>4, <1>5

LEMMA WaitInvInductive == Inv /\ WaitInv /\ [Next /\ WaitOrderly]_vars => WaitInv'
<1> SUFFICES ASSUME Inv, WaitInv, [Next /\ WaitOrderly]_vars
             PROVE  NumbersInv' /\ ClaimsInv'
  BY DEF WaitInv
<1>t. /\ TypeOK /\ TypeInv /\ NumbersInv /\ ClaimsInv
      /\ verified \subseteq users /\ users \subseteq Users
  BY DEF Inv, TypeInv, TypeOK, WaitInv
<1>c. ASSUME NEW r \in Reqs, Close(r)
      PROVE  \A q \in Reqs : sess'[q] = sess[q] \/ sess'[q].op \notin {"submit", "verify"}
  BY <1>c, <1>t DEF Close, Idle, TypeOK
<1>n. UNCHANGED <<users, verified, owner, status>> => NumbersInv'
  BY <1>t, NumbersKept
<1>o. ASSUME NEW r \in Reqs, NEW op \in {"submit", "verify", "resend"}, NEW u \in Users,
             NEW j, NEW o, NEW f, Open(r, op, u, j, o, f), UNCHANGED <<users, verified>>,
             op = "submit" /\ j = 0 /\ u \notin verified => u \notin users,
             op = "verify" /\ j = 0 => u \in verified
      PROVE  ClaimsInv'
  <2>1. /\ \A q \in Reqs \ {r} : sess'[q] = sess[q]
        /\ sess'[r].op = op /\ sess'[r].pc = "read" /\ sess'[r].user = u /\ sess'[r].job = j
        /\ sess'[r].verified = (u \in verified) /\ sess'[r].new = (u \notin users)
    BY <1>o, <1>t DEF Open, TypeOK
  <2>2. \A v : \A q \in Reqs : LocksUser(q, v)' => LocksUser(q, v) /\ q # r
    BY <2>1 DEF LocksUser
  <2>3. ASSUME NEW q \in Reqs, Allocated(q)', ~sess'[q].verified
        PROVE  sess'[q].user \notin users' /\ CanWriteUser(q)'
    <3>1. q # r /\ Allocated(q) /\ ~sess[q].verified /\ sess'[q].user = sess[q].user
      BY <2>1, <2>2, <2>3 DEF Allocated, LocksUser, SessionUser
    <3>2. SessionUser(q) \notin users /\ CanWriteUser(q)
      BY <1>t, <3>1 DEF ClaimsInv
    <3> QED BY <1>o, <2>2, <3>1, <3>2 DEF CanWriteUser, SessionUser
  <2>4. ASSUME NEW q \in Reqs
        PROVE  /\ sess'[q].op = "submit" /\ sess'[q].verified => sess'[q].user \in verified'
               /\ At(q, "submit", "read")' /\ ~sess'[q].verified /\ sess'[q].job = 0 => sess'[q].new
               /\ At(q, "verify", "read")' /\ sess'[q].job = 0 => sess'[q].user \in verified'
    <3>1. CASE q = r
      BY <1>o, <2>1, <3>1 DEF At
    <3>2. CASE q # r
      BY <1>o, <1>t, <2>1, <3>2 DEF ClaimsInv, At, SessionUser
    <3> QED BY <3>1, <3>2
  <2> QED BY <2>3, <2>4 DEF ClaimsInv, SessionUser
<1>1. ASSUME NEW r \in Reqs, NEW u \in Users, SubmitRead(r, u)
      PROVE  NumbersInv' /\ ClaimsInv'
  <2>1. PICK j \in FirstOf(IF u \notin verified THEN Waiting(u)
                           ELSE IF AllowMultiple THEN {} ELSE InFlight(u)),
             f \in FlagRead :
          Open(r, "submit", u, j, 0, f)
    BY <1>1 DEF SubmitRead
  <2>2. j = 0 /\ u \notin verified => u \notin users
    BY <1>t, <2>1, EntryAssumption DEF FirstOf, Waiting, NumbersInv, JobIds
  <2> QED BY <1>1, <1>n, <1>o, <2>1, <2>2 DEF SubmitRead, db
<1>2. ASSUME NEW r \in Reqs,
             SubmitReissue(r) \/ SubmitPending(r) \/ ResendCommit(r) \/ CachePending(r)
             \/ ClearPending(r) \/ Fail(r)
      PROVE  NumbersInv' /\ ClaimsInv'
  <2>1. Close(r) /\ UNCHANGED <<users, verified, owner, status>>
    BY <1>2 DEF SubmitReissue, SubmitPending, ResendCommit, CachePending, ClearPending, Fail, db
  <2> QED BY <2>1, <1>c, <1>n, <1>t, ClaimsKept
<1>3. ASSUME NEW r \in Reqs, SubmitFlush(r)
      PROVE  NumbersInv' /\ ClaimsInv'
  <2> DEFINE u == SessionUser(r)
  <2>1. UNCHANGED <<users, verified, owner, status>>
    BY <1>3 DEF SubmitFlush
  <2>2. /\ \A q \in Reqs \ {r} : sess'[q] = sess[q]
        /\ sess[r].op = "submit" /\ sess[r].pc = "read" /\ sess[r].job = 0
        /\ sess'[r].op = "submit" /\ sess'[r].pc = "flushed" /\ sess'[r].user = u
        /\ sess'[r].verified = sess[r].verified
    BY <1>3, <1>t DEF SubmitFlush, At, TypeOK, Session, SessionUser
  <2>3. sess[r].verified => u \in verified
    BY <1>t, <2>2 DEF ClaimsInv
  <2>4. ~sess[r].verified => u \notin users /\ CanWriteUser(r)
    BY <1>3, <1>t, <2>2 DEF ClaimsInv, At, SubmitFlush, PhoneHashFree
  <2>5. ASSUME NEW q \in Reqs, Allocated(q)', ~sess'[q].verified
        PROVE  sess'[q].user \notin users' /\ CanWriteUser(q)'
    <3>1. CASE q = r
      <4>1. u \notin users /\ \A p \in Reqs \ {r} : ~LocksUser(p, u)
        BY <2>2, <2>4, <2>5, <3>1 DEF CanWriteUser
      <4>2. \A p \in Reqs \ {r} : ~LocksUser(p, u)'
        BY <2>2, <4>1 DEF LocksUser, SessionUser
      <4> QED BY <2>1, <2>2, <3>1, <4>1, <4>2 DEF CanWriteUser, SessionUser, LocksUser
    <3>2. CASE q # r
      <4>1. Allocated(q) /\ ~sess[q].verified /\ sess'[q] = sess[q]
        BY <2>2, <2>5, <3>2 DEF Allocated, LocksUser, SessionUser
      <4>2. sess[q].user \notin users /\ \A p \in Reqs \ {q} : ~LocksUser(p, sess[q].user)
        BY <1>t, <4>1 DEF ClaimsInv, CanWriteUser, SessionUser
      <4>3. sess[q].user # u
        <5>1. ~sess[r].verified => ~LocksUser(q, u)
          BY <2>4, <3>2 DEF CanWriteUser
        <5>2. LocksUser(q, sess[q].user)
          BY <4>1 DEF Allocated, SessionUser
        <5> QED BY <1>t, <2>3, <4>2, <5>1, <5>2
      <4>4. \A p \in Reqs \ {q} : ~LocksUser(p, sess[q].user)'
        BY <2>2, <4>2, <4>3 DEF LocksUser, SessionUser
      <4> QED BY <2>1, <4>1, <4>2, <4>4 DEF CanWriteUser, SessionUser, LocksUser
    <3> QED BY <3>1, <3>2
  <2>6. ClaimsInv'
    <3>1. ASSUME NEW q \in Reqs
          PROVE  /\ sess'[q].op = "submit" /\ sess'[q].verified => sess'[q].user \in verified'
                 /\ At(q, "submit", "read")' /\ ~sess'[q].verified /\ sess'[q].job = 0
                      => sess'[q].new
                 /\ At(q, "verify", "read")' /\ sess'[q].job = 0 => sess'[q].user \in verified'
      <4>1. CASE q = r
        BY <2>1, <2>2, <2>3, <4>1 DEF At
      <4>2. CASE q # r
        BY <1>t, <2>1, <2>2, <4>2 DEF ClaimsInv, At, SessionUser
      <4> QED BY <4>1, <4>2
    <3> QED BY <2>5, <3>1 DEF ClaimsInv, SessionUser
  <2> QED BY <2>1, <2>6, <1>n
<1>4. ASSUME NEW r \in Reqs, SubmitUpload(r)
      PROVE  NumbersInv' /\ ClaimsInv'
  <2>1. UNCHANGED <<users, verified, owner, status>>
    BY <1>4 DEF SubmitUpload, db
  <2>2. \A q \in Reqs : \/ sess'[q] = sess[q]
                       \/ /\ sess'[q].op = sess[q].op /\ sess'[q].user = sess[q].user
                          /\ sess'[q].verified = sess[q].verified
                          /\ sess[q].pc = "flushed" /\ sess'[q].pc = "uploaded"
    BY <1>4, <1>t DEF SubmitUpload, Goto, At, TypeOK, Session
  <2> QED BY <2>1, <2>2, <1>n, <1>t, ClaimsKept
<1>5. ASSUME NEW r \in Reqs, SubmitCommitWait(r)
      PROVE  NumbersInv' /\ ClaimsInv'
  <2> DEFINE u == SessionUser(r)
             j == sess[r].job
  <2>1. /\ j \in JobIds /\ u \in Users /\ Allocated(r)
        /\ status[j] = "none" /\ u \notin users /\ CanWriteUser(r)
    <3>1. j \in JobIds /\ u \in Users /\ Allocated(r)
      BY <1>5, Named DEF SubmitCommitWait, Inv, Allocated, LocksUser, SessionUser, Staged, At
    <3>2. u \notin users /\ CanWriteUser(r)
      BY <1>5, <1>t, <3>1 DEF SubmitCommitWait, ClaimsInv
    <3> QED BY <3>1, <3>2 DEF Inv, EntryInv, IdsInv
  <2>2. /\ status'[j] = "wait" /\ owner'[j] = u
        /\ \A k \in JobIds \ {j} : status'[k] = status[k] /\ owner'[k] = owner[k]
        /\ users' = users \union {u} /\ verified' = verified /\ Close(r)
    BY <1>5, <1>t, <2>1 DEF SubmitCommitWait, InsertJob, TypeOK
  <2>3. ASSUME NEW v \in Users
        PROVE  /\ v # u => JobsOf(v)' = JobsOf(v) /\ Waiting(v)' = Waiting(v)
               /\ v = u => JobsOf(v)' = {j}
    <3>1. JobsOf(u) = {}
      BY <1>t, <2>1 DEF NumbersInv
    <3>2. CASE v = u
      BY <2>1, <2>2, <3>1, <3>2 DEF JobsOf
    <3>3. CASE v # u
      <4>1. JobsOf(v)' = JobsOf(v)
        BY <2>1, <2>2, <3>3 DEF JobsOf
      <4> QED BY <2>1, <2>2, <3>3, <4>1 DEF Waiting, JobsOf
    <3> QED BY <3>2, <3>3
  <2>4. NumbersInv'
    <3>1. ASSUME NEW v \in Users
          PROVE  /\ v \notin users' => JobsOf(v)' = {}
                 /\ v \in verified' => Waiting(v)' = {}
                 /\ v \in users' \ verified' =>
                      \E k \in JobIds : JobsOf(v)' = {k} /\ status'[k] = "wait"
      <4>1. CASE v = u
        BY <1>t, <2>1, <2>2, <2>3, <4>1
      <4>2. CASE v # u
        <5>1. /\ v \notin users => JobsOf(v) = {}
              /\ v \in verified => Waiting(v) = {}
              /\ v \in users \ verified => \E k \in JobIds : JobsOf(v) = {k} /\ status[k] = "wait"
          BY <1>t DEF NumbersInv
        <5>2. \A k \in JobsOf(v) : status'[k] = status[k]
          BY <2>1, <2>2 DEF JobsOf
        <5> QED BY <2>2, <2>3, <4>2, <5>1, <5>2
      <4> QED BY <4>1, <4>2
    <3> QED BY <3>1 DEF NumbersInv
  <2>5. ClaimsInv'
    <3>1. /\ sess'[r].op = "none" /\ \A q \in Reqs \ {r} : sess'[q] = sess[q]
      BY <2>2, <1>t DEF Close, Idle, TypeOK
    <3>2. \A v : \A q \in Reqs : LocksUser(q, v)' => LocksUser(q, v) /\ q # r
      BY <3>1 DEF LocksUser
    <3>3. ASSUME NEW q \in Reqs, Allocated(q)', ~sess'[q].verified
          PROVE  sess'[q].user \notin users' /\ CanWriteUser(q)'
      <4>1. q # r /\ Allocated(q) /\ ~sess[q].verified /\ sess'[q] = sess[q]
        BY <3>1, <3>2, <3>3 DEF Allocated, LocksUser, SessionUser
      <4>2. SessionUser(q) \notin users /\ CanWriteUser(q)
        BY <1>t, <4>1 DEF ClaimsInv
      <4>3. SessionUser(q) # u
        BY <2>1, <4>1 DEF CanWriteUser, Allocated
      <4> QED BY <2>2, <3>2, <4>1, <4>2, <4>3 DEF CanWriteUser, SessionUser
    <3>4. ASSUME NEW q \in Reqs
          PROVE  /\ sess'[q].op = "submit" /\ sess'[q].verified => sess'[q].user \in verified'
                 /\ At(q, "submit", "read")' /\ ~sess'[q].verified /\ sess'[q].job = 0
                      => sess'[q].new
                 /\ At(q, "verify", "read")' /\ sess'[q].job = 0 => sess'[q].user \in verified'
      BY <1>t, <2>2, <3>1 DEF ClaimsInv, At, SessionUser
    <3> QED BY <3>3, <3>4 DEF ClaimsInv, SessionUser
  <2> QED BY <2>4, <2>5
<1>6. ASSUME NEW r \in Reqs, SubmitCommitEntry(r)
      PROVE  NumbersInv' /\ ClaimsInv'
  <2> DEFINE u == SessionUser(r)
             j == sess[r].job
             x == EntryStatus(u, FlagAtSubmit(r))
  <2>1. x \in JOB_STATUSES \ {"wait"} /\ u \in Users /\ j \in JobIds /\ Allocated(r)
    BY <1>6, Named, EntryStatusListed
       DEF SubmitCommitEntry, Staged, At, FlagAtSubmit, Inv, Allocated, LocksUser, SessionUser
  <2>2. status[j] = "none" /\ u \in verified
    BY <1>6, <1>t, <2>1 DEF SubmitCommitEntry, Staged, At, ClaimsInv, Inv, EntryInv, IdsInv
  <2>3. /\ status'[j] = x /\ owner'[j] = u
        /\ \A k \in JobIds \ {j} : status'[k] = status[k] /\ owner'[k] = owner[k]
        /\ users' = users /\ verified' = verified /\ Goto(r, "committed")
    <3> HIDE DEF x
    <3>1. InsertJob(r, x)
      BY <1>6 DEF SubmitCommitEntry, x
    <3> QED BY <1>6, <1>t, <2>1, <3>1 DEF SubmitCommitEntry, InsertJob, TypeOK
  <2>4. NumbersInv'
    <3> HIDE DEF x
    <3>1. ASSUME NEW v \in Users
          PROVE  /\ Waiting(v)' = Waiting(v)
                 /\ v # u => JobsOf(v)' = JobsOf(v) /\ \A k \in JobsOf(v) : status'[k] = status[k]
      <4>1. v # u => JobsOf(v)' = JobsOf(v) /\ \A k \in JobsOf(v) : status'[k] = status[k]
        BY <2>1, <2>2, <2>3 DEF JobsOf
      <4>2. Waiting(v)' = Waiting(v)
        BY <2>1, <2>2, <2>3 DEF JobsOf, Waiting
      <4> QED BY <4>1, <4>2
    <3>2. ASSUME NEW v \in Users
          PROVE  /\ v \notin users => JobsOf(v)' = {}
                 /\ v \in verified => Waiting(v)' = {}
                 /\ v \in users \ verified =>
                      \E k \in JobIds : JobsOf(v)' = {k} /\ status'[k] = "wait"
      <4>1. CASE v = u
        BY <1>t, <2>2, <3>1, <4>1 DEF NumbersInv
      <4>2. CASE v # u
        BY <1>t, <3>1, <4>2 DEF NumbersInv
      <4> QED BY <4>1, <4>2
    <3> QED BY <2>3, <3>2 DEF NumbersInv
  <2>5. \A q \in Reqs : \/ sess'[q] = sess[q]
                       \/ /\ sess'[q].op = sess[q].op /\ sess'[q].user = sess[q].user
                          /\ sess'[q].verified = sess[q].verified /\ sess'[q].pc = "committed"
    BY <2>3, <1>t DEF Goto, TypeOK, Session
  <2>6. ClaimsInv'
    <3>1. users' = users /\ verified \subseteq verified'
      BY <2>3
    <3> QED BY <3>1, <2>5, <1>t, ClaimsKept
  <2> QED BY <2>4, <2>6
<1>7. ASSUME NEW r \in Reqs, NEW u \in Users, VerifyRead(r, u)
      PROVE  NumbersInv' /\ ClaimsInv'
  <2>1. PICK o \in OtpIds, j \in FirstOf(Waiting(u)) : Open(r, "verify", u, j, o, FALSE)
    BY <1>7 DEF VerifyRead
  <2>2. j = 0 => u \in verified
    BY <1>7, <1>t, <2>1, EntryAssumption DEF VerifyRead, FirstOf, Waiting, NumbersInv, JobIds
  <2> QED BY <1>7, <1>n, <1>o, <2>1, <2>2 DEF VerifyRead, db
<1>8. ASSUME NEW r \in Reqs, VerifyCommit(r)
      PROVE  NumbersInv' /\ ClaimsInv'
  <2> DEFINE u == SessionUser(r)
             j == sess[r].job
  <2>1. u \in users /\ u \in Users /\ sess[r].op = "verify"
    BY <1>8, <1>t, Named DEF VerifyCommit, At
  <2>2. CASE j = 0
    <3>1. u \in verified
      <4>1. sess[r].pc = "read"
        BY <1>8, <2>2 DEF VerifyCommit, At
      <4> QED BY <1>t, <2>1, <2>2, <4>1 DEF ClaimsInv, At
    <3>2. Close(r) /\ UNCHANGED <<users, verified, owner, status>>
      BY <1>8, <2>2, <3>1 DEF VerifyCommit
    <3> QED BY <3>2, <1>c, <1>n, <1>t, ClaimsKept
  <2>3. CASE j # 0
    <3> DEFINE x == EntryStatus(u, sess[r].flag)
    <3>1. x \in JOB_STATUSES \ {"wait"}
      BY <1>8, Named, EntryStatusListed DEF VerifyCommit, At, Inv
    <3>2. j \in JobsOf(u)
      BY <2>1, <2>3 DEF Inv, EntryInv, RowsInv, Allocated, LocksUser
    <3>3. /\ status'[j] = x /\ owner' = owner
          /\ \A k \in JobIds \ {j} : status'[k] = status[k]
          /\ users' = users /\ verified' = verified \union {u} /\ Goto(r, "committed")
      BY <1>8, <1>t, <2>3, <3>2 DEF VerifyCommit, JobsOf, TypeOK
    <3>4. NumbersInv'
      <4> HIDE DEF x
      <4>1. ASSUME NEW v \in Users
            PROVE  /\ JobsOf(v)' = JobsOf(v)
                   /\ Waiting(v)' = Waiting(v) \ {j}
                   /\ v # u => \A k \in JobsOf(v) : status'[k] = status[k]
        <5>1. JobsOf(v)' = JobsOf(v)
          BY <3>1, <3>2, <3>3 DEF JobsOf, JOB_STATUSES
        <5>2. Waiting(v)' = Waiting(v) \ {j}
          BY <3>1, <3>2, <3>3 DEF JobsOf, Waiting, JOB_STATUSES
        <5>3. v # u => \A k \in JobsOf(v) : status'[k] = status[k]
          BY <3>2, <3>3 DEF JobsOf
        <5> QED BY <5>1, <5>2, <5>3
      <4>2. Waiting(u) \subseteq {j}
        BY <1>t, <2>1, <3>2 DEF NumbersInv, Waiting
      <4>3. ASSUME NEW v \in Users
            PROVE  /\ v \notin users => JobsOf(v)' = {}
                   /\ v \in verified \union {u} => Waiting(v)' = {}
                   /\ v \in users \ (verified \union {u}) =>
                        \E k \in JobIds : JobsOf(v)' = {k} /\ status'[k] = "wait"
        <5>1. CASE v = u
          BY <2>1, <4>1, <4>2, <5>1
        <5>2. CASE v # u
          BY <1>t, <4>1, <5>2 DEF NumbersInv
        <5> QED BY <5>1, <5>2
      <4> QED BY <3>3, <4>3 DEF NumbersInv
    <3>5. \A q \in Reqs : \/ sess'[q] = sess[q]
                         \/ /\ sess'[q].op = sess[q].op /\ sess'[q].user = sess[q].user
                            /\ sess'[q].verified = sess[q].verified /\ sess'[q].pc = "committed"
      BY <3>3, <1>t DEF Goto, TypeOK, Session
    <3>6. ClaimsInv'
      <4>1. users' = users /\ verified \subseteq verified'
        BY <3>3
      <4> QED BY <4>1, <3>5, <1>t, ClaimsKept
    <3> QED BY <3>4, <3>6
  <2> QED BY <2>2, <2>3
<1>9. ASSUME NEW r \in Reqs, NEW u \in Users, ResendRead(r, u)
      PROVE  NumbersInv' /\ ClaimsInv'
  BY <1>9, <1>n, <1>o DEF ResendRead, db
<1>10. ASSUME NEW r \in Reqs, NEW j \in JobIds, NEW s \in JOB_STATUSES, WaitOrderly,
              status[j] # "none", SetStatus(r, j, s)
       PROVE  NumbersInv' /\ ClaimsInv'
  <2>1. /\ UNCHANGED <<users, verified, owner>>
        /\ \A k \in JobIds : /\ status'[k] = "none" <=> status[k] = "none"
                             /\ status'[k] = "wait" <=> status[k] = "wait"
        /\ \A q \in Reqs : sess'[q] = sess[q] \/ sess'[q].op = "admin"
    BY <1>10, <1>t, PanelKeepsWaits
  <2>2. NumbersInv'
    <3>1. NumbersInv /\ UNCHANGED <<users, verified, owner>>
      BY <1>t, <2>1
    <3>2. \A k \in JobIds : /\ status'[k] = "none" <=> status[k] = "none"
                            /\ status'[k] = "wait" <=> status[k] = "wait"
      BY <2>1
    <3> QED BY <3>1, <3>2, NumbersKept
  <2> QED BY <1>t, <2>1, <2>2, ClaimsKept
<1>11. ASSUME NEW j \in JobIds, Render(j) \/ Watchdog(j)
       PROVE  NumbersInv' /\ ClaimsInv'
  <2>1. /\ status[j] \notin {"none", "wait"} /\ UNCHANGED <<users, verified, owner, sess>>
        /\ \E x \in JOB_STATUSES \ {"wait"} : status' = [status EXCEPT ![j] = x]
    BY <1>11, <1>t, StageEffect DEF Entries
  <2>2. NumbersInv'
    BY <1>t, <2>1, NumbersKept DEF TypeOK, JOB_STATUSES
  <2> QED BY <1>t, <2>1, <2>2, ClaimsKept
<1>12. ASSUME \/ \E u \in Users : PendingExpires(u)
              \/ \E o \in OtpIds : OtpAges(o)
              \/ \E v \in FlagValues : SetFlag(v)
              \/ UNCHANGED vars
       PROVE  NumbersInv' /\ ClaimsInv'
  <2>1. UNCHANGED <<users, verified, owner, status, sess>>
    BY <1>12 DEF PendingExpires, OtpAges, SetFlag, vars, db
  <2> QED BY <1>n, <1>t, <2>1, ClaimsKept
<1>13. AdminStatuses \union {"sent"} \subseteq JOB_STATUSES
  BY EntryAssumption DEF JOB_STATUSES
<1>14. ASSUME NEW r \in Reqs, VerifyFlag(r)
       PROVE  NumbersInv' /\ ClaimsInv'
  <2>1. UNCHANGED <<users, verified, owner, status>>
    BY <1>14, <1>t, FlagEffect
  <2>2. \A q \in Reqs : \/ sess'[q] = sess[q]
                       \/ /\ sess'[q].op = sess[q].op /\ sess'[q].user = sess[q].user
                          /\ sess'[q].verified = sess[q].verified
                          /\ sess'[q].pc \in {"committed", "flagged"}
    BY <1>14, <1>t, FlagEffect
  <2> QED BY <2>1, <2>2, <1>n, <1>t, ClaimsKept
<1> QED
  BY <1>1, <1>2, <1>3, <1>4, <1>5, <1>6, <1>7, <1>8, <1>9, <1>10, <1>11, <1>12, <1>13, <1>14
     DEF Next, Submit, Verify, Resend, Panel, AdminUpdate, SendVideo

LEMMA OrderlyIsSpec == OrderlySpec => Spec
<1>1. [Next /\ WaitOrderly]_vars => [Next]_vars
  OBVIOUS
<1> QED BY <1>1, PTL DEF OrderlySpec, Spec

LEMMA WaitInvHolds == OrderlySpec => []WaitInv
<1>1. Init => WaitInv
  <2> SUFFICES ASSUME Init PROVE WaitInv
    OBVIOUS
  <2>1. \A r \in Reqs : sess[r].op = "none"
    BY DEF Init, Idle
  <2>2. ClaimsInv
    BY <2>1 DEF ClaimsInv, At, Allocated, LocksUser
  <2>3. NumbersInv
    BY DEF Init, NumbersInv, JobsOf, Waiting
  <2> QED BY <2>2, <2>3 DEF WaitInv
<1>2. Inv /\ WaitInv /\ [Next /\ WaitOrderly]_vars => WaitInv'
  BY WaitInvInductive
<1> QED BY InvHolds, OrderlyIsSpec, <1>1, <1>2, PTL DEF OrderlySpec

\* auth.py, README "Entry lifecycle": as long as the panel and the deliveries leave
\* `wait` to the OTP, a verified number has no entry there, however its submits,
\* verifications, resends and failures overlap.
THEOREM NoEntryIsLeftWaiting == OrderlySpec => []WaitMeansUnverified
<1>1. Inv /\ WaitInv => WaitMeansUnverified
  BY DEF Inv, EntryInv, RowsInv, WaitInv, NumbersInv, WaitMeansUnverified, Waiting, JobsOf, Entries
<1> QED BY InvHolds, OrderlyIsSpec, WaitInvHolds, <1>1, PTL

-----------------------------------------------------------------------------
(* What the sources state, for a number whose requests are one by one *)

\* q goes on with what it has read, and the rows of its number stand as they were.
Undisturbed(q, u) ==
  /\ InTransaction(q) /\ sess[q].user = u /\ sess'[q].user = u
  /\ sess'[q].op = sess[q].op /\ sess'[q].count = sess[q].count
  /\ sess'[q].verified = sess[q].verified
  /\ \/ sess'[q] = sess[q]
     \/ sess[q].op = "submit" /\ ~(sess[q].pc = "read" /\ sess[q].job # 0)
     \/ sess[q].op = "verify" /\ sess'[q].job = sess[q].job
  /\ video_count'[u] = video_count[u]
  /\ JobsOf(u)' = JobsOf(u) /\ Waiting(u)' = Waiting(u)

\* q has read its number's rows in this very step.
JustRead(q, u) ==
  /\ sess'[q].user = u /\ sess'[q].pc = "read" /\ sess'[q].count = video_count[u]
  /\ UNCHANGED <<owner, video_count, status>>
  /\ sess'[q].op = "verify" /\ sess'[q].job # 0 => status[sess'[q].job] = "wait"
  /\ sess'[q].op = "submit" /\ sess'[q].verified /\ ~AllowMultiple =>
       /\ u \in UnlimitedNumbers \/ sess'[q].count < MaxVideos
       /\ InFlight(u) = {} \/ sess'[q].job # 0

\* A step of the panel, the renderer or a request that no count looks at.
Harmless ==
  /\ UNCHANGED <<owner, video_count>>
  /\ \A j \in JobIds :
       /\ status'[j] = "none" <=> status[j] = "none"
       /\ status'[j] = "wait" <=> status[j] = "wait"

\* The rows of other numbers are out of a commit's reach.
LEMMA OthersRows ==
  ASSUME TypeOK, NEW u \in Users, NEW v \in Users, u # v, NEW j \in JobIds,
         status[j] = "none" \/ owner[j] = u, owner'[j] = u,
         \A k \in JobIds \ {j} : status'[k] = status[k] /\ owner'[k] = owner[k]
  PROVE  JobsOf(v)' = JobsOf(v) /\ Waiting(v)' = Waiting(v)
<1>1. JobsOf(v)' = JobsOf(v)
  BY DEF JobsOf
<1>2. \A k \in JobsOf(v) : status'[k] = status[k]
  BY DEF JobsOf
<1> QED BY <1>1, <1>2 DEF Waiting

LEMMA HarmlessRows ==
  ASSUME Harmless, NEW u
  PROVE  JobsOf(u)' = JobsOf(u) /\ Waiting(u)' = Waiting(u)
<1>1. JobsOf(u)' = JobsOf(u)
  BY DEF Harmless, JobsOf
<1>2. \A k \in JobsOf(u) : status'[k] = "wait" <=> status[k] = "wait"
  BY DEF Harmless, JobsOf
<1> QED BY <1>1, <1>2 DEF Waiting

\* What the three commits do to the rows and to their session.
LEMMA CommitWaitEffect ==
  ASSUME Inv, WaitInv, NEW r \in Reqs, SubmitCommitWait(r),
         NEW u, u = SessionUser(r), NEW j, j = sess[r].job
  PROVE  /\ u \in Users /\ j \in JobIds /\ status[j] = "none" /\ JobsOf(u) = {}
         /\ status'[j] = "wait" /\ owner'[j] = u
         /\ \A k \in JobIds \ {j} : status'[k] = status[k] /\ owner'[k] = owner[k]
         /\ video_count' = video_count
         /\ InTransaction(r) /\ \A q \in Reqs \ {r} : sess'[q] = sess[q]
         /\ sess'[r].op = "none"
<1>t. TypeOK
  BY DEF Inv, TypeInv
<1>1. /\ j \in JobIds /\ u \in Users /\ Allocated(r) /\ ~sess[r].verified
      /\ sess[r].op = "submit" /\ sess[r].pc = "uploaded"
  BY Named DEF SubmitCommitWait, Inv, Allocated, LocksUser, SessionUser, Staged, At
<1>2. status[j] = "none" /\ u \notin users
  BY <1>1 DEF WaitInv, ClaimsInv, Inv, EntryInv, IdsInv
<1>3. JobsOf(u) = {}
  BY <1>1, <1>2 DEF WaitInv, NumbersInv
<1>4. /\ status'[j] = "wait" /\ owner'[j] = u
      /\ \A k \in JobIds \ {j} : status'[k] = status[k] /\ owner'[k] = owner[k]
      /\ video_count' = video_count
  BY <1>t, <1>1 DEF SubmitCommitWait, InsertJob, TypeOK
<1>5. sess'[r].op = "none" /\ \A q \in Reqs \ {r} : sess'[q] = sess[q]
  BY <1>t DEF SubmitCommitWait, Close, Idle, TypeOK
<1> QED BY <1>1, <1>2, <1>3, <1>4, <1>5 DEF InTransaction

LEMMA CommitEntryEffect ==
  ASSUME Inv, NEW r \in Reqs, SubmitCommitEntry(r),
         NEW u, u = SessionUser(r), NEW j, j = sess[r].job
  PROVE  /\ u \in Users /\ j \in JobIds /\ status[j] = "none"
         /\ status'[j] \in JOB_STATUSES \ {"wait"} /\ owner'[j] = u
         /\ \A k \in JobIds \ {j} : status'[k] = status[k] /\ owner'[k] = owner[k]
         /\ video_count' = [video_count EXCEPT ![u] = sess[r].count + 1]
         /\ InTransaction(r) /\ \A q \in Reqs \ {r} : sess'[q] = sess[q]
         /\ sess[r].op = "submit" /\ sess[r].pc = "uploaded" /\ sess[r].verified
         /\ sess'[r].pc = "committed"
<1> DEFINE x == EntryStatus(u, FlagAtSubmit(r))
<1>t. TypeOK
  BY DEF Inv, TypeInv
<1>1. /\ x \in JOB_STATUSES \ {"wait"} /\ u \in Users /\ j \in JobIds /\ Allocated(r)
      /\ sess[r].op = "submit" /\ sess[r].pc = "uploaded" /\ sess[r].verified
  BY Named, EntryStatusListed
     DEF SubmitCommitEntry, Staged, At, FlagAtSubmit, Inv, Allocated, LocksUser, SessionUser
<1>2. status[j] = "none"
  BY <1>1 DEF Inv, EntryInv, IdsInv
<1>3. InsertJob(r, x) /\ video_count' = [video_count EXCEPT ![u] = sess[r].count + 1]
  BY DEF SubmitCommitEntry, CountAfter
<1> HIDE DEF x
<1>4. /\ status'[j] = x /\ owner'[j] = u
      /\ \A k \in JobIds \ {j} : status'[k] = status[k] /\ owner'[k] = owner[k]
  BY <1>t, <1>1, <1>3 DEF InsertJob, TypeOK
<1>5. sess'[r].pc = "committed" /\ \A q \in Reqs \ {r} : sess'[q] = sess[q]
  BY <1>t DEF SubmitCommitEntry, Goto, TypeOK, Session
<1> QED BY <1>1, <1>2, <1>3, <1>4, <1>5 DEF InTransaction

LEMMA VerifyCommitEffect ==
  ASSUME Inv, NEW r \in Reqs, VerifyCommit(r),
         NEW u, u = SessionUser(r), NEW j, j = sess[r].job, j # 0
  PROVE  /\ u \in users /\ u \in Users /\ j \in JobsOf(u) /\ owner' = owner
         /\ status'[j] \in JOB_STATUSES \ {"wait"}
         /\ \A k \in JobIds \ {j} : status'[k] = status[k]
         /\ video_count' = [video_count EXCEPT ![u] = sess[r].count + 1]
         /\ InTransaction(r) /\ \A q \in Reqs \ {r} : sess'[q] = sess[q]
         /\ sess[r].op = "verify" /\ sess[r].pc = "flagged"
         /\ sess'[r].pc = "committed"
<1> DEFINE x == EntryStatus(u, sess[r].flag)
<1>t. TypeOK /\ users \subseteq Users
  BY DEF Inv, TypeInv, TypeOK
<1>1. u \in users /\ u \in Users /\ sess[r].op = "verify" /\ sess[r].pc = "flagged"
  BY <1>t, Named DEF VerifyCommit, At, Inv
<1>2. x \in JOB_STATUSES \ {"wait"}
  BY Named, EntryStatusListed DEF VerifyCommit, At, Inv
<1>3. j \in JobsOf(u)
  BY <1>1 DEF Inv, EntryInv, RowsInv, Allocated, LocksUser
<1>4. /\ status' = [status EXCEPT ![j] = x] /\ owner' = owner
      /\ video_count' = [video_count EXCEPT ![u] = sess[r].count + 1] /\ Goto(r, "committed")
  BY DEF VerifyCommit, CountAfter
<1> HIDE DEF x
<1>5. status'[j] = x /\ \A k \in JobIds \ {j} : status'[k] = status[k]
  BY <1>t, <1>3, <1>4 DEF JobsOf, TypeOK
<1>6. sess'[r].pc = "committed" /\ \A q \in Reqs \ {r} : sess'[q] = sess[q]
  BY <1>t, <1>4 DEF Goto, TypeOK, Session
<1> QED BY <1>1, <1>2, <1>3, <1>4, <1>5, <1>6 DEF InTransaction

\* No finished entry goes back to work.
NoRevival == \A j \in Entries : status[j] \in {"sent", "failed"} => status'[j] \in {"sent", "failed"}

\* Every step is one of the three commits, or harmless: then it puts a finished entry
\* back to work only if the panel does.
LEMMA OrderlySteps ==
  ASSUME Inv, WaitInv, [Next /\ WaitOrderly]_vars
  PROVE  \/ Harmless /\ (FinishedForGood => NoRevival)
         \/ \E r \in Reqs : \/ SubmitCommitWait(r) \/ SubmitCommitEntry(r)
                            \/ VerifyCommit(r) /\ sess[r].job # 0
<1>t. TypeOK /\ NumbersInv /\ AdminStatuses \union {"sent"} \subseteq JOB_STATUSES
  BY EntryAssumption DEF Inv, TypeInv, WaitInv, JOB_STATUSES
<1>1. ASSUME UNCHANGED <<owner, video_count, status>>
      PROVE  Harmless /\ NoRevival
  BY <1>1 DEF Harmless, NoRevival
<1>2. ASSUME \/ \E r \in Reqs :
                  \/ \E u \in Users : SubmitRead(r, u) \/ VerifyRead(r, u) \/ ResendRead(r, u)
                  \/ SubmitReissue(r) \/ SubmitPending(r) \/ SubmitFlush(r) \/ SubmitUpload(r)
                  \/ VerifyFlag(r) \/ (VerifyCommit(r) /\ sess[r].job = 0)
                  \/ CachePending(r) \/ ResendCommit(r) \/ ClearPending(r) \/ Fail(r)
             \/ \E o \in OtpIds : OtpAges(o)
             \/ \E u \in Users : PendingExpires(u)
             \/ \E v \in FlagValues : SetFlag(v)
             \/ UNCHANGED vars
      PROVE  Harmless /\ NoRevival
  <2>1. UNCHANGED <<owner, video_count, status>>
    BY <1>2 DEF SubmitRead, VerifyRead, ResendRead, SubmitReissue, SubmitPending, SubmitFlush,
                SubmitUpload, VerifyFlag, VerifyCommit, CachePending, ResendCommit, ClearPending, Fail,
                OtpAges, PendingExpires, SetFlag, vars, db
  <2> QED BY <1>1, <2>1
<1>3. ASSUME NEW r \in Reqs, NEW j \in JobIds, NEW s \in JOB_STATUSES, WaitOrderly,
             status[j] # "none", SetStatus(r, j, s)
      PROVE  /\ Harmless
             /\ (status[j] \in {"sent", "failed"} => s \in {"sent", "failed"}) => NoRevival
  <2>1. Harmless
    BY <1>3, <1>t, PanelKeepsWaits DEF Harmless
  <2>2. \A k \in JobIds : status'[k] = IF k = j THEN s ELSE status[k]
    BY <1>3, <1>t DEF SetStatus, TypeOK
  <2> QED BY <2>1, <2>2 DEF NoRevival, Entries
<1>4. ASSUME NEW r \in Reqs, NEW j \in JobIds, WaitOrderly,
             SendVideo(r, j) \/ \E s \in AdminStatuses : AdminUpdate(r, j, s)
      PROVE  Harmless /\ (FinishedForGood => NoRevival)
  <2>1. CASE SendVideo(r, j)
    BY <1>3, <1>4, <1>t, <2>1 DEF SendVideo
  <2>2. CASE \E s \in AdminStatuses : AdminUpdate(r, j, s)
    <3>1. PICK s \in AdminStatuses : AdminUpdate(r, j, s)
      BY <2>2
    <3>2. FinishedForGood /\ status[j] \in {"sent", "failed"} => s \in {"sent", "failed"}
      BY <3>1 DEF FinishedForGood
    <3> QED BY <1>3, <1>4, <1>t, <3>1, <3>2 DEF AdminUpdate
  <2> QED BY <1>4, <2>1, <2>2
<1>5. ASSUME NEW j \in JobIds, Render(j) \/ Watchdog(j)
      PROVE  Harmless /\ NoRevival
  BY <1>5, <1>t, StageEffect DEF TypeOK, Harmless, NoRevival, Entries, JOB_STATUSES
<1> QED
  BY <1>2, <1>4, <1>5 DEF Next, Submit, Verify, Resend, Panel

\* One by one, no step comes between what a transaction has read and what it
\* writes: the reads themselves apart, every open transaction is undisturbed.
LEMMA SerialSessions ==
  ASSUME Inv, WaitInv, OneByOne, [Next /\ WaitOrderly]_vars, NEW q \in Reqs, InTransaction(q)'
  PROVE  \E u \in Users : Undisturbed(q, u) \/ JustRead(q, u)
<1>t. TypeOK /\ NumbersInv /\ sess[q] \in Session
  BY DEF Inv, TypeInv, TypeOK, WaitInv
<1>u. InTransaction(q) => sess[q].user \in Users
  BY DEF Inv, TypeInv, SessionTyped, SessionUser, InTransaction
<1>s. ASSUME sess'[q] = sess[q], NEW u, u = sess[q].user, video_count'[u] = video_count[u],
             JobsOf(u)' = JobsOf(u), Waiting(u)' = Waiting(u)
      PROVE  \E v \in Users : Undisturbed(q, v)
  <2>1. InTransaction(q)
    BY <1>s DEF InTransaction
  <2> QED BY <1>s, <1>u, <2>1 DEF Undisturbed
<1>h. ASSUME sess'[q] = sess[q], Harmless
      PROVE  \E v \in Users : Undisturbed(q, v)
  <2> DEFINE u == sess[q].user
  <2>1. video_count'[u] = video_count[u]
    BY <1>h DEF Harmless
  <2> QED BY <1>h, <1>s, <2>1, HarmlessRows
<1>o. UNCHANGED <<owner, video_count, status>> => Harmless
  BY DEF Harmless
\* A commit of another request is of another number.
<1>c. ASSUME NEW r \in Reqs, NEW u \in Users, u = SessionUser(r), NEW j \in JobIds,
             InTransaction(r), sess'[r].op = "none" \/ sess'[r].pc = "committed",
             \A p \in Reqs \ {r} : sess'[p] = sess[p],
             status[j] = "none" \/ owner[j] = u, owner'[j] = u,
             \A k \in JobIds \ {j} : status'[k] = status[k] /\ owner'[k] = owner[k],
             \A v \in Users \ {u} : video_count'[v] = video_count[v]
      PROVE  \E v \in Users : Undisturbed(q, v)
  <2>1. q # r
    BY <1>c DEF InTransaction
  <2>2. sess'[q] = sess[q] /\ InTransaction(q)
    BY <1>c, <2>1 DEF InTransaction
  <2>3. PICK v \in Users : v = sess[q].user
    BY <1>u, <2>2
  <2>4. v # u
    BY <1>c, <2>1, <2>2, <2>3 DEF OneByOne, SessionUser
  <2>5. JobsOf(v)' = JobsOf(v) /\ Waiting(v)' = Waiting(v)
    BY <1>c, <1>t, <2>4, OthersRows
  <2> QED BY <1>c, <1>s, <2>2, <2>3, <2>4, <2>5
<1>r. ASSUME NEW r \in Reqs, NEW op \in {"submit", "verify", "resend"}, NEW u \in Users,
             NEW j, NEW o, NEW f, Open(r, op, u, j, o, f),
             UNCHANGED <<owner, video_count, status>>,
             op = "verify" /\ j # 0 => status[j] = "wait",
             op = "submit" /\ u \in verified /\ ~AllowMultiple =>
               /\ u \in UnlimitedNumbers \/ video_count[u] < MaxVideos
               /\ InFlight(u) = {} \/ j # 0
      PROVE  \E v \in Users : Undisturbed(q, v) \/ JustRead(q, v)
  <2>1. CASE q = r
    <3>1. /\ sess'[q].op = op /\ sess'[q].pc = "read" /\ sess'[q].user = u /\ sess'[q].job = j
          /\ sess'[q].verified = (u \in verified) /\ sess'[q].count = video_count[u]
      BY <1>r, <1>t, <2>1 DEF Open, TypeOK
    <3>2. sess'[q].verified => u \in verified
      BY <3>1
    <3> QED BY <1>r, <3>1, <3>2 DEF JustRead
  <2>2. CASE q # r
    BY <1>r, <1>t, <1>h, <1>o, <2>2 DEF Open, TypeOK
  <2> QED BY <2>1, <2>2
<1>1. ASSUME NEW r \in Reqs, NEW u \in Users, SubmitRead(r, u)
      PROVE  \E v \in Users : Undisturbed(q, v) \/ JustRead(q, v)
  <2>1. PICK j \in FirstOf(IF u \notin verified THEN Waiting(u)
                           ELSE IF AllowMultiple THEN {} ELSE InFlight(u)),
             f \in FlagRead :
          Open(r, "submit", u, j, 0, f)
    BY <1>1 DEF SubmitRead
  <2>2. UNCHANGED <<owner, video_count, status>>
    BY <1>1 DEF SubmitRead, db
  <2>3. ASSUME u \in verified, ~AllowMultiple
        PROVE  /\ u \in UnlimitedNumbers \/ video_count[u] < MaxVideos
               /\ InFlight(u) = {} \/ j # 0
    <3>1. u \in UnlimitedNumbers \/ ~(video_count[u] >= MaxVideos)
      BY <1>1, <1>t, <2>3 DEF SubmitRead, CapReached, Inv, TypeInv, TypeOK
    <3>2. video_count[u] \in Nat /\ MaxVideos \in Nat
      BY <1>t, EntryAssumption DEF TypeOK
    <3>3. InFlight(u) = {} \/ j # 0
      BY <2>1, <2>3 DEF FirstOf, InFlight, JobsOf, JobIds
    <3> QED BY <3>1, <3>2, <3>3
  <2> QED BY <1>r, <2>1, <2>2, <2>3
<1>2. ASSUME NEW r \in Reqs, NEW u \in Users, VerifyRead(r, u)
      PROVE  \E v \in Users : Undisturbed(q, v) \/ JustRead(q, v)
  <2>1. PICK o \in OtpIds, j \in FirstOf(Waiting(u)) : Open(r, "verify", u, j, o, FALSE)
    BY <1>2 DEF VerifyRead
  <2>2. UNCHANGED <<owner, video_count, status>> /\ (j # 0 => status[j] = "wait")
    BY <1>2, <2>1 DEF VerifyRead, db, FirstOf, Waiting
  <2> QED BY <1>r, <2>1, <2>2
<1>3. ASSUME NEW r \in Reqs, NEW u \in Users, ResendRead(r, u)
      PROVE  \E v \in Users : Undisturbed(q, v) \/ JustRead(q, v)
  BY <1>3, <1>r DEF ResendRead, db
<1>4. ASSUME NEW r \in Reqs,
             SubmitReissue(r) \/ SubmitPending(r) \/ ResendCommit(r) \/ CachePending(r)
             \/ ClearPending(r) \/ Fail(r) \/ (VerifyCommit(r) /\ sess[r].job = 0)
      PROVE  \E v \in Users : Undisturbed(q, v)
  <2>1. Close(r) /\ UNCHANGED <<owner, video_count, status>>
    BY <1>4 DEF SubmitReissue, SubmitPending, ResendCommit, CachePending, ClearPending, Fail, db,
                VerifyCommit
  <2>2. sess'[q] = sess[q]
    BY <1>t, <2>1 DEF Close, Idle, TypeOK, InTransaction
  <2> QED BY <1>h, <1>o, <2>1, <2>2
<1>5. ASSUME NEW r \in Reqs, SubmitFlush(r) \/ SubmitUpload(r)
      PROVE  \E v \in Users : Undisturbed(q, v)
  <2>1. UNCHANGED <<owner, video_count, status>>
    BY <1>5 DEF SubmitFlush, SubmitUpload, db
  <2>2. CASE q # r
    BY <1>5, <1>t, <1>h, <1>o, <2>1, <2>2 DEF SubmitFlush, SubmitUpload, Goto, TypeOK
  <2>3. CASE q = r
    <3>1. /\ sess[q].op = "submit" /\ sess'[q].op = "submit" /\ sess[q].pc # "committed"
          /\ ~(sess[q].pc = "read" /\ sess[q].job # 0)
          /\ sess'[q].user = sess[q].user /\ sess'[q].count = sess[q].count
          /\ sess'[q].verified = sess[q].verified
      BY <1>5, <1>t, <2>3 DEF SubmitFlush, SubmitUpload, Goto, At, TypeOK, Session
    <3>2. InTransaction(q)
      BY <3>1 DEF InTransaction
    <3>3. PICK v \in Users : v = sess[q].user
      BY <1>u, <3>2
    <3>4. JobsOf(v)' = JobsOf(v) /\ Waiting(v)' = Waiting(v) /\ video_count'[v] = video_count[v]
      BY <1>o, <2>1, HarmlessRows
    <3>5. Undisturbed(q, v)
      BY <3>1, <3>2, <3>3, <3>4 DEF Undisturbed
    <3> QED BY <3>5
  <2> QED BY <2>2, <2>3
<1>6. ASSUME NEW r \in Reqs, SubmitCommitWait(r)
      PROVE  \E v \in Users : Undisturbed(q, v)
  <2>1. PICK u, j : u = SessionUser(r) /\ j = sess[r].job
    OBVIOUS
  <2>2. /\ u \in Users /\ j \in JobIds /\ status[j] = "none" /\ owner'[j] = u
        /\ \A k \in JobIds \ {j} : status'[k] = status[k] /\ owner'[k] = owner[k]
        /\ video_count' = video_count
        /\ InTransaction(r) /\ \A p \in Reqs \ {r} : sess'[p] = sess[p]
        /\ sess'[r].op = "none"
    BY <1>6, <2>1, CommitWaitEffect
  <2> QED BY <1>c, <2>1, <2>2
<1>7. ASSUME NEW r \in Reqs, SubmitCommitEntry(r)
      PROVE  \E v \in Users : Undisturbed(q, v)
  <2>1. PICK u, j : u = SessionUser(r) /\ j = sess[r].job
    OBVIOUS
  <2>2. /\ u \in Users /\ j \in JobIds /\ status[j] = "none" /\ owner'[j] = u
        /\ \A k \in JobIds \ {j} : status'[k] = status[k] /\ owner'[k] = owner[k]
        /\ video_count' = [video_count EXCEPT ![u] = sess[r].count + 1]
        /\ InTransaction(r) /\ \A p \in Reqs \ {r} : sess'[p] = sess[p]
        /\ sess'[r].pc = "committed"
    BY <1>7, <2>1, CommitEntryEffect
  <2>3. \A v \in Users \ {u} : video_count'[v] = video_count[v]
    BY <1>t, <2>2 DEF TypeOK
  <2> QED BY <1>c, <2>1, <2>2, <2>3
<1>8. ASSUME NEW r \in Reqs, VerifyCommit(r), sess[r].job # 0
      PROVE  \E v \in Users : Undisturbed(q, v)
  <2>1. PICK u, j : u = SessionUser(r) /\ j = sess[r].job
    OBVIOUS
  <2>2. /\ u \in Users /\ j \in JobsOf(u) /\ owner' = owner
        /\ \A k \in JobIds \ {j} : status'[k] = status[k]
        /\ video_count' = [video_count EXCEPT ![u] = sess[r].count + 1]
        /\ InTransaction(r) /\ \A p \in Reqs \ {r} : sess'[p] = sess[p]
        /\ sess'[r].pc = "committed"
    BY <1>8, <2>1, VerifyCommitEffect
  <2>3. j \in JobIds /\ owner[j] = u /\ owner'[j] = u
    BY <2>2 DEF JobsOf
  <2>4. \A v \in Users \ {u} : video_count'[v] = video_count[v]
    BY <1>t, <2>2 DEF TypeOK
  <2> QED BY <1>c, <2>1, <2>2, <2>3, <2>4
<1>9. ASSUME NEW r \in Reqs, NEW j \in JobIds, NEW s \in JOB_STATUSES, WaitOrderly,
             status[j] # "none", SetStatus(r, j, s)
      PROVE  \E v \in Users : Undisturbed(q, v)
  <2>1. Harmless
    BY <1>9, <1>t, PanelKeepsWaits DEF Harmless
  <2>2. sess'[q] = sess[q]
    BY <1>9, <1>t, PanelKeepsWaits DEF InTransaction
  <2> QED BY <1>h, <2>1, <2>2
<1>10. ASSUME NEW j \in JobIds, Render(j) \/ Watchdog(j)
       PROVE  \E v \in Users : Undisturbed(q, v)
  <2>1. Harmless /\ sess' = sess
    BY <1>10, <1>t, StageEffect DEF TypeOK, Harmless, Entries, JOB_STATUSES
  <2> QED BY <1>h, <2>1
<1>11. ASSUME \/ \E u \in Users : PendingExpires(u)
              \/ \E o \in OtpIds : OtpAges(o)
              \/ \E v \in FlagValues : SetFlag(v)
              \/ UNCHANGED vars
       PROVE  \E v \in Users : Undisturbed(q, v)
  <2>1. UNCHANGED <<owner, video_count, status, sess>>
    BY <1>11 DEF PendingExpires, OtpAges, SetFlag, vars, db
  <2> QED BY <1>h, <1>o, <2>1
<1>12. AdminStatuses \union {"sent"} \subseteq JOB_STATUSES
  BY EntryAssumption DEF JOB_STATUSES
<1>13. ASSUME NEW r \in Reqs, VerifyFlag(r)
       PROVE  \E v \in Users : Undisturbed(q, v)
  <2>1. UNCHANGED <<owner, video_count, status>>
    BY <1>13, <1>t, FlagEffect
  <2>2. CASE q # r
    BY <1>13, <1>t, <1>h, <1>o, <2>1, <2>2, FlagEffect
  <2>3. CASE q = r
    <3>1. /\ sess[q].op = "verify" /\ sess'[q].op = "verify" /\ sess[q].pc # "committed"
          /\ sess'[q].user = sess[q].user /\ sess'[q].count = sess[q].count
          /\ sess'[q].verified = sess[q].verified /\ sess'[q].job = sess[q].job
      BY <1>13, <1>t, <2>3, FlagEffect
    <3>2. InTransaction(q)
      BY <3>1 DEF InTransaction
    <3>3. PICK v \in Users : v = sess[q].user
      BY <1>u, <3>2
    <3>4. JobsOf(v)' = JobsOf(v) /\ Waiting(v)' = Waiting(v) /\ video_count'[v] = video_count[v]
      BY <1>o, <2>1, HarmlessRows
    <3>5. Undisturbed(q, v)
      BY <3>1, <3>2, <3>3, <3>4 DEF Undisturbed
    <3> QED BY <3>5
  <2> QED BY <2>2, <2>3
<1> QED
  BY <1>1, <1>2, <1>3, <1>4, <1>5, <1>6, <1>7, <1>8, <1>9, <1>10, <1>11, <1>12, <1>13
     DEF Next, Submit, Verify, Resend, Panel, AdminUpdate, SendVideo

\* The count and the cap, and what they rest on: what an open transaction has read
\* of its number (the count, the waiting entry, the room below the cap) still holds.
CountClaims ==
  \A r \in Reqs : InTransaction(r) =>
    /\ sess[r].count = video_count[SessionUser(r)]
    /\ sess[r].op = "verify" /\ sess[r].job # 0 => status[sess[r].job] = "wait"
    /\ sess[r].op = "submit" /\ sess[r].verified /\ ~AllowMultiple =>
         SessionUser(r) \in UnlimitedNumbers \/ sess[r].count < MaxVideos

CountedInv == CountIsJobCount /\ (MaxVideos # 0 => CapRespected) /\ CountClaims

\* One in flight, and what it rests on: a verified number's submit that will add an
\* entry has seen none in flight, and there still is none.
FlightClaims ==
  \A r \in Reqs :
    InTransaction(r) /\ sess[r].op = "submit" /\ sess[r].verified /\ ~AllowMultiple =>
      InFlight(SessionUser(r)) = {} \/ (sess[r].pc = "read" /\ sess[r].job # 0)

FlightInv == OneInFlight /\ FlightClaims

SerialStep == OneByOne /\ [Next /\ WaitOrderly /\ OneByOne']_vars

\* A verification that finds an entry to promote finds the number's only one.
LEMMA VerifiesTheOnlyEntry ==
  ASSUME Inv, WaitInv, CountedInv, NEW r \in Reqs, VerifyCommit(r),
         NEW u, u = SessionUser(r), NEW j, j = sess[r].job, j # 0
  PROVE  JobsOf(u) = {j} /\ status[j] = "wait" /\ Promoted[u] = {} /\ sess[r].count = 0
<1>1. /\ u \in users /\ u \in Users /\ j \in JobsOf(u) /\ InTransaction(r)
      /\ sess[r].op = "verify"
  BY VerifyCommitEffect
<1>2. status[j] = "wait" /\ sess[r].count = video_count[u]
  BY <1>1 DEF CountedInv, CountClaims
<1>3. j \in Waiting(u)
  BY <1>1, <1>2 DEF Waiting
<1>4. JobsOf(u) = {j}
  BY <1>1, <1>3 DEF WaitInv, NumbersInv
<1>5. Promoted[u] = {}
  BY <1>1, <1>2, <1>4 DEF Promoted
<1>6. video_count[u] = 0
  BY <1>1, <1>5, FS_EmptySet DEF CountedInv, CountIsJobCount
<1> QED BY <1>2, <1>4, <1>5, <1>6

\* So when requests of a number do not overlap, only the panel can put a finished
\* entry back to work.
LEMMA SerialNoRevival ==
  ASSUME Inv, WaitInv, CountedInv, [Next /\ WaitOrderly]_vars, [FinishedForGood]_vars
  PROVE  NoRevival
<1>1. CASE UNCHANGED vars
  BY <1>1 DEF NoRevival, vars, db
<1>2. CASE Harmless /\ (FinishedForGood => NoRevival)
  BY <1>1, <1>2
<1>3. ASSUME NEW r \in Reqs, SubmitCommitWait(r) \/ SubmitCommitEntry(r)
      PROVE  NoRevival
  <2>1. /\ status[sess[r].job] = "none"
        /\ \A k \in JobIds \ {sess[r].job} : status'[k] = status[k]
    BY <1>3, CommitWaitEffect, CommitEntryEffect
  <2> QED BY <2>1 DEF NoRevival, Entries
<1>4. ASSUME NEW r \in Reqs, VerifyCommit(r), sess[r].job # 0
      PROVE  NoRevival
  <2>1. /\ status[sess[r].job] = "wait"
        /\ \A k \in JobIds \ {sess[r].job} : status'[k] = status[k]
    BY <1>4, VerifiesTheOnlyEntry, VerifyCommitEffect
  <2> QED BY <2>1 DEF NoRevival, Entries
<1> QED BY <1>1, <1>2, <1>3, <1>4, OrderlySteps

\* Every step keeps the columns equal to the counts and within the cap.
LEMMA CountRowsStep ==
  ASSUME Inv, WaitInv, CountedInv, [Next /\ WaitOrderly]_vars
  PROVE  CountIsJobCount' /\ (MaxVideos # 0 => CapRespected')
<1>t. TypeOK /\ MaxVideos \in Nat
  BY EntryAssumption DEF Inv, TypeInv
<1>i. /\ \A u \in Users : video_count[u] = Cardinality(Promoted[u])
      /\ MaxVideos # 0 /\ ~AllowMultiple =>
           \A u \in Users \ UnlimitedNumbers : Cardinality(Promoted[u]) <= MaxVideos
  BY DEF CountedInv, CountIsJobCount, CapRespected
<1>k. ASSUME video_count' = video_count, \A u \in Users : Promoted'[u] = Promoted[u]
      PROVE  CountIsJobCount' /\ (MaxVideos # 0 => CapRespected')
  BY <1>i, <1>k DEF CountIsJobCount, CapRespected
\* One more entry of u, one more in the column, and room for it.
<1>a. ASSUME NEW u \in Users, NEW j, j \notin Promoted[u],
             Promoted'[u] = Promoted[u] \union {j},
             \A v \in Users \ {u} : Promoted'[v] = Promoted[v],
             video_count' = [video_count EXCEPT ![u] = video_count[u] + 1],
             MaxVideos # 0 /\ ~AllowMultiple => u \in UnlimitedNumbers \/ video_count[u] < MaxVideos
      PROVE  CountIsJobCount' /\ (MaxVideos # 0 => CapRespected')
  <2>1. IsFiniteSet(Promoted[u])
    BY EntriesFinite
  <2>2. Cardinality(Promoted'[u]) = Cardinality(Promoted[u]) + 1
    BY <1>a, <2>1, FS_AddElement
  <2>3. /\ video_count'[u] = video_count[u] + 1 /\ video_count[u] \in Nat
        /\ \A v \in Users \ {u} : video_count'[v] = video_count[v]
    BY <1>a, <1>t DEF TypeOK
  <2>4. \A v \in Users : video_count'[v] = Cardinality(Promoted'[v])
    BY <1>a, <1>i, <2>2, <2>3
  <2>5. MaxVideos # 0 /\ ~AllowMultiple /\ u \notin UnlimitedNumbers
          => video_count'[u] <= MaxVideos
    BY <1>a, <1>t, <2>3
  <2> QED BY <1>a, <1>i, <2>4, <2>5 DEF CountIsJobCount, CapRespected
<1>1. CASE Harmless
  <2>1. \A u \in Users : Promoted'[u] = Promoted[u]
    BY <1>1 DEF Harmless, Promoted, JobsOf
  <2> QED BY <1>1, <1>k, <2>1 DEF Harmless
<1>2. CASE \E r \in Reqs : SubmitCommitWait(r)
  <2>0. PICK r \in Reqs : SubmitCommitWait(r)
    BY <1>2
  <2>1. PICK u, j : SubmitCommitWait(r) /\ u = SessionUser(r) /\ j = sess[r].job
    BY <2>0
  <2>2. /\ j \in JobIds /\ status[j] = "none" /\ status'[j] = "wait"
        /\ \A k \in JobIds \ {j} : status'[k] = status[k] /\ owner'[k] = owner[k]
        /\ video_count' = video_count
    BY <2>1, CommitWaitEffect
  <2>3. \A v \in Users : Promoted'[v] = Promoted[v]
    BY <2>2 DEF Promoted, JobsOf
  <2> QED BY <1>k, <2>2, <2>3
<1>3. CASE \E r \in Reqs : SubmitCommitEntry(r)
  <2>0. PICK r \in Reqs : SubmitCommitEntry(r)
    BY <1>3
  <2>1. PICK u, j : SubmitCommitEntry(r) /\ u = SessionUser(r) /\ j = sess[r].job
    BY <2>0
  <2>2. /\ u \in Users /\ j \in JobIds /\ status[j] = "none"
        /\ status'[j] \in JOB_STATUSES \ {"wait"} /\ owner'[j] = u
        /\ \A k \in JobIds \ {j} : status'[k] = status[k] /\ owner'[k] = owner[k]
        /\ video_count' = [video_count EXCEPT ![u] = sess[r].count + 1]
        /\ InTransaction(r) /\ sess[r].op = "submit" /\ sess[r].verified
    BY <2>1, CommitEntryEffect
  <2>3. /\ sess[r].count = video_count[u]
        /\ ~AllowMultiple => u \in UnlimitedNumbers \/ video_count[u] < MaxVideos
    BY <2>1, <2>2 DEF CountedInv, CountClaims
  <2>4. status'[j] # "none" /\ status'[j] # "wait"
    BY <2>2 DEF JOB_STATUSES
  <2>5. Promoted'[u] = Promoted[u] \union {j} /\ j \notin Promoted[u]
    BY <2>2, <2>4 DEF Promoted, JobsOf
  <2>6. \A v \in Users \ {u} : Promoted'[v] = Promoted[v]
    BY <2>2 DEF Promoted, JobsOf
  <2> QED BY <1>a, <2>2, <2>3, <2>5, <2>6
<1>4. CASE \E r \in Reqs : VerifyCommit(r) /\ sess[r].job # 0
  <2>0. PICK r \in Reqs : VerifyCommit(r) /\ sess[r].job # 0
    BY <1>4
  <2>1. PICK u, j : VerifyCommit(r) /\ u = SessionUser(r) /\ j = sess[r].job /\ j # 0
    BY <2>0
  <2>2. /\ u \in Users /\ j \in JobsOf(u) /\ owner' = owner
        /\ status'[j] \in JOB_STATUSES \ {"wait"}
        /\ \A k \in JobIds \ {j} : status'[k] = status[k]
        /\ video_count' = [video_count EXCEPT ![u] = sess[r].count + 1]
    BY <2>1, VerifyCommitEffect
  <2>3. JobsOf(u) = {j} /\ status[j] = "wait" /\ Promoted[u] = {} /\ sess[r].count = 0
    BY <2>1, VerifiesTheOnlyEntry
  <2>4. video_count[u] = 0
    BY <1>i, <2>2, <2>3, FS_EmptySet
  <2>5. /\ status'[j] # "none" /\ status'[j] # "wait"
        /\ j \in JobIds /\ owner[j] = u /\ status[j] # "none"
    BY <2>2 DEF JOB_STATUSES, JobsOf
  <2>6. Promoted'[u] = {j} /\ \A v \in Users \ {u} : Promoted'[v] = Promoted[v]
    <3>1. JobsOf(u)' = {j}
      BY <2>2, <2>3, <2>5 DEF JobsOf
    <3>2. Promoted'[u] = {j}
      BY <2>2, <2>5, <3>1 DEF Promoted
    <3>3. \A v \in Users \ {u} : Promoted'[v] = Promoted[v]
      BY <2>2, <2>5 DEF Promoted, JobsOf
    <3> QED BY <3>2, <3>3
  <2>7. MaxVideos # 0 => video_count[u] < MaxVideos
    BY <1>t, <2>4
  <2> QED BY <1>a, <2>2, <2>3, <2>4, <2>6, <2>7
<1> QED BY <1>1, <1>2, <1>3, <1>4, OrderlySteps

LEMMA CountedInductive == Inv /\ WaitInv /\ CountedInv /\ SerialStep => CountedInv'
<1> SUFFICES ASSUME Inv, WaitInv, CountedInv, SerialStep
             PROVE  CountedInv'
  OBVIOUS
<1>1. OneByOne /\ [Next /\ WaitOrderly]_vars
  BY DEF SerialStep
<1>2. CountIsJobCount' /\ (MaxVideos # 0 => CapRespected')
  BY <1>1, CountRowsStep
<1>3. ASSUME NEW q \in Reqs, InTransaction(q)', NEW u, u = sess'[q].user
      PROVE  /\ sess'[q].count = video_count'[u]
             /\ sess'[q].op = "verify" /\ sess'[q].job # 0 => status'[sess'[q].job] = "wait"
             /\ sess'[q].op = "submit" /\ sess'[q].verified /\ ~AllowMultiple =>
                  u \in UnlimitedNumbers \/ sess'[q].count < MaxVideos
  <2>1. PICK v \in Users : Undisturbed(q, v) \/ JustRead(q, v)
    BY <1>1, <1>3, SerialSessions
  <2>2. CASE JustRead(q, v)
    BY <1>3, <2>2 DEF JustRead
  <2>3. CASE Undisturbed(q, v)
    <3>1. v = u /\ InTransaction(q) /\ sess[q].user = u
      BY <1>3, <2>3 DEF Undisturbed
    <3>2. /\ sess[q].count = video_count[u]
          /\ sess[q].op = "verify" /\ sess[q].job # 0 => status[sess[q].job] = "wait"
          /\ sess[q].op = "submit" /\ sess[q].verified /\ ~AllowMultiple =>
               u \in UnlimitedNumbers \/ sess[q].count < MaxVideos
      BY <3>1 DEF CountedInv, CountClaims, SessionUser
    <3>3. ASSUME sess'[q].op = "verify", sess'[q].job # 0
          PROVE  status'[sess'[q].job] = "wait"
      <4>1. sess'[q].job = sess[q].job /\ sess[q].op = "verify"
        BY <2>3, <3>3 DEF Undisturbed
      <4>2. sess[q].job \in JobsOf(u)
        BY <3>1, <3>3, <4>1 DEF Inv, EntryInv, RowsInv, Allocated, LocksUser, SessionUser
      <4>3. sess[q].job \in Waiting(u)
        BY <3>2, <3>3, <4>1, <4>2 DEF Waiting
      <4>4. Waiting(u)' = Waiting(u)
        BY <2>3, <3>1 DEF Undisturbed
      <4>5. \A j \in Waiting(u)' : status'[j] = "wait"
        BY DEF Waiting
      <4> QED BY <4>1, <4>3, <4>4, <4>5
    <3> QED BY <2>3, <3>1, <3>2, <3>3 DEF Undisturbed
  <2> QED BY <2>1, <2>2, <2>3
<1>4. CountClaims'
  BY <1>3 DEF CountClaims, SessionUser
<1> QED BY <1>2, <1>4 DEF CountedInv

\* Every step keeps one entry in flight, if nothing finished is put back to work.
LEMMA FlightRowsStep ==
  ASSUME Inv, WaitInv, CountedInv, FlightInv, [Next /\ WaitOrderly]_vars, NoRevival
  PROVE  OneInFlight'
<1>i. ASSUME ~AllowMultiple, NEW k \in Entries, NEW l \in Entries, owner[k] = owner[l],
             {status[k], status[l]} \cap {"sent", "failed"} = {}
      PROVE  k = l
  BY <1>i DEF FlightInv, OneInFlight
\* An entry of u comes in while every other one of u is finished.
<1>a. ASSUME NEW u, NEW j \in JobIds, status[j] = "none", owner'[j] = u,
             \A k \in JobIds \ {j} : status'[k] = status[k] /\ owner'[k] = owner[k],
             ~AllowMultiple => InFlight(u) = {}
      PROVE  OneInFlight'
  <2>1. ~AllowMultiple => \A k \in Entries : owner[k] = u => status[k] \in {"sent", "failed"}
    BY <1>a DEF InFlight, JobsOf, Entries
  <2>2. \A k \in Entries' : k = j \/ (k \in Entries /\ status'[k] = status[k] /\ owner'[k] = owner[k])
    BY <1>a DEF Entries
  <2>3. ASSUME ~AllowMultiple, NEW k \in Entries', NEW l \in Entries', owner'[k] = owner'[l],
               {status'[k], status'[l]} \cap {"sent", "failed"} = {}
        PROVE  k = l
    <3>1. CASE k # j /\ l # j
      BY <1>i, <2>2, <2>3, <3>1
    <3>2. CASE k = j \/ l = j
      BY <1>a, <2>1, <2>2, <2>3, <3>2
    <3> QED BY <3>1, <3>2
  <2> QED BY <2>3 DEF OneInFlight
<1>1. CASE Harmless
  <2>1. Entries' = Entries /\ owner' = owner
    BY <1>1 DEF Harmless, Entries
  <2>2. \A k \in Entries : status[k] \in {"sent", "failed"} => status'[k] \in {"sent", "failed"}
    BY DEF NoRevival
  <2>3. ASSUME ~AllowMultiple, NEW k \in Entries', NEW l \in Entries', owner'[k] = owner'[l],
               {status'[k], status'[l]} \cap {"sent", "failed"} = {}
        PROVE  k = l
    BY <1>i, <2>1, <2>2, <2>3
  <2> QED BY <2>3 DEF OneInFlight
<1>2. CASE \E r \in Reqs : SubmitCommitWait(r)
  <2>0. PICK r \in Reqs : SubmitCommitWait(r)
    BY <1>2
  <2>1. PICK u, j : SubmitCommitWait(r) /\ u = SessionUser(r) /\ j = sess[r].job
    BY <2>0
  <2>2. /\ j \in JobIds /\ status[j] = "none" /\ owner'[j] = u /\ JobsOf(u) = {}
        /\ \A k \in JobIds \ {j} : status'[k] = status[k] /\ owner'[k] = owner[k]
    BY <2>1, CommitWaitEffect
  <2>3. InFlight(u) = {}
    BY <2>2 DEF InFlight
  <2> QED BY <1>a, <2>2, <2>3
<1>3. CASE \E r \in Reqs : SubmitCommitEntry(r)
  <2>0. PICK r \in Reqs : SubmitCommitEntry(r)
    BY <1>3
  <2>1. PICK u, j : SubmitCommitEntry(r) /\ u = SessionUser(r) /\ j = sess[r].job
    BY <2>0
  <2>2. /\ j \in JobIds /\ status[j] = "none" /\ owner'[j] = u
        /\ \A k \in JobIds \ {j} : status'[k] = status[k] /\ owner'[k] = owner[k]
        /\ InTransaction(r) /\ sess[r].op = "submit" /\ sess[r].pc = "uploaded"
        /\ sess[r].verified
    BY <2>1, CommitEntryEffect
  <2>3. ~AllowMultiple => InFlight(u) = {}
    BY <2>1, <2>2 DEF FlightInv, FlightClaims
  <2> QED BY <1>a, <2>2, <2>3
<1>4. CASE \E r \in Reqs : VerifyCommit(r) /\ sess[r].job # 0
  <2>0. PICK r \in Reqs : VerifyCommit(r) /\ sess[r].job # 0
    BY <1>4
  <2>1. PICK u, j : VerifyCommit(r) /\ u = SessionUser(r) /\ j = sess[r].job /\ j # 0
    BY <2>0
  <2>2. /\ j \in JobsOf(u) /\ owner' = owner
        /\ \A k \in JobIds \ {j} : status'[k] = status[k]
    BY <2>1, VerifyCommitEffect
  <2>3. JobsOf(u) = {j}
    BY <2>1, VerifiesTheOnlyEntry
  <2>4. \A k \in Entries' : k = j \/ (k \in Entries /\ status'[k] = status[k] /\ owner[k] # u)
    BY <2>2, <2>3 DEF Entries, JobsOf
  <2>5. owner[j] = u
    BY <2>2 DEF JobsOf
  <2>6. ASSUME ~AllowMultiple, NEW k \in Entries', NEW l \in Entries', owner'[k] = owner'[l],
               {status'[k], status'[l]} \cap {"sent", "failed"} = {}
        PROVE  k = l
    BY <1>i, <2>2, <2>4, <2>5, <2>6
  <2> QED BY <2>6 DEF OneInFlight
<1> QED BY <1>1, <1>2, <1>3, <1>4, OrderlySteps

LEMMA FlightInductive ==
  Inv /\ WaitInv /\ CountedInv /\ FlightInv /\ SerialStep /\ [FinishedForGood]_vars => FlightInv'
<1> SUFFICES ASSUME Inv, WaitInv, CountedInv, FlightInv, SerialStep, [FinishedForGood]_vars
             PROVE  FlightInv'
  OBVIOUS
<1>1. OneByOne /\ [Next /\ WaitOrderly]_vars
  BY DEF SerialStep
<1>n. NoRevival
  BY <1>1, SerialNoRevival
<1>2. OneInFlight'
  BY <1>1, <1>n, FlightRowsStep
<1>3. ASSUME NEW q \in Reqs, InTransaction(q)', NEW u, u = sess'[q].user,
             sess'[q].op = "submit", sess'[q].verified, ~AllowMultiple,
             ~(sess'[q].pc = "read" /\ sess'[q].job # 0)
      PROVE  InFlight(u)' = {}
  <2>1. PICK v \in Users : Undisturbed(q, v) \/ JustRead(q, v)
    BY <1>1, <1>3, SerialSessions
  <2>2. CASE JustRead(q, v)
    <3>1. v = u /\ InFlight(u) = {} /\ UNCHANGED <<owner, status>>
      BY <1>3, <2>2 DEF JustRead
    <3> QED BY <3>1 DEF InFlight, JobsOf
  <2>3. CASE Undisturbed(q, v)
    <3>1. /\ v = u /\ InTransaction(q) /\ sess[q].user = u /\ sess[q].op = "submit"
          /\ sess[q].verified /\ ~(sess[q].pc = "read" /\ sess[q].job # 0)
          /\ JobsOf(u)' = JobsOf(u)
      BY <1>3, <2>3 DEF Undisturbed
    <3>2. InFlight(u) = {}
      BY <1>3, <3>1 DEF FlightInv, FlightClaims, SessionUser
    <3>3. \A k \in JobsOf(u) : k \in Entries /\ status[k] \in {"sent", "failed"}
      BY <3>2 DEF InFlight, JobsOf, Entries
    <3>4. \A k \in JobsOf(u)' : status'[k] \in {"sent", "failed"}
      BY <1>n, <3>1, <3>3 DEF NoRevival
    <3> QED BY <3>4 DEF InFlight
  <2> QED BY <2>1, <2>2, <2>3
<1>4. FlightClaims'
  BY <1>3 DEF FlightClaims, SessionUser
<1> QED BY <1>2, <1>4 DEF FlightInv

\* A serial behaviour is an orderly one whose every step starts and ends with the
\* transactions of each number one by one.
LEMMA SerialSteps == SerialSpec => OrderlySpec /\ [][SerialStep]_vars
<1>1. Init => OneByOne
  BY DEF Init, Idle, OneByOne, InTransaction
<1>2. OneByOne /\ [Next /\ WaitOrderly /\ OneByOne']_vars => OneByOne'
  <2>1. ASSUME OneByOne, UNCHANGED vars
        PROVE  OneByOne'
    BY <2>1 DEF OneByOne, InTransaction, SessionUser, vars
  <2> QED BY <2>1
<1>3. [Next /\ WaitOrderly /\ OneByOne']_vars => [Next /\ WaitOrderly]_vars
  OBVIOUS
<1>4. OneByOne /\ [Next /\ WaitOrderly /\ OneByOne']_vars => SerialStep
  BY DEF SerialStep
<1> QED BY <1>1, <1>2, <1>3, <1>4, PTL DEF SerialSpec, OrderlySpec

LEMMA CountedInit == Init => CountedInv /\ FlightInv
<1> SUFFICES ASSUME Init PROVE CountedInv /\ FlightInv
  OBVIOUS
<1>1. \A r \in Reqs : sess[r].op = "none"
  BY DEF Init, Idle
<1>2. \A u \in Users : video_count[u] = 0 /\ Promoted[u] = {}
  BY DEF Init, Promoted, JobsOf
<1>3. Cardinality({}) = 0
  BY FS_EmptySet
<1>4. Entries = {}
  BY DEF Init, Entries
<1>5. CountIsJobCount /\ OneInFlight
  BY <1>2, <1>3, <1>4 DEF CountIsJobCount, OneInFlight
<1>6. CapRespected
  <2>1. 0 <= MaxVideos
    BY EntryAssumption
  <2> QED BY <1>2, <1>3, <2>1 DEF CapRespected
<1> QED BY <1>1, <1>5, <1>6 DEF CountedInv, FlightInv, CountClaims, FlightClaims, InTransaction

LEMMA CountedInvHolds == SerialSpec => []CountedInv
<1>1. [SerialStep]_vars /\ Inv /\ WaitInv /\ CountedInv => CountedInv'
  <2>1. ASSUME CountedInv, UNCHANGED vars
        PROVE  CountedInv'
    BY <2>1 DEF CountedInv, CountIsJobCount, CapRespected, CountClaims, InTransaction,
                SessionUser, Promoted, JobsOf, vars, db
  <2> QED BY <2>1, CountedInductive
<1> QED BY <1>1, CountedInit, SerialSteps, InvHolds, OrderlyIsSpec, WaitInvHolds, PTL
        DEF SerialSpec

\* schema.sql: video_count is exactly the number of the entries that have left
\* `wait`, for any number of concurrent requests, as long as the submits and
\* verifications of the same number do not overlap and `wait` is left to the OTP.
THEOREM CountIsExactWhenSerial == SerialSpec => []CountIsJobCount
<1>1. CountedInv => CountIsJobCount
  BY DEF CountedInv
<1> QED BY CountedInvHolds, <1>1, PTL

\* config.py: under the same conditions no number that the cap applies to gets more
\* entries than the cap, whatever else the panel does.  A cap of zero is different:
\* the first entry of a new number is admitted before there is a row to compare with.
THEOREM CapHoldsWhenSerial ==
  ASSUME MaxVideos # 0
  PROVE  SerialSpec => []CapRespected
<1>1. CountedInv => CapRespected
  BY DEF CountedInv
<1> QED BY CountedInvHolds, <1>1, PTL

\* video.py, config.py: under the same conditions, and if in addition the panel puts
\* no sent or failed entry back to work, a number has one unfinished entry at most.
THEOREM OneInFlightWhenSerial == SerialSpec /\ [][FinishedForGood]_vars => []OneInFlight
<1>1. [SerialStep]_vars /\ [FinishedForGood]_vars /\ Inv /\ WaitInv /\ CountedInv /\ FlightInv
        => FlightInv'
  <2>1. ASSUME FlightInv, UNCHANGED vars
        PROVE  FlightInv'
    BY <2>1 DEF FlightInv, OneInFlight, FlightClaims, InTransaction,
                SessionUser, InFlight, Entries, JobsOf, vars, db
  <2> QED BY <2>1, FlightInductive
<1>2. FlightInv => OneInFlight
  BY DEF FlightInv
<1> QED BY <1>1, <1>2, CountedInit, CountedInvHolds, SerialSteps, InvHolds, OrderlyIsSpec,
           WaitInvHolds, PTL DEF SerialSpec

\* README "Entry lifecycle": under the same conditions, if the panel never sets `queued`
\* itself, nothing but the watchdog's rewind takes an entry that the renderer has
\* claimed back to the queue: a verification does so only when it overlaps another.
THEOREM ClaimedStaysClaimedWhenSerial ==
  ASSUME "queued" \notin AdminStatuses
  PROVE  SerialSpec => ClaimedNotRequeued
<1>1. ASSUME Inv, WaitInv, CountedInv, [Next]_vars, NEW j \in JobIds,
             status[j] \in {"photo_processing", "uploaded", "sent", "failed"},
             status'[j] = "queued"
      PROVE  Watchdog(j)
  <2>t. TypeOK
    BY <1>1 DEF Inv, TypeInv
  <2>1. CASE \E r \in Reqs : SubmitCommitWait(r) \/ SubmitCommitEntry(r)
    <3>1. PICK r \in Reqs : SubmitCommitWait(r) \/ SubmitCommitEntry(r)
      BY <2>1
    <3>2. status[sess[r].job] = "none"
      BY <1>1, <3>1, CommitWaitEffect, CommitEntryEffect
    <3>3. \A k \in JobIds \ {sess[r].job} : status'[k] = status[k]
      BY <1>1, <3>1, CommitWaitEffect, CommitEntryEffect
    <3> QED BY <1>1, <3>2, <3>3
  <2>2. CASE \E r \in Reqs : VerifyCommit(r) /\ sess[r].job # 0
    <3>1. PICK r \in Reqs : VerifyCommit(r) /\ sess[r].job # 0
      BY <2>2
    <3>2. /\ status[sess[r].job] = "wait"
          /\ \A k \in JobIds \ {sess[r].job} : status'[k] = status[k]
      BY <1>1, <3>1, VerifiesTheOnlyEntry, VerifyCommitEffect
    <3> QED BY <1>1, <3>2
  <2>3. CASE \E r \in Reqs, k \in JobIds, s \in AdminStatuses \union {"sent"} : SetStatus(r, k, s)
    BY <1>1, <2>t, <2>3 DEF SetStatus, TypeOK
  <2>4. CASE \E k \in JobIds : Render(k) \/ Watchdog(k)
    <3>1. PICK k \in JobIds : Render(k) \/ Watchdog(k)
      BY <2>4
    <3>2. ~Render(k) /\ k = j
      BY <1>1, <2>t, <3>1 DEF Render, Watchdog, TypeOK
    <3> QED BY <3>1, <3>2
  <2>5. CASE \/ \E r \in Reqs :
                  \/ \E u \in Users : SubmitRead(r, u) \/ VerifyRead(r, u) \/ ResendRead(r, u)
                  \/ SubmitReissue(r) \/ SubmitPending(r) \/ SubmitFlush(r) \/ SubmitUpload(r)
                  \/ VerifyFlag(r) \/ (VerifyCommit(r) /\ sess[r].job = 0)
                  \/ CachePending(r) \/ ResendCommit(r) \/ ClearPending(r) \/ Fail(r)
             \/ \E o \in OtpIds : OtpAges(o)
             \/ \E u \in Users : PendingExpires(u)
             \/ \E v \in FlagValues : SetFlag(v)
             \/ UNCHANGED vars
    <3>1. status' = status
      BY <2>5 DEF SubmitRead, VerifyRead, ResendRead, SubmitReissue, SubmitPending, SubmitFlush,
                  SubmitUpload, VerifyFlag, VerifyCommit, CachePending, ResendCommit,
                  ClearPending, Fail, OtpAges, PendingExpires, SetFlag, vars, db
    <3> QED BY <1>1, <3>1
  <2> QED
    BY <1>1, <2>1, <2>2, <2>3, <2>4, <2>5
       DEF Next, Submit, Verify, Resend, Panel, AdminUpdate, SendVideo
<1>2. Inv /\ WaitInv /\ CountedInv /\ [Next]_vars =>
        [\A j \in JobIds :
           status[j] \in {"photo_processing", "uploaded", "sent", "failed"} /\ status'[j] = "queued"
             => Watchdog(j)]_vars
  BY <1>1
<1> QED BY <1>2, InvHolds, CountedInvHolds, WaitInvHolds, SerialSteps, OrderlyIsSpec, PTL
        DEF Spec, ClaimedNotRequeued

-----------------------------------------------------------------------------
(* How many entries of a number can be unfinished when its requests do overlap *)

\* The verifications of u under way that will put an entry to work; the entries of u
\* that are unfinished or about to be put to work; the submits that will add one.
Verifying(u) ==
  {r \in Reqs : /\ At(r, "verify", "read") \/ At(r, "verify", "flagged")
                /\ SessionUser(r) = u /\ sess[r].job # 0}
Claimed(u)   == InFlight(u) \union {sess[r].job : r \in Verifying(u)}
Adding(u)    ==
  {r \in Reqs : /\ sess[r].op = "submit" /\ SessionUser(r) = u
                /\ Allocated(r) \/ (sess[r].pc = "read" /\ sess[r].job = 0)}

\* Every claimed entry and every entry to come has a request to itself.
Room(u) == Cardinality(Claimed(u)) + Cardinality(Adding(u)) <= Cardinality(Reqs)
RoomInv == ~AllowMultiple => \A u \in Users : Room(u)

LEMMA RoomFinite ==
  ASSUME TypeOK, IsFiniteSet(Reqs), NEW u
  PROVE  /\ IsFiniteSet(Claimed(u)) /\ Cardinality(Claimed(u)) \in Nat
         /\ IsFiniteSet(Adding(u)) /\ Cardinality(Adding(u)) \in Nat
         /\ IsFiniteSet(Verifying(u)) /\ Cardinality(Reqs) \in Nat
<1>1. IsFiniteSet(JobIds)
  BY FS_Interval, EntryAssumption DEF JobIds
<1>2. \A r \in Verifying(u) : sess[r].job \in JobIds
  BY EntryAssumption DEF Verifying, TypeOK, Session, JobIds
<1>3. Claimed(u) \subseteq JobIds
  BY <1>2 DEF Claimed, InFlight, JobsOf
<1>4. Adding(u) \subseteq Reqs /\ Verifying(u) \subseteq Reqs
  BY DEF Adding, Verifying
<1>5. IsFiniteSet(Claimed(u))
  BY <1>1, <1>3, FS_Subset
<1>6. IsFiniteSet(Adding(u)) /\ IsFiniteSet(Verifying(u))
  BY <1>4, FS_Subset
<1> QED BY <1>5, <1>6, FS_CardinalityType

\* The jobs of a number's verifications are no more than the verifications.
LEMMA VerifyingImage ==
  ASSUME NEW u, IsFiniteSet(Verifying(u))
  PROVE  LET T == {sess[r].job : r \in Verifying(u)} IN
         IsFiniteSet(T) /\ Cardinality(T) <= Cardinality(Verifying(u))
<1> DEFINE T == {sess[r].job : r \in Verifying(u)}
           f == [r \in Verifying(u) |-> sess[r].job]
<1>1. f \in Surjection(Verifying(u), T)
  BY DEF Surjection
<1> QED BY <1>1, FS_Surjection

\* A submit that will add an entry starts when none of the number is in flight: the
\* entries claimed then are those of verifications, which are other requests.
LEMMA RoomForOneMore ==
  ASSUME TypeOK, IsFiniteSet(Reqs), NEW u, InFlight(u) = {},
         NEW r \in Reqs, sess[r].pc = "idle"
  PROVE  /\ r \notin Adding(u)
         /\ Cardinality(Claimed(u)) + Cardinality(Adding(u)) + 1 <= Cardinality(Reqs)
<1> DEFINE T == {sess[q].job : q \in Verifying(u)}
           S == Verifying(u) \union Adding(u)
<1>0. /\ IsFiniteSet(Verifying(u)) /\ IsFiniteSet(Adding(u))
      /\ Cardinality(Verifying(u)) \in Nat /\ Cardinality(Adding(u)) \in Nat
      /\ Cardinality(Claimed(u)) \in Nat /\ Cardinality(Reqs) \in Nat
  BY RoomFinite, FS_CardinalityType
<1>1. Claimed(u) = T
  BY DEF Claimed
<1>2. Cardinality(Claimed(u)) <= Cardinality(Verifying(u))
  BY <1>0, <1>1, VerifyingImage
<1>3. Verifying(u) \cap Adding(u) = {}
  BY DEF Verifying, Adding, At
<1>4. IsFiniteSet(S) /\ Cardinality(S) = Cardinality(Verifying(u)) + Cardinality(Adding(u))
  <2>1. /\ IsFiniteSet(S)
        /\ Cardinality(S) = Cardinality(Verifying(u)) + Cardinality(Adding(u))
                              - Cardinality(Verifying(u) \cap Adding(u))
    BY <1>0, FS_Union
  <2>2. Cardinality(Verifying(u) \cap Adding(u)) = 0
    BY <1>3, FS_EmptySet
  <2> HIDE DEF S
  <2> QED BY <1>0, <2>1, <2>2
<1>5. r \notin S
  BY DEF Verifying, Adding, At, Allocated, LocksUser
<1>6. Cardinality(S \union {r}) = Cardinality(S) + 1
  BY <1>4, <1>5, FS_AddElement
<1>7. S \union {r} \subseteq Reqs
  BY DEF Verifying, Adding
<1>8. Cardinality(S \union {r}) <= Cardinality(Reqs)
  BY <1>7, FS_Subset
<1> HIDE DEF S
<1> QED BY <1>0, <1>2, <1>4, <1>5, <1>6, <1>8 DEF S

LEMMA RoomStep ==
  ASSUME Inv, WaitInv, RoomInv, IsFiniteSet(Reqs), [Next /\ WaitOrderly]_vars,
         [FinishedForGood]_vars
  PROVE  RoomInv'
<1> SUFFICES ASSUME ~AllowMultiple, NEW u \in Users
             PROVE  Room(u)'
  BY DEF RoomInv
<1>t. TypeOK /\ NumbersInv
  BY DEF Inv, TypeInv, WaitInv
<1>i. /\ Cardinality(Claimed(u)) + Cardinality(Adding(u)) <= Cardinality(Reqs)
      /\ Cardinality(Claimed(u)) \in Nat /\ Cardinality(Adding(u)) \in Nat
      /\ IsFiniteSet(Claimed(u)) /\ IsFiniteSet(Adding(u)) /\ Cardinality(Reqs) \in Nat
  BY <1>t, RoomFinite DEF RoomInv, Room
\* Fewer claims, and no more to come; or one that was to come has.
<1>k. ASSUME Claimed(u)' \subseteq Claimed(u), Adding(u)' \subseteq Adding(u)
      PROVE  Room(u)'
  <2>1. /\ Cardinality(Claimed(u)') <= Cardinality(Claimed(u))
        /\ Cardinality(Adding(u)') <= Cardinality(Adding(u))
        /\ Cardinality(Claimed(u)') \in Nat /\ Cardinality(Adding(u)') \in Nat
    BY <1>i, <1>k, FS_Subset, FS_CardinalityType
  <2> QED BY <1>i, <2>1 DEF Room
<1>c. ASSUME NEW r \in Adding(u), NEW j, Claimed(u)' \subseteq Claimed(u) \union {j},
             Adding(u)' \subseteq Adding(u) \ {r}
      PROVE  Room(u)'
  <2>1. /\ IsFiniteSet(Claimed(u) \union {j})
        /\ Cardinality(Claimed(u) \union {j}) \in {Cardinality(Claimed(u)), Cardinality(Claimed(u)) + 1}
    <3>1. /\ IsFiniteSet(Claimed(u) \union {j})
          /\ Cardinality(Claimed(u) \union {j}) = IF j \in Claimed(u) THEN Cardinality(Claimed(u))
                                                  ELSE Cardinality(Claimed(u)) + 1
      BY <1>i, FS_AddElement
    <3> QED BY <3>1
  <2>2. Cardinality(Adding(u) \ {r}) = Cardinality(Adding(u)) - 1 /\ IsFiniteSet(Adding(u) \ {r})
    BY <1>i, FS_RemoveElement
  <2>3. /\ Cardinality(Claimed(u)') <= Cardinality(Claimed(u) \union {j})
        /\ Cardinality(Claimed(u)') \in Nat
    BY <1>c, <2>1, FS_Subset, FS_CardinalityType
  <2>4. /\ Cardinality(Adding(u)') <= Cardinality(Adding(u) \ {r})
        /\ Cardinality(Adding(u)') \in Nat
    BY <1>c, <2>2, FS_Subset, FS_CardinalityType
  <2>5. Cardinality(Claimed(u) \union {j}) \in Nat /\ Cardinality(Adding(u) \ {r}) \in Nat
    BY <2>1, <2>2, FS_CardinalityType
  <2> QED BY <1>i, <2>1, <2>2, <2>3, <2>4, <2>5 DEF Room
\* Sessions that end, or have committed, claim nothing more.
<1>q. ASSUME \A q \in Reqs : \/ sess'[q] = sess[q]
                             \/ sess'[q].op \notin {"submit", "verify"}
                             \/ sess'[q].pc = "committed"
      PROVE  /\ Adding(u)' \subseteq Adding(u)
             /\ {sess[q].job : q \in Verifying(u)}' \subseteq {sess[q].job : q \in Verifying(u)}
  <2>1. Adding(u)' \subseteq Adding(u)
    BY <1>q DEF Adding, Allocated, LocksUser, SessionUser
  <2>2. \A q \in Verifying(u)' : q \in Verifying(u) /\ sess'[q] = sess[q]
    BY <1>q DEF Verifying, At, SessionUser
  <2> QED BY <2>1, <2>2
<1>n. ASSUME Harmless, FinishedForGood => NoRevival, [FinishedForGood]_vars
      PROVE  InFlight(u)' \subseteq InFlight(u)
  BY <1>n DEF Harmless, NoRevival, Entries, InFlight, JobsOf, vars, db
<1>r. UNCHANGED <<owner, status>> => InFlight(u)' = InFlight(u)
  BY DEF InFlight, JobsOf
<1>1. ASSUME NEW r \in Reqs, NEW v \in Users, SubmitRead(r, v)
      PROVE  Room(u)'
  <2>1. PICK j \in FirstOf(IF v \notin verified THEN Waiting(v)
                           ELSE IF AllowMultiple THEN {} ELSE InFlight(v)),
             f \in FlagRead :
          Open(r, "submit", v, j, 0, f)
    BY <1>1 DEF SubmitRead
  <2>2. /\ InFlight(u)' = InFlight(u) /\ sess[r].pc = "idle"
        /\ \A q \in Reqs \ {r} : sess'[q] = sess[q]
        /\ sess'[r].op = "submit" /\ sess'[r].pc = "read" /\ sess'[r].user = v /\ sess'[r].job = j
    BY <1>1, <1>t, <1>r, <2>1 DEF SubmitRead, Open, db, TypeOK
  <2>3. \A q \in Verifying(u)' : q \in Verifying(u) /\ sess'[q] = sess[q]
    BY <2>2 DEF Verifying, At, SessionUser
  <2>4. Claimed(u)' \subseteq Claimed(u)
    BY <2>2, <2>3 DEF Claimed
  <2>5. CASE v = u /\ j = 0
    <3>1. InFlight(u) = {}
      <4>1. CASE u \in verified
        BY <2>1, <2>5, <4>1 DEF FirstOf, InFlight, JobsOf, JobIds
      <4>2. CASE u \notin verified
        <5>1. Waiting(u) = {}
          BY <2>1, <2>5, <4>2 DEF FirstOf, Waiting, JobsOf, JobIds
        <5>2. u \notin users
          BY <1>t, <4>2, <5>1 DEF NumbersInv, Waiting
        <5> QED BY <1>t, <5>2 DEF NumbersInv, InFlight
      <4> QED BY <4>1, <4>2
    <3>2. Adding(u)' \subseteq Adding(u) \union {r}
      BY <2>2 DEF Adding, Allocated, LocksUser, SessionUser
    <3>3. Cardinality(Claimed(u)) + Cardinality(Adding(u)) + 1 <= Cardinality(Reqs)
      BY <1>t, <2>2, <3>1, RoomForOneMore
    <3>4. /\ Cardinality(Claimed(u)') <= Cardinality(Claimed(u))
          /\ Cardinality(Claimed(u)') \in Nat
      BY <1>i, <2>4, FS_Subset, FS_CardinalityType
    <3>5. /\ IsFiniteSet(Adding(u) \union {r})
          /\ Cardinality(Adding(u) \union {r}) = Cardinality(Adding(u)) + 1
      <4>1. r \notin Adding(u)
        BY <1>t, <2>2, <3>1, RoomForOneMore
      <4> QED BY <1>i, <4>1, FS_AddElement
    <3>6. /\ Cardinality(Adding(u)') <= Cardinality(Adding(u) \union {r})
          /\ Cardinality(Adding(u)') \in Nat
      BY <3>2, <3>5, FS_Subset, FS_CardinalityType
    <3> QED BY <1>i, <3>3, <3>4, <3>5, <3>6 DEF Room
  <2>6. CASE ~(v = u /\ j = 0)
    <3>1. Adding(u)' \subseteq Adding(u)
      BY <2>2, <2>6 DEF Adding, Allocated, LocksUser, SessionUser
    <3> QED BY <1>k, <2>4, <3>1
  <2> QED BY <2>5, <2>6
<1>2. ASSUME NEW r \in Reqs, NEW v \in Users, VerifyRead(r, v)
      PROVE  Room(u)'
  <2>1. PICK o \in OtpIds, j \in FirstOf(Waiting(v)) : Open(r, "verify", v, j, o, FALSE)
    BY <1>2 DEF VerifyRead
  <2>2. /\ InFlight(u)' = InFlight(u)
        /\ \A q \in Reqs \ {r} : sess'[q] = sess[q]
        /\ sess'[r].op = "verify" /\ sess'[r].user = v /\ sess'[r].job = j
    BY <1>2, <1>t, <1>r, <2>1 DEF VerifyRead, Open, db, TypeOK
  <2>3. j # 0 => j \in InFlight(v)
    BY <2>1 DEF FirstOf, Waiting, InFlight
  <2>4. \A q \in Verifying(u)' : \/ q \in Verifying(u) /\ sess'[q] = sess[q]
                                 \/ sess'[q].job \in InFlight(u)
    BY <2>2, <2>3 DEF Verifying, At, SessionUser
  <2>5. Claimed(u)' \subseteq Claimed(u)
    BY <2>2, <2>4 DEF Claimed
  <2>6. Adding(u)' \subseteq Adding(u)
    BY <2>2 DEF Adding, Allocated, LocksUser, SessionUser
  <2> QED BY <1>k, <2>5, <2>6
<1>3. ASSUME NEW r \in Reqs, SubmitFlush(r) \/ SubmitUpload(r)
      PROVE  Room(u)'
  <2>1. /\ InFlight(u)' = InFlight(u)
        /\ \A q \in Reqs \ {r} : sess'[q] = sess[q]
        /\ sess'[r].op = "submit" /\ sess[r].op = "submit" /\ sess'[r].user = sess[r].user
        /\ Allocated(r) \/ (sess[r].pc = "read" /\ sess[r].job = 0)
    BY <1>3, <1>t, <1>r DEF SubmitFlush, SubmitUpload, Goto, At, Allocated, LocksUser,
                            SessionUser, db, TypeOK, Session
  <2>2. Adding(u)' \subseteq Adding(u)
    BY <2>1 DEF Adding, Allocated, LocksUser, SessionUser
  <2>3. \A q \in Verifying(u)' : q \in Verifying(u) /\ sess'[q] = sess[q]
    BY <2>1 DEF Verifying, At, SessionUser
  <2>4. Claimed(u)' \subseteq Claimed(u)
    BY <2>1, <2>3 DEF Claimed
  <2> QED BY <1>k, <2>2, <2>4
<1>4. ASSUME InFlight(u)' \subseteq InFlight(u),
             \A q \in Reqs : \/ sess'[q] = sess[q]
                             \/ sess'[q].op \notin {"submit", "verify"}
                             \/ sess'[q].pc = "committed"
      PROVE  Room(u)'
  BY <1>4, <1>k, <1>q DEF Claimed
<1>5. ASSUME NEW r \in Reqs,
             \/ SubmitReissue(r) \/ SubmitPending(r) \/ ResendCommit(r) \/ CachePending(r)
             \/ ClearPending(r) \/ Fail(r) \/ (VerifyCommit(r) /\ sess[r].job = 0)
             \/ \E v \in Users : ResendRead(r, v)
      PROVE  Room(u)'
  <2>1. UNCHANGED <<owner, status>>
    BY <1>5 DEF SubmitReissue, SubmitPending, ResendCommit, CachePending, ClearPending, Fail,
                VerifyCommit, ResendRead, db
  <2>2. Close(r) \/ \E v \in Users : Open(r, "resend", v, 0, 0, FALSE)
    BY <1>5 DEF SubmitReissue, SubmitPending, ResendCommit, CachePending, ClearPending, Fail,
                VerifyCommit, ResendRead
  <2>3. \A q \in Reqs : sess'[q] = sess[q] \/ sess'[q].op \notin {"submit", "verify"}
    BY <1>t, <2>2 DEF Close, Open, Idle, TypeOK
  <2> QED BY <1>r, <1>4, <2>1, <2>3
<1>6. ASSUME NEW r \in Reqs, NEW v, v = SessionUser(r), NEW j, InTransaction(r),
             status[j] = "none", j = sess[r].job, Allocated(r),
             sess[r].op = "submit", sess'[r].op = "none" \/ sess'[r].pc = "committed",
             \A q \in Reqs \ {r} : sess'[q] = sess[q], owner'[j] = v,
             \A k \in JobIds \ {j} : status'[k] = status[k] /\ owner'[k] = owner[k]
      PROVE  Room(u)'
  <2>1. /\ Adding(u)' \subseteq Adding(u) \ {r}
        /\ {sess[q].job : q \in Verifying(u)}' \subseteq {sess[q].job : q \in Verifying(u)}
    <3>1. /\ Adding(u)' \subseteq Adding(u)
          /\ {sess[q].job : q \in Verifying(u)}' \subseteq {sess[q].job : q \in Verifying(u)}
      BY <1>6, <1>q
    <3>2. r \notin Adding(u)'
      BY <1>6 DEF Adding, Allocated, LocksUser
    <3> QED BY <3>1, <3>2
  <2>2. CASE v = u
    <3>1. InFlight(u)' \subseteq InFlight(u) \union {j}
      BY <1>6 DEF InFlight, JobsOf
    <3>2. r \in Adding(u)
      BY <1>6, <2>2 DEF Adding
    <3>3. Claimed(u)' \subseteq Claimed(u) \union {j}
      BY <2>1, <3>1 DEF Claimed
    <3> QED BY <1>c, <2>1, <3>2, <3>3
  <2>3. CASE v # u
    <3>1. InFlight(u)' \subseteq InFlight(u)
      BY <1>6, <2>3 DEF InFlight, JobsOf
    <3> QED BY <1>k, <2>1, <3>1 DEF Claimed
  <2> QED BY <2>2, <2>3
<1>7. ASSUME NEW r \in Reqs, SubmitCommitWait(r)
      PROVE  Room(u)'
  <2>1. Allocated(r) /\ sess[r].op = "submit"
    BY <1>7 DEF SubmitCommitWait, Staged, At, Allocated, LocksUser, SessionUser
  <2>2. PICK v, j : v = SessionUser(r) /\ j = sess[r].job
    OBVIOUS
  <2>3. /\ status[j] = "none" /\ owner'[j] = v
        /\ \A k \in JobIds \ {j} : status'[k] = status[k] /\ owner'[k] = owner[k]
        /\ InTransaction(r) /\ \A q \in Reqs \ {r} : sess'[q] = sess[q]
        /\ sess'[r].op = "none"
    BY <1>7, <2>2, CommitWaitEffect
  <2> QED BY <1>6, <2>1, <2>2, <2>3
<1>8. ASSUME NEW r \in Reqs, SubmitCommitEntry(r)
      PROVE  Room(u)'
  <2>1. Allocated(r) /\ sess[r].op = "submit"
    BY <1>8 DEF SubmitCommitEntry, Staged, At, Allocated, LocksUser, SessionUser
  <2>2. PICK v, j : v = SessionUser(r) /\ j = sess[r].job
    OBVIOUS
  <2>3. /\ status[j] = "none" /\ owner'[j] = v
        /\ \A k \in JobIds \ {j} : status'[k] = status[k] /\ owner'[k] = owner[k]
        /\ InTransaction(r) /\ \A q \in Reqs \ {r} : sess'[q] = sess[q]
        /\ sess'[r].pc = "committed"
    BY <1>8, <2>2, CommitEntryEffect
  <2> QED BY <1>6, <2>1, <2>2, <2>3
<1>9. ASSUME NEW r \in Reqs, VerifyCommit(r), sess[r].job # 0
      PROVE  Room(u)'
  <2>1. PICK v, j : v = SessionUser(r) /\ j = sess[r].job /\ j # 0
    BY <1>9
  <2>2. /\ j \in JobsOf(v) /\ owner' = owner
        /\ \A k \in JobIds \ {j} : status'[k] = status[k]
        /\ \A q \in Reqs \ {r} : sess'[q] = sess[q]
        /\ sess[r].op = "verify" /\ sess[r].pc = "flagged" /\ sess'[r].pc = "committed"
    BY <1>9, <2>1, VerifyCommitEffect
  <2>3. /\ Adding(u)' \subseteq Adding(u)
        /\ {sess[q].job : q \in Verifying(u)}' \subseteq {sess[q].job : q \in Verifying(u)}
    BY <2>2, <1>q
  <2>4. InFlight(u)' \subseteq Claimed(u)
    <3>1. owner[j] = v
      BY <2>2 DEF JobsOf
    <3>2. v = u => r \in Verifying(u)
      BY <2>1, <2>2 DEF Verifying, At
    <3>3. v = u => j \in Claimed(u)
      BY <2>1, <3>2 DEF Claimed
    <3>4. InFlight(u)' \subseteq InFlight(u) \union (IF v = u THEN {j} ELSE {})
      BY <2>2, <3>1 DEF InFlight, JobsOf
    <3> QED BY <3>3, <3>4 DEF Claimed
  <2>5. Claimed(u)' \subseteq Claimed(u)
    BY <2>3, <2>4 DEF Claimed
  <2> QED BY <1>k, <2>3, <2>5
<1>10. ASSUME NEW r \in Reqs, NEW j \in JobIds, WaitOrderly,
              SendVideo(r, j) \/ \E s \in AdminStatuses : AdminUpdate(r, j, s)
       PROVE  Room(u)'
  <2>1. PICK s \in JOB_STATUSES : status[j] # "none" /\ SetStatus(r, j, s)
    BY <1>10, EntryAssumption DEF SendVideo, AdminUpdate, JOB_STATUSES
  <2>2. \A q \in Reqs : sess'[q] = sess[q] \/ sess'[q].op = "admin"
    BY <1>10, <1>t, <2>1, PanelKeepsWaits
  <2>3. \A k \in JobIds \ {j} : status'[k] = status[k]
    BY <1>t, <2>1 DEF SetStatus, TypeOK
  <2>4. owner' = owner /\ status'[j] = s
    BY <1>t, <2>1 DEF SetStatus, TypeOK
  <2>5. status[j] \in {"sent", "failed"} => status'[j] \in {"sent", "failed"}
    <3>1. CASE SendVideo(r, j)
      BY <1>t, <3>1 DEF SendVideo, SetStatus, TypeOK
    <3>2. CASE \E x \in AdminStatuses : AdminUpdate(r, j, x)
      <4>1. PICK x \in AdminStatuses : AdminUpdate(r, j, x)
        BY <3>2
      <4>2. status'[j] = x
        BY <1>t, <4>1 DEF AdminUpdate, SetStatus, TypeOK
      <4>3. CASE FinishedForGood
        BY <4>1, <4>2, <4>3 DEF FinishedForGood
      <4>4. CASE UNCHANGED vars
        BY <4>4 DEF vars, db
      <4> QED BY <4>3, <4>4
    <3> QED BY <1>10, <3>1, <3>2
  <2>6. InFlight(u)' \subseteq InFlight(u)
    BY <2>1, <2>3, <2>4, <2>5 DEF InFlight, JobsOf
  <2> QED BY <1>4, <2>2, <2>6
<1>11. ASSUME NEW j \in JobIds, Render(j) \/ Watchdog(j)
       PROVE  Room(u)'
  <2>1. InFlight(u)' \subseteq InFlight(u) /\ sess' = sess
    BY <1>11, <1>t DEF Render, Watchdog, TypeOK, InFlight, JobsOf
  <2> QED BY <1>4, <2>1
<1>12. ASSUME \/ \E v \in Users : PendingExpires(v)
              \/ \E o \in OtpIds : OtpAges(o)
              \/ \E v \in FlagValues : SetFlag(v)
              \/ UNCHANGED vars
       PROVE  Room(u)'
  <2>1. UNCHANGED <<owner, status, sess>>
    BY <1>12 DEF PendingExpires, OtpAges, SetFlag, vars, db
  <2> QED BY <1>4, <1>r, <2>1
<1>13. ASSUME NEW r \in Reqs, VerifyFlag(r)
       PROVE  Room(u)'
  <2>1. InFlight(u)' = InFlight(u)
    BY <1>13, <1>t, <1>r, FlagEffect
  <2>2. \A q \in Reqs : \/ sess'[q] = sess[q]
                       \/ /\ At(q, "verify", "read") /\ sess'[q].op = "verify"
                          /\ sess'[q].user = sess[q].user /\ sess'[q].job = sess[q].job
    BY <1>13, <1>t, FlagEffect DEF At
  <2>3. Adding(u)' \subseteq Adding(u)
    BY <2>2 DEF Adding, Allocated, LocksUser, SessionUser
  <2>4. \A q \in Verifying(u)' : q \in Verifying(u) /\ sess'[q].job = sess[q].job
    BY <2>2 DEF Verifying, At, SessionUser
  <2>5. Claimed(u)' \subseteq Claimed(u)
    BY <2>1, <2>4 DEF Claimed
  <2> QED BY <1>k, <2>3, <2>5
<1> QED
  BY <1>1, <1>2, <1>3, <1>5, <1>7, <1>8, <1>9, <1>10, <1>11, <1>12, <1>13
     DEF Next, Submit, Verify, Resend, Panel

\* video.py, auth.py: however the requests of a number overlap, its unfinished entries
\* are never more than the requests the service works on at once, as long as `wait`
\* is left to the OTP and the panel puts nothing finished back to work.
THEOREM FewInFlightAlways ==
  ASSUME IsFiniteSet(Reqs)
  PROVE  OrderlySpec /\ [][FinishedForGood]_vars => []FewInFlight
<1>1. Init => RoomInv
  <2> SUFFICES ASSUME Init, NEW u \in Users PROVE Room(u)
    BY DEF RoomInv
  <2>1. Claimed(u) = {} /\ Adding(u) = {}
    BY DEF Init, Idle, Claimed, Adding, Verifying, InFlight, JobsOf, At
  <2> QED BY <2>1, FS_EmptySet, FS_CardinalityType DEF Room
<1>2. RoomInv /\ Inv => FewInFlight
  <2> SUFFICES ASSUME RoomInv, Inv, ~AllowMultiple, NEW u \in Users
               PROVE  Cardinality({j \in JobsOf(u) : status[j] \notin {"sent", "failed"}})
                        <= Cardinality(Reqs)
    BY DEF FewInFlight
  <2>1. {j \in JobsOf(u) : status[j] \notin {"sent", "failed"}} = InFlight(u)
    BY DEF InFlight
  <2>2. InFlight(u) \subseteq Claimed(u) /\ TypeOK
    BY DEF Claimed, Inv, TypeInv
  <2>3. /\ IsFiniteSet(Claimed(u)) /\ Cardinality(Claimed(u)) \in Nat
        /\ Cardinality(Adding(u)) \in Nat /\ Cardinality(Reqs) \in Nat
    BY <2>2, RoomFinite
  <2>4. IsFiniteSet(InFlight(u)) /\ Cardinality(InFlight(u)) <= Cardinality(Claimed(u))
    BY <2>2, <2>3, FS_Subset
  <2>5. Cardinality(InFlight(u)) \in Nat
    BY <2>4, FS_CardinalityType
  <2>6. Cardinality(Claimed(u)) + Cardinality(Adding(u)) <= Cardinality(Reqs)
    BY DEF RoomInv, Room
  <2>7. Cardinality(InFlight(u)) <= Cardinality(Reqs)
    BY <2>3, <2>4, <2>5, <2>6
  <2> QED BY <2>1, <2>7
<1>3. Inv /\ WaitInv /\ RoomInv /\ [Next /\ WaitOrderly]_vars /\ [FinishedForGood]_vars => RoomInv'
  BY RoomStep
<1> QED BY <1>1, <1>2, <1>3, InvHolds, OrderlyIsSpec, WaitInvHolds, PTL DEF OrderlySpec

-----------------------------------------------------------------------------
(* What a verified number's submit puts in the queue *)

\* An entry is created as `queued` only by the submit of a verified number, and
\* then with the check on when that submit was admitted, whatever the flag is at
\* the commit.
THEOREM DirectQueueVetted == Spec => DirectQueueIsVetted
<1>1. ASSUME Inv, [Next]_vars, NEW j \in JobIds, status[j] = "none", status'[j] = "queued"
      PROVE  j \in vetted'
  <2>t. TypeOK
    BY <1>1 DEF Inv, TypeInv
  <2>1. CASE \E r \in Reqs : SubmitCommitEntry(r)
    <3>1. PICK r \in Reqs : SubmitCommitEntry(r)
      BY <2>1
    <3>2. InsertJob(r, EntryStatus(SessionUser(r), sess[r].flag))
      BY <3>1 DEF SubmitCommitEntry, FlagAtSubmit
    <3>3. j = sess[r].job /\ EntryStatus(SessionUser(r), sess[r].flag) = "queued"
      BY <1>1, <2>t, <3>2 DEF InsertJob, TypeOK
    <3>4. sess[r].flag
      BY <3>3 DEF EntryStatus
    <3> QED BY <3>2, <3>3, <3>4 DEF InsertJob
  <2>2. CASE \E r \in Reqs : SubmitCommitWait(r)
    BY <1>1, <2>t, <2>2 DEF SubmitCommitWait, InsertJob, TypeOK
  <2>3. CASE \E r \in Reqs : VerifyCommit(r)
    <3>1. PICK r \in Reqs : VerifyCommit(r)
      BY <2>3
    <3>2. sess[r].job # 0 => sess[r].job \in Entries
      BY <1>1, <3>1 DEF VerifyCommit, At, Inv, EntryInv, RowsInv, Allocated, LocksUser, JobsOf,
                        Entries
    <3> QED BY <1>1, <2>t, <3>1, <3>2 DEF VerifyCommit, TypeOK, Entries
  <2>4. CASE \E r \in Reqs, k \in JobIds, s \in JOB_STATUSES : status[k] # "none" /\ SetStatus(r, k, s)
    BY <1>1, <2>t, <2>4 DEF SetStatus, TypeOK
  <2>5. CASE \E k \in JobIds : Render(k) \/ Watchdog(k)
    BY <1>1, <2>t, <2>5 DEF Render, Watchdog, TypeOK
  <2>6. CASE \/ \E r \in Reqs :
                  \/ \E u \in Users : SubmitRead(r, u) \/ VerifyRead(r, u) \/ ResendRead(r, u)
                  \/ SubmitReissue(r) \/ SubmitPending(r) \/ SubmitFlush(r) \/ SubmitUpload(r)
                  \/ VerifyFlag(r) \/ CachePending(r) \/ ResendCommit(r) \/ ClearPending(r) \/ Fail(r)
             \/ \E o \in OtpIds : OtpAges(o)
             \/ \E u \in Users : PendingExpires(u)
             \/ \E v \in FlagValues : SetFlag(v)
             \/ UNCHANGED vars
    <3>1. status' = status
      BY <2>6 DEF SubmitRead, VerifyRead, ResendRead, SubmitReissue, SubmitPending, SubmitFlush,
                  SubmitUpload, VerifyFlag, CachePending, ResendCommit, ClearPending, Fail, OtpAges,
                  PendingExpires, SetFlag, vars, db
    <3> QED BY <1>1, <3>1
  <2>7. \A s \in AdminStatuses \union {"sent"} : s \in JOB_STATUSES
    BY EntryAssumption DEF JOB_STATUSES
  <2> QED
    BY <1>1, <2>1, <2>2, <2>3, <2>4, <2>5, <2>6, <2>7
       DEF Next, Submit, Verify, Resend, Panel, AdminUpdate, SendVideo
<1>2. Inv /\ [Next]_vars =>
        [\A j \in JobIds : status[j] = "none" /\ status'[j] = "queued" => j \in vetted']_vars
  BY <1>1
<1> QED BY InvHolds, <1>2, PTL DEF Spec, DirectQueueIsVetted

\* While the check is on, whatever waits was checked, no submit that skips it is under
\* way, and what a verification is about to queue was checked.
VettedInv ==
  /\ flag => /\ \A j \in Entries : status[j] = "wait" => j \in vetted
             /\ \A r \in Reqs : sess[r].op = "submit" => sess[r].flag
  /\ \A r \in Reqs : At(r, "verify", "flagged") /\ sess[r].flag
                      => sess[r].job = 0 \/ status[sess[r].job] # "wait" \/ sess[r].job \in vetted

\* A step that adds nothing to `wait`, opens no submit and reads no flag.
LEMMA VettedKept ==
  ASSUME Inv, VettedInv, flag' => flag, vetted \subseteq vetted',
         \A j \in JobIds : status'[j] = "wait" => status[j] = "wait",
         \A q \in Reqs : \/ sess'[q] = sess[q]
                         \/ sess'[q].op \notin {"submit", "verify"}
                         \/ /\ sess'[q].op = sess[q].op /\ sess'[q].flag = sess[q].flag
                            /\ sess'[q].pc # "flagged"
  PROVE  VettedInv'
<1>1. flag' => \A j \in Entries' : status'[j] = "wait" => j \in vetted'
  <2> SUFFICES ASSUME flag', NEW j \in JobIds, status'[j] = "wait"
               PROVE  j \in vetted'
    BY DEF Entries
  <2> QED BY DEF VettedInv, Entries
<1>2. flag' => \A q \in Reqs : sess'[q].op = "submit" => sess'[q].flag
  BY DEF VettedInv
<1>3. ASSUME NEW q \in Reqs, At(q, "verify", "flagged")', sess'[q].flag,
             NEW j, j = sess'[q].job, j # 0, status'[j] = "wait"
      PROVE  j \in vetted'
  <2>1. sess'[q] = sess[q] /\ At(q, "verify", "flagged")
    BY <1>3 DEF At
  <2>2. j \in JobIds
    BY <1>3, <2>1, EntryAssumption DEF Inv, TypeInv, TypeOK, Session, JobIds
  <2>3. status[j] = "wait" /\ sess[q].flag /\ j = sess[q].job
    BY <1>3, <2>1, <2>2
  <2> QED BY <1>3, <2>1, <2>3 DEF VettedInv
<1> QED BY <1>1, <1>2, <1>3 DEF VettedInv

LEMMA VettedInvInductive ==
  ASSUME "wait" \notin AdminStatuses, ~FlagLost
  PROVE  Inv /\ VettedInv /\ [Next]_vars /\ [CheckOnWhenDrained]_vars => VettedInv'
<1> SUFFICES ASSUME Inv, VettedInv, [Next]_vars, [CheckOnWhenDrained]_vars
             PROVE  VettedInv'
  OBVIOUS
<1>t. TypeOK /\ flag \in BOOLEAN
  BY DEF Inv, TypeInv, TypeOK
<1>c. ASSUME NEW r \in Reqs, Close(r)
      PROVE  \A q \in Reqs : sess'[q] = sess[q] \/ sess'[q].op \notin {"submit", "verify"}
  BY <1>c, <1>t DEF Close, Idle, TypeOK
<1>o. ASSUME NEW r \in Reqs, NEW op \in {"submit", "verify", "resend"}, NEW u \in Users,
             NEW j, NEW o, NEW f, Open(r, op, u, j, o, f), UNCHANGED <<status, vetted, flag>>,
             op = "submit" => f = flag
      PROVE  VettedInv'
  <2>1. /\ \A q \in Reqs \ {r} : sess'[q] = sess[q]
        /\ sess'[r].op = op /\ sess'[r].pc = "read" /\ sess'[r].flag = f
    BY <1>o, <1>t DEF Open, TypeOK
  <2>2. flag' => \A k \in Entries' : status'[k] = "wait" => k \in vetted'
    BY <1>o DEF VettedInv, Entries
  <2>3. flag' => \A q \in Reqs : sess'[q].op = "submit" => sess'[q].flag
    BY <1>o, <2>1 DEF VettedInv
  <2>4. ASSUME NEW q \in Reqs, At(q, "verify", "flagged")'
        PROVE  sess'[q] = sess[q] /\ At(q, "verify", "flagged")
    BY <2>1, <2>4 DEF At
  <2> QED BY <1>o, <2>2, <2>3, <2>4 DEF VettedInv
<1>1. ASSUME NEW r \in Reqs, NEW u \in Users, SubmitRead(r, u) \/ ResendRead(r, u)
      PROVE  VettedInv'
  <2>1. FlagRead = {flag}
    BY DEF FlagRead
  <2> QED BY <1>1, <1>o, <2>1 DEF SubmitRead, ResendRead, db
<1>2. ASSUME NEW r \in Reqs, NEW u \in Users, VerifyRead(r, u)
      PROVE  VettedInv'
  <2>1. PICK o \in OtpIds, j \in FirstOf(Waiting(u)) : Open(r, "verify", u, j, o, FALSE)
    BY <1>2 DEF VerifyRead
  <2> QED BY <1>2, <1>o, <2>1 DEF VerifyRead, db
<1>3. ASSUME NEW r \in Reqs,
             SubmitReissue(r) \/ SubmitPending(r) \/ ResendCommit(r) \/ CachePending(r)
             \/ ClearPending(r) \/ Fail(r)
      PROVE  VettedInv'
  <2>1. Close(r) /\ UNCHANGED <<status, vetted, flag>>
    BY <1>3 DEF SubmitReissue, SubmitPending, ResendCommit, CachePending, ClearPending, Fail, db
  <2> QED BY <2>1, <1>c, <1>t, VettedKept
<1>4. ASSUME NEW r \in Reqs, SubmitFlush(r) \/ SubmitUpload(r)
      PROVE  VettedInv'
  <2>1. UNCHANGED <<status, vetted, flag>>
    BY <1>4 DEF SubmitFlush, SubmitUpload, db
  <2>2. \A q \in Reqs : \/ sess'[q] = sess[q]
                       \/ /\ sess'[q].op = sess[q].op /\ sess'[q].flag = sess[q].flag
                          /\ sess'[q].pc # "flagged"
    BY <1>4, <1>t DEF SubmitFlush, SubmitUpload, Goto, TypeOK, Session
  <2> QED BY <2>1, <2>2, <1>t, VettedKept
<1>5. ASSUME NEW r \in Reqs, SubmitCommitWait(r)
      PROVE  VettedInv'
  <2> DEFINE j == sess[r].job
  <2>1. /\ status' = [status EXCEPT ![j] = "wait"] /\ flag' = flag /\ Close(r)
        /\ vetted' = IF sess[r].flag THEN vetted \union {j} ELSE vetted
        /\ sess[r].op = "submit"
    BY <1>5 DEF SubmitCommitWait, InsertJob, Staged, At
  <2>2. \A q \in Reqs : sess'[q] = sess[q] \/ sess'[q].op \notin {"submit", "verify"}
    BY <1>c, <2>1
  <2>3. flag' => sess[r].flag
    BY <2>1 DEF VettedInv
  <2>4. flag' => \A k \in Entries' : status'[k] = "wait" => k \in vetted'
    <3> SUFFICES ASSUME flag', NEW k \in JobIds, status'[k] = "wait"
                 PROVE  k \in vetted'
      BY DEF Entries
    <3>1. k = j \/ status[k] = "wait"
      BY <1>t, <2>1 DEF TypeOK
    <3> QED BY <2>1, <2>3, <3>1 DEF VettedInv, Entries
  <2>5. flag' => \A q \in Reqs : sess'[q].op = "submit" => sess'[q].flag
    BY <2>1, <2>2 DEF VettedInv
  <2>6. ASSUME NEW q \in Reqs, At(q, "verify", "flagged")', sess'[q].flag,
               NEW k, k = sess'[q].job, k # 0, status'[k] = "wait"
        PROVE  k \in vetted'
    <3>1. sess'[q] = sess[q] /\ At(q, "verify", "flagged") /\ sess[q].flag /\ k = sess[q].job
      BY <2>2, <2>6 DEF At
    <3>2. k \in JobIds /\ status[k] # "none"
      BY <2>6, <3>1, EntryAssumption DEF Inv, EntryInv, RowsInv, Allocated, LocksUser, At, JobsOf
    <3>3. status[j] = "none"
      BY <1>5 DEF SubmitCommitWait, Inv, EntryInv, IdsInv, Allocated, LocksUser, SessionUser,
                  Staged, At
    <3>4. status[k] = "wait"
      BY <1>t, <2>1, <2>6, <3>2, <3>3 DEF TypeOK
    <3> QED BY <2>1, <2>6, <3>1, <3>4 DEF VettedInv
  <2> QED BY <2>4, <2>5, <2>6 DEF VettedInv
<1>6. ASSUME NEW r \in Reqs, SubmitCommitEntry(r)
      PROVE  VettedInv'
  <2>1. /\ sess[r].job \in JobIds /\ status'[sess[r].job] # "wait"
        /\ \A k \in JobIds \ {sess[r].job} : status'[k] = status[k]
    BY <1>6, CommitEntryEffect
  <2>2. flag' = flag /\ vetted \subseteq vetted' /\ Goto(r, "committed")
    BY <1>6 DEF SubmitCommitEntry, InsertJob
  <2>3. \A q \in Reqs : \/ sess'[q] = sess[q]
                       \/ /\ sess'[q].op = sess[q].op /\ sess'[q].flag = sess[q].flag
                          /\ sess'[q].pc # "flagged"
    BY <1>t, <2>2 DEF Goto, TypeOK, Session
  <2> QED BY <1>t, <2>1, <2>2, <2>3, VettedKept
<1>7. ASSUME NEW r \in Reqs, VerifyCommit(r)
      PROVE  VettedInv'
  <2>1. flag' = flag /\ vetted' = vetted
    BY <1>7 DEF VerifyCommit
  <2>2. CASE sess[r].job = 0
    BY <1>7, <1>c, <1>t, <2>1, <2>2, VettedKept DEF VerifyCommit
  <2>3. CASE sess[r].job # 0
    <3>1. /\ status'[sess[r].job] # "wait"
          /\ \A k \in JobIds \ {sess[r].job} : status'[k] = status[k]
      BY <1>7, <2>3, VerifyCommitEffect
    <3>2. Goto(r, "committed")
      BY <1>7, <2>3 DEF VerifyCommit
    <3>3. \A q \in Reqs : \/ sess'[q] = sess[q]
                         \/ /\ sess'[q].op = sess[q].op /\ sess'[q].flag = sess[q].flag
                            /\ sess'[q].pc # "flagged"
      BY <1>t, <3>2 DEF Goto, TypeOK, Session
    <3> QED BY <1>t, <2>1, <3>1, <3>3, VettedKept
  <2> QED BY <2>2, <2>3
<1>8. ASSUME NEW r \in Reqs, NEW j \in JobIds, NEW s \in AdminStatuses \union {"sent"},
             SetStatus(r, j, s)
      PROVE  VettedInv'
  <2>1. /\ UNCHANGED <<vetted, flag>> /\ status' = [status EXCEPT ![j] = s] /\ s # "wait"
        /\ \A q \in Reqs : sess'[q] = sess[q] \/ sess'[q].op = "admin"
    BY <1>8, <1>t DEF SetStatus, Clearing, TypeOK
  <2>2. \A k \in JobIds : status'[k] = "wait" => status[k] = "wait"
    BY <1>t, <2>1 DEF TypeOK
  <2> QED BY <1>t, <2>1, <2>2, VettedKept
<1>9. ASSUME NEW j \in JobIds, Render(j) \/ Watchdog(j)
      PROVE  VettedInv'
  <2>1. /\ UNCHANGED <<vetted, flag, sess>>
        /\ \A k \in JobIds : status'[k] = "wait" => status[k] = "wait"
    BY <1>9, <1>t, StageEffect DEF TypeOK
  <2> QED BY <1>t, <2>1, VettedKept
<1>10. ASSUME \/ \E u \in Users : PendingExpires(u)
              \/ \E o \in OtpIds : OtpAges(o)
              \/ UNCHANGED vars
       PROVE  VettedInv'
  <2>1. UNCHANGED <<status, vetted, flag, sess>>
    BY <1>10 DEF PendingExpires, OtpAges, vars, db
  <2> QED BY <1>t, <2>1, VettedKept
\* The switch: off, nothing is claimed; on, what is claimed was drained before.
<1>11. ASSUME NEW v \in FlagValues, SetFlag(v)
       PROVE  VettedInv'
  <2>1. UNCHANGED <<status, vetted, sess>> /\ flag' # flag
    BY <1>11 DEF SetFlag, db
  <2>2. CheckOnWhenDrained
    BY <2>1 DEF vars
  <2>3. flag' => ~flag
    BY <1>t, <1>11, EntryAssumption DEF SetFlag
  <2> QED BY <2>1, <2>2, <2>3 DEF CheckOnWhenDrained, VettedInv, Entries, At
\* A verification that reads the check as on finds it on, so what still waits was checked.
<1>12. ASSUME NEW r \in Reqs, VerifyFlag(r)
       PROVE  VettedInv'
  <2>1. /\ UNCHANGED <<status, vetted, flag>> /\ \A q \in Reqs \ {r} : sess'[q] = sess[q]
        /\ sess'[r].op = "verify" /\ sess'[r].job = sess[r].job /\ sess'[r].flag = flag
    BY <1>12, <1>t, FlagEffect DEF FlagRead
  <2>2. sess[r].job \in JobIds \/ sess[r].job = 0
    BY <1>t, EntryAssumption DEF TypeOK, Session, JobIds
  <2>3. sess'[r].flag => \/ sess'[r].job = 0 \/ status'[sess[r].job] # "wait"
                         \/ sess'[r].job \in vetted'
    BY <2>1, <2>2 DEF VettedInv, Entries
  <2> QED BY <2>1, <2>3 DEF VettedInv, Entries, At
<1> QED
  BY <1>1, <1>2, <1>3, <1>4, <1>5, <1>6, <1>7, <1>8, <1>9, <1>10, <1>11, <1>12
     DEF Next, Submit, Verify, Resend, Panel, AdminUpdate, SendVideo

\* README "nothing unvetted reaches the renderer unnoticed": true of every overlap of
\* requests, as long as Redis keeps the flag (a lost one reads as on), the check is
\* switched on only once the entries and submits that skipped it are through, and the
\* panel neither queues an entry nor sends one back to `wait`.
THEOREM UnvettedStaysOutWhenDrained ==
  ASSUME {"wait", "queued"} \cap AdminStatuses = {}, ~FlagLost
  PROVE  Spec /\ [][CheckOnWhenDrained]_vars => UnvettedNeverQueued
<1>1. ASSUME Inv, VettedInv, [Next]_vars, NEW j \in JobIds,
             status[j] \in {"none", "wait"}, status'[j] = "queued"
      PROVE  j \in vetted'
  <2>t. TypeOK
    BY <1>1 DEF Inv, TypeInv
  <2>1. CASE \E r \in Reqs : SubmitCommitEntry(r)
    <3>1. PICK r \in Reqs : SubmitCommitEntry(r)
      BY <2>1
    <3>2. InsertJob(r, EntryStatus(SessionUser(r), sess[r].flag))
      BY <3>1 DEF SubmitCommitEntry, FlagAtSubmit
    <3>3. j = sess[r].job /\ EntryStatus(SessionUser(r), sess[r].flag) = "queued"
      BY <1>1, <2>t, <3>2 DEF InsertJob, TypeOK
    <3>4. sess[r].flag
      BY <3>3 DEF EntryStatus
    <3> QED BY <3>2, <3>3, <3>4 DEF InsertJob
  <2>2. CASE \E r \in Reqs : SubmitCommitWait(r)
    BY <1>1, <2>t, <2>2 DEF SubmitCommitWait, InsertJob, TypeOK
  <2>3. CASE \E r \in Reqs : VerifyCommit(r) /\ sess[r].job # 0
    <3>1. PICK r \in Reqs : VerifyCommit(r) /\ sess[r].job # 0
      BY <2>3
    <3>2. /\ status' = [status EXCEPT ![sess[r].job] = EntryStatus(SessionUser(r), sess[r].flag)]
          /\ vetted' = vetted /\ At(r, "verify", "flagged")
      BY <3>1 DEF VerifyCommit
    <3>3. j = sess[r].job /\ EntryStatus(SessionUser(r), sess[r].flag) = "queued"
      BY <1>1, <2>t, <3>2 DEF TypeOK
    <3>4. sess[r].flag
      BY <3>3 DEF EntryStatus
    <3>5. status[sess[r].job] = "wait"
      BY <1>1, <3>1, <3>2, <3>3 DEF Inv, EntryInv, RowsInv, Allocated, LocksUser, At, JobsOf
    <3> QED BY <1>1, <3>1, <3>2, <3>3, <3>4, <3>5 DEF VettedInv
  <2>4. CASE \E r \in Reqs, k \in JobIds, s \in AdminStatuses \union {"sent"} : SetStatus(r, k, s)
    BY <1>1, <2>t, <2>4 DEF SetStatus, TypeOK
  <2>5. CASE \E k \in JobIds : Render(k) \/ Watchdog(k)
    BY <1>1, <2>t, <2>5 DEF Render, Watchdog, TypeOK
  <2>6. CASE \/ \E r \in Reqs :
                  \/ \E u \in Users : SubmitRead(r, u) \/ VerifyRead(r, u) \/ ResendRead(r, u)
                  \/ SubmitReissue(r) \/ SubmitPending(r) \/ SubmitFlush(r) \/ SubmitUpload(r)
                  \/ VerifyFlag(r) \/ (VerifyCommit(r) /\ sess[r].job = 0)
                  \/ CachePending(r) \/ ResendCommit(r) \/ ClearPending(r) \/ Fail(r)
             \/ \E o \in OtpIds : OtpAges(o)
             \/ \E u \in Users : PendingExpires(u)
             \/ \E v \in FlagValues : SetFlag(v)
             \/ UNCHANGED vars
    <3>1. status' = status
      BY <2>6 DEF SubmitRead, VerifyRead, ResendRead, SubmitReissue, SubmitPending, SubmitFlush,
                  SubmitUpload, VerifyFlag, VerifyCommit, CachePending, ResendCommit, ClearPending, Fail,
                  OtpAges, PendingExpires, SetFlag, vars, db
    <3> QED BY <1>1, <3>1
  <2> QED
    BY <1>1, <2>1, <2>2, <2>3, <2>4, <2>5, <2>6
       DEF Next, Submit, Verify, Resend, Panel, AdminUpdate, SendVideo
<1>2. Inv /\ VettedInv /\ [Next]_vars =>
        [\A j \in JobIds : status[j] \in {"none", "wait"} /\ status'[j] = "queued"
           => j \in vetted']_vars
  BY <1>1
<1>3. Init => VettedInv
  BY DEF Init, VettedInv, Entries, Idle, At
<1>4. Inv /\ VettedInv /\ [Next]_vars /\ [CheckOnWhenDrained]_vars => VettedInv'
  BY VettedInvInductive
<1> QED BY <1>2, <1>3, <1>4, InvHolds, PTL DEF Spec, UnvettedNeverQueued
=============================================================================
