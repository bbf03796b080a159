-------------------------- MODULE JobPipelineProofs --------------------------
(***************************************************************************)
(* Theorems about JobPipeline, for every set of entries and requests and   *)
(* every retry limit.                                                      *)
(***************************************************************************)
EXTENDS JobPipeline, TLAPS

\* A session that is not idle is a read snapshot of some entry.
LEMMA SessionOpen ==
  ASSUME TypeOK, NEW r \in Reqs, sess[r].pc # "idle"
  PROVE  /\ sess[r].op \in {"update", "send"} /\ sess[r].pc \in {"read", "delivered"}
         /\ sess[r].job \in Jobs /\ sess[r].to \in JOB_STATUSES
         /\ sess[r].was \in Snapshots
BY DEF TypeOK, Session, Idle

\* Taking a snapshot and dropping it are well-typed.
LEMMA SessionStep ==
  ASSUME TypeOK, NEW r \in Reqs
  PROVE  /\ Close(r) => sess' \in [Reqs -> Session]
         /\ \A j \in Jobs, op \in {"update", "send"}, to \in JOB_STATUSES, was \in Snapshots :
              Begin(r, op, j, to, was) => sess' \in [Reqs -> Session]
<1>1. Close(r) => sess' \in [Reqs -> Session]
  BY DEF TypeOK, Close, Session
<1>2. ASSUME NEW j \in Jobs, NEW op \in {"update", "send"}, NEW to \in JOB_STATUSES,
             NEW was \in Snapshots, Begin(r, op, j, to, was)
      PROVE  sess' \in [Reqs -> Session]
  <2>1. [op |-> op, pc |-> "read", job |-> j, to |-> to, was |-> was] \in Session
    BY DEF Session
  <2> QED BY <1>2, <2>1 DEF TypeOK, Begin
<1> QED BY <1>1, <1>2

LEMMA SnapshotTyped ==
  ASSUME TypeOK, NEW j \in Jobs
  PROVE  Snapshot(j) \in Snapshots /\ StatusOnly(Snapshot(j)) \in Snapshots
<1>1. Snapshot(j) \in Snapshots
  BY DEF TypeOK, Snapshot, Snapshots
<1>2. \A was \in Snapshots : StatusOnly(was) \in Snapshots
  BY DEF StatusOnly, Snapshots, Errors
<1> QED BY <1>1, <1>2

\* The steps that belong to the row alone.
RowStep ==
  \/ \E j \in Jobs : Claim(j) \/ Finish(j) \/ FailStage(j) \/ LockAges(j) \/ SetVideoUrl(j)
                     \/ \E a \in {"photo", "video"} : DeleteAsset(j, a)
  \/ FailOver \/ Rewind

\* The steps of a request.
SessionStepOf(r) ==
  \/ \E j \in Jobs : SendRead(r, j) \/ \E s \in AdminStatuses : UpdateRead(r, j, s)
  \/ UpdateCommit(r) \/ SendOk(r) \/ SendCommit(r) \/ Fail(r)

LEMMA RowTyped ==
  ASSUME TypeOK, RowStep
  PROVE  TypeOK'
<1> USE PipelineAssumption
<1>1. ASSUME NEW j \in Jobs, Claim(j)
      PROVE  TypeOK'
  BY <1>1 DEF TypeOK, Claim, Claimed, JOB_STATUSES, hist
<1>2. ASSUME NEW j \in Jobs, Finish(j)
      PROVE  TypeOK'
  <2>1. Finished[status[j]] \in JOB_STATUSES /\ Produces[status[j]] \in {"photo", "video", "final"}
    BY <1>2 DEF Finish, Finished, Produces, JOB_STATUSES
  <2> QED BY <1>2, <2>1 DEF TypeOK, Finish
<1>3. ASSUME NEW j \in Jobs, FailStage(j)
      PROVE  TypeOK'
  <2>1. StageArms[status[j]] \in Stages
    BY <1>3 DEF FailStage, Finished, StageArms, Stages
  <2> QED BY <1>3, <2>1 DEF TypeOK, FailStage, JOB_STATUSES, Errors, hist
<1>4. ASSUME NEW j \in Jobs, LockAges(j) \/ SetVideoUrl(j)
      PROVE  TypeOK'
  BY <1>4 DEF TypeOK, LockAges, SetVideoUrl, hist
<1>5. ASSUME FailOver
      PROVE  TypeOK'
  <2>1. StageOf("failed") = "none"
    BY DEF StageOf, StageArms
  <2> QED BY <1>5, <2>1 DEF TypeOK, FailOver, JOB_STATUSES, Errors, hist
<1>6. ASSUME Rewind
      PROVE  TypeOK'
  <2>1. \A j \in Jobs : Stuck(j) => RewindTo[status[j]] \in JOB_STATUSES
    BY DEF Stuck, Watched, RewindTo, JOB_STATUSES
  <2>2. status' \in [Jobs -> JOB_STATUSES]
    BY <1>6, <2>1 DEF TypeOK, Rewind
  <2> QED BY <1>6, <2>2 DEF TypeOK, Rewind, Errors
<1>7. ASSUME NEW j \in Jobs, NEW a \in {"photo", "video"}, DeleteAsset(j, a)
      PROVE  TypeOK'
  BY <1>7 DEF TypeOK, DeleteAsset
<1> QED BY <1>1, <1>2, <1>3, <1>4, <1>5, <1>6, <1>7 DEF RowStep

LEMMA SessionTyped ==
  ASSUME TypeOK, NEW r \in Reqs, SessionStepOf(r)
  PROVE  TypeOK'
<1>1. ASSUME NEW j \in Jobs, SendRead(r, j)
      PROVE  TypeOK'
  BY <1>1, SessionStep, SnapshotTyped DEF TypeOK, SendRead, row, hist, JOB_STATUSES
<1>2. ASSUME NEW j \in Jobs, NEW s \in AdminStatuses, UpdateRead(r, j, s)
      PROVE  TypeOK'
  <2>1. s \in JOB_STATUSES
    BY PipelineAssumption
  <2> QED BY <1>2, <2>1, SessionStep, SnapshotTyped DEF TypeOK, UpdateRead, row, hist
<1>3. ASSUME UpdateCommit(r)
      PROVE  TypeOK'
  <2>1. sess[r].job \in Jobs /\ sess[r].to \in JOB_STATUSES /\ sess[r].was.retries \in Nat
    BY <1>3, SessionOpen DEF UpdateCommit, At, Snapshots
  <2> QED BY <1>3, <2>1, SessionStep DEF TypeOK, UpdateCommit, Written, Errors
<1>4. ASSUME SendOk(r)
      PROVE  TypeOK'
  <2>1. sess[r] \in Session \ {Idle} /\ sess[r].job \in Jobs
    BY <1>4, SessionOpen DEF SendOk, At, TypeOK, Idle
  <2>2. [sess[r] EXCEPT !.pc = "delivered"] \in Session
    BY <2>1 DEF Session
  <2>3. sess' \in [Reqs -> Session]
    BY <1>4, <2>2 DEF TypeOK, SendOk
  <2> QED BY <1>4, <2>1, <2>3 DEF TypeOK, SendOk, row, hist
<1>5. ASSUME SendCommit(r)
      PROVE  TypeOK'
  <2>1. sess[r].job \in Jobs
    BY <1>5, SessionOpen DEF SendCommit, Delivered, At
  <2> QED BY <1>5, <2>1, SessionStep DEF TypeOK, SendCommit, Written, JOB_STATUSES, hist
<1>6. ASSUME Fail(r)
      PROVE  TypeOK'
  BY <1>6, SessionStep DEF TypeOK, Fail, row, hist
<1> QED BY <1>1, <1>2, <1>3, <1>4, <1>5, <1>6 DEF SessionStepOf

\* Next is the steps of the rows and those of the requests.
LEMMA NextSplit == Next => RowStep \/ \E r \in Reqs : SessionStepOf(r)
BY DEF Next, RowStep, SessionStepOf

LEMMA TypeOKInductive == TypeOK /\ [Next]_vars => TypeOK'
<1>1. ASSUME TypeOK, UNCHANGED vars
      PROVE  TypeOK'
  BY <1>1 DEF TypeOK, vars, row, hist
<1> QED BY <1>1, RowTyped, SessionTyped, NextSplit

LEMMA TypeOKInitially == Init => TypeOK
BY PipelineAssumption DEF Init, TypeOK, JOB_STATUSES, Errors, Session, Idle

\* No actor writes a status, a stage or an error code its column does not have.
THEOREM ColumnsTyped == Spec => []TypeOK
<1> QED BY TypeOKInitially, TypeOKInductive, PTL DEF Spec

-----------------------------------------------------------------------------
(* Delivered before sent, assets behind the status, and the retry budget *)

\* What the invariants say of one entry: on its delivery, its assets, its retries.
Earned(j) == status[j] = "sent" => delivered[j] > 0 \/ "sent" \in byHand[j]
Behind(j, s) ==
  s \in DOMAIN Needs =>
    \/ Needs[s] \in done[j] \union cleared[j]
    \/ \E t \in byHand[j] \intersect DOMAIN Needs : Needs[t] = Needs[s]
Counted(j) ==
  /\ rewinds[j] + Left(j) <= MaxRetry + overwritten[j] * Regained
  /\ retries[j] <= rewinds[j] + edits[j]
RowInv(j) == Earned(j) /\ Behind(j, status[j]) /\ Counted(j)

LEMMA RegainedTyped == Regained \in Nat /\ Regained <= MaxRetry
BY PipelineAssumption DEF Regained

\* The budget is what is left of the allowance when nothing is left.
LEMMA CountedInBudget ==
  ASSUME TypeOK, NEW j \in Jobs, Counted(j)
  PROVE  rewinds[j] <= MaxRetry + overwritten[j] * Regained
<1> DEFINE b == overwritten[j] * Regained
<1>1. b \in Nat
  BY RegainedTyped DEF TypeOK
<1>2. Left(j) \in Nat
  BY PipelineAssumption DEF TypeOK, Left
<1>3. rewinds[j] + Left(j) <= MaxRetry + b /\ rewinds[j] \in Nat
  BY DEF Counted, TypeOK
<1> HIDE DEF b
<1>4. rewinds[j] <= MaxRetry + b
  BY <1>1, <1>2, <1>3, PipelineAssumption
<1> QED BY <1>4 DEF b

LEMMA ByRow ==
  ASSUME TypeOK
  PROVE  PipelineInv <=> SessionInv /\ \A j \in Jobs : RowInv(j)
BY CountedInBudget
   DEF PipelineInv, SentWasDelivered, AssetsBehindStatus, RetryBudget, Allowance,
       RowInv, Earned, Behind, Counted

LEMMA ByRowPrimed ==
  ASSUME TypeOK'
  PROVE  PipelineInv' <=> SessionInv' /\ \A j \in Jobs : RowInv(j)'
<1>1. (TypeOK => (PipelineInv <=> SessionInv /\ \A j \in Jobs : RowInv(j)))'
  BY ByRow, PTL
<1> QED BY <1>1

\* An entry whose columns do not change keeps its part.
LEMMA RowUntouched ==
  ASSUME NEW j \in Jobs, RowInv(j), status'[j] = status[j], retries'[j] = retries[j],
         done'[j] = done[j], delivered'[j] = delivered[j], edits'[j] = edits[j],
         rewinds'[j] = rewinds[j], overwritten'[j] = overwritten[j],
         byHand'[j] = byHand[j], cleared'[j] = cleared[j]
  PROVE  RowInv(j)'
BY DEF RowInv, Earned, Behind, Counted, Left

\* What was rendered, deleted or set by hand keeps standing behind a status.
LEMMA BehindKept ==
  ASSUME NEW j \in Jobs, NEW s, Behind(j, s), byHand[j] \subseteq byHand'[j],
         done[j] \union cleared[j] \subseteq done'[j] \union cleared'[j]
  PROVE  Behind(j, s)'
<1>1. CASE s \notin DOMAIN Needs
  BY <1>1 DEF Behind, Needs
<1>2. CASE s \in DOMAIN Needs /\ Needs[s] \in done[j] \union cleared[j]
  BY <1>2 DEF Behind, Needs
<1>3. CASE \E t \in byHand[j] \intersect DOMAIN Needs : Needs[t] = Needs[s]
  BY <1>3 DEF Behind, Needs
<1> QED BY <1>1, <1>2, <1>3 DEF Behind

\* ... also when the status moves, if they stand behind the new one.
LEMMA BehindNext ==
  ASSUME NEW j \in Jobs, NEW s, s = status'[j], Behind(j, s), byHand[j] \subseteq byHand'[j],
         done[j] \union cleared[j] \subseteq done'[j] \union cleared'[j]
  PROVE  Behind(j, status[j])'
<1>1. Behind(j, s)'
  BY BehindKept
<1> QED BY <1>1 DEF Behind

\* The retry count and its history are untouched.
LEMMA CountedKept ==
  ASSUME NEW j \in Jobs, Counted(j), retries'[j] = retries[j], edits'[j] = edits[j],
         rewinds'[j] = rewinds[j], overwritten'[j] = overwritten[j]
  PROVE  Counted(j)'
BY DEF Counted, Left

\* A session keeps what it relies on as rewinds, edits and deliveries only grow.
LEMMA SessionsUntouched ==
  ASSUME TypeOK, SessionInv, UNCHANGED <<edits, delivered, sess>>,
         \A j \in Jobs : rewinds'[j] \in Nat /\ rewinds[j] <= rewinds'[j]
  PROVE  SessionInv'
<1> SUFFICES ASSUME NEW r \in Reqs, sess[r] # Idle
             PROVE  /\ sess[r].was.retries <= rewinds'[sess[r].job] + edits[sess[r].job]
                    /\ sess[r].op = "send" => sess[r].to = "sent"
                    /\ At(r, "send", "delivered") => delivered[sess[r].job] > 0
  BY DEF SessionInv, At
<1>1. sess[r].job \in Jobs /\ sess[r].was.retries \in Nat
  BY DEF TypeOK, Session, Snapshots
<1>2. sess[r].was.retries <= rewinds[sess[r].job] + edits[sess[r].job]
  BY DEF SessionInv
<1>3. edits[sess[r].job] \in Nat /\ rewinds[sess[r].job] \in Nat
  BY <1>1 DEF TypeOK
<1>4. sess[r].was.retries <= rewinds'[sess[r].job] + edits[sess[r].job]
  BY <1>1, <1>2, <1>3
<1> QED BY <1>4 DEF SessionInv

LEMMA RowKeeps ==
  ASSUME TypeOK, PipelineInv, RowStep
  PROVE  PipelineInv'
<1> USE PipelineAssumption
<1>t. TypeOK'
  BY RowTyped
<1>r. SessionInv /\ \A k \in Jobs : RowInv(k)
  BY ByRow
<1>s. SessionInv'
  <2>1. \A j \in Jobs : rewinds'[j] \in Nat /\ rewinds[j] <= rewinds'[j]
    BY DEF TypeOK, RowStep, Claim, Finish, FailStage, LockAges, SetVideoUrl, DeleteAsset,
           FailOver, Rewind, hist
  <2>2. UNCHANGED <<edits, delivered, sess>>
    BY DEF RowStep, Claim, Finish, FailStage, LockAges, SetVideoUrl, DeleteAsset,
           FailOver, Rewind, hist
  <2> QED BY <1>r, <2>1, <2>2, SessionsUntouched
<1>1. ASSUME NEW j \in Jobs, Claim(j), NEW k \in Jobs
      PROVE  RowInv(k)'
  <2>1. CASE k # j
    BY <1>1, <1>r, <2>1, RowUntouched DEF TypeOK, Claim, hist
  <2>2. CASE k = j
    <3>1. status'[j] = Claimed[status[j]]
      BY <1>1 DEF TypeOK, Claim
    <3>2. Behind(j, Claimed[status[j]])
      BY <1>1, <1>r DEF Claim, Claimed, RowInv, Behind, Needs
    <3>3. Behind(j, status[j])'
      BY <1>1, <3>1, <3>2, BehindNext DEF Claim, hist
    <3> QED BY <1>1, <1>r, <2>2, <3>1, <3>3, CountedKept DEF Claim, Claimed, hist, RowInv, Earned
  <2> QED BY <2>1, <2>2
<1>2. ASSUME NEW j \in Jobs, Finish(j), NEW k \in Jobs
      PROVE  RowInv(k)'
  <2>1. CASE k # j
    BY <1>2, <1>r, <2>1, RowUntouched DEF TypeOK, Finish
  <2>2. CASE k = j
    <3>1. status'[j] = Finished[status[j]] /\ Produces[status[j]] \in done'[j]
      BY <1>2 DEF TypeOK, Finish
    <3>2. Needs[Finished[status[j]]] = Produces[status[j]] /\ Finished[status[j]] # "sent"
      BY <1>2 DEF Finish, Finished, Produces, Needs
    <3>3. Behind(j, status[j])'
      BY <3>1, <3>2 DEF Behind, Needs
    <3> QED BY <1>2, <1>r, <2>2, <3>1, <3>2, <3>3, CountedKept DEF Finish, RowInv, Earned
  <2> QED BY <2>1, <2>2
<1>3. ASSUME NEW j \in Jobs, FailStage(j), NEW k \in Jobs
      PROVE  RowInv(k)'
  <2>1. CASE k # j
    BY <1>3, <1>r, <2>1, RowUntouched DEF TypeOK, FailStage, hist
  <2>2. CASE k = j
    <3>1. status'[j] = "failed"
      BY <1>3 DEF TypeOK, FailStage
    <3> QED BY <1>3, <1>r, <2>2, <3>1, CountedKept
            DEF FailStage, hist, RowInv, Earned, Behind, Needs
  <2> QED BY <2>1, <2>2
<1>4. ASSUME NEW j \in Jobs, LockAges(j), NEW k \in Jobs
      PROVE  RowInv(k)'
  BY <1>4, <1>r, RowUntouched DEF LockAges, hist
<1>5. ASSUME NEW j \in Jobs, SetVideoUrl(j), NEW k \in Jobs
      PROVE  RowInv(k)'
  <2>1. done[k] \subseteq done'[k]
    BY <1>5 DEF TypeOK, SetVideoUrl
  <2>2. Behind(k, status[k])'
    BY <1>5, <1>r, <2>1, BehindKept DEF SetVideoUrl, hist, RowInv, Behind
  <2> QED BY <1>5, <1>r, <2>2, CountedKept DEF SetVideoUrl, hist, RowInv, Earned
<1>6. ASSUME NEW j \in Jobs, NEW a \in {"photo", "video"}, DeleteAsset(j, a), NEW k \in Jobs
      PROVE  RowInv(k)'
  <2>1. done[k] \union cleared[k] \subseteq done'[k] \union cleared'[k]
    BY <1>6 DEF TypeOK, DeleteAsset
  <2>2. Behind(k, status[k])'
    BY <1>6, <1>r, <2>1, BehindKept DEF DeleteAsset, RowInv, Behind
  <2> QED BY <1>6, <1>r, <2>2, CountedKept DEF DeleteAsset, RowInv, Earned
<1>7. ASSUME FailOver, NEW k \in Jobs
      PROVE  RowInv(k)'
  <2>1. status'[k] \in {status[k], "failed"}
    BY <1>7 DEF TypeOK, FailOver
  <2>2. Behind(k, status[k]) /\ Behind(k, "failed")
    BY <1>r DEF RowInv, Behind, Needs
  <2>3. Behind(k, status[k])'
    BY <1>7, <2>1, <2>2, BehindNext DEF FailOver, hist
  <2> QED BY <1>7, <1>r, <2>1, <2>3, CountedKept DEF FailOver, hist, RowInv, Earned
<1>8. ASSUME Rewind, NEW k \in Jobs
      PROVE  RowInv(k)'
  <2>1. CASE ~(Stuck(k) /\ ~RetriesOver(k))
    BY <1>8, <1>r, <2>1, RowUntouched DEF TypeOK, Rewind
  <2>2. CASE Stuck(k) /\ ~RetriesOver(k)
    <3>1. /\ status'[k] = RewindTo[status[k]] /\ retries'[k] = retries[k] + 1
          /\ rewinds'[k] = rewinds[k] + 1
      BY <1>8, <2>2 DEF TypeOK, Rewind
    <3>2. Behind(k, RewindTo[status[k]]) /\ RewindTo[status[k]] # "sent"
      BY <1>r, <2>2 DEF Stuck, Watched, RewindTo, RowInv, Behind, Needs
    <3>3. Behind(k, status[k])'
      BY <1>8, <3>1, <3>2, BehindNext DEF Rewind
    <3>4. Counted(k)'
      <4> DEFINE b == overwritten[k] * Regained
      <4>1. Left(k)' = Left(k) - 1 /\ Left(k) \in Nat
        BY <2>2, <3>1 DEF TypeOK, Left, RetriesOver
      <4>2. rewinds[k] + Left(k) <= MaxRetry + b /\ retries[k] <= rewinds[k] + edits[k]
        BY <1>r DEF RowInv, Counted
      <4>3. b \in Nat /\ rewinds[k] \in Nat /\ retries[k] \in Nat /\ edits[k] \in Nat
        BY RegainedTyped DEF TypeOK
      <4>4. (overwritten[k] * Regained)' = b /\ edits'[k] = edits[k]
        BY <1>8 DEF Rewind, Regained
      <4> HIDE DEF b
      <4> QED BY <3>1, <4>1, <4>2, <4>3, <4>4 DEF Counted
    <3> QED BY <3>1, <3>2, <3>3, <3>4 DEF RowInv, Earned
  <2> QED BY <2>1, <2>2
<1> QED BY <1>t, <1>s, <1>1, <1>2, <1>3, <1>4, <1>5, <1>6, <1>7, <1>8, ByRowPrimed DEF RowStep

\* A commit that wrote back what differs from its snapshot leaves either the
\* value it wanted or the one that is there.
LEMMA WrittenIsEither == \A now, old, new : Written(now, old, new) \in {now, new}
BY DEF Written

\* An update-job call: its count is one more than the row's, or it wrote over a
\* newer one and is one at least.
LEMMA UpdateCounted ==
  ASSUME TypeOK, PipelineInv, NEW r \in Reqs, UpdateCommit(r),
         NEW j \in Jobs, j = sess[r].job
  PROVE  Counted(j)'
<1> USE PipelineAssumption
<1>0. PICK n \in Nat, o \in Nat : n = sess[r].was.retries /\ o = overwritten[j]
  BY SessionOpen DEF UpdateCommit, At, Snapshots, TypeOK
<1>1. j \in Jobs /\ n \in Nat
  OBVIOUS
<1>2. n <= rewinds[j] + edits[j]
  BY <1>0 DEF UpdateCommit, At, PipelineInv, SessionInv, Idle
<1>3. /\ retries'[j] = n + 1 /\ edits'[j] = edits[j] + 1 /\ rewinds'[j] = rewinds[j]
      /\ overwritten'[j] = IF n = retries[j] THEN o ELSE o + 1
  BY <1>0 DEF UpdateCommit, TypeOK
<1>4. rewinds[j] \in Nat /\ retries[j] \in Nat /\ edits[j] \in Nat /\ o \in Nat
  BY <1>1 DEF TypeOK
<1>5. Counted(j)
  BY <1>1, ByRow DEF RowInv
<1>6. retries'[j] <= rewinds'[j] + edits'[j]
  BY <1>1, <1>2, <1>3, <1>4
<1>7. CASE n = retries[j]
  <2> DEFINE b == o * Regained
  <2>1. b \in Nat
    BY <1>4, RegainedTyped
  <2>2. Left(j)' <= Left(j) /\ Left(j)' \in Nat /\ Left(j) \in Nat
    BY <1>1, <1>3, <1>4, <1>7 DEF Left
  <2>3. rewinds[j] + Left(j) <= MaxRetry + b
    BY <1>0, <1>5 DEF Counted
  <2>4. (overwritten[j] * Regained)' = b
    BY <1>3, <1>7 DEF Regained
  <2> HIDE DEF b
  <2>5. rewinds'[j] + Left(j)' <= MaxRetry + b
    BY <1>3, <1>4, <2>1, <2>2, <2>3
  <2> QED BY <1>6, <2>4, <2>5 DEF Counted
<1>8. CASE n # retries[j]
  <2>1. rewinds[j] <= MaxRetry + o * Regained
    BY <1>0, <1>5, CountedInBudget
  <2>2. Left(j)' <= Regained /\ Left(j)' \in Nat
    BY <1>1, <1>3 DEF Left, Regained
  <2>3. (overwritten[j] * Regained)' = o * Regained + Regained
    BY <1>3, <1>4, <1>8, RegainedTyped DEF Regained
  <2> DEFINE b == o * Regained
  <2>4. b \in Nat
    BY <1>4, RegainedTyped
  <2> HIDE DEF b
  <2>5. rewinds[j] + Left(j)' <= MaxRetry + (b + Regained)
    BY <1>4, <2>1, <2>2, <2>4, RegainedTyped DEF b
  <2> QED BY <1>3, <1>6, <2>3, <2>5 DEF Counted, b
<1> QED BY <1>7, <1>8

LEMMA SessionKeeps ==
  ASSUME TypeOK, PipelineInv, NEW r \in Reqs, SessionStepOf(r)
  PROVE  PipelineInv'
<1> USE PipelineAssumption
<1>t. TypeOK'
  BY SessionTyped
<1>i. SessionInv
  BY ByRow
<1>r. \A k \in Jobs : RowInv(k)
  BY ByRow
<1>q. \A q \in Reqs : sess[q].pc # "idle" => sess[q].job \in Jobs
  BY SessionOpen
<1>c. Close(r) => sess'[r] = Idle /\ \A q \in Reqs \ {r} : sess'[q] = sess[q]
  BY DEF Close, TypeOK
<1>b. ASSUME NEW j \in Jobs, NEW op \in {"update", "send"}, NEW to \in JOB_STATUSES,
             NEW was \in Snapshots, Begin(r, op, j, to, was), op = "send" => to = "sent",
             was.retries <= retries[j], UNCHANGED <<row, delivered, hist>>
      PROVE  PipelineInv'
  <2>1. /\ sess'[r] = [op |-> op, pc |-> "read", job |-> j, to |-> to, was |-> was]
        /\ \A q \in Reqs \ {r} : sess'[q] = sess[q]
    BY <1>b DEF Begin, TypeOK
  <2>2. was.retries <= rewinds[j] + edits[j]
    <3>1. was.retries \in Nat /\ retries[j] \in Nat /\ rewinds[j] \in Nat /\ edits[j] \in Nat
      BY DEF TypeOK, Snapshots
    <3>2. retries[j] <= rewinds[j] + edits[j]
      BY <1>r DEF RowInv, Counted
    <3> QED BY <1>b, <3>1, <3>2
  <2>3. SessionInv'
    BY <1>b, <1>i, <2>1, <2>2 DEF SessionInv, At, row, hist
  <2> QED BY <1>b, <1>t, <1>r, <2>3, RowUntouched, ByRowPrimed DEF row, hist
<1>1. ASSUME NEW j \in Jobs, SendRead(r, j)
      PROVE  PipelineInv'
  <2>1. StatusOnly(Snapshot(j)).retries <= retries[j]
    BY DEF StatusOnly, Snapshot, TypeOK
  <2> QED BY <1>1, <1>b, <2>1, SnapshotTyped DEF SendRead, JOB_STATUSES
<1>2. ASSUME NEW j \in Jobs, NEW s \in AdminStatuses, UpdateRead(r, j, s)
      PROVE  PipelineInv'
  <2>1. Snapshot(j).retries <= retries[j]
    BY DEF Snapshot, TypeOK
  <2> QED BY <1>2, <1>b, <2>1, SnapshotTyped DEF UpdateRead
<1>3. ASSUME UpdateCommit(r)
      PROVE  PipelineInv'
  <2>1. PICK j \in Jobs : j = sess[r].job /\ sess[r].to \in JOB_STATUSES
    BY <1>3, SessionOpen DEF UpdateCommit, At
  <2>2. \/ status'[j] = status[j] /\ byHand'[j] = byHand[j]
        \/ status'[j] \in {status[j], sess[r].to} /\ byHand'[j] = byHand[j] \union {sess[r].to}
    BY <1>3, <2>1 DEF UpdateCommit, TypeOK, Written
  <2>3. SessionInv'
    <3>1. ASSUME NEW q \in Reqs \ {r}, sess[q] # Idle
          PROVE  sess[q].was.retries <= rewinds[sess[q].job] + edits'[sess[q].job]
      <4>1. sess[q].job \in Jobs /\ sess[q].was.retries \in Nat
        BY <3>1 DEF TypeOK, Session, Snapshots
      <4>2. sess[q].was.retries <= rewinds[sess[q].job] + edits[sess[q].job]
        BY <1>i, <3>1 DEF SessionInv
      <4>3. edits[sess[q].job] <= edits'[sess[q].job]
        BY <1>3, <2>1, <4>1 DEF UpdateCommit, TypeOK
      <4>4. edits[sess[q].job] \in Nat /\ edits'[sess[q].job] \in Nat /\ rewinds[sess[q].job] \in Nat
        BY <1>t, <4>1 DEF TypeOK
      <4> QED BY <4>1, <4>2, <4>3, <4>4
    <3> QED BY <1>3, <1>i, <1>c, <3>1 DEF UpdateCommit, SessionInv, At
  <2>4. ASSUME NEW k \in Jobs
        PROVE  RowInv(k)'
    <3>1. CASE k # j
      BY <1>3, <1>r, <2>1, <3>1, RowUntouched DEF UpdateCommit, TypeOK
    <3>2. CASE k = j
      <4>1. Counted(j)'
        BY <1>3, <2>1, UpdateCounted
      <4>2. delivered' = delivered /\ done' = done /\ cleared' = cleared
        BY <1>3 DEF UpdateCommit
      <4>3. Earned(j)'
        BY <1>r, <2>1, <2>2, <4>2 DEF RowInv, Earned
      <4>4. Behind(j, status[j])'
        <5>1. byHand[j] \subseteq byHand'[j]
                /\ done[j] \union cleared[j] \subseteq done'[j] \union cleared'[j]
          BY <2>2, <4>2
        <5>2. CASE status'[j] = status[j]
          BY <1>r, <5>1, <5>2, BehindNext DEF RowInv
        <5>3. CASE status'[j] # status[j]
          <6>1. status'[j] = sess[r].to /\ sess[r].to \in byHand'[j]
            BY <2>2, <5>3
          <6> QED BY <6>1 DEF Behind, Needs
        <5> QED BY <5>2, <5>3
      <4> QED BY <3>2, <4>1, <4>3, <4>4 DEF RowInv
    <3> QED BY <3>1, <3>2
  <2> QED BY <1>t, <2>3, <2>4, ByRowPrimed
<1>4. ASSUME SendOk(r)
      PROVE  PipelineInv'
  <2>1. sess[r].job \in Jobs /\ sess[r] # Idle
    BY <1>4, <1>q DEF SendOk, At, Idle
  <2>2. \A k \in Jobs : delivered'[k] \in Nat /\ delivered[k] <= delivered'[k]
    BY <1>4, <2>1 DEF SendOk, TypeOK
  <2>3. delivered'[sess[r].job] > 0
    BY <1>4, <2>1 DEF SendOk, TypeOK
  <2>4. /\ sess'[r].op = "send" /\ sess'[r].pc = "delivered" /\ sess'[r].job = sess[r].job
        /\ sess'[r].to = sess[r].to /\ sess'[r].was = sess[r].was
    <3>1. sess[r] \in [op : {"update", "send"}, pc : {"read", "delivered"}, job : Jobs,
                       to : JOB_STATUSES, was : Snapshots]
      BY <1>4 DEF SendOk, At, TypeOK, Session, Idle
    <3>2. sess'[r] = [sess[r] EXCEPT !.pc = "delivered"]
      BY <1>4 DEF SendOk, TypeOK
    <3> QED BY <1>4, <3>1, <3>2 DEF SendOk, At
  <2>5. \A q \in Reqs \ {r} : sess'[q] = sess[q]
    BY <1>4 DEF SendOk, TypeOK
  <2>6. SessionInv'
    <3>1. ASSUME NEW q \in Reqs \ {r}, At(q, "send", "delivered")
          PROVE  delivered'[sess[q].job] > 0
      <4>1. sess[q].job \in Jobs /\ sess[q] # Idle
        BY <3>1, <1>q DEF At, Idle
      <4>2. delivered[sess[q].job] > 0
        BY <1>i, <3>1, <4>1 DEF SessionInv
      <4> QED BY <2>2, <4>1, <4>2 DEF TypeOK
    <3>2. sess[r].was.retries <= rewinds[sess[r].job] + edits[sess[r].job] /\ sess[r].to = "sent"
      BY <1>4, <1>i, <2>1 DEF SessionInv, SendOk, At
    <3> QED BY <1>4, <1>i, <2>3, <2>4, <2>5, <3>1, <3>2 DEF SendOk, SessionInv, At, row, hist
  <2>7. ASSUME NEW k \in Jobs
        PROVE  RowInv(k)'
    <3>1. delivered[k] > 0 => delivered'[k] > 0
      BY <2>2 DEF TypeOK
    <3>2. Behind(k, status[k])'
      BY <1>4, <1>r, BehindKept DEF SendOk, row, hist, RowInv, Behind
    <3> QED BY <1>4, <1>r, <3>1, <3>2, CountedKept DEF SendOk, row, hist, RowInv, Earned
  <2> QED BY <1>t, <2>6, <2>7, ByRowPrimed
<1>5. ASSUME SendCommit(r)
      PROVE  PipelineInv'
  <2>1. PICK j \in Jobs : j = sess[r].job /\ delivered[j] > 0
    BY <1>5, <1>q, <1>i DEF SendCommit, Delivered, At, SessionInv, Idle
  <2>2. status'[j] \in {status[j], "sent"} /\ "final" \in done'[j] /\ done[j] \subseteq done'[j]
    BY <1>5, <2>1, WrittenIsEither DEF SendCommit, TypeOK
  <2>3. SessionInv'
    BY <1>5, <1>i, <1>c DEF SendCommit, SessionInv, At, hist
  <2>4. ASSUME NEW k \in Jobs
        PROVE  RowInv(k)'
    <3>1. CASE k # j
      BY <1>5, <1>r, <2>1, <3>1, RowUntouched DEF SendCommit, TypeOK, hist
    <3>2. CASE k = j
      <4>1. Behind(j, status[j])'
        <5>1. CASE status'[j] = "sent"
          BY <2>2, <5>1 DEF Behind, Needs
        <5>2. CASE status'[j] = status[j]
          <6>1. Behind(j, status[j]) /\ byHand'[j] = byHand[j] /\ cleared'[j] = cleared[j]
            BY <1>5, <1>r DEF RowInv, SendCommit, hist
          <6> QED BY <2>2, <5>2, <6>1, BehindNext
        <5> QED BY <2>2, <5>1, <5>2
      <4>2. delivered'[j] > 0
        BY <1>5, <2>1 DEF SendCommit
      <4> QED BY <1>5, <1>r, <3>2, <4>1, <4>2, CountedKept DEF SendCommit, hist, RowInv, Earned
    <3> QED BY <3>1, <3>2
  <2> QED BY <1>t, <2>3, <2>4, ByRowPrimed
<1>6. ASSUME Fail(r)
      PROVE  PipelineInv'
  <2>1. SessionInv'
    BY <1>6, <1>i, <1>c DEF Fail, SessionInv, At, row, hist
  <2> QED BY <1>6, <1>t, <1>r, <2>1, RowUntouched, ByRowPrimed DEF Fail, row, hist
<1> QED BY <1>1, <1>2, <1>3, <1>4, <1>5, <1>6 DEF SessionStepOf

LEMMA PipelineInvInductive == TypeOK /\ PipelineInv /\ [Next]_vars => PipelineInv'
<1>1. ASSUME PipelineInv, UNCHANGED vars
      PROVE  PipelineInv'
  BY <1>1 DEF PipelineInv, SessionInv, At, SentWasDelivered, AssetsBehindStatus, RetryBudget,
              Allowance, Left, vars, row, hist
<1> QED BY <1>1, RowKeeps, SessionKeeps, NextSplit

LEMMA PipelineInvInitially == Init => PipelineInv
<1> SUFFICES ASSUME Init
             PROVE  PipelineInv
  OBVIOUS
<1>1. SessionInv
  BY DEF Init, SessionInv
<1>2. SentWasDelivered /\ AssetsBehindStatus
  BY DEF Init, SentWasDelivered, AssetsBehindStatus, Needs
<1>3. 0 * Regained = 0
  BY RegainedTyped
<1>4. RetryBudget /\ Allowance
  BY <1>3, PipelineAssumption DEF Init, RetryBudget, Allowance, Left
<1> QED BY <1>1, <1>2, <1>4 DEF PipelineInv

LEMMA PipelineInvHolds == Spec => []PipelineInv
<1> QED
  BY TypeOKInitially, TypeOKInductive, PipelineInvInitially, PipelineInvInductive, PTL DEF Spec

\* However watchdog, panel, renderer and deliveries interleave, and whatever statuses
\* the panel sets, an entry is `sent` after WhatsApp took its video or by hand.
THEOREM SentMeansDelivered == Spec => []SentWasDelivered
<1>1. PipelineInv => SentWasDelivered
  BY DEF PipelineInv
<1> QED BY <1>1, PipelineInvHolds, PTL

\* No rewind and no stale write puts an entry ahead of what was rendered for it; what
\* was deleted since and what an admin set by hand are named, not assumed away.
THEOREM AssetsAreBehind == Spec => []AssetsBehindStatus
<1>1. PipelineInv => AssetsBehindStatus
  BY DEF PipelineInv
<1> QED BY <1>1, PipelineInvHolds, PTL

\* The watchdog rewinds an entry at most max_retry times, and max_retry - 1 times more
\* for each update-job call that wrote its old count over a newer one; the count never
\* runs ahead of what happened.
THEOREM RetriesWithinBudget == Spec => []RetryBudget
<1>1. PipelineInv => RetryBudget
  BY DEF PipelineInv
<1> QED BY <1>1, PipelineInvHolds, PTL

\* A request about to write `sent` after WhatsApp's answer has a delivery behind
\* it, and no update-job counts on from more retries than there were.
THEOREM SnapshotsAreSound == Spec => []SessionInv
<1>1. PipelineInv => SessionInv
  BY DEF PipelineInv
<1> QED BY <1>1, PipelineInvHolds, PTL
=============================================================================
