------------------------ MODULE AdminAccountsProofs ------------------------
(***************************************************************************)
(* Proofs about AdminAccounts, for any accounts, workers, requests and     *)
(* TTL.                                                                    *)
(***************************************************************************)
EXTENDS AdminAccounts, TLAPS

Stages == {"idle", "filling", "authorised", "loaded", "login", "ok", "failed"}

Removing == {"deactivate", "demote", "delete"}
Adding == {"add_admin", "add_superadmin"}

(* What a request holds at each stage.                                     *)
StageInv ==
    \A r \in Req :
      /\ reqs[r].st \in {"filling", "authorised", "loaded", "login"} => reqs[r].w \in Worker
      /\ reqs[r].st \in {"filling", "login"} => reqs[r].user \in Admin
      /\ reqs[r].st = "loaded" => reqs[r].target \in Admin
      /\ reqs[r].st = "loaded" /\ reqs[r].op \in Resets => reqs[r].snap.tv < MaxTv
      /\ reqs[r].st = "loaded" /\ reqs[r].op = "delete" => reqs[r].snap.st = "live"

(* What a request may rely on when nothing was committed since it loaded.  *)
LoadedHolds(r) ==
    reqs[r].st = "loaded" /\ ~ reqs[r].dirty =>
      /\ reqs[r].snap = rows[reqs[r].target]
      /\ reqs[r].op \in Removing /\ IsSuper(rows[reqs[r].target])
           => AnotherSuper(rows, reqs[r].target)

(* While a username has had one account at most, no token names a          *)
(* generation that account has not reached.                                *)
TokensReached ==
    /\ \A a \in Admin : rows[a].id <= 1 =>
         \A v \in 0..MaxTv : <<a, v>> \in tokens => v <= rows[a].tv
    /\ \A a \in Admin : rows[a].st = "absent" => rows[a].tv = 0
    /\ \A a \in Admin : rows[a].st = "absent" <=> rows[a].id = 0

SerialInv ==
    ~ overlap => /\ SuperadminRemains
                 /\ TokensReached
                 /\ \A r \in Req : LoadedHolds(r)

(* The inductive invariant of the accounts.                                *)
AccInv == AccTypeOK /\ StageInv /\ AccountCacheBounded /\ SerialInv

-----------------------------------------------------------------------------
LEMMA BlankRequest ==
    ASSUME NEW st \in Stages
    PROVE  /\ AccBlank(st) \in Request
           /\ AccBlank(st).st = st /\ AccBlank(st).age = 0
BY AccountsAssumption DEF AccBlank, Request, Stages, NoRow, Row, Roles, Age, Ops

LEMMA NoRowType == NoRow \in Row /\ NoEntry \in [data : Row, age : Age] /\ NoEntry.age = TTL
BY AccountsAssumption DEF NoRow, NoEntry, Row, Roles, Age

(* resolve_admin's outcome.                                                *)
LEMMA ResolvedType ==
    ASSUME NEW w \in Worker, NEW u \in Admin, NEW tv \in 0..MaxTv, NEW data \in Row,
           NEW age \in Age, NEW err \in BOOLEAN
    PROVE  LET s == Resolved(w, u, tv, data, age, err) IN
           /\ s \in Request
           /\ s.st \in {"authorised", "failed"}
           /\ s.st = "authorised" =>
                /\ s.w = w /\ s.user = u /\ s.tv = tv /\ s.age = age /\ s.err = err
                /\ Entitled(data, tv)
<1>1. /\ AccBlank("authorised") \in Request /\ AccBlank("authorised").st = "authorised"
      /\ AccBlank("failed") \in Request /\ AccBlank("failed").st = "failed"
  BY BlankRequest DEF Stages
<1>2. CASE Entitled(data, tv)
  BY <1>1, <1>2 DEF Resolved, Request
<1>3. CASE ~ Entitled(data, tv)
  BY <1>1, <1>3 DEF Resolved
<1>4. QED
  BY <1>2, <1>3

(* The row a handler leaves, and when it still is a super-admin's.         *)
LEMMA WrittenType ==
    ASSUME NEW row \in Row, NEW snap \in Row, NEW op \in Ops,
           op \in Resets => snap.tv < MaxTv
    PROVE  /\ Written(row, snap, op) \in Row
           /\ op \notin Removing \cup Adding /\ IsSuper(row) => IsSuper(Written(row, snap, op))
           /\ op \in Resets => Written(row, snap, op).tv = snap.tv + 1
           /\ op \notin Resets \cup Adding => Written(row, snap, op).tv = row.tv
           /\ Written(row, snap, op).st # "absent" \/ row.st = "absent"
           /\ op \notin Adding => Written(row, snap, op).id = row.id
<1> USE AccountsAssumption DEF Row, Roles, IsSuper, Removing, Adding, Resets, NewRow
<1>1. CASE op \in Adding
  BY <1>1 DEF Written
<1>2. CASE op \in {"activate", "deactivate"}
  BY <1>2 DEF Written
<1>3. CASE op \in {"promote", "demote"}
  BY <1>3 DEF Written
<1>4. CASE op \in Resets
  BY <1>4 DEF Written
<1>5. CASE op = "delete"
  BY <1>5 DEF Written
<1>6. QED
  BY <1>1, <1>2, <1>3, <1>4, <1>5 DEF Ops

LEMMA AccInitInv == AccInit => AccInv
<1> SUFFICES ASSUME AccInit PROVE AccInv
  OBVIOUS
<1> USE AccountsAssumption
<1>1. AccBlank("idle") \in Request /\ AccBlank("idle").st = "idle"
  BY BlankRequest DEF Stages
<1>2. AccTypeOK
  <2>1. rows \in [Admin -> Row]
    <3>1. NewRow("superadmin", 1) \in Row
      BY DEF Row, Roles, NewRow
    <3>2. GoneRow \in Row
      <4>1. MaxTv \in 0..MaxTv
        OBVIOUS
      <4>2. QED
        BY <4>1 DEF Row, Roles, GoneRow, NoRow
    <3>3. QED
      BY <3>1, <3>2, NoRowType DEF AccInit
  <2>2. cache \in [Worker -> [Admin -> [data : Row, age : Age]]]
    BY NoRowType DEF AccInit
  <2>3. tokens \in SUBSET (Admin \X (0..MaxTv))
    BY DEF AccInit
  <2>4. TTL \in Age
    BY DEF Age
  <2>5. changeAge \in [Admin -> Age] /\ overlap \in BOOLEAN
    BY <2>4 DEF AccInit
  <2>6. reqs \in [Req -> Request]
    BY <1>1 DEF AccInit
  <2>7. QED
    BY <2>1, <2>2, <2>3, <2>5, <2>6 DEF AccTypeOK
<1>3. StageInv /\ \A r \in Req : LoadedHolds(r)
  BY <1>1 DEF AccInit, StageInv, LoadedHolds
<1>4. AccountCacheBounded
  BY <1>1, NoRowType DEF AccInit, AccountCacheBounded
<1>5. SuperadminRemains
  BY DEF AccInit, SuperadminRemains, IsSuper, NewRow
<1>6. TokensReached
  <2>1. PICK gone \in SUBSET (Admin \ {Seed}) :
          /\ rows = [a \in Admin |-> IF a = Seed THEN NewRow("superadmin", 1)
                                    ELSE IF a \in gone THEN GoneRow ELSE NoRow]
          /\ tokens = {<<Seed, 0>>} \cup gone \X (0..MaxTv)
    BY DEF AccInit
  <2>2. /\ NewRow("superadmin", 1).tv = 0 /\ NewRow("superadmin", 1).id = 1
        /\ NewRow("superadmin", 1).st = "live"
        /\ GoneRow.tv = MaxTv /\ GoneRow.id = 1 /\ GoneRow.st = "deleted"
        /\ NoRow.tv = 0 /\ NoRow.id = 0 /\ NoRow.st = "absent"
    BY DEF NewRow, GoneRow, NoRow
  <2>3. ASSUME NEW a \in Admin, NEW v \in 0..MaxTv, <<a, v>> \in tokens
        PROVE  v <= rows[a].tv
    BY <2>1, <2>2, <2>3
  <2>4. QED
    BY <2>1, <2>2, <2>3 DEF TokensReached
<1>7. QED
  BY <1>2, <1>3, <1>4, <1>5, <1>6 DEF AccInv, SerialInv

-----------------------------------------------------------------------------
(* MarkDirty changes the mark only.                                        *)
LEMMA MarkDirtyType ==
    ASSUME NEW q \in Req, reqs[q] \in Request
    PROVE  /\ MarkDirty(q) \in Request
           /\ MarkDirty(q).st = reqs[q].st /\ MarkDirty(q).w = reqs[q].w
           /\ MarkDirty(q).user = reqs[q].user /\ MarkDirty(q).target = reqs[q].target
           /\ MarkDirty(q).op = reqs[q].op /\ MarkDirty(q).snap = reqs[q].snap
           /\ MarkDirty(q).data = reqs[q].data /\ MarkDirty(q).age = reqs[q].age
           /\ MarkDirty(q).st = "loaded" => MarkDirty(q).dirty
BY DEF MarkDirty, Request

(* Every step of an account request keeps the types and the stages.        *)
LEMMA AccTypeStep ==
    AccTypeOK /\ StageInv /\ [AccNext]_accVars => AccTypeOK' /\ StageInv'
<1> SUFFICES ASSUME AccTypeOK, StageInv, [AccNext]_accVars
             PROVE  AccTypeOK' /\ StageInv'
  OBVIOUS
<1> USE AccountsAssumption
<1>a. /\ rows \in [Admin -> Row]
      /\ cache \in [Worker -> [Admin -> [data : Row, age : Age]]]
      /\ changeAge \in [Admin -> Age]
      /\ reqs \in [Req -> Request]
      /\ tokens \in SUBSET (Admin \X (0..MaxTv))
      /\ overlap \in BOOLEAN
  BY DEF AccTypeOK
<1>b. \A st \in Stages : AccBlank(st) \in Request /\ AccBlank(st).st = st
  BY BlankRequest
<1>c. ASSUME NEW r \in Req, NEW s \in Request, s.st \in {"authorised", "failed", "ok"},
             s.st = "authorised" => s.w \in Worker,
             reqs' = [reqs EXCEPT ![r] = s]
      PROVE  reqs' \in [Req -> Request] /\ StageInv'
  BY <1>a, <1>c DEF StageInv
<1>z. 0 \in Age /\ FALSE \in BOOLEAN
  BY DEF Age
<1>1. ASSUME NEW r \in Req, NEW w \in Worker, NEW u \in Admin, NEW v \in 0..MaxTv,
             ServeCached(r, w, u, v) \/ ServeOnError(r, w, u, v)
      PROVE  AccTypeOK' /\ StageInv'
  <2>1. cache[w][u].data \in Row
    BY <1>a
  <2>2. PICK err \in BOOLEAN :
          reqs' = [reqs EXCEPT ![r] = Resolved(w, u, v, cache[w][u].data, 0, err)]
    BY <1>1 DEF ServeCached, ServeOnError
  <2> DEFINE s == Resolved(w, u, v, cache[w][u].data, 0, err)
  <2>3. s \in Request /\ s.st \in {"authorised", "failed"} /\ (s.st = "authorised" => s.w = w)
    BY <1>z, <2>1, ResolvedType
  <2>4. reqs' = [reqs EXCEPT ![r] = s]
    BY <2>2
  <2> HIDE DEF s
  <2>5. reqs' \in [Req -> Request] /\ StageInv'
    BY <1>c, <2>3, <2>4
  <2>6. QED
    BY <1>1, <1>a, <2>5 DEF ServeCached, ServeOnError, AccTypeOK
<1>2. ASSUME NEW r \in Req, NEW w \in Worker, NEW u \in Admin, NEW v \in 0..MaxTv,
             ReadAccount(r, w, u, v)
      PROVE  AccTypeOK' /\ StageInv'
  <2>1. AccBlank("filling") \in Request /\ AccBlank("filling").st = "filling"
    BY <1>b DEF Stages
  <2>2. rows[u] \in Row
    BY <1>a
  <2>3. /\ reqs' \in [Req -> Request]
        /\ reqs'[r].st = "filling" /\ reqs'[r].w = w /\ reqs'[r].user = u
        /\ \A q \in Req : q # r => reqs'[q] = reqs[q]
    BY <1>2, <1>a, <2>1, <2>2 DEF ReadAccount, Request
  <2>4. QED
    BY <1>2, <1>a, <2>3 DEF ReadAccount, AccTypeOK, StageInv
<1>3. ASSUME NEW r \in Req, StoreAccount(r)
      PROVE  AccTypeOK' /\ StageInv'
  <2>1. /\ reqs[r].w \in Worker /\ reqs[r].user \in Admin /\ reqs[r].tv \in 0..MaxTv
        /\ reqs[r].data \in Row /\ reqs[r].age \in Age
    BY <1>3, <1>a DEF StoreAccount, StageInv, Request
  <2>2. reqs' = [reqs EXCEPT ![r] =
           Resolved(reqs[r].w, reqs[r].user, reqs[r].tv, reqs[r].data, reqs[r].age, FALSE)]
    BY <1>3 DEF StoreAccount
  <2> DEFINE s == Resolved(reqs[r].w, reqs[r].user, reqs[r].tv, reqs[r].data, reqs[r].age, FALSE)
  <2>3. reqs' \in [Req -> Request] /\ StageInv'
    <3>1. /\ s \in Request /\ s.st \in {"authorised", "failed"}
          /\ s.st = "authorised" => s.w = reqs[r].w
      <4> DEFINE W == reqs[r].w
                 U == reqs[r].user
                 V == reqs[r].tv
                 D == reqs[r].data
                 G == reqs[r].age
      <4>1. W \in Worker /\ U \in Admin /\ V \in 0..MaxTv /\ D \in Row /\ G \in Age
        BY <2>1
      <4>2. LET x == Resolved(W, U, V, D, G, FALSE) IN
              /\ x \in Request /\ x.st \in {"authorised", "failed"}
              /\ x.st = "authorised" => x.w = W
        <5> HIDE DEF W, U, V, D, G
        <5>1. QED
          BY <4>1, <1>z, ResolvedType
      <4>3. QED
        BY <4>2
    <3>2. reqs' = [reqs EXCEPT ![r] = s]
      BY <2>2
    <3> HIDE DEF s
    <3>3. QED
      BY <1>c, <2>1, <3>1, <3>2
  <2>4. FillEntry(reqs[r]) \in [data : Row, age : Age]
    BY <2>1 DEF FillEntry
  <2>5. cache' \in [Worker -> [Admin -> [data : Row, age : Age]]]
    BY <1>3, <1>a, <2>1, <2>4 DEF StoreAccount
  <2>6. QED
    BY <1>3, <1>a, <2>3, <2>5 DEF StoreAccount, AccTypeOK
<1>4. ASSUME NEW r \in Req, NEW w \in Worker, ServeInternal(r, w)
      PROVE  AccTypeOK' /\ StageInv'
  <2>1. AccBlank("authorised") \in Request /\ AccBlank("authorised").st = "authorised"
    BY <1>b DEF Stages
  <2>2. [AccBlank("authorised") EXCEPT !.w = w, !.user = Internal] \in Request
    BY <2>1 DEF Request
  <2>3. /\ [AccBlank("authorised") EXCEPT !.w = w, !.user = Internal].st = "authorised"
        /\ [AccBlank("authorised") EXCEPT !.w = w, !.user = Internal].w = w
    BY <2>1 DEF Request
  <2>4. reqs' \in [Req -> Request] /\ StageInv'
    BY <1>4, <1>c, <2>2, <2>3 DEF ServeInternal
  <2>5. QED
    BY <1>4, <1>a, <2>4 DEF ServeInternal, AccTypeOK
<1>5. ASSUME NEW r \in Req, NEW op \in Ops, NEW t \in Admin, Load(r, op, t)
      PROVE  AccTypeOK' /\ StageInv'
  <2>1. SUFFICES reqs' \in [Req -> Request] /\ StageInv'
    BY <1>5, <1>a DEF Load, AccTypeOK
  <2>2. CASE Allowed(rows, reqs[r], op, t)
    <3>1. AccBlank("loaded") \in Request /\ AccBlank("loaded").st = "loaded"
      BY <1>b DEF Stages
    <3>2. rows[t] \in Row /\ reqs[r].w \in Worker
      BY <1>5, <1>a DEF Load, StageInv
    <3>3. /\ op \in Resets => rows[t].tv < MaxTv
          /\ op = "delete" => rows[t].st = "live"
      BY <2>2 DEF Allowed, MayRotate, Resets
    <3>4. /\ reqs' \in [Req -> Request]
          /\ reqs'[r].st = "loaded" /\ reqs'[r].w = reqs[r].w /\ reqs'[r].op = op
          /\ reqs'[r].target = t /\ reqs'[r].snap = rows[t]
          /\ \A q \in Req : q # r => reqs'[q] = reqs[q]
      BY <1>5, <1>a, <2>2, <3>1, <3>2 DEF Load, Request
    <3>5. QED
      BY <3>2, <3>3, <3>4 DEF StageInv
  <2>3. CASE ~ Allowed(rows, reqs[r], op, t)
    <3>1. AccBlank("failed") \in Request /\ AccBlank("failed").st = "failed"
      BY <1>b DEF Stages
    <3>2. reqs' = [reqs EXCEPT ![r] = AccBlank("failed")]
      BY <1>5, <2>3 DEF Load
    <3>3. QED
      BY <1>c, <3>1, <3>2
  <2>4. QED
    BY <2>2, <2>3
<1>6. ASSUME NEW r \in Req, Commit(r)
      PROVE  AccTypeOK' /\ StageInv'
  <2> DEFINE t == reqs[r].target
             new == Written(rows[t], reqs[r].snap, reqs[r].op)
  <2>1. /\ t \in Admin /\ reqs[r].w \in Worker /\ rows[t] \in Row
        /\ reqs[r].snap \in Row /\ reqs[r].op \in Ops
        /\ reqs[r].op \in Resets => reqs[r].snap.tv < MaxTv
    BY <1>6, <1>a DEF Commit, StageInv, Request
  <2>2. new \in Row
    BY <2>1, WrittenType
  <2>3. rows' \in [Admin -> Row] /\ changeAge' \in [Admin -> Age]
    BY <1>6, <1>a, <1>z, <2>1, <2>2 DEF Commit
  <2>4. cache' \in [Worker -> [Admin -> [data : Row, age : Age]]]
    BY <1>6, <1>a, <2>1, NoRowType DEF Commit
  <2>5. AccBlank("ok") \in Request /\ AccBlank("ok").st = "ok"
    BY <1>b DEF Stages
  <2>6. reqs' = [q \in Req |-> IF q = r THEN AccBlank("ok")
                               ELSE IF new = rows[t] THEN reqs[q] ELSE MarkDirty(q)]
    BY <1>6 DEF Commit
  <2>7. reqs' \in [Req -> Request]
    BY <1>a, <2>5, <2>6, MarkDirtyType
  <2>8. \A q \in Req : q # r => reqs'[q] = reqs[q] \/ reqs'[q] = MarkDirty(q)
    BY <2>6
  <2>9. \A q \in Req : q # r =>
          /\ reqs'[q].st = reqs[q].st /\ reqs'[q].w = reqs[q].w /\ reqs'[q].user = reqs[q].user
          /\ reqs'[q].target = reqs[q].target /\ reqs'[q].op = reqs[q].op
          /\ reqs'[q].snap = reqs[q].snap
    BY <1>a, <2>8, MarkDirtyType
  <2>10. StageInv'
    BY <2>5, <2>6, <2>9 DEF StageInv
  <2>11. overlap' \in BOOLEAN /\ tokens' = tokens
    BY <1>6, <1>a DEF Commit, Request
  <2>12. QED
    BY <1>a, <2>3, <2>4, <2>7, <2>10, <2>11 DEF AccTypeOK
<1>7. ASSUME NEW r \in Req, CommitRefused(r)
      PROVE  AccTypeOK' /\ StageInv'
  <2>1. AccBlank("failed") \in Request /\ AccBlank("failed").st = "failed"
    BY <1>b DEF Stages
  <2>2. reqs' \in [Req -> Request] /\ StageInv'
    BY <1>7, <1>c, <2>1 DEF CommitRefused
  <2>3. QED
    BY <1>7, <1>a, <2>2 DEF CommitRefused, AccTypeOK
<1>8. ASSUME NEW r \in Req, NEW w \in Worker, NEW a \in Admin, LoginCheck(r, w, a)
      PROVE  AccTypeOK' /\ StageInv'
  <2>1. AccBlank("login") \in Request /\ AccBlank("login").st = "login"
    BY <1>b DEF Stages
  <2>2. /\ reqs' \in [Req -> Request]
        /\ reqs'[r].st = "login" /\ reqs'[r].w = w /\ reqs'[r].user = a
        /\ \A q \in Req : q # r => reqs'[q] = reqs[q]
    <3>1. [NoRow EXCEPT !.id = rows[a].id] \in Row
      BY <1>a, NoRowType DEF Row
    <3>2. QED
      BY <1>8, <1>a, <2>1, <3>1 DEF LoginCheck, Request
  <2>3. QED
    BY <1>8, <1>a, <2>2 DEF LoginCheck, AccTypeOK, StageInv
<1>9. ASSUME NEW r \in Req, LoginCommit(r)
      PROVE  AccTypeOK' /\ StageInv'
  <2>1. reqs[r].user \in Admin /\ reqs[r].w \in Worker
    BY <1>9 DEF LoginCommit, StageInv
  <2>2. \A st \in {"ok", "failed"} : AccBlank(st) \in Request /\ AccBlank(st).st = st
    BY <1>b DEF Stages
  <2>3. PICK st \in {"ok", "failed"} : reqs' = [reqs EXCEPT ![r] = AccBlank(st)]
    BY <1>9 DEF LoginCommit
  <2>4. reqs' \in [Req -> Request] /\ StageInv'
    BY <1>c, <2>2, <2>3
  <2>5. rows[reqs[r].user].tv \in 0..MaxTv
    BY <1>a, <2>1 DEF Row
  <2>6. tokens' \in SUBSET (Admin \X (0..MaxTv))
    BY <1>9, <1>a, <2>1, <2>5 DEF LoginCommit
  <2>7. cache' \in [Worker -> [Admin -> [data : Row, age : Age]]]
    <3>1. cache' = cache \/ cache' = [cache EXCEPT ![reqs[r].w][reqs[r].user] = NoEntry]
      BY <1>9 DEF LoginCommit
    <3>2. CASE cache' = cache
      BY <1>a, <3>2
    <3>3. CASE cache' = [cache EXCEPT ![reqs[r].w][reqs[r].user] = NoEntry]
      BY <1>a, <2>1, <3>3, NoRowType
    <3>4. QED
      BY <3>1, <3>2, <3>3
  <2>8. QED
    BY <1>9, <1>a, <2>4, <2>6, <2>7 DEF LoginCommit, AccTypeOK
<1>10. ASSUME NEW w \in Worker, Boot(w)
       PROVE  AccTypeOK' /\ StageInv'
  <2>1. Seeded \in Row
    <3>1. rows[Seed] \in Row
      BY <1>a
    <3>2. [rows[Seed] EXCEPT !.role = "superadmin", !.active = TRUE] \in Row
      BY <3>1 DEF Row, Roles
    <3>3. NewRow("superadmin", rows[Seed].id + 1) \in Row
      BY <3>1 DEF Row, Roles, NewRow
    <3>4. QED
      BY <3>2, <3>3 DEF Seeded
  <2>2. rows' \in [Admin -> Row] /\ changeAge' \in [Admin -> Age]
    BY <1>10, <1>a, <1>z, <2>1 DEF Boot
  <2>3. cache' \in [Worker -> [Admin -> [data : Row, age : Age]]]
    BY <1>10, <1>a, NoRowType DEF Boot
  <2>4. AccBlank("failed") \in Request /\ AccBlank("failed").st = "failed"
    BY <1>b DEF Stages
  <2>5. /\ reqs' = [q \in Req |-> reqs'[q]]
        /\ \A q \in Req : reqs'[q] \in {AccBlank("failed"), reqs[q], MarkDirty(q)}
    BY <1>10 DEF Boot
  <2>6. reqs' \in [Req -> Request]
    BY <1>a, <2>4, <2>5, MarkDirtyType
  <2>7. ASSUME NEW q \in Req
        PROVE  reqs'[q].st = "failed" \/
               /\ reqs'[q].st = reqs[q].st /\ reqs'[q].w = reqs[q].w /\ reqs'[q].user = reqs[q].user
               /\ reqs'[q].target = reqs[q].target /\ reqs'[q].op = reqs[q].op
               /\ reqs'[q].snap = reqs[q].snap
    BY <1>a, <2>4, <2>5, MarkDirtyType
  <2>8. StageInv'
    BY <2>7 DEF StageInv
  <2>9. QED
    BY <1>10, <1>a, <2>2, <2>3, <2>6, <2>8 DEF Boot, AccTypeOK
<1>11. CASE AccTick
  <2>1. \A n \in Age : Older(n) \in Age
    BY DEF Older, Age
  <2>2. cache' \in [Worker -> [Admin -> [data : Row, age : Age]]]
    <3>1. \A w \in Worker, a \in Admin :
            [cache[w][a] EXCEPT !.age = Older(@)] \in [data : Row, age : Age]
      BY <1>a, <2>1
    <3>2. QED
      BY <1>11, <3>1 DEF AccTick
  <2>3. changeAge' \in [Admin -> Age]
    BY <1>11, <1>a, <2>1 DEF AccTick
  <2>4. reqs' = [r \in Req |-> IF reqs[r].st = "filling"
                               THEN [reqs[r] EXCEPT !.age = Older(@)] ELSE reqs[r]]
    BY <1>11 DEF AccTick
  <2>5. reqs' \in [Req -> Request]
    <3>1. ASSUME NEW r \in Req PROVE [reqs[r] EXCEPT !.age = Older(@)] \in Request
      <4>1. reqs[r] \in Request /\ Older(reqs[r].age) \in Age
        BY <1>a, <2>1 DEF Request
      <4> HIDE DEF Older
      <4>2. QED
        BY <4>1 DEF Request
    <3>2. QED
      BY <1>a, <2>4, <3>1
  <2>6. \A q \in Req :
          /\ reqs'[q].st = reqs[q].st /\ reqs'[q].w = reqs[q].w /\ reqs'[q].user = reqs[q].user
          /\ reqs'[q].target = reqs[q].target /\ reqs'[q].op = reqs[q].op
          /\ reqs'[q].snap = reqs[q].snap
    BY <1>a, <2>4 DEF Request
  <2>7. StageInv'
    BY <2>6 DEF StageInv
  <2>8. QED
    BY <1>11, <1>a, <2>2, <2>3, <2>5, <2>7 DEF AccTick, AccTypeOK
<1>12. CASE UNCHANGED accVars
  BY <1>12 DEF accVars, AccTypeOK, StageInv
<1>13. QED
  BY <1>1, <1>2, <1>3, <1>4, <1>5, <1>6, <1>7, <1>8, <1>9, <1>10, <1>11, <1>12
     DEF AccNext, Resolve

-----------------------------------------------------------------------------
LEMMA OlderFacts ==
    /\ \A n \in Age : Older(n) \in Age /\ n <= Older(n)
    /\ \A n, m \in Age : n <= m => Older(n) <= Older(m)
    /\ \A n, m \in Age : n <= m /\ Older(m) < TTL => Older(n) <= Older(m)
BY AccountsAssumption DEF Older, Age

(* An entry or read that disagrees with its row stays as old as the change. *)
LEMMA CacheStep ==
    ASSUME AccTypeOK, StageInv, AccountCacheBounded, AccNext, StageInv'
    PROVE  AccountCacheBounded'
<1> USE AccountsAssumption
<1>a. /\ rows \in [Admin -> Row]
      /\ cache \in [Worker -> [Admin -> [data : Row, age : Age]]]
      /\ changeAge \in [Admin -> Age]
      /\ reqs \in [Req -> Request]
  BY DEF AccTypeOK
<1>b. /\ \A w \in Worker, a \in Admin :
           cache[w][a].age < TTL /\ cache[w][a].data # rows[a]
              => changeAge[a] <= cache[w][a].age
      /\ \A r \in Req : reqs[r].st = "filling" /\ reqs[r].data # rows[reqs[r].user]
           => changeAge[reqs[r].user] <= reqs[r].age
  BY DEF AccountCacheBounded
<1>c. \A st \in Stages : AccBlank(st) \in Request /\ AccBlank(st).st = st /\ AccBlank(st).age = 0
  BY BlankRequest
<1>1. ASSUME NEW r \in Req, rows' = rows, cache' = cache, changeAge' = changeAge,
             reqs'[r].st # "filling",
             \A q \in Req : q # r => reqs'[q] = reqs[q]
      PROVE  AccountCacheBounded'
  BY <1>b, <1>1 DEF AccountCacheBounded
<1>2. ASSUME NEW r \in Req, NEW w \in Worker, NEW u \in Admin, NEW v \in 0..MaxTv,
             ServeCached(r, w, u, v) \/ ServeOnError(r, w, u, v)
      PROVE  AccountCacheBounded'
  <2>1. PICK err \in BOOLEAN :
          reqs' = [reqs EXCEPT ![r] = Resolved(w, u, v, cache[w][u].data, 0, err)]
    BY <1>2 DEF ServeCached, ServeOnError
  <2>2. cache[w][u].data \in Row /\ 0 \in Age
    BY <1>a DEF Age
  <2>3. Resolved(w, u, v, cache[w][u].data, 0, err).st \in {"authorised", "failed"}
    BY <2>2, ResolvedType
  <2>4. reqs'[r].st # "filling" /\ \A q \in Req : q # r => reqs'[q] = reqs[q]
    BY <1>a, <2>1, <2>3
  <2>5. QED
    BY <1>1, <1>2, <2>4 DEF ServeCached, ServeOnError
<1>3. ASSUME NEW r \in Req, NEW w \in Worker, NEW u \in Admin, NEW v \in 0..MaxTv,
             ReadAccount(r, w, u, v)
      PROVE  AccountCacheBounded'
  <2>1. AccBlank("filling") \in Request
    BY <1>c DEF Stages
  <2>2. /\ reqs'[r].data = rows[u] /\ reqs'[r].user = u
        /\ \A q \in Req : q # r => reqs'[q] = reqs[q]
    BY <1>3, <1>a, <2>1 DEF ReadAccount, Request
  <2>3. QED
    BY <1>3, <1>b, <2>2 DEF ReadAccount, AccountCacheBounded
<1>4. ASSUME NEW r \in Req, StoreAccount(r)
      PROVE  AccountCacheBounded'
  <2> DEFINE s == reqs[r]
             out == Resolved(s.w, s.user, s.tv, s.data, s.age, FALSE)
  <2>1. /\ s.w \in Worker /\ s.user \in Admin /\ s.tv \in 0..MaxTv
        /\ s.data \in Row /\ s.age \in Age
    BY <1>4, <1>a DEF StoreAccount, StageInv, Request
  <2>2. out.st \in {"authorised", "failed"}
    <3> HIDE DEF s
    <3>1. QED
      BY <2>1, ResolvedType
  <2>3. reqs'[r].st # "filling" /\ \A q \in Req : q # r => reqs'[q] = reqs[q]
    <3>1. reqs' = [reqs EXCEPT ![r] = out]
      BY <1>4 DEF StoreAccount
    <3> HIDE DEF out
    <3>2. QED
      BY <1>a, <2>2, <3>1
  <2>4. /\ cache'[s.w][s.user].data = s.data /\ cache'[s.w][s.user].age = s.age
        /\ \A w \in Worker, a \in Admin : <<w, a>> # <<s.w, s.user>> => cache'[w][a] = cache[w][a]
    BY <1>4, <1>a, <2>1 DEF StoreAccount, FillEntry
  <2>5. s.data # rows[s.user] => changeAge[s.user] <= s.age
    BY <1>4, <1>b DEF StoreAccount
  <2>6. rows' = rows /\ changeAge' = changeAge
    BY <1>4 DEF StoreAccount
  <2>7. ASSUME NEW w \in Worker, NEW a \in Admin,
               cache'[w][a].age < TTL, cache'[w][a].data # rows'[a]
        PROVE  changeAge'[a] <= cache'[w][a].age
    <3>1. CASE <<w, a>> = <<s.w, s.user>>
      BY <2>4, <2>5, <2>6, <2>7, <3>1
    <3>2. CASE <<w, a>> # <<s.w, s.user>>
      BY <1>b, <2>4, <2>6, <2>7, <3>2
    <3>3. QED
      BY <3>1, <3>2
  <2>8. QED
    BY <1>b, <2>3, <2>6, <2>7 DEF AccountCacheBounded
<1>5. ASSUME NEW r \in Req, NEW w \in Worker, ServeInternal(r, w)
      PROVE  AccountCacheBounded'
  <2>1. AccBlank("authorised") \in Request /\ AccBlank("authorised").st = "authorised"
    BY <1>c DEF Stages
  <2>2. reqs'[r].st # "filling" /\ \A q \in Req : q # r => reqs'[q] = reqs[q]
    BY <1>5, <1>a, <2>1 DEF ServeInternal, Request
  <2>3. QED
    BY <1>1, <1>5, <2>2 DEF ServeInternal
<1>6. ASSUME NEW r \in Req, NEW op \in Ops, NEW t \in Admin, Load(r, op, t)
      PROVE  AccountCacheBounded'
  <2>1. \A st \in {"loaded", "failed"} : AccBlank(st) \in Request /\ AccBlank(st).st = st
    BY <1>c DEF Stages
  <2>2. reqs'[r].st # "filling" /\ \A q \in Req : q # r => reqs'[q] = reqs[q]
    BY <1>6, <1>a, <2>1 DEF Load, Request
  <2>3. QED
    BY <1>1, <1>6, <2>2 DEF Load
<1>7. ASSUME NEW r \in Req, CommitRefused(r)
      PROVE  AccountCacheBounded'
  <2>1. AccBlank("failed").st = "failed"
    BY <1>c DEF Stages
  <2>2. QED
    BY <1>1, <1>7, <1>a, <2>1 DEF CommitRefused
<1>8. ASSUME NEW r \in Req, NEW w \in Worker, NEW a \in Admin, LoginCheck(r, w, a)
      PROVE  AccountCacheBounded'
  <2>1. AccBlank("login") \in Request /\ AccBlank("login").st = "login"
    BY <1>c DEF Stages
  <2>2. reqs'[r].st # "filling" /\ \A q \in Req : q # r => reqs'[q] = reqs[q]
    BY <1>8, <1>a, <2>1 DEF LoginCheck, Request
  <2>3. QED
    BY <1>1, <1>8, <2>2 DEF LoginCheck
<1>d. ASSUME NEW w \in Worker, NEW a \in Admin, NEW r \in Req,
             cache' = [cache EXCEPT ![w][a] = NoEntry] \/ cache' = cache,
             rows' = rows, changeAge' = changeAge, reqs'[r].st # "filling",
             \A q \in Req : q # r => reqs'[q] = reqs[q]
      PROVE  AccountCacheBounded'
  <2>1. \A x \in Worker, y \in Admin : cache'[x][y] = cache[x][y] \/ cache'[x][y] = NoEntry
    <3>1. CASE cache' = cache
      BY <3>1
    <3>2. CASE cache' = [cache EXCEPT ![w][a] = NoEntry]
      BY <1>a, <3>2
    <3>3. QED
      BY <1>d, <3>1, <3>2
  <2>2. \A x \in Worker, y \in Admin : cache'[x][y].age < TTL => cache'[x][y] = cache[x][y]
    BY <2>1, NoRowType
  <2>3. QED
    BY <1>b, <1>d, <2>2 DEF AccountCacheBounded
<1>9. ASSUME NEW r \in Req, LoginCommit(r)
      PROVE  AccountCacheBounded'
  <2>1. \A st \in {"ok", "failed"} : AccBlank(st).st = st
    BY <1>c DEF Stages
  <2>2. reqs'[r].st # "filling" /\ \A q \in Req : q # r => reqs'[q] = reqs[q]
    BY <1>9, <1>a, <2>1 DEF LoginCommit
  <2>3. reqs[r].w \in Worker /\ reqs[r].user \in Admin
    BY <1>9 DEF LoginCommit, StageInv
  <2>4. cache' = [cache EXCEPT ![reqs[r].w][reqs[r].user] = NoEntry] \/ cache' = cache
    BY <1>9 DEF LoginCommit
  <2>5. rows' = rows /\ changeAge' = changeAge
    BY <1>9 DEF LoginCommit
  <2>6. QED
    BY <1>d, <2>2, <2>3, <2>4, <2>5
<1>e. ASSUME \A a \in Admin : \/ rows'[a] = rows[a] /\ changeAge'[a] = changeAge[a]
                              \/ changeAge'[a] = 0,
             \A w \in Worker, a \in Admin : cache'[w][a] = cache[w][a] \/ cache'[w][a] = NoEntry,
             \A q \in Req : reqs'[q].st = "filling" =>
                reqs[q].st = "filling" /\ reqs'[q].data = reqs[q].data
                /\ reqs'[q].age = reqs[q].age /\ reqs'[q].user = reqs[q].user
      PROVE  AccountCacheBounded'
  <2>1. ASSUME NEW w \in Worker, NEW a \in Admin,
               cache'[w][a].age < TTL, cache'[w][a].data # rows'[a]
        PROVE  changeAge'[a] <= cache'[w][a].age
    <3>1. cache'[w][a] = cache[w][a]
      BY <1>e, <2>1, NoRowType
    <3>2. cache[w][a].age \in Age
      BY <1>a
    <3>3. CASE rows'[a] = rows[a] /\ changeAge'[a] = changeAge[a]
      BY <1>b, <2>1, <3>1, <3>3
    <3>4. CASE changeAge'[a] = 0
      BY <3>1, <3>2, <3>4 DEF Age
    <3>5. QED
      BY <1>e, <3>3, <3>4
  <2>2. ASSUME NEW q \in Req, reqs'[q].st = "filling", reqs'[q].data # rows'[reqs'[q].user]
        PROVE  changeAge'[reqs'[q].user] <= reqs'[q].age
    <3>1. /\ reqs[q].st = "filling" /\ reqs'[q].data = reqs[q].data
          /\ reqs'[q].age = reqs[q].age /\ reqs'[q].user = reqs[q].user
      BY <1>e, <2>2
    <3>2. reqs[q].user \in Admin /\ reqs[q].age \in Age
      BY <1>a, <3>1 DEF StageInv, Request
    <3>3. CASE /\ rows'[reqs[q].user] = rows[reqs[q].user]
               /\ changeAge'[reqs[q].user] = changeAge[reqs[q].user]
      BY <1>b, <2>2, <3>1, <3>3
    <3>4. CASE changeAge'[reqs[q].user] = 0
      BY <3>1, <3>2, <3>4 DEF Age
    <3>5. QED
      BY <1>e, <3>2, <3>3, <3>4
  <2>3. QED
    BY <2>1, <2>2 DEF AccountCacheBounded
<1>10. ASSUME NEW r \in Req, Commit(r)
       PROVE  AccountCacheBounded'
  <2> DEFINE t == reqs[r].target
             new == Written(rows[t], reqs[r].snap, reqs[r].op)
  <2>1. t \in Admin /\ reqs[r].w \in Worker
    BY <1>10 DEF Commit, StageInv
  <2>2. rows' = [rows EXCEPT ![t] = new]
        /\ changeAge' = [changeAge EXCEPT ![t] = IF new = rows[t] THEN @ ELSE 0]
        /\ cache' = [cache EXCEPT ![reqs[r].w][t] = NoEntry]
        /\ reqs' = [q \in Req |-> IF q = r THEN AccBlank("ok")
                                  ELSE IF new = rows[t] THEN reqs[q] ELSE MarkDirty(q)]
    BY <1>10 DEF Commit
  <2>3. AccBlank("ok").st = "ok"
    BY <1>c DEF Stages
  <2>4. \A q \in Req : reqs'[q].st = "filling" =>
           reqs[q].st = "filling" /\ reqs'[q].data = reqs[q].data
           /\ reqs'[q].age = reqs[q].age /\ reqs'[q].user = reqs[q].user
    <3>1. \A q \in Req : reqs'[q] \in {AccBlank("ok"), reqs[q], MarkDirty(q)}
      BY <2>2
    <3>2. QED
      BY <1>a, <2>3, <3>1, MarkDirtyType
  <2> HIDE DEF new
  <2>5. \A a \in Admin : \/ rows'[a] = rows[a] /\ changeAge'[a] = changeAge[a]
                         \/ changeAge'[a] = 0
    BY <1>a, <2>1, <2>2
  <2>6. \A w \in Worker, a \in Admin : cache'[w][a] = cache[w][a] \/ cache'[w][a] = NoEntry
    BY <1>a, <2>1, <2>2
  <2>7. QED
    BY <1>e, <2>4, <2>5, <2>6
<1>11. ASSUME NEW w \in Worker, Boot(w)
       PROVE  AccountCacheBounded'
  <2>1. AccBlank("failed").st = "failed"
    BY <1>c DEF Stages
  <2>2. \A q \in Req : reqs'[q].st = "filling" =>
           reqs[q].st = "filling" /\ reqs'[q].data = reqs[q].data
           /\ reqs'[q].age = reqs[q].age /\ reqs'[q].user = reqs[q].user
    <3>1. \A q \in Req : reqs'[q] \in {AccBlank("failed"), reqs[q], MarkDirty(q)}
      BY <1>11 DEF Boot
    <3>2. QED
      BY <1>a, <2>1, <3>1, MarkDirtyType
  <2>3. \A a \in Admin : \/ rows'[a] = rows[a] /\ changeAge'[a] = changeAge[a]
                         \/ changeAge'[a] = 0
    BY <1>11, <1>a DEF Boot
  <2>4. \A x \in Worker, a \in Admin : cache'[x][a] = cache[x][a] \/ cache'[x][a] = NoEntry
    BY <1>11, <1>a DEF Boot
  <2>5. QED
    BY <1>e, <2>2, <2>3, <2>4
<1>12. CASE AccTick
  <2>1. /\ rows' = rows /\ \A a \in Admin : changeAge'[a] = Older(changeAge[a])
        /\ \A w \in Worker, a \in Admin : /\ cache'[w][a].data = cache[w][a].data
                                          /\ cache'[w][a].age = Older(cache[w][a].age)
    <3>1. \A w \in Worker, x \in Admin : cache'[w][x] = [cache[w][x] EXCEPT !.age = Older(@)]
      BY <1>12 DEF AccTick
    <3>2. \A w \in Worker, x \in Admin : cache[w][x] \in [data : Row, age : Age]
      BY <1>a
    <3>3. ASSUME NEW w \in Worker, NEW x \in Admin
          PROVE  /\ cache'[w][x].data = cache[w][x].data
                 /\ cache'[w][x].age = Older(cache[w][x].age)
      <4>1. /\ cache'[w][x] = [cache[w][x] EXCEPT !.age = Older(@)]
            /\ cache[w][x] \in [data : Row, age : Age]
        BY <3>1, <3>2
      <4> HIDE DEF Older
      <4>2. QED
        BY <4>1
    <3>4. QED
      BY <1>12, <3>3 DEF AccTick
  <2>2. \A q \in Req : reqs'[q].st = "filling" =>
           /\ reqs[q].st = "filling" /\ reqs'[q].data = reqs[q].data
           /\ reqs'[q].age = Older(reqs[q].age) /\ reqs'[q].user = reqs[q].user
    BY <1>12, <1>a DEF AccTick, Request
  <2>3. ASSUME NEW w \in Worker, NEW a \in Admin,
               cache'[w][a].age < TTL, cache'[w][a].data # rows'[a]
        PROVE  changeAge'[a] <= cache'[w][a].age
    <3>1. cache[w][a].age \in Age /\ changeAge[a] \in Age
      BY <1>a
    <3>2. cache[w][a].age <= Older(cache[w][a].age)
      BY <3>1, OlderFacts
    <3>3. cache[w][a].age < TTL /\ cache[w][a].data # rows[a]
      BY <2>1, <2>3, <3>1, <3>2 DEF Age, Older
    <3>4. changeAge[a] <= cache[w][a].age
      BY <1>b, <3>3
    <3>5. QED
      BY <2>1, <3>1, <3>4, OlderFacts
  <2>4. ASSUME NEW q \in Req, reqs'[q].st = "filling", reqs'[q].data # rows'[reqs'[q].user]
        PROVE  changeAge'[reqs'[q].user] <= reqs'[q].age
    <3>1. reqs[q].user \in Admin /\ reqs[q].age \in Age
      BY <1>a, <2>2, <2>4 DEF StageInv, Request
    <3>2. changeAge[reqs[q].user] <= reqs[q].age /\ changeAge[reqs[q].user] \in Age
      BY <1>a, <1>b, <2>1, <2>2, <2>4, <3>1
    <3>3. QED
      BY <2>1, <2>2, <2>4, <3>1, <3>2, OlderFacts
  <2>5. QED
    BY <2>3, <2>4 DEF AccountCacheBounded
<1>13. QED
  BY <1>2, <1>3, <1>4, <1>5, <1>6, <1>7, <1>8, <1>9, <1>10, <1>11, <1>12 DEF AccNext, Resolve

-----------------------------------------------------------------------------
(* Nobody forgets that a request committed over a change.                  *)
LEMMA OverlapStays == AccTypeOK /\ AccNext /\ overlap => overlap'
<1> SUFFICES ASSUME AccTypeOK, AccNext, overlap PROVE overlap'
  OBVIOUS
<1>1. ASSUME NEW r \in Req, Commit(r) PROVE overlap'
  BY <1>1 DEF Commit
<1>2. ASSUME NEW r \in Req, Resolve(r) PROVE overlap'
  BY <1>2 DEF Resolve, ServeCached, ServeOnError, ReadAccount, StoreAccount, ServeInternal
<1>3. ASSUME NEW r \in Req, NEW op \in Ops, NEW t \in Admin, Load(r, op, t) PROVE overlap'
  BY <1>3 DEF Load
<1>4. ASSUME NEW r \in Req, CommitRefused(r) \/ LoginCommit(r) PROVE overlap'
  BY <1>4 DEF CommitRefused, LoginCommit
<1>5. ASSUME NEW r \in Req, NEW w \in Worker, NEW a \in Admin, LoginCheck(r, w, a)
      PROVE  overlap'
  BY <1>5 DEF LoginCheck
<1>6. ASSUME NEW w \in Worker, Boot(w) PROVE overlap'
  BY <1>6 DEF Boot
<1>7. CASE AccTick
  BY <1>7 DEF AccTick
<1>8. QED
  BY <1>1, <1>2, <1>3, <1>4, <1>5, <1>6, <1>7 DEF AccNext

(* A step that leaves the rows and loads nothing keeps SerialInv's parts.  *)
LEMMA SameRows ==
    ASSUME rows' = rows, overlap' = overlap,
           \A a \in Admin : \A v \in 0..MaxTv :
             <<a, v>> \in tokens' => <<a, v>> \in tokens \/ v <= rows[a].tv,
           SerialInv,
           \A q \in Req : reqs'[q] = reqs[q] \/ reqs'[q].st # "loaded"
    PROVE  SerialInv'
<1>1. SUFFICES ASSUME ~ overlap
               PROVE  SuperadminRemains' /\ TokensReached' /\ \A q \in Req : LoadedHolds(q)'
  BY DEF SerialInv
<1>2. SuperadminRemains /\ TokensReached /\ \A q \in Req : LoadedHolds(q)
  BY <1>1 DEF SerialInv
<1>3. SuperadminRemains'
  BY <1>2 DEF SuperadminRemains, IsSuper
<1>4. TokensReached'
  BY <1>2 DEF TokensReached
<1>5. ASSUME NEW q \in Req PROVE LoadedHolds(q)'
  BY <1>2 DEF LoadedHolds, AnotherSuper, IsSuper
<1>6. QED
  BY <1>3, <1>4, <1>5

(* The serial claims survive every step.                                   *)
LEMMA SerialStep ==
    ASSUME AccTypeOK, StageInv, SerialInv, AccNext, AccTypeOK'
    PROVE  SerialInv'
<1> USE AccountsAssumption
<1>a. /\ rows \in [Admin -> Row]
      /\ reqs \in [Req -> Request]
      /\ tokens \in SUBSET (Admin \X (0..MaxTv))
      /\ overlap \in BOOLEAN
  BY DEF AccTypeOK
<1>c. \A st \in Stages : AccBlank(st) \in Request /\ AccBlank(st).st = st
  BY BlankRequest
<1>d. ASSUME rows' = rows, overlap' = overlap, tokens' = tokens, NEW r \in Req,
             reqs'[r].st # "loaded", \A q \in Req : q # r => reqs'[q] = reqs[q]
      PROVE  SerialInv'
  <2>1. \A a \in Admin : \A v \in 0..MaxTv :
          <<a, v>> \in tokens' => <<a, v>> \in tokens \/ v <= rows[a].tv
    BY <1>d
  <2>2. \A q \in Req : reqs'[q] = reqs[q] \/ reqs'[q].st # "loaded"
    BY <1>d
  <2>3. QED
    BY <1>d, <2>1, <2>2, SameRows
<1>2. ASSUME NEW r \in Req, NEW w \in Worker, NEW u \in Admin, NEW v \in 0..MaxTv,
             ServeCached(r, w, u, v) \/ ServeOnError(r, w, u, v)
      PROVE  SerialInv'
  <2>1. PICK err \in BOOLEAN :
          reqs' = [reqs EXCEPT ![r] = Resolved(w, u, v, cache[w][u].data, 0, err)]
    BY <1>2 DEF ServeCached, ServeOnError
  <2>2. cache[w][u].data \in Row /\ 0 \in Age
    BY DEF AccTypeOK, Age
  <2>3. Resolved(w, u, v, cache[w][u].data, 0, err).st \in {"authorised", "failed"}
    BY <2>2, ResolvedType
  <2>4. reqs'[r].st # "loaded" /\ \A q \in Req : q # r => reqs'[q] = reqs[q]
    BY <1>a, <2>1, <2>3
  <2>5. QED
    BY <1>2, <1>d, <2>4 DEF ServeCached, ServeOnError
<1>3. ASSUME NEW r \in Req, NEW w \in Worker, NEW u \in Admin, NEW v \in 0..MaxTv,
             ReadAccount(r, w, u, v)
      PROVE  SerialInv'
  <2>1. AccBlank("filling") \in Request /\ AccBlank("filling").st = "filling"
    BY <1>c DEF Stages
  <2>2. reqs'[r].st # "loaded" /\ \A q \in Req : q # r => reqs'[q] = reqs[q]
    BY <1>3, <1>a, <2>1 DEF ReadAccount, Request
  <2>3. QED
    BY <1>3, <1>d, <2>2 DEF ReadAccount
<1>4. ASSUME NEW r \in Req, StoreAccount(r)
      PROVE  SerialInv'
  <2> DEFINE s == reqs[r]
             out == Resolved(s.w, s.user, s.tv, s.data, s.age, FALSE)
  <2>1. /\ s.w \in Worker /\ s.user \in Admin /\ s.tv \in 0..MaxTv
        /\ s.data \in Row /\ s.age \in Age
    BY <1>4, <1>a DEF StoreAccount, StageInv, Request
  <2>2. out.st \in {"authorised", "failed"}
    <3> HIDE DEF s
    <3>1. QED
      BY <2>1, ResolvedType
  <2>3. reqs'[r].st # "loaded" /\ \A q \in Req : q # r => reqs'[q] = reqs[q]
    <3>1. reqs' = [reqs EXCEPT ![r] = out]
      BY <1>4 DEF StoreAccount
    <3> HIDE DEF out
    <3>2. QED
      BY <1>a, <2>2, <3>1
  <2>4. QED
    BY <1>4, <1>d, <2>3 DEF StoreAccount
<1>5. ASSUME NEW r \in Req, NEW w \in Worker, ServeInternal(r, w)
      PROVE  SerialInv'
  <2>1. AccBlank("authorised") \in Request /\ AccBlank("authorised").st = "authorised"
    BY <1>c DEF Stages
  <2>2. reqs'[r].st # "loaded" /\ \A q \in Req : q # r => reqs'[q] = reqs[q]
    BY <1>5, <1>a, <2>1 DEF ServeInternal, Request
  <2>3. QED
    BY <1>5, <1>d, <2>2 DEF ServeInternal
<1>6. ASSUME NEW r \in Req, NEW op \in Ops, NEW t \in Admin, Load(r, op, t)
      PROVE  SerialInv'
  <2>1. \A st \in {"loaded", "failed"} : AccBlank(st) \in Request /\ AccBlank(st).st = st
    BY <1>c DEF Stages
  <2>2. CASE ~ Allowed(rows, reqs[r], op, t)
    <3>1. reqs'[r].st # "loaded" /\ \A q \in Req : q # r => reqs'[q] = reqs[q]
      BY <1>6, <1>a, <2>1, <2>2 DEF Load
    <3>2. QED
      BY <1>6, <1>d, <3>1 DEF Load
  <2>3. CASE Allowed(rows, reqs[r], op, t)
    <3>1. /\ reqs'[r].op = op /\ reqs'[r].target = t /\ reqs'[r].snap = rows[t]
          /\ \A q \in Req : q # r => reqs'[q] = reqs[q]
      BY <1>6, <1>a, <2>1, <2>3 DEF Load, Request
    <3>2. op \in Removing /\ IsSuper(rows[t]) => AnotherSuper(rows, t)
      BY <2>3 DEF Allowed, MayRemove, Removing
    <3>3. rows' = rows /\ tokens' = tokens /\ overlap' = overlap
      BY <1>6 DEF Load
    <3>4. LoadedHolds(r)'
      BY <3>1, <3>2, <3>3 DEF LoadedHolds, AnotherSuper, IsSuper
    <3>5. SUFFICES ASSUME ~ overlap
                   PROVE  SuperadminRemains' /\ TokensReached' /\ \A q \in Req : LoadedHolds(q)'
      BY <3>3 DEF SerialInv
    <3>6. SuperadminRemains /\ TokensReached /\ \A q \in Req : LoadedHolds(q)
      BY <3>5 DEF SerialInv
    <3>7. SuperadminRemains' /\ TokensReached'
      BY <3>3, <3>6 DEF SuperadminRemains, TokensReached, IsSuper
    <3>8. ASSUME NEW q \in Req, q # r PROVE LoadedHolds(q)'
      BY <3>1, <3>3, <3>6, <3>8 DEF LoadedHolds, AnotherSuper, IsSuper
    <3>9. QED
      BY <3>4, <3>7, <3>8
  <2>4. QED
    BY <2>2, <2>3
<1>7. ASSUME NEW r \in Req, CommitRefused(r)
      PROVE  SerialInv'
  <2>1. AccBlank("failed").st = "failed"
    BY <1>c DEF Stages
  <2>2. reqs'[r].st # "loaded" /\ \A q \in Req : q # r => reqs'[q] = reqs[q]
    BY <1>7, <1>a, <2>1 DEF CommitRefused
  <2>3. QED
    BY <1>7, <1>d, <2>2 DEF CommitRefused
<1>8. ASSUME NEW r \in Req, NEW w \in Worker, NEW a \in Admin, LoginCheck(r, w, a)
      PROVE  SerialInv'
  <2>1. AccBlank("login") \in Request /\ AccBlank("login").st = "login"
    BY <1>c DEF Stages
  <2>2. reqs'[r].st # "loaded" /\ \A q \in Req : q # r => reqs'[q] = reqs[q]
    BY <1>8, <1>a, <2>1 DEF LoginCheck, Request
  <2>3. QED
    BY <1>8, <1>d, <2>2 DEF LoginCheck
<1>9. ASSUME NEW r \in Req, LoginCommit(r)
      PROVE  SerialInv'
  <2>1. \A st \in {"ok", "failed"} : AccBlank(st).st = st
    BY <1>c DEF Stages
  <2>2. reqs'[r].st # "loaded" /\ \A q \in Req : q # r => reqs'[q] = reqs[q]
    BY <1>9, <1>a, <2>1 DEF LoginCommit
  <2>3. reqs[r].user \in Admin /\ rows' = rows /\ overlap' = overlap
    BY <1>9 DEF LoginCommit, StageInv
  <2>4. PICK T \in {{}, {<<reqs[r].user, rows[reqs[r].user].tv>>}} : tokens' = tokens \cup T
    BY <1>9 DEF LoginCommit
  <2>5. rows[reqs[r].user].tv \in 0..MaxTv
    BY <1>a, <2>3 DEF Row
  <2>6. \A a \in Admin : \A v \in 0..MaxTv :
          <<a, v>> \in tokens' => <<a, v>> \in tokens \/ v <= rows[a].tv
    BY <2>4, <2>5
  <2>7. QED
    BY <2>2, <2>3, <2>6, SameRows
<1>10. ASSUME NEW r \in Req, Commit(r)
       PROVE  SerialInv'
  <2> DEFINE t == reqs[r].target
             op == reqs[r].op
             new == Written(rows[t], reqs[r].snap, op)
  <2>1. SUFFICES ASSUME ~ overlap'
                 PROVE  SuperadminRemains' /\ TokensReached' /\ \A q \in Req : LoadedHolds(q)'
    BY DEF SerialInv
  <2>2. ~ overlap /\ ~ reqs[r].dirty
    BY <1>10, <2>1 DEF Commit
  <2>3. SuperadminRemains /\ TokensReached /\ \A q \in Req : LoadedHolds(q)
    BY <2>2 DEF SerialInv
  <2>4. /\ t \in Admin /\ op \in Ops /\ rows[t] \in Row /\ reqs[r].snap \in Row
        /\ op \in Resets => reqs[r].snap.tv < MaxTv
    BY <1>10, <1>a DEF Commit, StageInv, Request
  <2>5. /\ reqs[r].snap = rows[t]
        /\ op \in Removing /\ IsSuper(rows[t]) => AnotherSuper(rows, t)
    BY <1>10, <2>2, <2>3 DEF Commit, LoadedHolds
  <2>6. op \in Adding => rows[t].st # "live"
    BY <1>10 DEF Commit, Refused, Adding
  <2>7. /\ rows' = [rows EXCEPT ![t] = new] /\ tokens' = tokens
        /\ reqs' = [q \in Req |-> IF q = r THEN AccBlank("ok")
                                  ELSE IF new = rows[t] THEN reqs[q] ELSE MarkDirty(q)]
    BY <1>10 DEF Commit
  <2>8. /\ new \in Row
        /\ op \notin Removing \cup Adding /\ IsSuper(rows[t]) => IsSuper(new)
        /\ op \in Resets => new.tv = reqs[r].snap.tv + 1
        /\ op \notin Resets \cup Adding => new.tv = rows[t].tv
        /\ new.st # "absent" \/ rows[t].st = "absent"
        /\ op \notin Adding => new.id = rows[t].id
    BY <2>4, WrittenType
  <2>n. op \in Adding => new.tv = 0 /\ new.st = "live" /\ new.id = rows[t].id + 1
    BY DEF Adding, Written, NewRow
  <2>o. op \in Removing \cup Resets => op \notin Adding
    BY DEF Removing, Resets, Adding
  <2>p. op \notin Adding \cup {"delete"} => rows[t].st = "live"
    BY <1>10 DEF Commit, Refused, Adding
  <2>q. op = "delete" => rows[t].st = "live" /\ new.st = "deleted"
    BY <1>10, <2>4, <2>5 DEF Written, Row, Resets, Commit, StageInv
  <2> HIDE DEF new
  <2>9. /\ rows'[t] = new
        /\ \A a \in Admin : a # t => rows'[a] = rows[a]
    BY <1>a, <2>4, <2>7
  <2>10. SuperadminRemains'
    <3>1. CASE IsSuper(rows[t]) /\ op \in Removing
      <4>1. PICK a \in Admin \ {t} : IsSuper(rows[a])
        BY <2>5, <3>1 DEF AnotherSuper
      <4>2. QED
        BY <2>9, <4>1 DEF SuperadminRemains, IsSuper
    <3>2. CASE IsSuper(rows[t]) /\ op \notin Removing
      <4>1. op \notin Adding
        BY <2>6, <3>2 DEF IsSuper
      <4>2. IsSuper(new)
        BY <2>8, <3>2, <4>1
      <4>3. QED
        BY <2>4, <2>9, <4>2 DEF SuperadminRemains, IsSuper
    <3>3. CASE ~ IsSuper(rows[t])
      <4>1. PICK a \in Admin : IsSuper(rows[a]) /\ a # t
        BY <2>3, <3>3 DEF SuperadminRemains
      <4>2. QED
        BY <2>9, <4>1 DEF SuperadminRemains, IsSuper
    <3>4. QED
      BY <3>1, <3>2, <3>3
  <2>11. TokensReached'
    <3>1. /\ rows[t].tv \in 0..MaxTv /\ new.tv \in 0..MaxTv
          /\ rows[t].id \in Nat /\ new.id \in Nat
      BY <2>4, <2>8 DEF Row
    <3>2. op \in Adding /\ new.id <= 1 => rows[t].tv = 0 /\ rows[t].id = 0
      BY <2>3, <2>4, <2>n, <3>1 DEF TokensReached
    <3>3. new.id <= 1 => rows[t].tv <= new.tv /\ rows[t].id <= 1
      BY <2>4, <2>5, <2>8, <2>n, <3>1, <3>2
    <3>4. /\ rows'[t].st = "absent" => rows'[t].tv = 0
          /\ rows'[t].st = "absent" <=> rows'[t].id = 0
      <4>1. CASE op \in Adding
        BY <2>9, <2>n, <3>1, <4>1
      <4>2. CASE op = "delete"
        BY <2>3, <2>4, <2>8, <2>9, <2>o, <2>q, <4>2 DEF TokensReached, Removing
      <4>3. CASE op \notin Adding \cup {"delete"}
        <5>1. rows[t].st = "live" /\ new.st # "absent" /\ new.id = rows[t].id
          BY <2>8, <2>p, <4>3
        <5>2. QED
          BY <2>3, <2>4, <2>9, <5>1 DEF TokensReached
      <4>4. QED
        BY <4>1, <4>2, <4>3
    <3>5. ASSUME NEW a \in Admin, NEW v \in 0..MaxTv, <<a, v>> \in tokens, rows'[a].id <= 1
          PROVE  v <= rows'[a].tv
      BY <2>3, <2>9, <3>1, <3>3, <3>5 DEF TokensReached
    <3>6. QED
      BY <2>3, <2>7, <2>9, <3>4, <3>5 DEF TokensReached
  <2>12. ASSUME NEW q \in Req PROVE LoadedHolds(q)'
    <3>1. CASE q = r
      BY <1>c, <2>7, <3>1 DEF LoadedHolds, Stages
    <3>2. CASE q # r /\ new = rows[t]
      <4>1. rows' = rows
        BY <1>a, <2>4, <2>7, <3>2
      <4>2. QED
        BY <2>3, <2>7, <3>2, <4>1 DEF LoadedHolds, AnotherSuper, IsSuper
    <3>3. CASE q # r /\ new # rows[t]
      BY <1>a, <2>7, <3>3, MarkDirtyType DEF LoadedHolds
    <3>4. QED
      BY <3>1, <3>2, <3>3
  <2>13. QED
    BY <2>10, <2>11, <2>12
<1>11. ASSUME NEW w \in Worker, Boot(w)
       PROVE  SerialInv'
  <2>1. SUFFICES ASSUME ~ overlap PROVE SerialInv'
    BY <1>11 DEF Boot, SerialInv
  <2>2. \E a \in Admin : IsSuper(rows[a])
    BY <2>1 DEF SerialInv, SuperadminRemains
  <2>3. rows' = rows
    BY <1>11, <1>a, <2>2 DEF Boot
  <2>4. \A q \in Req : reqs'[q] = reqs[q] \/ reqs'[q] = AccBlank("failed")
    BY <1>11, <2>2 DEF Boot
  <2>5. AccBlank("failed").st = "failed"
    BY <1>c DEF Stages
  <2>6. /\ overlap' = overlap
        /\ \A a \in Admin : \A v \in 0..MaxTv :
             <<a, v>> \in tokens' => <<a, v>> \in tokens \/ v <= rows[a].tv
    BY <1>11 DEF Boot
  <2>7. \A q \in Req : reqs'[q] = reqs[q] \/ reqs'[q].st # "loaded"
    BY <2>4, <2>5
  <2>8. QED
    BY <2>3, <2>6, <2>7, SameRows
<1>12. CASE AccTick
  <2>1. /\ rows' = rows /\ overlap' = overlap
        /\ \A a \in Admin : \A v \in 0..MaxTv :
             <<a, v>> \in tokens' => <<a, v>> \in tokens \/ v <= rows[a].tv
    BY <1>12 DEF AccTick
  <2>2. \A q \in Req : reqs'[q] = reqs[q] \/ reqs'[q].st # "loaded"
    BY <1>12, <1>a DEF AccTick, Request
  <2>3. QED
    BY <2>1, <2>2, SameRows
<1>13. QED
  BY <1>2, <1>3, <1>4, <1>5, <1>6, <1>7, <1>8, <1>9, <1>10, <1>11, <1>12 DEF AccNext, Resolve

(* AccInv is inductive.                                                    *)
LEMMA AccInvStep == AccInv /\ [AccNext]_accVars => AccInv'
<1> SUFFICES ASSUME AccInv, [AccNext]_accVars PROVE AccInv'
  OBVIOUS
<1>1. AccTypeOK' /\ StageInv'
  BY AccTypeStep DEF AccInv
<1>2. CASE AccNext
  BY <1>1, <1>2, CacheStep, SerialStep DEF AccInv
<1>3. CASE UNCHANGED accVars
  BY <1>1, <1>3 DEF accVars, AccInv, AccountCacheBounded, SerialInv, SuperadminRemains,
                    TokensReached, LoadedHolds, AnotherSuper, IsSuper
<1>4. QED
  BY <1>2, <1>3

LEMMA AccInvAlways == AccSpec => []AccInv
<1>1. AccInit => AccInv
  BY AccInitInv
<1>2. AccInv /\ [AccNext]_accVars => AccInv'
  BY AccInvStep
<1>3. QED
  BY <1>1, <1>2, PTL DEF AccSpec

(* Every account, cache entry, request and token is well formed.           *)
THEOREM AccountsTyped == AccSpec => []AccTypeOK
<1>1. AccInv => AccTypeOK
  BY DEF AccInv
<1>2. QED
  BY <1>1, AccInvAlways, PTL

(* However cache fills, invalidations, commits and restarts interleave, a  *)
(* cached account that differs from its row is no younger than the change. *)
THEOREM CacheIsBounded == AccSpec => []AccountCacheBounded
<1>1. AccInv => AccountCacheBounded
  BY DEF AccInv
<1>2. QED
  BY <1>1, AccInvAlways, PTL

(* The last active super-admin is never lost unless two requests overlap.  *)
THEOREM SuperadminRemainsWhenSerial == AccSpec => []SuperadminRemainsSerially
<1>1. AccInv => SuperadminRemainsSerially
  BY DEF AccInv, SerialInv, SuperadminRemainsSerially
<1>2. QED
  BY <1>1, AccInvAlways, PTL

-----------------------------------------------------------------------------
(* A request that is let in, and what let it in.                           *)
LEMMA LetInBy ==
    ASSUME AccInv, AccNext, NEW r \in Req,
           reqs[r].st \in {"idle", "filling"}, reqs'[r].st = "authorised",
           reqs'[r].user # Internal, ~ reqs'[r].err
    PROVE  LET u == reqs'[r].user IN
           \/ Entitled(rows[u], reqs'[r].tv)
           \/ changeAge[u] < TTL
           \/ changeAge[u] <= reqs'[r].age
<1> USE AccountsAssumption
<1>a. /\ rows \in [Admin -> Row]
      /\ cache \in [Worker -> [Admin -> [data : Row, age : Age]]]
      /\ changeAge \in [Admin -> Age]
      /\ reqs \in [Req -> Request]
  BY DEF AccInv, AccTypeOK
<1>b. \A st \in Stages : AccBlank(st).st = st
  BY BlankRequest
<1>z. 0 \in Age /\ FALSE \in BOOLEAN /\ TRUE \in BOOLEAN
  BY DEF Age
<1>1. ASSUME NEW w \in Worker, NEW u \in Admin, NEW v \in 0..MaxTv, ServeCached(r, w, u, v)
      PROVE  /\ reqs'[r].user \in Admin
             /\ \/ Entitled(rows[reqs'[r].user], reqs'[r].tv)
                \/ changeAge[reqs'[r].user] < TTL
  <2>1. cache[w][u].data \in Row /\ cache[w][u].age \in Age /\ changeAge[u] \in Age
    BY <1>a
  <2> DEFINE s == Resolved(w, u, v, cache[w][u].data, 0, FALSE)
  <2>2. s.st = "authorised" => s.user = u /\ s.tv = v /\ Entitled(cache[w][u].data, v)
    BY <1>z, <2>1, ResolvedType
  <2>3. reqs'[r] = s
    BY <1>1, <1>a DEF ServeCached
  <2> HIDE DEF s
  <2>4. reqs'[r].user = u /\ reqs'[r].tv = v /\ Entitled(cache[w][u].data, v)
    BY <2>2, <2>3
  <2>5. cache[w][u].age < TTL
    BY <1>1 DEF ServeCached
  <2>6. cache[w][u].data = rows[u] \/ changeAge[u] <= cache[w][u].age
    BY <2>5 DEF AccInv, AccountCacheBounded
  <2>7. cache[w][u].data = rows[u] \/ changeAge[u] < TTL
    BY <2>1, <2>5, <2>6 DEF Age
  <2>8. QED
    BY <2>4, <2>7
<1>2. ASSUME NEW w \in Worker, NEW u \in Admin, NEW v \in 0..MaxTv, ReadAccount(r, w, u, v)
      PROVE  FALSE
  <2>1. reqs'[r] = [AccBlank("filling") EXCEPT !.w = w, !.user = u, !.tv = v, !.data = rows[u]]
    BY <1>2, <1>a DEF ReadAccount
  <2>2. AccBlank("filling") \in Request /\ AccBlank("filling").st = "filling"
    BY BlankRequest DEF Stages
  <2>3. reqs'[r].st = "filling"
    BY <2>1, <2>2 DEF Request
  <2>4. QED
    BY <2>3
<1>3. ASSUME NEW w \in Worker, NEW u \in Admin, NEW v \in 0..MaxTv, ServeOnError(r, w, u, v)
      PROVE  FALSE
  <2>1. cache[w][u].data \in Row
    BY <1>a
  <2> DEFINE s == Resolved(w, u, v, cache[w][u].data, 0, TRUE)
  <2>2. s.st = "authorised" => s.err = TRUE
    BY <1>z, <2>1, ResolvedType
  <2>3. reqs'[r] = s
    BY <1>3, <1>a DEF ServeOnError
  <2> HIDE DEF s
  <2>4. QED
    BY <2>2, <2>3
<1>4. ASSUME NEW w \in Worker, ServeInternal(r, w)
      PROVE  FALSE
  <2>1. AccBlank("authorised") \in Request
    BY BlankRequest DEF Stages
  <2>2. reqs'[r].user = Internal
    BY <1>4, <1>a, <2>1 DEF ServeInternal, Request
  <2>3. QED
    BY <2>2
<1>5. ASSUME StoreAccount(r)
      PROVE  \/ Entitled(rows[reqs'[r].user], reqs'[r].tv)
             \/ changeAge[reqs'[r].user] <= reqs'[r].age
  <2> DEFINE W == reqs[r].w
             U == reqs[r].user
             V == reqs[r].tv
             D == reqs[r].data
             G == reqs[r].age
             s == Resolved(W, U, V, D, G, FALSE)
  <2>1. W \in Worker /\ U \in Admin /\ V \in 0..MaxTv /\ D \in Row /\ G \in Age
    BY <1>5, <1>a DEF StoreAccount, AccInv, StageInv, Request
  <2>2. reqs'[r] = s
    BY <1>5, <1>a DEF StoreAccount
  <2>3. D = rows[U] \/ changeAge[U] <= G
    BY <1>5 DEF StoreAccount, AccInv, AccountCacheBounded
  <2> HIDE DEF W, U, V, D, G
  <2>4. s.st = "authorised" => s.user = U /\ s.tv = V /\ s.age = G /\ Entitled(D, V)
    BY <1>z, <2>1, ResolvedType
  <2> HIDE DEF s
  <2>5. QED
    BY <2>2, <2>3, <2>4
<1>6. ASSUME NEW op \in Ops, NEW t \in Admin, Load(r, op, t) PROVE FALSE
  BY <1>6 DEF Load
<1>7. ASSUME Commit(r) \/ CommitRefused(r) \/ LoginCommit(r) PROVE FALSE
  BY <1>7 DEF Commit, CommitRefused, LoginCommit
<1>8. ASSUME NEW w \in Worker, NEW a \in Admin, LoginCheck(r, w, a) PROVE FALSE
  <2>1. AccBlank("login") \in Request /\ AccBlank("login").st = "login"
    BY BlankRequest DEF Stages
  <2>2. reqs'[r].st = "login"
    BY <1>8, <1>a, <2>1 DEF LoginCheck, Request
  <2>3. QED
    BY <2>2
<1>9. ASSUME NEW q \in Req, q # r,
             reqs'[r] = reqs[r] \/ reqs'[r] = MarkDirty(r) \/ reqs'[r].st = "failed"
      PROVE  FALSE
  BY <1>9, <1>a, MarkDirtyType
<1>10. ASSUME NEW q \in Req, q # r, Resolve(q) PROVE FALSE
  <2>1. reqs'[r] = reqs[r]
    BY <1>10, <1>a DEF Resolve, ServeCached, ServeOnError, ReadAccount, StoreAccount, ServeInternal
  <2>2. QED
    BY <2>1
<1>11. ASSUME NEW q \in Req, q # r, NEW op \in Ops, NEW t \in Admin, Load(q, op, t) PROVE FALSE
  BY <1>11, <1>a DEF Load
<1>12. ASSUME NEW q \in Req, q # r, Commit(q) PROVE FALSE
  <2>1. reqs'[r] = reqs[r] \/ reqs'[r] = MarkDirty(r)
    BY <1>12 DEF Commit
  <2>2. QED
    BY <2>1, <1>a, <1>9, <1>12
<1>13. ASSUME NEW q \in Req, q # r, CommitRefused(q) \/ LoginCommit(q) PROVE FALSE
  BY <1>13, <1>a DEF CommitRefused, LoginCommit
<1>14. ASSUME NEW q \in Req, q # r, NEW w \in Worker, NEW a \in Admin, LoginCheck(q, w, a)
       PROVE  FALSE
  BY <1>14, <1>a DEF LoginCheck
<1>15. ASSUME NEW w \in Worker, Boot(w) PROVE FALSE
  <2>1. AccBlank("failed").st = "failed"
    BY <1>b DEF Stages
  <2>2. reqs'[r] = reqs[r] \/ reqs'[r] = MarkDirty(r) \/ reqs'[r] = AccBlank("failed")
    BY <1>15 DEF Boot
  <2>3. QED
    BY <1>a, <2>1, <2>2, MarkDirtyType
<1>16. ASSUME AccTick PROVE FALSE
  <2>1. reqs'[r].st = reqs[r].st
    BY <1>16, <1>a DEF AccTick, Request
  <2>2. QED
    BY <2>1
<1>17. QED
  BY <1>1, <1>2, <1>3, <1>4, <1>5, <1>6, <1>7, <1>8, <1>10, <1>11, <1>12, <1>13, <1>14,
     <1>15, <1>16 DEF AccNext, Resolve

(* A deactivation, a demotion or a sign-out binds every worker within the  *)
(* cache's TTL, database failures excepted.                                *)
THEOREM RevocationWithinTtl == AccSpec => RevokedWithinTtl
<1> DEFINE Allows ==
      \A r \in Req :
         /\ reqs[r].st \in {"idle", "filling"}
         /\ reqs'[r].st = "authorised"
         /\ reqs'[r].user # Internal /\ ~ reqs'[r].err
         => LET u == reqs'[r].user IN
            \/ Entitled(rows[u], reqs'[r].tv)
            \/ changeAge[u] < TTL
            \/ changeAge[u] <= reqs'[r].age
<1>1. ASSUME AccInv, AccNext PROVE Allows
  BY <1>1, LetInBy
<1>2. AccInv /\ [AccNext]_accVars => [Allows]_accVars
  BY <1>1
<1>3. QED
  BY <1>2, AccInvAlways, PTL DEF AccSpec, RevokedWithinTtl

-----------------------------------------------------------------------------
(* Only its own commit takes a loaded request to "ok".                     *)
LEMMA OkByCommit ==
    ASSUME AccTypeOK, AccNext, NEW r \in Req, reqs[r].st = "loaded", reqs'[r].st = "ok"
    PROVE  Commit(r)
<1>a. reqs \in [Req -> Request]
  BY DEF AccTypeOK
<1>b. AccBlank("failed").st = "failed"
  BY BlankRequest DEF Stages
<1>1. ASSUME NEW q \in Req, Resolve(q) PROVE FALSE
  <2>1. reqs[q].st # "loaded"
    BY <1>1 DEF Resolve, ServeCached, ServeOnError, ReadAccount, StoreAccount, ServeInternal
  <2>2. reqs'[r] = reqs[r]
    BY <1>1, <1>a, <2>1
       DEF Resolve, ServeCached, ServeOnError, ReadAccount, StoreAccount, ServeInternal
  <2>3. QED
    BY <2>2
<1>2. ASSUME NEW q \in Req, NEW op \in Ops, NEW t \in Admin, Load(q, op, t) PROVE FALSE
  BY <1>2, <1>a DEF Load
<1>3. ASSUME NEW q \in Req, CommitRefused(q) PROVE FALSE
  BY <1>3, <1>a, <1>b DEF CommitRefused
<1>4. ASSUME NEW q \in Req, LoginCommit(q) PROVE FALSE
  BY <1>4, <1>a DEF LoginCommit
<1>5. ASSUME NEW q \in Req, NEW w \in Worker, NEW a \in Admin, LoginCheck(q, w, a) PROVE FALSE
  BY <1>5, <1>a DEF LoginCheck
<1>6. ASSUME NEW w \in Worker, Boot(w) PROVE FALSE
  <2>1. reqs'[r] = reqs[r] \/ reqs'[r] = MarkDirty(r) \/ reqs'[r] = AccBlank("failed")
    BY <1>6 DEF Boot
  <2>2. QED
    BY <1>a, <1>b, <2>1, MarkDirtyType
<1>7. ASSUME AccTick PROVE FALSE
  BY <1>7, <1>a DEF AccTick
<1>8. ASSUME NEW q \in Req, q # r, Commit(q) PROVE FALSE
  <2>1. reqs'[r] = reqs[r] \/ reqs'[r] = MarkDirty(r)
    BY <1>8 DEF Commit
  <2>2. QED
    BY <1>a, <2>1, MarkDirtyType
<1>9. QED
  BY <1>1, <1>2, <1>3, <1>4, <1>5, <1>6, <1>7, <1>8 DEF AccNext

(* A reset that overlapped nothing starts a generation no token has, if    *)
(* the username was never given to a second account.                       *)
THEOREM ResetIsSignOut == AccSpec => ResetSignsOut
<1> DEFINE Clean ==
      \A r \in Req :
         /\ reqs[r].st = "loaded" /\ reqs'[r].st = "ok"
         /\ reqs[r].op \in Resets /\ ~ overlap' /\ rows[reqs[r].target].id = 1
         => <<reqs[r].target, rows'[reqs[r].target].tv>> \notin tokens
<1>1. ASSUME AccInv, AccNext, NEW r \in Req,
             reqs[r].st = "loaded", reqs'[r].st = "ok", reqs[r].op \in Resets, ~ overlap',
             rows[reqs[r].target].id = 1
      PROVE  <<reqs[r].target, rows'[reqs[r].target].tv>> \notin tokens
  <2> DEFINE t == reqs[r].target
             new == Written(rows[t], reqs[r].snap, reqs[r].op)
  <2>0. Commit(r)
    BY <1>1, OkByCommit DEF AccInv
  <2>1. ~ overlap /\ ~ reqs[r].dirty
    BY <1>1, <2>0 DEF Commit
  <2>2. TokensReached /\ LoadedHolds(r)
    BY <1>1, <2>1 DEF AccInv, SerialInv
  <2>3. /\ rows \in [Admin -> Row] /\ reqs[r] \in Request /\ t \in Admin
        /\ tokens \in SUBSET (Admin \X (0..MaxTv))
    BY <1>1 DEF AccInv, AccTypeOK, StageInv
  <2>4. reqs[r].snap = rows[t] /\ rows[t] \in Row /\ rows[t].tv < MaxTv
    BY <1>1, <2>1, <2>2, <2>3 DEF LoadedHolds, AccInv, StageInv
  <2>5. new.tv = rows[t].tv + 1
    BY <1>1, <2>3, <2>4, WrittenType DEF Request
  <2>6. rows'[t] = new
    BY <2>0, <2>3 DEF Commit
  <2> HIDE DEF new
  <2>7. rows[t].tv \in 0..MaxTv /\ MaxTv \in Nat
    BY <2>4, AccountsAssumption DEF Row
  <2>8. rows'[t].tv \in 0..MaxTv /\ ~ (rows'[t].tv <= rows[t].tv)
    BY <2>4, <2>5, <2>6, <2>7
  <2>9. QED
    BY <1>1, <2>2, <2>3, <2>8 DEF TokensReached
<1>2. AccInv /\ [AccNext]_accVars => [Clean]_accVars
  BY <1>1
<1>3. QED
  BY <1>2, AccInvAlways, PTL DEF AccSpec, ResetSignsOut
=============================================================================
