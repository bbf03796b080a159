---------------------------- MODULE AdminAccounts ----------------------------
(***************************************************************************)
(* Panel accounts: the admin_users rows, the per-process cache every       *)
(* authenticated request goes through (core/admin_auth.resolve_admin,      *)
(* services/admin_service.get_cached_admin) and the super-admin's          *)
(* operations on accounts (routers/admins.py, routers/admin_auth.py).      *)
(*                                                                         *)
(* A request runs in steps: it is authenticated from the worker's cache or *)
(* from a database read, loads its target in its own transaction (whose    *)
(* first query fixes what it sees), and commits.  Time is relative: every  *)
(* cache entry, read and row carries an age in ticks, capped at TTL.  A    *)
(* deleted username may be given to a new account: `id` counts the         *)
(* accounts a name has had, and a handler holds on to the one it loaded,   *)
(* while a token names the username only.                                  *)
(***************************************************************************)
EXTENDS Naturals, FiniteSets

CONSTANTS
    Admin,      \* usernames
    Seed,       \* SUPERADMIN_USERNAME
    SeedHash,   \* whether SUPERADMIN_PASSWORD_HASH is set
    Internal,   \* the caller who presents the internal service key (id None)
    None,       \* no worker, caller or target yet
    Worker,     \* API processes
    Req,        \* requests; each runs once (a bound)
    TTL,        \* ADMIN_CACHE_TTL in ticks
    MaxTv       \* bound on token_version

ASSUME AccountsAssumption ==
    /\ Seed \in Admin
    /\ SeedHash \in BOOLEAN
    /\ Internal \notin Admin
    /\ None \notin Admin \cup Worker \cup {Internal}
    /\ TTL \in Nat \ {0}
    /\ MaxTv \in Nat

VARIABLES
    rows,       \* admin_users, by username
    cache,      \* per worker and username: the snapshot and its age
    changeAge,  \* ticks since the row last changed
    reqs,       \* requests in progress
    tokens,     \* JWTs issued: <<sub, tv>>
    overlap     \* a request committed over a change made since it loaded

accVars == <<rows, cache, changeAge, reqs, tokens, overlap>>

Roles == {"admin", "superadmin"}

Row == [st : {"absent", "live", "deleted"}, role : Roles, active : BOOLEAN,
        tv : 0..MaxTv, id : Nat]

NoRow == [st |-> "absent", role |-> "admin", active |-> FALSE, tv |-> 0, id |-> 0]

(* The row create_admin and ensure_superadmin insert.                      *)
NewRow(role, id) == [st |-> "live", role |-> role, active |-> TRUE, tv |-> 0, id |-> id]

Ops == {"add_admin", "add_superadmin", "activate", "deactivate", "promote",
        "demote", "reset", "change_own", "delete"}

Resets == {"reset", "change_own"}

Age == 0..TTL

Older(n) == IF n < TTL THEN n + 1 ELSE n

(* A missing entry is an expired one that holds no account.                *)
NoEntry == [data |-> NoRow, age |-> TTL]

(* A request's stage and what it carries at that stage.                    *)
Request ==
    [st : {"idle", "filling", "authorised", "loaded", "login", "ok", "failed"},
     w : Worker \cup {None}, user : Admin \cup {Internal, None}, tv : 0..MaxTv,
     data : Row, age : Age, err : BOOLEAN,
     op : Ops, target : Admin \cup {None}, snap : Row, dirty : BOOLEAN]

AccBlank(st) ==
    [st |-> st, w |-> None, user |-> None, tv |-> 0, data |-> NoRow, age |-> 0,
     err |-> FALSE, op |-> "reset", target |-> None, snap |-> NoRow, dirty |-> FALSE]

IsSuper(row) == row.st = "live" /\ row.role = "superadmin" /\ row.active

(* What resolve_admin and require_superadmin ask of the account's data.    *)
Entitled(row, tv) == IsSuper(row) /\ row.tv = tv

-----------------------------------------------------------------------------
(* A username whose account has been deleted; its tokens, of every         *)
(* generation, have up to 24 hours to go.                                  *)
GoneRow == [NoRow EXCEPT !.st = "deleted", !.tv = MaxTv, !.id = 1]

AccInit ==
    /\ \E gone \in SUBSET (Admin \ {Seed}) :
         /\ rows = [a \in Admin |-> IF a = Seed THEN NewRow("superadmin", 1)
                                   ELSE IF a \in gone THEN GoneRow ELSE NoRow]
         /\ tokens = {<<Seed, 0>>} \cup gone \X (0..MaxTv)
    /\ cache = [w \in Worker |-> [a \in Admin |-> NoEntry]]
    /\ changeAge = [a \in Admin |-> TTL]
    /\ overlap = FALSE
    /\ reqs = [r \in Req |-> AccBlank("idle")]

(* resolve_admin on the data served: the request of caller u at worker w   *)
(* goes on, or ends with a 401 or 403.                                     *)
Resolved(w, u, tv, data, age, err) ==
    IF Entitled(data, tv)
    THEN [AccBlank("authorised") EXCEPT !.w = w, !.user = u, !.tv = tv,
                                     !.data = data, !.age = age, !.err = err]
    ELSE AccBlank("failed")

(* A request with a login token meets an entry younger than the TTL.       *)
ServeCached(r, w, u, v) ==
    /\ reqs[r].st = "idle"
    /\ <<u, v>> \in tokens
    /\ cache[w][u].age < TTL
    /\ reqs' = [reqs EXCEPT ![r] = Resolved(w, u, v, cache[w][u].data, 0, FALSE)]
    /\ UNCHANGED <<rows, cache, changeAge, tokens, overlap>>

(* ... or none: "now" is taken, then the row is read.                      *)
ReadAccount(r, w, u, v) ==
    /\ reqs[r].st = "idle"
    /\ <<u, v>> \in tokens
    /\ cache[w][u].age = TTL
    /\ reqs' = [reqs EXCEPT ![r] = [AccBlank("filling") EXCEPT
                   !.w = w, !.user = u, !.tv = v, !.data = rows[u]]]
    /\ UNCHANGED <<rows, cache, changeAge, tokens, overlap>>

(* A plausible slip: the entry is stamped when it is stored.               *)
StampedAtStore(s) == [data |-> s.data, age |-> 0]

FillEntry(s) == [data |-> s.data, age |-> s.age]

(* The read is stored under the time it began at, whatever has happened    *)
(* to the row or to the entry since.                                       *)
StoreAccount(r) ==
    LET s == reqs[r] IN
    /\ s.st = "filling"
    /\ cache' = [cache EXCEPT ![s.w][s.user] = FillEntry(s)]
    /\ reqs' = [reqs EXCEPT ![r] = Resolved(s.w, s.user, s.tv, s.data, s.age, FALSE)]
    /\ UNCHANGED <<rows, changeAge, tokens, overlap>>

(* The lookup fails: the last known entry is served, however old.          *)
ServeOnError(r, w, u, v) ==
    /\ reqs[r].st = "idle"
    /\ <<u, v>> \in tokens
    /\ cache[w][u].age = TTL
    /\ reqs' = [reqs EXCEPT ![r] = Resolved(w, u, v, cache[w][u].data, 0, TRUE)]
    /\ UNCHANGED <<rows, cache, changeAge, tokens, overlap>>

(* The internal service key needs no account.                              *)
ServeInternal(r, w) ==
    /\ reqs[r].st = "idle"
    /\ reqs' = [reqs EXCEPT ![r] = [AccBlank("authorised") EXCEPT
                   !.w = w, !.user = Internal]]
    /\ UNCHANGED <<rows, cache, changeAge, tokens, overlap>>

Resolve(r) ==
    \/ \E w \in Worker, u \in Admin, v \in 0..MaxTv :
         \/ ServeCached(r, w, u, v)
         \/ ReadAccount(r, w, u, v)
         \/ ServeOnError(r, w, u, v)
    \/ \E w \in Worker : ServeInternal(r, w)
    \/ StoreAccount(r)

-----------------------------------------------------------------------------
(* A plausible slip: the count does not leave the target out.              *)
AnySuper(tbl, t) == \E a \in Admin : IsSuper(tbl[a])

(* count_active_superadmins(exclude_id = t) > 0                            *)
AnotherSuper(tbl, t) == \E a \in Admin \ {t} : IsSuper(tbl[a])

(* _reject_self, which compares ids, and _protect_last_superadmin.         *)
MayRemove(tbl, s, t) ==
    /\ ~ (s.user = t /\ s.data.id = tbl[t].id)
    /\ IsSuper(tbl[t]) => AnotherSuper(tbl, t)

(* Changing one's own password needs an account and the current password;  *)
(* a reset may name any account, the caller's own included.                *)
MayRotate(tbl, u, op, t) == tbl[t].tv < MaxTv /\ (op = "change_own" => u = t)

(* What the handler of op checks for request s on the rows its transaction *)
(* sees; a username is taken while it has a row, deleted ones are free.    *)
Allowed(tbl, s, op, t) ==
    IF op \in {"add_admin", "add_superadmin"}
    THEN tbl[t].st # "live"
    ELSE /\ tbl[t].st = "live"
         /\ op \in {"deactivate", "demote", "delete"} => MayRemove(tbl, s, t)
         /\ op \in Resets => MayRotate(tbl, s.user, op, t)

Load(r, op, t) ==
    /\ reqs[r].st = "authorised"
    /\ reqs' = [reqs EXCEPT ![r] =
         IF Allowed(rows, reqs[r], op, t)
         THEN [AccBlank("loaded") EXCEPT !.w = reqs[r].w, !.op = op, !.target = t,
                                      !.snap = rows[t]]
         ELSE AccBlank("failed")]
    /\ UNCHANGED <<rows, cache, changeAge, tokens, overlap>>

(* A plausible slip: a reset that leaves the token generation alone.       *)
WrittenNoBump(row, snap, op) ==
    IF op \in Resets THEN row ELSE [row EXCEPT !.active = (op # "deactivate")]

(* The row after the flush: only the columns that differ from the loaded   *)
(* snapshot are written, with values computed from that snapshot.          *)
Written(row, snap, op) ==
    IF op = "add_admin" THEN NewRow("admin", row.id + 1)
    ELSE IF op = "add_superadmin" THEN NewRow("superadmin", row.id + 1)
    ELSE IF op = "activate"
      THEN [row EXCEPT !.active = IF snap.active THEN @ ELSE TRUE]
    ELSE IF op = "deactivate"
      THEN [row EXCEPT !.active = IF snap.active THEN FALSE ELSE @]
    ELSE IF op = "promote"
      THEN [row EXCEPT !.role = IF snap.role = "superadmin" THEN @ ELSE "superadmin"]
    ELSE IF op = "demote"
      THEN [row EXCEPT !.role = IF snap.role = "admin" THEN @ ELSE "admin"]
    ELSE IF op \in Resets
      THEN [row EXCEPT !.tv = snap.tv + 1]
    ELSE IF row.id = snap.id THEN [row EXCEPT !.st = "deleted"]
    ELSE row

(* A duplicate username, or an UPDATE that matches no row any more, as the *)
(* account it loaded is gone: 500.                                         *)
Refused(row, s) ==
    \/ s.op \in {"add_admin", "add_superadmin"} /\ row.st = "live"
    \/ /\ s.op \notin {"add_admin", "add_superadmin", "delete"}
       /\ row.st = "live" => row.id # s.snap.id

(* Other transactions that have loaded now hold an outdated view.          *)
MarkDirty(q) == IF reqs[q].st = "loaded" THEN [reqs[q] EXCEPT !.dirty = TRUE] ELSE reqs[q]

Commit(r) ==
    LET s == reqs[r]
        t == s.target
        new == Written(rows[t], s.snap, s.op)
    IN  /\ s.st = "loaded"
        /\ ~ Refused(rows[t], s)
        /\ rows' = [rows EXCEPT ![t] = new]
        /\ changeAge' = [changeAge EXCEPT ![t] = IF new = rows[t] THEN @ ELSE 0]
        /\ cache' = [cache EXCEPT ![s.w][t] = NoEntry]
        /\ reqs' = [q \in Req |-> IF q = r THEN AccBlank("ok")
                                  ELSE IF new = rows[t] THEN reqs[q] ELSE MarkDirty(q)]
        /\ overlap' = (overlap \/ s.dirty)
        /\ UNCHANGED tokens

CommitRefused(r) ==
    /\ reqs[r].st = "loaded"
    /\ Refused(rows[reqs[r].target], reqs[r])
    /\ reqs' = [reqs EXCEPT ![r] = AccBlank("failed")]
    /\ UNCHANGED <<rows, cache, changeAge, tokens, overlap>>

-----------------------------------------------------------------------------
(* A login with the right password of an account that is active.           *)
LoginCheck(r, w, a) ==
    /\ reqs[r].st = "idle"
    /\ rows[a].st = "live" /\ rows[a].active
    /\ reqs' = [reqs EXCEPT ![r] = [AccBlank("login") EXCEPT
                   !.w = w, !.user = a, !.data = [NoRow EXCEPT !.id = rows[a].id]]]
    /\ UNCHANGED <<rows, cache, changeAge, tokens, overlap>>

(* last_login_at is committed and the token minted from the row as it is   *)
(* after the commit; a row deleted meanwhile fails the UPDATE.             *)
LoginCommit(r) ==
    LET s == reqs[r] IN
    /\ s.st = "login"
    /\ IF rows[s.user].st = "live" /\ rows[s.user].id = s.data.id
         THEN /\ tokens' = tokens \cup {<<s.user, rows[s.user].tv>>}
              /\ cache' = [cache EXCEPT ![s.w][s.user] = NoEntry]
              /\ reqs' = [reqs EXCEPT ![r] = AccBlank("ok")]
         ELSE /\ reqs' = [reqs EXCEPT ![r] = AccBlank("failed")]
              /\ UNCHANGED <<tokens, cache>>
    /\ UNCHANGED <<rows, changeAge, overlap>>

(* ensure_superadmin's row for the seed name.                              *)
Seeded ==
    IF rows[Seed].st = "live"
    THEN [rows[Seed] EXCEPT !.role = "superadmin", !.active = TRUE]
    ELSE NewRow("superadmin", rows[Seed].id + 1)

(* A worker restarts: its cache and requests are gone; with no active      *)
(* super-admin in the table it seeds one if the environment has a hash.    *)
Boot(w) ==
    LET seeds == SeedHash /\ ~ (\E a \in Admin : IsSuper(rows[a]))
        new == IF seeds THEN Seeded ELSE rows[Seed]
        moved == new # rows[Seed]
    IN  /\ cache' = [cache EXCEPT ![w] = [a \in Admin |-> NoEntry]]
        /\ rows' = [rows EXCEPT ![Seed] = new]
        /\ changeAge' = [changeAge EXCEPT ![Seed] = IF moved THEN 0 ELSE @]
        /\ reqs' = [q \in Req |->
             IF reqs[q].w = w THEN AccBlank("failed")
             ELSE IF moved THEN MarkDirty(q) ELSE reqs[q]]
        /\ UNCHANGED <<tokens, overlap>>

(* Time passes for every entry, every read in progress and every row.      *)
AccTick ==
    /\ cache' = [w \in Worker |-> [a \in Admin |->
                   [cache[w][a] EXCEPT !.age = Older(@)]]]
    /\ changeAge' = [a \in Admin |-> Older(changeAge[a])]
    /\ reqs' = [r \in Req |-> IF reqs[r].st = "filling"
                              THEN [reqs[r] EXCEPT !.age = Older(@)] ELSE reqs[r]]
    /\ UNCHANGED <<rows, tokens, overlap>>

AccNext ==
    \/ \E r \in Req :
         \/ Resolve(r)
         \/ \E op \in Ops, t \in Admin : Load(r, op, t)
         \/ Commit(r)
         \/ CommitRefused(r)
         \/ \E w \in Worker, a \in Admin : LoginCheck(r, w, a)
         \/ LoginCommit(r)
    \/ \E w \in Worker : Boot(w)
    \/ AccTick

AccSpec == AccInit /\ [][AccNext]_accVars

-----------------------------------------------------------------------------
(* Type invariant of the accounts.                                         *)
AccTypeOK ==
    /\ rows \in [Admin -> Row]
    /\ cache \in [Worker -> [Admin -> [data : Row, age : Age]]]
    /\ changeAge \in [Admin -> Age]
    /\ reqs \in [Req -> Request]
    /\ tokens \in SUBSET (Admin \X (0..MaxTv))
    /\ overlap \in BOOLEAN

(* ADMIN_CACHE_TTL bounds how long a worker acts on an outdated account:   *)
(* whatever fills, invalidations and restarts did, an entry that disagrees *)
(* with the row is at least as old as the row's last change, and a read in *)
(* progress that disagrees began before it.                                *)
AccountCacheBounded ==
    /\ \A w \in Worker, a \in Admin :
         cache[w][a].age < TTL /\ cache[w][a].data # rows[a]
            => changeAge[a] <= cache[w][a].age
    /\ \A r \in Req :
         reqs[r].st = "filling" /\ reqs[r].data # rows[reqs[r].user]
            => changeAge[reqs[r].user] <= reqs[r].age

(* routers/admins.py, lines 3-7: the last active super-admin can't be      *)
(* removed.                                                                *)
SuperadminRemains == \E a \in Admin : IsSuper(rows[a])

(* What the guards do give: an active super-admin is left unless some      *)
(* request committed over a change made after it had loaded.               *)
SuperadminRemainsSerially == ~ overlap => SuperadminRemains

(* Deactivation, demotion and a new token generation take effect within    *)
(* the TTL: a request let through although the row no longer entitles it   *)
(* is less than TTL after the change, or began its read before the change. *)
(* Requests served during a database failure are excepted.  This is what   *)
(* the code gives, not what it says: for a password change or reset,       *)
(* README, admin_auth.py and admin_user.py promise "immediately", which is *)
(* true of the worker that served it only (the others keep their entry).   *)
RevokedWithinTtl ==
    [][\A r \in Req :
         /\ reqs[r].st \in {"idle", "filling"}
         /\ reqs'[r].st = "authorised"
         /\ reqs'[r].user # Internal /\ ~ reqs'[r].err
         => LET u == reqs'[r].user IN
            \/ Entitled(rows[u], reqs'[r].tv)
            \/ changeAge[u] < TTL
            \/ changeAge[u] <= reqs'[r].age]_accVars

(* "Their existing sessions have been signed out": a password reset leaves *)
(* no token issued before it in the current generation, as long as no      *)
(* request committed over another's change and the account is the first of *)
(* its username.  A later one starts again at generation 0, and tokens of  *)
(* the deleted account that a reset catches up with are current again.     *)
ResetSignsOut ==
    [][\A r \in Req :
         /\ reqs[r].st = "loaded" /\ reqs'[r].st = "ok"
         /\ reqs[r].op \in Resets /\ ~ overlap' /\ rows[reqs[r].target].id = 1
         => <<reqs[r].target, rows'[reqs[r].target].tv>> \notin tokens]_accVars
=============================================================================
