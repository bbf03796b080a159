---------------------------- MODULE RedisLimits ----------------------------
(***************************************************************************)
(* The limits core/redis.py keeps in Redis: the per-identifier rate        *)
(* limiter, the Groq keys' requests per minute, and the burst queue of the *)
(* photo check, with the handler that uses the last two                    *)
(* (routers/photo_validation.py, queue_photo).                             *)
(*                                                                         *)
(* Each Redis command or MULTI/EXEC pipeline is one step.  A counter and   *)
(* its remaining life travel together: at life 0 the key is gone.          *)
(***************************************************************************)
EXTENDS Naturals, Sequences, FiniteSets

CONSTANTS
    Client,     \* rate-limited identifiers
    Limit,      \* max_requests
    Window,     \* window_seconds in ticks
    MaxHits,    \* bound on a rate-limit counter
    NumKeys,    \* configured Groq keys
    Rpm,        \* RPM_LIMIT_PER_KEY
    KeyWindow,  \* WINDOW_SECONDS in ticks
    MaxQueue,   \* MAX_QUEUE_SIZE
    Post,       \* queue_photo requests that may run at once
    MaxId,      \* bound on validation ids drawn
    MaxResends  \* bound on the commands that count twice after a timeout

ASSUME LimitsAssumption ==
    /\ Limit \in Nat /\ MaxHits \in Nat
    /\ Window \in Nat \ {0} /\ KeyWindow \in Nat \ {0}
    /\ NumKeys \in Nat \ {0}
    /\ Rpm \in Nat \ {0} /\ MaxQueue \in Nat \ {0}
    /\ IsFiniteSet(Post) /\ Post # {}
    /\ MaxId \in Nat /\ MaxResends \in Nat

VARIABLES
    hits,       \* rate_limit:<action>:<identifier>, with its remaining life
    allowed,    \* the requests allowed in the last Window ticks
    turn,       \* groq:round_robin_counter, modulo NumKeys
    spent,      \* groq:rate_limit:key_<i>, with its remaining life
    queue,      \* photo_validation:queue
    taken,      \* ids the consumer has popped and not answered
    status,     \* photo_validation:result:<id>; "fresh" before the id is drawn
    posts,      \* queue_photo requests in progress
    resends     \* INCRs of a key's counter and RPUSHes applied a second time

rateVars == <<hits, allowed>>
burstVars == <<turn, spent, queue, taken, status, posts, resends>>
limVars == <<rateVars, burstVars>>

Key == 0..(NumKeys - 1)

(* uuid4 draws a new id; which one makes no difference, so they are drawn  *)
(* in order.  0 stands for none.                                           *)
Id == 1..MaxId

(* An allowed request: the count INCR gave it, and its age in ticks.       *)
Stamp == [nth : Nat, age : 0..(Window - 1)]

Counter(span) == [n : Nat, left : 0..span]
Gone == [n |-> 0, left |-> 0]

PostBlank == [st |-> "idle", tried |-> 0, key |-> 0, id |-> 0, again |-> FALSE]

RateInit ==
    /\ hits = [c \in Client |-> Gone]
    /\ allowed = [c \in Client |-> {}]

BurstInit ==
    /\ turn = 0
    /\ spent = [k \in Key |-> Gone]
    /\ queue = <<>> /\ taken = {}
    /\ status = [i \in Id |-> "fresh"]
    /\ posts = [p \in Post |-> PostBlank]
    /\ resends = 0

LimInit == RateInit /\ BurstInit

-----------------------------------------------------------------------------
(* A plausible slip: the life is set by the first request only, which is   *)
(* the fixed window README and video.py describe.                          *)
HitFixedWindow(h) == [n |-> h.n + 1, left |-> IF h.n = 0 THEN Window ELSE h.left]

(* INCR and EXPIRE in one pipeline, on every request.                      *)
Hit(h) == [n |-> h.n + 1, left |-> Window]

(* check_rate_limit while Redis answers.                                   *)
CheckRateLimit(c) ==
    /\ hits[c].n < MaxHits
    /\ hits' = [hits EXCEPT ![c] = Hit(@)]
    /\ allowed' = IF hits[c].n + 1 <= Limit
                  THEN [allowed EXCEPT ![c] = @ \cup {[nth |-> hits[c].n + 1, age |-> 0]}]
                  ELSE allowed
    /\ UNCHANGED burstVars

(* The pipeline ran but its answer was lost: the request is counted and    *)
(* let through unlimited, or the client sends the pipeline again, which is *)
(* a CheckRateLimit of its own.  (When Redis is down it is let through and *)
(* nothing changes.)                                                       *)
RateAnswerLost(c) ==
    /\ hits[c].n < MaxHits
    /\ hits' = [hits EXCEPT ![c] = Hit(@)]
    /\ UNCHANGED <<allowed, burstVars>>

(* A counter's life runs down; at the end Redis drops the key.             *)
Decayed(h) == IF h.left <= 1 THEN Gone ELSE [h EXCEPT !.left = @ - 1]

(* The allowed requests that are still in the window a tick later.         *)
Aged(S) == {[nth |-> s.nth, age |-> s.age + 1] : s \in {r \in S : r.age + 1 < Window}}

RateTick ==
    /\ hits' = [c \in Client |-> Decayed(hits[c])]
    /\ allowed' = [c \in Client |-> Aged(allowed[c])]
    /\ UNCHANGED burstVars

-----------------------------------------------------------------------------
(* A plausible slip: the index is not wrapped.                             *)
NextKeyUnwrapped(k) == k + 1

NextKey(k) == (k + 1) % NumKeys

(* get_available_key: take a turn, or the one after it when the INCR was   *)
(* sent again, then try the keys from there on.                            *)
TakeTurn(p) ==
    /\ posts[p].st = "idle"
    /\ \E k \in {turn, NextKey(turn)} :
         /\ posts' = [posts EXCEPT ![p] = [PostBlank EXCEPT !.st = "trying", !.key = k]]
         /\ turn' = NextKey(k)
    /\ UNCHANGED <<rateVars, spent, queue, taken, status, resends>>

(* The round-robin counter expires an hour after it was last used.         *)
TurnExpires ==
    /\ turn' = 0
    /\ UNCHANGED <<rateVars, spent, queue, taken, status, posts, resends>>

(* A plausible slip: one request over the limit.                           *)
HasRoomOffByOne(n, limit) == n <= limit

HasRoom(n, limit) == n < limit

(* GET of one key's counter: this key, the next one, or the queue.         *)
TryKey(p) ==
    LET k == posts[p].key
        next == [PostBlank EXCEPT
                   !.st = IF posts[p].tried + 1 = NumKeys THEN "sizing" ELSE "trying",
                   !.tried = posts[p].tried + 1, !.key = NextKey(k)]
    IN  /\ posts[p].st = "trying"
        /\ posts' = [posts EXCEPT ![p] =
                       IF HasRoom(spent[k].n, Rpm) THEN [@ EXCEPT !.st = "reserving"]
                       ELSE next]
        /\ UNCHANGED <<rateVars, turn, spent, queue, taken, status, resends>>

(* INCR and EXPIRE of the key found; "use /check_photo".                   *)
Reserve(p) ==
    LET k == posts[p].key IN
    /\ posts[p].st = "reserving"
    /\ spent' = [spent EXCEPT ![k] = [n |-> @.n + 1, left |-> KeyWindow]]
    /\ posts' = [posts EXCEPT ![p] = PostBlank]
    /\ UNCHANGED <<rateVars, turn, queue, taken, status, resends>>

(* LLEN: 503 when the queue is full.                                       *)
SizeQueue(p) ==
    /\ posts[p].st = "sizing"
    /\ posts' = [posts EXCEPT ![p] =
                   IF HasRoom(Len(queue), MaxQueue)
                   THEN [PostBlank EXCEPT !.st = "pushing"] ELSE PostBlank]
    /\ UNCHANGED <<rateVars, turn, spent, queue, taken, status, resends>>

Push(p, i) ==
    /\ posts[p].st = "pushing"
    /\ status[i] = "fresh" /\ \A j \in Id : status[j] = "fresh" => i <= j
    /\ status' = [status EXCEPT ![i] = "none"]
    /\ queue' = Append(queue, i)
    /\ posts' = [posts EXCEPT ![p] = [PostBlank EXCEPT !.st = "marking", !.id = i]]
    /\ UNCHANGED <<rateVars, turn, spent, taken, resends>>

(* set_status("queued"), after the item can already be popped.             *)
MarkQueued(p) ==
    /\ posts[p].st = "marking"
    /\ status' = [status EXCEPT ![posts[p].id] = "queued"]
    /\ posts' = [posts EXCEPT ![p] = PostBlank]
    /\ UNCHANGED <<rateVars, turn, spent, queue, taken, resends>>

(* retry_on_timeout: a command was applied, its answer came too late, and  *)
(* the client applies it once more while the handler waits: the INCR of    *)
(* the key found, or the RPUSH.  Others run in between.                    *)
Resend(p) ==
    LET k == posts[p].key IN
    /\ ~ posts[p].again /\ resends < MaxResends
    /\ posts' = [posts EXCEPT ![p].again = TRUE]
    /\ resends' = resends + 1
    /\ \/ /\ posts[p].st = "reserving"
          /\ spent' = [spent EXCEPT ![k] = [n |-> @.n + 1, left |-> KeyWindow]]
          /\ queue' = queue
       \/ /\ posts[p].st = "marking"
          /\ queue' = Append(queue, posts[p].id)
          /\ spent' = spent
    /\ UNCHANGED <<rateVars, turn, taken, status>>

(* A Redis error: the key manager hands out its first key uncounted, the   *)
(* queue answers 503.                                                      *)
RedisFails(p) ==
    /\ posts[p].st # "idle"
    /\ posts' = [posts EXCEPT ![p] = PostBlank]
    /\ UNCHANGED <<rateVars, turn, spent, queue, taken, status, resends>>

(* The consumer, which is not in this repository, calls these two.         *)
Dequeue ==
    /\ queue # <<>>
    /\ taken' = taken \cup {Head(queue)}
    /\ queue' = Tail(queue)
    /\ UNCHANGED <<rateVars, turn, spent, status, posts, resends>>

SetResult(i) ==
    /\ i \in taken
    /\ taken' = taken \ {i}
    /\ status' = [status EXCEPT ![i] = "completed"]
    /\ UNCHANGED <<rateVars, turn, spent, queue, posts, resends>>

(* RESULT_TTL after the last status the result is gone.                    *)
ExpireStatus(i) ==
    /\ status[i] \in {"queued", "completed"}
    /\ status' = [status EXCEPT ![i] = "none"]
    /\ UNCHANGED <<rateVars, turn, spent, queue, taken, posts, resends>>

KeyTick ==
    /\ spent' = [k \in Key |-> Decayed(spent[k])]
    /\ UNCHANGED <<rateVars, turn, queue, taken, status, posts, resends>>

RateNext ==
    \/ \E c \in Client : CheckRateLimit(c) \/ RateAnswerLost(c)
    \/ RateTick

BurstNext ==
    \/ \E p \in Post :
         \/ TakeTurn(p) \/ TryKey(p) \/ Reserve(p)
         \/ SizeQueue(p) \/ MarkQueued(p)
         \/ \E i \in Id : Push(p, i)
         \/ Resend(p) \/ RedisFails(p)
    \/ \E i \in Id : SetResult(i) \/ ExpireStatus(i)
    \/ Dequeue
    \/ TurnExpires
    \/ KeyTick

LimNext == RateNext \/ BurstNext

LimSpec == LimInit /\ [][LimNext]_limVars

-----------------------------------------------------------------------------
(* Type invariant of the limits.                                           *)
LimTypeOK ==
    /\ hits \in [Client -> Counter(Window)]
    /\ allowed \in [Client -> SUBSET Stamp]
    /\ turn \in Key
    /\ spent \in [Key -> Counter(KeyWindow)]
    /\ queue \in Seq(Id)
    /\ taken \subseteq Id
    /\ status \in [Id -> {"fresh", "none", "queued", "completed"}]
    /\ posts \in [Post -> [st : {"idle", "trying", "reserving", "sizing", "pushing", "marking"},
                           tried : 0..NumKeys, key : Key, id : 0..MaxId, again : BOOLEAN]]
    /\ resends \in Nat

(* The limiter never allows more than Limit requests of an identifier in   *)
(* any window, sliding or not: the life is renewed by every request, so    *)
(* the counter restarts only after a whole quiet window.  README and       *)
(* video.py describe a fixed window, which would allow Limit on each side  *)
(* of its edge; the code is stricter, and refuses for as long as a client  *)
(* keeps asking.                                                           *)
RateCap == \A c \in Client : Cardinality(allowed[c]) <= Limit

(* Check-then-increment and check-then-push exceed their limits by at most *)
(* the number of requests that run at once, less the one that fits, and by *)
(* the commands a timeout made the client send again: a key is never       *)
(* charged more than Rpm + |Post| - 1 + resends requests in a window,      *)
(* however many come, and the queue never holds more than                  *)
(* MaxQueue + |Post| - 1 + resends items.                                  *)
KeyOvershoot == \A k \in Key : spent[k].n <= Rpm + Cardinality(Post) - 1 + resends
QueueOvershoot == Len(queue) <= MaxQueue + Cardinality(Post) - 1 + resends
BurstOvershoot == KeyOvershoot /\ QueueOvershoot
=============================================================================
