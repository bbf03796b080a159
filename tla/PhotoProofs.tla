----------------------------- MODULE PhotoProofs -----------------------------
(***************************************************************************)
(* Proofs about RedisLimits and PhotoGate, for any number of clients, keys *)
(* and requests and any limits, and about both side by side (MCPhoto).     *)
(***************************************************************************)
EXTENDS MCPhoto, FiniteSetTheorems, TLAPS

PostRecord ==
    [st : {"idle", "trying", "reserving", "sizing", "pushing", "marking"},
     tried : 0..NumKeys, key : Key, id : 0..MaxId, again : BOOLEAN]

PostStages == {"idle", "trying", "reserving", "sizing", "pushing", "marking"}

(* While a request goes through the keys it has not tried them all, and    *)
(* while it marks an item it holds the item's id.                          *)
TriedInv ==
    \A p \in Post : /\ posts[p].st = "trying" => posts[p].tried < NumKeys
                    /\ posts[p].st = "marking" => posts[p].id \in Id

(* The requests that found room at key k, or in the queue, and have not    *)
(* used it yet.                                                            *)
Reserving(k) == {p \in Post : posts[p].st = "reserving" /\ posts[p].key = k}
Pushing == {p \in Post : posts[p].st = "pushing"}

(* Each of them may still add one, and each came in below the limit; what  *)
(* a timeout adds beyond that is counted in resends.                       *)
KeyRoom(k) ==
    spent[k].n + Cardinality(Reserving(k)) <= Rpm - 1 + Cardinality(Post) + resends
QueueRoom ==
    Len(queue) + Cardinality(Pushing) <= MaxQueue - 1 + Cardinality(Post) + resends

(* Every request allowed in the window was counted in the counter's        *)
(* present life, under its own number, and the life outlasts its window.   *)
StampsInv(c) ==
    /\ \A s \in allowed[c] :
         s.nth \in 1..Limit /\ s.nth <= hits[c].n /\ s.age + hits[c].left >= Window
    /\ \A s, q \in allowed[c] : s.nth = q.nth => s = q

(* The inductive invariant of the limits.                                  *)
LimInv ==
    /\ LimTypeOK /\ TriedInv
    /\ (\A k \in Key : KeyRoom(k)) /\ QueueRoom
    /\ \A c \in Client : StampsInv(c)

-----------------------------------------------------------------------------
LEMMA KeyFacts ==
    /\ 0 \in Key
    /\ \A k \in Key : NextKey(k) \in Key
BY LimitsAssumption DEF Key, NextKey

LEMMA BlankPost ==
    /\ PostBlank \in PostRecord /\ PostBlank.st = "idle" /\ PostBlank.tried = 0
    /\ \A st \in PostStages : /\ [PostBlank EXCEPT !.st = st] \in PostRecord
                              /\ [PostBlank EXCEPT !.st = st].st = st
                              /\ [PostBlank EXCEPT !.st = st].tried = 0
<1>1. PostBlank \in PostRecord
  BY KeyFacts, LimitsAssumption DEF PostBlank, PostRecord
<1>2. PostBlank.st = "idle" /\ PostBlank.tried = 0
  BY DEF PostBlank
<1>3. ASSUME NEW st \in PostStages
      PROVE  /\ [PostBlank EXCEPT !.st = st] \in PostRecord
             /\ [PostBlank EXCEPT !.st = st].st = st
             /\ [PostBlank EXCEPT !.st = st].tried = 0
  BY <1>1, <1>2, <1>3 DEF PostRecord, PostStages
<1>4. QED
  BY <1>1, <1>2, <1>3

(* Sets of requests are finite, and losing a member costs one.             *)
LEMMA PostSets ==
    ASSUME NEW S \in SUBSET Post
    PROVE  /\ IsFiniteSet(S) /\ Cardinality(S) \in Nat
           /\ Cardinality(S) <= Cardinality(Post) /\ Cardinality(Post) \in Nat
           /\ \A p \in S : Cardinality(S \ {p}) = Cardinality(S) - 1
           /\ \A R \in SUBSET S : Cardinality(R) <= Cardinality(S)
<1>1. IsFiniteSet(Post)
  BY LimitsAssumption
<1>2. IsFiniteSet(S) /\ Cardinality(S) <= Cardinality(Post)
  BY <1>1, FS_Subset
<1>3. Cardinality(S) \in Nat /\ Cardinality(Post) \in Nat
  BY <1>1, <1>2, FS_CardinalityType
<1>4. \A p \in S : Cardinality(S \ {p}) = Cardinality(S) - 1
  BY <1>2, FS_RemoveElement
<1>5. \A R \in SUBSET S : Cardinality(R) <= Cardinality(S)
  BY <1>2, FS_Subset
<1>6. QED
  BY <1>2, <1>3, <1>4, <1>5

LEMMA DecayedType ==
    ASSUME NEW span \in Nat, NEW h \in Counter(span)
    PROVE  Decayed(h) \in Counter(span) /\ Decayed(h).n <= h.n
BY DEF Decayed, Counter, Gone

LEMMA LimInitInv == LimInit => LimInv
<1> SUFFICES ASSUME LimInit PROVE LimInv
  OBVIOUS
<1> USE LimitsAssumption
<1>1. Gone \in Counter(Window) /\ Gone \in Counter(KeyWindow)
  BY DEF Gone, Counter
<1>2. LimTypeOK
  <2>1. hits \in [Client -> Counter(Window)] /\ spent \in [Key -> Counter(KeyWindow)]
    BY <1>1 DEF LimInit, RateInit, BurstInit
  <2>2. allowed \in [Client -> SUBSET Stamp]
    BY DEF LimInit, RateInit
  <2>3. turn \in Key /\ taken \subseteq Id /\ queue \in Seq(Id)
    BY KeyFacts DEF LimInit, BurstInit
  <2>4. posts \in [Post -> PostRecord]
    BY BlankPost DEF LimInit, BurstInit
  <2>5. status \in [Id -> {"fresh", "none", "queued", "completed"}]
    BY DEF LimInit, BurstInit
  <2>6. resends \in Nat
    BY DEF LimInit, BurstInit
  <2>7. QED
    BY <2>1, <2>2, <2>3, <2>4, <2>5, <2>6 DEF LimTypeOK, PostRecord
<1>3. \A p \in Post : posts[p].st = "idle"
  BY BlankPost DEF LimInit, BurstInit
<1>4. \A k \in Key : Reserving(k) = {}
  BY <1>3 DEF Reserving
<1>5. Pushing = {}
  BY <1>3 DEF Pushing
<1>6. Cardinality({}) = 0 /\ Cardinality(Post) \in Nat
  BY FS_EmptySet, FS_CardinalityType
<1>7. ASSUME NEW k \in Key PROVE KeyRoom(k)
  <2>1. Cardinality(Reserving(k)) = 0
    BY <1>4, <1>6
  <2>2. spent[k].n = 0 /\ resends = 0
    BY DEF LimInit, BurstInit, Gone
  <2>3. QED
    BY <1>6, <2>1, <2>2 DEF KeyRoom
<1>8. QueueRoom
  BY <1>5, <1>6 DEF LimInit, BurstInit, QueueRoom
<1>9. \A c \in Client : StampsInv(c)
  BY DEF LimInit, RateInit, StampsInv
<1>10. QED
  BY <1>2, <1>3, <1>7, <1>8, <1>9 DEF LimInv, TriedInv

-----------------------------------------------------------------------------
(* Every step keeps the types.                                             *)
LEMMA LimTypeStep ==
    ASSUME LimTypeOK, TriedInv, LimNext
    PROVE  LimTypeOK' /\ TriedInv'
<1> USE LimitsAssumption
<1>a. /\ hits \in [Client -> Counter(Window)]
      /\ allowed \in [Client -> SUBSET Stamp]
      /\ turn \in Key
      /\ spent \in [Key -> Counter(KeyWindow)]
      /\ queue \in Seq(Id)
      /\ taken \subseteq Id
      /\ status \in [Id -> {"fresh", "none", "queued", "completed"}]
      /\ posts \in [Post -> PostRecord]
      /\ resends \in Nat
  BY DEF LimTypeOK, PostRecord
<1>r. ASSUME hits' \in [Client -> Counter(Window)],
             allowed' \in [Client -> SUBSET Stamp], UNCHANGED burstVars
      PROVE  LimTypeOK' /\ TriedInv'
  BY <1>r DEF burstVars, LimTypeOK, TriedInv
<1>c. ASSUME NEW p \in Post, NEW s \in PostRecord, posts' = [posts EXCEPT ![p] = s],
             s.st = "trying" => s.tried < NumKeys, s.st = "marking" => s.id \in Id
      PROVE  posts' \in [Post -> PostRecord] /\ TriedInv'
  BY <1>a, <1>c DEF TriedInv
<1>d. PostBlank \in PostRecord /\ PostBlank.st = "idle"
  BY BlankPost
<1>e. \A st \in PostStages : /\ [PostBlank EXCEPT !.st = st] \in PostRecord
                             /\ [PostBlank EXCEPT !.st = st].st = st
                             /\ [PostBlank EXCEPT !.st = st].tried = 0
  BY BlankPost
<1>h. ASSUME NEW c \in Client PROVE Hit(hits[c]) \in Counter(Window)
  BY <1>a DEF Hit, Counter
<1>1. ASSUME NEW c \in Client, CheckRateLimit(c) \/ RateAnswerLost(c)
      PROVE  LimTypeOK' /\ TriedInv'
  <2>1. hits' \in [Client -> Counter(Window)]
    BY <1>1, <1>a, <1>h DEF CheckRateLimit, RateAnswerLost
  <2>2. [nth |-> hits[c].n + 1, age |-> 0] \in Stamp
    BY <1>a DEF Counter, Stamp
  <2>3. allowed' \in [Client -> SUBSET Stamp]
    BY <1>1, <1>a, <2>2 DEF CheckRateLimit, RateAnswerLost
  <2>4. QED
    BY <1>1, <1>r, <2>1, <2>3 DEF CheckRateLimit, RateAnswerLost, burstVars
<1>2. ASSUME RateTick
      PROVE  LimTypeOK' /\ TriedInv'
  <2>1. hits' \in [Client -> Counter(Window)]
    BY <1>2, <1>a, DecayedType DEF RateTick
  <2>2. \A S \in SUBSET Stamp : Aged(S) \in SUBSET Stamp
    BY DEF Aged, Stamp
  <2>3. allowed' \in [Client -> SUBSET Stamp]
    BY <1>2, <1>a, <2>2 DEF RateTick
  <2>4. QED
    BY <1>2, <1>r, <2>1, <2>3 DEF RateTick
<1>3. ASSUME NEW p \in Post, TakeTurn(p)
      PROVE  LimTypeOK' /\ TriedInv'
  <2>p. PICK k \in {turn, NextKey(turn)} :
          /\ posts' = [posts EXCEPT ![p] = [PostBlank EXCEPT !.st = "trying", !.key = k]]
          /\ turn' = NextKey(k)
    BY <1>3 DEF TakeTurn
  <2> DEFINE s == [PostBlank EXCEPT !.st = "trying", !.key = k]
  <2>0. 0 < NumKeys /\ k \in Key
    BY <1>a, <2>p, KeyFacts
  <2>1. s \in PostRecord /\ s.tried = 0 /\ s.st = "trying"
    BY <1>d, <2>0, BlankPost DEF PostRecord
  <2>2. posts' = [posts EXCEPT ![p] = s]
    BY <2>p
  <2> HIDE DEF s
  <2>3. posts' \in [Post -> PostRecord] /\ TriedInv'
    BY <1>c, <2>0, <2>1, <2>2
  <2>4. turn' \in Key
    BY <2>0, <2>p, KeyFacts
  <2>5. QED
    BY <1>3, <1>a, <2>3, <2>4 DEF TakeTurn, rateVars, LimTypeOK, PostRecord
<1>4. ASSUME NEW p \in Post, TryKey(p)
      PROVE  LimTypeOK' /\ TriedInv'
  <2> DEFINE k == posts[p].key
             n == posts[p].tried + 1
             next == [PostBlank EXCEPT !.st = IF n = NumKeys THEN "sizing" ELSE "trying",
                                       !.tried = n, !.key = NextKey(k)]
             found == [posts[p] EXCEPT !.st = "reserving"]
  <2>1. /\ posts[p] \in PostRecord /\ k \in Key /\ posts[p].tried < NumKeys
        /\ n \in 0..NumKeys /\ NextKey(k) \in Key
    BY <1>4, <1>a, KeyFacts DEF TryKey, TriedInv, PostRecord
  <2>2. found \in PostRecord /\ found.st = "reserving"
    BY <2>1 DEF PostRecord
  <2>3. /\ next \in PostRecord /\ next.st # "marking"
        /\ next.st = "trying" => next.tried < NumKeys
    <3>1. CASE n = NumKeys
      <4>1. next = [PostBlank EXCEPT !.st = "sizing", !.tried = n, !.key = NextKey(k)]
        BY <3>1
      <4> HIDE DEF next, n, k
      <4>2. QED
        BY <1>d, <2>1, <4>1 DEF PostRecord
    <3>2. CASE n # NumKeys
      <4>1. next = [PostBlank EXCEPT !.st = "trying", !.tried = n, !.key = NextKey(k)]
        BY <3>2
      <4>2. n < NumKeys
        BY <2>1, <3>2
      <4> HIDE DEF next, n, k
      <4>3. QED
        BY <1>d, <2>1, <4>1, <4>2 DEF PostRecord
    <3>3. QED
      BY <3>1, <3>2
  <2>4. posts' = [posts EXCEPT ![p] = found] \/ posts' = [posts EXCEPT ![p] = next]
    BY <1>4, <1>a DEF TryKey
  <2> HIDE DEF next, found
  <2>5. posts' \in [Post -> PostRecord] /\ TriedInv'
    BY <1>c, <2>2, <2>3, <2>4
  <2>6. QED
    BY <1>4, <1>a, <2>5 DEF TryKey, rateVars, LimTypeOK, PostRecord
<1>5. ASSUME NEW p \in Post, Reserve(p)
      PROVE  LimTypeOK' /\ TriedInv'
  <2>1. posts' \in [Post -> PostRecord] /\ TriedInv'
    BY <1>5, <1>c, <1>d DEF Reserve
  <2>2. posts[p].key \in Key
    BY <1>a DEF PostRecord
  <2>3. [n |-> spent[posts[p].key].n + 1, left |-> KeyWindow] \in Counter(KeyWindow)
    BY <1>a, <2>2 DEF Counter
  <2>4. spent' \in [Key -> Counter(KeyWindow)]
    BY <1>5, <1>a, <2>2, <2>3 DEF Reserve
  <2>5. QED
    BY <1>5, <1>a, <2>1, <2>4 DEF Reserve, rateVars, LimTypeOK, PostRecord
<1>6. ASSUME NEW p \in Post, SizeQueue(p)
      PROVE  LimTypeOK' /\ TriedInv'
  <2>1. PICK s \in {PostBlank, [PostBlank EXCEPT !.st = "pushing"]} :
          posts' = [posts EXCEPT ![p] = s]
    BY <1>6 DEF SizeQueue
  <2>2. s \in PostRecord /\ s.st \notin {"trying", "marking"}
    BY <1>d, <1>e, <2>1 DEF PostStages
  <2>3. posts' \in [Post -> PostRecord] /\ TriedInv'
    BY <1>c, <2>1, <2>2
  <2>4. QED
    BY <1>6, <1>a, <2>3 DEF SizeQueue, rateVars, LimTypeOK, PostRecord
<1>7. ASSUME NEW p \in Post, NEW i \in Id, Push(p, i)
      PROVE  LimTypeOK' /\ TriedInv'
  <2> DEFINE s == [PostBlank EXCEPT !.st = "marking", !.id = i]
  <2>0. i \in 0..MaxId
    BY DEF Id
  <2>1. s \in PostRecord /\ s.st = "marking" /\ s.id = i
    BY <1>d, <2>0 DEF PostRecord
  <2>2. posts' = [posts EXCEPT ![p] = s]
    BY <1>7 DEF Push
  <2> HIDE DEF s
  <2>3. posts' \in [Post -> PostRecord] /\ TriedInv'
    BY <1>c, <2>1, <2>2
  <2>4. queue' \in Seq(Id) /\ status' \in [Id -> {"fresh", "none", "queued", "completed"}]
    BY <1>7, <1>a DEF Push
  <2>5. QED
    BY <1>7, <1>a, <2>3, <2>4 DEF Push, rateVars, LimTypeOK, PostRecord
<1>8. ASSUME NEW p \in Post, MarkQueued(p) \/ RedisFails(p)
      PROVE  LimTypeOK' /\ TriedInv'
  <2>1. posts' \in [Post -> PostRecord] /\ TriedInv'
    BY <1>8, <1>c, <1>d DEF MarkQueued, RedisFails
  <2>2. status' \in [Id -> {"fresh", "none", "queued", "completed"}]
    BY <1>8, <1>a DEF MarkQueued, RedisFails
  <2>3. QED
    BY <1>8, <1>a, <2>1, <2>2 DEF MarkQueued, RedisFails, rateVars, LimTypeOK, PostRecord
<1>9. ASSUME NEW i \in Id, SetResult(i) \/ ExpireStatus(i)
      PROVE  LimTypeOK' /\ TriedInv'
  <2>1. status' \in [Id -> {"fresh", "none", "queued", "completed"}] /\ taken' \subseteq Id
    BY <1>9, <1>a DEF SetResult, ExpireStatus
  <2>2. QED
    BY <1>9, <1>a, <2>1 DEF SetResult, ExpireStatus, rateVars, LimTypeOK, TriedInv
<1>10. ASSUME Dequeue
       PROVE  LimTypeOK' /\ TriedInv'
  <2>1. Head(queue) \in Id /\ Tail(queue) \in Seq(Id)
    BY <1>10, <1>a DEF Dequeue
  <2>2. QED
    BY <1>10, <1>a, <2>1 DEF Dequeue, rateVars, LimTypeOK, TriedInv
<1>11. ASSUME TurnExpires
       PROVE  LimTypeOK' /\ TriedInv'
  BY <1>11, KeyFacts DEF TurnExpires, rateVars, LimTypeOK, TriedInv
<1>12. ASSUME KeyTick
       PROVE  LimTypeOK' /\ TriedInv'
  <2>1. spent' \in [Key -> Counter(KeyWindow)]
    BY <1>12, <1>a, DecayedType DEF KeyTick
  <2>2. QED
    BY <1>12, <2>1 DEF KeyTick, rateVars, LimTypeOK, TriedInv
<1>13. ASSUME NEW p \in Post, Resend(p)
       PROVE  LimTypeOK' /\ TriedInv'
  <2> DEFINE s == [posts[p] EXCEPT !.again = TRUE]
  <2>1. /\ posts[p] \in PostRecord /\ posts[p].st # "trying"
        /\ posts[p].st = "marking" => posts[p].id \in Id
    BY <1>13, <1>a DEF Resend, TriedInv
  <2>2. s \in PostRecord /\ s.st = posts[p].st /\ s.id = posts[p].id
    BY <2>1 DEF PostRecord
  <2>3. posts' = [posts EXCEPT ![p] = s]
    BY <1>13 DEF Resend
  <2> HIDE DEF s
  <2>4. posts' \in [Post -> PostRecord] /\ TriedInv'
    BY <1>c, <2>1, <2>2, <2>3
  <2>5. spent' \in [Key -> Counter(KeyWindow)]
    <3>1. posts[p].key \in Key
      BY <2>1 DEF PostRecord
    <3>2. [n |-> spent[posts[p].key].n + 1, left |-> KeyWindow] \in Counter(KeyWindow)
      BY <1>a, <3>1 DEF Counter
    <3>3. QED
      BY <1>13, <1>a, <3>1, <3>2 DEF Resend
  <2>6. queue' \in Seq(Id) /\ resends' \in Nat
    <3>1. resends' = resends + 1
      BY <1>13 DEF Resend
    <3>2. queue' = queue \/ (posts[p].id \in Id /\ queue' = Append(queue, posts[p].id))
      BY <1>13, <2>1 DEF Resend
    <3>3. QED
      BY <1>a, <3>1, <3>2
  <2>7. QED
    BY <1>13, <1>a, <2>4, <2>5, <2>6 DEF Resend, rateVars, LimTypeOK, PostRecord
<1>14. QED
  BY <1>1, <1>2, <1>3, <1>4, <1>5, <1>6, <1>7, <1>8, <1>9, <1>10, <1>11, <1>12, <1>13
     DEF LimNext, RateNext, BurstNext

-----------------------------------------------------------------------------
(* A request that holds no place and is alone to move leaves the others'.  *)
LEMMA RoomKept ==
    ASSUME NEW p \in Post, \A q \in Post : q # p => posts'[q] = posts[q],
           posts'[p].st \notin {"reserving", "pushing"}
    PROVE  /\ \A k \in Key : Reserving(k)' \subseteq Reserving(k) \ {p}
           /\ Pushing' \subseteq Pushing \ {p}
BY DEF Reserving, Pushing

(* Less taken and less held, against a bound that has not sunk.            *)
LEMMA RoomArithmetic ==
    ASSUME NEW n \in Int, NEW m \in Int, NEW c \in Int, NEW d \in Int,
           NEW b \in Int, NEW s \in Int, NEW t \in Int,
           n + c <= b + s, m <= n, d <= c, s <= t
    PROVE  m + d <= b + t
OBVIOUS

(* Fewer requests with a place and no more spent keep the bound.           *)
LEMMA StillRoom ==
    ASSUME LimTypeOK, LimTypeOK', \A k \in Key : KeyRoom(k), QueueRoom,
           \A k \in Key : spent'[k].n <= spent[k].n /\ Reserving(k)' \subseteq Reserving(k),
           Len(queue') <= Len(queue), Pushing' \subseteq Pushing, resends <= resends'
    PROVE  (\A k \in Key : KeyRoom(k)') /\ QueueRoom'
<1>0. /\ Rpm - 1 + Cardinality(Post) \in Int /\ MaxQueue - 1 + Cardinality(Post) \in Int
      /\ resends \in Int /\ resends' \in Int
  BY PostSets, LimitsAssumption DEF LimTypeOK
<1>1. ASSUME NEW k \in Key PROVE KeyRoom(k)'
  <2> DEFINE n == spent[k].n
             m == spent'[k].n
             c == Cardinality(Reserving(k))
             d == Cardinality(Reserving(k)')
             b == Rpm - 1 + Cardinality(Post)
  <2>1. n \in Int /\ m \in Int /\ m <= n
    BY DEF LimTypeOK, Counter
  <2>2. Reserving(k) \in SUBSET Post /\ Reserving(k)' \in SUBSET Reserving(k)
    BY DEF Reserving
  <2>3. c \in Int /\ d \in Int /\ d <= c
    BY <2>2, PostSets
  <2>4. n + c <= b + resends
    BY DEF KeyRoom
  <2>5. b \in Int
    BY <1>0
  <2> HIDE DEF n, m, c, d, b
  <2>6. m + d <= b + resends'
    BY <1>0, <2>1, <2>3, <2>4, <2>5, RoomArithmetic
  <2>7. QED
    BY <2>6 DEF KeyRoom, m, d, b
<1>2. QueueRoom'
  <2> DEFINE n == Len(queue)
             m == Len(queue')
             c == Cardinality(Pushing)
             d == Cardinality(Pushing')
             b == MaxQueue - 1 + Cardinality(Post)
  <2>1. n \in Int /\ m \in Int /\ m <= n
    BY DEF LimTypeOK
  <2>2. Pushing \in SUBSET Post /\ Pushing' \in SUBSET Pushing
    BY DEF Pushing
  <2>3. c \in Int /\ d \in Int /\ d <= c
    BY <2>2, PostSets
  <2>4. n + c <= b + resends
    BY DEF QueueRoom
  <2>5. b \in Int
    BY <1>0
  <2> HIDE DEF n, m, c, d, b
  <2>6. m + d <= b + resends'
    BY <1>0, <2>1, <2>3, <2>4, <2>5, RoomArithmetic
  <2>7. QED
    BY <2>6 DEF QueueRoom, m, d, b
<1>3. QED
  BY <1>1, <1>2

(* Every step keeps the room the requests in progress may still use.       *)
LEMMA RoomStep ==
    ASSUME LimInv, LimNext, LimTypeOK'
    PROVE  (\A k \in Key : KeyRoom(k)') /\ QueueRoom'
<1> USE LimitsAssumption
<1>a. /\ spent \in [Key -> Counter(KeyWindow)]
      /\ queue \in Seq(Id)
      /\ posts \in [Post -> PostRecord]
  BY DEF LimInv, LimTypeOK, PostRecord
<1>n. resends \in Nat /\ \A k \in Key : spent[k].n \in Nat
  BY <1>a DEF Counter, LimInv, LimTypeOK
<1>b. LimTypeOK /\ (\A k \in Key : KeyRoom(k)) /\ QueueRoom
  BY DEF LimInv
<1>d. PostBlank.st = "idle" /\ PostBlank \in PostRecord
  BY BlankPost
<1>s. ASSUME spent' = spent, posts' = posts, Len(queue') <= Len(queue), resends' = resends
      PROVE  (\A k \in Key : KeyRoom(k)') /\ QueueRoom'
  <2>1. Pushing' = Pushing /\ \A k \in Key : Reserving(k)' = Reserving(k)
    BY <1>s DEF Pushing, Reserving
  <2>2. resends <= resends' /\ \A k \in Key : spent'[k].n <= spent[k].n
    BY <1>n, <1>s
  <2>3. QED
    BY <1>b, <1>s, <2>1, <2>2, StillRoom
<1>l. Len(queue) \in Nat /\ Len(queue) <= Len(queue) /\ resends \in Nat
  BY <1>a, <1>n
<1>m. ASSUME spent' = spent, queue' = queue, resends' = resends, NEW p \in Post,
             \A q \in Post : q # p => posts'[q] = posts[q],
             posts'[p].st \notin {"reserving", "pushing"}
      PROVE  (\A k \in Key : KeyRoom(k)') /\ QueueRoom'
  <2>1. Pushing' \subseteq Pushing /\ \A k \in Key : Reserving(k)' \subseteq Reserving(k)
    BY <1>m, RoomKept
  <2>2. resends <= resends' /\ \A k \in Key : spent'[k].n <= spent[k].n
    BY <1>n, <1>m
  <2>3. Len(queue') <= Len(queue)
    BY <1>l, <1>m
  <2>4. QED
    BY <1>b, <2>1, <2>2, <2>3, StillRoom
<1>1. ASSUME RateNext
      PROVE  (\A k \in Key : KeyRoom(k)') /\ QueueRoom'
  <2>1. UNCHANGED burstVars
    BY <1>1 DEF RateNext, CheckRateLimit, RateAnswerLost, RateTick
  <2>2. QED
    BY <1>l, <1>s, <2>1 DEF burstVars
<1>3. ASSUME NEW p \in Post, TakeTurn(p)
      PROVE  (\A k \in Key : KeyRoom(k)') /\ QueueRoom'
  <2>p. PICK k \in {turn, NextKey(turn)} :
          posts' = [posts EXCEPT ![p] = [PostBlank EXCEPT !.st = "trying", !.key = k]]
    BY <1>3 DEF TakeTurn
  <2>1. posts'[p].st = "trying" /\ \A q \in Post : q # p => posts'[q] = posts[q]
    BY <2>p, <1>a, <1>d DEF PostRecord
  <2>2. spent' = spent /\ queue' = queue /\ resends' = resends
    BY <1>3 DEF TakeTurn
  <2>3. QED
    BY <1>m, <2>1, <2>2
<1>4. ASSUME NEW p \in Post, TryKey(p)
      PROVE  (\A k \in Key : KeyRoom(k)') /\ QueueRoom'
  <2> DEFINE key == posts[p].key
  <2>1. posts[p] \in PostRecord /\ key \in Key
    BY <1>a DEF PostRecord
  <2>2. CASE HasRoom(spent[key].n, Rpm)
    <3>1. posts' = [posts EXCEPT ![p] = [posts[p] EXCEPT !.st = "reserving"]]
      BY <1>4, <1>a, <2>2 DEF TryKey
    <3>2. /\ posts'[p].st = "reserving" /\ posts'[p].key = key
          /\ \A q \in Post : q # p => posts'[q] = posts[q]
      BY <1>a, <2>1, <3>1 DEF PostRecord
    <3>3. spent' = spent /\ queue' = queue /\ resends' = resends
      BY <1>4 DEF TryKey
    <3>4. Pushing' \subseteq Pushing /\ \A k \in Key : k # key => Reserving(k)' \subseteq Reserving(k)
      BY <3>2 DEF Pushing, Reserving
    <3>5. ASSUME NEW k \in Key PROVE KeyRoom(k)'
      <4>0. Reserving(k)' \in SUBSET Post /\ Reserving(k) \in SUBSET Post
        BY DEF Reserving
      <4>1. Cardinality(Reserving(k)') \in Nat /\ Cardinality(Reserving(k)) \in Nat
            /\ Cardinality(Reserving(k)') <= Cardinality(Post) /\ Cardinality(Post) \in Nat
        BY <4>0, PostSets
      <4>2. CASE k = key
        <5>1. spent[k].n <= Rpm - 1
          BY <1>n, <2>2, <4>2 DEF HasRoom
        <5>2. QED
          BY <1>n, <3>3, <4>1, <5>1 DEF KeyRoom
      <4>3. CASE k # key
        <5>1. Cardinality(Reserving(k)') <= Cardinality(Reserving(k))
          BY <3>4, <4>0, <4>3, PostSets
        <5>2. KeyRoom(k)
          BY <1>b
        <5>3. QED
          BY <1>n, <3>3, <4>1, <5>1, <5>2 DEF KeyRoom
      <4>4. QED
        BY <4>2, <4>3
    <3>6. QueueRoom'
      <4>0. Pushing \in SUBSET Post /\ Pushing' \in SUBSET Post
        BY DEF Pushing
      <4>1. Cardinality(Pushing') <= Cardinality(Pushing) /\ Cardinality(Pushing') \in Nat
            /\ Cardinality(Pushing) \in Nat /\ Cardinality(Post) \in Nat
        BY <3>4, <4>0, PostSets
      <4>2. QED
        BY <1>b, <1>l, <3>3, <4>1 DEF QueueRoom
    <3>7. QED
      BY <3>5, <3>6
  <2>3. CASE ~ HasRoom(spent[key].n, Rpm)
    <3> DEFINE n == posts[p].tried + 1
               sta == IF n = NumKeys THEN "sizing" ELSE "trying"
               next == [PostBlank EXCEPT !.st = sta, !.tried = n, !.key = NextKey(key)]
    <3>1. posts' = [posts EXCEPT ![p] = next]
      BY <1>4, <2>3 DEF TryKey
    <3>2. sta \in {"sizing", "trying"}
      OBVIOUS
    <3> HIDE DEF sta, n
    <3>3. next.st = sta
      BY <1>d DEF PostRecord
    <3> HIDE DEF next
    <3>4. posts'[p].st \notin {"reserving", "pushing"}
          /\ \A q \in Post : q # p => posts'[q] = posts[q]
      BY <1>a, <3>1, <3>2, <3>3
    <3>5. QED
      BY <1>4, <1>m, <3>4 DEF TryKey
  <2>4. QED
    BY <2>2, <2>3
<1>5. ASSUME NEW p \in Post, Reserve(p)
      PROVE  (\A k \in Key : KeyRoom(k)') /\ QueueRoom'
  <2> DEFINE key == posts[p].key
  <2>1. key \in Key /\ posts[p].st = "reserving"
    BY <1>5, <1>a DEF Reserve, PostRecord
  <2>2. posts'[p].st = "idle" /\ \A q \in Post : q # p => posts'[q] = posts[q]
    BY <1>5, <1>a, <1>d DEF Reserve
  <2>3. /\ spent'[key].n = spent[key].n + 1 /\ queue' = queue /\ resends' = resends
        /\ \A k \in Key : k # key => spent'[k] = spent[k]
    BY <1>5, <1>a, <2>1 DEF Reserve
  <2>4. /\ \A k \in Key : Reserving(k)' \subseteq Reserving(k) \ {p}
        /\ Pushing' \subseteq Pushing
    BY <2>2, RoomKept
  <2>5. p \in Reserving(key)
    BY <2>1 DEF Reserving
  <2>6. ASSUME NEW k \in Key PROVE KeyRoom(k)'
    <3>0. Reserving(k) \in SUBSET Post /\ Reserving(k) \ {p} \in SUBSET Post
          /\ Reserving(k)' \in SUBSET Post
      BY DEF Reserving
    <3>1. Cardinality(Reserving(k)') <= Cardinality(Reserving(k) \ {p})
          /\ Cardinality(Reserving(k) \ {p}) <= Cardinality(Reserving(k))
      BY <2>4, <3>0, PostSets
    <3>2. Cardinality(Reserving(k)') \in Nat /\ Cardinality(Reserving(k)) \in Nat
          /\ Cardinality(Reserving(k) \ {p}) \in Nat /\ Cardinality(Post) \in Nat
      BY <3>0, PostSets
    <3>3. KeyRoom(k)
      BY <1>b
    <3>4. CASE k = key
      <4>1. Cardinality(Reserving(k) \ {p}) = Cardinality(Reserving(k)) - 1
        BY <2>5, <3>0, <3>4, PostSets
      <4>2. QED
        BY <1>n, <2>3, <3>1, <3>2, <3>3, <3>4, <4>1 DEF KeyRoom
    <3>5. CASE k # key
      BY <1>n, <2>3, <3>1, <3>2, <3>3, <3>5 DEF KeyRoom
    <3>6. QED
      BY <3>4, <3>5
  <2>7. QueueRoom'
    <3>0. Pushing \in SUBSET Post /\ Pushing' \in SUBSET Post
      BY DEF Pushing
    <3>1. Cardinality(Pushing') <= Cardinality(Pushing) /\ Cardinality(Pushing') \in Nat
          /\ Cardinality(Pushing) \in Nat /\ Cardinality(Post) \in Nat
      BY <2>4, <3>0, PostSets
    <3>2. QED
      BY <1>b, <1>l, <2>3, <3>1 DEF QueueRoom
  <2>8. QED
    BY <2>6, <2>7
<1>6. ASSUME NEW p \in Post, SizeQueue(p)
      PROVE  (\A k \in Key : KeyRoom(k)') /\ QueueRoom'
  <2>0. spent' = spent /\ queue' = queue /\ resends' = resends
    BY <1>6 DEF SizeQueue
  <2>1. CASE ~ HasRoom(Len(queue), MaxQueue)
    <3>1. posts'[p].st = "idle" /\ \A q \in Post : q # p => posts'[q] = posts[q]
      BY <1>6, <1>a, <1>d, <2>1 DEF SizeQueue
    <3>2. QED
      BY <1>m, <2>0, <3>1
  <2>2. CASE HasRoom(Len(queue), MaxQueue)
    <3>1. posts' = [posts EXCEPT ![p] = [PostBlank EXCEPT !.st = "pushing"]]
      BY <1>6, <2>2 DEF SizeQueue
    <3>2. posts'[p].st = "pushing" /\ \A q \in Post : q # p => posts'[q] = posts[q]
      BY <1>a, <1>d, <3>1 DEF PostRecord
    <3>3. \A k \in Key : Reserving(k)' \subseteq Reserving(k)
      BY <3>2 DEF Reserving
    <3>4. ASSUME NEW k \in Key PROVE KeyRoom(k)'
      <4>0. Reserving(k)' \in SUBSET Post /\ Reserving(k) \in SUBSET Post
        BY DEF Reserving
      <4>1. Cardinality(Reserving(k)') \in Nat /\ Cardinality(Reserving(k)) \in Nat
            /\ Cardinality(Reserving(k)') <= Cardinality(Reserving(k)) /\ Cardinality(Post) \in Nat
        BY <3>3, <4>0, PostSets
      <4>2. KeyRoom(k)
        BY <1>b
      <4>3. QED
        BY <1>n, <2>0, <4>1, <4>2 DEF KeyRoom
    <3>5. QueueRoom'
      <4>0. Pushing' \in SUBSET Post
        BY DEF Pushing
      <4>1. Cardinality(Pushing') <= Cardinality(Post) /\ Cardinality(Pushing') \in Nat
            /\ Cardinality(Post) \in Nat
        BY <4>0, PostSets
      <4>2. Len(queue) <= MaxQueue - 1
        BY <1>l, <2>2 DEF HasRoom
      <4>3. QED
        BY <1>l, <2>0, <4>1, <4>2 DEF QueueRoom
    <3>6. QED
      BY <3>4, <3>5
  <2>3. QED
    BY <2>1, <2>2
<1>7. ASSUME NEW p \in Post, NEW i \in Id, Push(p, i)
      PROVE  (\A k \in Key : KeyRoom(k)') /\ QueueRoom'
  <2>1. posts'[p].st = "marking" /\ \A q \in Post : q # p => posts'[q] = posts[q]
    BY <1>7, <1>a, <1>d DEF Push, PostRecord
  <2>2. /\ spent' = spent /\ Len(queue') = Len(queue) + 1 /\ resends' = resends
        /\ p \in Pushing
    BY <1>7, <1>a DEF Push, Pushing
  <2>3. /\ \A k \in Key : Reserving(k)' \subseteq Reserving(k)
        /\ Pushing' \subseteq Pushing \ {p}
    BY <2>1, RoomKept
  <2>4. ASSUME NEW k \in Key PROVE KeyRoom(k)'
    <3>0. Reserving(k)' \in SUBSET Post /\ Reserving(k) \in SUBSET Post
      BY DEF Reserving
    <3>1. Cardinality(Reserving(k)') \in Nat /\ Cardinality(Reserving(k)) \in Nat
          /\ Cardinality(Reserving(k)') <= Cardinality(Reserving(k)) /\ Cardinality(Post) \in Nat
      BY <2>3, <3>0, PostSets
    <3>2. KeyRoom(k)
      BY <1>b
    <3>3. QED
      BY <1>n, <2>2, <3>1, <3>2 DEF KeyRoom
  <2>5. QueueRoom'
    <3>0. Pushing \in SUBSET Post /\ Pushing \ {p} \in SUBSET Post /\ Pushing' \in SUBSET Post
      BY DEF Pushing
    <3>1. Cardinality(Pushing') <= Cardinality(Pushing \ {p})
          /\ Cardinality(Pushing \ {p}) = Cardinality(Pushing) - 1
      BY <2>2, <2>3, <3>0, PostSets
    <3>2. Cardinality(Pushing') \in Nat /\ Cardinality(Pushing) \in Nat
          /\ Cardinality(Post) \in Nat
      BY <3>0, PostSets
    <3>3. QED
      BY <1>b, <1>l, <2>2, <3>1, <3>2 DEF QueueRoom
  <2>6. QED
    BY <2>4, <2>5
<1>8. ASSUME NEW p \in Post, MarkQueued(p) \/ RedisFails(p)
      PROVE  (\A k \in Key : KeyRoom(k)') /\ QueueRoom'
  <2>1. posts'[p].st = "idle" /\ \A q \in Post : q # p => posts'[q] = posts[q]
    BY <1>8, <1>a, <1>d DEF MarkQueued, RedisFails
  <2>2. QED
    BY <1>8, <1>m, <2>1 DEF MarkQueued, RedisFails
<1>9. ASSUME NEW i \in Id, SetResult(i) \/ ExpireStatus(i)
      PROVE  (\A k \in Key : KeyRoom(k)') /\ QueueRoom'
  BY <1>9, <1>l, <1>s DEF SetResult, ExpireStatus
<1>10. ASSUME Dequeue
       PROVE  (\A k \in Key : KeyRoom(k)') /\ QueueRoom'
  <2>1. Len(queue') <= Len(queue)
    BY <1>10, <1>a DEF Dequeue
  <2>2. QED
    BY <1>10, <1>s, <2>1 DEF Dequeue
<1>11. ASSUME TurnExpires
       PROVE  (\A k \in Key : KeyRoom(k)') /\ QueueRoom'
  BY <1>11, <1>l, <1>s DEF TurnExpires
<1>12. ASSUME KeyTick
       PROVE  (\A k \in Key : KeyRoom(k)') /\ QueueRoom'
  <2>1. resends <= resends' /\ \A k \in Key : spent'[k].n <= spent[k].n
    BY <1>12, <1>a, <1>n, DecayedType DEF KeyTick
  <2>2. Pushing' = Pushing /\ \A k \in Key : Reserving(k)' = Reserving(k)
    BY <1>12 DEF KeyTick, Pushing, Reserving
  <2>3. Len(queue') <= Len(queue)
    BY <1>12, <1>l DEF KeyTick
  <2>4. QED
    BY <1>b, <2>1, <2>2, <2>3, StillRoom
<1>13. ASSUME NEW p \in Post, Resend(p)
       PROVE  (\A k \in Key : KeyRoom(k)') /\ QueueRoom'
  <2>1. posts[p] \in PostRecord /\ resends' = resends + 1
    BY <1>13, <1>a DEF Resend
  <2>2. \A q \in Post : posts'[q].st = posts[q].st /\ posts'[q].key = posts[q].key
    BY <1>13, <1>a DEF Resend, PostRecord
  <2>3. Pushing' = Pushing /\ \A k \in Key : Reserving(k)' = Reserving(k)
    BY <2>2 DEF Pushing, Reserving
  <2>4. /\ \A k \in Key : spent'[k].n <= spent[k].n + 1
        /\ Len(queue') \in Nat /\ Len(queue') <= Len(queue) + 1
        /\ \A k \in Key : spent'[k].n \in Nat
    <3>1. CASE posts[p].st = "reserving"
      <4>1. /\ spent' = [spent EXCEPT ![posts[p].key] =
                           [n |-> spent[posts[p].key].n + 1, left |-> KeyWindow]]
            /\ queue' = queue
        BY <1>13, <3>1 DEF Resend
      <4>2. QED
        BY <1>a, <1>l, <1>n, <4>1
    <3>2. CASE posts[p].st # "reserving"
      <4>1. spent' = spent /\ queue' = Append(queue, posts[p].id) /\ posts[p].id \in Id
        BY <1>13, <3>2 DEF Resend, LimInv, TriedInv
      <4>2. QED
        BY <1>a, <1>n, <4>1
    <3>3. QED
      BY <3>1, <3>2
  <2>5. ASSUME NEW k \in Key PROVE KeyRoom(k)'
    <3>1. Reserving(k) \in SUBSET Post
      BY DEF Reserving
    <3>2. Cardinality(Reserving(k)) \in Nat /\ Cardinality(Post) \in Nat
      BY <3>1, PostSets
    <3>3. Cardinality(Reserving(k)') = Cardinality(Reserving(k))
      BY <2>3
    <3>4. KeyRoom(k) /\ spent'[k].n <= spent[k].n + 1 /\ spent'[k].n \in Nat
      BY <1>b, <2>4
    <3>5. QED
      BY <1>n, <2>1, <3>2, <3>3, <3>4 DEF KeyRoom
  <2>6. QueueRoom'
    <3>1. Pushing \in SUBSET Post
      BY DEF Pushing
    <3>2. Cardinality(Pushing) \in Nat /\ Cardinality(Post) \in Nat
      BY <3>1, PostSets
    <3>3. Cardinality(Pushing') = Cardinality(Pushing)
      BY <2>3
    <3>4. QED
      BY <1>b, <1>l, <2>1, <2>4, <3>2, <3>3 DEF QueueRoom
  <2>7. QED
    BY <2>5, <2>6
<1>14. QED
  BY <1>1, <1>3, <1>4, <1>5, <1>6, <1>7, <1>8, <1>9, <1>10, <1>11, <1>12, <1>13
     DEF LimNext, BurstNext

(* A refused request renews the life, an allowed one gets the next number, *)
(* and a tick takes one from the life and gives it to every age.           *)
LEMMA StampsStep ==
    ASSUME LimInv, LimNext
    PROVE  \A c \in Client : StampsInv(c)'
<1> USE LimitsAssumption
<1>a. /\ hits \in [Client -> Counter(Window)] /\ allowed \in [Client -> SUBSET Stamp]
      /\ \A c \in Client : StampsInv(c)
  BY DEF LimInv, LimTypeOK
<1>b. \A c \in Client : /\ hits[c].n \in Nat /\ hits[c].left \in 0..Window
                        /\ \A s \in allowed[c] : s \in Stamp
  BY <1>a DEF Counter
<1>s. ASSUME NEW d \in Client, hits'[d] = hits[d], allowed'[d] = allowed[d]
      PROVE  StampsInv(d)'
  BY <1>a, <1>s DEF StampsInv
<1>1. ASSUME NEW c \in Client, CheckRateLimit(c) \/ RateAnswerLost(c), NEW d \in Client
      PROVE  StampsInv(d)'
  <2>1. CASE d # c
    BY <1>1, <1>a, <1>s, <2>1 DEF CheckRateLimit, RateAnswerLost
  <2>2. CASE d = c
    <3> DEFINE n == hits[c].n
               new == [nth |-> n + 1, age |-> 0]
    <3>1. hits'[c] = [n |-> n + 1, left |-> Window]
      BY <1>1, <1>a DEF CheckRateLimit, RateAnswerLost, Hit
    <3>2. \/ allowed'[c] = allowed[c]
          \/ n + 1 <= Limit /\ allowed'[c] = allowed[c] \cup {new}
      BY <1>1, <1>a DEF CheckRateLimit, RateAnswerLost
    <3>3. \A s \in allowed[c] : s.nth \in 1..Limit /\ s.nth <= n /\ s.age \in Nat
      BY <1>a, <1>b DEF StampsInv, Stamp
    <3>4. \A s, q \in allowed[c] : s.nth = q.nth => s = q
      BY <1>a DEF StampsInv
    <3>5. n \in Nat /\ new.nth = n + 1 /\ new.age = 0
      BY <1>b
    <3> HIDE DEF n, new
    <3>6. \A s \in allowed'[c] :
            s.nth \in 1..Limit /\ s.nth <= hits'[c].n /\ s.age + hits'[c].left >= Window
      BY <3>1, <3>2, <3>3, <3>5
    <3>7. \A s, q \in allowed'[c] : s.nth = q.nth => s = q
      BY <3>2, <3>3, <3>4, <3>5
    <3>8. QED
      BY <2>2, <3>6, <3>7 DEF StampsInv
  <2>3. QED
    BY <2>1, <2>2
<1>2. ASSUME RateTick, NEW c \in Client
      PROVE  StampsInv(c)'
  <2>1. /\ hits'[c] = Decayed(hits[c])
        /\ allowed'[c] = {[nth |-> s.nth, age |-> s.age + 1] :
                           s \in {r \in allowed[c] : r.age + 1 < Window}}
    BY <1>2, <1>a DEF RateTick, Aged
  <2>2. \A s \in allowed'[c] : \E r \in allowed[c] :
          r.age + 1 < Window /\ s = [nth |-> r.nth, age |-> r.age + 1]
    BY <2>1
  <2>3. \A r \in allowed[c] : /\ r.nth \in 1..Limit /\ r.nth <= hits[c].n
                              /\ r.age + hits[c].left >= Window /\ r.age \in Nat
    BY <1>a, <1>b DEF StampsInv, Stamp
  <2>4. ASSUME NEW s \in allowed'[c]
        PROVE  s.nth \in 1..Limit /\ s.nth <= hits'[c].n /\ s.age + hits'[c].left >= Window
    <3>1. PICK r \in allowed[c] : r.age + 1 < Window /\ s = [nth |-> r.nth, age |-> r.age + 1]
      BY <2>2, <2>4
    <3>2. hits[c].left > 1
      BY <1>b, <2>3, <3>1
    <3>3. hits'[c].n = hits[c].n /\ hits'[c].left = hits[c].left - 1
      BY <1>a, <2>1, <3>2 DEF Decayed, Counter
    <3>4. QED
      BY <1>b, <2>3, <3>1, <3>3
  <2>5. \A s, q \in allowed'[c] : s.nth = q.nth => s = q
    <3>1. \A r, q \in allowed[c] : r.nth = q.nth => r = q
      BY <1>a DEF StampsInv
    <3>2. QED
      BY <2>2, <3>1
  <2>6. QED
    BY <2>4, <2>5 DEF StampsInv
<1>3. ASSUME BurstNext, NEW c \in Client
      PROVE  StampsInv(c)'
  <2>1. UNCHANGED rateVars
    BY <1>3 DEF BurstNext, TakeTurn, TryKey, Reserve, SizeQueue, MarkQueued, Push, Resend, RedisFails,
                SetResult, ExpireStatus, Dequeue, TurnExpires, KeyTick
  <2>2. QED
    BY <1>s, <2>1 DEF rateVars
<1>4. QED
  BY <1>1, <1>2, <1>3 DEF LimNext, RateNext

LEMMA LimInvAlways == LimSpec => []LimInv
<1>1. LimInit => LimInv
  BY LimInitInv
<1>2. LimInv /\ [LimNext]_limVars => LimInv'
  <2> SUFFICES ASSUME LimInv, [LimNext]_limVars PROVE LimInv'
    OBVIOUS
  <2>1. CASE LimNext
    <3>1. LimTypeOK' /\ TriedInv'
      BY <2>1, LimTypeStep DEF LimInv
    <3>2. QED
      BY <2>1, <3>1, RoomStep, StampsStep DEF LimInv
  <2>2. CASE UNCHANGED limVars
    BY <2>2 DEF limVars, rateVars, burstVars, LimInv, LimTypeOK, TriedInv, KeyRoom, QueueRoom, Reserving, Pushing,
                StampsInv
  <2>3. QED
    BY <2>1, <2>2
<1>3. QED
  BY <1>1, <1>2, PTL DEF LimSpec

(* Counters, queue and requests stay well formed; the key index never      *)
(* leaves the configured keys.                                             *)
THEOREM LimitsTyped == LimSpec => []LimTypeOK
<1>1. LimInv => LimTypeOK
  BY DEF LimInv
<1>2. QED
  BY <1>1, LimInvAlways, PTL

(* Requests that check first and count afterwards pass a key's limit, or   *)
(* the queue's, by fewer than run at once, and by one for every INCR or    *)
(* RPUSH the client applied twice after a timeout.                         *)
THEOREM OvershootIsLimited == LimSpec => []BurstOvershoot
<1>1. LimInv => BurstOvershoot
  <2> SUFFICES ASSUME LimInv PROVE BurstOvershoot
    OBVIOUS
  <2>1. ASSUME NEW k \in Key PROVE spent[k].n <= Rpm + Cardinality(Post) - 1 + resends
    <3>1. /\ KeyRoom(k) /\ spent[k].n \in Nat /\ Reserving(k) \in SUBSET Post
          /\ resends \in Nat
      BY DEF LimInv, LimTypeOK, Counter, Reserving
    <3>2. Cardinality(Reserving(k)) \in Nat /\ Cardinality(Post) \in Nat
      BY <3>1, PostSets
    <3>3. QED
      BY <3>1, <3>2, LimitsAssumption DEF KeyRoom
  <2>2. Len(queue) <= MaxQueue + Cardinality(Post) - 1 + resends
    <3>1. QueueRoom /\ Len(queue) \in Nat /\ Pushing \in SUBSET Post /\ resends \in Nat
      BY DEF LimInv, LimTypeOK, Pushing
    <3>2. Cardinality(Pushing) \in Nat /\ Cardinality(Post) \in Nat
      BY <3>1, PostSets
    <3>3. QED
      BY <3>1, <3>2, LimitsAssumption DEF QueueRoom
  <2>3. QED
    BY <2>1, <2>2 DEF BurstOvershoot, KeyOvershoot, QueueOvershoot
<1>2. QED
  BY <1>1, LimInvAlways, PTL

(* redis.py, check_rate_limit: for any limit and window, at most Limit of  *)
(* an identifier's requests are allowed in any Window ticks, although the  *)
(* counter is an INCR with an expiry: every request renews the expiry.     *)
THEOREM WindowIsCapped == LimSpec => []RateCap
<1>1. LimInv => RateCap
  <2> SUFFICES ASSUME LimInv, NEW c \in Client PROVE Cardinality(allowed[c]) <= Limit
    BY DEF RateCap
  <2> DEFINE number == [s \in allowed[c] |-> s.nth]
  <2>1. /\ \A s \in allowed[c] : s.nth \in 1..Limit
        /\ \A s, q \in allowed[c] : s.nth = q.nth => s = q
    BY DEF LimInv, StampsInv
  <2>2. number \in Injection(allowed[c], 1..Limit)
    BY <2>1 DEF Injection, IsInjective
  <2>3. IsFiniteSet(1..Limit) /\ Cardinality(1..Limit) = Limit
    BY LimitsAssumption, FS_Interval
  <2>4. QED
    BY <2>2, <2>3, FS_Injection
<1>2. QED
  BY <1>1, LimInvAlways, PTL

-----------------------------------------------------------------------------
(* The gate: set_flag is two commands.                                     *)

CheckStages == {"idle", "asking", "answered", "failed", "marking",
                "approved", "rejected", "unavailable"}
CheckRecord == [st : CheckStages, key : 1..ApiKeys, photo : Photos]
ToggleRecord == [st : {"idle", "marking", "done"}, on : BOOLEAN]

(* While no set_flag ran or stopped within another one, at most one is     *)
(* between its commands, and the flag is as that one has set it.           *)
MarkerInv ==
    ~ tangled =>
      /\ \A c, d \in Check : MarkingOff(c) /\ MarkingOff(d) => c = d
      /\ \A t, u \in Toggle : Toggling(t) /\ Toggling(u) => t = u
      /\ \A c \in Check, t \in Toggle : ~ (MarkingOff(c) /\ Toggling(t))
      /\ \A c \in Check : MarkingOff(c) => ~ flag
      /\ \A t \in Toggle : Toggling(t) => (flag <=> toggles[t].on)
      /\ MarkerMeansOff

LEMMA BestIsPhoto == Best \in Photos
<1>1. Best = [f \in DOMAIN Best |-> Best[f]] /\ DOMAIN Best = DOMAIN Answers
  <2>1. Best = [f \in DOMAIN Best |-> Best[f]]
    BY DEF Best
  <2>2. DOMAIN Best = DOMAIN Answers
    BY DEF Best, Answers
  <2> QED BY <2>1, <2>2
<1>2. "is_pouting" \in DOMAIN Answers /\ Best["is_pouting"] \in Answers["is_pouting"]
  BY DEF Answers, Best
<1>3. Best = [Best EXCEPT !["is_pouting"] = Best["is_pouting"]]
  BY <1>1, <1>2
<1>4. Best \in Changed(Best)
  BY <1>1, <1>2, <1>3 DEF Changed
<1> QED BY <1>4 DEF Photos

LEMMA BlankCheck ==
    \A st \in CheckStages : CheckBlank(st) \in CheckRecord /\ CheckBlank(st).st = st
BY BestIsPhoto, GateAssumption DEF CheckBlank, CheckRecord

LEMMA BlankToggle ==
    \A st \in {"idle", "marking", "done"} :
      /\ ToggleBlank(st) \in ToggleRecord /\ ToggleBlank(st).st = st
      /\ \A on \in BOOLEAN : /\ [st |-> st, on |-> on] \in ToggleRecord
BY DEF ToggleBlank, ToggleRecord

(* What an attempt that fails leaves.                                      *)
LEMMA FailureTyped ==
    ASSUME NEW s \in CheckRecord, s.st = "asking"
    PROVE  AfterFailure(s) \in CheckRecord /\ AfterFailure(s).st \in {"asking", "failed"}
<1>1. CASE s.key < ApiKeys
  <2>1. AfterFailure(s) = [s EXCEPT !.key = s.key + 1]
    BY <1>1 DEF AfterFailure
  <2>2. s.key + 1 \in 1..ApiKeys
    BY <1>1, GateAssumption DEF CheckRecord
  <2> QED BY <2>1, <2>2 DEF CheckRecord
<1>2. CASE ~ (s.key < ApiKeys)
  BY <1>2, BlankCheck DEF AfterFailure, CheckStages
<1> QED BY <1>1, <1>2

GateShape ==
    /\ flag \in BOOLEAN /\ autoOff \in BOOLEAN /\ tangled \in BOOLEAN
    /\ checks \in [Check -> CheckRecord]
    /\ toggles \in [Toggle -> ToggleRecord]

LEMMA ShapeIsType == GateShape <=> GateTypeOK
BY DEF GateShape, GateTypeOK, CheckRecord, CheckStages, ToggleRecord

LEMMA GateShapeInductive == GateShape /\ [GateNext]_gateVars => GateShape'
<1> SUFFICES ASSUME GateShape, [GateNext]_gateVars
             PROVE  GateShape'
  OBVIOUS
<1> USE DEF GateShape
<1>u. ASSUME NEW c \in Check, NEW st \in CheckStages,
             checks' = [checks EXCEPT ![c] = CheckBlank(st)]
      PROVE  checks' \in [Check -> CheckRecord]
  BY <1>u, BlankCheck
<1>1. ASSUME NEW c \in Check, Upload(c) \/ Conclude(c) \/ AutoOffMark(c) \/ AutoOffLost(c)
      PROVE  GateShape'
  <2>1. \E st \in CheckStages : checks' = [checks EXCEPT ![c] = CheckBlank(st)]
    BY <1>1 DEF Upload, Conclude, AutoOffMark, AutoOffLost, CheckStages
  <2>2. checks' \in [Check -> CheckRecord]
    BY <1>u, <2>1
  <2> QED BY <1>1, <2>2 DEF Upload, Conclude, AutoOffMark, AutoOffLost
<1>2. ASSUME NEW c \in Check, NEW a \in Photos, Answer(c, a)
      PROVE  GateShape'
  <2>1. [CheckBlank("answered") EXCEPT !.photo = a] \in CheckRecord
    BY GateAssumption DEF CheckBlank, CheckRecord, CheckStages
  <2> QED BY <1>2, <2>1 DEF Answer
<1>3. ASSUME NEW c \in Check, AttemptFails(c)
      PROVE  GateShape'
  <2>1. AfterFailure(checks[c]) \in CheckRecord
    BY <1>3, FailureTyped DEF AttemptFails
  <2> QED BY <1>3, <2>1 DEF AttemptFails
<1>4. ASSUME NEW c \in Check, AutoOffFlag(c)
      PROVE  GateShape'
  <2>1. checks' \in [Check -> CheckRecord]
    BY <1>4, <1>u DEF AutoOffFlag, CheckStages
  <2> QED BY <1>4, <2>1 DEF AutoOffFlag, SomeSetFlag, MarkingOff, Toggling
<1>5. ASSUME NEW t \in Toggle, NEW on \in BOOLEAN, ToggleFlag(t, on)
      PROVE  GateShape'
  BY <1>5, BlankToggle DEF ToggleFlag, SomeSetFlag, MarkingOff, Toggling
<1>6. ASSUME NEW t \in Toggle, ToggleMark(t)
      PROVE  GateShape'
  BY <1>6, BlankToggle DEF ToggleMark, MarkerAfter
<1>7. ASSUME SetFlagCut
      PROVE  GateShape'
  <2>1. ASSUME NEW c \in Check, checks' = [checks EXCEPT ![c] = CheckBlank("unavailable")]
        PROVE  checks' \in [Check -> CheckRecord]
    BY <1>u, <2>1 DEF CheckStages
  <2> QED BY <1>7, <2>1, BlankToggle DEF SetFlagCut
<1>8. CASE UNCHANGED gateVars
  BY <1>8 DEF gateVars
<1> QED BY <1>1, <1>2, <1>3, <1>4, <1>5, <1>6, <1>7, <1>8 DEF GateNext, Advance

LEMMA MarkerInvInductive == GateShape /\ MarkerInv /\ [GateNext]_gateVars => MarkerInv'
<1> SUFFICES ASSUME GateShape, MarkerInv, [GateNext]_gateVars, ~ tangled'
             PROVE  MarkerInv'
  BY DEF MarkerInv
<1>t. /\ checks \in [Check -> CheckRecord] /\ toggles \in [Toggle -> ToggleRecord]
      /\ flag \in BOOLEAN /\ autoOff \in BOOLEAN
  BY DEF GateShape
<1>1. ASSUME NEW c \in Check,
             \/ Upload(c) \/ Conclude(c) \/ AttemptFails(c) \/ AutoOffLost(c)
             \/ \E a \in Photos : Answer(c, a)
      PROVE  MarkerInv'
  <2>1. /\ UNCHANGED <<flag, autoOff, toggles, tangled>>
        /\ \A d \in Check \ {c} : checks'[d] = checks[d]
    BY <1>1, <1>t DEF Upload, Conclude, AttemptFails, AutoOffLost, Answer
  <2>2. checks[c].st # "marking" /\ checks'[c].st # "marking"
    <3>1. CASE Upload(c) \/ Conclude(c) \/ AutoOffLost(c)
      BY <1>t, <3>1, BlankCheck DEF Upload, Conclude, AutoOffLost, CheckStages
    <3>2. CASE AttemptFails(c)
      BY <1>t, <3>2, FailureTyped DEF AttemptFails
    <3>3. CASE \E a \in Photos : Answer(c, a)
      BY <1>t, <3>3 DEF Answer, CheckBlank
    <3> QED BY <1>1, <3>1, <3>2, <3>3
  <2>3. \A d \in Check : MarkingOff(d)' <=> MarkingOff(d)
    BY <2>1, <2>2 DEF MarkingOff
  <2>4. \A t \in Toggle : Toggling(t)' <=> Toggling(t)
    BY <2>1 DEF Toggling
  <2> QED BY <2>1, <2>3, <2>4 DEF MarkerInv, MarkerMeansOff, SomeSetFlag
<1>2. ASSUME NEW c \in Check, AutoOffFlag(c)
      PROVE  MarkerInv'
  <2>1. /\ ~ tangled /\ ~ SomeSetFlag /\ flag' = FALSE /\ toggles' = toggles
        /\ \A d \in Check \ {c} : checks'[d] = checks[d]
    BY <1>2, <1>t DEF AutoOffFlag
  <2>2. checks'[c].st = "marking"
    BY <1>2, <1>t, BlankCheck DEF AutoOffFlag, CheckStages
  <2>3. \A d \in Check : MarkingOff(d)' <=> d = c
    BY <2>1, <2>2 DEF MarkingOff, SomeSetFlag
  <2>4. \A t \in Toggle : ~ Toggling(t)'
    BY <2>1 DEF Toggling, SomeSetFlag
  <2> QED BY <2>1, <2>3, <2>4 DEF MarkerInv, MarkerMeansOff, SomeSetFlag
<1>3. ASSUME NEW c \in Check, AutoOffMark(c)
      PROVE  MarkerInv'
  <2>1. /\ ~ tangled /\ MarkingOff(c) /\ flag' = flag /\ toggles' = toggles
        /\ \A d \in Check \ {c} : checks'[d] = checks[d]
    BY <1>3, <1>t DEF AutoOffMark, MarkingOff
  <2>2. checks'[c].st # "marking"
    BY <1>3, <1>t, BlankCheck DEF AutoOffMark, CheckStages
  <2>3. \A d \in Check : ~ MarkingOff(d)'
    BY <2>1, <2>2 DEF MarkerInv, MarkingOff
  <2>4. \A t \in Toggle : ~ Toggling(t)'
    BY <2>1 DEF MarkerInv, Toggling
  <2>5. ~ flag'
    BY <2>1 DEF MarkerInv
  <2> QED BY <2>3, <2>4, <2>5 DEF MarkerInv, MarkerMeansOff
<1>4. ASSUME NEW t \in Toggle, NEW on \in BOOLEAN, ToggleFlag(t, on)
      PROVE  MarkerInv'
  <2>1. /\ ~ tangled /\ ~ SomeSetFlag /\ flag' = on /\ checks' = checks
        /\ \A u \in Toggle \ {t} : toggles'[u] = toggles[u]
        /\ toggles'[t].st = "marking" /\ toggles'[t].on = on
    BY <1>4, <1>t DEF ToggleFlag
  <2>2. \A u \in Toggle : Toggling(u)' <=> u = t
    BY <2>1 DEF Toggling, SomeSetFlag
  <2>3. \A c \in Check : ~ MarkingOff(c)'
    BY <2>1 DEF MarkingOff, SomeSetFlag
  <2>4. SomeSetFlag'
    BY <2>2 DEF SomeSetFlag
  <2> QED BY <2>1, <2>2, <2>3, <2>4 DEF MarkerInv, MarkerMeansOff
<1>5. ASSUME NEW t \in Toggle, ToggleMark(t)
      PROVE  MarkerInv'
  <2>1. /\ ~ tangled /\ Toggling(t) /\ flag' = flag /\ checks' = checks
        /\ autoOff' = MarkerAfter(toggles[t].on)
        /\ \A u \in Toggle \ {t} : toggles'[u] = toggles[u]
    BY <1>5, <1>t DEF ToggleMark, Toggling
  <2>2. toggles'[t].st # "marking"
    BY <1>5, <1>t, BlankToggle DEF ToggleMark
  <2>3. \A u \in Toggle : ~ Toggling(u)'
    BY <2>1, <2>2 DEF MarkerInv, Toggling
  <2>4. \A c \in Check : ~ MarkingOff(c)'
    BY <2>1 DEF MarkerInv, MarkingOff
  <2>5. autoOff' => ~ flag'
    BY <2>1 DEF MarkerInv, MarkerAfter
  <2> QED BY <2>3, <2>4, <2>5 DEF MarkerInv, MarkerMeansOff
<1>6. CASE SetFlagCut
  BY <1>6 DEF SetFlagCut
<1>7. CASE UNCHANGED gateVars
  BY <1>7 DEF gateVars, MarkerInv, MarkerMeansOff, SomeSetFlag, MarkingOff, Toggling
<1> QED BY <1>1, <1>2, <1>3, <1>4, <1>5, <1>6, <1>7 DEF GateNext, Advance

LEMMA GateInvHolds == GateSpec => [](GateShape /\ MarkerInv)
<1>1. GateInit => GateShape /\ MarkerInv
  <2> SUFFICES ASSUME GateInit PROVE GateShape /\ MarkerInv
    OBVIOUS
  <2>1. GateShape
    BY BlankCheck, BlankToggle DEF GateInit, GateShape, CheckStages
  <2>2. MarkerInv
    BY BlankCheck, BlankToggle
       DEF GateInit, MarkerInv, MarkerMeansOff, MarkingOff, Toggling, CheckStages
  <2> QED BY <2>1, <2>2
<1>2. GateShape /\ MarkerInv /\ [GateNext]_gateVars => (GateShape /\ MarkerInv)'
  BY GateShapeInductive, MarkerInvInductive
<1> QED BY <1>1, <1>2, PTL DEF GateSpec

(* Every check and panel request keeps its type: no check asks with a key  *)
(* beyond the configured ones.                                             *)
THEOREM GateTyped == GateSpec => []GateTypeOK
BY GateInvHolds, ShapeIsType, PTL

(* redis.py, set_flag: the auto-off marker is never set while the gate is  *)
(* on, for any number of failing checks and panel requests, unless two     *)
(* set_flag calls overlapped or one was cut.                               *)
THEOREM MarkerIsTruthful == GateSpec => []MarkerMeansOff
<1>1. MarkerInv => MarkerMeansOff
  BY DEF MarkerInv, MarkerMeansOff
<1> QED BY GateInvHolds, <1>1, PTL

-----------------------------------------------------------------------------
(* The verdict.                                                            *)

(* An analysis: a value of its kind in every field.                        *)
IsFcn(a) == a = [f \in DOMAIN a |-> a[f]]
Analysis(a) ==
    /\ IsFcn(a) /\ DOMAIN a = DOMAIN Answers
    /\ \A f \in DOMAIN Answers : a[f] \in Answers[f]

(* What DecideMatchesPolicy says of one analysis.                          *)
Policy(a) ==
    LET d == Decide(a) IN
    /\ (d = "APPROVED") = Usable(a)
    /\ (~ a.is_appropriate \/ a.has_offensive_content) => d \in ContentLabels
    /\ /\ a.is_appropriate /\ ~ a.has_offensive_content
       /\ a.photo_source \notin {"original", "?"} \/ a.resembles_public_figure
       => d \in SourceLabels
    /\ a.looks_under_18 => d \notin CoachingLabels

LEMMA BestIsAnalysis == Analysis(Best)
<1>1. IsFcn(Best) /\ DOMAIN Best = DOMAIN Answers
  <2>1. IsFcn(Best)
    BY DEF IsFcn, Best
  <2>2. DOMAIN Best = DOMAIN Answers
    BY DEF Answers, Best
  <2> QED BY <2>1, <2>2
<1>2. DOMAIN Answers = {"is_appropriate", "has_offensive_content", "photo_source",
        "resembles_public_figure", "quality_ok", "number_of_people", "face_visible",
        "face_fully_visible", "face_unobstructed", "looks_under_18", "face_position",
        "head_direction", "eyes_open", "is_pouting"}
  BY DEF Answers
<1>3. /\ Best["is_appropriate"] \in Answers["is_appropriate"]
      /\ Best["has_offensive_content"] \in Answers["has_offensive_content"]
      /\ Best["photo_source"] \in Answers["photo_source"]
      /\ Best["resembles_public_figure"] \in Answers["resembles_public_figure"]
      /\ Best["quality_ok"] \in Answers["quality_ok"]
  BY DEF Answers, Best, SourceWords
<1>4. /\ Best["number_of_people"] \in Answers["number_of_people"]
      /\ Best["face_visible"] \in Answers["face_visible"]
      /\ Best["face_fully_visible"] \in Answers["face_fully_visible"]
      /\ Best["face_unobstructed"] \in Answers["face_unobstructed"]
      /\ Best["looks_under_18"] \in Answers["looks_under_18"]
  BY DEF Answers, Best
<1>5. /\ Best["face_position"] \in Answers["face_position"]
      /\ Best["head_direction"] \in Answers["head_direction"]
      /\ Best["eyes_open"] \in Answers["eyes_open"]
      /\ Best["is_pouting"] \in Answers["is_pouting"]
  BY DEF Answers, Best, PositionWords, DirectionWords
<1>6. \A f \in DOMAIN Answers : Best[f] \in Answers[f]
  BY <1>2, <1>3, <1>4, <1>5
<1> QED BY <1>1, <1>6 DEF Analysis

LEMMA ChangedIsAnalysis ==
    ASSUME NEW b, Analysis(b), NEW a \in Changed(b)
    PROVE  Analysis(a)
<1>1. PICK f \in DOMAIN Answers : \E v \in Answers[f] : a = [b EXCEPT ![f] = v]
  <2>1. DOMAIN b = DOMAIN Answers
    BY DEF Analysis
  <2> QED BY <2>1 DEF Changed
<1>2. PICK v \in Answers[f] : a = [b EXCEPT ![f] = v]
  BY <1>1
<1>3. IsFcn(a) /\ DOMAIN a = DOMAIN b
  BY <1>2 DEF Analysis, IsFcn
<1>4. \A g \in DOMAIN b : a[g] = IF g = f THEN v ELSE b[g]
  BY <1>2
<1> QED BY <1>3, <1>4 DEF Analysis

LEMMA PhotosAreAnalyses == \A a \in Photos : Analysis(a)
<1>1. \A a \in Photos : \E b \in Changed(Best) : a \in Changed(b)
  BY DEF Photos
<1> QED BY <1>1, BestIsAnalysis, ChangedIsAnalysis

LEMMA FieldsTyped ==
    ASSUME NEW a, Analysis(a)
    PROVE  /\ a.is_appropriate \in BOOLEAN /\ a.has_offensive_content \in BOOLEAN
           /\ a.photo_source \in SourceWords /\ a.resembles_public_figure \in BOOLEAN
           /\ a.quality_ok \in BOOLEAN /\ a.number_of_people \in 0..2
           /\ a.face_visible \in BOOLEAN /\ a.face_fully_visible \in BOOLEAN
           /\ a.face_unobstructed \in BOOLEAN /\ a.looks_under_18 \in BOOLEAN
           /\ a.face_position \in PositionWords /\ a.head_direction \in DirectionWords
           /\ a.eyes_open \in BOOLEAN /\ a.is_pouting \in BOOLEAN
BY DEF Analysis, Answers

(* The list of findings, entry by entry.                                   *)
Problem(a, i) == Findings(a)[i][1]
Label(a, i) == Findings(a)[i][2]

LEMMA Problems ==
    ASSUME NEW a, Analysis(a)
    PROVE  /\ DOMAIN Findings(a) = 1..14
           /\ Problem(a, 1) <=> ~ a.is_appropriate
           /\ Problem(a, 2) <=> a.has_offensive_content
           /\ Problem(a, 3) <=> a.photo_source \notin {"original", "?"}
           /\ Problem(a, 4) <=> a.resembles_public_figure
           /\ Problem(a, 5) <=> ~ a.quality_ok
           /\ Problem(a, 6) <=> a.number_of_people > 1
           /\ Problem(a, 7) <=> (a.number_of_people < 1 \/ ~ a.face_visible)
           /\ Problem(a, 8) <=> ~ a.face_fully_visible
           /\ Problem(a, 9) <=> ~ a.face_unobstructed
           /\ Problem(a, 10) <=> a.looks_under_18
           /\ Problem(a, 11) <=> a.face_position \notin {"centered", "?"}
           /\ Problem(a, 12) <=> a.head_direction \notin {"camera", "front", "?"}
           /\ Problem(a, 13) <=> ~ a.eyes_open
           /\ Problem(a, 14) <=> a.is_pouting
<1>1. DOMAIN Findings(a) = 1..14
  BY DEF Findings
<1>2. /\ Problem(a, 1) <=> ~ a.is_appropriate
      /\ Problem(a, 2) <=> a.has_offensive_content
      /\ Problem(a, 4) <=> a.resembles_public_figure
      /\ Problem(a, 5) <=> ~ a.quality_ok
  BY DEF Findings, Problem
<1>3. Problem(a, 3) <=> a.photo_source \notin {"original", "?"}
  BY FieldsTyped DEF Findings, Problem, NormalizeSource, SourceWords
<1>4. /\ Problem(a, 6) <=> a.number_of_people > 1
      /\ Problem(a, 7) <=> (a.number_of_people < 1 \/ ~ a.face_visible)
      /\ Problem(a, 8) <=> ~ a.face_fully_visible
      /\ Problem(a, 9) <=> ~ a.face_unobstructed
      /\ Problem(a, 10) <=> a.looks_under_18
  BY DEF Findings, Problem
<1>5. Problem(a, 11) <=> a.face_position \notin {"centered", "?"}
  BY FieldsTyped DEF Findings, Problem, NormalizePosition, PositionWords
<1>6. Problem(a, 12) <=> a.head_direction \notin {"camera", "front", "?"}
  BY FieldsTyped DEF Findings, Problem, NormalizeDirection, DirectionWords
<1>7. /\ Problem(a, 13) <=> ~ a.eyes_open
      /\ Problem(a, 14) <=> a.is_pouting
  BY DEF Findings, Problem
<1> QED BY <1>1, <1>2, <1>3, <1>4, <1>5, <1>6, <1>7

LEMMA Labels ==
    ASSUME NEW a, Analysis(a)
    PROVE  /\ Label(a, 1) = "REJECT_NSFW" /\ Label(a, 2) = "REJECT_OFFENSIVE"
           /\ Problem(a, 3) => Label(a, 3) \in SourceLabels
           /\ Label(a, 4) = "REJECT_CELEBRITY" /\ Label(a, 5) = "REJECT_UNCLEAR"
           /\ Label(a, 6) = "REJECT_TOO_MANY_PEOPLE" /\ Label(a, 7) = "REJECT_NO_FACE"
           /\ Label(a, 8) = "REJECT_FACE_CROPPED" /\ Label(a, 9) = "REJECT_OBSTRUCTED"
           /\ Label(a, 10) = "REJECT_MINOR" /\ Label(a, 11) = "REJECT_FRAMING"
           /\ Label(a, 12) = "REJECT_NOT_FACING_CAMERA" /\ Label(a, 13) = "REJECT_EYES_CLOSED"
           /\ Label(a, 14) = "REJECT_POUT"
<1>1. Problem(a, 3) => Label(a, 3) \in SourceLabels
  <2>1. /\ Problem(a, 3) = (NormalizeSource(a.photo_source) # "original")
        /\ Label(a, 3) = SourceLabel(NormalizeSource(a.photo_source))
    BY DEF Findings, Problem, Label
  <2>2. NormalizeSource(a.photo_source) \in {"original", "screenshot", "screen", "poster_or_print"}
    BY FieldsTyped DEF NormalizeSource, SourceWords
  <2>3. /\ SourceLabel("screenshot") = "REJECT_SCREENSHOT"
        /\ SourceLabel("screen") = "REJECT_SCREEN"
        /\ SourceLabel("poster_or_print") = "REJECT_POSTER"
    BY DEF SourceLabel
  <2> QED BY <2>1, <2>2, <2>3 DEF SourceLabels
<1>2. /\ Label(a, 1) = "REJECT_NSFW" /\ Label(a, 2) = "REJECT_OFFENSIVE"
      /\ Label(a, 4) = "REJECT_CELEBRITY" /\ Label(a, 5) = "REJECT_UNCLEAR"
      /\ Label(a, 6) = "REJECT_TOO_MANY_PEOPLE" /\ Label(a, 7) = "REJECT_NO_FACE"
  BY DEF Findings, Label
<1>3. /\ Label(a, 8) = "REJECT_FACE_CROPPED" /\ Label(a, 9) = "REJECT_OBSTRUCTED"
      /\ Label(a, 10) = "REJECT_MINOR" /\ Label(a, 11) = "REJECT_FRAMING"
      /\ Label(a, 12) = "REJECT_NOT_FACING_CAMERA" /\ Label(a, 13) = "REJECT_EYES_CLOSED"
      /\ Label(a, 14) = "REJECT_POUT"
  BY DEF Findings, Label
<1> QED BY <1>1, <1>2, <1>3

(* The first problem's label is the verdict, and some problem is first.    *)
LEMMA FirstIs ==
    ASSUME NEW S, NEW i \in S, S \subseteq 1..14, \A j \in S : i <= j
    PROVE  First(S) = i
<1>1. \A x \in S : (\A j \in S : x <= j) => x = i
  OBVIOUS
<1>2. First(S) \in S /\ \A j \in S : First(S) <= j
  BY DEF First
<1> QED BY <1>1, <1>2

LEMMA DecideIs ==
    ASSUME NEW a, Analysis(a)
    PROVE  /\ (\A j \in 1..14 : ~ Problem(a, j)) => Decide(a) = "APPROVED"
           /\ \A i \in 1..14 : Problem(a, i) /\ (\A j \in 1..14 : j < i => ~ Problem(a, j))
                => Decide(a) = Label(a, i)
<1> DEFINE S == {i \in 1..14 : Problem(a, i)}
<1>1. Decide(a) = IF S = {} THEN "APPROVED" ELSE Label(a, First(S))
  BY Problems DEF Decide, Problem, Label
<1>2. ASSUME NEW i \in 1..14, Problem(a, i), \A j \in 1..14 : j < i => ~ Problem(a, j)
      PROVE  Decide(a) = Label(a, i)
  <2>1. S \subseteq 1..14 /\ i \in S /\ \A j \in S : i <= j
    BY <1>2
  <2> HIDE DEF S
  <2>2. First(S) = i
    BY <2>1, FirstIs
  <2> QED BY <1>1, <2>1, <2>2
<1>3. (\A j \in 1..14 : ~ Problem(a, j)) => Decide(a) = "APPROVED"
  BY <1>1
<1> QED BY <1>2, <1>3

LEMMA SomeFirst ==
    ASSUME NEW a, NEW k \in 1..14, Problem(a, k)
    PROVE  \E i \in 1..14 : Problem(a, i) /\ \A j \in 1..14 : j < i => ~ Problem(a, j)
<1> DEFINE None(n) == \A j \in 1..14 : j < n => ~ Problem(a, j)
<1>1. None(1)
  OBVIOUS
<1>2. \A n \in 1..14 : None(n) /\ ~ Problem(a, n) => None(n + 1)
  OBVIOUS
<1>3. ~ None(15)
  OBVIOUS
<1>4. \E i \in 1..14 : Problem(a, i) /\ None(i)
  <2> SUFFICES ASSUME \A i \in 1..14 : ~ (Problem(a, i) /\ None(i)) PROVE FALSE
    OBVIOUS
  <2> HIDE DEF None
  <2>1. \A n \in 1..14 : None(n) => None(n + 1)
    BY <1>2
  <2>2. None(5)
    BY <1>1, <2>1
  <2>3. None(10)
    BY <2>1, <2>2
  <2> QED BY <1>3, <2>1, <2>3
<1> QED BY <1>4

(* photo_validation.py, decide: for every analysis, not only those near    *)
(* the best one, the photo is approved exactly when it is usable, and a    *)
(* rejection names content before authenticity, and age before coaching.   *)
THEOREM PolicyHolds ==
    ASSUME NEW a, Analysis(a)
    PROVE  Policy(a)
<1> DEFINE d == Decide(a)
<1> USE FieldsTyped
<1>1. CASE \A j \in 1..14 : ~ Problem(a, j)
  <2>1. d = "APPROVED"
    BY <1>1, DecideIs
  <2>2. /\ ~ Problem(a, 1) /\ ~ Problem(a, 2) /\ ~ Problem(a, 3) /\ ~ Problem(a, 4)
        /\ ~ Problem(a, 5) /\ ~ Problem(a, 6) /\ ~ Problem(a, 7) /\ ~ Problem(a, 8)
        /\ ~ Problem(a, 9) /\ ~ Problem(a, 10) /\ ~ Problem(a, 11) /\ ~ Problem(a, 12)
        /\ ~ Problem(a, 13) /\ ~ Problem(a, 14)
    BY <1>1
  <2>3. /\ Usable(a) /\ a.is_appropriate /\ ~ a.has_offensive_content /\ ~ a.looks_under_18
        /\ a.photo_source \in {"original", "?"} /\ ~ a.resembles_public_figure
    BY <2>2, Problems DEF Usable
  <2> QED BY <2>1, <2>3 DEF Policy
<1>2. ASSUME NEW k \in 1..14, Problem(a, k)
      PROVE  Policy(a)
  <2>1. PICK i \in 1..14 : Problem(a, i) /\ \A j \in 1..14 : j < i => ~ Problem(a, j)
    BY <1>2, SomeFirst
  <2>2. d = Label(a, i)
    BY <2>1, DecideIs
  <2>3. ~ Usable(a)
    <3>1. i \in {1, 2, 3, 4, 5, 6, 7, 8, 9, 10, 11, 12, 13, 14}
      OBVIOUS
    <3> QED BY <2>1, <3>1, Problems DEF Usable
  <2>4. CASE i \in {1, 2}
    <3>1. d \in ContentLabels
      BY <2>2, <2>4, Labels DEF ContentLabels
    <3>2. ~ a.is_appropriate \/ a.has_offensive_content
      BY <2>1, <2>4, Problems
    <3>3. d # "APPROVED" /\ d \notin CoachingLabels
      BY <3>1 DEF ContentLabels, CoachingLabels
    <3>4. (d = "APPROVED") = Usable(a)
      BY <2>3, <3>3 DEF Usable
    <3> QED BY <3>1, <3>2, <3>3, <3>4 DEF Policy
  <2>5. CASE i \in {3, 4}
    <3>1. d \in SourceLabels
      BY <2>1, <2>2, <2>5, Labels DEF SourceLabels
    <3>2. a.is_appropriate /\ ~ a.has_offensive_content
      BY <2>1, <2>5, Problems
    <3>3. d # "APPROVED" /\ d \notin CoachingLabels
      BY <3>1 DEF SourceLabels, CoachingLabels
    <3>4. (d = "APPROVED") = Usable(a)
      BY <2>3, <3>3 DEF Usable
    <3> QED BY <3>1, <3>2, <3>3, <3>4 DEF Policy
  <2>6. CASE i \in 5..14
    <3>1. ~ Problem(a, 1) /\ ~ Problem(a, 2) /\ ~ Problem(a, 3) /\ ~ Problem(a, 4)
      BY <2>1, <2>6
    <3>2. /\ a.is_appropriate /\ ~ a.has_offensive_content
          /\ a.photo_source \in {"original", "?"} /\ ~ a.resembles_public_figure
      BY <3>1, Problems
    <3>3. d # "APPROVED"
      <4>1. i \in {5, 6, 7, 8, 9, 10, 11, 12, 13, 14}
        BY <2>6
      <4> QED BY <2>2, <4>1, Labels
    <3>4. a.looks_under_18 => d \notin CoachingLabels
      <4>1. a.looks_under_18 => i \in {5, 6, 7, 8, 9, 10}
        <5>1. a.looks_under_18 => ~ (10 < i)
          BY <2>1, Problems
        <5> QED BY <2>6, <5>1
      <4>2. i \in {5, 6, 7, 8, 9, 10} => d \notin CoachingLabels
        BY <2>2, Labels DEF CoachingLabels
      <4> QED BY <4>1, <4>2
    <3>5. (d = "APPROVED") = Usable(a)
      BY <2>3, <3>3 DEF Usable
    <3> QED BY <3>2, <3>3, <3>4, <3>5 DEF Policy
  <2> QED BY <2>4, <2>5, <2>6
<1> QED BY <1>1, <1>2

(* Every verdict a check returns follows the policy.                       *)
THEOREM VerdictsFollowPolicy == GateSpec => []DecideMatchesPolicy
<1>1. GateShape => DecideMatchesPolicy
  <2> SUFFICES ASSUME GateShape, NEW c \in Check PROVE Policy(checks[c].photo)
    BY DEF DecideMatchesPolicy, Policy
  <2>1. checks[c].photo \in Photos
    BY DEF GateShape, CheckRecord
  <2>2. Analysis(checks[c].photo)
    BY <2>1, PhotosAreAnalyses
  <2> QED BY <2>2, PolicyHolds
<1> QED BY GateInvHolds, <1>1, PTL

-----------------------------------------------------------------------------
(* The limits and the gate as one system.                                  *)

(* What the run explores of each component is a behaviour of that          *)
(* component's own specification, its fairness included, so that the       *)
(* theorems about the components hold of the run's system.                 *)
THEOREM PhotoImplementsComponents == PhotoSpec => LimSpec /\ GateSpec
<1>1. PhotoInit => LimInit /\ GateInit
  BY DEF PhotoInit, LimInit
<1>2. [PhotoNext]_<<limVars, gateVars>> => [LimNext]_limVars /\ [GateNext]_gateVars
  BY DEF PhotoNext, LimNext
<1>3. QED
  BY <1>1, <1>2, PTL DEF PhotoSpec, LimSpec, GateSpec

(* The limits and the gate both stay well formed.                          *)
THEOREM PhotoTyped == PhotoSpec => []PhotoTypeOK
<1>1. LimTypeOK /\ GateTypeOK => PhotoTypeOK
  BY DEF PhotoTypeOK
<1>2. QED
  BY <1>1, PhotoImplementsComponents, LimitsTyped, GateTyped, PTL
=============================================================================
