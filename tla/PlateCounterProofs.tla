-------------------------- MODULE PlateCounterProofs --------------------------
(***************************************************************************)
(* Theorems about PlateCounter, for any finite set of requests.            *)
(***************************************************************************)
EXTENDS PlateCounter, FiniteSetTheorems, TLAPS

IInv == TypeOK /\ CounterInv

\* Where a request stands after a step of its own.
LEMMA GotoTyped ==
  ASSUME TypeOK, NEW r \in Reqs,
         NEW pc \in {"idle", "committed", "warm", "cold", "counted"}, NEW n \in Nat,
         sess' = [sess EXCEPT ![r] = [pc |-> pc, total |-> n]]
  PROVE  /\ sess' \in [Reqs -> [pc : {"idle", "committed", "warm", "cold", "counted"}, total : Nat]]
         /\ sess'[r].pc = pc /\ sess'[r].total = n
         /\ \A q \in Reqs \ {r} : sess'[q] = sess[q]
BY DEF TypeOK

\* The bumping requests after such a step.
LEMMA BumpingAfter ==
  ASSUME TypeOK, NEW r \in Reqs,
         NEW pc \in {"idle", "committed", "warm", "cold", "counted"}, NEW n \in Nat,
         sess' = [sess EXCEPT ![r] = [pc |-> pc, total |-> n]]
  PROVE  Bumping' = IF pc \in {"committed", "warm"} THEN Bumping \union {r} ELSE Bumping \ {r}
<1>1. sess'[r].pc = pc /\ \A q \in Reqs \ {r} : sess'[q] = sess[q]
  BY GotoTyped
<1>2. CASE pc \in {"committed", "warm"}
  BY <1>1, <1>2 DEF Bumping, At
<1>3. CASE pc \notin {"committed", "warm"}
  BY <1>1, <1>3 DEF Bumping, At
<1> QED BY <1>2, <1>3

\* How many there are, and how the number changes.
LEMMA BumpingCount ==
  ASSUME NEW r \in Reqs
  PROVE  /\ IsFiniteSet(Bumping) /\ Cardinality(Bumping) \in Nat
         /\ Cardinality(Reqs) \in Nat /\ Cardinality(Reqs) > 0
         /\ Cardinality(Bumping) <= Cardinality(Reqs)
         /\ r \notin Bumping => Cardinality(Bumping) <= Cardinality(Reqs) - 1
         /\ r \in Bumping => Cardinality(Bumping \ {r}) = Cardinality(Bumping) - 1
         /\ r \notin Bumping => Cardinality(Bumping \union {r}) = Cardinality(Bumping) + 1
         /\ Cardinality(Bumping) > 0 => Bumping # {}
<1>1. IsFiniteSet(Reqs) /\ Reqs # {} /\ Bumping \subseteq Reqs
  BY CounterAssumption DEF Bumping
<1>2. IsFiniteSet(Bumping) /\ Cardinality(Bumping) <= Cardinality(Reqs)
  BY <1>1, FS_Subset
<1>3. Cardinality(Reqs) \in Nat /\ Cardinality(Bumping) \in Nat
  BY <1>1, <1>2, FS_CardinalityType
<1>4. Cardinality(Reqs) > 0 /\ (Cardinality(Bumping) > 0 => Bumping # {})
  BY <1>1, <1>2, <1>3, FS_EmptySet
<1>5. ASSUME r \notin Bumping
      PROVE  Cardinality(Bumping) <= Cardinality(Reqs) - 1
  <2>1. Bumping \subseteq Reqs \ {r} /\ IsFiniteSet(Reqs \ {r})
    BY <1>1, <1>5, FS_RemoveElement
  <2>2. Cardinality(Reqs \ {r}) = Cardinality(Reqs) - 1
    BY <1>1, FS_RemoveElement
  <2> QED BY <2>1, <2>2, FS_Subset
<1>6. r \in Bumping => Cardinality(Bumping \ {r}) = Cardinality(Bumping) - 1
  BY <1>2, FS_RemoveElement
<1>7. r \notin Bumping => Cardinality(Bumping \union {r}) = Cardinality(Bumping) + 1
  BY <1>2, FS_AddElement
<1> QED BY <1>1, <1>2, <1>3, <1>4, <1>5, <1>6, <1>7

LEMMA TypeStep == TypeOK /\ [Next]_vars => TypeOK'
<1> SUFFICES ASSUME TypeOK, [Next]_vars PROVE TypeOK'
  OBVIOUS
<1>1. ASSUME NEW r \in Reqs, CommitPlate(r) \/ BumpExists(r) \/ BumpFails(r) \/ ReadCold(r)
                               \/ Count(r) \/ Abandon(r)
      PROVE  TypeOK'
  <2>1. rows' \in Nat /\ cached' \in Nat /\ repeats' \in Nat /\ key' = key
    BY <1>1 DEF TypeOK, CommitPlate, BumpExists, BumpFails, ReadCold, Count, Abandon
  <2>2. \E pc \in {"idle", "committed", "warm", "cold", "counted"}, n \in Nat :
          sess' = [sess EXCEPT ![r] = [pc |-> pc, total |-> n]]
    BY <1>1 DEF TypeOK, CommitPlate, BumpExists, BumpFails, ReadCold, Count, DbTotal, Abandon, Goto
  <2> QED BY <2>1, <2>2, GotoTyped DEF TypeOK
<1>2. ASSUME NEW r \in Reqs, BumpIncr(r)
      PROVE  TypeOK'
  <2>1. \E pc \in {"idle", "cold"} : sess' = [sess EXCEPT ![r] = [pc |-> pc, total |-> 0]]
    BY <1>2 DEF BumpIncr, Goto
  <2> QED BY <1>2, <2>1, GotoTyped DEF TypeOK, BumpIncr
<1>3. ASSUME NEW r \in Reqs, Seed(r)
      PROVE  TypeOK'
  BY <1>3, GotoTyped DEF TypeOK, Seed, Goto
<1>4. ASSUME KeyExpires \/ KeyLost \/ UNCHANGED vars
      PROVE  TypeOK'
  BY <1>4 DEF TypeOK, KeyExpires, KeyLost, vars
<1> QED BY <1>1, <1>2, <1>3, <1>4 DEF Next, Go

LEMMA CounterStep == TypeOK /\ CounterInv /\ [Next]_vars => CounterInv'
<1> SUFFICES ASSUME TypeOK, CounterInv, [Next]_vars PROVE CounterInv'
  OBVIOUS
<1> DEFINE B == Cardinality(Bumping)
           C == Cardinality(Reqs)
<1>c. \A q \in Reqs : sess[q].total \in Nat /\ sess[q].total <= rows
  BY DEF TypeOK, CounterInv
<1>i. /\ key = "missing" => cached = 0
      /\ cached + B <= rows + repeats + C - 1
      /\ B > 0 => rows > 0
      /\ rows \in Nat /\ cached \in Nat /\ repeats \in Nat
  BY CounterAssumption, BumpingCount DEF CounterInv, TypeOK
\* A plate is committed: one more row, one more request about to bump.
<1>1. ASSUME NEW r \in Reqs, CommitPlate(r)
      PROVE  CounterInv'
  <2>1. r \notin Bumping
    BY <1>1 DEF CommitPlate, Bumping, At
  <2>2. Bumping' = Bumping \union {r} /\ sess'[r].total = 0
          /\ \A q \in Reqs \ {r} : sess'[q] = sess[q]
    BY <1>1, BumpingAfter, GotoTyped DEF CommitPlate, Goto
  <2>3. Cardinality(Bumping') = B + 1 /\ B \in Nat /\ C \in Nat
    BY <2>1, <2>2, BumpingCount
  <2>4. \A q \in Reqs : sess'[q].total <= rows'
    BY <1>1, <1>c, <1>i, <2>2 DEF CommitPlate
  <2>5. cached' + Cardinality(Bumping') <= rows' + repeats' + C - 1 /\ rows' > 0
    BY <1>1, <1>i, <2>3 DEF CommitPlate
  <2> QED BY <1>1, <1>i, <2>4, <2>5 DEF CommitPlate, CounterInv
\* Steps that leave the counter alone and add nobody who is about to bump.
<1>2. ASSUME NEW r \in Reqs, BumpExists(r) \/ BumpFails(r) \/ ReadCold(r) \/ Abandon(r) \/ Count(r)
      PROVE  CounterInv'
  <2>1. PICK pc \in {"idle", "warm", "cold", "counted"}, n \in Nat :
          /\ sess' = [sess EXCEPT ![r] = [pc |-> pc, total |-> n]]
          /\ n <= rows
          /\ pc = "warm" => r \in Bumping
    BY <1>2, <1>i DEF BumpExists, BumpFails, ReadCold, Abandon, Count, DbTotal, Goto, At, Bumping, TypeOK
  <2>2. /\ Bumping' = IF pc = "warm" THEN Bumping \union {r} ELSE Bumping \ {r}
        /\ sess'[r].total = n
        /\ \A q \in Reqs \ {r} : sess'[q] = sess[q]
    BY <2>1, BumpingAfter, GotoTyped
  <2>3. Bumping' \subseteq Bumping
    BY <2>1, <2>2
  <2>4. Cardinality(Bumping') <= B /\ Cardinality(Bumping') \in Nat /\ B \in Nat /\ C \in Nat
    BY <2>3, BumpingCount, FS_Subset, FS_CardinalityType
  <2>5. UNCHANGED <<rows, key, cached, repeats>>
    BY <1>2 DEF BumpExists, BumpFails, ReadCold, Abandon, Count
  <2>6. \A q \in Reqs : sess'[q].total <= rows'
    BY <1>c, <2>1, <2>2, <2>5
  <2>7. cached' + Cardinality(Bumping') <= rows' + repeats' + C - 1
    BY <1>i, <2>4, <2>5
  <2> QED BY <1>i, <2>3, <2>5, <2>6, <2>7 DEF CounterInv
\* The bump itself, once or twice, into the key that is there or into a new one.
<1>3. ASSUME NEW r \in Reqs, BumpIncr(r)
      PROVE  CounterInv'
  <2>1. r \in Bumping
    BY <1>3 DEF BumpIncr, Bumping
  <2>2. Bumping' = Bumping \ {r} /\ \A q \in Reqs : sess'[q].total <= rows
    <3>1. PICK pc \in {"idle", "cold"} : sess' = [sess EXCEPT ![r] = [pc |-> pc, total |-> 0]]
      BY <1>3 DEF BumpIncr, Goto
    <3>2. Bumping' = Bumping \ {r}
      BY <3>1, BumpingAfter
    <3>3. sess'[r].total = 0 /\ \A q \in Reqs \ {r} : sess'[q] = sess[q]
      BY <3>1, GotoTyped
    <3> QED BY <1>c, <1>i, <3>2, <3>3
  <2>3. Cardinality(Bumping') = B - 1 /\ B \in Nat /\ C \in Nat
    BY <2>1, <2>2, BumpingCount
  <2>4. PICK n \in {1, 2} : repeats' = repeats + n - 1 /\ cached' = cached + n
    BY <1>3 DEF BumpIncr
  <2>5. cached' + Cardinality(Bumping') <= rows' + repeats' + C - 1
    BY <1>3, <1>i, <2>3, <2>4 DEF BumpIncr
  <2>6. key' # "missing" /\ rows' = rows
    BY <1>3 DEF BumpIncr
  <2> QED BY <2>1, <2>2, <2>5, <2>6 DEF CounterInv
\* A seed overwrites the value with a count that lacks nobody who still bumps.
<1>4. ASSUME NEW r \in Reqs, Seed(r)
      PROVE  CounterInv'
  <2>1. r \notin Bumping
    BY <1>4 DEF Seed, Bumping, At
  <2>2. Bumping' = Bumping /\ \A q \in Reqs : sess'[q].total <= rows
    <3>1. Bumping' = Bumping \ {r}
      BY <1>4, BumpingAfter DEF Seed, Goto
    <3>2. sess'[r].total = 0 /\ \A q \in Reqs \ {r} : sess'[q] = sess[q]
      BY <1>4, GotoTyped DEF Seed, Goto
    <3> QED BY <1>c, <1>i, <2>1, <3>1, <3>2
  <2>3. B <= C - 1 /\ B \in Nat /\ C \in Nat
    BY <2>1, BumpingCount
  <2>4. cached' <= rows /\ cached' \in Nat
    BY <1>4, <1>c DEF Seed
  <2>5. cached' + Cardinality(Bumping') <= rows' + repeats' + C - 1
    BY <1>4, <1>i, <2>2, <2>3, <2>4 DEF Seed
  <2> QED BY <1>4, <1>i, <2>2, <2>5 DEF Seed, CounterInv
\* Losing the key leaves the bumps that may still make a new one.
<1>5. ASSUME KeyExpires \/ KeyLost
      PROVE  CounterInv'
  <2>1. cached' = 0 /\ UNCHANGED <<rows, repeats, sess>>
    BY <1>5 DEF KeyExpires, KeyLost
  <2>2. Bumping' = Bumping
    BY <2>1 DEF Bumping, At
  <2>3. B \in Nat /\ C \in Nat /\ B <= C /\ C > 0
    BY CounterAssumption, BumpingCount
  <2>4. cached' + Cardinality(Bumping') <= rows' + repeats' + C - 1
    BY <1>i, <2>1, <2>2, <2>3
  <2> QED BY <1>c, <1>i, <2>1, <2>2, <2>4 DEF CounterInv
<1>6. ASSUME UNCHANGED vars
      PROVE  CounterInv'
  BY <1>6 DEF vars, CounterInv, Bumping, At
<1> QED BY <1>1, <1>2, <1>3, <1>4, <1>5, <1>6 DEF Next, Go

LEMMA CounterInitially == Init => IInv
<1> SUFFICES ASSUME Init PROVE IInv
  OBVIOUS
<1>1. TypeOK
  BY DEF Init, TypeOK, Idle
<1>2. Bumping = {}
  BY DEF Init, Idle, Bumping, At
<1>3. Cardinality(Bumping) = 0 /\ Cardinality(Reqs) \in Nat /\ Cardinality(Reqs) > 0
  BY <1>2, CounterAssumption, BumpingCount, FS_EmptySet
<1> QED BY <1>1, <1>2, <1>3 DEF Init, Idle, IInv, CounterInv

\* Every total counted, cached or kept by a request is a natural number, and
\* the key is missing, expiring or lasting.
THEOREM CounterTyped == Spec => []TypeOK
<1>1. IInv /\ [Next]_vars => IInv'
  BY TypeStep, CounterStep DEF IInv
<1>2. IInv => TypeOK
  BY DEF IInv
<1> QED BY <1>1, <1>2, CounterInitially, PTL DEF Spec

\* However taps, entries, reads, expiries, failovers and retries interleave, the
\* public counter runs ahead of the rows by less than the number of requests in
\* progress, and by the repeated INCRBYs.
THEOREM OvershootIsBounded == Spec => []OvershootBounded
<1>1. IInv /\ [Next]_vars => IInv'
  BY TypeStep, CounterStep DEF IInv
<1>2. ASSUME IInv
      PROVE  OvershootBounded
  <2>1. Cardinality(Bumping) \in Nat /\ Cardinality(Reqs) \in Nat
    BY CounterAssumption, BumpingCount
  <2> QED BY <1>2, <2>1 DEF IInv, TypeOK, CounterInv, OvershootBounded
<1> QED BY <1>1, <1>2, CounterInitially, PTL DEF Spec

\* However the key expires, is lost or is seeded, the cached total and the INCRBYs
\* still to come stay within the rows, the repeats and the other requests, and no
\* request holds a total above the rows.
THEOREM CounterIsAccountedFor == Spec => []CounterInv
<1>1. IInv /\ [Next]_vars => IInv'
  BY TypeStep, CounterStep DEF IInv
<1>2. IInv => CounterInv
  BY DEF IInv
<1> QED BY <1>1, <1>2, CounterInitially, PTL DEF Spec
=============================================================================
