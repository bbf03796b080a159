----------------------------- MODULE PlateCounter -----------------------------
(***************************************************************************)
(* The public "1 share = 1 plate" counter: share_events rows in MySQL are  *)
(* the truth, the Redis key share:total a cache over COUNT( * ).  A Share  *)
(* tap and a new entry commit their row and then move the cache outside    *)
(* the transaction, call by call: EXISTS, INCRBY, or COUNT and SETEX.      *)
(* GET /share/count does the last two when the key is cold or `fresh` asks *)
(* for it.  Other requests run between any two of these calls.             *)
(***************************************************************************)
EXTENDS Naturals, FiniteSets

CONSTANTS
  Reqs,        \* requests that may be in progress at the same time
  MaxRows,     \* bound: share_events rows
  MaxRepeats   \* bound: INCRBYs that the client sends again after a timeout

ASSUME CounterAssumption ==
  IsFiniteSet(Reqs) /\ Reqs # {} /\ MaxRows \in Nat /\ MaxRepeats \in Nat

VARIABLES
  rows,     \* share_events rows committed
  key,      \* share:total is "missing", has its "ttl", or stays "forever"
  cached,   \* its value, 0 when missing
  repeats,  \* INCRBYs applied a second time
  sess      \* where each request stands, and the count it has read

vars == <<rows, key, cached, repeats, sess>>

Idle == [pc |-> "idle", total |-> 0]

\* A session has a total once it has counted.
TypeOK ==
  /\ rows \in Nat /\ cached \in Nat /\ repeats \in Nat
  /\ key \in {"missing", "ttl", "forever"}
  /\ sess \in [Reqs -> [pc : {"idle", "committed", "warm", "cold", "counted"}, total : Nat]]

Init ==
  /\ rows = 0 /\ key = "missing" /\ cached = 0 /\ repeats = 0
  /\ sess = [r \in Reqs |-> Idle]

At(r, pc)   == sess[r].pc = pc
Goto(r, pc) == sess' = [sess EXCEPT ![r] = [pc |-> pc, total |-> 0]]

-----------------------------------------------------------------------------
(* ShareCounter *)

\* record_share's commit, or the commit of a new entry with its plate.
CommitPlate(r) ==
  /\ At(r, "idle") /\ rows < MaxRows
  /\ rows' = rows + 1
  /\ Goto(r, "committed")
  /\ UNCHANGED <<key, cached, repeats>>

\* bump: EXISTS.
BumpExists(r) ==
  /\ At(r, "committed")
  /\ Goto(r, IF key = "missing" THEN "cold" ELSE "warm")
  /\ UNCHANGED <<rows, key, cached, repeats>>

\* bump: INCRBY makes the key when it is gone by now.  A client with
\* retry_on_timeout may apply it twice, and may still not get the answer, which
\* `except` turns into a cold key.
BumpIncr(r) ==
  /\ At(r, "warm")
  /\ \E n \in {1, 2} :
       /\ repeats + n - 1 <= MaxRepeats
       /\ repeats' = repeats + n - 1
       /\ cached' = cached + n
  /\ key' = IF key = "missing" THEN "forever" ELSE key
  /\ Goto(r, "idle") \/ Goto(r, "cold")
  /\ UNCHANGED rows

\* An exception before INCRBY reached the server: None, as for a cold key.
BumpFails(r) ==
  /\ At(r, "committed") \/ At(r, "warm")
  /\ Goto(r, "cold")
  /\ UNCHANGED <<rows, key, cached, repeats>>

\* share_count with a cold key or fresh=true; a hit changes nothing.
ReadCold(r) ==
  /\ At(r, "idle")
  /\ Goto(r, "cold")
  /\ UNCHANGED <<rows, key, cached, repeats>>

DbTotalPlusOwn == rows + 1                                          \* mutant
DbTotalBefore  == rows - 1                                          \* mutant
\* SELECT COUNT( * ): the caller's own row is committed and counted.
DbTotal == rows

Count(r) ==
  /\ At(r, "cold")
  /\ sess' = [sess EXCEPT ![r] = [pc |-> "counted", total |-> DbTotal]]
  /\ UNCHANGED <<rows, key, cached, repeats>>

\* seed: SETEX with the TTL.
Seed(r) ==
  /\ At(r, "counted")
  /\ key' = "ttl" /\ cached' = sess[r].total
  /\ Goto(r, "idle")
  /\ UNCHANGED <<rows, repeats>>

\* The process dies, or Redis does not answer the seed.
Abandon(r) ==
  /\ sess[r].pc # "idle"
  /\ Goto(r, "idle")
  /\ UNCHANGED <<rows, key, cached, repeats>>

\* The TTL passes.
KeyExpires ==
  /\ key = "ttl"
  /\ key' = "missing" /\ cached' = 0
  /\ UNCHANGED <<rows, repeats, sess>>

\* Redis restarts, fails over or evicts.
KeyLost ==
  /\ key # "missing"
  /\ key' = "missing" /\ cached' = 0
  /\ UNCHANGED <<rows, repeats, sess>>

Go(r) == BumpExists(r) \/ BumpIncr(r) \/ BumpFails(r) \/ Count(r) \/ Seed(r) \/ Abandon(r)

Next ==
  \/ \E r \in Reqs : CommitPlate(r) \/ ReadCold(r) \/ Go(r)
  \/ KeyExpires \/ KeyLost

Spec == Init /\ [][Next]_vars

\* A request that started finishes or dies, and a TTL runs out.  Nobody has to
\* tap, to read or to restart Redis.
FairSpec == Spec /\ WF_vars(KeyExpires) /\ \A r \in Reqs : WF_vars(Go(r))

-----------------------------------------------------------------------------
(* Properties *)

\* share.py "MySQL is the source of truth": the public number runs ahead of the
\* rows only by the plates whose request had committed, but not bumped, when
\* another one counted them, one request fewer than run at a time, and by what a
\* retried INCRBY added.
OvershootBounded == cached <= rows + repeats + Cardinality(Reqs) - 1

\* ShareCounter "re-seed from MySQL at least this often, so drift can't persist":
\* once no more plates come, a wrong total is not served for good, unless INCRBY
\* made the key.
DriftHeals == <>[](cached = rows \/ key \in {"missing", "forever"})

\* The same without the exception.
DriftNeverPersists == <>[](cached = rows \/ key = "missing")

-----------------------------------------------------------------------------
(* The inductive invariant behind OvershootBounded *)

\* Requests whose plate is committed and whose INCRBY may still come.
Bumping == {r \in Reqs : At(r, "committed") \/ At(r, "warm")}

CounterInv ==
  /\ \A r \in Reqs : sess[r].total <= rows
  /\ Bumping # {} => rows > 0
  /\ key = "missing" => cached = 0
  /\ cached + Cardinality(Bumping) <= rows + repeats + Cardinality(Reqs) - 1
=============================================================================
