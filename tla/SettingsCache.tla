--------------------------- MODULE SettingsCache ---------------------------
(***************************************************************************)
(* The runtime settings (services/settings_service.py): one JSON row, a    *)
(* cache of it in every worker process, partial updates from the panel.    *)
(* The threads of a worker share its cache and store into it with two      *)
(* assignments, the data and then the time.  Ages are in ticks, capped at  *)
(* CACHE_TTL; an update's read-back and its two assignments fall in one    *)
(* tick (a bound on the duration of three statements).                     *)
(***************************************************************************)
EXTENDS Naturals

CONSTANTS
    Setting,    \* keys of the settings row
    Val,        \* values of a setting
    Default,    \* the value in _defaults()
    Unset,      \* a setting a patch leaves out
    Proc,       \* API processes
    NoProc,     \* no process yet
    Call,       \* calls of get_settings and update_settings; each runs once (a bound)
    CACHE_TTL   \* in ticks

ASSUME SettingsAssumption ==
    /\ Default \in Val /\ Unset \notin Val
    /\ NoProc \notin Proc
    /\ CACHE_TTL \in Nat \ {0}

VARIABLES
    stored,     \* app_settings.data of row 1
    held,       \* each process's cache: data and age
    storedAge,  \* ticks since the row last changed
    calls,      \* calls in progress
    wanted,     \* the last committed change of each setting
    crossed     \* what overlapped: "patch" (two updates), "store" (two stores)

setVars == <<stored, held, storedAge, calls, wanted, crossed>>

SettingsData == [Setting -> Val]
Defaults == [k \in Setting |-> Default]
Patch == [Setting -> Val \cup {Unset}]
NoPatch == [k \in Setting |-> Unset]
CacheAge == 0..CACHE_TTL
Aged(n) == IF n < CACHE_TTL THEN n + 1 ELSE n

CallRecord ==
    [st : {"idle", "filled", "loaded", "committed", "readback", "storing", "done"},
     p : Proc \cup {NoProc}, patch : Patch, data : SettingsData, age : CacheAge,
     update : BOOLEAN, dirty : BOOLEAN]

SetBlank(st) ==
    [st |-> st, p |-> NoProc, patch |-> NoPatch, data |-> Defaults, age |-> 0,
     update |-> FALSE, dirty |-> FALSE]

(* ensure_default_settings has seeded the row; no process has read it (an  *)
(* empty cache serves the defaults, as an expired one serves its data).    *)
SetInit ==
    /\ stored = Defaults
    /\ held = [p \in Proc |-> [data |-> Defaults, age |-> CACHE_TTL]]
    /\ storedAge = CACHE_TTL
    /\ wanted = Defaults
    /\ crossed = {}
    /\ calls = [c \in Call |-> SetBlank("idle")]

(* get_settings with an entry too old (no caller passes force): "now" is   *)
(* taken and the row is read.  A failing read serves the cache and changes *)
(* nothing.                                                                *)
ReadSettings(c, p) ==
    /\ calls[c].st = "idle"
    /\ held[p].age = CACHE_TTL
    /\ calls' = [calls EXCEPT ![c] = [SetBlank("filled") EXCEPT !.p = p, !.data = stored]]
    /\ UNCHANGED <<stored, held, storedAge, wanted, crossed>>

(* update_settings: the row is read, patched and written as a whole.  An   *)
(* empty patch is a 400.                                                   *)
LoadRow(c, p, patch) ==
    /\ calls[c].st = "idle"
    /\ patch # NoPatch
    /\ calls' = [calls EXCEPT ![c] = [SetBlank("loaded") EXCEPT
                   !.p = p, !.patch = patch, !.data = stored, !.update = TRUE]]
    /\ UNCHANGED <<stored, held, storedAge, wanted, crossed>>

With(data, patch) ==
    [k \in Setting |-> IF patch[k] = Unset THEN data[k] ELSE patch[k]]

(* A plausible slip: the patch is applied to what the worker has cached.   *)
PatchedFromCache(s) == With(held[s.p].data, s.patch)

Patched(s) == With(s.data, s.patch)

(* An UPDATE is sent only when the patched data differ from the loaded.    *)
CommitRow(c) ==
    LET s == calls[c]
        new == IF Patched(s) = s.data THEN stored ELSE Patched(s)
    IN  /\ s.st = "loaded"
        /\ stored' = new
        /\ storedAge' = IF new = stored THEN storedAge ELSE 0
        /\ wanted' = With(wanted, s.patch)
        /\ calls' = [d \in Call |->
             IF d = c THEN [SetBlank("committed") EXCEPT !.p = s.p, !.update = TRUE]
             ELSE IF calls[d].st = "loaded" /\ new # stored THEN [calls[d] EXCEPT !.dirty = TRUE]
             ELSE calls[d]]
        /\ crossed' = IF s.dirty THEN crossed \cup {"patch"} ELSE crossed
        /\ UNCHANGED held

(* The fresh data come from a new transaction after the commit.            *)
ReadBack(c) ==
    /\ calls[c].st = "committed"
    /\ calls' = [calls EXCEPT ![c].st = "readback", ![c].data = stored]
    /\ UNCHANGED <<stored, held, storedAge, wanted, crossed>>

(* _cache["data"] = ...                                                    *)
StoreData(c) ==
    LET s == calls[c] IN
    /\ s.st \in {"filled", "readback"}
    /\ held' = [held EXCEPT ![s.p].data = s.data]
    /\ calls' = [calls EXCEPT ![c].st = "storing", ![c].data = Defaults]
    /\ crossed' = IF \E d \in Call : calls[d].st = "storing" /\ calls[d].p = s.p
                  THEN crossed \cup {"store"} ELSE crossed
    /\ UNCHANGED <<stored, storedAge, wanted>>

(* A plausible slip: a fill is stamped with the time it is stored.         *)
StampLate(s) == 0

(* A fill is stamped with the time it began, an update with the time now.  *)
Stamp(s) == IF s.update THEN 0 ELSE s.age

(* _cache["ts"] = ...                                                      *)
StoreTime(c) ==
    LET s == calls[c] IN
    /\ s.st = "storing"
    /\ held' = [held EXCEPT ![s.p].age = Stamp(s)]
    /\ calls' = [calls EXCEPT ![c] = SetBlank("done")]
    /\ UNCHANGED <<stored, storedAge, wanted, crossed>>

SetTick ==
    /\ ~ \E c \in Call : calls[c].update /\ calls[c].st \in {"readback", "storing"}
    /\ held' = [p \in Proc |-> [held[p] EXCEPT !.age = Aged(@)]]
    /\ storedAge' = Aged(storedAge)
    /\ calls' = [c \in Call |-> IF calls[c].st \in {"filled", "storing"}
                                THEN [calls[c] EXCEPT !.age = Aged(@)] ELSE calls[c]]
    /\ UNCHANGED <<stored, wanted, crossed>>

SetNext ==
    \/ \E c \in Call :
         \/ \E p \in Proc : ReadSettings(c, p)
         \/ \E p \in Proc, patch \in Patch : LoadRow(c, p, patch)
         \/ CommitRow(c)
         \/ ReadBack(c)
         \/ StoreData(c)
         \/ StoreTime(c)
    \/ SetTick

SetSpec == SetInit /\ [][SetNext]_setVars

-----------------------------------------------------------------------------
(* Type invariant of the settings.                                         *)
SetTypeOK ==
    /\ stored \in SettingsData
    /\ held \in [Proc -> [data : SettingsData, age : CacheAge]]
    /\ storedAge \in CacheAge
    /\ calls \in [Call -> CallRecord]
    /\ wanted \in SettingsData
    /\ crossed \subseteq {"patch", "store"}

StoringAt(p) == \E c \in Call : calls[c].st = "storing" /\ calls[c].p = p

(* "Other workers converge within CACHE_TTL": an entry that disagrees with *)
(* the row is at least as old as the row's last change, so it is replaced  *)
(* less than CACHE_TTL after it, on the worker that made the change as     *)
(* well; except where two threads of one worker interleaved their stores.  *)
SettingsConverge ==
    "store" \notin crossed =>
      \A p \in Proc :
        ~ StoringAt(p) /\ held[p].age < CACHE_TTL /\ held[p].data # stored
          => storedAge <= held[p].age

(* Panel edits of different settings are kept: the row holds the last      *)
(* committed value of each setting unless one update committed between     *)
(* another's read of the row and its write.                                *)
NoLostUpdate == "patch" \notin crossed => stored = wanted
=============================================================================
