------------------------ MODULE SettingsCacheProofs ------------------------
(***************************************************************************)
(* Proofs about SettingsCache, for any settings, values, workers, calls    *)
(* and CACHE_TTL.                                                          *)
(***************************************************************************)
EXTENDS SettingsCache, TLAPS

SetStages == {"idle", "filled", "loaded", "committed", "readback", "storing", "done"}

(* What a call holds at each stage.                                        *)
CallInv ==
    \A c \in Call :
      /\ calls[c].st \notin {"idle", "done"} => calls[c].p \in Proc
      /\ calls[c].st = "filled" => ~ calls[c].update
      /\ calls[c].st \in {"committed", "readback"} => calls[c].update

(* While no two updates overlapped, an update that loaded the row before   *)
(* nothing changed still holds what the row holds.                         *)
PatchInv ==
    "patch" \notin crossed =>
      /\ stored = wanted
      /\ \A c \in Call : calls[c].st = "loaded" /\ ~ calls[c].dirty => calls[c].data = stored

(* An outdated reading, wherever it is on its way into a cache, is no      *)
(* younger than the row's last change.                                     *)
Bounded(c) ==
    /\ calls[c].st = "filled" /\ calls[c].data # stored => storedAge <= calls[c].age
    /\ calls[c].st = "readback" /\ calls[c].data # stored => storedAge = 0
    /\ calls[c].st = "storing" /\ held[calls[c].p].data # stored
         => storedAge <= Stamp(calls[c])

OneStore ==
    \A c, d \in Call :
      calls[c].st = "storing" /\ calls[d].st = "storing" /\ calls[c].p = calls[d].p => c = d

HeldBounded(p) ==
    ~ StoringAt(p) /\ held[p].age < CACHE_TTL /\ held[p].data # stored
      => storedAge <= held[p].age

StoreInv ==
    "store" \notin crossed =>
      /\ OneStore
      /\ \A c \in Call : Bounded(c)
      /\ \A p \in Proc : HeldBounded(p)

(* The inductive invariant of the settings.                                *)
SetInv == SetTypeOK /\ CallInv /\ PatchInv /\ StoreInv

-----------------------------------------------------------------------------
LEMMA BlankCall ==
    /\ Defaults \in SettingsData /\ NoPatch \in Patch
    /\ \A st \in SetStages :
         /\ SetBlank(st) \in CallRecord
         /\ SetBlank(st).st = st /\ SetBlank(st).age = 0 /\ SetBlank(st).update = FALSE
<1>1. Defaults \in SettingsData /\ NoPatch \in Patch
  BY SettingsAssumption DEF Defaults, SettingsData, NoPatch, Patch
<1>2. 0 \in CacheAge
  BY SettingsAssumption DEF CacheAge
<1>3. QED
  BY <1>1, <1>2 DEF SetBlank, CallRecord, SetStages

LEMMA WithType ==
    ASSUME NEW data \in SettingsData, NEW patch \in Patch
    PROVE  With(data, patch) \in SettingsData
BY DEF With, SettingsData, Patch

LEMMA AgedFacts ==
    ASSUME NEW m \in CacheAge
    PROVE  /\ Aged(m) \in CacheAge /\ m <= Aged(m)
           /\ Aged(m) < CACHE_TTL => Aged(m) = m + 1
           /\ \A n \in CacheAge : m <= n => Aged(m) <= Aged(n)
BY SettingsAssumption DEF Aged, CacheAge

LEMMA StampType ==
    ASSUME NEW s \in CallRecord
    PROVE  Stamp(s) \in CacheAge /\ 0 \in CacheAge
BY SettingsAssumption DEF Stamp, CallRecord, CacheAge

LEMMA SetInitInv == SetInit => SetInv
<1> SUFFICES ASSUME SetInit PROVE SetInv
  OBVIOUS
<1>1. SetBlank("idle") \in CallRecord /\ SetBlank("idle").st = "idle"
  BY BlankCall DEF SetStages
<1>2. Defaults \in SettingsData /\ CACHE_TTL \in CacheAge
  BY BlankCall, SettingsAssumption DEF CacheAge
<1>3. SetTypeOK
  BY <1>1, <1>2 DEF SetInit, SetTypeOK
<1>4. CallInv /\ PatchInv
  BY <1>1 DEF SetInit, CallInv, PatchInv
<1>5. StoreInv
  BY <1>1 DEF SetInit, StoreInv, OneStore, Bounded, HeldBounded
<1>6. QED
  BY <1>3, <1>4, <1>5 DEF SetInv

-----------------------------------------------------------------------------
(* Every step keeps the types and what a call holds.                       *)
LEMMA SetTypeStep ==
    ASSUME SetTypeOK, CallInv, SetNext
    PROVE  SetTypeOK' /\ CallInv'
<1>a. /\ stored \in SettingsData
      /\ held \in [Proc -> [data : SettingsData, age : CacheAge]]
      /\ storedAge \in CacheAge
      /\ calls \in [Call -> CallRecord]
      /\ wanted \in SettingsData
      /\ crossed \subseteq {"patch", "store"}
  BY DEF SetTypeOK
<1>b. \A st \in SetStages :
        /\ SetBlank(st) \in CallRecord
        /\ SetBlank(st).st = st /\ SetBlank(st).update = FALSE
  BY BlankCall
<1>c. ASSUME NEW c \in Call, NEW s \in CallRecord, calls' = [calls EXCEPT ![c] = s],
             s.st \notin {"idle", "done"} => s.p \in Proc,
             s.st = "filled" => ~ s.update,
             s.st \in {"committed", "readback"} => s.update
      PROVE  calls' \in [Call -> CallRecord] /\ CallInv'
  BY <1>a, <1>c DEF CallInv
<1>1. ASSUME NEW c \in Call, NEW p \in Proc, ReadSettings(c, p)
      PROVE  SetTypeOK' /\ CallInv'
  <2> DEFINE s == [SetBlank("filled") EXCEPT !.p = p, !.data = stored]
  <2>1. SetBlank("filled") \in CallRecord /\ SetBlank("filled").st = "filled"
        /\ SetBlank("filled").update = FALSE
    BY <1>b DEF SetStages
  <2>2. s \in CallRecord /\ s.st = "filled" /\ s.p = p /\ ~ s.update
    BY <1>a, <2>1 DEF CallRecord
  <2>3. calls' = [calls EXCEPT ![c] = s]
    BY <1>1 DEF ReadSettings
  <2> HIDE DEF s
  <2>4. calls' \in [Call -> CallRecord] /\ CallInv'
    BY <1>c, <2>2, <2>3
  <2>5. QED
    BY <1>1, <1>a, <2>4 DEF ReadSettings, SetTypeOK
<1>2. ASSUME NEW c \in Call, NEW p \in Proc, NEW patch \in Patch, LoadRow(c, p, patch)
      PROVE  SetTypeOK' /\ CallInv'
  <2> DEFINE s == [SetBlank("loaded") EXCEPT
                     !.p = p, !.patch = patch, !.data = stored, !.update = TRUE]
  <2>1. SetBlank("loaded") \in CallRecord /\ SetBlank("loaded").st = "loaded"
    BY <1>b DEF SetStages
  <2>2. s \in CallRecord /\ s.st = "loaded" /\ s.p = p
    BY <1>a, <2>1 DEF CallRecord
  <2>3. calls' = [calls EXCEPT ![c] = s]
    BY <1>2 DEF LoadRow
  <2> HIDE DEF s
  <2>4. calls' \in [Call -> CallRecord] /\ CallInv'
    BY <1>c, <2>2, <2>3
  <2>5. QED
    BY <1>2, <1>a, <2>4 DEF LoadRow, SetTypeOK
<1>3. ASSUME NEW c \in Call, CommitRow(c)
      PROVE  SetTypeOK' /\ CallInv'
  <2> DEFINE s == calls[c]
             new == IF Patched(s) = s.data THEN stored ELSE Patched(s)
             done == [SetBlank("committed") EXCEPT !.p = s.p, !.update = TRUE]
  <2>1. s \in CallRecord /\ s.p \in Proc /\ s.data \in SettingsData /\ s.patch \in Patch
    BY <1>3, <1>a DEF CommitRow, CallInv, CallRecord
  <2>2. new \in SettingsData /\ With(wanted, s.patch) \in SettingsData
    BY <1>a, <2>1, WithType DEF Patched
  <2>3. SetBlank("committed") \in CallRecord /\ SetBlank("committed").st = "committed"
    BY <1>b DEF SetStages
  <2>4. done \in CallRecord /\ done.st = "committed" /\ done.p \in Proc /\ done.update
    BY <2>1, <2>3 DEF CallRecord
  <2>5. calls' = [d \in Call |->
             IF d = c THEN done
             ELSE IF calls[d].st = "loaded" /\ new # stored THEN [calls[d] EXCEPT !.dirty = TRUE]
             ELSE calls[d]]
    BY <1>3 DEF CommitRow
  <2>n. stored' = new /\ storedAge' = (IF new = stored THEN storedAge ELSE 0)
        /\ wanted' = With(wanted, s.patch) /\ held' = held
        /\ crossed' \subseteq {"patch", "store"}
    BY <1>3, <1>a DEF CommitRow
  <2> HIDE DEF done, new
  <2>6. ASSUME NEW d \in Call
        PROVE  /\ [calls[d] EXCEPT !.dirty = TRUE] \in CallRecord
               /\ [calls[d] EXCEPT !.dirty = TRUE].st = calls[d].st
               /\ [calls[d] EXCEPT !.dirty = TRUE].p = calls[d].p
               /\ [calls[d] EXCEPT !.dirty = TRUE].update = calls[d].update
    BY <1>a DEF CallRecord
  <2>7. calls' \in [Call -> CallRecord]
    BY <1>a, <2>4, <2>5, <2>6
  <2>8. CallInv'
    BY <1>a, <2>4, <2>5, <2>6 DEF CallInv
  <2>9. storedAge' \in CacheAge
    BY <1>a, <2>n, SettingsAssumption DEF CacheAge
  <2>10. QED
    BY <1>a, <2>2, <2>n, <2>7, <2>8, <2>9 DEF SetTypeOK
<1>4. ASSUME NEW c \in Call, ReadBack(c)
      PROVE  SetTypeOK' /\ CallInv'
  <2> DEFINE s == [[calls[c] EXCEPT !.st = "readback"] EXCEPT !.data = stored]
  <2>1. calls[c] \in CallRecord /\ calls[c].p \in Proc
    BY <1>4, <1>a DEF ReadBack, CallInv
  <2>2. s \in CallRecord /\ s.st = "readback" /\ s.p = calls[c].p /\ s.update = calls[c].update
    BY <1>a, <2>1 DEF CallRecord
  <2>3. calls' = [calls EXCEPT ![c] = s]
    BY <1>4, <1>a DEF ReadBack
  <2> HIDE DEF s
  <2>5. calls' \in [Call -> CallRecord] /\ CallInv'
    BY <1>4, <1>c, <2>1, <2>2, <2>3 DEF ReadBack, CallInv
  <2>6. QED
    BY <1>4, <1>a, <2>5 DEF ReadBack, SetTypeOK
<1>5. ASSUME NEW c \in Call, StoreData(c)
      PROVE  SetTypeOK' /\ CallInv'
  <2> DEFINE s == [[calls[c] EXCEPT !.st = "storing"] EXCEPT !.data = Defaults]
  <2>1. calls[c] \in CallRecord /\ calls[c].p \in Proc /\ calls[c].data \in SettingsData
    BY <1>5, <1>a DEF StoreData, CallInv, CallRecord
  <2>2. s \in CallRecord /\ s.st = "storing" /\ s.p = calls[c].p
    BY <1>a, <2>1, BlankCall DEF CallRecord
  <2>3. calls' = [calls EXCEPT ![c] = s]
    BY <1>5, <1>a DEF StoreData
  <2> HIDE DEF s
  <2>4. calls' \in [Call -> CallRecord] /\ CallInv'
    BY <1>c, <2>1, <2>2, <2>3
  <2>5. held' \in [Proc -> [data : SettingsData, age : CacheAge]]
    BY <1>5, <1>a, <2>1 DEF StoreData
  <2>6. QED
    BY <1>5, <1>a, <2>4, <2>5 DEF StoreData, SetTypeOK
<1>6. ASSUME NEW c \in Call, StoreTime(c)
      PROVE  SetTypeOK' /\ CallInv'
  <2>1. SetBlank("done") \in CallRecord /\ SetBlank("done").st = "done"
    BY <1>b DEF SetStages
  <2>2. calls' \in [Call -> CallRecord] /\ CallInv'
    BY <1>6, <1>c, <2>1 DEF StoreTime
  <2>3. Stamp(calls[c]) \in CacheAge
    BY <1>a, StampType
  <2>4. held' \in [Proc -> [data : SettingsData, age : CacheAge]]
    BY <1>6, <1>a, <2>3 DEF StoreTime
  <2>5. QED
    BY <1>6, <1>a, <2>2, <2>4 DEF StoreTime, SetTypeOK
<1>7. CASE SetTick
  <2>1. storedAge' \in CacheAge
    BY <1>7, <1>a, AgedFacts DEF SetTick
  <2>2. ASSUME NEW p \in Proc
        PROVE  [held[p] EXCEPT !.age = Aged(@)] \in [data : SettingsData, age : CacheAge]
    BY <1>a, AgedFacts
  <2>3. held' \in [Proc -> [data : SettingsData, age : CacheAge]]
    BY <1>7, <2>2 DEF SetTick
  <2>4. ASSUME NEW c \in Call
        PROVE  LET s == [calls[c] EXCEPT !.age = Aged(@)] IN
               /\ s \in CallRecord /\ s.st = calls[c].st /\ s.p = calls[c].p
               /\ s.update = calls[c].update
    <3>1. calls[c] \in CallRecord /\ Aged(calls[c].age) \in CacheAge
      BY <1>a, AgedFacts DEF CallRecord
    <3>2. QED
      BY <3>1 DEF CallRecord
  <2>5. calls' = [c \in Call |-> IF calls[c].st \in {"filled", "storing"}
                                THEN [calls[c] EXCEPT !.age = Aged(@)] ELSE calls[c]]
    BY <1>7 DEF SetTick
  <2>6. calls' \in [Call -> CallRecord]
    BY <1>a, <2>4, <2>5
  <2>7. CallInv'
    BY <2>4, <2>5 DEF CallInv
  <2>8. QED
    BY <1>7, <1>a, <2>1, <2>3, <2>6, <2>7 DEF SetTick, SetTypeOK
<1>8. QED
  BY <1>1, <1>2, <1>3, <1>4, <1>5, <1>6, <1>7 DEF SetNext

(* Every step keeps it: an update that overlapped nothing writes the patch *)
(* over the row as it still is, and marks the others that have loaded.     *)
LEMMA PatchStep ==
    ASSUME SetTypeOK, CallInv, PatchInv, SetNext
    PROVE  PatchInv'
<1>a. /\ stored \in SettingsData
      /\ calls \in [Call -> CallRecord]
  BY DEF SetTypeOK
<1>b. \A st \in SetStages : SetBlank(st) \in CallRecord /\ SetBlank(st).st = st
  BY BlankCall
<1>c. ASSUME stored' = stored, wanted' = wanted,
             "patch" \notin crossed' => "patch" \notin crossed,
             \A d \in Call : \/ calls'[d] = calls[d]
                             \/ calls'[d].st # "loaded"
                             \/ calls'[d].data = stored
      PROVE  PatchInv'
  BY <1>c DEF PatchInv
<1>1. ASSUME NEW c \in Call, NEW p \in Proc, ReadSettings(c, p)
      PROVE  PatchInv'
  <2>1. SetBlank("filled") \in CallRecord /\ SetBlank("filled").st = "filled"
    BY <1>b DEF SetStages
  <2>2. calls'[c].st = "filled" /\ \A d \in Call : d # c => calls'[d] = calls[d]
    BY <1>1, <1>a, <2>1 DEF ReadSettings, CallRecord
  <2>3. QED
    BY <1>1, <1>c, <2>2 DEF ReadSettings
<1>2. ASSUME NEW c \in Call, NEW p \in Proc, NEW patch \in Patch, LoadRow(c, p, patch)
      PROVE  PatchInv'
  <2>1. SetBlank("loaded") \in CallRecord
    BY <1>b DEF SetStages
  <2>2. calls'[c].data = stored /\ \A d \in Call : d # c => calls'[d] = calls[d]
    BY <1>2, <1>a, <2>1 DEF LoadRow, CallRecord
  <2>3. QED
    BY <1>2, <1>c, <2>2 DEF LoadRow
<1>3. ASSUME NEW c \in Call, CommitRow(c)
      PROVE  PatchInv'
  <2> DEFINE s == calls[c]
             new == IF Patched(s) = s.data THEN stored ELSE Patched(s)
             done == [SetBlank("committed") EXCEPT !.p = s.p, !.update = TRUE]
  <2>1. SUFFICES ASSUME "patch" \notin crossed'
                 PROVE  /\ stored' = wanted'
                        /\ \A d \in Call : calls'[d].st = "loaded" /\ ~ calls'[d].dirty
                                              => calls'[d].data = stored'
    BY DEF PatchInv
  <2>2. "patch" \notin crossed /\ ~ s.dirty /\ s.st = "loaded"
    BY <1>3, <2>1 DEF CommitRow
  <2>3. stored = wanted /\ s.data = stored
    BY <2>2 DEF PatchInv
  <2>4. new = With(wanted, s.patch)
    BY <2>3 DEF Patched
  <2>5. stored' = new /\ wanted' = With(wanted, s.patch)
    BY <1>3 DEF CommitRow
  <2>6. calls' = [d \in Call |->
             IF d = c THEN done
             ELSE IF calls[d].st = "loaded" /\ new # stored THEN [calls[d] EXCEPT !.dirty = TRUE]
             ELSE calls[d]]
    BY <1>3 DEF CommitRow
  <2>7. done.st = "committed"
    <3>1. SetBlank("committed") \in CallRecord /\ SetBlank("committed").st = "committed"
      BY <1>b DEF SetStages
    <3>2. QED
      BY <3>1 DEF CallRecord
  <2> HIDE DEF new, done
  <2>8. ASSUME NEW d \in Call, calls'[d].st = "loaded", ~ calls'[d].dirty
        PROVE  calls'[d].data = stored'
    <3>1. d # c
      BY <2>6, <2>7, <2>8
    <3>2. CASE calls[d].st = "loaded" /\ new # stored
      <4>1. calls'[d] = [calls[d] EXCEPT !.dirty = TRUE] /\ calls[d] \in CallRecord
        BY <1>a, <2>6, <3>1, <3>2
      <4>2. calls'[d].dirty
        BY <4>1 DEF CallRecord
      <4>3. QED
        BY <2>8, <4>2
    <3>3. CASE ~ (calls[d].st = "loaded" /\ new # stored)
      <4>1. calls'[d] = calls[d]
        BY <2>6, <3>1, <3>3
      <4>2. QED
        BY <2>2, <2>5, <2>8, <3>3, <4>1 DEF PatchInv
    <3>4. QED
      BY <3>2, <3>3
  <2>9. QED
    BY <2>4, <2>5, <2>8
<1>4. ASSUME NEW c \in Call, ReadBack(c) \/ StoreData(c)
      PROVE  PatchInv'
  <2>1. calls'[c].st # "loaded" /\ \A d \in Call : d # c => calls'[d] = calls[d]
    BY <1>4, <1>a DEF ReadBack, StoreData, CallRecord
  <2>2. stored' = stored /\ wanted' = wanted /\ crossed \subseteq crossed'
    BY <1>4 DEF ReadBack, StoreData
  <2>3. QED
    BY <1>c, <2>1, <2>2
<1>5. ASSUME NEW c \in Call, StoreTime(c)
      PROVE  PatchInv'
  <2>1. SetBlank("done").st = "done"
    BY <1>b DEF SetStages
  <2>2. QED
    BY <1>5, <1>a, <1>c, <2>1 DEF StoreTime
<1>6. CASE SetTick
  <2>1. \A d \in Call : calls'[d] = calls[d] \/ calls'[d].st # "loaded"
    BY <1>6, <1>a DEF SetTick, CallRecord
  <2>2. QED
    BY <1>6, <1>c, <2>1 DEF SetTick
<1>7. QED
  BY <1>1, <1>2, <1>3, <1>4, <1>5, <1>6 DEF SetNext

-----------------------------------------------------------------------------
(* Every step keeps the bound on outdated readings.                        *)
LEMMA StoreStep ==
    ASSUME SetTypeOK, CallInv, StoreInv, SetNext, SetTypeOK'
    PROVE  StoreInv'
<1>a. /\ stored \in SettingsData
      /\ held \in [Proc -> [data : SettingsData, age : CacheAge]]
      /\ storedAge \in CacheAge
      /\ calls \in [Call -> CallRecord]
      /\ crossed \subseteq {"patch", "store"}
  BY DEF SetTypeOK
<1>p. /\ stored' \in SettingsData
      /\ held' \in [Proc -> [data : SettingsData, age : CacheAge]]
      /\ storedAge' \in CacheAge
      /\ calls' \in [Call -> CallRecord]
  BY DEF SetTypeOK
<1>b. \A st \in SetStages :
        SetBlank(st) \in CallRecord /\ SetBlank(st).st = st /\ SetBlank(st).age = 0
  BY BlankCall
<1>k. "store" \notin crossed' => "store" \notin crossed
  <2>1. crossed \subseteq crossed'
    BY DEF SetNext, ReadSettings, LoadRow, CommitRow, ReadBack, StoreData, StoreTime, SetTick
  <2>2. QED
    BY <2>1
<1>g. SUFFICES ASSUME "store" \notin crossed'
               PROVE  /\ OneStore'
                      /\ \A c \in Call : Bounded(c)'
                      /\ \A p \in Proc : HeldBounded(p)'
  BY DEF StoreInv
<1>h. OneStore /\ (\A c \in Call : Bounded(c)) /\ (\A p \in Proc : HeldBounded(p))
  BY <1>g, <1>k DEF StoreInv
<1>c. ASSUME stored' = stored, storedAge' = storedAge, held' = held,
             NEW c \in Call, calls[c].st # "storing", calls'[c].st # "storing",
             \A d \in Call : d # c => calls'[d] = calls[d],
             calls'[c].st \in {"filled", "readback"} => calls'[c].data = stored
      PROVE  /\ OneStore'
             /\ \A d \in Call : Bounded(d)'
             /\ \A p \in Proc : HeldBounded(p)'
  <2>1. OneStore'
    BY <1>c, <1>h DEF OneStore
  <2>2. \A d \in Call : Bounded(d)'
    BY <1>c, <1>h DEF Bounded, Stamp
  <2>3. ASSUME NEW p \in Proc PROVE StoringAt(p)' <=> StoringAt(p)
    BY <1>c DEF StoringAt
  <2>4. \A p \in Proc : HeldBounded(p)'
    BY <1>c, <1>h, <2>3 DEF HeldBounded
  <2>5. QED
    BY <2>1, <2>2, <2>4
<1>1. ASSUME NEW c \in Call, NEW p \in Proc, ReadSettings(c, p)
      PROVE  OneStore' /\ (\A d \in Call : Bounded(d)') /\ (\A q \in Proc : HeldBounded(q)')
  <2>1. SetBlank("filled") \in CallRecord /\ SetBlank("filled").st = "filled"
    BY <1>b DEF SetStages
  <2>2. calls'[c].st = "filled" /\ calls'[c].data = stored
        /\ \A d \in Call : d # c => calls'[d] = calls[d]
    BY <1>1, <1>a, <2>1 DEF ReadSettings, CallRecord
  <2>3. QED
    BY <1>1, <1>c, <2>2 DEF ReadSettings
<1>2. ASSUME NEW c \in Call, NEW p \in Proc, NEW patch \in Patch, LoadRow(c, p, patch)
      PROVE  OneStore' /\ (\A d \in Call : Bounded(d)') /\ (\A q \in Proc : HeldBounded(q)')
  <2>1. SetBlank("loaded") \in CallRecord /\ SetBlank("loaded").st = "loaded"
    BY <1>b DEF SetStages
  <2>2. calls'[c].st = "loaded" /\ \A d \in Call : d # c => calls'[d] = calls[d]
    BY <1>2, <1>a, <2>1 DEF LoadRow, CallRecord
  <2>3. QED
    BY <1>2, <1>c, <2>2 DEF LoadRow
<1>3. ASSUME NEW c \in Call, CommitRow(c)
      PROVE  OneStore' /\ (\A d \in Call : Bounded(d)') /\ (\A q \in Proc : HeldBounded(q)')
  <2>1. SetBlank("committed") \in CallRecord /\ SetBlank("committed").st = "committed"
    BY <1>b DEF SetStages
  <2>2. calls'[c].st = "committed"
    BY <1>3, <1>a, <2>1 DEF CommitRow, CallRecord
  <2>3. ASSUME NEW d \in Call, d # c
        PROVE  /\ calls'[d].st = calls[d].st /\ calls'[d].p = calls[d].p
               /\ calls'[d].data = calls[d].data /\ calls'[d].age = calls[d].age
               /\ calls'[d].update = calls[d].update
    <3>1. calls'[d] = calls[d] \/ calls'[d] = [calls[d] EXCEPT !.dirty = TRUE]
      BY <1>3, <2>3 DEF CommitRow
    <3>2. calls[d] \in CallRecord
      BY <1>a
    <3>3. QED
      BY <3>1, <3>2 DEF CallRecord
  <2>4. /\ held' = held /\ calls[c].st = "loaded"
        /\ \/ stored' = stored /\ storedAge' = storedAge
           \/ storedAge' = 0
    BY <1>3 DEF CommitRow
  <2>5. OneStore'
    BY <1>h, <2>2, <2>3 DEF OneStore
  <2>6. ASSUME NEW d \in Call PROVE Bounded(d)'
    <3>1. CASE d = c
      BY <2>2, <3>1 DEF Bounded
    <3>2. CASE d # c /\ storedAge' = 0
      <4>1. calls'[d].age \in CacheAge /\ Stamp(calls'[d]) \in CacheAge
        BY <1>p, StampType DEF CallRecord
      <4>2. 0 <= calls'[d].age /\ 0 <= Stamp(calls'[d])
        BY <4>1 DEF CacheAge
      <4>3. QED
        BY <3>2, <4>2 DEF Bounded, Stamp
    <3>3. CASE d # c /\ stored' = stored /\ storedAge' = storedAge
      <4>1. Stamp(calls'[d]) = Stamp(calls[d])
        BY <2>3, <3>3 DEF Stamp
      <4>2. Bounded(d)
        BY <1>h
      <4>3. QED
        BY <2>3, <2>4, <3>3, <4>1, <4>2 DEF Bounded, Stamp
    <3>4. QED
      BY <2>4, <3>1, <3>2, <3>3
  <2>7. ASSUME NEW p \in Proc PROVE HeldBounded(p)'
    <3>1. StoringAt(p)' <=> StoringAt(p)
      BY <2>2, <2>3, <2>4 DEF StoringAt
    <3>2. held[p].age \in CacheAge /\ 0 <= held[p].age
      BY <1>a DEF CacheAge
    <3>3. QED
      BY <1>h, <2>4, <3>1, <3>2 DEF HeldBounded
  <2>8. QED
    BY <2>5, <2>6, <2>7
<1>4. ASSUME NEW c \in Call, ReadBack(c)
      PROVE  OneStore' /\ (\A d \in Call : Bounded(d)') /\ (\A q \in Proc : HeldBounded(q)')
  <2>1. calls'[c].st = "readback" /\ calls'[c].data = stored
        /\ \A d \in Call : d # c => calls'[d] = calls[d]
    BY <1>4, <1>a DEF ReadBack, CallRecord
  <2>2. QED
    BY <1>4, <1>c, <2>1 DEF ReadBack
<1>5. ASSUME NEW c \in Call, StoreData(c)
      PROVE  OneStore' /\ (\A d \in Call : Bounded(d)') /\ (\A q \in Proc : HeldBounded(q)')
  <2>1. /\ calls[c] \in CallRecord /\ calls[c].p \in Proc /\ calls[c].st \in {"filled", "readback"}
        /\ calls[c].st = "filled" => ~ calls[c].update
        /\ calls[c].st = "readback" => calls[c].update
    BY <1>5, <1>a DEF StoreData, CallInv
  <2>2. /\ calls'[c].st = "storing" /\ calls'[c].p = calls[c].p /\ calls'[c].age = calls[c].age
        /\ calls'[c].update = calls[c].update
        /\ \A d \in Call : d # c => calls'[d] = calls[d]
    BY <1>5, <1>a, <2>1 DEF StoreData, CallRecord
  <2>3. /\ stored' = stored /\ storedAge' = storedAge
        /\ held'[calls[c].p].data = calls[c].data
        /\ \A q \in Proc : q # calls[c].p => held'[q] = held[q]
    BY <1>5, <1>a, <2>1 DEF StoreData
  <2>4. \A d \in Call : calls[d].st = "storing" => calls[d].p # calls[c].p
    BY <1>5, <1>g DEF StoreData
  <2>5. OneStore'
    BY <1>h, <2>2, <2>4 DEF OneStore
  <2>6. ASSUME NEW d \in Call PROVE Bounded(d)'
    <3>1. CASE d = c
      <4>1. Stamp(calls'[c]) = Stamp(calls[c])
        BY <2>2 DEF Stamp
      <4>2. calls[c].data # stored => storedAge <= Stamp(calls[c])
        BY <1>h, <1>a, <2>1 DEF Bounded, Stamp, CacheAge
      <4>3. QED
        BY <2>2, <2>3, <3>1, <4>1, <4>2 DEF Bounded, Stamp
    <3>2. CASE d # c
      <4>1. calls'[d] = calls[d] /\ Bounded(d)
        BY <1>h, <2>2, <3>2
      <4>2. calls[d].st = "storing" => calls[d].p \in Proc /\ calls[d].p # calls[c].p
        BY <2>4 DEF CallInv
      <4>3. QED
        BY <2>3, <4>1, <4>2 DEF Bounded, Stamp
    <3>3. QED
      BY <3>1, <3>2
  <2>7. ASSUME NEW p \in Proc PROVE HeldBounded(p)'
    <3>1. CASE p = calls[c].p
      BY <2>2, <3>1 DEF HeldBounded, StoringAt
    <3>2. CASE p # calls[c].p
      <4>1. StoringAt(p)' <=> StoringAt(p)
        BY <2>1, <2>2, <3>2 DEF StoringAt
      <4>2. QED
        BY <1>h, <2>3, <3>2, <4>1 DEF HeldBounded
    <3>3. QED
      BY <3>1, <3>2
  <2>8. QED
    BY <2>5, <2>6, <2>7
<1>6. ASSUME NEW c \in Call, StoreTime(c)
      PROVE  OneStore' /\ (\A d \in Call : Bounded(d)') /\ (\A q \in Proc : HeldBounded(q)')
  <2>1. SetBlank("done").st = "done"
    BY <1>b DEF SetStages
  <2>2. calls[c].st = "storing" /\ calls[c].p \in Proc
    BY <1>6 DEF StoreTime, CallInv
  <2>3. calls'[c].st = "done" /\ \A d \in Call : d # c => calls'[d] = calls[d]
    BY <1>6, <1>a, <2>1 DEF StoreTime
  <2>4. /\ stored' = stored /\ storedAge' = storedAge
        /\ held'[calls[c].p].data = held[calls[c].p].data
        /\ held'[calls[c].p].age = Stamp(calls[c])
        /\ \A q \in Proc : q # calls[c].p => held'[q] = held[q]
    BY <1>6, <1>a, <2>2 DEF StoreTime
  <2>5. OneStore'
    BY <1>h, <2>3 DEF OneStore
  <2>6. ASSUME NEW d \in Call PROVE Bounded(d)'
    <3>1. CASE d = c
      BY <2>3, <3>1 DEF Bounded
    <3>2. CASE d # c
      <4>1. calls'[d] = calls[d] /\ Bounded(d)
        BY <1>h, <2>3, <3>2
      <4>2. calls[d].st = "storing" => calls[d].p \in Proc /\ calls[d].p # calls[c].p
        BY <1>h, <2>2, <3>2 DEF CallInv, OneStore
      <4>3. QED
        BY <2>4, <4>1, <4>2 DEF Bounded, Stamp
    <3>3. QED
      BY <3>1, <3>2
  <2>7. ASSUME NEW p \in Proc PROVE HeldBounded(p)'
    <3>1. CASE p = calls[c].p
      BY <1>h, <2>2, <2>4, <3>1 DEF HeldBounded, Bounded, Stamp
    <3>2. CASE p # calls[c].p
      <4>1. StoringAt(p)' <=> StoringAt(p)
        BY <2>2, <2>3, <3>2 DEF StoringAt
      <4>2. QED
        BY <1>h, <2>4, <3>2, <4>1 DEF HeldBounded
    <3>3. QED
      BY <3>1, <3>2
  <2>8. QED
    BY <2>5, <2>6, <2>7
<1>7. ASSUME SetTick
      PROVE  OneStore' /\ (\A d \in Call : Bounded(d)') /\ (\A q \in Proc : HeldBounded(q)')
  <2>1. /\ stored' = stored /\ storedAge' = Aged(storedAge)
        /\ \A d \in Call : calls[d].update => calls[d].st \notin {"readback", "storing"}
    BY <1>7 DEF SetTick
  <2>2. \A p \in Proc : held'[p].data = held[p].data /\ held'[p].age = Aged(held[p].age)
    <3>1. ASSUME NEW p \in Proc
          PROVE  held'[p].data = held[p].data /\ held'[p].age = Aged(held[p].age)
      <4>1. held[p] \in [data : SettingsData, age : CacheAge]
            /\ held'[p] = [held[p] EXCEPT !.age = Aged(@)]
        BY <1>7, <1>a DEF SetTick
      <4>2. QED
        BY <4>1
    <3>2. QED
      BY <3>1
  <2>3. ASSUME NEW d \in Call
        PROVE  /\ calls'[d].st = calls[d].st /\ calls'[d].p = calls[d].p
               /\ calls'[d].data = calls[d].data /\ calls'[d].update = calls[d].update
               /\ calls[d].st \in {"filled", "storing"} => calls'[d].age = Aged(calls[d].age)
    <3>1. calls[d] \in CallRecord
      BY <1>a
    <3>2. calls'[d] = IF calls[d].st \in {"filled", "storing"}
                      THEN [calls[d] EXCEPT !.age = Aged(@)] ELSE calls[d]
      BY <1>7 DEF SetTick
    <3>3. QED
      BY <3>1, <3>2 DEF CallRecord
  <2>4. OneStore'
    BY <1>h, <2>3 DEF OneStore
  <2>5. ASSUME NEW d \in Call PROVE Bounded(d)'
    <3>1. calls[d].age \in CacheAge
      BY <1>a DEF CallRecord
    <3>2. storedAge <= calls[d].age => Aged(storedAge) <= Aged(calls[d].age)
      BY <1>a, <3>1, AgedFacts
    <3>3. calls[d].st # "readback" /\ (calls[d].st = "storing" => calls[d].p \in Proc)
          /\ (calls[d].st = "storing" => ~ calls[d].update)
      BY <2>1 DEF CallInv
    <3>4. Bounded(d)
      BY <1>h
    <3>5. QED
      BY <2>1, <2>2, <2>3, <3>2, <3>3, <3>4 DEF Bounded, Stamp
  <2>6. ASSUME NEW p \in Proc PROVE HeldBounded(p)'
    <3>1. StoringAt(p)' <=> StoringAt(p)
      BY <2>3 DEF StoringAt
    <3>2. held[p].age \in CacheAge /\ CACHE_TTL \in Nat
      BY <1>a, SettingsAssumption
    <3>3. held[p].age <= Aged(held[p].age)
          /\ (storedAge <= held[p].age => Aged(storedAge) <= Aged(held[p].age))
      BY <1>a, <3>2, AgedFacts
    <3>4. Aged(held[p].age) < CACHE_TTL => held[p].age < CACHE_TTL
      BY <3>2 DEF Aged, CacheAge
    <3>5. HeldBounded(p)
      BY <1>h
    <3>6. QED
      BY <2>1, <2>2, <3>1, <3>3, <3>4, <3>5 DEF HeldBounded
  <2>7. QED
    BY <2>4, <2>5, <2>6
<1>8. QED
  BY <1>1, <1>2, <1>3, <1>4, <1>5, <1>6, <1>7 DEF SetNext

-----------------------------------------------------------------------------
LEMMA SetInvAlways == SetSpec => []SetInv
<1>1. SetInit => SetInv
  BY SetInitInv
<1>2. SetInv /\ [SetNext]_setVars => SetInv'
  <2> SUFFICES ASSUME SetInv, [SetNext]_setVars PROVE SetInv'
    OBVIOUS
  <2>1. CASE SetNext
    <3>1. SetTypeOK' /\ CallInv'
      BY <2>1, SetTypeStep DEF SetInv
    <3>2. QED
      BY <2>1, <3>1, PatchStep, StoreStep DEF SetInv
  <2>2. CASE UNCHANGED setVars
    BY <2>2 DEF setVars, SetInv, SetTypeOK, CallInv, PatchInv, StoreInv, OneStore, Bounded,
                HeldBounded, StoringAt, Stamp
  <2>3. QED
    BY <2>1, <2>2
<1>3. QED
  BY <1>1, <1>2, PTL DEF SetSpec

(* Row, caches and calls stay well formed: a patch never leaves a setting  *)
(* without a value.                                                        *)
THEOREM SettingsTyped == SetSpec => []SetTypeOK
<1>1. SetInv => SetTypeOK
  BY DEF SetInv
<1>2. QED
  BY <1>1, SetInvAlways, PTL

(* No edit of another setting is undone unless two updates overlapped.     *)
THEOREM UpdatesAreKept == SetSpec => []NoLostUpdate
<1>1. SetInv => NoLostUpdate
  BY DEF SetInv, PatchInv, NoLostUpdate
<1>2. QED
  BY <1>1, SetInvAlways, PTL

(* Every worker's settings are at most CACHE_TTL behind the row, unless    *)
(* two threads of one worker interleaved their stores.                     *)
THEOREM WorkersConverge == SetSpec => []SettingsConverge
<1>1. SetInv => SettingsConverge
  BY DEF SetInv, StoreInv, HeldBounded, SettingsConverge
<1>2. QED
  BY <1>1, SetInvAlways, PTL
=============================================================================
