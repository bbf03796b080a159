------------------------ MODULE ConfigVersionsProofs ------------------------
(***************************************************************************)
(* Proofs about ConfigVersions, for any number of operations and rows.     *)
(***************************************************************************)
EXTENDS ConfigVersions, TLAPS

(* Operations that write a row they named when they began.                 *)
Naming == PauseKinds \cup {"rollback", "vactivate", "vdelete"}

(* An operation in progress that needs a row names one, and only the       *)
(* handler of pause and resume is past its Redis call.                     *)
TargetsNamed ==
    \A o \in Op :
      /\ ops[o].st \in {"loaded", "flagged"} /\ ops[o].kind \in Naming
           => ops[o].target \in Version
      /\ ops[o].st = "flagged" => ops[o].kind \in PauseKinds

(* Without a late seed one pipeline row is active, and a seed that nothing *)
(* overtook still sees none.                                               *)
ConfInv ==
    "seed" \notin raced =>
      /\ OneActive(conf)
      /\ \A o \in Op : ops[o].st = "loaded" /\ ops[o].kind = "seed" /\ ~ ops[o].dirty
                         => Active(conf) = {}

(* Likewise for the vision rows; a deletion that nothing overtook still    *)
(* names an inactive row.                                                  *)
VisInv ==
    raced \cap {"vseed", "vdelete"} = {} =>
      /\ OneActive(vis)
      /\ \A o \in Op : ops[o].st = "loaded" /\ ~ ops[o].dirty =>
           /\ ops[o].kind = "vseed" => Active(vis) = {}
           /\ ops[o].kind = "vdelete" => vis[ops[o].target] = "inactive"

(* The inductive invariant behind VersionsOneActive.                       *)
VerInv == VerTypeOK /\ TargetsNamed /\ ConfInv /\ VisInv

OpRecord == [st : {"idle", "loaded", "flagged", "done"}, kind : Kinds,
             target : 0..MaxVersion, prev : 0..MaxVersion, dirty : BOOLEAN]

AuditRecord == [config : Version, prev : 0..MaxVersion,
                action : {"activate", "rollback", "pause", "resume"}]

-----------------------------------------------------------------------------
LEMMA GetActiveType ==
    ASSUME NEW tbl PROVE GetActive(tbl) \in 0..MaxVersion
<1>1. CASE Newest(tbl) = {}
  BY <1>1, VersionsAssumption DEF GetActive
<1>2. CASE Newest(tbl) # {}
  <2>1. GetActive(tbl) \in Newest(tbl)
    BY <1>2 DEF GetActive
  <2>2. QED
    BY <2>1, VersionsAssumption DEF Newest, Active, Version
<1>3. QED
  BY <1>1, <1>2

(* With at most one active row, none is found only when there is none.     *)
LEMMA GetActiveNone ==
    ASSUME NEW tbl, OneActive(tbl), GetActive(tbl) = 0
    PROVE  Active(tbl) = {}
<1>1. Newest(tbl) = {}
  <2>1. SUFFICES ASSUME Newest(tbl) # {} PROVE FALSE
    OBVIOUS
  <2>2. GetActive(tbl) \in Newest(tbl)
    BY <2>1 DEF GetActive
  <2>3. QED
    BY <2>2 DEF Newest, Active, Version
<1>2. SUFFICES ASSUME NEW i \in Active(tbl) PROVE FALSE
  OBVIOUS
<1>3. i \in Version /\ \A j \in Active(tbl) : j = i
  BY <1>2 DEF OneActive, Active
<1>4. i \in Newest(tbl)
  BY <1>2, <1>3, VersionsAssumption DEF Newest, Version
<1>5. QED
  BY <1>1, <1>4

LEMMA BlankOp ==
    ASSUME NEW st \in {"idle", "loaded", "flagged", "done"}
    PROVE  VerBlank(st) \in OpRecord /\ VerBlank(st).st = st /\ VerBlank(st).kind = "seed"
BY VersionsAssumption DEF VerBlank, OpRecord, Kinds, RowKinds

(* What Finish leaves of an operation.                                     *)
LEMMA FinishEffect ==
    ASSUME NEW o \in Op, NEW family, Finish(o, family), ops \in [Op -> OpRecord]
    PROVE  /\ ops' \in [Op -> OpRecord]
           /\ ops'[o].st = "done"
           /\ \A q \in Op : q # o =>
                /\ ops'[q].st = ops[q].st /\ ops'[q].kind = ops[q].kind
                /\ ops'[q].target = ops[q].target
                /\ ops[q].dirty => ops'[q].dirty
                /\ ops[q].st # "idle" /\ ops[q].kind \in family => ops'[q].dirty
<1>1. VerBlank("done") \in OpRecord /\ VerBlank("done").st = "done"
  BY BlankOp
<1>2. QED
  BY <1>1 DEF Finish, OpRecord

(* A switch leaves exactly its target active.                              *)
LEMMA SwitchActive ==
    ASSUME NEW tbl, NEW t \in Version
    PROVE  Active(SwitchTo(tbl, t)) = {t} /\ OneActive(SwitchTo(tbl, t))
<1>1. \A i \in Version : SwitchTo(tbl, t)[i] = "active" <=> i = t
  BY DEF SwitchTo
<1>2. Active(SwitchTo(tbl, t)) = {t}
  BY <1>1 DEF Active
<1>3. QED
  BY <1>2 DEF OneActive

LEMMA SwitchType ==
    ASSUME NEW S, "active" \in S, "inactive" \in S, NEW tbl \in [Version -> S],
           NEW t \in Version
    PROVE  SwitchTo(tbl, t) \in [Version -> S]
BY DEF SwitchTo

LEMMA VerInitInv == VerInit => VerInv
<1> SUFFICES ASSUME VerInit PROVE VerInv
  OBVIOUS
<1>1. VerBlank("idle") \in OpRecord /\ VerBlank("idle").st = "idle"
  BY BlankOp
<1>2. VerTypeOK
  <2>1. ops \in [Op -> OpRecord]
    BY <1>1 DEF VerInit
  <2>2. audit \in Seq(AuditRecord)
    BY DEF VerInit
  <2>3. QED
    BY <2>1, <2>2 DEF VerInit, VerTypeOK, OpRecord, AuditRecord
<1>3. Active(conf) = {} /\ Active(vis) = {}
  BY DEF VerInit, Active
<1>4. OneActive(conf) /\ OneActive(vis)
  BY <1>3 DEF VerInit, OneActive
<1>5. TargetsNamed /\ ConfInv /\ VisInv
  BY <1>1, <1>4 DEF VerInit, TargetsNamed, ConfInv, VisInv
<1>6. QED
  BY <1>2, <1>5 DEF VerInv

(* Types and named targets survive every step.                             *)
LEMMA VerTypeStep ==
    VerTypeOK /\ TargetsNamed /\ [VerNext]_verVars => VerTypeOK' /\ TargetsNamed'
<1> SUFFICES ASSUME VerTypeOK, TargetsNamed, [VerNext]_verVars
             PROVE  VerTypeOK' /\ TargetsNamed'
  OBVIOUS
<1> USE DEF OpRecord, AuditRecord
<1>a. /\ ops \in [Op -> OpRecord] /\ audit \in Seq(AuditRecord)
      /\ conf \in [Version -> {"none", "active", "inactive"}]
      /\ vis \in [Version -> {"none", "active", "inactive", "deleted"}]
      /\ paused \in BOOLEAN /\ raced \subseteq Kinds \cup {"lost"}
  BY DEF VerTypeOK
<1>b. \A st \in {"idle", "loaded", "flagged", "done"} :
        VerBlank(st) \in OpRecord /\ VerBlank(st).st = st /\ VerBlank(st).kind = "seed"
  BY BlankOp
<1>c. ASSUME NEW o \in Op, NEW family, Finish(o, family)
      PROVE  ops' \in [Op -> OpRecord] /\ TargetsNamed'
  <2>1. /\ ops' \in [Op -> OpRecord] /\ ops'[o].st = "done"
        /\ \A q \in Op : q # o => /\ ops'[q].st = ops[q].st /\ ops'[q].kind = ops[q].kind
                                   /\ ops'[q].target = ops[q].target
    BY <1>a, <1>c, FinishEffect
  <2>2. QED
    BY <2>1 DEF TargetsNamed
<1>d. ASSUME NEW o \in Op, NoteRace(o) PROVE raced' \subseteq Kinds \cup {"lost"}
  BY <1>a, <1>d DEF NoteRace
<1>e. ASSUME NEW n \in Version, NEW p \in 0..MaxVersion,
             NEW act \in {"activate", "rollback", "pause", "resume"}
      PROVE  Append(audit, AuditRow(n, p, act)) \in Seq(AuditRecord)
  BY <1>a DEF AuditRow
<1>1. ASSUME NEW o \in Op, NEW kind \in Kinds, NEW t \in 0..MaxVersion, Begin(o, kind, t)
      PROVE  VerTypeOK' /\ TargetsNamed'
  <2>1. GetActive(conf) \in 0..MaxVersion
    BY GetActiveType
  <2>2. VerBlank("loaded") \in OpRecord
    BY <1>b
  <2>3. ops' \in [Op -> OpRecord]
    BY <1>1, <1>a, <2>1, <2>2 DEF Begin
  <2>4. kind \in Naming => t \in Version
    BY <1>1 DEF Begin, Admissible, Naming, PauseKinds, Version
  <2>5. TargetsNamed'
    <3>1. VerBlank("loaded").st = "loaded"
      BY <1>b
    <3>2. ops'[o].st = "loaded" /\ ops'[o].kind = kind /\ ops'[o].target = t
      BY <1>1, <1>a, <2>2, <3>1 DEF Begin
    <3>3. \A q \in Op : q # o => ops'[q] = ops[q]
      BY <1>1, <1>a DEF Begin
    <3>4. QED
      BY <2>4, <3>2, <3>3 DEF TargetsNamed
  <2>6. QED
    BY <1>1, <1>a, <2>3, <2>5 DEF Begin, VerTypeOK
<1>2. ASSUME NEW o \in Op, CommitSeed(o)
      PROVE  VerTypeOK' /\ TargetsNamed'
  BY <1>2, <1>a, <1>c, <1>d DEF CommitSeed, VerTypeOK, Free
<1>3. ASSUME NEW o \in Op, CommitCreate(o)
      PROVE  VerTypeOK' /\ TargetsNamed'
  <2>1. PICK n \in Version : conf' = SwitchTo(conf, n)
                             /\ audit' = Append(audit, AuditRow(n, ops[o].prev, "activate"))
    BY <1>3 DEF CommitCreate, Free
  <2>2. conf' \in [Version -> {"none", "active", "inactive"}]
    BY <1>a, <2>1, SwitchType
  <2>3. ops[o].prev \in 0..MaxVersion
    BY <1>a
  <2>4. audit' \in Seq(AuditRecord)
    BY <1>e, <2>1, <2>3
  <2>5. QED
    BY <1>3, <1>a, <1>c, <1>d, <2>2, <2>4 DEF CommitCreate, VerTypeOK
<1>4. ASSUME NEW o \in Op, CommitRollback(o)
      PROVE  VerTypeOK' /\ TargetsNamed'
  <2>1. ops[o].target \in Version /\ ops[o].prev \in 0..MaxVersion
    BY <1>4, <1>a DEF CommitRollback, TargetsNamed, Naming
  <2>2. conf' \in [Version -> {"none", "active", "inactive"}]
    BY <1>4, <1>a, <2>1, SwitchType DEF CommitRollback
  <2>3. audit' \in Seq(AuditRecord)
    BY <1>4, <1>e, <2>1 DEF CommitRollback
  <2>4. QED
    BY <1>4, <1>a, <1>c, <1>d, <2>2, <2>3 DEF CommitRollback, VerTypeOK
<1>5. ASSUME NEW o \in Op, NEW up \in BOOLEAN, SetPaused(o, up)
      PROVE  VerTypeOK' /\ TargetsNamed'
  <2>0. \A q \in Op : /\ ops[q] \in OpRecord
                      /\ [ops[q] EXCEPT !.st = "flagged"] \in OpRecord
                      /\ [ops[q] EXCEPT !.dirty = TRUE] \in OpRecord
    BY <1>a DEF OpRecord
  <2>1. ops' \in [Op -> OpRecord]
    BY <1>5, <2>0 DEF SetPaused
  <2>2. \A q \in Op : /\ ops'[q].kind = ops[q].kind /\ ops'[q].target = ops[q].target
                      /\ ops'[q].st \in {"loaded", "flagged"} => ops[q].st \in {"loaded", "flagged"}
                      /\ ops'[q].st = "flagged" => q = o \/ ops[q].st = "flagged"
    BY <1>5, <1>a DEF SetPaused
  <2>3. TargetsNamed'
    BY <1>5, <2>2 DEF TargetsNamed, SetPaused
  <2>4. paused' \in BOOLEAN /\ raced' \subseteq Kinds \cup {"lost"}
    BY <1>5, <1>a DEF SetPaused
  <2>5. QED
    BY <1>5, <1>a, <2>1, <2>3, <2>4 DEF SetPaused, VerTypeOK
<1>6. ASSUME NEW o \in Op, AuditPaused(o)
      PROVE  VerTypeOK' /\ TargetsNamed'
  <2>1. SUFFICES audit' \in Seq(AuditRecord)
    BY <1>6, <1>a, <1>c, <1>d DEF AuditPaused, VerTypeOK
  <2>2. ops[o].target \in Version /\ 0 \in 0..MaxVersion
    BY <1>6, VersionsAssumption DEF AuditPaused, TargetsNamed, Naming
  <2>3. ops[o].kind \in {"activate", "rollback", "pause", "resume"}
    BY <1>6 DEF AuditPaused, TargetsNamed, PauseKinds
  <2>4. QED
    BY <1>6, <1>e, <2>2, <2>3 DEF AuditPaused
<1>7. ASSUME NEW o \in Op, CommitVisionSeed(o)
      PROVE  VerTypeOK' /\ TargetsNamed'
  BY <1>7, <1>a, <1>c, <1>d DEF CommitVisionSeed, VerTypeOK, Free
<1>8. ASSUME NEW o \in Op, CommitVisionActivate(o)
      PROVE  VerTypeOK' /\ TargetsNamed'
  <2>1. ops[o].target \in Version
    BY <1>8 DEF CommitVisionActivate, TargetsNamed, Naming
  <2>2. vis' \in [Version -> {"none", "active", "inactive", "deleted"}]
    BY <1>8, <1>a, <2>1, SwitchType DEF CommitVisionActivate
  <2>3. QED
    BY <1>8, <1>a, <1>c, <1>d, <2>2 DEF CommitVisionActivate, VerTypeOK
<1>9. ASSUME NEW o \in Op, CommitVisionDelete(o)
      PROVE  VerTypeOK' /\ TargetsNamed'
  BY <1>9, <1>a, <1>c, <1>d DEF CommitVisionDelete, VerTypeOK
<1>10. ASSUME NEW o \in Op, VisionCreate(o)
       PROVE  VerTypeOK' /\ TargetsNamed'
  <2>1. PICK n \in Version : vis' = SwitchTo(vis, n)
    BY <1>10 DEF VisionCreate, Free
  <2>2. vis' \in [Version -> {"none", "active", "inactive", "deleted"}]
    BY <1>a, <2>1, SwitchType
  <2>3. QED
    BY <1>10, <1>a, <1>c, <2>2 DEF VisionCreate, VerTypeOK
<1>11. ASSUME NEW o \in Op, Abandon(o)
       PROVE  VerTypeOK' /\ TargetsNamed'
  <2>1. VerBlank("done") \in OpRecord /\ VerBlank("done").st = "done"
    BY <1>b
  <2>2. ops' \in [Op -> OpRecord] /\ raced' \subseteq Kinds \cup {"lost"}
    BY <1>11, <1>a, <2>1 DEF Abandon
  <2>3. TargetsNamed'
    BY <1>11, <1>a, <2>1 DEF Abandon, TargetsNamed
  <2>4. QED
    BY <1>11, <1>a, <2>2, <2>3 DEF Abandon, VerTypeOK
<1>12. CASE UNCHANGED verVars
  BY <1>12 DEF verVars, VerTypeOK, TargetsNamed
<1>13. CASE LosePaused
  <2>1. paused' \in BOOLEAN /\ raced' \subseteq Kinds \cup {"lost"}
    BY <1>13, <1>a DEF LosePaused
  <2>2. QED
    BY <1>13, <1>a, <2>1 DEF LosePaused, VerTypeOK, TargetsNamed
<1>14. QED
  BY <1>1, <1>2, <1>3, <1>4, <1>5, <1>6, <1>7, <1>8, <1>9, <1>10, <1>11, <1>12, <1>13
     DEF VerNext

(* What raced is not forgotten.                                            *)
LEMMA RacedGrows == VerTypeOK /\ [VerNext]_verVars => raced \subseteq raced'
BY DEF VerTypeOK, VerNext, verVars, Begin, CommitSeed, CommitCreate, CommitRollback, SetPaused,
       AuditPaused, CommitVisionSeed, CommitVisionActivate, CommitVisionDelete, VisionCreate,
       Abandon, NoteRace, LosePaused

(* Saves and rollbacks that overlap leave one active pipeline row.         *)
LEMMA ConfStep ==
    ASSUME VerTypeOK, TargetsNamed, ConfInv, VerNext PROVE ConfInv'
<1>1. SUFFICES ASSUME "seed" \notin raced'
               PROVE  /\ OneActive(conf')
                      /\ \A o \in Op : ops'[o].st = "loaded" /\ ops'[o].kind = "seed"
                                         /\ ~ ops'[o].dirty => Active(conf') = {}
  BY DEF ConfInv, OneActive, Active
<1>2. "seed" \notin raced
  BY <1>1, RacedGrows
<1>3. /\ OneActive(conf)
      /\ \A o \in Op : ops[o].st = "loaded" /\ ops[o].kind = "seed" /\ ~ ops[o].dirty
                         => Active(conf) = {}
  BY <1>2 DEF ConfInv
<1>a. ops \in [Op -> OpRecord] /\ conf \in [Version -> {"none", "active", "inactive"}]
  BY DEF VerTypeOK, OpRecord
<1>b. ASSUME NEW o \in Op, Finish(o, RowKinds)
      PROVE  \A q \in Op : ~ (ops'[q].st = "loaded" /\ ops'[q].kind = "seed" /\ ~ ops'[q].dirty)
  <2>1. /\ ops'[o].st = "done"
        /\ \A q \in Op : q # o =>
             /\ ops'[q].st = ops[q].st /\ ops'[q].kind = ops[q].kind
             /\ ops[q].st # "idle" /\ ops[q].kind \in RowKinds => ops'[q].dirty
    BY <1>a, <1>b, FinishEffect
  <2>2. QED
    BY <2>1 DEF RowKinds
<1>c. ASSUME conf' = conf,
             \A q \in Op : ops'[q].st = "loaded" /\ ops'[q].kind = "seed" /\ ~ ops'[q].dirty
               => ops[q].st = "loaded" /\ ops[q].kind = "seed" /\ ~ ops[q].dirty
      PROVE  /\ OneActive(conf')
             /\ \A o \in Op : ops'[o].st = "loaded" /\ ops'[o].kind = "seed"
                                /\ ~ ops'[o].dirty => Active(conf') = {}
  BY <1>3, <1>c DEF OneActive, Active
<1>d. ASSUME NEW o \in Op, NEW family, Finish(o, family), conf' = conf
      PROVE  /\ OneActive(conf')
             /\ \A q \in Op : ops'[q].st = "loaded" /\ ops'[q].kind = "seed"
                                /\ ~ ops'[q].dirty => Active(conf') = {}
  <2>1. /\ ops' \in [Op -> OpRecord] /\ ops'[o].st = "done"
        /\ \A q \in Op : q # o =>
             /\ ops'[q].st = ops[q].st /\ ops'[q].kind = ops[q].kind
             /\ ops[q].dirty => ops'[q].dirty
    BY <1>a, <1>d, FinishEffect
  <2>2. QED
    BY <1>c, <1>d, <2>1
<1>4. ASSUME NEW o \in Op, NEW kind \in Kinds, NEW t \in 0..MaxVersion, Begin(o, kind, t)
      PROVE  /\ OneActive(conf')
             /\ \A q \in Op : ops'[q].st = "loaded" /\ ops'[q].kind = "seed"
                                /\ ~ ops'[q].dirty => Active(conf') = {}
  <2>1. conf' = conf
    BY <1>4 DEF Begin
  <2>2. CASE kind = "seed"
    <3>1. GetActive(conf) = 0
      BY <1>4, <2>2 DEF Begin, Admissible, PauseKinds
    <3>2. Active(conf) = {}
      BY <1>3, <3>1, GetActiveNone
    <3>3. QED
      BY <1>3, <2>1, <3>2 DEF Active
  <2>3. CASE kind # "seed"
    <3>1. VerBlank("loaded") \in OpRecord
      BY BlankOp
    <3>2. ops'[o].kind = kind /\ \A q \in Op : q # o => ops'[q] = ops[q]
      BY <1>4, <1>a, <3>1 DEF Begin, OpRecord
    <3>3. QED
      BY <1>c, <2>1, <2>3, <3>2
  <2>4. QED
    BY <2>2, <2>3
<1>5. ASSUME NEW o \in Op, CommitSeed(o)
      PROVE  OneActive(conf')
  <2>1. Active(conf) = {}
    BY <1>1, <1>3, <1>5 DEF CommitSeed, NoteRace
  <2>2. PICK n \in Version : conf' = [conf EXCEPT ![n] = "active"]
    BY <1>5 DEF CommitSeed, Free
  <2>3. \A i \in Version : conf'[i] = "active" <=> i = n
    BY <1>a, <2>1, <2>2 DEF Active
  <2>4. QED
    BY <2>3 DEF OneActive, Active
<1>6. ASSUME NEW o \in Op, CommitCreate(o)
      PROVE  OneActive(conf')
  <2>1. PICK n \in Version : conf' = SwitchTo(conf, n)
    BY <1>6 DEF CommitCreate, Free
  <2>2. QED
    BY <2>1, SwitchActive
<1>7. ASSUME NEW o \in Op, CommitRollback(o)
      PROVE  OneActive(conf')
  <2>1. ops[o].target \in Version
    BY <1>7 DEF CommitRollback, TargetsNamed, Naming
  <2>2. QED
    BY <1>7, <2>1, SwitchActive DEF CommitRollback
<1>8. ASSUME NEW o \in Op, NEW up \in BOOLEAN, SetPaused(o, up)
      PROVE  /\ conf' = conf
             /\ \A q \in Op : ops'[q].st = "loaded" /\ ops'[q].kind = "seed" /\ ~ ops'[q].dirty
                  => ops[q].st = "loaded" /\ ops[q].kind = "seed" /\ ~ ops[q].dirty
  BY <1>8, <1>a DEF SetPaused, OpRecord
<1>9. ASSUME NEW o \in Op, Abandon(o)
      PROVE  /\ conf' = conf
             /\ \A q \in Op : ops'[q].st = "loaded" /\ ops'[q].kind = "seed" /\ ~ ops'[q].dirty
                  => ops[q].st = "loaded" /\ ops[q].kind = "seed" /\ ~ ops[q].dirty
  <2>1. VerBlank("done").st = "done"
    BY BlankOp
  <2>2. QED
    BY <1>9, <1>a, <2>1 DEF Abandon
<1>10. ASSUME NEW o \in Op,
              CommitSeed(o) \/ CommitCreate(o) \/ CommitRollback(o)
       PROVE  /\ OneActive(conf')
              /\ \A q \in Op : ops'[q].st = "loaded" /\ ops'[q].kind = "seed"
                                 /\ ~ ops'[q].dirty => Active(conf') = {}
  <2>1. Finish(o, RowKinds)
    BY <1>10 DEF CommitSeed, CommitCreate, CommitRollback
  <2>2. QED
    BY <1>5, <1>6, <1>7, <1>10, <1>b, <2>1
<1>11. ASSUME NEW o \in Op,
              \/ AuditPaused(o) \/ CommitVisionSeed(o) \/ CommitVisionActivate(o)
              \/ CommitVisionDelete(o) \/ VisionCreate(o)
       PROVE  /\ OneActive(conf')
              /\ \A q \in Op : ops'[q].st = "loaded" /\ ops'[q].kind = "seed"
                                 /\ ~ ops'[q].dirty => Active(conf') = {}
  <2>1. (Finish(o, {}) \/ Finish(o, VisionKinds)) /\ conf' = conf
    BY <1>11 DEF AuditPaused, CommitVisionSeed, CommitVisionActivate, CommitVisionDelete,
                 VisionCreate
  <2>2. QED
    BY <1>d, <2>1
<1>12. ASSUME LosePaused
       PROVE  /\ OneActive(conf')
              /\ \A q \in Op : ops'[q].st = "loaded" /\ ops'[q].kind = "seed"
                                 /\ ~ ops'[q].dirty => Active(conf') = {}
  BY <1>12, <1>c DEF LosePaused
<1>13. QED
  BY <1>4, <1>8, <1>9, <1>10, <1>11, <1>12, <1>c DEF VerNext

(* ... and the vision rows likewise, unless a deletion was overtaken.      *)
LEMMA VisStep ==
    ASSUME VerTypeOK, TargetsNamed, VisInv, VerNext PROVE VisInv'
<1> DEFINE Fresh(o) ==
      ops[o].st = "loaded" /\ ~ ops[o].dirty =>
        /\ ops[o].kind = "vseed" => Active(vis) = {}
        /\ ops[o].kind = "vdelete" => vis[ops[o].target] = "inactive"
<1>1. SUFFICES ASSUME raced' \cap {"vseed", "vdelete"} = {}
               PROVE  OneActive(vis') /\ \A o \in Op : Fresh(o)'
  BY DEF VisInv, OneActive, Active
<1>2. raced \cap {"vseed", "vdelete"} = {}
  BY <1>1, RacedGrows
<1>3. OneActive(vis) /\ \A o \in Op : Fresh(o)
  BY <1>2 DEF VisInv
<1>a. /\ ops \in [Op -> OpRecord]
      /\ vis \in [Version -> {"none", "active", "inactive", "deleted"}]
  BY DEF VerTypeOK, OpRecord
<1>b. ASSUME NEW o \in Op, Finish(o, VisionKinds)
      PROVE  \A q \in Op : Fresh(q)'
  <2>1. /\ ops'[o].st = "done"
        /\ \A q \in Op : q # o =>
             /\ ops'[q].st = ops[q].st /\ ops'[q].kind = ops[q].kind
             /\ ops[q].st # "idle" /\ ops[q].kind \in VisionKinds => ops'[q].dirty
    BY <1>a, <1>b, FinishEffect
  <2>2. QED
    BY <2>1 DEF VisionKinds
<1>c. ASSUME vis' = vis, NEW q \in Op, ops'[q].target = ops[q].target,
             ops'[q].kind = ops[q].kind, ops[q].dirty => ops'[q].dirty,
             ops'[q].st = "loaded" => ops[q].st = "loaded"
      PROVE  Fresh(q)'
  BY <1>3, <1>c DEF Active
<1>d. ASSUME NEW o \in Op, NEW family, Finish(o, family), vis' = vis
      PROVE  OneActive(vis') /\ \A q \in Op : Fresh(q)'
  <2>1. /\ ops'[o].st = "done"
        /\ \A q \in Op : q # o =>
             /\ ops'[q].st = ops[q].st /\ ops'[q].kind = ops[q].kind
             /\ ops'[q].target = ops[q].target
             /\ ops[q].dirty => ops'[q].dirty
    BY <1>a, <1>d, FinishEffect
  <2>2. ASSUME NEW q \in Op PROVE Fresh(q)'
    BY <1>c, <1>d, <2>1
  <2>3. OneActive(vis')
    BY <1>3, <1>d
  <2>4. QED
    BY <2>2, <2>3
<1>4. ASSUME NEW o \in Op, NEW kind \in Kinds, NEW t \in 0..MaxVersion, Begin(o, kind, t)
      PROVE  OneActive(vis') /\ \A q \in Op : Fresh(q)'
  <2>1. vis' = vis /\ OneActive(vis')
    BY <1>3, <1>4 DEF Begin
  <2>2. VerBlank("loaded") \in OpRecord
    BY BlankOp
  <2>3. ops'[o].kind = kind /\ ops'[o].target = t
    BY <1>4, <1>a, <2>2 DEF Begin, OpRecord
  <2>4. kind = "vseed" => Active(vis) = {}
    <3>1. SUFFICES ASSUME kind = "vseed" PROVE Active(vis) = {}
      OBVIOUS
    <3>2. GetActive(vis) = 0
      BY <1>4, <3>1 DEF Begin, Admissible, PauseKinds
    <3>3. QED
      BY <1>3, <3>2, GetActiveNone
  <2>5. kind = "vdelete" => vis[t] = "inactive"
    BY <1>4 DEF Begin, Admissible, PauseKinds
  <2>6. Fresh(o)'
    BY <2>1, <2>3, <2>4, <2>5 DEF Active
  <2>7. \A q \in Op : q # o => ops'[q] = ops[q]
    BY <1>4, <1>a DEF Begin
  <2>8. ASSUME NEW q \in Op, q # o PROVE Fresh(q)'
    BY <1>c, <2>1, <2>7, <2>8
  <2>9. QED
    BY <2>1, <2>6, <2>8
<1>5. ASSUME NEW o \in Op, CommitVisionSeed(o)
      PROVE  OneActive(vis')
  <2>1. Active(vis) = {}
    BY <1>1, <1>3, <1>5 DEF CommitVisionSeed, NoteRace
  <2>2. PICK n \in Version : vis' = [vis EXCEPT ![n] = "active"]
    BY <1>5 DEF CommitVisionSeed, Free
  <2>3. \A i \in Version : vis'[i] = "active" <=> i = n
    BY <1>a, <2>1, <2>2 DEF Active
  <2>4. QED
    BY <2>3 DEF OneActive, Active
<1>6. ASSUME NEW o \in Op, CommitVisionActivate(o)
      PROVE  OneActive(vis')
  <2>1. ops[o].target \in Version
    BY <1>6 DEF CommitVisionActivate, TargetsNamed, Naming
  <2>2. QED
    BY <1>6, <2>1, SwitchActive DEF CommitVisionActivate
<1>7. ASSUME NEW o \in Op, CommitVisionDelete(o)
      PROVE  OneActive(vis')
  <2>1. vis[ops[o].target] = "inactive" /\ ops[o].target \in Version
    BY <1>1, <1>3, <1>7 DEF CommitVisionDelete, NoteRace, TargetsNamed, Naming
  <2>2. \A i \in Version : vis'[i] = "active" <=> vis[i] = "active"
    BY <1>7, <1>a, <2>1 DEF CommitVisionDelete
  <2>3. Active(vis') = Active(vis)
    BY <2>2 DEF Active
  <2>4. \E i \in Version : vis[i] # "none"
    BY <2>1
  <2>5. QED
    BY <1>3, <2>3, <2>4 DEF OneActive
<1>8. ASSUME NEW o \in Op, VisionCreate(o)
      PROVE  OneActive(vis')
  <2>1. PICK n \in Version : vis' = SwitchTo(vis, n)
    BY <1>8 DEF VisionCreate, Free
  <2>2. QED
    BY <2>1, SwitchActive
<1>9. ASSUME NEW o \in Op, NEW up \in BOOLEAN, SetPaused(o, up)
      PROVE  OneActive(vis') /\ \A q \in Op : Fresh(q)'
  <2>1. vis' = vis
    BY <1>9 DEF SetPaused
  <2>2. \A q \in Op : /\ ops'[q].kind = ops[q].kind /\ ops'[q].target = ops[q].target
                      /\ ops[q].dirty => ops'[q].dirty
                      /\ ops'[q].st = "loaded" => ops[q].st = "loaded"
    BY <1>9, <1>a DEF SetPaused, OpRecord
  <2>3. ASSUME NEW q \in Op PROVE Fresh(q)'
    BY <1>c, <2>1, <2>2
  <2>4. QED
    BY <1>3, <2>1, <2>3
<1>10. ASSUME NEW o \in Op, Abandon(o)
       PROVE  OneActive(vis') /\ \A q \in Op : Fresh(q)'
  <2>1. vis' = vis /\ ops'[o].st = "done" /\ \A q \in Op : q # o => ops'[q] = ops[q]
    BY <1>10, <1>a, BlankOp DEF Abandon
  <2>2. ASSUME NEW q \in Op PROVE Fresh(q)'
    BY <1>c, <2>1
  <2>3. QED
    BY <1>3, <2>1, <2>2
<1>11. ASSUME NEW o \in Op,
              \/ CommitVisionSeed(o) \/ CommitVisionActivate(o)
              \/ CommitVisionDelete(o) \/ VisionCreate(o)
       PROVE  OneActive(vis') /\ \A q \in Op : Fresh(q)'
  <2>1. Finish(o, VisionKinds)
    BY <1>11 DEF CommitVisionSeed, CommitVisionActivate, CommitVisionDelete, VisionCreate
  <2>2. QED
    BY <1>5, <1>6, <1>7, <1>8, <1>11, <1>b, <2>1
<1>12. ASSUME NEW o \in Op,
              CommitSeed(o) \/ CommitCreate(o) \/ CommitRollback(o) \/ AuditPaused(o)
       PROVE  OneActive(vis') /\ \A q \in Op : Fresh(q)'
  <2>1. (Finish(o, {}) \/ Finish(o, RowKinds)) /\ vis' = vis
    BY <1>12 DEF CommitSeed, CommitCreate, CommitRollback, AuditPaused
  <2>2. QED
    BY <1>d, <2>1
<1>13. ASSUME LosePaused
       PROVE  OneActive(vis') /\ \A q \in Op : Fresh(q)'
  <2>1. vis' = vis /\ ops' = ops
    BY <1>13 DEF LosePaused
  <2>2. ASSUME NEW q \in Op PROVE Fresh(q)'
    BY <1>c, <2>1
  <2>3. QED
    BY <1>3, <2>1, <2>2
<1>14. QED
  BY <1>4, <1>9, <1>10, <1>11, <1>12, <1>13 DEF VerNext

(* VerInv is inductive.                                                    *)
LEMMA VerInvStep == VerInv /\ [VerNext]_verVars => VerInv'
<1> SUFFICES ASSUME VerInv, [VerNext]_verVars PROVE VerInv'
  OBVIOUS
<1>1. VerTypeOK' /\ TargetsNamed'
  BY VerTypeStep DEF VerInv
<1>2. CASE VerNext
  BY <1>1, <1>2, ConfStep, VisStep DEF VerInv
<1>3. CASE UNCHANGED verVars
  BY <1>1, <1>3 DEF verVars, VerInv, ConfInv, VisInv, OneActive, Active
<1>4. QED
  BY <1>2, <1>3

(* Every row, audit entry and operation of the versions keeps its type.    *)
THEOREM VersionsTyped == VerSpec => []VerTypeOK
<1>1. VerInv => VerTypeOK
  BY DEF VerInv
<1>2. QED
  BY <1>1, VerInitInv, VerInvStep, PTL DEF VerSpec

(* create_and_activate, rollback_config and their vision counterparts, for *)
(* any number of overlapping requests: exactly one active row.             *)
THEOREM OneVersionActive == VerSpec => []VersionsOneActive
<1>1. VerInv => VersionsOneActive
  BY DEF VerInv, ConfInv, VisInv, VersionsOneActive
<1>2. QED
  BY <1>1, VerInitInv, VerInvStep, PTL DEF VerSpec

-----------------------------------------------------------------------------
(* The audit log.                                                          *)

(* While no switch overtook another, the last switch in the log went to    *)
(* the row that is active, and whoever is about to switch knows that row.  *)
ChainInv ==
    raced \cap RowKinds = {} =>
      /\ \A i \in 1..Len(audit) :
           Latest(i, SwitchActions) => Active(conf) = {audit[i].config}
      /\ \A o \in Op : ops[o].st = "loaded" /\ ops[o].kind \in RowKinds /\ ~ ops[o].dirty
                         => ops[o].prev = GetActive(conf)
      /\ AuditIsChain

(* While no pause was overtaken, cut or refused, at most one is between    *)
(* its two writes and the flag is its; else the flag is as logged.         *)
PauseInv ==
    /\ raced \cap PauseKinds = {}
    /\ \A o \in Op : ops[o].st = "flagged" => ~ ops[o].dirty
    => /\ \A o, q \in Op : ops[o].st = "flagged" /\ ops[q].st = "flagged" => o = q
       /\ \A o \in Op : ops[o].st = "flagged" => FlagIs(ops[o].kind)
       /\ (\A o \in Op : ops[o].st # "flagged") => LogMatches

LEMMA GetActiveIs ==
    ASSUME NEW tbl, NEW t \in Version, Active(tbl) = {t}
    PROVE  GetActive(tbl) = t
<1>1. Newest(tbl) = {t}
  BY VersionsAssumption DEF Newest, Version
<1>2. QED
  BY <1>1 DEF GetActive

(* What a row appended to the log does to its order.                       *)
LEMMA AppendEffect ==
    ASSUME audit \in Seq(AuditRecord), NEW row \in AuditRecord, audit' = Append(audit, row),
           NEW kinds
    PROVE  /\ Len(audit) \in Nat /\ Len(audit') = Len(audit) + 1
           /\ audit'[Len(audit) + 1] = row
           /\ \A i \in 1..Len(audit) : audit'[i] = audit[i]
           /\ \A i, k \in 1..Len(audit) : Follows(i, k, kinds)' => Follows(i, k, kinds)
           /\ \A i \in 1..Len(audit) : \A k :
                k = Len(audit) + 1 /\ Follows(i, k, kinds)' => Latest(i, kinds)
           /\ \A i \in 1..Len(audit) : Latest(i, kinds)' => Latest(i, kinds)
           /\ row.action \in kinds => \A i \in 1..Len(audit) : ~ Latest(i, kinds)'
<1>1. /\ Len(audit) \in Nat /\ Len(audit') = Len(audit) + 1
      /\ audit'[Len(audit) + 1] = row
      /\ \A i \in 1..Len(audit) : audit'[i] = audit[i]
  OBVIOUS
<1> DEFINE n == Len(audit)
<1>2. ASSUME NEW i \in 1..n, NEW k \in 1..n, Follows(i, k, kinds)'
      PROVE  Follows(i, k, kinds)
  <2>1. \A m \in i + 1..k - 1 : m \in 1..n
    BY <1>1
  <2>2. QED
    BY <1>1, <1>2, <2>1 DEF Follows
<1>3. ASSUME NEW i \in 1..n, NEW k, k = n + 1, Follows(i, k, kinds)'
      PROVE  Latest(i, kinds)
  <2>1. \A m \in i + 1..n : m \in 1..n /\ m \in i + 1..k - 1
    BY <1>1, <1>3
  <2>2. QED
    BY <1>1, <1>3, <2>1 DEF Follows, Latest
<1>4. ASSUME NEW i \in 1..n, Latest(i, kinds)'
      PROVE  Latest(i, kinds) /\ row.action \notin kinds
  <2>1. \A m \in i + 1..n : m \in 1..n /\ m \in i + 1..Len(audit')
    BY <1>1
  <2>2. n + 1 \in i + 1..Len(audit')
    BY <1>1
  <2>3. QED
    BY <1>1, <1>4, <2>1, <2>2 DEF Latest
<1>5. QED
  BY <1>1, <1>2, <1>3, <1>4

(* A step that keeps the rows and the log, and lets nobody who reads them  *)
(* appear.                                                                 *)
LEMMA ChainKept ==
    ASSUME ChainInv, UNCHANGED <<conf, audit>>, raced \subseteq raced',
           \A q \in Op : ops'[q].st = "loaded" /\ ops'[q].kind \in RowKinds /\ ~ ops'[q].dirty
             => \/ ops'[q].prev = GetActive(conf)
                \/ /\ ops[q].st = "loaded" /\ ops[q].kind \in RowKinds /\ ~ ops[q].dirty
                   /\ ops'[q].prev = ops[q].prev
    PROVE  ChainInv'
<1>1. SUFFICES ASSUME raced' \cap RowKinds = {} PROVE ChainInv'
  BY DEF ChainInv
<1>2. raced \cap RowKinds = {}
  BY <1>1
<1>3. GetActive(conf)' = GetActive(conf) /\ Active(conf)' = Active(conf)
  BY DEF GetActive, Newest, Active
<1>4. QED
  BY <1>2, <1>3 DEF ChainInv, AuditIsChain, Latest, Follows

LEMMA ChainStep ==
    ASSUME VerInv, ChainInv, [VerNext]_verVars PROVE ChainInv'
<1>a. /\ ops \in [Op -> OpRecord] /\ audit \in Seq(AuditRecord)
      /\ TargetsNamed /\ ConfInv /\ raced \subseteq raced'
  BY RacedGrows DEF VerInv, VerTypeOK, OpRecord, AuditRecord
(* A switch or a seed by an operation that nothing overtook.               *)
<1>b. ASSUME NEW o \in Op, Finish(o, RowKinds), NoteRace(o), ops[o].st = "loaded",
             ops[o].kind \in RowKinds, raced' \cap RowKinds = {}
      PROVE  /\ ops[o].prev = GetActive(conf) /\ "seed" \notin raced /\ ~ ops[o].dirty
             /\ raced \cap RowKinds = {}
             /\ \A q \in Op : ~ (ops'[q].st = "loaded" /\ ops'[q].kind \in RowKinds
                                /\ ~ ops'[q].dirty)
  <2>1. ~ ops[o].dirty /\ raced \cap RowKinds = {}
    BY <1>a, <1>b DEF NoteRace
  <2>2. \A q \in Op : ~ (ops'[q].st = "loaded" /\ ops'[q].kind \in RowKinds /\ ~ ops'[q].dirty)
    <3>1. /\ ops'[o].st = "done"
          /\ \A q \in Op : q # o =>
               /\ ops'[q].st = ops[q].st /\ ops'[q].kind = ops[q].kind
               /\ ops[q].st # "idle" /\ ops[q].kind \in RowKinds => ops'[q].dirty
      BY <1>a, <1>b, FinishEffect
    <3>2. QED
      BY <3>1
  <2>3. QED
    BY <1>b, <2>1, <2>2 DEF ChainInv, RowKinds
<1>c. ASSUME NEW o \in Op, Finish(o, RowKinds), NoteRace(o), ops[o].st = "loaded",
             ops[o].kind \in RowKinds, NEW t \in Version, conf' = SwitchTo(conf, t),
             NEW action \in SwitchActions, audit' = Append(audit, AuditRow(t, ops[o].prev, action))
      PROVE  ChainInv'
  <2> DEFINE n == Len(audit)
             row == AuditRow(t, ops[o].prev, action)
  <2>1. SUFFICES ASSUME raced' \cap RowKinds = {} PROVE ChainInv'
    BY DEF ChainInv
  <2>2. /\ ops[o].prev = GetActive(conf) /\ raced \cap RowKinds = {}
        /\ \A q \in Op : ~ (ops'[q].st = "loaded" /\ ops'[q].kind \in RowKinds
                           /\ ~ ops'[q].dirty)
    BY <1>b, <1>c, <2>1
  <2>3. /\ row \in AuditRecord /\ row.config = t /\ row.prev = ops[o].prev
        /\ row.action \in SwitchActions
    BY <1>a, <1>c DEF AuditRow, AuditRecord, OpRecord, SwitchActions
  <2> HIDE DEF row
  <2>4. /\ n \in Nat /\ Len(audit') = n + 1 /\ audit'[n + 1] = row
        /\ \A i \in 1..n : audit'[i] = audit[i]
        /\ \A i, k \in 1..n : Follows(i, k, SwitchActions)' => Follows(i, k, SwitchActions)
        /\ \A i \in 1..n : \A k :
             k = n + 1 /\ Follows(i, k, SwitchActions)' => Latest(i, SwitchActions)
        /\ \A i \in 1..n : ~ Latest(i, SwitchActions)'
    <3>1. audit' = Append(audit, row)
      BY <1>c DEF row
    <3>2. QED
      BY <1>a, <2>3, <3>1, AppendEffect
  <2>5. Active(conf') = {t}
    BY <1>c, SwitchActive
  <2>6. \A i \in 1..n : Latest(i, SwitchActions) => audit[i].config = row.prev
    <3>1. SUFFICES ASSUME NEW i \in 1..n, Latest(i, SwitchActions)
                   PROVE  audit[i].config = row.prev
      OBVIOUS
    <3>2. Active(conf) = {audit[i].config}
      BY <2>2, <3>1 DEF ChainInv
    <3>3. audit[i] \in AuditRecord
      BY <1>a, <3>1
    <3>4. audit[i].config \in Version
      BY <3>3 DEF AuditRecord
    <3>5. QED
      BY <2>2, <2>3, <3>2, <3>4, GetActiveIs
  <2>7. \A i, k \in 1..n : Follows(i, k, SwitchActions) => audit[k].prev = audit[i].config
    BY <2>2 DEF ChainInv, AuditIsChain
  <2>8. ASSUME NEW i \in 1..n + 1, NEW k \in 1..n + 1, Follows(i, k, SwitchActions)'
        PROVE  audit'[k].prev = audit'[i].config
    <3>1. i < k
      BY <2>8 DEF Follows
    <3>2. CASE k = n + 1
      <4>1. i \in 1..n
        BY <2>4, <3>1, <3>2
      <4>2. Latest(i, SwitchActions)
        BY <2>4, <2>8, <3>2, <4>1
      <4>3. QED
        BY <2>4, <2>6, <3>2, <4>1, <4>2
    <3>3. CASE k # n + 1
      <4>1. i \in 1..n /\ k \in 1..n
        BY <2>4, <3>1, <3>3
      <4>2. QED
        BY <2>4, <2>7, <2>8, <4>1
    <3>4. QED
      BY <3>2, <3>3
  <2>9. AuditIsChain'
    BY <2>4, <2>8 DEF AuditIsChain
  <2>10. ASSUME NEW i \in 1..n + 1, Latest(i, SwitchActions)'
         PROVE  Active(conf') = {audit'[i].config}
    <3>1. i = n + 1
      BY <2>4, <2>10
    <3>2. QED
      BY <2>3, <2>4, <2>5, <3>1
  <2>11. QED
    BY <2>2, <2>4, <2>9, <2>10 DEF ChainInv, Active
<1>1. ASSUME NEW o \in Op, NEW kind \in Kinds, NEW t \in 0..MaxVersion, Begin(o, kind, t)
      PROVE  ChainInv'
  <2>1. VerBlank("loaded") \in OpRecord
    BY BlankOp
  <2>2. ops'[o].prev = GetActive(conf) /\ \A q \in Op : q # o => ops'[q] = ops[q]
    BY <1>1, <1>a, <2>1 DEF Begin, OpRecord
  <2>3. UNCHANGED <<conf, audit>>
    BY <1>1 DEF Begin
  <2>4. QED
    BY <1>a, <2>2, <2>3, ChainKept
<1>2. ASSUME NEW o \in Op, CommitSeed(o)
      PROVE  ChainInv'
  <2>1. SUFFICES ASSUME raced' \cap RowKinds = {} PROVE ChainInv'
    BY DEF ChainInv
  <2>2. /\ Finish(o, RowKinds) /\ NoteRace(o) /\ ops[o].st = "loaded" /\ ops[o].kind = "seed"
        /\ audit' = audit
    BY <1>2 DEF CommitSeed
  <2>3. /\ raced \cap RowKinds = {} /\ "seed" \notin raced /\ ~ ops[o].dirty
        /\ \A q \in Op : ~ (ops'[q].st = "loaded" /\ ops'[q].kind \in RowKinds
                           /\ ~ ops'[q].dirty)
    BY <1>b, <2>1, <2>2 DEF RowKinds
  <2>4. Active(conf) = {}
    BY <1>a, <2>2, <2>3 DEF ConfInv
  <2>5. \A i \in 1..Len(audit) : ~ Latest(i, SwitchActions)
    BY <2>3, <2>4 DEF ChainInv
  <2>6. QED
    BY <2>2, <2>3, <2>5 DEF ChainInv, AuditIsChain, Latest, Follows
<1>3. ASSUME NEW o \in Op, CommitCreate(o)
      PROVE  ChainInv'
  <2>1. PICK n \in Version : /\ conf' = SwitchTo(conf, n)
                             /\ audit' = Append(audit, AuditRow(n, ops[o].prev, "activate"))
    BY <1>3 DEF CommitCreate, Free
  <2>2. /\ Finish(o, RowKinds) /\ NoteRace(o) /\ ops[o].st = "loaded"
        /\ ops[o].kind \in RowKinds /\ "activate" \in SwitchActions
    BY <1>3 DEF CommitCreate, RowKinds, SwitchActions
  <2>3. QED
    BY <1>c, <2>1, <2>2
<1>4. ASSUME NEW o \in Op, CommitRollback(o)
      PROVE  ChainInv'
  <2>1. ops[o].target \in Version
    BY <1>4, <1>a DEF CommitRollback, TargetsNamed, Naming
  <2>2. /\ Finish(o, RowKinds) /\ NoteRace(o) /\ ops[o].st = "loaded"
        /\ ops[o].kind \in RowKinds /\ "rollback" \in SwitchActions
        /\ conf' = SwitchTo(conf, ops[o].target)
        /\ audit' = Append(audit, AuditRow(ops[o].target, ops[o].prev, "rollback"))
    BY <1>4 DEF CommitRollback, RowKinds, SwitchActions
  <2>3. QED
    BY <1>c, <2>1, <2>2
<1>5. ASSUME NEW o \in Op,
             \/ \E up \in BOOLEAN : SetPaused(o, up)
             \/ CommitVisionSeed(o) \/ CommitVisionActivate(o) \/ CommitVisionDelete(o)
             \/ VisionCreate(o) \/ Abandon(o)
      PROVE  ChainInv'
  <2>1. UNCHANGED <<conf, audit>>
    BY <1>5 DEF SetPaused, CommitVisionSeed, CommitVisionActivate, CommitVisionDelete,
                VisionCreate, Abandon
  <2>2. \A q \in Op : ops'[q].st = "loaded" /\ ops'[q].kind \in RowKinds /\ ~ ops'[q].dirty
          => /\ ops[q].st = "loaded" /\ ops[q].kind \in RowKinds /\ ~ ops[q].dirty
             /\ ops'[q].prev = ops[q].prev
    <3>1. VerBlank("done").st = "done"
      BY BlankOp
    <3>2. CASE \E up \in BOOLEAN : SetPaused(o, up)
      BY <1>a, <3>2 DEF SetPaused, OpRecord
    <3>3. CASE Abandon(o)
      BY <1>a, <3>1, <3>3 DEF Abandon
    <3>4. CASE Finish(o, VisionKinds)
      BY <1>a, <3>1, <3>4 DEF Finish, OpRecord
    <3>5. QED
      BY <1>5, <3>2, <3>3, <3>4 DEF CommitVisionSeed, CommitVisionActivate, CommitVisionDelete,
                                    VisionCreate
  <2>3. QED
    BY <1>a, <2>1, <2>2, ChainKept
<1>6. ASSUME NEW o \in Op, AuditPaused(o)
      PROVE  ChainInv'
  <2> DEFINE n == Len(audit)
             row == AuditRow(ops[o].target, 0, ops[o].kind)
  <2>1. SUFFICES ASSUME raced' \cap RowKinds = {} PROVE ChainInv'
    BY DEF ChainInv
  <2>2. raced \cap RowKinds = {} /\ conf' = conf
    BY <1>6, <1>a, <2>1 DEF AuditPaused
  <2>3. row \in AuditRecord /\ row.action \notin SwitchActions
    BY <1>6, <1>a, VersionsAssumption
       DEF AuditPaused, AuditRow, AuditRecord, TargetsNamed, Naming, PauseKinds, SwitchActions
  <2> HIDE DEF row
  <2>4. /\ n \in Nat /\ Len(audit') = n + 1 /\ audit'[n + 1] = row
        /\ \A i \in 1..n : audit'[i] = audit[i]
        /\ \A i, k \in 1..n : Follows(i, k, SwitchActions)' => Follows(i, k, SwitchActions)
        /\ \A i \in 1..n : Latest(i, SwitchActions)' => Latest(i, SwitchActions)
    <3>1. audit' = Append(audit, row)
      BY <1>6 DEF AuditPaused, row
    <3>2. QED
      BY <1>a, <2>3, <3>1, AppendEffect
  <2>5. \A i \in 1..n + 1 : audit'[i].action \in SwitchActions => i \in 1..n
    BY <2>3, <2>4
  <2>6. AuditIsChain'
    <3>1. \A i, k \in 1..n : Follows(i, k, SwitchActions) => audit[k].prev = audit[i].config
      BY <2>2 DEF ChainInv, AuditIsChain
    <3>2. \A i, k \in 1..n + 1 : Follows(i, k, SwitchActions)' => i \in 1..n /\ k \in 1..n
      BY <2>5 DEF Follows
    <3>3. QED
      BY <2>4, <3>1, <3>2 DEF AuditIsChain
  <2>7. \A i \in 1..n + 1 : Latest(i, SwitchActions)' => Active(conf) = {audit'[i].config}
    <3>1. \A i \in 1..n + 1 : Latest(i, SwitchActions)' => i \in 1..n
      BY <2>5 DEF Latest
    <3>2. QED
      BY <2>2, <2>4, <3>1 DEF ChainInv
  <2>8. \A q \in Op : ops'[q].st = "loaded" /\ ops'[q].kind \in RowKinds /\ ~ ops'[q].dirty
          => /\ ops[q].st = "loaded" /\ ops[q].kind \in RowKinds /\ ~ ops[q].dirty
             /\ ops'[q].prev = ops[q].prev
    <3>1. VerBlank("done").st = "done"
      BY BlankOp
    <3>2. QED
      BY <1>6, <1>a, <3>1 DEF AuditPaused, Finish, OpRecord
  <2>9. GetActive(conf)' = GetActive(conf) /\ Active(conf)' = Active(conf)
    BY <2>2 DEF GetActive, Newest, Active
  <2>10. QED
    BY <2>2, <2>4, <2>6, <2>7, <2>8, <2>9 DEF ChainInv
<1>7. CASE UNCHANGED verVars \/ LosePaused
  BY <1>7, <1>a, ChainKept DEF verVars, LosePaused
<1>8. QED
  BY <1>1, <1>2, <1>3, <1>4, <1>5, <1>6, <1>7 DEF VerNext

(* config.py, config_audit: without overlapping switches the log is a      *)
(* chain, for any number of versions and requests, pauses among them.      *)
THEOREM AuditChain == VerSpec => []AuditIsChain
<1>1. VerInit => ChainInv
  <2>1. VerBlank("idle").st = "idle"
    BY BlankOp
  <2>2. QED
    BY <2>1 DEF VerInit, ChainInv, AuditIsChain
<1>2. VerInv /\ ChainInv /\ [VerNext]_verVars => ChainInv'
  BY ChainStep
<1>3. ChainInv => AuditIsChain
  BY DEF ChainInv, AuditIsChain
<1>4. QED
  BY <1>1, <1>2, <1>3, VerInitInv, VerInvStep, PTL DEF VerSpec

-----------------------------------------------------------------------------
(* The pause flag and the log.                                             *)

(* A step of the other handlers: the flag, the log's pauses and those that *)
(* are between their two writes stay.                                      *)
LEMMA PauseKept ==
    ASSUME PauseInv, raced \subseteq raced', paused' = paused,
           raced' \cap PauseKinds = {} =>
             \A q \in Op :
               /\ ops'[q].st = "flagged" <=> ops[q].st = "flagged"
               /\ ops[q].st = "flagged"
                    => ops'[q].kind = ops[q].kind /\ (ops[q].dirty => ops'[q].dirty),
           LogMatches => LogMatches'
    PROVE  PauseInv'
BY DEF PauseInv, FlagIs

(* A switch's row says nothing about the pause.                            *)
LEMMA SwitchKeepsLog ==
    ASSUME audit \in Seq(AuditRecord), NEW row \in AuditRecord, row.action \notin PauseKinds,
           audit' = Append(audit, row), paused' = paused, raced \subseteq raced', LogMatches
    PROVE  LogMatches'
<1> DEFINE n == Len(audit)
<1>1. /\ n \in Nat /\ Len(audit') = n + 1 /\ audit'[n + 1] = row
      /\ \A i \in 1..n : audit'[i] = audit[i]
      /\ \A i \in 1..n : Latest(i, PauseKinds)' => Latest(i, PauseKinds)
  BY AppendEffect
<1>2. \A i \in 1..n + 1 : audit'[i].action \in PauseKinds => i \in 1..n
  BY <1>1
<1>3. \A i \in 1..n + 1 : Latest(i, PauseKinds)' => FlagIs(audit[i].action) /\ audit'[i] = audit[i]
  <2>1. \A i \in 1..n + 1 : Latest(i, PauseKinds)' => i \in 1..n
    BY <1>2 DEF Latest
  <2>2. QED
    BY <1>1, <2>1 DEF LogMatches
<1>4. (\A i \in 1..n + 1 : audit'[i].action \notin PauseKinds) => ~ paused
  <2>1. \A i \in 1..n : i \in 1..n + 1 /\ audit'[i] = audit[i]
    BY <1>1
  <2>2. QED
    BY <2>1 DEF LogMatches
<1>5. QED
  BY <1>1, <1>3, <1>4 DEF LogMatches, FlagIs

LEMMA PauseStep ==
    ASSUME VerInv, PauseInv, [VerNext]_verVars PROVE PauseInv'
<1>a. /\ ops \in [Op -> OpRecord] /\ audit \in Seq(AuditRecord)
      /\ TargetsNamed /\ raced \subseteq raced'
  BY RacedGrows DEF VerInv, VerTypeOK, OpRecord, AuditRecord
(* A commit that leaves the flag alone.                                    *)
<1>b. ASSUME NEW o \in Op, NEW family, Finish(o, family), ops[o].st # "flagged",
             paused' = paused, LogMatches => LogMatches'
      PROVE  PauseInv'
  <2>1. /\ ops'[o].st = "done"
        /\ \A q \in Op : q # o =>
             /\ ops'[q].st = ops[q].st /\ ops'[q].kind = ops[q].kind
             /\ ops[q].dirty => ops'[q].dirty
    BY <1>a, <1>b, FinishEffect
  <2>2. QED
    BY <1>a, <1>b, <2>1, PauseKept
<1>c. audit' = audit /\ paused' = paused => (LogMatches => LogMatches')
  BY <1>a DEF LogMatches, Latest, FlagIs
<1>1. ASSUME NEW o \in Op, NEW kind \in Kinds, NEW t \in 0..MaxVersion, Begin(o, kind, t)
      PROVE  PauseInv'
  <2>1. VerBlank("loaded") \in OpRecord /\ VerBlank("loaded").st = "loaded"
    BY BlankOp
  <2>2. /\ ops'[o].st # "flagged" /\ ops[o].st # "flagged"
        /\ \A q \in Op : q # o => ops'[q] = ops[q]
    BY <1>1, <1>a, <2>1 DEF Begin, OpRecord
  <2>3. audit' = audit /\ paused' = paused
    BY <1>1 DEF Begin
  <2>4. QED
    BY <1>a, <1>c, <2>2, <2>3, PauseKept
<1>2. ASSUME NEW o \in Op, CommitSeed(o)
      PROVE  PauseInv'
  BY <1>2, <1>b, <1>c DEF CommitSeed
<1>3. ASSUME NEW o \in Op, CommitCreate(o)
      PROVE  PauseInv'
  <2>1. PICK n \in Version : audit' = Append(audit, AuditRow(n, ops[o].prev, "activate"))
    BY <1>3 DEF CommitCreate, Free
  <2>2. /\ AuditRow(n, ops[o].prev, "activate") \in AuditRecord
        /\ AuditRow(n, ops[o].prev, "activate").action \notin PauseKinds
    BY <1>a DEF AuditRow, AuditRecord, OpRecord, PauseKinds
  <2>3. paused' = paused /\ Finish(o, RowKinds) /\ ops[o].st = "loaded"
    BY <1>3 DEF CommitCreate
  <2>4. LogMatches => LogMatches'
    BY <1>a, <2>1, <2>2, <2>3, SwitchKeepsLog
  <2>5. QED
    BY <1>b, <2>3, <2>4
<1>4. ASSUME NEW o \in Op, CommitRollback(o)
      PROVE  PauseInv'
  <2>1. ops[o].target \in Version
    BY <1>4, <1>a DEF CommitRollback, TargetsNamed, Naming
  <2> DEFINE row == AuditRow(ops[o].target, ops[o].prev, "rollback")
  <2>2. row \in AuditRecord /\ row.action \notin PauseKinds
    BY <1>a, <2>1 DEF AuditRow, AuditRecord, OpRecord, PauseKinds
  <2>3. /\ audit' = Append(audit, row) /\ paused' = paused
        /\ Finish(o, RowKinds) /\ ops[o].st = "loaded"
    BY <1>4 DEF CommitRollback
  <2> HIDE DEF row
  <2>4. LogMatches => LogMatches'
    BY <1>a, <2>2, <2>3, SwitchKeepsLog
  <2>5. QED
    BY <1>b, <2>3, <2>4
(* The Redis write: whoever is past it already has been overtaken.         *)
<1>5. ASSUME NEW o \in Op, NEW up \in BOOLEAN, SetPaused(o, up)
      PROVE  PauseInv'
  <2>1. SUFFICES ASSUME raced' \cap PauseKinds = {},
                        \A q \in Op : ops'[q].st = "flagged" => ~ ops'[q].dirty
                 PROVE  PauseInv'
    BY DEF PauseInv
  <2>2. up = TRUE /\ (paused' <=> ops[o].kind = "pause")
    BY <1>5, <2>1 DEF SetPaused
  <2>3. ops'[o].st = "flagged" /\ ops'[o].kind = ops[o].kind
    BY <1>5, <1>a DEF SetPaused, OpRecord
  <2>4. \A q \in Op : q # o => ops'[q].st # "flagged"
    BY <1>5, <1>a, <2>1 DEF SetPaused, OpRecord
  <2>5. ops[o].kind \in PauseKinds
    BY <1>5 DEF SetPaused
  <2>6. QED
    BY <2>2, <2>3, <2>4, <2>5 DEF PauseInv, FlagIs, PauseKinds
(* The audit row: the one pause between its writes ends.                   *)
<1>6. ASSUME NEW o \in Op, AuditPaused(o)
      PROVE  PauseInv'
  <2> DEFINE n == Len(audit)
             row == AuditRow(ops[o].target, 0, ops[o].kind)
  <2>1. SUFFICES ASSUME raced' \cap PauseKinds = {},
                        \A q \in Op : ops'[q].st = "flagged" => ~ ops'[q].dirty
                 PROVE  PauseInv'
    BY DEF PauseInv
  <2>2. /\ ops[o].st = "flagged" /\ ops[o].kind \in PauseKinds /\ ~ ops[o].dirty
        /\ paused' = paused /\ audit' = Append(audit, row)
    BY <1>6, <1>a, <2>1 DEF AuditPaused, TargetsNamed, NoteRace
  <2>3. ops'[o].st = "done" /\ \A q \in Op : q # o => ops'[q] = ops[q]
    <3>1. VerBlank("done").st = "done"
      BY BlankOp
    <3>2. QED
      BY <1>6, <1>a, <3>1 DEF AuditPaused, Finish
  <2>4. raced \cap PauseKinds = {} /\ \A q \in Op : ops[q].st = "flagged" => ~ ops[q].dirty
    BY <1>a, <2>1, <2>2, <2>3
  <2>5. /\ \A q \in Op : ops[q].st = "flagged" => q = o
        /\ FlagIs(ops[o].kind)
    BY <2>2, <2>4 DEF PauseInv
  <2>6. row \in AuditRecord /\ row.action = ops[o].kind
    BY <1>a, <2>2, VersionsAssumption
       DEF AuditRow, AuditRecord, TargetsNamed, Naming, PauseKinds
  <2> HIDE DEF row
  <2>7. /\ n \in Nat /\ Len(audit') = n + 1 /\ audit'[n + 1] = row
        /\ \A i \in 1..n : ~ Latest(i, PauseKinds)'
    BY <1>a, <2>2, <2>6, AppendEffect
  <2>8. LogMatches'
    <3>1. \A i \in 1..n + 1 : Latest(i, PauseKinds)' => i = n + 1
      BY <2>7
    <3>2. n + 1 \in 1..n + 1 /\ audit'[n + 1].action \in PauseKinds
      BY <2>2, <2>6, <2>7
    <3>3. audit'[n + 1].action = ops[o].kind
      BY <2>6, <2>7
    <3>4. /\ paused' => ops[o].kind = "pause"
          /\ ops[o].kind = "pause" => paused' \/ "lost" \in raced'
      BY <1>a, <2>2, <2>5 DEF FlagIs
    <3>5. \A i \in 1..n + 1 : Latest(i, PauseKinds)' =>
            /\ paused' => audit'[i].action = "pause"
            /\ audit'[i].action = "pause" => paused' \/ "lost" \in raced'
      BY <3>1, <3>3, <3>4
    <3>6. QED
      BY <2>7, <3>2, <3>5 DEF LogMatches, FlagIs
  <2>9. \A q \in Op : ops'[q].st # "flagged"
    BY <2>3, <2>5
  <2>10. QED
    BY <2>8, <2>9 DEF PauseInv
<1>7. ASSUME NEW o \in Op,
             \/ CommitVisionSeed(o) \/ CommitVisionActivate(o) \/ CommitVisionDelete(o)
             \/ VisionCreate(o)
      PROVE  PauseInv'
  BY <1>7, <1>b, <1>c DEF CommitVisionSeed, CommitVisionActivate, CommitVisionDelete,
                          VisionCreate
<1>8. ASSUME NEW o \in Op, Abandon(o)
      PROVE  PauseInv'
  <2>1. /\ ops'[o].st = "done" /\ \A q \in Op : q # o => ops'[q] = ops[q]
        /\ audit' = audit /\ paused' = paused
    <3>1. VerBlank("done").st = "done"
      BY BlankOp
    <3>2. QED
      BY <1>8, <1>a, <3>1 DEF Abandon
  <2>2. ops[o].st = "flagged" => raced' \cap PauseKinds # {}
    BY <1>8, <1>a DEF Abandon, TargetsNamed
  <2>3. QED
    BY <1>a, <1>c, <2>1, <2>2, PauseKept
<1>9. CASE UNCHANGED verVars
  <2>1. audit' = audit /\ paused' = paused /\ raced' = raced /\ ops' = ops
    BY <1>9 DEF verVars
  <2>2. LogMatches => LogMatches'
    BY <1>c, <2>1
  <2>3. \A q \in Op :
               /\ ops'[q].st = "flagged" <=> ops[q].st = "flagged"
               /\ ops[q].st = "flagged"
                    => ops'[q].kind = ops[q].kind /\ (ops[q].dirty => ops'[q].dirty)
    BY <2>1
  <2>4. raced \subseteq raced'
    BY <1>a
  <2>5. QED
    BY <2>1, <2>2, <2>3, <2>4, PauseKept
(* A flag that is lost is not found set.                                   *)
<1>10. CASE LosePaused
  <2>1. /\ audit' = audit /\ ops' = ops /\ paused' = FALSE /\ "lost" \in raced'
        /\ raced' \cap PauseKinds = raced \cap PauseKinds
    BY <1>10 DEF LosePaused, PauseKinds
  <2>2. \A kind : FlagIs(kind)'
    BY <2>1 DEF FlagIs
  <2>3. LogMatches'
    BY <2>1, <2>2 DEF LogMatches
  <2>4. QED
    BY <2>1, <2>2, <2>3 DEF PauseInv
<1>11. QED
  BY <1>1, <1>2, <1>3, <1>4, <1>5, <1>6, <1>7, <1>8, <1>9, <1>10 DEF VerNext

(* set_pipeline_paused writes Redis and then the log: when every pause and *)
(* resume got through alone, the last one logged is what the workers see.  *)
THEOREM PauseLogged == VerSpec => []PauseMatchesAudit
<1>1. VerInit => PauseInv
  <2>1. VerBlank("idle").st = "idle"
    BY BlankOp
  <2>2. QED
    BY <2>1 DEF VerInit, PauseInv, LogMatches
<1>2. VerInv /\ PauseInv /\ [VerNext]_verVars => PauseInv'
  BY PauseStep
<1>3. PauseInv => PauseMatchesAudit
  BY DEF PauseInv, PauseMatchesAudit
<1>4. QED
  BY <1>1, <1>2, <1>3, VerInitInv, VerInvStep, PTL DEF VerSpec
=============================================================================
