--------------------------- MODULE ConfigVersions ---------------------------
(***************************************************************************)
(* The versioned configuration of the panel: pipeline_config rows with     *)
(* their audit log and the pause flag (routers/config.py,                  *)
(* services/config_service.py), and vision_config rows                     *)
(* (services/vision_service.py, routers/vision.py).                        *)
(*                                                                         *)
(* An operation reads in one step what its transaction's snapshot shows    *)
(* and commits in a later one.  The bulk UPDATE of the active rows is a    *)
(* current read whose row and gap locks are held until the commit, so it   *)
(* and the writes that follow it are one step; a deadlock or any other     *)
(* exception there rolls everything back.                                  *)
(***************************************************************************)
EXTENDS Naturals, Sequences, FiniteSets

CONSTANTS
    Op,         \* operations; each runs once (a bound)
    MaxVersion  \* bound on rows per table

ASSUME VersionsAssumption == MaxVersion \in Nat \ {0}

VARIABLES
    conf,       \* pipeline_config: state of each id
    vis,        \* vision_config: state of each id
    audit,      \* config_audit
    paused,     \* Redis flag pipeline_paused
    ops,        \* operations in progress
    raced       \* kinds of operation that committed over a later change;
                \* "lost" once Redis lost the pause flag

verVars == <<conf, vis, audit, paused, ops, raced>>

Version == 1..MaxVersion

RowKinds == {"seed", "create", "rollback"}
PauseKinds == {"pause", "resume"}
VisionKinds == {"vseed", "vactivate", "vdelete"}
Kinds == RowKinds \cup PauseKinds \cup VisionKinds

Active(tbl) == {i \in Version : tbl[i] = "active"}

(* Rows are inserted under increasing ids.                                 *)
Free(tbl) == {i \in Version : \A j \in Version : (tbl[j] # "none") => j < i}

Newest(tbl) == {i \in Active(tbl) : \A j \in Active(tbl) : j <= i}

(* get_active_config, get_active_vision; 0 when there is none.             *)
GetActive(tbl) ==
    IF Newest(tbl) = {} THEN 0 ELSE CHOOSE i \in Newest(tbl) : TRUE

VerBlank(st) == [st |-> st, kind |-> "seed", target |-> 0, prev |-> 0, dirty |-> FALSE]

(* A plausible slip: the row becomes active, the others stay.              *)
ActivateToo(tbl, t) == [tbl EXCEPT ![t] = "active"]

(* A plausible slip: the version replaced is deleted, not deactivated.     *)
SwitchDrops(tbl, t) ==
    [i \in Version |-> IF i = t THEN "active"
                       ELSE IF tbl[i] = "active" THEN "deleted" ELSE tbl[i]]

(* Bulk UPDATE of the active rows to inactive, then row t becomes active.  *)
SwitchTo(tbl, t) ==
    [i \in Version |-> IF i = t THEN "active"
                       ELSE IF tbl[i] = "active" THEN "inactive" ELSE tbl[i]]

(* A plausible slip: the previous row is read after the switch.            *)
AuditRowLate(config, prev, action) ==
    [config |-> config, prev |-> config, action |-> action]

AuditRow(config, prev, action) == [config |-> config, prev |-> prev, action |-> action]

-----------------------------------------------------------------------------
VerInit ==
    /\ conf = [i \in Version |-> "none"]
    /\ vis = [i \in Version |-> "none"]
    /\ audit = <<>>
    /\ paused = FALSE
    /\ ops = [o \in Op |-> VerBlank("idle")]
    /\ raced = {}

(* The checks of each handler on what its snapshot shows; t is the row the *)
(* request names, or 0.                                                    *)
Admissible(kind, t) ==
    \/ kind = "seed" /\ t = 0 /\ GetActive(conf) = 0
    \/ kind = "create" /\ t = 0
    \/ kind = "rollback" /\ t # 0 /\ conf[t] # "none" /\ GetActive(conf) # t
    \/ kind \in PauseKinds /\ t # 0 /\ GetActive(conf) = t
    \/ kind = "vseed" /\ t = 0 /\ GetActive(vis) = 0
    \/ kind = "vactivate" /\ t # 0 /\ vis[t] \in {"active", "inactive"}
    \/ kind = "vdelete" /\ t # 0 /\ vis[t] = "inactive"

Begin(o, kind, t) ==
    /\ ops[o].st = "idle"
    /\ Admissible(kind, t)
    /\ ops' = [ops EXCEPT ![o] = [VerBlank("loaded") EXCEPT
                 !.kind = kind, !.target = t, !.prev = GetActive(conf)]]
    /\ UNCHANGED <<conf, vis, audit, paused, raced>>

(* o ends; operations on the same table that have already read are now     *)
(* working from an outdated view.                                          *)
Finish(o, family) ==
    ops' = [q \in Op |->
              IF q = o THEN VerBlank("done")
              ELSE IF ops[q].st # "idle" /\ ops[q].kind \in family
                   THEN [ops[q] EXCEPT !.dirty = TRUE] ELSE ops[q]]

NoteRace(o) ==
    raced' = IF ops[o].dirty THEN raced \cup {ops[o].kind} ELSE raced

(* ensure_default_config: no active row was seen, so one is inserted.      *)
CommitSeed(o) ==
    /\ ops[o].st = "loaded" /\ ops[o].kind = "seed"
    /\ \E n \in Free(conf) :
         /\ \A m \in Free(conf) : n <= m
         /\ conf' = [conf EXCEPT ![n] = "active"]
    /\ Finish(o, RowKinds) /\ NoteRace(o)
    /\ UNCHANGED <<vis, audit, paused>>

(* create_and_activate: switch to a new row and record it.                 *)
CommitCreate(o) ==
    /\ ops[o].st = "loaded" /\ ops[o].kind = "create"
    /\ \E n \in Free(conf) :
         /\ \A m \in Free(conf) : n <= m
         /\ conf' = SwitchTo(conf, n)
         /\ audit' = Append(audit, AuditRow(n, ops[o].prev, "activate"))
    /\ Finish(o, RowKinds) /\ NoteRace(o)
    /\ UNCHANGED <<vis, paused>>

(* rollback_config: switch to the loaded row and record it.                *)
CommitRollback(o) ==
    /\ ops[o].st = "loaded" /\ ops[o].kind = "rollback"
    /\ conf' = SwitchTo(conf, ops[o].target)
    /\ audit' = Append(audit, AuditRow(ops[o].target, ops[o].prev, "rollback"))
    /\ Finish(o, RowKinds) /\ NoteRace(o)
    /\ UNCHANGED <<vis, paused>>

(* set_pipeline_paused: the Redis flag first.  set_flag returns FALSE when *)
(* Redis is unreachable and the handler does not look; then the audit row  *)
(* is written for a flag that did not move.                                *)
SetPaused(o, up) ==
    /\ ops[o].st = "loaded" /\ ops[o].kind \in PauseKinds
    /\ paused' = IF up THEN ops[o].kind = "pause" ELSE paused
    /\ ops' = [q \in Op |->
                 IF q = o THEN [ops[o] EXCEPT !.st = "flagged"]
                 ELSE IF ops[q].st = "flagged" THEN [ops[q] EXCEPT !.dirty = TRUE]
                 ELSE ops[q]]
    /\ raced' = IF up THEN raced ELSE raced \cup {ops[o].kind}
    /\ UNCHANGED <<conf, vis, audit>>

(* Redis loses the flag: a missing flag reads as not paused.  One that     *)
(* cannot be read reads the same way, for as long as it cannot.            *)
LosePaused ==
    /\ paused /\ paused' = FALSE
    /\ raced' = raced \cup {"lost"}
    /\ UNCHANGED <<conf, vis, audit, ops>>

(* A plausible slip: every use of the switch is recorded as a pause.       *)
AuditPausedAsPause(o) ==
    /\ ops[o].st = "flagged"
    /\ audit' = Append(audit, AuditRow(ops[o].target, 0, "pause"))
    /\ Finish(o, {}) /\ NoteRace(o)
    /\ UNCHANGED <<conf, vis, paused>>

(* The audit row, in the handler's own transaction.                        *)
AuditPaused(o) ==
    /\ ops[o].st = "flagged"
    /\ audit' = Append(audit, AuditRow(ops[o].target, 0, ops[o].kind))
    /\ Finish(o, {}) /\ NoteRace(o)
    /\ UNCHANGED <<conf, vis, paused>>

(* ensure_default_vision, at start or from check_photo.                    *)
CommitVisionSeed(o) ==
    /\ ops[o].st = "loaded" /\ ops[o].kind = "vseed"
    /\ \E n \in Free(vis) :
         /\ \A m \in Free(vis) : n <= m
         /\ vis' = [vis EXCEPT ![n] = "active"]
    /\ Finish(o, VisionKinds) /\ NoteRace(o)
    /\ UNCHANGED <<conf, audit, paused>>

(* activate_vision; the UPDATE of a row deleted meanwhile matches nothing  *)
(* and the transaction fails.                                              *)
CommitVisionActivate(o) ==
    /\ ops[o].st = "loaded" /\ ops[o].kind = "vactivate"
    /\ vis[ops[o].target] # "deleted"
    /\ vis' = SwitchTo(vis, ops[o].target)
    /\ Finish(o, VisionKinds) /\ NoteRace(o)
    /\ UNCHANGED <<conf, audit, paused>>

(* delete_vision: the row was inactive when it was read; the DELETE goes   *)
(* by id and does not look again.                                          *)
CommitVisionDelete(o) ==
    /\ ops[o].st = "loaded" /\ ops[o].kind = "vdelete"
    /\ vis' = [vis EXCEPT ![ops[o].target] = "deleted"]
    /\ Finish(o, VisionKinds) /\ NoteRace(o)
    /\ UNCHANGED <<conf, audit, paused>>

(* create_and_activate_vision reads nothing beforehand.                    *)
VisionCreate(o) ==
    /\ ops[o].st = "idle"
    /\ \E n \in Free(vis) :
         /\ \A m \in Free(vis) : n <= m
         /\ vis' = SwitchTo(vis, n)
    /\ Finish(o, VisionKinds)
    /\ UNCHANGED <<conf, audit, paused, raced>>

(* The operation fails or its process dies before the commit.              *)
Abandon(o) ==
    /\ ops[o].st \in {"loaded", "flagged"}
    /\ ops' = [ops EXCEPT ![o] = VerBlank("done")]
    /\ raced' = IF ops[o].st = "flagged" THEN raced \cup {ops[o].kind} ELSE raced
    /\ UNCHANGED <<conf, vis, audit, paused>>

VerNext ==
    \/ \E o \in Op :
         \/ \E kind \in Kinds, t \in 0..MaxVersion : Begin(o, kind, t)
         \/ CommitSeed(o)
         \/ CommitCreate(o)
         \/ CommitRollback(o)
         \/ \E up \in BOOLEAN : SetPaused(o, up)
         \/ AuditPaused(o)
         \/ CommitVisionSeed(o)
         \/ CommitVisionActivate(o)
         \/ CommitVisionDelete(o)
         \/ VisionCreate(o)
         \/ Abandon(o)
    \/ LosePaused

VerSpec == VerInit /\ [][VerNext]_verVars

-----------------------------------------------------------------------------
(* Type invariant of the versions.                                         *)
VerTypeOK ==
    /\ conf \in [Version -> {"none", "active", "inactive"}]
    /\ vis \in [Version -> {"none", "active", "inactive", "deleted"}]
    /\ audit \in Seq([config : Version, prev : 0..MaxVersion,
                      action : {"activate", "rollback", "pause", "resume"}])
    /\ paused \in BOOLEAN
    /\ ops \in [Op -> [st : {"idle", "loaded", "flagged", "done"}, kind : Kinds,
                       target : 0..MaxVersion, prev : 0..MaxVersion, dirty : BOOLEAN]]
    /\ raced \subseteq Kinds \cup {"lost"}

OneActive(tbl) ==
    /\ \A i, j \in Active(tbl) : i = j
    /\ (\E i \in Version : tbl[i] # "none") => Active(tbl) # {}

(* "Exactly one row is_active=1 at a time": saves and rollbacks that       *)
(* overlap never leave two active rows nor none.  Only a default seeded    *)
(* over a row that appeared meanwhile can, and for the vision table also a *)
(* deletion that overlapped an activation.                                 *)
VersionsOneActive ==
    /\ "seed" \notin raced => OneActive(conf)
    /\ raced \cap {"vseed", "vdelete"} = {} => OneActive(vis)

SwitchActions == {"activate", "rollback"}

(* Row i of the log is the last one of these kinds; k is the next after i. *)
Latest(i, kinds) ==
    audit[i].action \in kinds /\ \A m \in i + 1..Len(audit) : audit[m].action \notin kinds
Follows(i, k, kinds) ==
    /\ i < k /\ audit[i].action \in kinds /\ audit[k].action \in kinds
    /\ \A m \in i + 1..k - 1 : audit[m].action \notin kinds

(* config_audit.prev_config_id is "the row deactivated": the audit log is  *)
(* a chain in which each switch starts at the row the switch before it     *)
(* went to, unless a switch or a seed overlapped another.                  *)
AuditIsChain ==
    raced \cap RowKinds = {} =>
      \A i, k \in 1..Len(audit) :
        Follows(i, k, SwitchActions) => audit[k].prev = audit[i].config

(* The flag is as an operation of this kind leaves it, or has been lost.   *)
FlagIs(kind) ==
    /\ paused => kind = "pause"
    /\ kind = "pause" => paused \/ "lost" \in raced

LogMatches ==
    /\ \A i \in 1..Len(audit) : Latest(i, PauseKinds) => FlagIs(audit[i].action)
    /\ (\A i \in 1..Len(audit) : audit[i].action \notin PauseKinds) => ~ paused

(* The last pause or resume in the audit log is what the pipeline sees,    *)
(* unless one is between its two writes, was cut there, overlapped another *)
(* or was recorded although Redis did not take it.  When Redis loses the   *)
(* flag, a pipeline logged as paused runs, but one logged as resumed is    *)
(* never found paused.                                                     *)
PauseMatchesAudit ==
    \/ raced \cap PauseKinds # {}
    \/ \E o \in Op : ops[o].st = "flagged"
    \/ LogMatches
=============================================================================
