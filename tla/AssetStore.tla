----------------------------- MODULE AssetStore -----------------------------
(***************************************************************************)
(* Deleting one generated asset of an entry (routers/jobs.py,              *)
(* delete_job_asset): a shared-reference check, the S3 deletion, then the  *)
(* cleared column, while the renderer writes and reuses asset columns.     *)
(* One deletable column per entry; the others are alike.                   *)
(***************************************************************************)
EXTENDS FiniteSets

CONSTANTS
    Entry,      \* job_assets rows
    Object,     \* S3 objects; a URL is never used for two of them
    NoUrl,      \* NULL
    Delete      \* delete requests; each runs once (a bound)

ASSUME AssetAssumption == NoUrl \notin Object /\ Entry # {}

VARIABLES
    url,        \* the asset column of each entry
    objects,    \* objects present in the bucket
    used,       \* objects ever uploaded
    dels,       \* delete requests in progress
    cut,        \* entries whose URL was left behind by a request that stopped
                \* after the S3 deletion, or copied from such an entry
    upset       \* a request went on after its column or object had changed

assetVars == <<url, objects, used, dels, cut, upset>>

Refs(o) == {e \in Entry : url[e] = o}

(* A request that holds nothing; its entry has no meaning.                 *)
DelBlank(st) ==
    [st |-> st, entry |-> CHOOSE e \in Entry : TRUE, obj |-> NoUrl, dirty |-> FALSE]

(* What an entry's change of its column does to the requests that checked  *)
(* the object it names or named.                                           *)
Touch(touched) ==
    [d \in Delete |->
        IF dels[d].st # "idle" /\ dels[d].obj \in touched
        THEN [dels[d] EXCEPT !.dirty = TRUE] ELSE dels[d]]

AssetInit ==
    /\ url = [e \in Entry |-> NoUrl]
    /\ objects = {} /\ used = {}
    /\ dels = [d \in Delete |-> DelBlank("idle")]
    /\ cut = {} /\ upset = FALSE

(* External: the renderer uploads an asset and sets the column.            *)
Render(e, o) ==
    /\ o \notin used
    /\ url[e] = NoUrl
    /\ url' = [url EXCEPT ![e] = o]
    /\ objects' = objects \cup {o}
    /\ used' = used \cup {o}
    /\ UNCHANGED <<dels, cut, upset>>

(* External: a repeat entry reuses an earlier entry's rendered asset.      *)
Reuse(e, from) ==
    /\ url[e] = NoUrl /\ url[from] # NoUrl
    /\ url' = [url EXCEPT ![e] = url[from]]
    /\ cut' = IF from \in cut THEN cut \cup {e} ELSE cut
    /\ dels' = Touch({url[from]})
    /\ UNCHANGED <<objects, used, upset>>

(* A plausible slip: no other entry is looked at.                          *)
SharedNever(e) == FALSE

(* Another entry names the same object.                                    *)
Shared(e) == \E f \in Entry \ {e} : url[f] = url[e]

CheckAsset(d, e) ==
    /\ dels[d].st = "idle"
    /\ url[e] # NoUrl
    /\ dels' = [dels EXCEPT ![d] = [st |-> IF Shared(e) THEN "clearing" ELSE "checked",
                                    entry |-> e, obj |-> url[e], dirty |-> FALSE]]
    /\ UNCHANGED <<url, objects, used, cut, upset>>

(* S3 first; deleting an object that is gone already succeeds.             *)
DeleteObject(d) ==
    /\ dels[d].st = "checked"
    /\ objects' = objects \ {dels[d].obj}
    /\ dels' = [dels EXCEPT ![d].st = "clearing"]
    /\ upset' = (upset \/ dels[d].dirty)
    /\ UNCHANGED <<url, used, cut>>

(* A plausible slip: the S3 error is logged and the column cleared anyway. *)
DeleteFailsSwallowed(d) ==
    LET e == dels[d].entry IN
    /\ dels[d].st = "checked"
    /\ url' = [url EXCEPT ![e] = NoUrl]
    /\ dels' = [dels EXCEPT ![d] = DelBlank("done")]
    /\ upset' = (upset \/ dels[d].dirty)
    /\ UNCHANGED <<objects, used, cut>>

(* delete_from_s3 raises: 502, nothing was changed.                        *)
DeleteFails(d) ==
    /\ dels[d].st = "checked"
    /\ dels' = [dels EXCEPT ![d] = DelBlank("done")]
    /\ UNCHANGED <<url, objects, used, cut, upset>>

(* The column is set to NULL, whatever it holds by then.                   *)
ClearColumn(d) ==
    LET e == dels[d].entry IN
    /\ dels[d].st = "clearing"
    /\ url' = [url EXCEPT ![e] = NoUrl]
    /\ cut' = cut \ {e}
    /\ dels' = [Touch({dels[d].obj}) EXCEPT ![d] = DelBlank("done")]
    /\ upset' = (upset \/ dels[d].dirty)
    /\ UNCHANGED <<objects, used>>

(* The commit fails or the process dies before it.                         *)
StopEarly(d) ==
    /\ dels[d].st = "clearing"
    /\ dels' = [dels EXCEPT ![d] = DelBlank("done")]
    /\ cut' = IF url[dels[d].entry] \in objects \cup {NoUrl} THEN cut ELSE cut \cup {dels[d].entry}
    /\ upset' = (upset \/ dels[d].dirty)
    /\ UNCHANGED <<url, objects, used>>

AssetNext ==
    \/ \E e \in Entry, o \in Object : Render(e, o)
    \/ \E e, from \in Entry : Reuse(e, from)
    \/ \E d \in Delete :
         \/ \E e \in Entry : CheckAsset(d, e)
         \/ DeleteObject(d)
         \/ DeleteFails(d)
         \/ ClearColumn(d)
         \/ StopEarly(d)

AssetSpec == AssetInit /\ [][AssetNext]_assetVars

-----------------------------------------------------------------------------
(* Type invariant of the assets.                                           *)
AssetTypeOK ==
    /\ url \in [Entry -> Object \cup {NoUrl}]
    /\ objects \subseteq used /\ used \subseteq Object
    /\ dels \in [Delete -> [st : {"idle", "checked", "clearing", "done"}, entry : Entry,
                            obj : Object \cup {NoUrl}, dirty : BOOLEAN]]
    /\ cut \subseteq Entry
    /\ upset \in BOOLEAN

(* Deleting an asset never breaks another entry's: a column names a        *)
(* missing object only while, or after, its own deletion stopped between   *)
(* the two steps (the call can be retried), unless a column named or       *)
(* stopped naming the object between a check and what followed from it.    *)
NoDanglingUrl ==
    ~ upset =>
      \A e \in Entry :
        url[e] \in objects \cup {NoUrl} \/ e \in cut
        \/ \E d \in Delete :
             /\ dels[d].st = "clearing" /\ dels[d].obj = url[e]
             /\ dels[d].entry = e \/ dels[d].dirty

(* "The other order would drop the URL and leave an object nothing points  *)
(* at": this order leaves none, crashes and S3 errors included, with the   *)
(* same exception.                                                         *)
NoOrphanObject == ~ upset => \A o \in objects : Refs(o) # {}
=============================================================================
