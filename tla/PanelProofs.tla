----------------------------- MODULE PanelProofs -----------------------------
(***************************************************************************)
(* Proofs about AssetStore, for any number of entries, objects and delete  *)
(* requests, and about the components of the panel side by side (MCPanel), *)
(* from the theorems of each.                                              *)
(***************************************************************************)
EXTENDS MCPanel, AdminAccountsProofs, ConfigVersionsProofs, SettingsCacheProofs, TLAPS

(* What a request may still rely on when nothing touched its object: its   *)
(* entry names the object, nobody else does when it is to be deleted, and  *)
(* somebody else does when it is to be kept.                               *)
CheckedHolds(d) ==
    dels[d].st = "checked" /\ ~ dels[d].dirty =>
      /\ dels[d].obj \in Object
      /\ url[dels[d].entry] = dels[d].obj
      /\ ~ \E f \in Entry \ {dels[d].entry} : url[f] = dels[d].obj

ClearingHolds(d) ==
    dels[d].st = "clearing" /\ ~ dels[d].dirty =>
      /\ dels[d].obj \in Object
      /\ url[dels[d].entry] = dels[d].obj
      /\ \/ dels[d].obj \notin objects
         \/ \E f \in Entry \ {dels[d].entry} : url[f] = dels[d].obj

(* Names in use were uploaded; a blank request holds no object.            *)
NamesUsed ==
    /\ \A e \in Entry : url[e] \in used \cup {NoUrl}
    /\ \A d \in Delete : dels[d].obj \in used \cup {NoUrl}
    /\ \A d \in Delete : dels[d].st \in {"idle", "done"} => dels[d].obj = NoUrl

(* The inductive invariant behind both properties of the asset columns.    *)
AssetInv ==
    /\ AssetTypeOK /\ NamesUsed
    /\ ~ upset => \A d \in Delete : CheckedHolds(d) /\ ClearingHolds(d)
    /\ NoDanglingUrl
    /\ NoOrphanObject

-----------------------------------------------------------------------------
(* A blank request is a request.                                           *)
LEMMA BlankType ==
    ASSUME NEW st \in {"idle", "checked", "clearing", "done"}
    PROVE  /\ DelBlank(st) \in [st : {"idle", "checked", "clearing", "done"}, entry : Entry,
                                obj : Object \cup {NoUrl}, dirty : BOOLEAN]
           /\ DelBlank(st).st = st /\ DelBlank(st).obj = NoUrl
<1>1. (CHOOSE e \in Entry : TRUE) \in Entry
  BY AssetAssumption
<1>2. QED
  BY <1>1 DEF DelBlank

(* Touch keeps everything of a request but its mark.                       *)
LEMMA TouchType ==
    ASSUME AssetTypeOK, NEW T
    PROVE  /\ Touch(T) \in [Delete -> [st : {"idle", "checked", "clearing", "done"},
                             entry : Entry, obj : Object \cup {NoUrl}, dirty : BOOLEAN]]
           /\ \A d \in Delete :
                /\ Touch(T)[d].st = dels[d].st /\ Touch(T)[d].obj = dels[d].obj
                /\ Touch(T)[d].entry = dels[d].entry
                /\ Touch(T)[d].dirty =
                     (dels[d].dirty \/ (dels[d].st # "idle" /\ dels[d].obj \in T))
BY DEF AssetTypeOK, Touch

LEMMA AssetInitInv == AssetInit => AssetInv
<1>1. SUFFICES ASSUME AssetInit PROVE AssetInv
  OBVIOUS
<1>2. /\ DelBlank("idle") \in [st : {"idle", "checked", "clearing", "done"}, entry : Entry,
                              obj : Object \cup {NoUrl}, dirty : BOOLEAN]
      /\ DelBlank("idle").st = "idle" /\ DelBlank("idle").obj = NoUrl
  BY BlankType
<1>3. AssetTypeOK /\ NamesUsed
  BY <1>1, <1>2 DEF AssetInit, AssetTypeOK, NamesUsed
<1>4. \A d \in Delete : CheckedHolds(d) /\ ClearingHolds(d)
  BY <1>1, <1>2 DEF AssetInit, CheckedHolds, ClearingHolds
<1>5. NoDanglingUrl /\ NoOrphanObject
  BY <1>1 DEF AssetInit, NoDanglingUrl, NoOrphanObject
<1>6. QED
  BY <1>3, <1>4, <1>5 DEF AssetInv

(* Types and names survive every step.                                     *)
LEMMA AssetTypeStep == AssetTypeOK /\ NamesUsed /\ [AssetNext]_assetVars => (AssetTypeOK /\ NamesUsed)'
<1> SUFFICES ASSUME AssetTypeOK, NamesUsed, [AssetNext]_assetVars
             PROVE  AssetTypeOK' /\ NamesUsed'
  OBVIOUS
<1> USE AssetAssumption
<1>b. /\ DelBlank("done") \in [st : {"idle", "checked", "clearing", "done"}, entry : Entry,
                              obj : Object \cup {NoUrl}, dirty : BOOLEAN]
      /\ DelBlank("done").st = "done" /\ DelBlank("done").obj = NoUrl
  BY BlankType
<1>1. ASSUME NEW e \in Entry, NEW o \in Object, Render(e, o)
      PROVE  AssetTypeOK' /\ NamesUsed'
  BY <1>1 DEF Render, AssetTypeOK, NamesUsed
<1>2. ASSUME NEW e \in Entry, NEW from \in Entry, Reuse(e, from)
      PROVE  AssetTypeOK' /\ NamesUsed'
  BY <1>2, TouchType DEF Reuse, AssetTypeOK, NamesUsed
<1>3. ASSUME NEW d \in Delete, NEW e \in Entry, CheckAsset(d, e)
      PROVE  AssetTypeOK' /\ NamesUsed'
  BY <1>3 DEF CheckAsset, AssetTypeOK, NamesUsed
<1>4. ASSUME NEW d \in Delete, DeleteObject(d)
      PROVE  AssetTypeOK' /\ NamesUsed'
  BY <1>4 DEF DeleteObject, AssetTypeOK, NamesUsed
<1>5. ASSUME NEW d \in Delete, DeleteFails(d)
      PROVE  AssetTypeOK' /\ NamesUsed'
  BY <1>5, <1>b DEF DeleteFails, AssetTypeOK, NamesUsed
<1>6. ASSUME NEW d \in Delete, ClearColumn(d)
      PROVE  AssetTypeOK' /\ NamesUsed'
  BY <1>6, <1>b, TouchType DEF ClearColumn, AssetTypeOK, NamesUsed
<1>7. ASSUME NEW d \in Delete, StopEarly(d)
      PROVE  AssetTypeOK' /\ NamesUsed'
  BY <1>7, <1>b DEF StopEarly, AssetTypeOK, NamesUsed
<1>8. CASE UNCHANGED assetVars
  BY <1>8 DEF assetVars, AssetTypeOK, NamesUsed
<1>9. QED
  BY <1>1, <1>2, <1>3, <1>4, <1>5, <1>6, <1>7, <1>8 DEF AssetNext

Holds == \A d \in Delete : CheckedHolds(d) /\ ClearingHolds(d)

(* What an untouched request relies on stays true, as long as no request   *)
(* went on after it was touched.                                           *)
LEMMA HoldsStep ==
    ASSUME AssetTypeOK, NamesUsed, Holds, AssetNext, ~ upset'
    PROVE  Holds'
<1> USE AssetAssumption DEF Holds, CheckedHolds, ClearingHolds
<1>1. ASSUME NEW e \in Entry, NEW o \in Object, Render(e, o)
      PROVE  Holds'
  BY <1>1 DEF Render, AssetTypeOK, NamesUsed
<1>2. ASSUME NEW e \in Entry, NEW from \in Entry, Reuse(e, from)
      PROVE  Holds'
  <2>1. ASSUME NEW d \in Delete, dels'[d].st \in {"checked", "clearing"}, ~ dels'[d].dirty
        PROVE  /\ dels'[d].st = dels[d].st /\ dels'[d].obj = dels[d].obj
               /\ dels'[d].entry = dels[d].entry /\ dels'[d].entry \in Entry
               /\ ~ dels[d].dirty /\ dels[d].obj # url[from]
    BY <1>2, <2>1, TouchType DEF Reuse, AssetTypeOK
  <2>2. url[e] = NoUrl /\ url' = [url EXCEPT ![e] = url[from]] /\ objects' = objects
    BY <1>2 DEF Reuse
  <2>3. ASSUME NEW c \in Delete, dels'[c].st \in {"checked", "clearing"}, ~ dels'[c].dirty
        PROVE  CheckedHolds(c)' /\ ClearingHolds(c)'
    <3>1. dels[c].obj \in Object /\ url[dels[c].entry] = dels[c].obj
      BY <2>1, <2>3
    <3>2. dels[c].obj # NoUrl /\ dels[c].obj # url[from]
      BY <2>1, <2>3, <3>1
    <3>3. \A f \in Entry : url'[f] = dels[c].obj <=> url[f] = dels[c].obj
      BY <2>2, <3>2 DEF AssetTypeOK
    <3>4. QED
      BY <2>1, <2>2, <2>3, <3>1, <3>3
  <2>4. QED
    BY <2>3
<1>3. ASSUME NEW d \in Delete, NEW e \in Entry, CheckAsset(d, e)
      PROVE  Holds'
  BY <1>3 DEF CheckAsset, Shared, AssetTypeOK
<1>4. ASSUME NEW d \in Delete, DeleteObject(d)
      PROVE  Holds'
  BY <1>4 DEF DeleteObject, AssetTypeOK
<1>5. ASSUME NEW d \in Delete, DeleteFails(d)
      PROVE  Holds'
  BY <1>5, BlankType DEF DeleteFails, AssetTypeOK
<1>6. ASSUME NEW d \in Delete, ClearColumn(d)
      PROVE  Holds'
  <2>1. ~ dels[d].dirty /\ url[dels[d].entry] = dels[d].obj
    BY <1>6 DEF ClearColumn, AssetTypeOK
  <2>2. ASSUME NEW c \in Delete, dels'[c].st \in {"checked", "clearing"}, ~ dels'[c].dirty
        PROVE  /\ dels'[c].st = dels[c].st /\ dels'[c].obj = dels[c].obj
               /\ dels'[c].entry = dels[c].entry /\ dels'[c].entry \in Entry
               /\ ~ dels[c].dirty /\ dels[c].obj # dels[d].obj
    BY <1>6, <2>2, TouchType, BlankType DEF ClearColumn, AssetTypeOK
  <2>3. /\ url' = [url EXCEPT ![dels[d].entry] = NoUrl] /\ objects' = objects
        /\ dels[d].entry \in Entry
    BY <1>6 DEF ClearColumn, AssetTypeOK
  <2>4. ASSUME NEW c \in Delete, dels'[c].st \in {"checked", "clearing"}, ~ dels'[c].dirty
        PROVE  CheckedHolds(c)' /\ ClearingHolds(c)'
    <3>1. dels[c].obj \in Object /\ url[dels[c].entry] = dels[c].obj
      BY <2>2, <2>4
    <3>2. dels[c].obj # NoUrl /\ dels[c].obj # dels[d].obj
      BY <2>2, <2>4, <3>1
    <3>3. \A f \in Entry : url'[f] = dels[c].obj <=> url[f] = dels[c].obj
      BY <2>1, <2>3, <3>2 DEF AssetTypeOK
    <3>4. QED
      BY <2>2, <2>3, <2>4, <3>1, <3>3
  <2>5. QED
    BY <2>4
<1>7. ASSUME NEW d \in Delete, StopEarly(d)
      PROVE  Holds'
  BY <1>7, BlankType DEF StopEarly, AssetTypeOK
<1>8. QED
  BY <1>1, <1>2, <1>3, <1>4, <1>5, <1>6, <1>7 DEF AssetNext

(* No step leaves an object without a column.                              *)
LEMMA OrphanStep ==
    ASSUME AssetTypeOK, NamesUsed, Holds, NoOrphanObject, AssetNext, ~ upset, ~ upset'
    PROVE  NoOrphanObject'
<1> USE AssetAssumption DEF NoOrphanObject, Refs, Holds, CheckedHolds, ClearingHolds
<1>1. ASSUME NEW e \in Entry, NEW o \in Object, Render(e, o)
      PROVE  NoOrphanObject'
  BY <1>1 DEF Render, AssetTypeOK
<1>2. ASSUME NEW e \in Entry, NEW from \in Entry, Reuse(e, from)
      PROVE  NoOrphanObject'
  BY <1>2 DEF Reuse, AssetTypeOK
<1>3. ASSUME NEW d \in Delete, NEW e \in Entry, CheckAsset(d, e)
      PROVE  NoOrphanObject'
  BY <1>3 DEF CheckAsset
<1>4. ASSUME NEW d \in Delete, DeleteObject(d)
      PROVE  NoOrphanObject'
  BY <1>4 DEF DeleteObject
<1>5. ASSUME NEW d \in Delete, DeleteFails(d)
      PROVE  NoOrphanObject'
  BY <1>5 DEF DeleteFails
<1>6. ASSUME NEW d \in Delete, ClearColumn(d)
      PROVE  NoOrphanObject'
  <2>1. /\ ~ dels[d].dirty /\ url[dels[d].entry] = dels[d].obj
        /\ \/ dels[d].obj \notin objects
           \/ \E f \in Entry \ {dels[d].entry} : url[f] = dels[d].obj
    BY <1>6 DEF ClearColumn
  <2>2. ASSUME NEW o \in objects'
        PROVE  \E f \in Entry : url'[f] = o
    <3>1. PICK f \in Entry : url[f] = o
      BY <1>6, <2>2 DEF ClearColumn
    <3>2. CASE f = dels[d].entry
      BY <1>6, <2>1, <2>2, <3>1, <3>2 DEF ClearColumn, AssetTypeOK
    <3>3. CASE f # dels[d].entry
      BY <1>6, <3>1, <3>3 DEF ClearColumn, AssetTypeOK
    <3>4. QED
      BY <3>2, <3>3
  <2>3. QED
    BY <2>2
<1>7. ASSUME NEW d \in Delete, StopEarly(d)
      PROVE  NoOrphanObject'
  BY <1>7 DEF StopEarly
<1>8. QED
  BY <1>1, <1>2, <1>3, <1>4, <1>5, <1>6, <1>7 DEF AssetNext

(* The excuses a column that names a missing object may have.              *)
Excused(e) ==
    \/ url[e] \in objects \cup {NoUrl} \/ e \in cut
    \/ \E d \in Delete :
         /\ dels[d].st = "clearing" /\ dels[d].obj = url[e]
         /\ dels[d].entry = e \/ dels[d].dirty

LEMMA DanglingStep ==
    ASSUME AssetTypeOK, NamesUsed, Holds, NoDanglingUrl, AssetNext, ~ upset, ~ upset'
    PROVE  NoDanglingUrl'
<1> USE AssetAssumption DEF Holds, CheckedHolds, ClearingHolds
<1>0. SUFFICES ASSUME NEW e \in Entry PROVE Excused(e)'
  BY DEF NoDanglingUrl, Excused
<1>a. \A x \in Entry : Excused(x)
  BY DEF NoDanglingUrl, Excused
<1>1. ASSUME NEW x \in Entry, NEW o \in Object, Render(x, o)
      PROVE  Excused(e)'
  BY <1>1, <1>a DEF Render, AssetTypeOK, Excused
<1>2. ASSUME NEW x \in Entry, NEW from \in Entry, Reuse(x, from)
      PROVE  Excused(e)'
  <2>1. \A d \in Delete : /\ dels'[d].st = dels[d].st /\ dels'[d].obj = dels[d].obj
                          /\ dels'[d].entry = dels[d].entry
                          /\ dels[d].dirty => dels'[d].dirty
                          /\ dels[d].st # "idle" /\ dels[d].obj = url[from] => dels'[d].dirty
    BY <1>2, TouchType DEF Reuse
  <2>2. CASE e = x
    <3>1. url'[e] = url[from] /\ objects' = objects /\ (from \in cut => e \in cut')
      BY <1>2, <2>2 DEF Reuse, AssetTypeOK
    <3>2. QED
      BY <1>a, <2>1, <3>1 DEF Excused
  <2>3. CASE e # x
    <3>1. url'[e] = url[e] /\ objects' = objects /\ (e \in cut => e \in cut')
      BY <1>2, <2>3 DEF Reuse, AssetTypeOK
    <3>2. QED
      BY <1>a, <2>1, <3>1 DEF Excused
  <2>4. QED
    BY <2>2, <2>3
<1>3. ASSUME NEW d \in Delete, NEW x \in Entry, CheckAsset(d, x)
      PROVE  Excused(e)'
  BY <1>3, <1>a DEF CheckAsset, AssetTypeOK, Excused
<1>4. ASSUME NEW d \in Delete, DeleteObject(d)
      PROVE  Excused(e)'
  <2>1. ~ dels[d].dirty /\ dels'[d] = [dels[d] EXCEPT !.st = "clearing"]
    BY <1>4 DEF DeleteObject, AssetTypeOK
  <2>2. \A c \in Delete : c # d => dels'[c] = dels[c]
    BY <1>4 DEF DeleteObject, AssetTypeOK
  <2>3. CASE url[e] = dels[d].obj
    BY <1>4, <2>1, <2>3 DEF DeleteObject, AssetTypeOK, Excused
  <2>4. CASE url[e] # dels[d].obj
    BY <1>4, <1>a, <2>2, <2>4 DEF DeleteObject, AssetTypeOK, Excused
  <2>5. QED
    BY <2>3, <2>4
<1>5. ASSUME NEW d \in Delete, DeleteFails(d)
      PROVE  Excused(e)'
  BY <1>5, <1>a DEF DeleteFails, AssetTypeOK, Excused
<1>6. ASSUME NEW d \in Delete, ClearColumn(d)
      PROVE  Excused(e)'
  <2>1. ~ dels[d].dirty /\ d \in Delete
    BY <1>6 DEF ClearColumn
  <2>2. CASE e = dels[d].entry
    BY <1>6, <2>2 DEF ClearColumn, AssetTypeOK, Excused
  <2>3. CASE e # dels[d].entry
    <3>1. url'[e] = url[e] /\ objects' = objects /\ (e \in cut => e \in cut')
      BY <1>6, <2>3 DEF ClearColumn, AssetTypeOK
    <3>2. \A c \in Delete : c # d =>
             /\ dels'[c].st = dels[c].st /\ dels'[c].obj = dels[c].obj
             /\ dels'[c].entry = dels[c].entry /\ (dels[c].dirty => dels'[c].dirty)
      BY <1>6, TouchType DEF ClearColumn
    <3>3. QED
      BY <1>a, <2>1, <2>3, <3>1, <3>2 DEF Excused
  <2>4. QED
    BY <2>2, <2>3
<1>7. ASSUME NEW d \in Delete, StopEarly(d)
      PROVE  Excused(e)'
  <2>1. ~ dels[d].dirty
    BY <1>7 DEF StopEarly
  <2>2. \A c \in Delete : c # d => dels'[c] = dels[c]
    BY <1>7 DEF StopEarly, AssetTypeOK
  <2>3. CASE e = dels[d].entry
    BY <1>7, <2>3 DEF StopEarly, AssetTypeOK, Excused
  <2>4. CASE e # dels[d].entry
    BY <1>7, <1>a, <2>1, <2>2, <2>4 DEF StopEarly, AssetTypeOK, Excused
  <2>5. QED
    BY <2>3, <2>4
<1>8. QED
  BY <1>1, <1>2, <1>3, <1>4, <1>5, <1>6, <1>7 DEF AssetNext

(* A request that went on after its object was touched stays on record.    *)
LEMMA UpsetStays == AssetTypeOK /\ [AssetNext]_assetVars /\ upset => upset'
BY DEF AssetNext, assetVars, AssetTypeOK, Render, Reuse, CheckAsset, DeleteObject, DeleteFails,
       ClearColumn, StopEarly

(* AssetInv is inductive.                                                  *)
LEMMA AssetInvStep == AssetInv /\ [AssetNext]_assetVars => AssetInv'
<1> SUFFICES ASSUME AssetInv, [AssetNext]_assetVars PROVE AssetInv'
  OBVIOUS
<1>1. (AssetTypeOK /\ NamesUsed)'
  BY AssetTypeStep DEF AssetInv
<1>2. CASE AssetNext
  <2>1. CASE upset'
    BY <1>1, <2>1 DEF AssetInv, NoDanglingUrl, NoOrphanObject
  <2>2. CASE ~ upset'
    <3>1. ~ upset
      BY <2>2, UpsetStays DEF AssetInv
    <3>2. Holds
      BY <3>1 DEF AssetInv, Holds
    <3>3. Holds' /\ NoOrphanObject' /\ NoDanglingUrl'
      BY <1>2, <2>2, <3>1, <3>2, HoldsStep, OrphanStep, DanglingStep DEF AssetInv
    <3>4. QED
      BY <1>1, <3>3 DEF AssetInv, Holds
  <2>3. QED
    BY <2>1, <2>2
<1>3. CASE UNCHANGED assetVars
  BY <1>1, <1>3 DEF assetVars, AssetInv, CheckedHolds, ClearingHolds, NoDanglingUrl, NoOrphanObject, Refs
<1>4. QED
  BY <1>2, <1>3

(* delete_job_asset, for any number of entries, objects and requests: only *)
(* the entry whose own deletion is under way or was cut short names an     *)
(* object that is gone.                                                    *)
THEOREM NoDanglingUrlHolds == AssetSpec => []NoDanglingUrl
<1>1. AssetInv => NoDanglingUrl
  BY DEF AssetInv
<1>2. QED
  BY <1>1, AssetInitInv, AssetInvStep, PTL DEF AssetSpec

(* ... and no object is left that no column names, crashes and S3 errors   *)
(* included; both outside the overlaps that the properties name.           *)
THEOREM NoOrphanObjectHolds == AssetSpec => []NoOrphanObject
<1>1. AssetInv => NoOrphanObject
  BY DEF AssetInv
<1>2. QED
  BY <1>1, AssetInitInv, AssetInvStep, PTL DEF AssetSpec

-----------------------------------------------------------------------------
(* The panel as a whole.                                                   *)

(* The run explores the components one at a time; what it explores of each *)
(* is a behaviour of that component's own specification, so that the       *)
(* theorems about the components hold of the panel.                        *)
THEOREM PanelImplementsComponents == PanelSpec => AccSpec /\ VerSpec /\ SetSpec /\ AssetSpec
<1>1. PanelInit => AccInit /\ VerInit /\ SetInit /\ AssetInit
  BY DEF PanelInit
<1>2. [PanelNext]_<<accVars, verVars, setVars, assetVars>>
        => /\ [AccNext]_accVars /\ [VerNext]_verVars
           /\ [SetNext]_setVars /\ [AssetNext]_assetVars
  BY DEF PanelNext
<1>3. QED
  BY <1>1, <1>2, PTL DEF PanelSpec, AccSpec, VerSpec, SetSpec, AssetSpec

(* Accounts, versions, settings and assets all stay well formed.           *)
THEOREM PanelTyped == PanelSpec => []PanelTypeOK
<1>1. AssetSpec => []AssetTypeOK
  <2>1. AssetInv => AssetTypeOK
    BY DEF AssetInv
  <2>2. QED
    BY <2>1, AssetInitInv, AssetInvStep, PTL DEF AssetSpec
<1>2. AccTypeOK /\ VerTypeOK /\ SetTypeOK /\ AssetTypeOK => PanelTypeOK
  BY DEF PanelTypeOK
<1>3. QED
  BY <1>1, <1>2, PanelImplementsComponents, AccountsTyped, VersionsTyped, SettingsTyped, PTL
=============================================================================
