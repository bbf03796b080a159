------------------------------ MODULE MCPanel ------------------------------
(***************************************************************************)
(* The panel's components side by side: accounts, configuration versions,  *)
(* runtime settings, assets.  They share no state, so the run explores     *)
(* each with the others at rest: the sum of their state spaces instead of  *)
(* the product, which has the same projections.                            *)
(***************************************************************************)
EXTENDS AdminAccounts, ConfigVersions, SettingsCache, AssetStore, TLC

(* One of the initial states of the accounts is enough for the others.     *)
AccAtRest == AccInit /\ tokens = {<<Seed, 0>>}

PanelInit == AccInit /\ VerInit /\ SetInit /\ AssetInit

PanelNext ==
    \/ VerInit /\ SetInit /\ AssetInit /\ AccNext /\ UNCHANGED <<verVars, setVars, assetVars>>
    \/ AccAtRest /\ SetInit /\ AssetInit /\ VerNext /\ UNCHANGED <<accVars, setVars, assetVars>>
    \/ AccAtRest /\ VerInit /\ AssetInit /\ SetNext /\ UNCHANGED <<accVars, verVars, assetVars>>
    \/ AccAtRest /\ VerInit /\ SetInit /\ AssetNext /\ UNCHANGED <<accVars, verVars, setVars>>

PanelSpec == PanelInit /\ [][PanelNext]_<<accVars, verVars, setVars, assetVars>>

(* The type invariant of every component.                                  *)
PanelTypeOK == AccTypeOK /\ VerTypeOK /\ SetTypeOK /\ AssetTypeOK

(* Requests are interchangeable, and so are processes; the configuration   *)
(* names the requests and processes of all components with the same values. *)
Symmetry == Permutations(Req) \cup Permutations(Worker)
=============================================================================
