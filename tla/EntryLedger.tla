----------------------------- MODULE EntryLedger -----------------------------
(***************************************************************************)
(* What the entry service promises about the counter of plates, with no    *)
(* request, transaction or retry in sight: a photo is stored, an entry is  *)
(* recorded for a stored photo, and recording the entry awards its plate   *)
(* in the same indivisible step.  Nothing else earns a plate this way, and *)
(* an entry is never taken back.                                           *)
(***************************************************************************)
EXTENDS Naturals

CONSTANT Ids            \* what an entry can be numbered with

VARIABLES stored,       \* the ids whose photo is in the bucket
          entries,      \* the ids that have a jobs row
          plates        \* share_events rows on the video_request channel

ledgerVars == <<stored, entries, plates>>

LedgerInit == stored = {} /\ entries = {} /\ plates = 0

StorePhoto(i) ==
  /\ stored' = stored \union {i}
  /\ UNCHANGED <<entries, plates>>

Enter(i) ==
  /\ i \in stored \ entries
  /\ entries' = entries \union {i}
  /\ plates' = plates + 1
  /\ UNCHANGED stored

LedgerNext == \E i \in Ids : StorePhoto(i) \/ Enter(i)

LedgerSpec == LedgerInit /\ [][LedgerNext]_ledgerVars
=============================================================================
