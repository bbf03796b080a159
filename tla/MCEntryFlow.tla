----------------------------- MODULE MCEntryFlow -----------------------------
(***************************************************************************)
(* Instances of EntryFlow for TLC.  Requests are interchangeable; numbers  *)
(* are, too, as long as the three lists do not tell them apart.            *)
(***************************************************************************)
EXTENDS EntryFlow, TLC

RequestSymmetry == Permutations(Reqs)
=============================================================================
