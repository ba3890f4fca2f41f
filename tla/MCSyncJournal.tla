---------------------------- MODULE MCSyncJournal ----------------------------
(***************************************************************************)
(* Two accounts that share a system category: row 1 is shared, row 2        *)
(* belongs to the first account.                                           *)
(***************************************************************************)
EXTENDS SyncJournal, TLC

CONSTANTS u1, u2, w1, w2, shared

MCScopeOf == (1 :> shared) @@ (2 :> u1)
=============================================================================
