--------------------------- MODULE MCMobileSession ---------------------------
(***************************************************************************)
(* Small instances of MobileSession: two accounts that take turns on one   *)
(* device, a sync run and one other task.  The accounts are alike.         *)
(***************************************************************************)
EXTENDS MobileSession, TLC

MCSymmetry == Permutations(Account)
=============================================================================
