---------------------------- MODULE MCMobileSync ----------------------------
(***************************************************************************)
(* Small instances of MobileSync: one or two transactions and two payloads. *)
(***************************************************************************)
EXTENDS MobileSync

=============================================================================
