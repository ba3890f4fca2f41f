---------------------------- MODULE MCSyncServer ----------------------------
(***************************************************************************)
(* Small instances of SyncServer.  kA and kB are mutation keys of alice    *)
(* (say, from two devices), kX is a key of bob.  t1 is a transaction, b1   *)
(* and b2 are budgets.                                                     *)
(***************************************************************************)
EXTENDS SyncServer, TLC

CONSTANTS alice, bob, kA, kB, kX, t1, b1, b2

MCOwnerOf == kA :> alice @@ kB :> alice @@ kX :> bob

MCFixedOf ==
    "food" :> "manual" @@ "rent" :> "manual" @@ "card" :> "import"
      @@ "march100" :> "march" @@ "march200" :> "march" @@ "april100" :> "april"

Upsert(k, e, base, v) ==
    [key |-> k, ent |-> e, op |-> "upsert", base |-> base, val |-> v]

Remove(k, e, base) ==
    [key |-> k, ent |-> e, op |-> "delete", base |-> base, val |-> Nil]

\* kA creates t1, and is also sent once more with an edited body; kB edits or
\* deletes version 1, edits version 2, or sends an imported payload; bob tries
\* to change and to delete alice's row.
MCTransactionRequest ==
    { Upsert(kA, t1, 0, "food"), Upsert(kA, t1, 0, "rent"),
      Upsert(kB, t1, 1, "rent"), Upsert(kB, t1, 1, "card"), Remove(kB, t1, 1),
      Upsert(kB, t1, 2, "food"), Upsert(kB, t1, 0, "card"),
      Upsert(kX, t1, 1, "food"), Remove(kX, t1, 2) }

\* Two devices create a budget for the same month and scope; bob may own one
\* of the same scope; one mutation tries to move a budget to another month.
MCBudgetRequest ==
    { Upsert(kA, b1, 0, "march100"), Upsert(kB, b2, 0, "march200"),
      Upsert(kB, b1, 1, "march200"), Upsert(kB, b1, 1, "april100"),
      Remove(kA, b1, 1), Upsert(kX, b2, 0, "march100") }

\* Workers are alike; used by the run of safety properties only.
MCSymmetry == Permutations(Worker)
=============================================================================
