--------------------------- MODULE VersionedStore ---------------------------
(***************************************************************************)
(* What the synchronization server promises, without locks, threads or     *)
(* database transactions: a table of versioned rows, and for every         *)
(* mutation key one outcome, recorded once.  A mutation changes its row    *)
(* only in the step that records it as applied, and only when its base     *)
(* version is the version of the row it replaces.                          *)
(*                                                                         *)
(* SyncServer (backend/app/services/sync_service.py) implements it.        *)
(***************************************************************************)
EXTENDS Naturals

CONSTANTS
    Entity,    \* identifiers of the synchronized rows
    Key,       \* mutation keys: one per (user, device, mutationId)
    User,      \* accounts
    OwnerOf,   \* the account a mutation key belongs to
    Value,     \* payloads
    Request,   \* the mutation bodies clients may send
    Nil        \* no row, no outcome

VARIABLES
    rows,      \* the committed row of each entity, or Nil
    outcomes   \* the recorded outcome of each mutation key, or Nil

vars == <<rows, outcomes>>

Row == [owner : User, ver : Nat \ {0}, val : Value]

\* The row an accepted mutation leaves behind.  An update that changes
\* nothing keeps the version, an insert starts at version 1.
RowAfter(r, old) ==
    CASE r.op = "delete" -> Nil
      [] r.op = "upsert" /\ old = Nil ->
            [owner |-> OwnerOf[r.key], ver |-> 1, val |-> r.val]
      [] r.op = "upsert" /\ old # Nil /\ old.val = r.val -> old
      [] r.op = "upsert" /\ old # Nil /\ old.val # r.val ->
            [owner |-> old.owner, ver |-> old.ver + 1, val |-> r.val]

\* The version the client is told: the row's, or its tombstone's.
VersionAfter(r, old) ==
    IF r.op = "delete" THEN old.ver + 1 ELSE RowAfter(r, old).ver

\* The row the client had in mind when it wrote the mutation: none for a
\* create (base 0), its own row at the base version otherwise.
BaseMatches(r, old) ==
    \/ /\ r.base = 0
       /\ r.op = "upsert"
       /\ old = Nil
    \/ /\ old # Nil
       /\ old.owner = OwnerOf[r.key]
       /\ old.ver = r.base

Init ==
    /\ rows = [e \in Entity |-> Nil]
    /\ outcomes = [k \in Key |-> Nil]

Apply(r) ==
    /\ outcomes[r.key] = Nil
    /\ BaseMatches(r, rows[r.ent])
    /\ rows' = [rows EXCEPT ![r.ent] = RowAfter(r, rows[r.ent])]
    /\ outcomes' = [outcomes EXCEPT ![r.key] =
                      [req |-> r, status |-> "applied",
                       ver |-> VersionAfter(r, rows[r.ent])]]

Refuse(r) ==
    /\ outcomes[r.key] = Nil
    /\ outcomes' = [outcomes EXCEPT ![r.key] = outcomes'[r.key]]
    /\ outcomes'[r.key] \in
         [req : {r}, status : {"conflict", "rejected"}, ver : Nat]
    /\ UNCHANGED rows

\* A write that does not come through synchronization: the web application.
External(e) ==
    /\ \/ /\ rows[e] = Nil
          /\ \E u \in User, v \in Value :
               rows' = [rows EXCEPT ![e] = [owner |-> u, ver |-> 1, val |-> v]]
       \/ /\ rows[e] # Nil
          /\ \E v \in Value :
               rows' = [rows EXCEPT ![e] = [owner |-> rows[e].owner,
                                            ver |-> rows[e].ver + 1, val |-> v]]
       \/ /\ rows[e] # Nil
          /\ rows' = [rows EXCEPT ![e] = Nil]
    /\ UNCHANGED outcomes

Next ==
    \/ \E r \in Request : Apply(r) \/ Refuse(r)
    \/ \E e \in Entity : External(e)

Spec == Init /\ [][Next]_vars
=============================================================================
