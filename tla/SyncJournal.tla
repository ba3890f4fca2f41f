----------------------------- MODULE SyncJournal -----------------------------
(***************************************************************************)
(* The change journal of sync-v1 and its readers: database transactions    *)
(* append changes through the triggers of migration 0011, devices copy the *)
(* table in pages (bootstrap) and then follow the journal (pull).          *)
(*                                                                         *)
(* A change gets its sequence number when it is written (an identity       *)
(* column) and becomes visible when its transaction commits, so numbers    *)
(* may become visible out of order: a transaction that numbered its        *)
(* changes early may commit after one that numbered later.                 *)
(*                                                                         *)
(* The versions of a row count up from 1 and start again when a deleted id  *)
(* is pushed anew, so a version names no state of the row: here a state is  *)
(* named by the change that wrote it.                                      *)
(***************************************************************************)
EXTENDS Naturals, FiniteSets, FiniteSetsExt

CONSTANTS
    Entity,    \* ids of rows, in the order bootstrap pages them
    Account,   \* accounts, each with one device that reads
    ScopeOf,   \* the account an id belongs to, or Shared
    Shared,    \* scope_user_id NULL: visible to every account
    Writer,    \* database sessions that write
    PageSize,  \* limit
    MaxWrites, \* bound: changes written
    Nil        \* no row, no cursor, no snapshot token

ASSUME SyncJournalAssumption ==
    /\ Entity \subseteq Nat \ {0}
    /\ ScopeOf \in [Entity -> Account \cup {Shared}]
    /\ Shared \notin Account
    /\ PageSize \in Nat \ {0} /\ MaxWrites \in Nat
    /\ Nil \notin Nat /\ Nil \notin [high : Nat, last : Nat, more : BOOLEAN]
    /\ Nil \notin [seq : Nat, ent : Entity, op : {"upsert", "delete"}, ver : Nat]

Version == 1..MaxWrites

Change == [seq : 1..MaxWrites, ent : Entity, op : {"upsert", "delete"}, ver : Version]

VARIABLES
    rows,      \* committed state of each row: the change that wrote it, or Nil
    journal,   \* committed changes
    lastSeq,   \* the identity column's generator; it does not roll back
    open,      \* uncommitted changes of each session
    replica,   \* state of each row on each device, or Nil
    cursor,    \* stored cursor of each device, or Nil
    snapshot,  \* bootstrap under way: high water, last id seen, more to come
    late       \* history: changes that became visible after a higher number

vars == <<rows, journal, lastSeq, open, replica, cursor, snapshot, late>>

Init ==
    /\ rows = [e \in Entity |-> Nil]
    /\ journal = {}
    /\ lastSeq = 0
    /\ open = [w \in Writer |-> {}]
    /\ replica = [d \in Account |-> [e \in Entity |-> Nil]]
    /\ cursor = [d \in Account |-> Nil]
    /\ snapshot = [d \in Account |-> Nil]
    /\ late = {}

Visible(d, e) == ScopeOf[e] \in {d, Shared}

Of(e, changes) == {c \in changes : c.ent = e}

Newest(changes) == CHOOSE c \in changes : \A o \in changes : o.seq <= c.seq

\* The state these changes of one row leave it in.
Left(changes) ==
    IF changes = {} \/ Newest(changes).op = "delete" THEN Nil ELSE Newest(changes)

-----------------------------------------------------------------------------
(* Writers *)

\* The row as the session sees it.
Sees(w, e) ==
    IF Of(e, open[w]) = {} THEN rows[e] ELSE Left(Of(e, open[w]))

\* Mutant: the row is written without its lock.
UnlockedAlways(w, e) == e \in Entity

\* A written row stays locked until its transaction ends.
Unlocked(w, e) == \A o \in Writer \ {w} : Of(e, open[o]) = {}

\* A row is written and the trigger numbers and journals the change.  A create
\* is accepted whenever the id has no row, also after a deletion; its number is
\* drawn in the step that gets past the unique index.
Write(w, e, op) ==
    /\ lastSeq < MaxWrites
    /\ Unlocked(w, e)
    /\ Sees(w, e) = Nil => op = "upsert"
    /\ lastSeq' = lastSeq + 1
    /\ open' = [open EXCEPT ![w] = @ \cup
         {[seq |-> lastSeq + 1, ent |-> e, op |-> op,
           ver |-> IF Sees(w, e) = Nil THEN 1 ELSE Sees(w, e).ver + 1]}]
    /\ UNCHANGED <<rows, journal, replica, cursor, snapshot, late>>

Commit(w) ==
    /\ open[w] # {}
    /\ rows' = [e \in Entity |-> Sees(w, e)]
    /\ journal' = journal \cup open[w]
    /\ open' = [open EXCEPT ![w] = {}]
    /\ late' = late \cup {c \in open[w] : \E o \in journal : o.seq > c.seq}
    /\ UNCHANGED <<lastSeq, replica, cursor, snapshot>>

Rollback(w) ==
    /\ open[w] # {}
    /\ open' = [open EXCEPT ![w] = {}]
    /\ UNCHANGED <<rows, journal, lastSeq, replica, cursor, snapshot, late>>

-----------------------------------------------------------------------------
(* Readers *)

Highest(changes) == IF changes = {} THEN 0 ELSE Newest(changes).seq

\* Mutant: every page takes a new high water.
TokenRenewed(d) ==
    [high |-> Highest(journal), last |-> IF snapshot[d] = Nil THEN 0 ELSE snapshot[d].last,
     more |-> TRUE]

\* The first call takes the high water of the whole journal, whatever its
\* scope; the following ones carry it in their tokens.
Token(d) ==
    IF snapshot[d] = Nil THEN [high |-> Highest(journal), last |-> 0, more |-> TRUE]
    ELSE snapshot[d]

\* One bootstrap page: the next rows by id, as committed now.
BootstrapPage(d) ==
    LET ahead == {e \in Entity : Visible(d, e) /\ rows[e] # Nil /\ e > Token(d).last}
        ids == {e \in ahead : Cardinality({o \in ahead : o <= e}) <= PageSize} IN
    /\ cursor[d] = Nil
    /\ Token(d).more
    /\ replica' = [replica EXCEPT ![d] = [e \in Entity |-> IF e \in ids THEN rows[e] ELSE @[e]]]
    /\ snapshot' = [snapshot EXCEPT ![d] =
         [Token(d) EXCEPT !.last = IF ids = {} THEN @ ELSE Max(ids),
                          !.more = ids # ahead]]
    /\ UNCHANGED <<rows, journal, lastSeq, open, cursor, late>>

EstablishCursor(d) ==
    /\ snapshot[d] # Nil
    /\ ~ snapshot[d].more
    /\ cursor' = [cursor EXCEPT ![d] = snapshot[d].high]
    /\ snapshot' = [snapshot EXCEPT ![d] = Nil]
    /\ UNCHANGED <<rows, journal, lastSeq, open, replica, late>>

\* Mutant: the scope is filtered after the limit was applied.
PageFilteredLate(d) ==
    LET later == {c \in journal : c.seq > cursor[d]} IN
    {c \in later : /\ Visible(d, c.ent)
                   /\ Cardinality({o \in later : o.seq <= c.seq}) <= PageSize}

\* The first visible changes after the cursor.
Page(d) ==
    LET later == {c \in journal : Visible(d, c.ent) /\ c.seq > cursor[d]} IN
    {c \in later : Cardinality({o \in later : o.seq <= c.seq}) <= PageSize}

\* One pull page: its changes are applied in order and the cursor of the last
\* one is stored; an empty page leaves the cursor.
Pull(d) ==
    LET page == Page(d) IN
    /\ cursor[d] # Nil
    /\ page # {}
    /\ replica' = [replica EXCEPT ![d] =
         [e \in Entity |-> IF Of(e, page) = {} THEN @[e] ELSE Left(Of(e, page))]]
    /\ cursor' = [cursor EXCEPT ![d] = Highest(page)]
    /\ UNCHANGED <<rows, journal, lastSeq, open, snapshot, late>>

Read(d) == BootstrapPage(d) \/ EstablishCursor(d) \/ Pull(d)

Next ==
    \/ \E w \in Writer : \/ \E e \in Entity, op \in {"upsert", "delete"} : Write(w, e, op)
                         \/ Commit(w) \/ Rollback(w)
    \/ \E d \in Account : Read(d)

Spec == Init /\ [][Next]_vars

\* Devices go on reading; writers may stop at any point.
FairSpec == Spec /\ \A d \in Account : WF_vars(Read(d))

-----------------------------------------------------------------------------
(* Properties *)

TypeOK ==
    /\ rows \in [Entity -> Change \cup {Nil}]
    /\ journal \subseteq Change
    /\ lastSeq \in 0..MaxWrites
    /\ open \in [Writer -> SUBSET Change]
    /\ replica \in [Account -> [Entity -> Change \cup {Nil}]]
    /\ cursor \in [Account -> 0..MaxWrites \cup {Nil}]
    /\ snapshot \in [Account -> [high : 0..MaxWrites, last : Entity \cup {0},
                                 more : BOOLEAN] \cup {Nil}]
    /\ late \subseteq journal

\* Every change written, committed or not.
Written == journal \cup UNION {open[w] : w \in Writer}

\* In the order of their numbers the changes of a row, committed or not, are
\* one history of it: each starts from the state the ones before it leave, and
\* its version is the next of that state, or 1 when there is no row.
RowsHaveOneHistory ==
    \A c \in Written :
        LET past == Left({o \in Of(c.ent, Written) : o.seq < c.seq}) IN
        IF past = Nil THEN c.op = "upsert" /\ c.ver = 1 ELSE c.ver = past.ver + 1

\* The table is what the journal leaves, and a device holds states that were
\* committed.
RowsFollow == \A e \in Entity : rows[e] = Left(Of(e, journal))

CopiesCommitted ==
    \A d \in Account, e \in Entity :
        replica[d][e] # Nil => replica[d][e] \in Of(e, journal) /\ replica[d][e].op = "upsert"

\* The journal orders each row's changes whichever transactions overlap and
\* however often the id is deleted and created anew, so that a device may apply
\* a page in the order of the numbers without comparing versions (migration
\* 0011; mobile/src/sync/applyChanges.ts).
JournalOrdered == TypeOK /\ RowsHaveOneHistory /\ RowsFollow /\ CopiesCommitted

\* Device d has what change c made of row e, or a later state of the row.
Reflects(d, e, c) ==
    IF replica[d][e] = Nil
    THEN \E o \in Of(e, journal) : o.op = "delete" /\ o.seq >= c.seq
    ELSE replica[d][e].seq >= c.seq

SeenOf(d, e) == {c \in Of(e, journal) : c.seq <= cursor[d]}

\* Paging, the snapshot's high water and the changes of other accounts lose
\* nothing: a device lacks a visible change behind its cursor only when the
\* change became visible after one with a higher number.
OnlyLateChangesMissing ==
    \A d \in Account : cursor[d] # Nil =>
        \A e \in Entity :
            Visible(d, e) /\ SeenOf(d, e) # {} /\ Newest(SeenOf(d, e)) \notin late
                => Reflects(d, e, Newest(SeenOf(d, e)))

\* docs/mobile-offline-first.md: "changes committed during bootstrap are not
\* lost between the snapshot and the first delta pull", and ROADMAP.md on the
\* pull: "no gaps/duplicates".  A device has every visible committed change
\* up to its cursor, or a later state of the row.
NoGapBehindCursor ==
    \A d \in Account : cursor[d] # Nil =>
        \A e \in Entity :
            Visible(d, e) /\ SeenOf(d, e) # {} => Reflects(d, e, Newest(SeenOf(d, e)))

\* Every visible change gets behind the cursor of every device once nothing
\* more is committed, however many changes of other accounts lie between them.
EveryCursorPasses ==
    \A d \in Account :
        <>[][~ \E w \in Writer : Commit(w)]_vars =>
            <>[](\A c \in journal : Visible(d, c.ent) => cursor[d] # Nil /\ cursor[d] >= c.seq)
=============================================================================
