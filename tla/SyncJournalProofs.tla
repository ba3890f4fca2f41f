-------------------------- MODULE SyncJournalProofs --------------------------
(***************************************************************************)
(* Theorems about SyncJournal for any number of writers, devices and rows, *)
(* any page size and any number of changes.                                *)
(***************************************************************************)
EXTENDS SyncJournal, NaturalSets, FiniteSetTheorems

-----------------------------------------------------------------------------
(* The inductive invariant of the writers *)

\* Numbers are given once, and never smaller than the version they carry.
Numbered ==
    /\ \A c \in Written : c.seq <= lastSeq /\ c.ver <= c.seq
    /\ \A c, o \in Written : c.seq = o.seq => c = o

\* An open change is the only session's of its row, and newer than what is
\* committed of it.
RowsLocked ==
    /\ \A w, v \in Writer : \A c \in open[w], o \in open[v] : c.ent = o.ent => w = v
    /\ \A w \in Writer : \A c \in open[w], o \in journal : c.ent = o.ent => o.seq < c.seq

WInv ==
    /\ TypeOK
    /\ Numbered
    /\ RowsLocked
    /\ RowsFollow
    /\ RowsHaveOneHistory
    /\ CopiesCommitted

-----------------------------------------------------------------------------
(* The inductive invariant of the readers *)

\* What device d has taken in: up to which number, and of which rows.
Upto(d) == IF cursor[d] # Nil THEN cursor[d] ELSE snapshot[d].high

Covered(d, e) ==
    \/ cursor[d] # Nil
    \/ snapshot[d] # Nil /\ (~ snapshot[d].more \/ e <= snapshot[d].last)

Taken(d, e) == {c \in Of(e, journal) : c.seq <= Upto(d)}

ReaderStands(d) ==
    /\ cursor[d] # Nil => snapshot[d] = Nil
    /\ cursor[d] # Nil \/ snapshot[d] # Nil =>
         Upto(d) = 0 \/ \E o \in journal : o.seq >= Upto(d)
    /\ \A e \in Entity :
         Visible(d, e) /\ Covered(d, e) =>
           (Taken(d, e) # {} /\ Newest(Taken(d, e)) \notin late
              => Reflects(d, e, Newest(Taken(d, e))))
    /\ \A e \in Entity : ~ Covered(d, e) => replica[d][e] = Nil

ReadersStand == \A d \in Account : ReaderStands(d)

-----------------------------------------------------------------------------
(* The newest of a set of changes *)

LEMMA Constants ==
    /\ Entity \subseteq Nat \ {0} /\ PageSize \in Nat \ {0} /\ MaxWrites \in Nat
    /\ Nil \notin Nat /\ Nil \notin [high : Nat, last : Nat, more : BOOLEAN]
    /\ Version \subseteq Nat /\ Nil \notin Version /\ Nil \notin Change
<1>1. Entity \subseteq Nat \ {0} /\ MaxWrites \in Nat
  BY SyncJournalAssumption
<1>2. Change \subseteq [seq : Nat, ent : Entity, op : {"upsert", "delete"}, ver : Nat]
  BY <1>1 DEF Change, Version
<1> QED  BY <1>1, <1>2, SyncJournalAssumption DEF Version

LEMMA NewestIn ==
    ASSUME NEW S \in SUBSET Change, S # {}
    PROVE  /\ Newest(S) \in S
           /\ \A o \in S : o.seq <= Newest(S).seq
<1> DEFINE T == {c.seq : c \in S}
<1>1. \A c \in S : c.seq \in Nat /\ c.seq <= MaxWrites
  BY Constants DEF Change
<1>2. T \in SUBSET Nat /\ T # {} /\ \A y \in T : y <= MaxWrites
  BY <1>1
<1> HIDE DEF T
<1>3. PICK x \in T : \A y \in T : y <= x
  BY <1>2, GreatestElement, Constants
<1> USE DEF T
<1>4. PICK c \in S : x = c.seq
  OBVIOUS
<1>5. \A o \in S : o.seq <= c.seq
  BY <1>3, <1>4
<1> QED  BY <1>4, <1>5 DEF Newest

\* With numbers given once there is one newest change.
LEMMA NewestIs ==
    ASSUME NEW S \in SUBSET Written, Numbered, TypeOK,
           NEW c \in S, \A o \in S : o.seq <= c.seq
    PROVE  Newest(S) = c
<1>1. S \in SUBSET Change
  BY DEF TypeOK, Written
<1>2. Newest(S) \in S /\ c.seq <= Newest(S).seq /\ Newest(S).seq <= c.seq
  BY <1>1, NewestIn
<1>3. c.seq \in Nat /\ Newest(S).seq \in Nat
  BY <1>1, <1>2, Constants DEF Change
<1>4. c.seq = Newest(S).seq
  BY <1>2, <1>3
<1> QED  BY <1>2, <1>4 DEF Numbered

LEMMA WrittenType ==
    ASSUME TypeOK
    PROVE  /\ journal \subseteq Written /\ Written \subseteq Change
           /\ \A w \in Writer : open[w] \subseteq Written
           /\ \A c \in Written : /\ c \in Change /\ c.ent \in Entity
                                 /\ c.seq \in Nat /\ c.ver \in Nat \ {0}
                                 /\ c.ver \in Version
                                 /\ c.op \in {"upsert", "delete"}
           /\ lastSeq \in Nat
BY Constants DEF TypeOK, Written, Change, Version

LEMMA LeftType ==
    ASSUME NEW S \in SUBSET Change
    PROVE  /\ Left(S) \in Change \cup {Nil}
           /\ Left(S) # Nil => Left(S) \in S /\ Left(S).op = "upsert"
<1>1. CASE S = {}
  BY <1>1 DEF Left
<1>2. CASE S # {}
  <2>1. Newest(S) \in Change /\ Newest(S) \in S
    BY <1>2, NewestIn
  <2>2. Newest(S).op \in {"upsert", "delete"}
    BY <2>1 DEF Change
  <2> QED  BY <1>2, <2>1, <2>2 DEF Left
<1> QED  BY <1>1, <1>2

\* A session that finds a row unlocked sees the newest change written of it.
LEMMA SeesNewest ==
    ASSUME WInv, NEW w \in Writer, NEW e \in Entity, Unlocked(w, e)
    PROVE  Sees(w, e) = Left(Of(e, Written))
<1> DEFINE mine == Of(e, open[w])
<1>1. TypeOK /\ Numbered
  BY DEF WInv
<1>2. Of(e, Written) = Of(e, journal) \cup mine
  BY DEF Written, Unlocked, Of
<1>3. CASE mine = {}
  BY <1>2, <1>3 DEF Sees, WInv, RowsFollow, Left
<1>4. CASE mine # {}
  <2>1. mine \in SUBSET Change
    BY <1>1, WrittenType DEF Of
  <2>2. Newest(mine) \in mine /\ \A o \in mine : o.seq <= Newest(mine).seq
    BY <1>4, <2>1, NewestIn
  <2>3. \A o \in Of(e, journal) : o.seq < Newest(mine).seq
    BY <2>2 DEF WInv, RowsLocked, Of
  <2>4. \A o \in Of(e, Written) : o.seq <= Newest(mine).seq
    BY <1>1, <1>2, <2>1, <2>2, <2>3, WrittenType DEF Of
  <2>5. Of(e, Written) \in SUBSET Written /\ Newest(mine) \in Of(e, Written)
    BY <1>2, <2>2 DEF Of
  <2>6. Newest(Of(e, Written)) = Newest(mine)
    BY <1>1, <2>4, <2>5, NewestIs
  <2> QED  BY <1>4, <2>5, <2>6 DEF Sees, Left
<1> QED  BY <1>3, <1>4

\* What a session publishes is what its changes leave of the committed rows.
LEMMA SeesCommitted ==
    ASSUME WInv, NEW w \in Writer, NEW e \in Entity
    PROVE  Sees(w, e) = Left(Of(e, journal \cup open[w]))
<1> DEFINE mine == Of(e, open[w])
           all == Of(e, journal \cup open[w])
<1>1. TypeOK /\ Numbered
  BY DEF WInv
<1>2. all = Of(e, journal) \cup mine
  BY DEF Of
<1>3. CASE mine = {}
  BY <1>2, <1>3 DEF Sees, WInv, RowsFollow, Left
<1>4. CASE mine # {}
  <2>1. mine \in SUBSET Change
    BY <1>1, WrittenType DEF Of
  <2>2. Newest(mine) \in mine /\ \A o \in mine : o.seq <= Newest(mine).seq
    BY <1>4, <2>1, NewestIn
  <2>3. \A o \in Of(e, journal) : o.seq < Newest(mine).seq
    BY <2>2 DEF WInv, RowsLocked, Of
  <2>4. \A o \in all : o.seq <= Newest(mine).seq
    BY <1>1, <1>2, <2>1, <2>2, <2>3, WrittenType DEF Of
  <2>5. all \in SUBSET Written /\ Newest(mine) \in all
    BY <1>1, <1>2, <2>2, WrittenType DEF Of
  <2>6. Newest(all) = Newest(mine)
    BY <1>1, <2>4, <2>5, NewestIs
  <2> QED  BY <1>4, <2>5, <2>6 DEF Sees, Left
<1> QED  BY <1>3, <1>4

-----------------------------------------------------------------------------
(* Writers *)

\* The change a write adds is newer than every other, and its version the next
\* of its row.
LEMMA WriteOK ==
    ASSUME WInv, NEW w \in Writer, NEW e \in Entity,
           NEW op \in {"upsert", "delete"}, Write(w, e, op)
    PROVE  WInv'
<1> DEFINE v == IF Sees(w, e) = Nil THEN 1 ELSE Sees(w, e).ver + 1
<1>1. TypeOK /\ Numbered /\ RowsLocked /\ RowsHaveOneHistory /\ CopiesCommitted
  BY DEF WInv
<1>2. /\ lastSeq < MaxWrites /\ lastSeq' = lastSeq + 1 /\ Unlocked(w, e)
      /\ Sees(w, e) = Nil => op = "upsert"
      /\ UNCHANGED <<rows, journal, replica, cursor, snapshot, late>>
  BY DEF Write
<1>3. Of(e, Written) \in SUBSET Change /\ Sees(w, e) = Left(Of(e, Written))
  BY <1>1, <1>2, SeesNewest, WrittenType DEF Of
<1>4. v \in Nat \ {0} /\ v <= lastSeq + 1
  <2>1. CASE Sees(w, e) = Nil
    BY <1>1, <2>1, WrittenType
  <2>2. CASE Sees(w, e) # Nil
    <3>1. PICK n \in Written : Sees(w, e) = n
      BY <1>3, <2>2, LeftType DEF Of
    <3>2. n.ver \in Nat /\ n.seq \in Nat /\ n.ver <= n.seq /\ n.seq <= lastSeq
          /\ lastSeq \in Nat
      BY <1>1, WrittenType DEF Numbered
    <3> QED  BY <2>2, <3>1, <3>2
  <2> QED  BY <2>1, <2>2
<1>5. /\ Sees(w, e) = Nil => v = 1
      /\ Sees(w, e) # Nil => v = Sees(w, e).ver + 1
  OBVIOUS
<1> HIDE DEF v
<1>6. PICK c \in Change : c = [seq |-> lastSeq + 1, ent |-> e, op |-> op, ver |-> v]
  <2>1. lastSeq + 1 \in 1..MaxWrites /\ v \in Version
    BY <1>1, <1>2, <1>4, Constants, WrittenType DEF Version
  <2> QED  BY <2>1 DEF Change
<1>7. c.seq = lastSeq + 1 /\ c.ent = e /\ c.op = op /\ c.ver = v
  BY <1>6
<1>8. open' = [open EXCEPT ![w] = @ \cup {c}]
  BY <1>6 DEF Write, v
<1>9. /\ \A u \in Writer : open'[u] = IF u = w THEN open[w] \cup {c} ELSE open[u]
      /\ open' \in [Writer -> SUBSET Change]
  BY <1>1, <1>8 DEF TypeOK
<1>10. Written' = Written \cup {c}
  BY <1>2, <1>9 DEF Written
<1>11. lastSeq \in Nat /\ \A o \in Written : o.seq \in Nat /\ o.seq <= lastSeq
  BY <1>1, WrittenType DEF Numbered
<1>12. TypeOK'
  <2>1. lastSeq' \in 0..MaxWrites
    BY <1>2, <1>11, Constants
  <2> QED  BY <1>1, <1>2, <1>9, <2>1 DEF TypeOK
<1>13. Numbered'
  BY <1>1, <1>2, <1>4, <1>7, <1>10, <1>11 DEF Numbered
<1>14. RowsLocked'
  <2>1. \A o \in journal : o.seq < c.seq
    BY <1>7, <1>11 DEF Written
  <2>2. \A u \in Writer \ {w} : \A o \in open[u] : o.ent # e
    BY <1>2 DEF Unlocked, Of
  <2> QED  BY <1>1, <1>2, <1>7, <1>9, <2>1, <2>2 DEF RowsLocked
<1>15. CopiesCommitted'
  BY <1>1, <1>2 DEF CopiesCommitted
<1>16. RowsFollow'
  BY <1>2 DEF WInv, RowsFollow
<1>17. RowsHaveOneHistory'
  <2> DEFINE Past(x, all) == {o \in Of(x.ent, all) : o.seq < x.seq}
  <2>1. SUFFICES ASSUME NEW x \in Written \cup {c}
                 PROVE  IF Left(Past(x, Written \cup {c})) = Nil
                          THEN x.op = "upsert" /\ x.ver = 1
                          ELSE x.ver = Left(Past(x, Written \cup {c})).ver + 1
    BY <1>10 DEF RowsHaveOneHistory
  <2>2. CASE x \in Written
    <3>1. Past(x, Written \cup {c}) = Past(x, Written)
      BY <1>7, <1>11, <2>2 DEF Of
    <3> QED  BY <1>1, <2>2, <3>1 DEF RowsHaveOneHistory
  <2>3. CASE x = c
    <3>1. Past(c, Written \cup {c}) = Of(e, Written)
      BY <1>7, <1>11 DEF Of
    <3> QED  BY <1>2, <1>3, <1>5, <1>7, <2>3, <3>1
  <2> QED  BY <2>1, <2>2, <2>3
<1> QED  BY <1>12, <1>13, <1>14, <1>15, <1>16, <1>17 DEF WInv

\* A commit publishes, in one step, changes that were ordered already.
LEMMA CommitOK ==
    ASSUME WInv, NEW w \in Writer, Commit(w)
    PROVE  WInv'
<1>1. TypeOK /\ Numbered /\ RowsLocked /\ RowsHaveOneHistory /\ CopiesCommitted
  BY DEF WInv
<1>2. /\ rows' = [e \in Entity |-> Sees(w, e)]
      /\ journal' = journal \cup open[w]
      /\ \A u \in Writer : open'[u] = IF u = w THEN {} ELSE open[u]
      /\ open' \in [Writer -> SUBSET Change]
      /\ late' \subseteq late \cup open[w]
      /\ UNCHANGED <<lastSeq, replica, cursor, snapshot>>
  BY <1>1 DEF Commit, TypeOK
<1>3. Written' = Written
  BY <1>2 DEF Written
<1>4. \A e \in Entity : rows'[e] = Left(Of(e, journal'))
  BY <1>2, SeesCommitted
<1>5. journal' \subseteq Change
  BY <1>1, <1>2 DEF TypeOK
<1>6. rows' \in [Entity -> Change \cup {Nil}]
  <2>1. \A e \in Entity : Of(e, journal') \in SUBSET Change
    BY <1>5 DEF Of
  <2>2. \A e \in Entity : rows'[e] \in Change \cup {Nil}
    BY <1>4, <2>1, LeftType
  <2> QED  BY <1>2, <2>2
<1>7. TypeOK'
  BY <1>1, <1>2, <1>5, <1>6 DEF TypeOK
<1>8. Numbered' /\ CopiesCommitted'
  BY <1>1, <1>2, <1>3 DEF Numbered, CopiesCommitted, Of
<1>9. RowsHaveOneHistory'
  BY <1>1, <1>3 DEF RowsHaveOneHistory
<1>10. RowsLocked'
  <2>1. \A u, v \in Writer : \A c \in open'[u], o \in open'[v] : c.ent = o.ent => u = v
    BY <1>1, <1>2 DEF RowsLocked
  <2>2. ASSUME NEW u \in Writer, NEW c \in open'[u], NEW o \in journal', c.ent = o.ent
        PROVE  o.seq < c.seq
    <3>1. u # w /\ c \in open[u]
      BY <1>2, <2>2
    <3>2. o \notin open[w]
      BY <1>1, <2>2, <3>1 DEF RowsLocked
    <3> QED  BY <1>1, <1>2, <2>2, <3>1, <3>2 DEF RowsLocked
  <2> QED  BY <2>1, <2>2 DEF RowsLocked
<1> QED  BY <1>4, <1>7, <1>8, <1>9, <1>10 DEF WInv, RowsFollow

LEMMA RollbackOK ==
    ASSUME WInv, NEW w \in Writer, Rollback(w)
    PROVE  WInv'
<1>1. TypeOK /\ Numbered /\ RowsLocked /\ RowsHaveOneHistory /\ CopiesCommitted
  BY DEF WInv
<1>2. /\ \A u \in Writer : open'[u] = IF u = w THEN {} ELSE open[u]
      /\ open' \in [Writer -> SUBSET Change]
      /\ UNCHANGED <<rows, journal, lastSeq, replica, cursor, snapshot, late>>
  BY <1>1 DEF Rollback, TypeOK
<1>3. Written' \subseteq Written
  BY <1>2 DEF Written
<1>4. TypeOK' /\ RowsLocked'
  BY <1>1, <1>2 DEF TypeOK, RowsLocked
<1>5. Numbered' /\ CopiesCommitted'
  BY <1>1, <1>2, <1>3 DEF Numbered, CopiesCommitted
<1>6. RowsHaveOneHistory'
  <2> DEFINE Past(c, all) == {o \in Of(c.ent, all) : o.seq < c.seq}
  <2>1. SUFFICES ASSUME NEW c \in Written'
                 PROVE  IF Left(Past(c, Written')) = Nil
                          THEN c.op = "upsert" /\ c.ver = 1
                          ELSE c.ver = Left(Past(c, Written')).ver + 1
    BY DEF RowsHaveOneHistory
  <2>2. ASSUME NEW o \in open[w], o.ent = c.ent, o.seq < c.seq PROVE o \in Written'
    <3>1. c \in journal \/ \E u \in Writer \ {w} : c \in open[u]
      BY <1>2 DEF Written
    <3>2. CASE c \in journal
      <4>1. c.seq < o.seq
        BY <1>1, <2>2, <3>2 DEF RowsLocked
      <4> QED  BY <1>1, <2>2, <3>2, <4>1, WrittenType
    <3>3. CASE \E u \in Writer \ {w} : c \in open[u]
      BY <1>1, <2>2, <3>3 DEF RowsLocked
    <3> QED  BY <3>1, <3>2, <3>3
  <2>3. \A o \in Written : o \in Written' \/ o \in open[w]
    BY <1>2 DEF Written
  <2>4. Past(c, Written') = Past(c, Written)
    BY <1>3, <2>2, <2>3 DEF Of
  <2> QED  BY <1>1, <1>3, <2>1, <2>4 DEF RowsHaveOneHistory
<1> QED  BY <1>2, <1>4, <1>5, <1>6 DEF WInv, RowsFollow

-----------------------------------------------------------------------------
(* Pages *)

LEMMA FinitelyManyWritten ==
    ASSUME WInv, NEW S \in SUBSET Written
    PROVE  IsFiniteSet(S)
<1> DEFINE f == [c \in S |-> c.seq]
<1>1. TypeOK /\ Numbered
  BY DEF WInv
<1>2. \A c \in S : c.seq \in 1..MaxWrites
  BY <1>1, WrittenType DEF Change
<1>3. f \in Injection(S, 1..MaxWrites)
  <2>1. f \in [S -> 1..MaxWrites]
    BY <1>2
  <2>2. \A a, b \in S : f[a] = f[b] => a = b
    BY <1>1 DEF Numbered
  <2> QED  BY <2>1, <2>2 DEF Injection, IsInjective
<1>4. IsFiniteSet(1..MaxWrites)
  BY FS_Interval, Constants
<1> HIDE DEF f
<1> QED  BY <1>3, <1>4, FS_Injection

\* What precedes a change of a page is on the page.
LEMMA PagePrefix ==
    ASSUME WInv, NEW d \in Account, NEW p \in Page(d),
           NEW c \in journal, Visible(d, c.ent), c.seq > cursor[d], c.seq <= p.seq
    PROVE  c \in Page(d)
<1> DEFINE later == {o \in journal : Visible(d, o.ent) /\ o.seq > cursor[d]}
           upto(x) == {o \in later : o.seq <= x.seq}
<1>1. TypeOK /\ c \in later /\ p \in later /\ Cardinality(upto(p)) <= PageSize
  BY DEF Page, WInv
<1>2. \A o \in later : o.seq \in Nat
  BY <1>1, WrittenType
<1>3. upto(c) \subseteq upto(p)
  BY <1>1, <1>2
<1>4. upto(p) \in SUBSET Written /\ upto(c) \in SUBSET Written
  BY <1>1, WrittenType
<1> HIDE DEF upto
<1>5. IsFiniteSet(upto(p)) /\ IsFiniteSet(upto(c))
  BY <1>4, FinitelyManyWritten
<1>6. /\ Cardinality(upto(c)) <= Cardinality(upto(p))
      /\ Cardinality(upto(c)) \in Nat /\ Cardinality(upto(p)) \in Nat
  BY <1>3, <1>5, FS_Subset, FS_CardinalityType
<1>7. Cardinality(upto(c)) <= PageSize
  BY <1>1, <1>6, Constants
<1> QED  BY <1>1, <1>7 DEF Page, upto

\* The rows a bootstrap page chooses from, and those it takes.
Ahead(d) == {e \in Entity : Visible(d, e) /\ rows[e] # Nil /\ e > Token(d).last}

Ids(d) == {e \in Ahead(d) : Cardinality({o \in Ahead(d) : o <= e}) <= PageSize}

\* Only rows of the journal are in the table, so there is a greatest id.
LEMMA RowsBounded ==
    ASSUME WInv
    PROVE  \E n \in Nat : \A e \in Entity : rows[e] # Nil => e <= n
<1> DEFINE Bounded(i) == \E n \in Nat : \A c \in journal : c.seq <= i => c.ent <= n
           T == {i \in 0..MaxWrites : ~ Bounded(i)}
<1>1. TypeOK /\ Numbered /\ RowsFollow
  BY DEF WInv
<1>2. \A c \in journal : c.seq \in 1..MaxWrites /\ c.ent \in Nat
  BY <1>1, Constants DEF TypeOK, Change
<1>3. T = {}
  <2>1. SUFFICES ASSUME T # {} PROVE FALSE
    OBVIOUS
  <2>2. T \in SUBSET Nat
    BY Constants
  <2> HIDE DEF Bounded
  <2>3. PICK i \in T : \A j \in T : i <= j
    BY <2>1, <2>2, LeastElement
  <2>4. i \in Nat /\ i <= MaxWrites /\ ~ Bounded(i)
    BY <2>2, <2>3
  <2>5. i # 0
    BY <1>2, <2>4 DEF Bounded
  <2>6. i - 1 \in Nat /\ i - 1 < i /\ i - 1 <= MaxWrites
    BY <2>4, <2>5, Constants
  <2>7. Bounded(i - 1)
    BY <2>3, <2>6, Constants
  <2>8. PICK n \in Nat : \A c \in journal : c.seq <= i - 1 => c.ent <= n
    BY <2>7 DEF Bounded
  <2>9. CASE \E c \in journal : c.seq = i
    <3>1. PICK c \in journal : c.seq = i
      BY <2>9
    <3>2. \A o \in journal : o.seq <= i => o.seq <= i - 1 \/ o = c
      BY <1>1, <1>2, <2>4, <3>1 DEF Numbered, Written
    <3>3. n + c.ent \in Nat /\ \A o \in journal : o.seq <= i => o.ent <= n + c.ent
      BY <1>2, <2>8, <3>2
    <3> QED  BY <2>4, <3>3 DEF Bounded
  <2>10. CASE ~ \E c \in journal : c.seq = i
    <3>1. \A o \in journal : o.seq <= i => o.seq <= i - 1
      BY <1>2, <2>4, <2>10
    <3> QED  BY <2>4, <2>8, <3>1 DEF Bounded
  <2> QED  BY <2>9, <2>10
<1>4. Bounded(MaxWrites)
  BY <1>3, Constants
<1>5. PICK n \in Nat : \A c \in journal : c.seq <= MaxWrites => c.ent <= n
  BY <1>4
<1>6. ASSUME NEW e \in Entity, rows[e] # Nil PROVE e <= n
  <2>1. Of(e, journal) # {}
    BY <1>1, <1>6 DEF RowsFollow, Left
  <2>2. PICK c \in journal : c.ent = e
    BY <2>1 DEF Of
  <2> QED  BY <1>2, <1>5, <2>2, Constants
<1> QED  BY <1>6

LEMMA LastOfPage ==
    ASSUME WInv, NEW d \in Account, Ids(d) # {}
    PROVE  Max(Ids(d)) \in Ids(d) /\ \A e \in Ids(d) : e <= Max(Ids(d))
<1>1. Ids(d) \in SUBSET Nat /\ \A e \in Ids(d) : e \in Entity /\ rows[e] # Nil
  BY Constants DEF Ids, Ahead
<1>2. PICK n \in Nat : \A e \in Entity : rows[e] # Nil => e <= n
  BY RowsBounded
<1>3. PICK x \in Ids(d) : \A y \in Ids(d) : y <= x
  BY <1>1, <1>2, GreatestElement
<1>4. \A y \in Ids(d) : x >= y
  BY <1>1, <1>3
<1>5. Max(Ids(d)) \in Ids(d) /\ \A y \in Ids(d) : Max(Ids(d)) >= y
  BY <1>4 DEF Max
<1> QED  BY <1>1, <1>5

\* What precedes a row of a page is on the page.
LEMMA IdsPrefix ==
    ASSUME NEW d \in Account, NEW p \in Ids(d), NEW e \in Ahead(d), e <= p
    PROVE  e \in Ids(d)
<1> DEFINE upto(x) == {o \in Ahead(d) : o <= x}
<1>1. p \in Nat /\ e \in Nat /\ Ahead(d) \subseteq Nat
  BY Constants DEF Ids, Ahead
<1>2. upto(p) \in SUBSET (0..p) /\ upto(e) \in SUBSET upto(p)
  BY <1>1
<1>3. Cardinality(upto(p)) <= PageSize
  BY DEF Ids
<1> HIDE DEF upto
<1>4. IsFiniteSet(0..p)
  BY <1>1, FS_Interval
<1>5. IsFiniteSet(upto(p))
  BY <1>2, <1>4, FS_Subset
<1>6. IsFiniteSet(upto(e)) /\ Cardinality(upto(e)) <= Cardinality(upto(p))
  BY <1>2, <1>5, FS_Subset
<1>7. Cardinality(upto(e)) \in Nat /\ Cardinality(upto(p)) \in Nat
  BY <1>5, <1>6, FS_CardinalityType
<1>8. Cardinality(upto(e)) <= PageSize
  BY <1>3, <1>6, <1>7, Constants
<1> QED  BY <1>8 DEF Ids, upto

-----------------------------------------------------------------------------
(* Readers keep the types *)

LEMMA HighestType ==
    ASSUME NEW S \in SUBSET Change
    PROVE  Highest(S) \in 0..MaxWrites
<1>1. CASE S = {}
  BY <1>1, Constants DEF Highest
<1>2. CASE S # {}
  <2>1. Newest(S).seq \in 1..MaxWrites
    BY <1>2, NewestIn DEF Change
  <2> QED  BY <1>2, <2>1 DEF Highest
<1> QED  BY <1>1, <1>2

LEMMA TokenType ==
    ASSUME TypeOK, NEW d \in Account
    PROVE  Token(d) \in [high : 0..MaxWrites, last : Entity \cup {0}, more : BOOLEAN]
<1>1. Highest(journal) \in 0..MaxWrites
  BY HighestType DEF TypeOK
<1> QED  BY <1>1 DEF Token, TypeOK

\* What a page leaves: the same token, moved on to the last id of the page.
LEMMA BootstrapSteps ==
    ASSUME WInv, NEW d \in Account, BootstrapPage(d)
    PROVE  /\ cursor[d] = Nil /\ Token(d).more
           /\ \A e \in Entity :
                replica'[d][e] = IF e \in Ids(d) THEN rows[e] ELSE replica[d][e]
           /\ \A c \in Account \ {d} :
                replica'[c] = replica[c] /\ snapshot'[c] = snapshot[c]
           /\ snapshot'[d] # Nil
           /\ snapshot'[d].high = Token(d).high
           /\ snapshot'[d].last = IF Ids(d) = {} THEN Token(d).last ELSE Max(Ids(d))
           /\ snapshot'[d].more = (Ids(d) # Ahead(d))
           /\ replica' \in [Account -> [Entity -> Change \cup {Nil}]]
           /\ snapshot' \in [Account -> [high : 0..MaxWrites, last : Entity \cup {0},
                                         more : BOOLEAN] \cup {Nil}]
           /\ UNCHANGED <<rows, journal, lastSeq, open, cursor, late>>
<1>1. TypeOK /\ Token(d) \in [high : 0..MaxWrites, last : Entity \cup {0},
                              more : BOOLEAN]
  BY TokenType DEF WInv
<1> DEFINE t == [Token(d) EXCEPT !.last = IF Ids(d) = {} THEN @ ELSE Max(Ids(d)),
                                 !.more = Ids(d) # Ahead(d)]
           r == [e \in Entity |-> IF e \in Ids(d) THEN rows[e] ELSE replica[d][e]]
<1>2. /\ cursor[d] = Nil /\ Token(d).more
      /\ replica' = [replica EXCEPT ![d] = r]
      /\ UNCHANGED <<rows, journal, lastSeq, open, cursor, late>>
  BY <1>1 DEF BootstrapPage, Ids, Ahead, TypeOK
<1>3. Ids(d) # {} => Max(Ids(d)) \in Entity
  BY LastOfPage DEF Ids, Ahead
<1>4. /\ t \in [high : 0..MaxWrites, last : Entity \cup {0}, more : BOOLEAN]
      /\ t.high = Token(d).high
      /\ t.last = IF Ids(d) = {} THEN Token(d).last ELSE Max(Ids(d))
      /\ t.more = (Ids(d) # Ahead(d))
  BY <1>1, <1>3
<1>5. snapshot' = [snapshot EXCEPT ![d] = t]
  BY DEF BootstrapPage, Ids, Ahead
<1> HIDE DEF t
<1>6. t # Nil
  <2>1. 0..MaxWrites \subseteq Nat /\ Entity \cup {0} \subseteq Nat
    BY Constants
  <2>2. t \in [high : Nat, last : Nat, more : BOOLEAN]
    BY <1>4, <2>1
  <2> QED  BY <2>2, Constants
<1>7. r \in [Entity -> Change \cup {Nil}]
  BY <1>1 DEF TypeOK
<1> HIDE DEF r
<1>8. /\ snapshot'[d] = t /\ replica'[d] = r
      /\ \A c \in Account \ {d} : replica'[c] = replica[c] /\ snapshot'[c] = snapshot[c]
      /\ replica' \in [Account -> [Entity -> Change \cup {Nil}]]
      /\ snapshot' \in [Account -> [high : 0..MaxWrites, last : Entity \cup {0},
                                    more : BOOLEAN] \cup {Nil}]
  BY <1>1, <1>2, <1>4, <1>5, <1>7 DEF TypeOK
<1> QED  BY <1>2, <1>4, <1>6, <1>8 DEF r

\* What a pull leaves.
LEMMA PullSteps ==
    ASSUME WInv, NEW d \in Account, Pull(d)
    PROVE  /\ cursor[d] # Nil /\ Page(d) # {} /\ Page(d) \in SUBSET Change
           /\ \A e \in Entity :
                replica'[d][e] = IF Of(e, Page(d)) = {} THEN replica[d][e]
                                 ELSE Left(Of(e, Page(d)))
           /\ \A c \in Account \ {d} :
                replica'[c] = replica[c] /\ cursor'[c] = cursor[c]
           /\ cursor'[d] = Newest(Page(d)).seq
           /\ replica' \in [Account -> [Entity -> Change \cup {Nil}]]
           /\ cursor' \in [Account -> 0..MaxWrites \cup {Nil}]
           /\ UNCHANGED <<rows, journal, lastSeq, open, snapshot, late>>
<1>1. TypeOK /\ Page(d) \in SUBSET Change
  BY DEF WInv, TypeOK, Page
<1> DEFINE r == [e \in Entity |-> IF Of(e, Page(d)) = {} THEN replica[d][e]
                                  ELSE Left(Of(e, Page(d)))]
<1>2. /\ cursor[d] # Nil /\ Page(d) # {}
      /\ replica' = [replica EXCEPT ![d] = r]
      /\ cursor' = [cursor EXCEPT ![d] = Highest(Page(d))]
      /\ UNCHANGED <<rows, journal, lastSeq, open, snapshot, late>>
  BY <1>1 DEF Pull, Left, TypeOK
<1>3. r \in [Entity -> Change \cup {Nil}]
  <2>1. ASSUME NEW e \in Entity PROVE Left(Of(e, Page(d))) \in Change \cup {Nil}
    BY <1>1, LeftType DEF Of
  <2> QED  BY <1>1, <2>1 DEF TypeOK
<1>4. Highest(Page(d)) \in 0..MaxWrites /\ Highest(Page(d)) = Newest(Page(d)).seq
  BY <1>1, <1>2, HighestType DEF Highest
<1> HIDE DEF r
<1>5. /\ replica'[d] = r /\ cursor'[d] = Newest(Page(d)).seq
      /\ \A c \in Account \ {d} : replica'[c] = replica[c] /\ cursor'[c] = cursor[c]
      /\ replica' \in [Account -> [Entity -> Change \cup {Nil}]]
      /\ cursor' \in [Account -> 0..MaxWrites \cup {Nil}]
  BY <1>1, <1>2, <1>3, <1>4 DEF TypeOK
<1> QED  BY <1>1, <1>2, <1>5 DEF r

LEMMA EstablishSteps ==
    ASSUME WInv, NEW d \in Account, EstablishCursor(d)
    PROVE  /\ snapshot[d] # Nil /\ ~ snapshot[d].more
           /\ cursor'[d] = snapshot[d].high /\ snapshot'[d] = Nil
           /\ snapshot[d].high \in 0..MaxWrites
           /\ \A c \in Account \ {d} :
                cursor'[c] = cursor[c] /\ snapshot'[c] = snapshot[c]
           /\ cursor' \in [Account -> 0..MaxWrites \cup {Nil}]
           /\ snapshot' \in [Account -> [high : 0..MaxWrites, last : Entity \cup {0},
                                         more : BOOLEAN] \cup {Nil}]
           /\ UNCHANGED <<rows, journal, lastSeq, open, replica, late>>
<1>1. TypeOK
  BY DEF WInv
<1>2. snapshot[d] # Nil /\ snapshot[d].high \in 0..MaxWrites
  BY <1>1 DEF EstablishCursor, TypeOK
<1> QED  BY <1>1, <1>2 DEF EstablishCursor, TypeOK

LEMMA ReadOK ==
    ASSUME WInv, NEW d \in Account, Read(d)
    PROVE  WInv'
<1>1. TypeOK /\ UNCHANGED <<rows, journal, lastSeq, open, late>>
  BY BootstrapSteps, PullSteps, EstablishSteps DEF Read, WInv
<1>2. TypeOK'
  <2>1. CASE BootstrapPage(d)
    BY <1>1, <2>1, BootstrapSteps DEF TypeOK
  <2>2. CASE EstablishCursor(d)
    BY <1>1, <2>2, EstablishSteps DEF TypeOK
  <2>3. CASE Pull(d)
    BY <1>1, <2>3, PullSteps DEF TypeOK
  <2> QED  BY <2>1, <2>2, <2>3 DEF Read
<1>3. Written' = Written
  BY <1>1 DEF Written
<1>4. CopiesCommitted'
  <2>1. SUFFICES ASSUME NEW u \in Account, NEW e \in Entity, replica'[u][e] # Nil,
                        replica'[u][e] # replica[u][e]
                 PROVE  replica'[u][e] \in Of(e, journal) /\ replica'[u][e].op = "upsert"
    BY <1>1 DEF CopiesCommitted, WInv
  <2>2. CASE BootstrapPage(d)
    <3>1. replica'[u][e] = rows[e]
      BY <2>1, <2>2, BootstrapSteps
    <3>2. Of(e, journal) \in SUBSET Change
      BY <1>1 DEF TypeOK, Of
    <3> QED  BY <2>1, <3>1, <3>2, LeftType DEF WInv, RowsFollow
  <2>3. CASE EstablishCursor(d)
    BY <2>1, <2>3, EstablishSteps
  <2>4. CASE Pull(d)
    <3>1. replica'[u][e] = Left(Of(e, Page(d))) /\ Page(d) \in SUBSET Change
      BY <2>1, <2>4, PullSteps
    <3>2. Of(e, Page(d)) \in SUBSET Change /\ Of(e, Page(d)) \subseteq Of(e, journal)
      BY <3>1 DEF Of, Page
    <3> QED  BY <2>1, <3>1, <3>2, LeftType
  <2> QED  BY <2>2, <2>3, <2>4 DEF Read
<1> QED  BY <1>1, <1>2, <1>3, <1>4 DEF WInv, Numbered, RowsLocked, RowsFollow,
            RowsHaveOneHistory

LEMMA WriterInductive == WInv /\ [Next]_vars => WInv'
<1> SUFFICES ASSUME WInv, [Next]_vars PROVE WInv'
  OBVIOUS
<1>1. CASE UNCHANGED vars
  <2>1. Written' = Written
    BY <1>1 DEF vars, Written
  <2> QED  BY <1>1, <2>1 DEF vars, WInv, TypeOK, Numbered, RowsLocked, RowsFollow,
              RowsHaveOneHistory, CopiesCommitted
<1> QED  BY <1>1, WriteOK, CommitOK, RollbackOK, ReadOK DEF Next

LEMMA WriterInit == Init => WInv
<1> SUFFICES ASSUME Init PROVE WInv
  OBVIOUS
<1>1. Written = {} /\ journal = {}
  BY DEF Init, Written
<1>2. TypeOK
  BY Constants DEF Init, TypeOK
<1> QED  BY <1>1, <1>2 DEF Init, WInv, Numbered, RowsLocked, RowsFollow,
            RowsHaveOneHistory, CopiesCommitted, Written, Of, Left

LEMMA WriterAlways == Spec => []WInv
BY WriterInit, WriterInductive, PTL DEF Spec

\* However transactions overlap and however often an id is deleted and created
\* anew, the changes of a row are, in the order of their numbers, one history
\* that ends in the row (migration 0011, the row triggers; sync_service.py, the
\* creates of an id without a row), so that a device may apply a page without
\* comparing versions (mobile/src/sync/applyChanges.ts).
THEOREM NumbersOrderHistory == Spec => []JournalOrdered
<1>1. WInv => JournalOrdered
  BY DEF WInv, JournalOrdered
<1> QED  BY WriterAlways, <1>1, PTL

-----------------------------------------------------------------------------
(* Readers lose nothing but late changes *)

LEMMA TakenType ==
    ASSUME TypeOK, NEW d \in Account, NEW e \in Entity
    PROVE  /\ Taken(d, e) \in SUBSET Written /\ Taken(d, e) \in SUBSET Change
           /\ \A c \in Taken(d, e) : c \in journal /\ c.ent = e /\ c.seq <= Upto(d)
BY WrittenType DEF Taken, Of

\* A row is in the state its newest change left, and is missing only when a
\* deletion is the newest.
LEMMA RowIsNewest ==
    ASSUME WInv, NEW c \in journal
    PROVE  IF rows[c.ent] = Nil
             THEN \E o \in Of(c.ent, journal) : o.op = "delete" /\ o.seq >= c.seq
             ELSE rows[c.ent].seq >= c.seq
<1> DEFINE n == Newest(Of(c.ent, journal))
<1>1. TypeOK /\ c \in Written /\ c.ent \in Entity
  BY WrittenType DEF WInv
<1>2. Of(c.ent, journal) \in SUBSET Change /\ c \in Of(c.ent, journal)
  BY <1>1 DEF TypeOK, Of
<1>3. n \in Of(c.ent, journal) /\ c.seq <= n.seq
  BY <1>2, NewestIn
<1>4. n \in Written /\ n \in Change
  BY <1>1, <1>2, <1>3, WrittenType DEF Of
<1>5. n.seq \in Nat /\ c.seq \in Nat /\ n # Nil
  BY <1>1, <1>4, WrittenType, Constants
<1>6. rows[c.ent] = IF n.op = "delete" THEN Nil ELSE n
  BY <1>1, <1>2 DEF WInv, RowsFollow, Left
<1> HIDE DEF n
<1> QED  BY <1>3, <1>5, <1>6

LEMMA CommitKeepsReader ==
    ASSUME WInv, NEW w \in Writer, Commit(w), NEW d \in Account, ReaderStands(d)
    PROVE  ReaderStands(d)'
<1>1. TypeOK /\ TypeOK' /\ Numbered /\ RowsLocked /\ Numbered'
  BY CommitOK DEF WInv
<1>2. /\ journal' = journal \cup open[w]
      /\ late' = late \cup {c \in open[w] : \E o \in journal : o.seq > c.seq}
      /\ rows' = [e \in Entity |-> Sees(w, e)]
      /\ UNCHANGED <<lastSeq, replica, cursor, snapshot>>
      /\ Upto(d)' = Upto(d)
      /\ \A e \in Entity : Covered(d, e)' = Covered(d, e)
  BY DEF Commit, Upto, Covered
<1>3. \A e \in Entity :
        Taken(d, e)' = Taken(d, e) \cup {c \in Of(e, open[w]) : c.seq <= Upto(d)}
  BY <1>2 DEF Taken, Of
<1>4. ASSUME NEW e \in Entity, Visible(d, e), Covered(d, e),
             Taken(d, e)' # {}, Newest(Taken(d, e)') \notin late'
      PROVE  Reflects(d, e, Newest(Taken(d, e)))'
  <2>1. CASE {c \in Of(e, open[w]) : c.seq <= Upto(d)} = {}
    <3>1. Taken(d, e)' = Taken(d, e)
      BY <1>3, <2>1
    <3>2. Newest(Taken(d, e)) \notin late
      BY <1>2, <1>4, <3>1
    <3>3. Reflects(d, e, Newest(Taken(d, e)))
      BY <1>4, <3>1, <3>2 DEF ReaderStands
    <3> QED  BY <1>2, <3>1, <3>3 DEF Reflects, Of
  <2>2. ASSUME NEW c \in Of(e, open[w]), c.seq <= Upto(d) PROVE FALSE
    <3>1. Taken(d, e)' \in SUBSET Written' /\ Taken(d, e)' \in SUBSET Change
      BY <1>1, <1>2 DEF Taken, Of, Written, TypeOK
    <3>2. PICK n \in Taken(d, e)' : /\ n = Newest(Taken(d, e)')
                                    /\ \A o \in Taken(d, e)' : o.seq <= n.seq
      BY <1>4, <3>1, NewestIn
    <3>3. n.ent = e /\ n.seq <= Upto(d) /\ c.seq <= n.seq
      BY <1>2, <1>3, <2>2, <3>2 DEF Taken, Of
    <3>4. c \in open[w] /\ c.ent = e /\ \A o \in journal : o.ent = e => o.seq < c.seq
      BY <1>1, <2>2 DEF Of, RowsLocked
    <3>5. n \in journal \cup open[w]
      BY <1>2, <3>2 DEF Taken, Of
    <3>6. c \in Written /\ n \in Written /\ c.seq \in Nat /\ n.seq \in Nat /\ c.seq # 0
      <4>1. c \in Written /\ n \in Written
        BY <1>1, <3>4, <3>5, WrittenType
      <4>2. c \in Change
        BY <1>1, <4>1, WrittenType
      <4>3. c.seq # 0
        BY <4>2, Constants DEF Change
      <4> QED  BY <1>1, <4>1, <4>3, WrittenType
    <3>7. n \in open[w] /\ n \notin journal
      BY <3>3, <3>4, <3>5, <3>6
    <3>8. Upto(d) \in Nat
      <4>1. cursor[d] # Nil \/ snapshot[d] # Nil
        BY <1>4 DEF Covered
      <4> QED  BY <1>1, <4>1, Constants DEF TypeOK, Upto
    <3>9. PICK o \in journal : o.seq >= Upto(d)
      BY <1>4, <2>2, <3>6, <3>8 DEF ReaderStands, Covered
    <3>10. o \in Written /\ o.seq \in Nat /\ o # n
      BY <1>1, <3>7, WrittenType
    <3>11. o.seq # n.seq
      BY <1>1, <3>6, <3>10 DEF Numbered
    <3>12. o.seq > n.seq
      BY <3>3, <3>6, <3>8, <3>9, <3>10, <3>11
    <3>13. n \in late'
      BY <1>2, <3>7, <3>12
    <3> QED  BY <1>4, <3>2, <3>13
  <2> QED  BY <2>1, <2>2
<1>5. cursor'[d] # Nil \/ snapshot'[d] # Nil =>
        Upto(d)' = 0 \/ \E o \in journal' : o.seq >= Upto(d)'
  BY <1>2 DEF ReaderStands
<1> QED  BY <1>2, <1>4, <1>5 DEF ReaderStands, Visible

\* A device whose copy, cursor and snapshot stand, while nothing is committed.
LEMMA OtherReader ==
    ASSUME NEW d \in Account, ReaderStands(d), UNCHANGED <<rows, journal, late>>,
           replica'[d] = replica[d], cursor'[d] = cursor[d], snapshot'[d] = snapshot[d]
    PROVE  ReaderStands(d)'
<1>1. Upto(d)' = Upto(d)
  BY DEF Upto
<1>2. \A e \in Entity : Covered(d, e)' = Covered(d, e) /\ Taken(d, e)' = Taken(d, e)
  BY <1>1 DEF Covered, Taken, Of
<1> QED  BY <1>1, <1>2 DEF ReaderStands, Reflects, Visible

\* A page takes the rows that follow the last one taken, as they are now: what
\* was committed up to the high water, or a later state.
LEMMA BootstrapKeepsReader ==
    ASSUME WInv, NEW d \in Account, BootstrapPage(d), ReaderStands(d)
    PROVE  ReaderStands(d)'
<1> DEFINE last == Token(d).last
<1>1. TypeOK
  BY DEF WInv
<1>2. /\ cursor[d] = Nil /\ cursor'[d] = Nil /\ Token(d).more
      /\ \A e \in Entity :
           replica'[d][e] = IF e \in Ids(d) THEN rows[e] ELSE replica[d][e]
      /\ snapshot'[d] # Nil
      /\ snapshot'[d].high = Token(d).high
      /\ snapshot'[d].last = IF Ids(d) = {} THEN last ELSE Max(Ids(d))
      /\ snapshot'[d].more = (Ids(d) # Ahead(d))
      /\ UNCHANGED <<rows, journal, late>>
  BY BootstrapSteps
<1>3. Token(d) \in [high : 0..MaxWrites, last : Entity \cup {0}, more : BOOLEAN]
  BY <1>1, TokenType
<1>4. last \in Nat /\ Entity \subseteq Nat /\ \A e \in Entity : e > 0
  <2>1. Entity \subseteq Nat /\ \A e \in Entity : e > 0
    BY SyncJournalAssumption
  <2>2. last \in Entity \/ last = 0
    BY <1>3
  <2>3. last \in Nat
    <3>1. CASE last \in Entity
      BY <2>1, <3>1
    <3> QED  BY <2>2, <3>1
  <2> QED  BY <2>1, <2>3
<1>5. Upto(d)' = Token(d).high
  BY <1>2 DEF Upto
<1>6. \A e \in Entity : Covered(d, e) <=> e <= last
  <2>1. CASE snapshot[d] = Nil
    BY <1>2, <1>4, <2>1 DEF Covered, Token
  <2>2. CASE snapshot[d] # Nil
    BY <1>2, <2>2 DEF Covered, Token
  <2> QED  BY <2>1, <2>2
<1>7. \A e \in Ids(d) : e \in Ahead(d) /\ e \in Entity /\ rows[e] # Nil /\ e > last
  BY DEF Ids, Ahead
<1>8. Ids(d) # {} => /\ Max(Ids(d)) \in Ids(d) /\ Max(Ids(d)) \in Nat
                     /\ \A e \in Ids(d) : e <= Max(Ids(d))
  BY <1>4, <1>7, LastOfPage
<1>9. \A e \in Entity :
        Covered(d, e)' <=> Ids(d) = Ahead(d) \/ e <= snapshot'[d].last
  BY <1>2 DEF Covered
<1>10. \A e \in Entity : Covered(d, e) => Covered(d, e)'
  BY <1>2, <1>4, <1>6, <1>7, <1>8, <1>9
<1>11. ASSUME NEW e \in Entity, ~ Covered(d, e) PROVE replica[d][e] = Nil
  BY <1>11 DEF ReaderStands
<1>12. Token(d).high = 0 \/ \E o \in journal : o.seq >= Token(d).high
  <2>1. CASE snapshot[d] = Nil
    <3>1. Token(d).high = Highest(journal)
      BY <2>1 DEF Token
    <3>2. CASE journal = {}
      BY <3>1, <3>2 DEF Highest
    <3>3. CASE journal # {}
      <4>1. journal \in SUBSET Change
        BY <1>1 DEF TypeOK
      <4>2. Newest(journal) \in journal /\ Newest(journal).seq \in Nat
        BY <1>1, <3>3, <4>1, NewestIn, WrittenType
      <4>3. Newest(journal).seq >= Token(d).high
        BY <3>1, <3>3, <4>2 DEF Highest
      <4> QED  BY <4>2, <4>3
    <3> QED  BY <3>2, <3>3
  <2>2. CASE snapshot[d] # Nil
    BY <1>2, <2>2 DEF ReaderStands, Upto, Token
  <2> QED  BY <2>1, <2>2
<1>13. ASSUME NEW e \in Entity, Visible(d, e), Covered(d, e)',
              Taken(d, e)' # {}, Newest(Taken(d, e)') \notin late'
       PROVE  Reflects(d, e, Newest(Taken(d, e)))'
  <2>1. CASE Covered(d, e)
    <3>1. snapshot[d] # Nil
      BY <1>2, <2>1 DEF Covered
    <3>2. Taken(d, e)' = Taken(d, e)
      BY <1>2, <1>5, <3>1 DEF Taken, Of, Upto, Token
    <3>3. Reflects(d, e, Newest(Taken(d, e)))
      BY <1>2, <1>13, <2>1, <3>2 DEF ReaderStands
    <3>4. e \notin Ids(d)
      BY <1>4, <1>6, <1>7, <2>1
    <3>5. replica'[d][e] = replica[d][e]
      BY <1>2, <3>4
    <3> QED  BY <1>2, <3>2, <3>3, <3>5 DEF Reflects
  <2>2. CASE ~ Covered(d, e)
    <3>1. replica[d][e] = Nil /\ e > last
      BY <1>4, <1>6, <1>11, <2>2
    <3>2. rows[e] # Nil => e \in Ids(d)
      <4>1. SUFFICES ASSUME rows[e] # Nil PROVE e \in Ids(d)
        OBVIOUS
      <4>2. e \in Ahead(d)
        BY <1>13, <3>1, <4>1 DEF Ahead
      <4>3. CASE Ids(d) = Ahead(d)
        BY <4>2, <4>3
      <4>4. CASE Ids(d) # Ahead(d)
        <5>1. e <= snapshot'[d].last
          BY <1>9, <1>13, <4>4
        <5>2. Ids(d) # {} /\ e <= Max(Ids(d))
          BY <1>2, <1>4, <3>1, <5>1
        <5> QED  BY <1>8, <4>2, <5>2, IdsPrefix
      <4> QED  BY <4>3, <4>4
    <3>3. replica'[d][e] = rows[e]
      BY <1>2, <1>7, <3>1, <3>2
    <3>4. PICK n \in journal : n = Newest(Taken(d, e)') /\ n.ent = e
      <4>1. Taken(d, e)' \in SUBSET journal /\ \A c \in Taken(d, e)' : c.ent = e
        BY <1>2 DEF Taken, Of
      <4>2. Taken(d, e)' \in SUBSET Change
        BY <1>1, <4>1 DEF TypeOK
      <4>3. Newest(Taken(d, e)') \in Taken(d, e)'
        BY <1>13, <4>2, NewestIn
      <4> QED  BY <4>1, <4>3
    <3>5. IF rows[e] = Nil
            THEN \E o \in Of(e, journal) : o.op = "delete" /\ o.seq >= n.seq
            ELSE rows[e].seq >= n.seq
      BY <3>4, RowIsNewest
    <3> QED  BY <1>2, <3>3, <3>4, <3>5 DEF Reflects, Of
  <2> QED  BY <2>1, <2>2
<1>14. ASSUME NEW e \in Entity, ~ Covered(d, e)' PROVE replica'[d][e] = Nil
  <2>1. replica[d][e] = Nil
    BY <1>10, <1>11, <1>14
  <2>2. e \notin Ids(d)
    BY <1>2, <1>8, <1>9, <1>14
  <2> QED  BY <1>2, <2>1, <2>2
<1> QED  BY <1>2, <1>5, <1>12, <1>13, <1>14 DEF ReaderStands, Visible

LEMMA EstablishKeepsReader ==
    ASSUME WInv, NEW d \in Account, EstablishCursor(d), ReaderStands(d)
    PROVE  ReaderStands(d)'
<1>1. /\ snapshot[d] # Nil /\ ~ snapshot[d].more
      /\ cursor'[d] = snapshot[d].high /\ snapshot'[d] = Nil
      /\ snapshot[d].high \in Nat
      /\ UNCHANGED <<rows, journal, replica, late>>
  BY EstablishSteps, Constants
<1>2. cursor[d] = Nil /\ cursor'[d] # Nil
  BY <1>1, Constants DEF ReaderStands
<1>3. Upto(d)' = Upto(d)
  BY <1>1, <1>2 DEF Upto
<1>4. \A e \in Entity : Covered(d, e) /\ Covered(d, e)' /\ Taken(d, e)' = Taken(d, e)
  BY <1>1, <1>2, <1>3 DEF Covered, Taken, Of
<1> QED  BY <1>1, <1>2, <1>3, <1>4 DEF ReaderStands, Reflects, Visible

\* A page holds every visible change between the old cursor and the new one.
LEMMA PullKeepsReader ==
    ASSUME WInv, NEW d \in Account, Pull(d), ReaderStands(d)
    PROVE  ReaderStands(d)'
<1>1. TypeOK /\ Numbered
  BY DEF WInv
<1>2. /\ cursor[d] # Nil /\ Page(d) # {} /\ Page(d) \in SUBSET Change
      /\ \A e \in Entity :
           replica'[d][e] = IF Of(e, Page(d)) = {} THEN replica[d][e]
                            ELSE Left(Of(e, Page(d)))
      /\ cursor'[d] = Newest(Page(d)).seq
      /\ UNCHANGED <<rows, journal, snapshot, late>>
  BY PullSteps
<1>3. PICK top \in Page(d) : /\ top = Newest(Page(d))
                             /\ \A c \in Page(d) : c.seq <= top.seq
  BY <1>2, NewestIn
<1>4. /\ top \in journal /\ top.seq > cursor[d] /\ top.seq \in Nat /\ cursor[d] \in Nat
      /\ \A c \in Page(d) : c \in journal /\ c.seq > cursor[d]
      /\ \A c \in journal : c.seq \in Nat
  BY <1>1, <1>2, <1>3, WrittenType, Constants DEF Page, TypeOK
<1>5. cursor'[d] = top.seq /\ cursor'[d] # Nil /\ Upto(d)' = top.seq /\ Upto(d) = cursor[d]
  BY <1>2, <1>3, <1>4, Constants DEF Upto
<1>6. \A e \in Entity : Covered(d, e) /\ Covered(d, e)'
  BY <1>2, <1>5 DEF Covered
<1>7. \A e \in Entity :
        Taken(d, e)' = {c \in journal : c.ent = e /\ c.seq <= top.seq}
  BY <1>2, <1>5 DEF Taken, Of
<1>8. \A e \in Entity :
        Taken(d, e) = {c \in journal : c.ent = e /\ c.seq <= cursor[d]}
  BY <1>5 DEF Taken, Of
<1>9. ASSUME NEW e \in Entity, Visible(d, e),
             Taken(d, e)' # {}, Newest(Taken(d, e)') \notin late'
      PROVE  Reflects(d, e, Newest(Taken(d, e)))'
  <2>1. \A c \in Taken(d, e)' : c \in Taken(d, e) \/ c \in Of(e, Page(d))
    <3>1. SUFFICES ASSUME NEW c \in Taken(d, e)', ~ (c.seq <= cursor[d])
                   PROVE  c \in Of(e, Page(d))
      BY <1>7, <1>8
    <3>2. c \in journal /\ c.ent = e /\ c.seq <= top.seq /\ c.seq > cursor[d]
      BY <1>4, <1>7, <3>1
    <3>3. c \in Page(d)
      BY <1>9, <3>2, PagePrefix
    <3> QED  BY <3>2, <3>3 DEF Of
  <2>2. CASE Of(e, Page(d)) = {}
    <3>1. Taken(d, e)' = Taken(d, e)
      <4>1. \A c \in Taken(d, e)' : c \in Taken(d, e)
        BY <2>1, <2>2
      <4>2. \A c \in Taken(d, e) : c \in {o \in journal : o.ent = e /\ o.seq <= top.seq}
        BY <1>4, <1>8
      <4> QED  BY <1>7, <4>1, <4>2
    <3>2. Reflects(d, e, Newest(Taken(d, e)))
      BY <1>2, <1>6, <1>9, <3>1 DEF ReaderStands
    <3> QED  BY <1>2, <2>2, <3>1, <3>2 DEF Reflects
  <2>3. CASE Of(e, Page(d)) # {}
    <3>1. Of(e, Page(d)) \in SUBSET Change
      BY <1>2 DEF Of
    <3>2. PICK n \in Of(e, Page(d)) : /\ n = Newest(Of(e, Page(d)))
                                      /\ \A c \in Of(e, Page(d)) : c.seq <= n.seq
      BY <2>3, <3>1, NewestIn
    <3>3. n \in journal /\ n.ent = e /\ n.seq > cursor[d] /\ n.seq <= top.seq
      BY <1>3, <1>4, <3>2 DEF Of
    <3>4. n \in Taken(d, e)'
      BY <1>7, <3>3
    <3>5. \A c \in Taken(d, e)' : c.seq <= n.seq
      BY <1>4, <1>8, <2>1, <3>2, <3>3
    <3>6. Taken(d, e)' \in SUBSET Written
      BY <1>1, <1>7, WrittenType
    <3>7. Newest(Taken(d, e)') = n
      BY <1>1, <3>4, <3>5, <3>6, NewestIs
    <3>8. replica'[d][e] = IF n.op = "delete" THEN Nil ELSE n
      BY <1>2, <2>3, <3>2 DEF Left
    <3>9. n \in Of(e, journal)' /\ n.seq \in Nat /\ n # Nil
      BY <1>1, <1>2, <3>3, WrittenType, Constants DEF Of
    <3> QED  BY <3>7, <3>8, <3>9 DEF Reflects
  <2> QED  BY <2>2, <2>3
<1>10. \E o \in journal' : o.seq >= Upto(d)'
  BY <1>2, <1>4, <1>5
<1>11. snapshot'[d] = Nil
  BY <1>2 DEF ReaderStands
<1> QED  BY <1>2, <1>6, <1>9, <1>10, <1>11 DEF ReaderStands, Visible

LEMMA ReaderInductive == WInv /\ ReadersStand /\ [Next]_vars => ReadersStand'
<1> SUFFICES ASSUME WInv, ReadersStand, [Next]_vars, NEW d \in Account
             PROVE  ReaderStands(d)'
  BY DEF ReadersStand
<1>1. ReaderStands(d)
  BY DEF ReadersStand
<1>2. ASSUME NEW w \in Writer, Commit(w) PROVE ReaderStands(d)'
  BY <1>1, <1>2, CommitKeepsReader
<1>3. CASE UNCHANGED <<rows, journal, late, replica, cursor, snapshot>>
  BY <1>1, <1>3, OtherReader
<1>4. ASSUME NEW c \in Account, Read(c), c # d PROVE ReaderStands(d)'
  <2>1. /\ UNCHANGED <<rows, journal, late>>
        /\ replica'[d] = replica[d] /\ cursor'[d] = cursor[d] /\ snapshot'[d] = snapshot[d]
    BY <1>4, BootstrapSteps, EstablishSteps, PullSteps DEF Read
  <2> QED  BY <1>1, <2>1, OtherReader
<1>5. ASSUME Read(d) PROVE ReaderStands(d)'
  BY <1>1, <1>5, BootstrapKeepsReader, EstablishKeepsReader, PullKeepsReader DEF Read
<1> QED  BY <1>2, <1>3, <1>4, <1>5 DEF Next, vars, Write, Rollback

\* Whatever the paging, the scopes and the interleaving of the transactions, a
\* device lacks a visible change behind its cursor only when that change became
\* visible after one with a higher number (sync_service.py, bootstrap_sync and
\* pull_changes).
THEOREM OnlyLateLost == Spec => []OnlyLateChangesMissing
<1>1. Init => ReadersStand
  BY Constants DEF Init, ReadersStand, ReaderStands, Covered, Upto
<1>2. ReadersStand => OnlyLateChangesMissing
  BY DEF ReadersStand, ReaderStands, OnlyLateChangesMissing, Covered, Taken, SeenOf, Upto
<1> QED  BY WriterAlways, ReaderInductive, <1>1, <1>2, PTL DEF Spec
=============================================================================
