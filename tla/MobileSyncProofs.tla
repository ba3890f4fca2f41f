-------------------------- MODULE MobileSyncProofs --------------------------
(***************************************************************************)
(* Theorems about MobileSync for any set of transactions and payloads, any *)
(* batch and page size, and any number of user operations, web writes and  *)
(* faults.                                                                 *)
(***************************************************************************)
EXTENDS MobileSync, NaturalSets, FiniteSetTheorems

-----------------------------------------------------------------------------
(* The inductive invariant *)

Published(e, ver, v) ==
    \E i \in DOMAIN journal : journal[i] = [ent |-> e, ver |-> ver, val |-> v]

ConflictReasons == {"stale_version", "server_deleted", "ownership_or_visibility_changed"}

\* What the server has told of m it has published.
Backed(m, a) ==
    /\ a.status \in Accepted => Published(m.ent, a.ver, m.val)
    /\ a.sval # Nil => Published(m.ent, a.ver, a.sval)
    /\ a.status = "conflict" => a.reason \in ConflictReasons

\* Every change of the journal took a recorded mutation or a web write, and
\* versions do not outrun it.
Counted ==
    /\ Len(journal) <= Cardinality(Keys(outcomes)) + webs
    /\ \A e \in Entity : rows[e] # Nil =>
         /\ rows[e].ver <= Len(journal)
         /\ Published(e, rows[e].ver, rows[e].val)
    /\ \A k \in Keys(outcomes) : Backed(outcomes[k].req, outcomes[k].res)

\* A mutation has the key of the tap that wrote it; only deletions are empty.
Named(k, m) == m.key = k /\ k <= taps /\ (m.op = "delete" <=> m.val = Nil)

Naming ==
    /\ \A k \in Keys(outcomes) : k <= taps
    /\ \A k \in Keys(outbox) : Named(k, outbox[k].body)
    /\ \A q \in orphans : Keys(q) # {} /\ \A k \in Keys(q) : Named(k, q[k])

\* A call carries the claimed mutations as they still are in the outbox, and
\* each is either to be handled or answered.
InFlight ==
    call # Nil => \A k \in Tap :
        /\ k \in Sending(outbox) <=> call.todo[k] # Nil \/ call.answers[k] # Nil
        /\ call.todo[k] # Nil => call.answers[k] = Nil /\ call.todo[k] = outbox[k].body
        /\ call.answers[k] # Nil => Backed(outbox[k].body, call.answers[k])

\* What a page brings the server has published, and no cursor is ahead of it.
Paging ==
    /\ pc \in {"pull", "repull"} => cursor # Nil
    /\ cursor # Nil => cursor <= Len(journal)
    /\ boot # Nil => boot.high <= Len(journal) /\ pc \in {"bootstrap", "rebootstrap"}
    /\ page # Nil =>
         /\ pc \in {"bootstrap", "rebootstrap", "pull", "repull"}
         /\ page.next = Nil <=> pc \in {"bootstrap", "rebootstrap"}
         /\ page.next = Nil => page.more
         /\ page.next # Nil => page.next <= Len(journal)
         /\ DOMAIN page.changes \subseteq Nat /\ IsFiniteSet(DOMAIN page.changes)
         /\ \A i \in DOMAIN page.changes : page.changes[i].val # Nil =>
              Published(page.changes[i].ent, page.changes[i].ver, page.changes[i].val)

\* Before the first fault a mutation still queued has no outcome, unless it
\* was rejected or its answer is about to be persisted.
Settling ==
    faults = 0 =>
        /\ orphans = {}
        /\ \A k \in Keys(outbox) :
             outcomes[k] # Nil /\ outcomes[k].res.status # "rejected" =>
                 /\ call # Nil /\ call.answers[k] # Nil
                 /\ call.answers[k].status # "rejected"
                 /\ outcomes[k].req = outbox[k].body

Evidence == \A c \in conflicts : c.sval # Nil => Published(c.ent, c.ver, c.sval)

EvidenceOf(e) == {c \in conflicts : c.ent = e}

\* A row the user has never deleted here has at most one mutation or one
\* conflict, which agrees with it; a synced one has neither.
Intent(e) ==
    /\ \A j, k \in EntriesOf(e) : j = k
    /\ \A c, d \in EvidenceOf(e) : c = d
    /\ local[e] = Nil => EntriesOf(e) = {} /\ EvidenceOf(e) = {}
    /\ local[e] # Nil =>
         /\ local[e].status = "synced" => Published(e, local[e].ver, local[e].val)
         /\ local[e].status = "conflict" <=> EvidenceOf(e) # {}
         /\ local[e].status \in {"pending", "failed"} <=> EntriesOf(e) # {}
         /\ \A c \in EvidenceOf(e) : c.lval = local[e].val
         /\ \A k \in EntriesOf(e) :
              /\ outbox[k].body.val = local[e].val
              /\ outbox[k].body.base = local[e].ver
              /\ outbox[k].status = "failed" <=> local[e].status = "failed"

IntentStands == \A e \in Entity \ deletedHere : Intent(e)

IInv ==
    /\ TypeOK
    /\ Counted /\ Naming /\ InFlight /\ Paging
    /\ Settling /\ Evidence /\ IntentStands

-----------------------------------------------------------------------------
(* Constants, and the greatest and the least of the taps *)

LEMMA Constants ==
    /\ MaxTaps \in Nat /\ MaxWeb \in Nat /\ MaxFaults \in Nat
    /\ Nil \notin Value /\ Nil \notin Nat /\ Entity \subseteq Nat /\ Revocable \subseteq Value
    /\ Tap \subseteq Nat /\ (\A k \in Tap : 1 <= k /\ k <= MaxTaps)
    /\ Version \subseteq Nat /\ 0 \in Version
BY MobileSyncAssumption DEF Tap, Version

\* Nil is no record.
LEMMA BodyNotNil == \A x \in Body : x # Nil
BY MobileSyncAssumption, Zenon

LEMMA AnswerNotNil == \A x \in Answer : x # Nil
BY MobileSyncAssumption, Zenon

LEMMA OutcomeNotNil == \A x \in [req : Body, res : Answer] : x # Nil
BY MobileSyncAssumption, Zenon

LEMMA LocalNotNil == \A x \in LocalRow : x # Nil
BY MobileSyncAssumption, Zenon

LEMMA OutboxNotNil == \A x \in OutboxRow : x # Nil
BY MobileSyncAssumption, Zenon

LEMMA CallNotNil == \A x \in Call : x # Nil
BY MobileSyncAssumption, Zenon

LEMMA RowNotNil == \A x \in [ver : Version, val : Value] : x # Nil
BY MobileSyncAssumption, Zenon

LEMMA AbstractRowNotNil == \A x \in [owner : {"account"}, ver : Version, val : Value] : x # Nil
BY MobileSyncAssumption, Zenon

LEMMA TapsCounted == IsFiniteSet(Tap) /\ Cardinality(Tap) = MaxTaps
<1>1. MaxTaps \in Nat
  BY Constants
<1> QED  BY <1>1, FS_Interval DEF Tap

LEMMA MaxIs ==
    ASSUME NEW T \in SUBSET Nat, IsFiniteSet(T), T # {}
    PROVE  Max(T) \in T /\ \A y \in T : y <= Max(T)
<1>1. \E x \in T : \A y \in T : x >= y
  BY FiniteGreatest
<1> QED  BY <1>1 DEF Max

LEMMA LastTap ==
    ASSUME NEW T \in SUBSET Tap, T # {}
    PROVE  Max(T) \in T /\ \A y \in T : y <= Max(T)
<1>1. IsFiniteSet(T) /\ T \in SUBSET Nat
  BY TapsCounted, FS_Subset, Constants
<1> QED  BY <1>1, MaxIs

LEMMA FirstTap ==
    ASSUME NEW T \in SUBSET Tap, T # {}
    PROVE  Min(T) \in T
<1>1. \E x \in T : \A y \in T : x =< y
  BY LeastElement, Constants
<1> QED  BY <1>1 DEF Min

LEMMA LastChange ==
    ASSUME TypeOK, NEW e, \E i \in DOMAIN journal : journal[i].ent = e
    PROVE  \E i \in DOMAIN journal : journal[i].ent = e /\ LastVersion(e) = journal[i].ver
<1> DEFINE T == {i \in DOMAIN journal : journal[i].ent = e}
<1>1. DOMAIN journal = 1..Len(journal) /\ Len(journal) \in Nat
  BY DEF TypeOK
<1>2. IsFiniteSet(1..Len(journal))
  BY <1>1, FS_Interval
<1>4. T \in SUBSET (1..Len(journal)) /\ T # {}
  BY <1>1
<1>5. T \in SUBSET Nat /\ IsFiniteSet(T)
  BY <1>1, <1>2, <1>4, FS_Subset
<1>3. Max(T) \in T
  BY <1>4, <1>5, MaxIs
<1> QED  BY <1>3 DEF LastVersion

-----------------------------------------------------------------------------
(* The journal only grows *)

Grows == Len(journal) <= Len(journal') /\ \A i \in DOMAIN journal :
             i \in DOMAIN journal' /\ journal'[i] = journal[i]

LEMMA StaysPublished ==
    ASSUME Grows, NEW e, NEW ver, NEW v, Published(e, ver, v)
    PROVE  Published(e, ver, v)'
BY DEF Grows, Published

LEMMA StaysBacked ==
    ASSUME Grows, NEW m, NEW a, Backed(m, a)
    PROVE  Backed(m, a)'
BY StaysPublished DEF Backed

LEMMA Unchanging ==
    ASSUME TypeOK, UNCHANGED journal
    PROVE  Grows
BY DEF Grows, TypeOK

LEMMA Appending ==
    ASSUME TypeOK, NEW c \in Change, journal' = Append(journal, c)
    PROVE  /\ Grows /\ journal' \in Seq(Change) /\ Len(journal') = Len(journal) + 1
           /\ \E i \in DOMAIN journal' : journal'[i] = c
<1>1. journal \in Seq(Change)
  BY DEF TypeOK
<1>2. /\ journal' \in Seq(Change) /\ Len(journal') = Len(journal) + 1
      /\ \A i \in 1..Len(journal) : journal'[i] = journal[i]
      /\ journal'[Len(journal) + 1] = c
  BY <1>1
<1> QED  BY <1>1, <1>2 DEF Grows

-----------------------------------------------------------------------------
(* The server *)

ServerTyped ==
    /\ rows \in [Entity -> [ver : Version, val : Value] \cup {Nil}]
    /\ outcomes \in [Tap -> [req : Body, res : Answer] \cup {Nil}]
    /\ journal \in Seq(Change)

\* A mutation seen for the first time is applied to the row it was based on,
\* rejected for its category, or refused with what the server has instead.
Applies(r, a) ==
    /\ a.status = "applied" /\ a.reason = "none" /\ a.sval = Nil
    /\ \/ rows[r.ent] = Nil /\ r.op = "upsert" /\ r.base = 0 /\ a.ver = 1
       \/ /\ rows[r.ent] # Nil /\ r.base = rows[r.ent].ver
          /\ a.ver = IF r.val = rows[r.ent].val THEN rows[r.ent].ver ELSE rows[r.ent].ver + 1

Refuses(r, a) ==
    /\ a.status = "conflict" /\ a.reason \in ConflictReasons
    /\ \/ a.sval = Nil
       \/ rows[r.ent] # Nil /\ a.sval = rows[r.ent].val
    /\ \/ a.ver = 0
       \/ rows[r.ent] # Nil /\ a.ver = rows[r.ent].ver
       \/ \E i \in DOMAIN journal : a.ver = journal[i].ver
    /\ a.sval # Nil => rows[r.ent] # Nil /\ a.ver = rows[r.ent].ver

LEMMA VerdictIs ==
    ASSUME TypeOK, NEW r \in Body, NEW a \in Verdicts(r)
    PROVE  /\ \E s, x, n, v : a = Reply(s, x, n, v)
           /\ \/ a.status = "rejected" /\ a.reason = "invalid_category" /\ a.ver = 0 /\ a.sval = Nil
              \/ Applies(r, a)
              \/ Refuses(r, a)
<1> DEFINE Gone == \E i \in DOMAIN journal : journal[i].ent = r.ent
<1>1. Gone => \E i \in DOMAIN journal : LastVersion(r.ent) = journal[i].ver
  BY LastChange
<1>2. CASE a = Reply("rejected", "invalid_category", 0, Nil)
  BY <1>2 DEF Reply
<1>3. CASE rows[r.ent] = Nil /\ a = Reply("applied", "none", 1, Nil) /\ r.op = "upsert" /\ r.base = 0
  BY <1>3 DEF Reply, Applies
<1>4. CASE Gone /\ a = Reply("conflict", "server_deleted", LastVersion(r.ent), Nil)
  BY <1>1, <1>4 DEF Reply, Refuses, ConflictReasons
<1>5. CASE a = Reply("conflict", "ownership_or_visibility_changed", 0, Nil)
  BY <1>5 DEF Reply, Refuses, ConflictReasons
<1>6. CASE /\ rows[r.ent] # Nil
           /\ a = Reply("conflict", "stale_version", rows[r.ent].ver, rows[r.ent].val)
  BY <1>6 DEF Reply, Refuses, ConflictReasons
<1>7. CASE /\ rows[r.ent] # Nil /\ r.base = rows[r.ent].ver
           /\ a = Reply("applied", "none", IF r.val = rows[r.ent].val THEN rows[r.ent].ver
                                           ELSE rows[r.ent].ver + 1, Nil)
  BY <1>7 DEF Reply, Applies
<1> QED  BY <1>2, <1>3, <1>4, <1>5, <1>6, <1>7 DEF Verdicts

\* The bound on versions leaves room for one more change.
LEMMA OneMore ==
    ASSUME TypeOK, Counted, NEW k \in Tap, outcomes[k] = Nil
    PROVE  /\ Keys(outcomes) \cup {k} \in SUBSET Tap
           /\ Cardinality(Keys(outcomes) \cup {k}) = Cardinality(Keys(outcomes)) + 1
           /\ Cardinality(Keys(outcomes)) \in Nat
           /\ Len(journal) + 1 \in Version
<1>1. Keys(outcomes) \cup {k} \in SUBSET Tap /\ k \notin Keys(outcomes)
  BY DEF Keys
<1>2. IsFiniteSet(Keys(outcomes))
  BY <1>1, TapsCounted, FS_Subset
<1>3. Cardinality(Keys(outcomes) \cup {k}) = Cardinality(Keys(outcomes)) + 1
  BY <1>1, <1>2, FS_AddElement
<1>4. Cardinality(Keys(outcomes) \cup {k}) <= MaxTaps
  BY <1>1, TapsCounted, FS_Subset
<1>5. Cardinality(Keys(outcomes)) \in Nat /\ webs \in 0..MaxWeb /\ Len(journal) \in Nat
  BY <1>2, FS_CardinalityType DEF TypeOK
<1>6. Len(journal) <= Cardinality(Keys(outcomes)) + webs
  BY DEF Counted
<1> QED  BY <1>1, <1>3, <1>4, <1>5, <1>6, Constants DEF Version

\* What handling one mutation does.
LEMMA Handling ==
    ASSUME TypeOK, Counted, Naming, UNCHANGED webs, taps <= taps',
           NEW k \in Tap, NEW r \in Body, Named(k, r),
           NEW a \in Answers(r), Handle(r, a)
    PROVE  /\ Grows /\ ServerTyped' /\ Counted'
           /\ a \in Answer /\ Backed(r, a)'
           /\ \A j \in Tap \ {k} : outcomes'[j] = outcomes[j]
           /\ outcomes[k] # Nil => outcomes'[k] = outcomes[k]
           /\ outcomes[k] # Nil /\ outcomes[k].res.status = "rejected" => a.status = "rejected"
           /\ outcomes[k] = Nil => outcomes'[k] = [req |-> r, res |-> a]
<1> USE DEF Named
<1>0. r.key = k /\ r.ent \in Entity /\ (r.val \in Value \/ r.val = Nil) /\ r.op \in {"upsert", "delete"}
  BY DEF Body
<1>1. CASE outcomes[k] # Nil
  <2>1. UNCHANGED <<rows, outcomes, journal>>
    BY <1>0, <1>1 DEF Handle
  <2>2. Grows
    BY <2>1, Unchanging
  <2>3. outcomes[k].req \in Body /\ outcomes[k].res \in Answer
    BY <1>1 DEF TypeOK
  <2>4. \/ outcomes[k].req = r /\ a = Replayed(outcomes[k].res)
        \/ a = Reply("rejected", "mutation_id_reused", 0, Nil)
    BY <1>0, <1>1 DEF Answers
  <2>5. Backed(outcomes[k].req, outcomes[k].res)
    BY <1>1 DEF Counted, Keys
  <2>6. Backed(r, a) /\ a \in Answer
    <3>1. CASE outcomes[k].req = r /\ a = Replayed(outcomes[k].res)
      BY <2>3, <2>5, <3>1 DEF Replayed, Answer, Backed, Accepted
    <3>2. CASE a = Reply("rejected", "mutation_id_reused", 0, Nil)
      BY <3>2, Constants DEF Reply, Answer, Backed, Accepted
    <3> QED  BY <2>4, <3>1, <3>2
  <2>7. Counted' /\ ServerTyped'
    BY <2>1 DEF Counted, ServerTyped, TypeOK, Backed, Published, Keys
  <2>8. outcomes[k].res.status = "rejected" => a.status = "rejected"
    BY <2>3, <2>4 DEF Replayed, Reply, Answer
  <2> QED  BY <1>1, <2>1, <2>2, <2>6, <2>7, <2>8, StaysBacked
<1>2. CASE outcomes[k] = Nil
  <2>1. a \in Verdicts(r)
    BY <1>0, <1>2 DEF Answers
  <2>2. PICK s, x, n, v : a = Reply(s, x, n, v)
    BY <2>1, VerdictIs
  <2>3. \/ a.status = "rejected" /\ a.reason = "invalid_category" /\ a.ver = 0 /\ a.sval = Nil
        \/ Applies(r, a)
        \/ Refuses(r, a)
    BY <2>1, VerdictIs
  <2>4. /\ Keys(outcomes) \cup {k} \in SUBSET Tap
        /\ Cardinality(Keys(outcomes) \cup {k}) = Cardinality(Keys(outcomes)) + 1
        /\ Cardinality(Keys(outcomes)) \in Nat
        /\ Len(journal) + 1 \in Version
    BY <1>2, OneMore
  <2>5. /\ rows[r.ent] = Nil \/ rows[r.ent] \in [ver : Version, val : Value]
        /\ rows[r.ent] # Nil => /\ rows[r.ent].ver <= Len(journal)
                                /\ Published(r.ent, rows[r.ent].ver, rows[r.ent].val)
    BY <1>0 DEF TypeOK, Counted
  <2>6. Len(journal) \in Nat /\ \A i \in DOMAIN journal : journal[i].ver \in Version
    <3>1. journal \in Seq(Change)
      BY DEF TypeOK
    <3>2. \A i \in DOMAIN journal : journal[i] \in Change
      BY <3>1
    <3> QED  BY <3>1, <3>2 DEF Change
  <2>7. a.ver \in Version
    <3>1. 1 \in Version
      BY <2>4, <2>6, Constants DEF Version
    <3>2. CASE Applies(r, a)
      <4>1. CASE rows[r.ent] # Nil
        <5>1. rows[r.ent].ver \in Nat /\ rows[r.ent].ver <= Len(journal) /\ rows[r.ent].ver \in Version
          BY <2>5, <4>1, Constants
        <5>2. rows[r.ent].ver + 1 \in Version
          BY <2>4, <2>6, <5>1, Constants DEF Version
        <5> QED  BY <3>2, <4>1, <5>1, <5>2 DEF Applies
      <4> QED  BY <3>1, <3>2, <4>1 DEF Applies
    <3>3. CASE Refuses(r, a)
      BY <2>5, <2>6, <3>3, Constants DEF Refuses
    <3> QED  BY <2>3, <3>2, <3>3, Constants
  <2>8. a.sval = Nil \/ a.sval \in Value
    BY <2>3, <2>5 DEF Applies, Refuses
  <2>9. /\ a.status \in {"applied", "conflict", "rejected"}
        /\ a.reason \in ConflictReasons \cup {"none", "invalid_category"}
    BY <2>3 DEF Applies, Refuses
  <2>10. a \in Answer
    BY <2>2, <2>7, <2>8, <2>9 DEF Reply, Answer, ConflictReasons
  <2> DEFINE changes == a.status = "applied" /\ (rows[r.ent] = Nil \/ a.ver # rows[r.ent].ver)
             c == [ent |-> r.ent, ver |-> a.ver, val |-> r.val]
             row == IF r.op = "delete" THEN Nil ELSE [ver |-> a.ver, val |-> r.val]
  <2>11. /\ outcomes' = [outcomes EXCEPT ![k] = [req |-> r, res |-> a]]
         /\ changes => rows' = [rows EXCEPT ![r.ent] = row] /\ journal' = Append(journal, c)
         /\ ~ changes => UNCHANGED <<rows, journal>>
    BY <1>0, <1>2 DEF Handle
  <2>12. c \in Change
    BY <1>0, <2>7 DEF Change
  <2>13. /\ Grows /\ journal' \in Seq(Change)
         /\ changes => /\ Len(journal') = Len(journal) + 1
                       /\ \E i \in DOMAIN journal' : journal'[i] = c
    <3>1. CASE changes
      BY <2>11, <2>12, <3>1, Appending
    <3>2. CASE ~ changes
      BY <2>11, <3>2, Unchanging DEF TypeOK
    <3> QED  BY <3>1, <3>2
  <2>14. row = Nil \/ row \in [ver : Version, val : Value]
    BY <1>0, <2>7
  <2> HIDE DEF row
  <2>15. /\ rows' \in [Entity -> [ver : Version, val : Value] \cup {Nil}]
         /\ \A e \in Entity \ {r.ent} : rows'[e] = rows[e]
         /\ changes => rows'[r.ent] = row
         /\ ~ changes => rows'[r.ent] = rows[r.ent]
    <3>1. CASE changes
      BY <1>0, <2>11, <2>14, <3>1 DEF TypeOK
    <3>2. CASE ~ changes
      BY <2>11, <3>2 DEF TypeOK
    <3> QED  BY <3>1, <3>2
  <2>16. ServerTyped'
    <3>1. outcomes' \in [Tap -> [req : Body, res : Answer] \cup {Nil}]
      BY <2>10, <2>11 DEF TypeOK
    <3> QED  BY <2>13, <2>15, <3>1 DEF ServerTyped
  <2>17. changes => Published(r.ent, a.ver, r.val)'
    BY <2>13 DEF Published
  <2>18. Backed(r, a)'
    <3>1. CASE Applies(r, a)
      <4>1. changes \/ Published(r.ent, a.ver, r.val)
        <5>1. CASE rows[r.ent] # Nil /\ a.ver = rows[r.ent].ver
          <6>1. rows[r.ent].ver \in Nat
            BY <2>5, <5>1, Constants
          <6>2. r.val = rows[r.ent].val
            BY <3>1, <5>1, <6>1 DEF Applies
          <6> QED  BY <2>5, <5>1, <6>2
        <5> QED  BY <3>1, <5>1 DEF Applies
      <4>2. Published(r.ent, a.ver, r.val)'
        BY <2>13, <2>17, <4>1, StaysPublished
      <4> QED  BY <3>1, <4>2 DEF Backed, Applies
    <3>2. CASE Refuses(r, a)
      <4>1. a.sval # Nil => Published(r.ent, a.ver, a.sval)
        BY <2>5, <3>2 DEF Refuses
      <4>2. a.sval # Nil => Published(r.ent, a.ver, a.sval)'
        BY <2>13, <4>1, StaysPublished
      <4> QED  BY <3>2, <4>2 DEF Backed, Refuses, Accepted
    <3>3. CASE a.status = "rejected" /\ a.sval = Nil
      BY <3>3 DEF Backed, Accepted
    <3> QED  BY <2>3, <3>1, <3>2, <3>3
  <2>19. Counted'
    <3>1. Keys(outcomes)' = Keys(outcomes) \cup {k}
      <4>1. [req |-> r, res |-> a] # Nil
        BY <2>10, OutcomeNotNil
      <4> QED  BY <2>11, <4>1 DEF Keys, TypeOK
    <3>2. Len(journal') <= Cardinality(Keys(outcomes)') + webs'
      <4>1. Len(journal') <= Len(journal) + 1
        <5>1. CASE changes
          BY <2>6, <2>13, <5>1
        <5>2. CASE ~ changes
          BY <2>6, <2>11, <5>2
        <5> QED  BY <5>1, <5>2
      <4>2. Len(journal) <= Cardinality(Keys(outcomes)) + webs /\ webs \in Nat /\ Len(journal') \in Nat
        BY <2>13, Constants DEF Counted, TypeOK
      <4> HIDE DEF changes, c
      <4> QED  BY <2>4, <2>6, <3>1, <4>1, <4>2
    <3>3. ASSUME NEW e \in Entity, rows'[e] # Nil
          PROVE  rows'[e].ver <= Len(journal') /\ Published(e, rows[e].ver, rows[e].val)'
      <4>1. CASE e = r.ent /\ changes
        <5>1. rows'[e] = [ver |-> a.ver, val |-> r.val]
          BY <2>15, <3>3, <4>1 DEF row
        <5>2. a.ver <= Len(journal) + 1
          <6>1. CASE rows[r.ent] # Nil
            <7>1. rows[r.ent].ver \in Nat /\ rows[r.ent].ver <= Len(journal)
              BY <2>5, <6>1, Constants
            <7> QED  BY <2>3, <2>6, <4>1, <6>1, <7>1 DEF Applies, Refuses
          <6> QED  BY <2>3, <2>6, <4>1, <6>1 DEF Applies, Refuses
        <5> QED  BY <2>13, <2>17, <4>1, <5>1, <5>2
      <4>2. CASE ~ (e = r.ent /\ changes)
        <5>1. rows'[e] = rows[e] /\ rows[e] \in [ver : Version, val : Value]
          BY <2>15, <3>3, <4>2 DEF TypeOK
        <5>2. rows[e].ver <= Len(journal) /\ Published(e, rows[e].ver, rows[e].val) /\ rows[e].ver \in Nat
          BY <3>3, <5>1, Constants DEF Counted
        <5>3. Len(journal) <= Len(journal') /\ Len(journal') \in Nat
          BY <2>13 DEF Grows
        <5> HIDE DEF changes, c
        <5>4. rows[e].ver <= Len(journal')
          BY <2>6, <5>2, <5>3
        <5> QED  BY <2>13, <5>1, <5>2, <5>4, StaysPublished
      <4> QED  BY <4>1, <4>2
    <3>4. ASSUME NEW j \in Keys(outcomes)' PROVE Backed(outcomes[j].req, outcomes[j].res)'
      <4>1. CASE j = k
        BY <2>11, <2>18, <4>1 DEF TypeOK
      <4>2. CASE j # k
        <5>1. j \in Keys(outcomes) /\ outcomes'[j] = outcomes[j]
          BY <2>11, <3>1, <3>4, <4>2 DEF Keys, TypeOK
        <5>2. Backed(outcomes[j].req, outcomes[j].res)
          BY <5>1 DEF Counted
        <5> QED  BY <2>13, <5>1, <5>2, StaysBacked
      <4> QED  BY <4>1, <4>2
    <3> QED  BY <3>2, <3>3, <3>4 DEF Counted
  <2> QED  BY <1>2, <2>10, <2>11, <2>13, <2>16, <2>18, <2>19 DEF TypeOK
<1> QED  BY <1>1, <1>2

\* The bound on versions leaves room for a write on the web.
LEMMA WebVersion ==
    ASSUME TypeOK, Counted, NEW e \in Entity, webs < MaxWeb,
           NEW ver, ver = IF rows[e] = Nil THEN 1 ELSE rows[e].ver + 1
    PROVE  ver \in Version /\ ver <= Len(journal) + 1
<1>1. /\ rows[e] = Nil \/ rows[e] \in [ver : Version, val : Value]
      /\ rows[e] # Nil => rows[e].ver <= Len(journal)
      /\ Len(journal) \in Nat /\ webs \in Nat
  BY DEF TypeOK, Counted
<1>2. /\ Cardinality(Keys(outcomes)) \in Nat /\ Cardinality(Keys(outcomes)) <= MaxTaps
  <2>1. Keys(outcomes) \in SUBSET Tap
    BY DEF Keys
  <2> QED  BY <2>1, TapsCounted, FS_Subset, FS_CardinalityType
<1>3. Len(journal) <= Cardinality(Keys(outcomes)) + webs
  BY DEF Counted
<1>4. Len(journal) + 1 <= MaxTaps + MaxWeb
  BY <1>1, <1>2, <1>3, Constants
<1>5. CASE rows[e] # Nil
  <2>1. rows[e].ver \in Nat /\ rows[e].ver <= Len(journal)
    BY <1>1, <1>5, Constants
  <2> QED  BY <1>1, <1>4, <1>5, <2>1, Constants DEF Version
<1>6. CASE rows[e] = Nil
  BY <1>1, <1>4, <1>6, Constants DEF Version
<1> QED  BY <1>5, <1>6

LEMMA WebWriting ==
    ASSUME TypeOK, Counted, NEW e \in Entity, NEW v \in Value \cup {Nil}, WebWrite(e, v)
    PROVE  Grows /\ ServerTyped' /\ Counted' /\ webs' \in 0..MaxWeb
<1>0. PICK ver : ver = IF rows[e] = Nil THEN 1 ELSE rows[e].ver + 1
  OBVIOUS
<1> DEFINE c == [ent |-> e, ver |-> ver, val |-> v]
           row == IF v = Nil THEN Nil ELSE [ver |-> ver, val |-> v]
<1>1. /\ webs < MaxWeb /\ webs' = webs + 1 /\ UNCHANGED outcomes
      /\ rows' = [rows EXCEPT ![e] = row] /\ journal' = Append(journal, c)
  BY <1>0 DEF WebWrite
<1>2. Len(journal) \in Nat /\ webs \in Nat
  BY DEF TypeOK
<1>3. Cardinality(Keys(outcomes)) \in Nat
  <2>1. Keys(outcomes) \in SUBSET Tap
    BY DEF Keys
  <2> QED  BY <2>1, TapsCounted, FS_Subset, FS_CardinalityType
<1>4. Len(journal) <= Cardinality(Keys(outcomes)) + webs
  BY DEF Counted
<1>5. ver \in Version /\ ver <= Len(journal) + 1
  BY <1>0, <1>1, WebVersion
<1>6. c \in Change /\ (row = Nil \/ row \in [ver : Version, val : Value])
  BY <1>5 DEF Change
<1> HIDE DEF row
<1>7. /\ Grows /\ journal' \in Seq(Change) /\ Len(journal') = Len(journal) + 1
      /\ \E i \in DOMAIN journal' : journal'[i] = c
  BY <1>1, <1>6, Appending
<1> HIDE DEF c
<1>8. /\ rows' \in [Entity -> [ver : Version, val : Value] \cup {Nil}]
      /\ \A o \in Entity \ {e} : rows'[o] = rows[o]
      /\ rows'[e] = row
  BY <1>1, <1>6 DEF TypeOK
<1>9. Len(journal') <= Cardinality(Keys(outcomes)') + webs'
  BY <1>1, <1>2, <1>3, <1>4, <1>7 DEF Keys
<1>10. ASSUME NEW o \in Entity, rows'[o] # Nil
       PROVE  rows'[o].ver <= Len(journal') /\ Published(o, rows[o].ver, rows[o].val)'
  <2>1. CASE o = e
    <3>1. rows'[e] = [ver |-> ver, val |-> v]
      BY <1>8, <1>10, <2>1 DEF row
    <3>2. Published(e, ver, v)'
      BY <1>7 DEF Published, c
    <3> QED  BY <1>5, <1>7, <2>1, <3>1, <3>2
  <2>2. CASE o # e
    <3>1. rows'[o] = rows[o] /\ rows[o] \in [ver : Version, val : Value]
      BY <1>8, <1>10, <2>2 DEF TypeOK
    <3>2. rows[o].ver <= Len(journal) /\ Published(o, rows[o].ver, rows[o].val)
      BY <1>10, <3>1 DEF Counted
    <3>4. rows[o].ver \in Nat
      BY <3>1, Constants
    <3>3. rows[o].ver <= Len(journal')
      BY <1>2, <1>7, <3>2, <3>4
    <3> QED  BY <1>7, <3>1, <3>2, <3>3, StaysPublished
  <2> QED  BY <2>1, <2>2
<1>11. ASSUME NEW j \in Keys(outcomes)' PROVE Backed(outcomes[j].req, outcomes[j].res)'
  <2>1. j \in Keys(outcomes) /\ outcomes' = outcomes
    BY <1>1, <1>11 DEF Keys
  <2>2. Backed(outcomes[j].req, outcomes[j].res)
    BY <2>1 DEF Counted
  <2> QED  BY <1>7, <2>1, <2>2, StaysBacked
<1>12. Counted'
  BY <1>9, <1>10, <1>11 DEF Counted
<1>13. ServerTyped'
  BY <1>1, <1>7, <1>8 DEF ServerTyped, TypeOK
<1>14. webs' \in 0..MaxWeb
  BY <1>1, <1>2, Constants
<1> QED  BY <1>7, <1>12, <1>13, <1>14

-----------------------------------------------------------------------------
(* What a step leaves alone stands *)

DeviceTyped ==
    /\ local \in [Entity -> LocalRow \cup {Nil}]
    /\ outbox \in [Tap -> OutboxRow \cup {Nil}]
    /\ conflicts \subseteq Conflict
    /\ cursor \in Nat \cup {Nil}

RunTyped ==
    /\ pc \in SyncPC
    /\ call \in Call \cup {Nil} /\ (call # Nil <=> pc = "await")
    /\ attempts \in 0..MaxAttempts
    /\ boot = Nil \/ boot \in [high : Nat, last : Entity \cup {0}, more : BOOLEAN]
    /\ page = Nil \/ page \in [changes : [DOMAIN page.changes -> Change],
                               next : Nat \cup {Nil}, more : BOOLEAN]
    /\ orphans \subseteq Queue

BoundsTyped ==
    /\ taps \in 0..MaxTaps /\ webs \in 0..MaxWeb /\ faults \in 0..MaxFaults
    /\ deletedHere \subseteq Entity /\ cancelled \subseteq Entity
    /\ listedAt \in Nat

LEMMA Types == TypeOK <=> ServerTyped /\ DeviceTyped /\ RunTyped /\ BoundsTyped
BY DEF TypeOK, ServerTyped, DeviceTyped, RunTyped, BoundsTyped

LEMMA TypesAfter == ServerTyped' /\ DeviceTyped' /\ RunTyped' /\ BoundsTyped' => TypeOK'
BY DEF TypeOK, ServerTyped, DeviceTyped, RunTyped, BoundsTyped

LEMMA ServerStands ==
    ASSUME IInv, UNCHANGED <<server, webs>>
    PROVE  ServerTyped' /\ Counted' /\ Grows
BY Unchanging DEF IInv, server, TypeOK, ServerTyped, Counted, Backed, Published, Keys

LEMMA IntentStaysOf ==
    ASSUME Grows, NEW e \in Entity, Intent(e), local'[e] = local[e],
           \A k \in Tap : outbox'[k] = outbox[k] \/ ~ (\/ k \in EntriesOf(e)
                                                       \/ k \in EntriesOf(e)'),
           EvidenceOf(e)' = EvidenceOf(e)
    PROVE  Intent(e)'
<1>1. EntriesOf(e)' = EntriesOf(e) /\ \A k \in EntriesOf(e) : outbox'[k] = outbox[k]
  BY DEF EntriesOf, Keys
<1>2. Published(e, local[e].ver, local[e].val) => Published(e, local[e].ver, local[e].val)'
  BY StaysPublished
<1> QED  BY <1>1, <1>2 DEF Intent

LEMMA DeviceStands ==
    ASSUME IInv, Grows, UNCHANGED <<local, outbox, conflicts, deletedHere>>
    PROVE  Evidence' /\ IntentStands'
<1>1. Evidence'
  BY StaysPublished DEF IInv, Evidence
<1>2. ASSUME NEW e \in Entity \ deletedHere PROVE Intent(e)'
  <2>1. Intent(e)
    BY DEF IInv, IntentStands
  <2>2. EvidenceOf(e)' = EvidenceOf(e)
    BY DEF EvidenceOf
  <2> QED  BY <2>1, <2>2, IntentStaysOf
<1> QED  BY <1>1, <1>2 DEF IntentStands

LEMMA PagingStands ==
    ASSUME IInv, ServerTyped', Grows, UNCHANGED <<pc, cursor, boot, page>>
    PROVE  Paging'
<1>1. /\ cursor # Nil => cursor \in Nat
      /\ boot # Nil => boot.high \in Nat
      /\ page # Nil /\ page.next # Nil => page.next \in Nat
      /\ Len(journal) \in Nat /\ Len(journal') \in Nat /\ Len(journal) <= Len(journal')
  BY DEF IInv, TypeOK, ServerTyped, Grows
<1>2. /\ cursor # Nil => cursor <= Len(journal')
      /\ boot # Nil => boot.high <= Len(journal')
      /\ page # Nil /\ page.next # Nil => page.next <= Len(journal')
  BY <1>1 DEF IInv, Paging
<1>3. page # Nil => \A i \in DOMAIN page.changes : page.changes[i].val # Nil =>
         Published(page.changes[i].ent, page.changes[i].ver, page.changes[i].val)'
  BY StaysPublished DEF IInv, Paging
<1> QED  BY <1>2, <1>3 DEF IInv, Paging

LEMMA CallStands ==
    ASSUME IInv, Grows, UNCHANGED <<outbox, call>>
    PROVE  InFlight'
BY StaysBacked DEF IInv, InFlight, Sending, Keys

LEMMA NamesStand ==
    ASSUME IInv, UNCHANGED <<outcomes, outbox, taps>>, orphans' \subseteq orphans
    PROVE  Naming'
BY DEF IInv, Naming, Named, Keys

LEMMA SettledStands ==
    ASSUME IInv, UNCHANGED <<outcomes, outbox, call>>, faults' = 0 => faults = 0,
           orphans' \subseteq orphans
    PROVE  Settling'
BY DEF IInv, Settling, Keys

-----------------------------------------------------------------------------
(* Steps of the server and of the network *)

LEMMA InvServeCall ==
    ASSUME IInv, ServeCall
    PROVE  IInv'
<1>1. PICK k, r : k = First(call.todo) /\ r = call.todo[k]
  OBVIOUS
<1>2. PICK a \in Answers(r) :
        /\ Handle(r, a)
        /\ call' = [todo |-> [call.todo EXCEPT ![k] = Nil],
                    answers |-> [call.answers EXCEPT ![k] = a]]
  BY <1>1 DEF ServeCall
<1>3. /\ pc = "await" /\ Keys(call.todo) # {}
      /\ UNCHANGED <<device, pc, attempts, boot, page, orphans, taps, webs, faults, history>>
  BY DEF ServeCall
<1> USE DEF device, history
<1>4. /\ k \in Tap /\ r # Nil /\ call \in Call
      /\ call.todo \in Queue /\ call.answers \in [Tap -> Answer \cup {Nil}]
  <2>1. call \in Call
    BY <1>3 DEF IInv, TypeOK
  <2>2. k \in Keys(call.todo)
    BY <1>1, <1>3, FirstTap DEF First, Keys
  <2> QED  BY <1>1, <2>1, <2>2 DEF Keys, Call
<1>5. call # Nil
  BY <1>4, CallNotNil
<1>6. r \in Body /\ r = outbox[k].body /\ k \in Sending(outbox) /\ call.answers[k] = Nil
  BY <1>1, <1>4, <1>5 DEF IInv, InFlight, Queue
<1>7. Named(k, r) /\ k \in Keys(outbox)
  BY <1>6 DEF IInv, Naming, Sending
<1>8. TypeOK /\ Counted /\ Naming /\ UNCHANGED webs /\ taps <= taps'
  BY <1>3 DEF IInv, TypeOK
<1>9. /\ Grows /\ ServerTyped' /\ Counted'
      /\ a \in Answer /\ Backed(r, a)'
      /\ \A j \in Tap \ {k} : outcomes'[j] = outcomes[j]
      /\ outcomes[k] # Nil => outcomes'[k] = outcomes[k]
      /\ outcomes[k] # Nil /\ outcomes[k].res.status = "rejected" => a.status = "rejected"
      /\ outcomes[k] = Nil => outcomes'[k] = [req |-> r, res |-> a]
  BY <1>2, <1>4, <1>6, <1>7, <1>8, Handling
<1>10. call' \in Call /\ call' # Nil
  <2>1. call' \in Call
    BY <1>2, <1>4, <1>9 DEF Call, Queue
  <2> QED  BY <2>1, CallNotNil
<1>11. a # Nil
  BY <1>9, AnswerNotNil
<1>12. /\ call'.todo[k] = Nil /\ call'.answers[k] = a
       /\ \A j \in Tap \ {k} : call'.todo[j] = call.todo[j] /\ call'.answers[j] = call.answers[j]
  BY <1>2, <1>4 DEF Queue
<1>13. TypeOK'
  <2>1. DeviceTyped' /\ BoundsTyped'
    BY <1>3 DEF IInv, TypeOK, DeviceTyped, BoundsTyped
  <2>2. RunTyped'
    BY <1>3, <1>5, <1>10 DEF IInv, TypeOK, RunTyped
  <2> QED  BY <1>9, <2>1, <2>2, TypesAfter
<1>14. Naming'
  <2>1. ASSUME NEW j \in Keys(outcomes)' PROVE j <= taps
    <3>1. j = k \/ j \in Keys(outcomes)
      BY <1>9, <2>1 DEF Keys
    <3> QED  BY <1>7, <3>1 DEF IInv, Naming, Named
  <2> QED  BY <1>3, <2>1 DEF IInv, Naming, Named, Keys
<1>15. InFlight'
  <2>1. ASSUME NEW j \in Tap
        PROVE  /\ j \in Sending(outbox) <=> call'.todo[j] # Nil \/ call'.answers[j] # Nil
               /\ call'.todo[j] # Nil => call'.answers[j] = Nil /\ call'.todo[j] = outbox[j].body
               /\ call'.answers[j] # Nil => Backed(outbox[j].body, call.answers[j])'
    <3>1. CASE j = k
      BY <1>3, <1>6, <1>9, <1>11, <1>12, <3>1
    <3>2. CASE j # k
      <4>1. call'.todo[j] = call.todo[j] /\ call'.answers[j] = call.answers[j]
        BY <1>12, <3>2
      <4>2. /\ j \in Sending(outbox) <=> call.todo[j] # Nil \/ call.answers[j] # Nil
            /\ call.todo[j] # Nil => call.answers[j] = Nil /\ call.todo[j] = outbox[j].body
            /\ call.answers[j] # Nil => Backed(outbox[j].body, call.answers[j])
        BY <1>5 DEF IInv, InFlight
      <4> QED  BY <1>3, <1>9, <4>1, <4>2, StaysBacked
    <3> QED  BY <3>1, <3>2
  <2> QED  BY <1>3, <2>1 DEF InFlight, Sending, Keys
<1>16. Settling'
  <2> SUFFICES ASSUME faults = 0 PROVE Settling'
    BY <1>3 DEF Settling
  <2>1. ASSUME NEW j \in Keys(outbox), outcomes'[j] # Nil, outcomes'[j].res.status # "rejected"
        PROVE  /\ call'.answers[j] # Nil /\ call'.answers[j].status # "rejected"
               /\ outcomes'[j].req = outbox[j].body
    <3>1. j \in Tap
      BY DEF Keys
    <3>2. CASE j # k
      BY <1>9, <1>12, <2>1, <3>1, <3>2 DEF IInv, Settling
    <3>3. CASE j = k /\ outcomes[k] = Nil
      BY <1>6, <1>9, <1>11, <1>12, <2>1, <3>3
    <3>4. CASE j = k /\ outcomes[k] # Nil
      BY <1>6, <1>9, <2>1, <3>4 DEF IInv, Settling
    <3> QED  BY <3>2, <3>3, <3>4
  <2> QED  BY <1>3, <1>10, <2>1 DEF IInv, Settling, Keys
<1>17. Paging' /\ Evidence' /\ IntentStands'
  BY <1>3, <1>9, PagingStands, DeviceStands
<1> QED  BY <1>9, <1>13, <1>14, <1>15, <1>16, <1>17 DEF IInv

LEMMA InvServeOrphan ==
    ASSUME IInv, NEW todo, ServeOrphan(todo)
    PROVE  IInv'
<1>1. PICK k, r : k = First(todo) /\ r = todo[k]
  OBVIOUS
<1>2. PICK a \in Answers(r) : Handle(r, a)
  BY <1>1 DEF ServeOrphan
<1> DEFINE rest == [todo EXCEPT ![k] = Nil]
<1>3. /\ todo \in orphans
      /\ orphans' = (orphans \ {todo}) \cup (IF Keys(rest) = {} THEN {} ELSE {rest})
      /\ UNCHANGED <<device, run, taps, webs, faults, history>>
  BY <1>1 DEF ServeOrphan
<1> USE DEF device, run, history
<1>4. todo \in Queue /\ Keys(todo) # {} /\ \A j \in Keys(todo) : Named(j, todo[j])
  BY <1>3 DEF IInv, TypeOK, Naming
<1>5. k \in Tap /\ k \in Keys(todo) /\ r \in Body /\ Named(k, r)
  <2>1. k \in Keys(todo)
    BY <1>1, <1>4, FirstTap DEF First, Keys
  <2> QED  BY <1>1, <1>4, <2>1 DEF Keys, Queue
<1>6. TypeOK /\ Counted /\ Naming /\ UNCHANGED webs /\ taps <= taps'
  BY <1>3 DEF IInv, TypeOK
<1>7. /\ Grows /\ ServerTyped' /\ Counted'
      /\ \A j \in Tap \ {k} : outcomes'[j] = outcomes[j]
  BY <1>2, <1>5, <1>6, Handling
<1>8. rest \in Queue /\ \A j \in Keys(rest) : j \in Keys(todo) /\ rest[j] = todo[j]
  BY <1>4, <1>5 DEF Queue, Keys
<1> HIDE DEF rest
<1>9. TypeOK'
  <2>1. DeviceTyped' /\ BoundsTyped'
    BY <1>3 DEF IInv, TypeOK, DeviceTyped, BoundsTyped
  <2>2. orphans' \subseteq Queue
    BY <1>3, <1>8 DEF IInv, TypeOK
  <2>3. RunTyped'
    BY <1>3, <2>2 DEF IInv, TypeOK, RunTyped
  <2> QED  BY <1>7, <2>1, <2>3, TypesAfter
<1>10. Naming'
  <2>1. ASSUME NEW j \in Keys(outcomes)' PROVE j <= taps
    <3>1. j = k \/ j \in Keys(outcomes)
      BY <1>7, <2>1 DEF Keys
    <3> QED  BY <1>5, <3>1 DEF IInv, Naming, Named
  <2>2. ASSUME NEW q \in orphans'
        PROVE  Keys(q) # {} /\ \A j \in Keys(q) : Named(j, q[j])
    <3>1. CASE q \in orphans
      BY <3>1 DEF IInv, Naming
    <3>2. CASE q = rest /\ Keys(rest) # {}
      BY <1>4, <1>8, <3>2
    <3> QED  BY <1>3, <2>2, <3>1, <3>2
  <2> QED  BY <1>3, <2>1, <2>2 DEF IInv, Naming, Named, Keys
<1>11. Settling'
  BY <1>3 DEF IInv, Settling
<1>12. Paging' /\ Evidence' /\ IntentStands' /\ InFlight'
  BY <1>3, <1>7, PagingStands, DeviceStands, CallStands
<1> QED  BY <1>7, <1>9, <1>10, <1>11, <1>12 DEF IInv

LEMMA InvWebWrite ==
    ASSUME IInv, NEW e \in Entity, NEW v \in Value \cup {Nil}, WebWrite(e, v)
    PROVE  IInv'
<1>1. UNCHANGED <<outcomes, device, run, orphans, taps, faults, history>>
  BY DEF WebWrite
<1> USE DEF device, run, history
<1>2. Grows /\ ServerTyped' /\ Counted' /\ webs' \in 0..MaxWeb
  BY WebWriting DEF IInv
<1>3. TypeOK'
  <2>1. DeviceTyped' /\ BoundsTyped' /\ RunTyped'
    BY <1>1, <1>2 DEF IInv, TypeOK, DeviceTyped, BoundsTyped, RunTyped
  <2> QED  BY <1>2, <2>1, TypesAfter
<1>4. Naming' /\ Settling'
  BY <1>1, NamesStand, SettledStands
<1>5. Paging' /\ Evidence' /\ IntentStands' /\ InFlight'
  BY <1>1, <1>2, PagingStands, DeviceStands, CallStands
<1> QED  BY <1>2, <1>3, <1>4, <1>5 DEF IInv

LEMMA InvDropOrphan ==
    ASSUME IInv, NEW todo, DropOrphan(todo)
    PROVE  IInv'
<1>1. UNCHANGED <<server, device, run, taps, webs, faults, history>> /\ orphans' \subseteq orphans
  BY DEF DropOrphan
<1> USE DEF server, device, run, history
<1>2. ServerTyped' /\ Counted' /\ Grows
  BY <1>1, ServerStands
<1>3. TypeOK'
  <2>1. DeviceTyped' /\ BoundsTyped' /\ RunTyped'
    BY <1>1 DEF IInv, TypeOK, DeviceTyped, BoundsTyped, RunTyped
  <2> QED  BY <1>2, <2>1, TypesAfter
<1>4. Naming' /\ Settling'
  BY <1>1, NamesStand, SettledStands
<1>5. Paging' /\ Evidence' /\ IntentStands' /\ InFlight'
  BY <1>1, <1>2, PagingStands, DeviceStands, CallStands
<1> QED  BY <1>2, <1>3, <1>4, <1>5 DEF IInv

-----------------------------------------------------------------------------
(* Steps of the user *)

\* A step that rewrites only mutations no call carries.
LEMMA UserStands ==
    ASSUME IInv, UNCHANGED <<server, cursor, run, orphans, webs, faults>>,
           taps' \in {taps, taps + 1},
           outbox' \in [Tap -> OutboxRow \cup {Nil}],
           \A k \in Tap :
              \/ outbox'[k] = outbox[k]
              \/ /\ k \notin Sending(outbox)
                 /\ outbox'[k] # Nil =>
                      /\ outbox'[k].status # "sending"
                      /\ outbox'[k].body.key = k /\ k <= taps'
                      /\ outbox'[k].body.op = "delete" <=> outbox'[k].body.val = Nil
                      /\ outbox[k] # Nil \/ k = taps + 1
    PROVE  /\ ServerTyped' /\ Counted' /\ Grows /\ RunTyped'
           /\ Naming' /\ InFlight' /\ Settling' /\ Paging'
<1> USE DEF server, run
<1>1. ServerTyped' /\ Counted' /\ Grows
  BY ServerStands
<1>2. RunTyped'
  BY DEF IInv, TypeOK, RunTyped
<1>3. taps \in Nat /\ taps <= taps'
  BY Constants DEF IInv, TypeOK
<1>4. \A k \in Tap : outcomes[k] # Nil => k <= taps
  BY DEF IInv, Naming, Keys
<1>5. \A k \in Tap : k <= taps => k <= taps' /\ k # taps + 1
  BY <1>3, Constants
<1>6. Naming'
  <2>1. ASSUME NEW k \in Keys(outbox)' PROVE Named(k, outbox[k].body)'
    <3>1. CASE outbox'[k] = outbox[k]
      BY <1>5, <2>1, <3>1 DEF IInv, Naming, Named, Keys
    <3> QED  BY <2>1, <3>1 DEF Keys, Named
  <2>2. ASSUME NEW q \in orphans, NEW k \in Keys(q) PROVE Named(k, q[k])'
    BY <1>5, <2>2 DEF IInv, Naming, Named, Keys
  <2> QED  BY <1>4, <1>5, <2>1, <2>2 DEF IInv, Naming, Keys
<1>7. \A k \in Tap : k \in Sending(outbox)' <=> k \in Sending(outbox)
  BY DEF Sending, Keys
<1>8. \A k \in Sending(outbox) : outbox'[k] = outbox[k]
  BY DEF Sending, Keys
<1>9. InFlight'
  <2>1. ASSUME NEW k \in Tap, call # Nil
        PROVE  /\ k \in Sending(outbox)' <=> call.todo[k] # Nil \/ call.answers[k] # Nil
               /\ call.todo[k] # Nil => call.answers[k] = Nil /\ call.todo[k] = outbox'[k].body
               /\ call.answers[k] # Nil => Backed(outbox[k].body, call.answers[k])'
    <3>1. /\ k \in Sending(outbox) <=> call.todo[k] # Nil \/ call.answers[k] # Nil
          /\ call.todo[k] # Nil => call.answers[k] = Nil /\ call.todo[k] = outbox[k].body
          /\ call.answers[k] # Nil => Backed(outbox[k].body, call.answers[k])
      BY <2>1 DEF IInv, InFlight
    <3>2. call.answers[k] # Nil => Backed(outbox'[k].body, call.answers[k])
      BY <1>8, <3>1
    <3> QED  BY <1>1, <1>7, <1>8, <3>1, <3>2, StaysBacked
  <2> QED  BY <2>1 DEF InFlight
<1>10. Settling'
  <2>1. ASSUME faults = 0, NEW k \in Keys(outbox)', outcomes[k] # Nil,
               outcomes[k].res.status # "rejected"
        PROVE  /\ call # Nil /\ call.answers[k] # Nil /\ call.answers[k].status # "rejected"
               /\ outcomes[k].req = outbox'[k].body
    <3>1. k \in Tap /\ k <= taps
      BY <1>4, <2>1 DEF Keys
    <3>2. outbox[k] # Nil
      BY <1>5, <2>1, <3>1 DEF Keys
    <3>3. /\ call # Nil /\ call.answers[k] # Nil /\ call.answers[k].status # "rejected"
          /\ outcomes[k].req = outbox[k].body
      BY <2>1, <3>1, <3>2 DEF IInv, Settling, Keys
    <3>4. k \in Sending(outbox)
      BY <3>1, <3>3 DEF IInv, InFlight
    <3> QED  BY <1>8, <3>3, <3>4
  <2> QED  BY <2>1 DEF IInv, Settling, Keys
<1>11. Paging'
  BY <1>1, PagingStands
<1> QED  BY <1>1, <1>2, <1>6, <1>9, <1>10, <1>11

\* Enqueueing puts one queued mutation at the new tap.
LEMMA Queueing ==
    ASSUME IInv, taps < MaxTaps, NEW q \in [Tap -> OutboxRow \cup {Nil}],
           NEW e \in Entity, NEW base \in Version, NEW v \in Value \cup {Nil},
           NEW op \in {"upsert", "delete"}, outbox' = Enqueued(q, e, op, base, v)
    PROVE  /\ taps + 1 \in Tap /\ taps + 1 \in 0..MaxTaps /\ outbox[taps + 1] = Nil
           /\ outbox' \in [Tap -> OutboxRow \cup {Nil}]
           /\ \A k \in Tap \ {taps + 1} : outbox'[k] = q[k]
           /\ outbox'[taps + 1] # Nil /\ outbox'[taps + 1].status = "queued"
           /\ outbox'[taps + 1].body = [key |-> taps + 1, ent |-> e, op |-> op,
                                        base |-> base, val |-> v, at |-> taps + 1]
<1> DEFINE row == [body |-> [key |-> taps + 1, ent |-> e, op |-> op, base |-> base,
                             val |-> v, at |-> taps + 1],
                   status |-> "queued"]
<1>1. taps \in 0..MaxTaps /\ taps + 1 \in Tap
  BY Constants DEF IInv, TypeOK, Tap
<1>2. taps + 1 \in 0..MaxTaps
  BY <1>1, Constants
<1>3. outbox[taps + 1] = Nil
  <2>1. ~ (taps + 1 <= taps)
    BY <1>1
  <2> QED  BY <1>1, <2>1 DEF IInv, Naming, Named, Keys
<1>4. row \in OutboxRow
  BY <1>1 DEF OutboxRow, Body
<1>5. row # Nil
  BY <1>4, OutboxNotNil
<1>6. outbox' = [q EXCEPT ![taps + 1] = row]
  BY DEF Enqueued
<1>7. row.status = "queued" /\ row.body = [key |-> taps + 1, ent |-> e, op |-> op,
                                           base |-> base, val |-> v, at |-> taps + 1]
  OBVIOUS
<1> HIDE DEF row
<1> QED  BY <1>1, <1>2, <1>3, <1>4, <1>5, <1>6, <1>7

\* A pending row with its mutation.
LEMMA OneMutation ==
    ASSUME NEW e, NEW n, EntriesOf(e)' = {n}, EvidenceOf(e)' = {},
           local'[e] # Nil, local'[e].status = "pending", outbox'[n].status # "failed",
           outbox'[n].body.val = local'[e].val, outbox'[n].body.base = local'[e].ver
    PROVE  Intent(e)'
BY DEF Intent

LEMMA InvCreate ==
    ASSUME IInv, NEW e \in Entity, NEW v \in Value, Create(e, v)
    PROVE  IInv'
<1> DEFINE row == [val |-> v, ver |-> 0, status |-> "pending"]
<1>1. /\ taps < MaxTaps /\ taps' = taps + 1 /\ Fresh(e)
      /\ UNCHANGED <<server, cursor, run, orphans, webs, faults>>
      /\ local' = [local EXCEPT ![e] = row]
      /\ outbox' = Enqueued(outbox, e, "upsert", 0, v)
      /\ UNCHANGED <<conflicts, history>>
  BY DEF Create, Tapped
<1> USE DEF history
<1>2. v # Nil /\ 0 \in Version
  BY Constants
<1>3. /\ taps + 1 \in Tap /\ taps + 1 \in 0..MaxTaps /\ outbox[taps + 1] = Nil
      /\ outbox' \in [Tap -> OutboxRow \cup {Nil}]
      /\ \A k \in Tap \ {taps + 1} : outbox'[k] = outbox[k]
      /\ outbox'[taps + 1] # Nil /\ outbox'[taps + 1].status = "queued"
      /\ outbox'[taps + 1].body = [key |-> taps + 1, ent |-> e, op |-> "upsert",
                                   base |-> 0, val |-> v, at |-> taps + 1]
  <2>1. outbox \in [Tap -> OutboxRow \cup {Nil}]
    BY DEF IInv, TypeOK
  <2>2. taps < MaxTaps /\ outbox' = Enqueued(outbox, e, "upsert", 0, v)
    BY <1>1
  <2>3. v \in Value \cup {Nil} /\ 0 \in Version
    BY <1>2
  <2> QED  BY <2>1, <2>2, <2>3, Queueing
<1>4. /\ ServerTyped' /\ Counted' /\ Grows /\ RunTyped'
      /\ Naming' /\ InFlight' /\ Settling' /\ Paging'
  BY <1>1, <1>2, <1>3, UserStands DEF Sending, Keys
<1>5. row \in LocalRow /\ row # Nil
  BY <1>2, LocalNotNil DEF LocalRow
<1> HIDE DEF row
<1>6. /\ local' \in [Entity -> LocalRow \cup {Nil}] /\ local'[e] = row
      /\ \A o \in Entity \ {e} : local'[o] = local[o]
  BY <1>1, <1>5 DEF IInv, TypeOK
<1>7. TypeOK'
  <2>1. DeviceTyped' /\ BoundsTyped'
    BY <1>1, <1>3, <1>6 DEF IInv, TypeOK, DeviceTyped, BoundsTyped
  <2> QED  BY <1>4, <2>1, TypesAfter
<1>8. Evidence'
  BY <1>1, <1>4, StaysPublished DEF IInv, Evidence
<1>9. ASSUME NEW o \in Entity \ deletedHere PROVE Intent(o)'
  <2>1. Intent(o) /\ EvidenceOf(o)' = EvidenceOf(o)
    BY <1>1 DEF IInv, IntentStands, EvidenceOf
  <2>2. CASE o # e
    BY <1>3, <1>4, <1>6, <2>1, <2>2, IntentStaysOf DEF EntriesOf, Keys
  <2>3. CASE o = e
    <3>1. local[e] = Nil
      BY <1>1 DEF Fresh
    <3>2. EntriesOf(e) = {} /\ EvidenceOf(e) = {}
      BY <2>1, <2>3, <3>1 DEF Intent
    <3>3. EntriesOf(e)' = {taps + 1}
      BY <1>3, <3>2 DEF EntriesOf, Keys
    <3>4. /\ local'[e] # Nil /\ local'[e].status = "pending"
          /\ local'[e].val = v /\ local'[e].ver = 0
      BY <1>5, <1>6 DEF row
    <3>5. /\ outbox'[taps + 1].status # "failed"
          /\ outbox'[taps + 1].body.val = v /\ outbox'[taps + 1].body.base = 0
      BY <1>3
    <3>6. PICK n : n = taps + 1
      OBVIOUS
    <3>7. EvidenceOf(e)' = {}
      BY <1>1, <3>2 DEF EvidenceOf
    <3>8. Intent(e)'
      BY <3>3, <3>4, <3>5, <3>6, <3>7, OneMutation
    <3> QED  BY <2>3, <3>8
  <2> QED  BY <2>2, <2>3
<1>10. IntentStands'
  BY <1>1, <1>9 DEF IntentStands
<1> QED  BY <1>4, <1>7, <1>8, <1>10 DEF IInv

LEMMA InvEdit ==
    ASSUME IInv, NEW e \in Entity, NEW v \in Value, Edit(e, v)
    PROVE  IInv'
<1>0. PICK mine, latest : mine = EntriesOf(e) /\ latest = Max(mine)
  OBVIOUS
<1> DEFINE new == [body |-> [outbox[latest].body EXCEPT !.val = v, !.at = taps + 1],
                   status |-> "queued"]
<1>1. /\ taps < MaxTaps /\ taps' = taps + 1
      /\ UNCHANGED <<server, cursor, run, orphans, webs, faults>>
      /\ NotSending(e) /\ local[e] # Nil /\ local[e].status # "conflict"
      /\ local' = [local EXCEPT ![e].val = v, ![e].status = "pending"]
      /\ outbox' = IF mine # {} /\ outbox[latest].body.op = "upsert"
                   THEN [outbox EXCEPT ![latest] = new]
                   ELSE Enqueued(outbox, e, "upsert", local[e].ver, v)
      /\ UNCHANGED <<conflicts, history>>
  BY <1>0 DEF Edit, Tapped
<1> USE DEF history
<1>2. /\ v # Nil /\ taps + 1 \in 0..MaxTaps /\ taps + 1 \in Tap
      /\ outbox \in [Tap -> OutboxRow \cup {Nil}]
      /\ local[e] \in LocalRow /\ local[e].ver \in Version /\ local[e].val # Nil
  <2>1. taps \in 0..MaxTaps
    BY DEF IInv, TypeOK
  <2>2. local[e] \in LocalRow
    BY <1>1 DEF IInv, TypeOK
  <2> QED  BY <1>1, <2>1, <2>2, Constants DEF IInv, TypeOK, Tap, LocalRow
<1>3. PICK row \in LocalRow :
        /\ local' = [local EXCEPT ![e] = row]
        /\ row.val = v /\ row.ver = local[e].ver /\ row.status = "pending"
  <2> DEFINE row == [local[e] EXCEPT !.val = v, !.status = "pending"]
  <2>1. row \in LocalRow /\ row.val = v /\ row.ver = local[e].ver /\ row.status = "pending"
    BY <1>2 DEF LocalRow
  <2>2. local' = [local EXCEPT ![e] = row]
    BY <1>1 DEF IInv, TypeOK
  <2> QED  BY <2>1, <2>2
<1>4. /\ local' \in [Entity -> LocalRow \cup {Nil}] /\ local'[e] = row /\ row # Nil
      /\ \A o \in Entity \ {e} : local'[o] = local[o]
  BY <1>3, LocalNotNil DEF IInv, TypeOK
<1>5. PICK n \in Tap :
        /\ n \in EntriesOf(e) \/ (n = taps + 1 /\ outbox[n] = Nil)
        /\ outbox' \in [Tap -> OutboxRow \cup {Nil}]
        /\ \A k \in Tap \ {n} : outbox'[k] = outbox[k]
        /\ outbox'[n] # Nil /\ outbox'[n].status = "queued"
        /\ outbox'[n].body.key = n /\ outbox'[n].body.ent = e /\ outbox'[n].body.val = v
        /\ outbox'[n].body.op = "upsert"
        /\ e \notin deletedHere =>
             /\ \A k \in EntriesOf(e) : k = n
             /\ outbox'[n].body.base = local[e].ver
  <2>1. CASE mine # {} /\ outbox[latest].body.op = "upsert"
    <3>1. latest \in EntriesOf(e) /\ latest \in Tap
      <4>1. mine \in SUBSET Tap
        BY <1>0 DEF EntriesOf, Keys
      <4> QED  BY <1>0, <2>1, <4>1, LastTap
    <3>2. outbox[latest] \in OutboxRow /\ outbox[latest].body \in Body
      BY <1>2, <3>1 DEF EntriesOf, Keys, OutboxRow
    <3>3. new \in OutboxRow
      BY <1>2, <3>2 DEF OutboxRow, Body
    <3>4. new # Nil
      BY <3>3, OutboxNotNil
    <3>5. /\ new.status = "queued" /\ new.body.val = v /\ new.body.op = "upsert"
          /\ new.body.key = outbox[latest].body.key
          /\ new.body.ent = outbox[latest].body.ent
          /\ new.body.base = outbox[latest].body.base
      BY <2>1, <3>2 DEF Body
    <3>6. outbox[latest].body.key = latest /\ outbox[latest].body.ent = e
      BY <3>1 DEF IInv, Naming, Named, EntriesOf
    <3>7. outbox' = [outbox EXCEPT ![latest] = new]
      BY <1>1, <2>1
    <3>8. e \notin deletedHere => /\ \A k \in EntriesOf(e) : k = latest
                                  /\ outbox[latest].body.base = local[e].ver
      BY <1>1, <3>1 DEF IInv, IntentStands, Intent
    <3> HIDE DEF new
    <3> QED  BY <1>2, <3>1, <3>3, <3>4, <3>5, <3>6, <3>7, <3>8
  <2>2. CASE ~ (mine # {} /\ outbox[latest].body.op = "upsert")
    <3>1. outbox' = Enqueued(outbox, e, "upsert", local[e].ver, v) /\ taps < MaxTaps
      BY <1>1, <2>2
    <3>2. v \in Value \cup {Nil}
      OBVIOUS
    <3>3. /\ taps + 1 \in Tap /\ taps + 1 \in 0..MaxTaps /\ outbox[taps + 1] = Nil
          /\ outbox' \in [Tap -> OutboxRow \cup {Nil}]
          /\ \A k \in Tap \ {taps + 1} : outbox'[k] = outbox[k]
          /\ outbox'[taps + 1] # Nil /\ outbox'[taps + 1].status = "queued"
          /\ outbox'[taps + 1].body = [key |-> taps + 1, ent |-> e, op |-> "upsert",
                                       base |-> local[e].ver, val |-> v, at |-> taps + 1]
      BY <1>2, <3>1, <3>2, Queueing
    <3>4. e \notin deletedHere => EntriesOf(e) = {}
      <4> SUFFICES ASSUME e \notin deletedHere, mine # {} PROVE FALSE
        BY <1>0
      <4>1. PICK k \in EntriesOf(e) : \A j \in EntriesOf(e) : j = k
        BY <1>0 DEF IInv, IntentStands, Intent
      <4>2. k = latest
        <5>1. mine = {k}
          BY <1>0, <4>1
        <5> QED  BY <1>0, <5>1 DEF Max
      <4>3. outbox[k].body.val = local[e].val /\ outbox[k] \in OutboxRow
        BY <1>1, <1>2, <4>1 DEF IInv, IntentStands, Intent, EntriesOf, Keys
      <4>4. outbox[k].body.op # "delete" /\ outbox[k].body.op \in {"upsert", "delete"}
        BY <1>2, <4>1, <4>3 DEF IInv, Naming, Named, EntriesOf, OutboxRow, Body
      <4> QED  BY <2>2, <4>2, <4>4
    <3>5. PICK n \in Tap : n = taps + 1
      BY <3>3
    <3>6. /\ outbox'[n].body.key = n /\ outbox'[n].body.ent = e /\ outbox'[n].body.val = v
          /\ outbox'[n].body.op = "upsert" /\ outbox'[n].body.base = local[e].ver
      BY <3>3, <3>5
    <3>7. /\ outbox[n] = Nil /\ outbox'[n] # Nil /\ outbox'[n].status = "queued"
          /\ \A k \in Tap \ {n} : outbox'[k] = outbox[k]
      BY <3>3, <3>5
    <3>8. outbox' \in [Tap -> OutboxRow \cup {Nil}]
      BY <3>3
    <3> QED  BY <3>4, <3>5, <3>6, <3>7, <3>8
  <2> QED  BY <2>1, <2>2
<1>6. /\ ServerTyped' /\ Counted' /\ Grows /\ RunTyped'
      /\ Naming' /\ InFlight' /\ Settling' /\ Paging'
  <2>1. n \notin Sending(outbox)
    BY <1>1, <1>5 DEF NotSending, Sending, EntriesOf, Keys
  <2>2. n <= taps'
    BY <1>1, <1>5, Constants DEF IInv, TypeOK, Naming, Named, EntriesOf
  <2>3. n \in EntriesOf(e) => outbox[n] # Nil
    BY DEF EntriesOf, Keys
  <2> QED  BY <1>1, <1>2, <1>5, <2>1, <2>2, <2>3, UserStands
<1>7. TypeOK'
  <2>1. DeviceTyped' /\ BoundsTyped'
    BY <1>1, <1>2, <1>4, <1>5 DEF IInv, TypeOK, DeviceTyped, BoundsTyped
  <2> QED  BY <1>6, <2>1, TypesAfter
<1>8. Evidence'
  BY <1>1, <1>6, StaysPublished DEF IInv, Evidence
<1>9. ASSUME NEW o \in Entity \ deletedHere PROVE Intent(o)'
  <2>1. Intent(o) /\ EvidenceOf(o)' = EvidenceOf(o)
    BY <1>1 DEF IInv, IntentStands, EvidenceOf
  <2>2. CASE o # e
    BY <1>4, <1>5, <1>6, <2>1, <2>2, IntentStaysOf DEF EntriesOf, Keys
  <2>3. CASE o = e
    <3>1. EvidenceOf(e) = {}
      BY <1>1, <2>1, <2>3 DEF Intent
    <3>2. EvidenceOf(e)' = {}
      BY <2>1, <2>3, <3>1 DEF EvidenceOf
    <3>3. EntriesOf(e)' = {n}
      BY <1>5, <2>3 DEF EntriesOf, Keys
    <3>4. Intent(e)'
      BY <1>3, <1>4, <1>5, <2>3, <3>2, <3>3, OneMutation
    <3> QED  BY <2>3, <3>4
  <2> QED  BY <2>2, <2>3
<1>10. IntentStands'
  BY <1>1, <1>9 DEF IntentStands
<1> QED  BY <1>6, <1>7, <1>8, <1>10 DEF IInv

LEMMA InvDelete ==
    ASSUME IInv, NEW e \in Entity, Delete(e)
    PROVE  IInv'
<1>0. PICK base : base = IF EntriesOf(e) = {} THEN local[e].ver
                         ELSE outbox[Max(EntriesOf(e))].body.base
  OBVIOUS
<1> DEFINE others == [k \in Tap |-> IF k \in EntriesOf(e) THEN Nil ELSE outbox[k]]
           since == IF base = 0 THEN local[e].ver ELSE base
<1>1. /\ taps < MaxTaps /\ taps' = taps + 1
      /\ UNCHANGED <<server, cursor, run, orphans, webs, faults>>
      /\ NotSending(e) /\ local[e] # Nil /\ local[e].status # "conflict"
      /\ local' = [local EXCEPT ![e] = Nil]
      /\ \/ /\ outbox' = others /\ UNCHANGED deletedHere
            /\ cancelled' = cancelled \cup {e}
         \/ /\ outbox' = Enqueued(others, e, "delete", since, Nil)
            /\ deletedHere' = deletedHere \cup {e} /\ UNCHANGED cancelled
      /\ UNCHANGED <<conflicts, listedAt>>
  BY <1>0 DEF Delete, Tapped
<1>2. /\ taps + 1 \in 0..MaxTaps /\ taps + 1 \in Tap
      /\ outbox \in [Tap -> OutboxRow \cup {Nil}]
      /\ local[e] \in LocalRow /\ local[e].ver \in Version
  <2>1. taps \in 0..MaxTaps
    BY DEF IInv, TypeOK
  <2>2. local[e] \in LocalRow
    BY <1>1 DEF IInv, TypeOK
  <2> QED  BY <1>1, <2>1, <2>2, Constants DEF IInv, TypeOK, Tap, LocalRow
<1>3. since \in Version
  <2>1. CASE EntriesOf(e) # {}
    <3>1. EntriesOf(e) \in SUBSET Tap
      BY DEF EntriesOf, Keys
    <3>2. Max(EntriesOf(e)) \in EntriesOf(e)
      BY <2>1, <3>1, LastTap
    <3>3. outbox[Max(EntriesOf(e))] \in OutboxRow
      BY <1>2, <3>2 DEF EntriesOf, Keys
    <3> QED  BY <1>0, <1>2, <2>1, <3>3 DEF OutboxRow, Body
  <2> QED  BY <1>0, <1>2, <2>1
<1>4. /\ others \in [Tap -> OutboxRow \cup {Nil}]
      /\ \A k \in EntriesOf(e) : others[k] = Nil
      /\ \A k \in Tap \ EntriesOf(e) : others[k] = outbox[k]
  BY <1>2 DEF EntriesOf, Keys
<1> HIDE DEF others, since
<1>5. \A k \in EntriesOf(e) : k \in Tap /\ k \notin Sending(outbox)
  BY <1>1 DEF NotSending, Sending, EntriesOf, Keys
<1>6. /\ local' \in [Entity -> LocalRow \cup {Nil}] /\ local'[e] = Nil
      /\ \A o \in Entity \ {e} : local'[o] = local[o]
  BY <1>1 DEF IInv, TypeOK
<1>7. outbox[taps + 1] = Nil /\ taps + 1 \notin Sending(outbox) /\ taps + 1 \notin EntriesOf(e)
  <2>1. taps \in Nat /\ ~ (taps + 1 <= taps)
    BY Constants DEF IInv, TypeOK
  <2> QED  BY <1>2, <2>1 DEF IInv, Naming, Named, Keys, Sending, EntriesOf
<1>8. PICK n \in Tap :
        /\ n = taps + 1
        /\ outbox' \in [Tap -> OutboxRow \cup {Nil}]
        /\ \A k \in Tap \ {n} : outbox'[k] = others[k]
        /\ outbox'[n] # Nil =>
             /\ outbox'[n].status = "queued"
             /\ outbox'[n].body.key = n /\ outbox'[n].body.ent = e
             /\ outbox'[n].body.op = "delete" /\ outbox'[n].body.val = Nil
             /\ e \in deletedHere'
  <2>1. PICK n \in Tap : n = taps + 1
    BY <1>2
  <2>2. CASE outbox' = others
    BY <1>4, <1>7, <2>1, <2>2
  <2>3. CASE outbox' = Enqueued(others, e, "delete", since, Nil) /\ deletedHere' = deletedHere \cup {e}
    <3>1. Nil \in Value \cup {Nil} /\ taps < MaxTaps
      BY <1>1
    <3>2. /\ outbox' \in [Tap -> OutboxRow \cup {Nil}]
          /\ \A k \in Tap \ {taps + 1} : outbox'[k] = others[k]
          /\ outbox'[taps + 1] # Nil /\ outbox'[taps + 1].status = "queued"
          /\ outbox'[taps + 1].body = [key |-> taps + 1, ent |-> e, op |-> "delete",
                                       base |-> since, val |-> Nil, at |-> taps + 1]
      BY <1>3, <1>4, <2>3, <3>1, Queueing
    <3>3. /\ outbox'[n].body.key = n /\ outbox'[n].body.ent = e
          /\ outbox'[n].body.op = "delete" /\ outbox'[n].body.val = Nil
      BY <2>1, <3>2
    <3> QED  BY <2>1, <2>3, <3>2, <3>3
  <2> QED  BY <1>1, <2>2, <2>3
<1>9. \A k \in Tap : \/ outbox'[k] = outbox[k]
                     \/ k \in EntriesOf(e) /\ outbox'[k] = Nil
                     \/ k = n /\ outbox'[k] # Nil
  BY <1>4, <1>7, <1>8
<1>10. /\ ServerTyped' /\ Counted' /\ Grows /\ RunTyped'
       /\ Naming' /\ InFlight' /\ Settling' /\ Paging'
  <2>1. taps' \in {taps, taps + 1} /\ n <= taps'
    BY <1>1, <1>8, Constants
  <2>2. outbox' \in [Tap -> OutboxRow \cup {Nil}]
    BY <1>8
  <2>3. ASSUME NEW k \in Tap
        PROVE  \/ outbox'[k] = outbox[k]
               \/ /\ k \notin Sending(outbox)
                  /\ outbox'[k] # Nil =>
                       /\ outbox'[k].status # "sending"
                       /\ outbox'[k].body.key = k /\ k <= taps'
                       /\ outbox'[k].body.op = "delete" <=> outbox'[k].body.val = Nil
                       /\ outbox[k] # Nil \/ k = taps + 1
    BY <1>5, <1>7, <1>8, <1>9, <2>1
  <2> QED  BY <1>1, <2>1, <2>2, <2>3, UserStands
<1>11. TypeOK'
  <2>1. DeviceTyped' /\ BoundsTyped'
    BY <1>1, <1>2, <1>6, <1>8 DEF IInv, TypeOK, DeviceTyped, BoundsTyped
  <2> QED  BY <1>10, <2>1, TypesAfter
<1>12. Evidence'
  BY <1>1, <1>10, StaysPublished DEF IInv, Evidence
<1>13. ASSUME NEW o \in Entity \ deletedHere' PROVE Intent(o)'
  <2>1. Intent(o) /\ EvidenceOf(o)' = EvidenceOf(o)
    BY <1>1 DEF IInv, IntentStands, EvidenceOf
  <2>2. CASE o # e
    <3>1. \A k \in Tap : outbox'[k] = outbox[k] \/ ~ (k \in EntriesOf(o) \/ k \in EntriesOf(o)')
      BY <1>7, <1>8, <1>9, <2>2 DEF EntriesOf, Keys
    <3> QED  BY <1>6, <1>10, <2>1, <2>2, <3>1, IntentStaysOf
  <2>3. CASE o = e
    <3>1. outbox'[n] = Nil
      BY <1>8, <2>3
    <3>2. EntriesOf(e)' = {}
      <4>1. ASSUME NEW k \in Tap, outbox'[k] # Nil PROVE outbox'[k].body.ent # e
        <5>1. k # n /\ outbox'[k] = others[k]
          BY <1>8, <3>1, <4>1
        <5>2. k \notin EntriesOf(e) /\ others[k] = outbox[k]
          BY <1>4, <4>1, <5>1
        <5> QED  BY <4>1, <5>1, <5>2 DEF EntriesOf, Keys
      <4> QED  BY <4>1 DEF EntriesOf, Keys
    <3>3. EvidenceOf(e)' = {}
      BY <1>1, <2>1, <2>3 DEF EvidenceOf, Intent
    <3>4. Intent(e)'
      BY <1>6, <3>2, <3>3 DEF Intent
    <3> QED  BY <2>3, <3>4
  <2> QED  BY <2>2, <2>3
<1>14. IntentStands'
  BY <1>13 DEF IntentStands
<1> QED  BY <1>10, <1>11, <1>12, <1>14 DEF IInv

LEMMA InvUseServer ==
    ASSUME IInv, NEW c \in conflicts, UseServer(c)
    PROVE  IInv'
<1>1. PICK e : e = c.ent
  OBVIOUS
<1> DEFINE row == IF c.sval = Nil THEN Nil
                  ELSE [val |-> c.sval, ver |-> c.ver, status |-> "synced"]
<1>2. /\ conflicts' = conflicts \ {c} /\ local' = [local EXCEPT ![e] = row]
      /\ UNCHANGED <<server, outbox, cursor, run, orphans, taps, webs, faults, history>>
  BY <1>1 DEF UseServer
<1> USE DEF history
<1>3. /\ c \in Conflict /\ e \in Entity /\ row \in LocalRow \cup {Nil}
      /\ outbox \in [Tap -> OutboxRow \cup {Nil}]
  BY <1>1 DEF IInv, TypeOK, Conflict, LocalRow
<1>4. row # Nil => row.status = "synced" /\ Published(e, row.ver, row.val)
  BY <1>1 DEF IInv, Evidence
<1>5. row # Nil => Published(e, c.ver, c.sval) /\ row.ver = c.ver /\ row.val = c.sval
  BY <1>1 DEF IInv, Evidence
<1> HIDE DEF row
<1>6. /\ local' \in [Entity -> LocalRow \cup {Nil}] /\ local'[e] = row
      /\ \A o \in Entity \ {e} : local'[o] = local[o]
  BY <1>2, <1>3 DEF IInv, TypeOK
<1>7. /\ ServerTyped' /\ Counted' /\ Grows /\ RunTyped'
      /\ Naming' /\ InFlight' /\ Settling' /\ Paging'
  BY <1>2, <1>3, UserStands
<1>8. TypeOK'
  <2>1. DeviceTyped' /\ BoundsTyped'
    BY <1>2, <1>3, <1>6 DEF IInv, TypeOK, DeviceTyped, BoundsTyped
  <2> QED  BY <1>7, <2>1, TypesAfter
<1>9. Evidence'
  BY <1>2, <1>7, StaysPublished DEF IInv, Evidence
<1>10. ASSUME NEW o \in Entity \ deletedHere PROVE Intent(o)'
  <2>1. Intent(o)
    BY DEF IInv, IntentStands
  <2>2. CASE o # e
    <3>1. EvidenceOf(o)' = EvidenceOf(o)
      BY <1>1, <1>2, <2>2 DEF EvidenceOf
    <3> QED  BY <1>2, <1>6, <1>7, <2>1, <2>2, <3>1, IntentStaysOf
  <2>3. CASE o = e
    <3>1. c \in EvidenceOf(e)
      BY <1>1 DEF EvidenceOf
    <3>2. EvidenceOf(e)' = {}
      BY <1>2, <2>1, <2>3, <3>1 DEF EvidenceOf, Intent
    <3>3. EntriesOf(e) = {}
      BY <2>1, <2>3, <3>1 DEF Intent
    <3>4. EntriesOf(e)' = {}
      BY <1>2, <3>3 DEF EntriesOf, Keys
    <3>5. row # Nil => Published(e, c.ver, c.sval)'
      BY <1>5, <1>7, StaysPublished
    <3>6. Intent(e)'
      BY <1>4, <1>5, <1>6, <3>2, <3>4, <3>5 DEF Intent
    <3> QED  BY <2>3, <3>6
  <2> QED  BY <2>2, <2>3
<1>11. IntentStands'
  BY <1>2, <1>10 DEF IntentStands
<1> QED  BY <1>7, <1>8, <1>9, <1>11 DEF IInv

LEMMA InvRetryMine ==
    ASSUME IInv, NEW c \in conflicts, RetryMine(c)
    PROVE  IInv'
<1>1. PICK e : e = c.ent
  OBVIOUS
<1>2. /\ taps < MaxTaps /\ taps' = taps + 1
      /\ UNCHANGED <<server, cursor, run, orphans, webs, faults>>
      /\ c.lval # Nil
      /\ conflicts' = conflicts \ {c}
      /\ local' = IF local[e] = Nil THEN local
                  ELSE [local EXCEPT ![e].ver = c.ver, ![e].status = "pending"]
      /\ outbox' = Enqueued(outbox, e, "upsert", c.ver, c.lval)
      /\ UNCHANGED history
  BY <1>1 DEF RetryMine, Tapped
<1> USE DEF history
<1>3. c \in Conflict /\ e \in Entity /\ c.ver \in Version /\ c.lval \in Value \cup {Nil}
  BY <1>1 DEF IInv, TypeOK, Conflict
<1>4. /\ taps + 1 \in Tap /\ taps + 1 \in 0..MaxTaps /\ outbox[taps + 1] = Nil
      /\ outbox' \in [Tap -> OutboxRow \cup {Nil}]
      /\ \A k \in Tap \ {taps + 1} : outbox'[k] = outbox[k]
      /\ outbox'[taps + 1] # Nil /\ outbox'[taps + 1].status = "queued"
      /\ outbox'[taps + 1].body = [key |-> taps + 1, ent |-> e, op |-> "upsert",
                                   base |-> c.ver, val |-> c.lval, at |-> taps + 1]
  <2>1. outbox \in [Tap -> OutboxRow \cup {Nil}]
    BY DEF IInv, TypeOK
  <2>2. taps < MaxTaps /\ outbox' = Enqueued(outbox, e, "upsert", c.ver, c.lval)
    BY <1>2
  <2> QED  BY <1>3, <2>1, <2>2, Queueing
<1>5. PICK n \in Tap :
        /\ n = taps + 1 /\ outbox[n] = Nil
        /\ \A k \in Tap \ {n} : outbox'[k] = outbox[k]
        /\ outbox'[n] # Nil /\ outbox'[n].status = "queued"
        /\ outbox'[n].body.key = n /\ outbox'[n].body.ent = e
        /\ outbox'[n].body.op = "upsert" /\ outbox'[n].body.base = c.ver
        /\ outbox'[n].body.val = c.lval
  BY <1>4
<1>6. /\ ServerTyped' /\ Counted' /\ Grows /\ RunTyped'
      /\ Naming' /\ InFlight' /\ Settling' /\ Paging'
  <2>1. n <= taps' /\ n \notin Sending(outbox)
    BY <1>2, <1>5, Constants DEF Sending, Keys
  <2> QED  BY <1>2, <1>4, <1>5, <2>1, UserStands
<1>7. /\ local' \in [Entity -> LocalRow \cup {Nil}]
      /\ \A o \in Entity \ {e} : local'[o] = local[o]
      /\ local[e] # Nil => /\ local'[e] # Nil /\ local'[e].val = local[e].val
                           /\ local'[e].ver = c.ver /\ local'[e].status = "pending"
  <2>1. CASE local[e] = Nil
    BY <1>2, <2>1 DEF IInv, TypeOK
  <2>2. CASE local[e] # Nil
    <3> DEFINE row == [local[e] EXCEPT !.ver = c.ver, !.status = "pending"]
    <3>1. local[e] \in LocalRow
      BY <1>3, <2>2 DEF IInv, TypeOK
    <3>2. /\ row \in LocalRow /\ row.val = local[e].val
          /\ row.ver = c.ver /\ row.status = "pending"
      BY <1>3, <3>1 DEF LocalRow
    <3>3. row # Nil
      BY <3>2, LocalNotNil
    <3>4. local' = [local EXCEPT ![e] = row]
      BY <1>2, <1>3, <2>2 DEF IInv, TypeOK
    <3> HIDE DEF row
    <3> QED  BY <1>3, <3>2, <3>3, <3>4 DEF IInv, TypeOK
  <2> QED  BY <2>1, <2>2
<1>8. TypeOK'
  <2>1. DeviceTyped' /\ BoundsTyped'
    BY <1>2, <1>4, <1>7 DEF IInv, TypeOK, DeviceTyped, BoundsTyped
  <2> QED  BY <1>6, <2>1, TypesAfter
<1>9. Evidence'
  BY <1>2, <1>6, StaysPublished DEF IInv, Evidence
<1>10. ASSUME NEW o \in Entity \ deletedHere PROVE Intent(o)'
  <2>1. Intent(o)
    BY DEF IInv, IntentStands
  <2>2. CASE o # e
    <3>1. EvidenceOf(o)' = EvidenceOf(o)
      BY <1>1, <1>2, <2>2 DEF EvidenceOf
    <3>2. \A k \in Tap : outbox'[k] = outbox[k] \/ ~ (k \in EntriesOf(o) \/ k \in EntriesOf(o)')
      BY <1>5, <2>2 DEF EntriesOf, Keys
    <3> QED  BY <1>6, <1>7, <2>1, <2>2, <3>1, <3>2, IntentStaysOf
  <2>3. CASE o = e
    <3>1. c \in EvidenceOf(e)
      BY <1>1 DEF EvidenceOf
    <3>2. EvidenceOf(e)' = {}
      BY <1>2, <2>1, <2>3, <3>1 DEF EvidenceOf, Intent
    <3>3. local[e] # Nil /\ EntriesOf(e) = {} /\ c.lval = local[e].val
      BY <2>1, <2>3, <3>1 DEF Intent
    <3>4. EntriesOf(e)' = {n}
      BY <1>5, <3>3 DEF EntriesOf, Keys
    <3>5. Intent(e)'
      BY <1>5, <1>7, <3>2, <3>3, <3>4, OneMutation
    <3> QED  BY <2>3, <3>5
  <2> QED  BY <2>2, <2>3
<1>11. IntentStands'
  BY <1>2, <1>10 DEF IntentStands
<1> QED  BY <1>6, <1>8, <1>9, <1>11 DEF IInv

-----------------------------------------------------------------------------
(* Steps of the sync run that change the status of mutations *)

\* A step outside a call that gives mutations another status, and leaves the
\* failed ones alone.
LEMMA StatusesStand ==
    ASSUME IInv, call = Nil,
           UNCHANGED <<server, local, conflicts, taps, webs, faults, orphans, history>>,
           outbox' \in [Tap -> OutboxRow \cup {Nil}],
           \A k \in Tap :
              /\ outbox'[k] = Nil <=> outbox[k] = Nil
              /\ outbox[k] # Nil => /\ outbox'[k].body = outbox[k].body
                                    /\ outbox'[k].status = "failed" <=> outbox[k].status = "failed"
    PROVE  /\ ServerTyped' /\ Counted' /\ Grows /\ BoundsTyped'
           /\ Naming' /\ Settling' /\ Evidence' /\ IntentStands'
<1> USE DEF history, server
<1>1. ServerTyped' /\ Counted' /\ Grows
  BY ServerStands
<1>2. BoundsTyped'
  BY DEF IInv, TypeOK, BoundsTyped
<1>3. Naming'
  <2>1. ASSUME NEW k \in Keys(outbox)' PROVE Named(k, outbox[k].body)'
    <3>1. k \in Keys(outbox) /\ outbox'[k].body = outbox[k].body
      BY <2>1 DEF Keys
    <3> QED  BY <3>1 DEF IInv, Naming, Named
  <2> QED  BY <2>1 DEF IInv, Naming, Named, Keys
<1>4. Settling'
  <2>1. ASSUME faults = 0, NEW k \in Keys(outbox)', outcomes[k] # Nil
        PROVE  outcomes[k].res.status = "rejected"
    <3>1. k \in Keys(outbox)
      BY <2>1 DEF Keys
    <3> QED  BY <2>1, <3>1 DEF IInv, Settling
  <2> QED  BY <2>1 DEF IInv, Settling, Keys
<1>5. Evidence'
  BY <1>1, StaysPublished DEF IInv, Evidence
<1>6. ASSUME NEW e \in Entity \ deletedHere PROVE Intent(e)'
  <2>1. Intent(e)
    BY DEF IInv, IntentStands
  <2>2. EntriesOf(e)' = EntriesOf(e) /\ EvidenceOf(e)' = EvidenceOf(e)
    BY DEF EntriesOf, EvidenceOf, Keys
  <2>3. \A k \in EntriesOf(e) : /\ outbox'[k].body = outbox[k].body
                                /\ outbox'[k].status = "failed" <=> outbox[k].status = "failed"
    BY DEF EntriesOf, Keys
  <2>4. Published(e, local[e].ver, local[e].val) => Published(e, local[e].ver, local[e].val)'
    BY <1>1, StaysPublished
  <2> QED  BY <2>1, <2>2, <2>3, <2>4 DEF Intent
<1>7. IntentStands'
  BY <1>6 DEF IntentStands
<1> QED  BY <1>1, <1>2, <1>3, <1>4, <1>5, <1>7

\* Taking claims back touches nothing but the status of claimed mutations.
LEMMA Requeueing ==
    ASSUME IInv, NEW q, q = Requeued(outbox)
    PROVE  /\ q \in [Tap -> OutboxRow \cup {Nil}]
           /\ \A k \in Tap :
                /\ q[k] = Nil <=> outbox[k] = Nil
                /\ outbox[k] # Nil => /\ q[k].body = outbox[k].body
                                      /\ q[k].status = "failed" <=> outbox[k].status = "failed"
<1>1. outbox \in [Tap -> OutboxRow \cup {Nil}]
  BY DEF IInv, TypeOK
<1>2. ASSUME NEW k \in Tap
      PROVE  /\ q[k] \in OutboxRow \cup {Nil}
             /\ q[k] = Nil <=> outbox[k] = Nil
             /\ outbox[k] # Nil => /\ q[k].body = outbox[k].body
                                   /\ q[k].status = "failed" <=> outbox[k].status = "failed"
  <2>1. CASE k \in Sending(outbox)
    <3>1. outbox[k] \in OutboxRow /\ outbox[k] # Nil /\ outbox[k].status = "sending"
      BY <1>1, <2>1 DEF Sending, Keys
    <3>2. q[k] = [outbox[k] EXCEPT !.status = "queued"]
      BY <2>1 DEF Requeued
    <3>3. q[k] \in OutboxRow /\ q[k].body = outbox[k].body /\ q[k].status = "queued"
      BY <3>1, <3>2 DEF OutboxRow
    <3> QED  BY <3>1, <3>3, OutboxNotNil
  <2>2. CASE k \notin Sending(outbox)
    BY <1>1, <2>2 DEF Requeued
  <2> QED  BY <2>1, <2>2
<1>3. q = [k \in Tap |-> q[k]]
  BY DEF Requeued
<1> QED  BY <1>2, <1>3

LEMMA InvStartSync ==
    ASSUME IInv, StartSync
    PROVE  IInv'
<1>1. /\ pc = "idle" /\ pc' = "claim" /\ outbox' = Requeued(outbox)
      /\ UNCHANGED <<local, conflicts, cursor, call, attempts, boot, page, orphans, faults>>
      /\ UNCHANGED <<server, taps, webs, history>>
  BY DEF StartSync, SyncUnchanged, UserUnchanged, history
<1>2. call = Nil
  BY <1>1 DEF IInv, TypeOK
<1>3. /\ outbox' \in [Tap -> OutboxRow \cup {Nil}]
      /\ \A k \in Tap :
           /\ outbox'[k] = Nil <=> outbox[k] = Nil
           /\ outbox[k] # Nil => /\ outbox'[k].body = outbox[k].body
                                 /\ outbox'[k].status = "failed" <=> outbox[k].status = "failed"
  BY <1>1, Requeueing
<1>4. /\ ServerTyped' /\ Counted' /\ Grows /\ BoundsTyped'
      /\ Naming' /\ Settling' /\ Evidence' /\ IntentStands'
  BY <1>1, <1>2, <1>3, StatusesStand
<1>5. TypeOK'
  <2>1. DeviceTyped' /\ RunTyped'
    BY <1>1, <1>3 DEF IInv, TypeOK, DeviceTyped, RunTyped, SyncPC
  <2> QED  BY <1>4, <2>1, TypesAfter
<1>6. InFlight' /\ Paging'
  BY <1>1, <1>2 DEF IInv, InFlight, Paging, server
<1> QED  BY <1>4, <1>5, <1>6 DEF IInv

LEMMA InvRequeue ==
    ASSUME IInv, Requeue
    PROVE  IInv'
<1>1. /\ pc = "requeue" /\ pc' = "idle" /\ outbox' = Requeued(outbox)
      /\ UNCHANGED <<local, conflicts, cursor, call, attempts, boot, page, orphans, faults>>
      /\ UNCHANGED <<server, taps, webs, history>>
  BY DEF Requeue, SyncUnchanged, UserUnchanged, history
<1>2. call = Nil
  BY <1>1 DEF IInv, TypeOK
<1>3. /\ outbox' \in [Tap -> OutboxRow \cup {Nil}]
      /\ \A k \in Tap :
           /\ outbox'[k] = Nil <=> outbox[k] = Nil
           /\ outbox[k] # Nil => /\ outbox'[k].body = outbox[k].body
                                 /\ outbox'[k].status = "failed" <=> outbox[k].status = "failed"
  BY <1>1, Requeueing
<1>4. /\ ServerTyped' /\ Counted' /\ Grows /\ BoundsTyped'
      /\ Naming' /\ Settling' /\ Evidence' /\ IntentStands'
  BY <1>1, <1>2, <1>3, StatusesStand
<1>5. TypeOK'
  <2>1. DeviceTyped' /\ RunTyped'
    BY <1>1, <1>3 DEF IInv, TypeOK, DeviceTyped, RunTyped, SyncPC
  <2> QED  BY <1>4, <2>1, TypesAfter
<1>6. InFlight' /\ Paging'
  BY <1>1, <1>2 DEF IInv, InFlight, Paging, server
<1> QED  BY <1>4, <1>5, <1>6 DEF IInv

\* The request of a claimed batch.
LEMMA Fetching ==
    ASSUME NEW q \in [Tap -> OutboxRow \cup {Nil}], NEW c, c = Fetch(q)
    PROVE  /\ c \in Call /\ c # Nil
           /\ \A k \in Tap : /\ k \in Sending(q) <=> c.todo[k] # Nil
                             /\ c.todo[k] # Nil => c.todo[k] = q[k].body
                             /\ c.answers[k] = Nil
<1>1. \A k \in Sending(q) : k \in Tap /\ q[k].body \in Body
  BY DEF Sending, Keys, OutboxRow
<1>2. \A k \in Sending(q) : q[k].body # Nil
  BY <1>1, BodyNotNil
<1>3. c.todo \in Queue /\ c.answers \in [Tap -> Answer \cup {Nil}]
  BY <1>1 DEF Fetch, Queue
<1>4. c \in Call
  BY <1>3 DEF Fetch, Call
<1>5. c # Nil
  BY <1>4, CallNotNil
<1> QED  BY <1>2, <1>4, <1>5 DEF Fetch

LEMMA FetchInFlight ==
    ASSUME NEW q \in [Tap -> OutboxRow \cup {Nil}], outbox' = q, call' = Fetch(q)
    PROVE  call' \in Call /\ call' # Nil /\ InFlight'
<1>1. PICK c : c = Fetch(q)
  OBVIOUS
<1>2. /\ c \in Call /\ c # Nil
      /\ \A k \in Tap : /\ k \in Sending(q) <=> c.todo[k] # Nil
                        /\ c.todo[k] # Nil => c.todo[k] = q[k].body
                        /\ c.answers[k] = Nil
  BY <1>1, Fetching
<1>3. Sending(outbox)' = Sending(q)
  BY DEF Sending, Keys
<1> QED  BY <1>1, <1>2, <1>3 DEF InFlight

LEMMA InvClaim ==
    ASSUME IInv, Claim
    PROVE  IInv'
<1> DEFINE queued == {k \in Keys(outbox) : outbox[k].status = "queued"}
           batch == {k \in queued : Cardinality({j \in queued : j <= k}) <= BatchSize}
           claimed == [k \in Tap |->
                         IF k \in batch THEN [outbox[k] EXCEPT !.status = "sending"]
                                        ELSE outbox[k]]
<1>1. /\ pc = "claim"
      /\ \/ /\ pc' = IF cursor = Nil THEN "bootstrap" ELSE "pull"
            /\ UNCHANGED <<outbox, call, attempts>>
         \/ outbox' = claimed /\ call' = Fetch(claimed) /\ attempts' = 1 /\ pc' = "await"
      /\ UNCHANGED <<local, conflicts, cursor, boot, page, orphans, faults>>
      /\ UNCHANGED <<server, taps, webs, history>>
  BY DEF Claim, SyncUnchanged, UserUnchanged, history
<1>2. call = Nil /\ boot = Nil /\ page = Nil
  BY <1>1 DEF IInv, TypeOK, Paging
<1>3. \A k \in batch : k \in Keys(outbox) /\ outbox[k].status = "queued"
  OBVIOUS
<1> HIDE DEF batch
<1>4. ASSUME NEW k \in Tap
      PROVE  /\ claimed[k] \in OutboxRow \cup {Nil}
             /\ claimed[k] = Nil <=> outbox[k] = Nil
             /\ outbox[k] # Nil =>
                  /\ claimed[k].body = outbox[k].body
                  /\ claimed[k].status = "failed" <=> outbox[k].status = "failed"
  <2>1. CASE k \in batch
    <3>1. outbox[k] \in OutboxRow /\ outbox[k] # Nil /\ outbox[k].status = "queued"
      BY <1>3, <2>1 DEF IInv, TypeOK, Keys
    <3>2. claimed[k] \in OutboxRow /\ claimed[k].body = outbox[k].body /\ claimed[k].status = "sending"
      BY <2>1, <3>1 DEF OutboxRow
    <3> HIDE DEF claimed
    <3> QED  BY <3>1, <3>2, OutboxNotNil
  <2>2. CASE k \notin batch
    BY <2>2 DEF IInv, TypeOK
  <2> QED  BY <2>1, <2>2
<1>5. claimed \in [Tap -> OutboxRow \cup {Nil}]
  BY <1>4
<1> HIDE DEF claimed
<1>6. /\ outbox' \in [Tap -> OutboxRow \cup {Nil}]
      /\ \A k \in Tap :
           /\ outbox'[k] = Nil <=> outbox[k] = Nil
           /\ outbox[k] # Nil => /\ outbox'[k].body = outbox[k].body
                                 /\ outbox'[k].status = "failed" <=> outbox[k].status = "failed"
  BY <1>1, <1>4, <1>5 DEF IInv, TypeOK
<1>7. /\ ServerTyped' /\ Counted' /\ Grows /\ BoundsTyped'
      /\ Naming' /\ Settling' /\ Evidence' /\ IntentStands'
  BY <1>1, <1>2, <1>6, StatusesStand
<1>8. /\ (call' \in Call /\ call' # Nil /\ pc' = "await" /\ attempts' = 1)
         \/ (call' = Nil /\ attempts' = attempts /\ pc' = IF cursor = Nil THEN "bootstrap" ELSE "pull")
      /\ InFlight'
  <2>1. CASE outbox' = claimed /\ call' = Fetch(claimed) /\ attempts' = 1 /\ pc' = "await"
    BY <1>5, <2>1, FetchInFlight
  <2>2. CASE UNCHANGED <<outbox, call, attempts>> /\ pc' = IF cursor = Nil THEN "bootstrap" ELSE "pull"
    BY <1>2, <2>2 DEF InFlight
  <2> QED  BY <1>1, <2>1, <2>2
<1>9. TypeOK'
  <2>1. DeviceTyped'
    BY <1>1, <1>6 DEF IInv, TypeOK, DeviceTyped
  <2>2. 1 \in 0..MaxAttempts
    BY MobileSyncAssumption
  <2>3. RunTyped'
    BY <1>1, <1>2, <1>8, <2>2 DEF IInv, TypeOK, RunTyped, SyncPC
  <2> QED  BY <1>7, <2>1, <2>3, TypesAfter
<1>10. Paging'
  BY <1>1, <1>2, <1>8 DEF IInv, Paging, server
<1> QED  BY <1>7, <1>8, <1>9, <1>10 DEF IInv

-----------------------------------------------------------------------------
(* Lost calls, crashes and answers *)

\* A lost call leaves requests behind that are named like those of the outbox.
LEMMA Orphaning ==
    ASSUME IInv, UNCHANGED <<outcomes, outbox, taps>>, orphans' = Orphaned
    PROVE  orphans' \subseteq Queue /\ Naming'
<1>1. CASE call # Nil /\ Keys(call.todo) # {}
  <2>1. orphans' = orphans \cup {call.todo} /\ call.todo \in Queue
    BY <1>1 DEF Orphaned, IInv, TypeOK, Call
  <2>2. ASSUME NEW k \in Keys(call.todo) PROVE Named(k, call.todo[k])
    <3>1. k \in Tap /\ call.todo[k] # Nil
      BY <2>2 DEF Keys
    <3>2. k \in Sending(outbox) /\ call.todo[k] = outbox[k].body
      BY <1>1, <3>1 DEF IInv, InFlight
    <3> QED  BY <3>2 DEF IInv, Naming, Sending
  <2>3. \A q \in orphans' : Keys(q) # {} /\ \A k \in Keys(q) : Named(k, q[k])
    BY <1>1, <2>1, <2>2 DEF IInv, Naming
  <2>4. orphans' \subseteq Queue
    BY <2>1 DEF IInv, TypeOK
  <2> QED  BY <2>3, <2>4 DEF IInv, Naming, Named, Keys
<1>2. CASE ~ (call # Nil /\ Keys(call.todo) # {})
  BY <1>2, NamesStand DEF Orphaned, IInv, TypeOK
<1> QED  BY <1>1, <1>2

LEMMA InvLoseCall ==
    ASSUME IInv, LoseCall
    PROVE  IInv'
<1>1. /\ pc = "await" /\ faults < MaxFaults /\ faults' = faults + 1 /\ orphans' = Orphaned
      /\ \/ MayRetry /\ attempts' = attempts + 1 /\ call' = Fetch(outbox) /\ UNCHANGED pc
         \/ pc' = "requeue" /\ call' = Nil /\ attempts' = 0
      /\ UNCHANGED <<device, boot, page>>
      /\ UNCHANGED <<server, taps, webs, history>>
  BY DEF LoseCall, SyncUnchanged, UserUnchanged, history
<1> USE DEF device, server, history
<1>2. ServerTyped' /\ Counted' /\ Grows
  BY <1>1, ServerStands
<1>3. orphans' \subseteq Queue /\ Naming'
  BY <1>1, Orphaning
<1>4. outbox \in [Tap -> OutboxRow \cup {Nil}] /\ boot = Nil /\ page = Nil
  BY <1>1 DEF IInv, TypeOK, Paging
<1>5. /\ InFlight'
      /\ \/ /\ call' \in Call /\ call' # Nil /\ pc' = "await" /\ attempts' \in 0..MaxAttempts
         \/ call' = Nil /\ pc' = "requeue" /\ attempts' \in 0..MaxAttempts
  <2>1. CASE MayRetry /\ attempts' = attempts + 1 /\ call' = Fetch(outbox) /\ UNCHANGED pc
    <3>1. attempts' \in 0..MaxAttempts
      BY <2>1, MobileSyncAssumption DEF MayRetry, IInv, TypeOK
    <3>2. call' \in Call /\ call' # Nil /\ InFlight'
      BY <1>1, <1>4, <2>1, FetchInFlight
    <3> QED  BY <1>1, <2>1, <3>1, <3>2
  <2>2. CASE pc' = "requeue" /\ call' = Nil /\ attempts' = 0
    BY <2>2, MobileSyncAssumption DEF InFlight
  <2> QED  BY <1>1, <2>1, <2>2
<1>6. faults' \in 0..MaxFaults /\ faults' # 0
  BY <1>1, Constants DEF IInv, TypeOK
<1>7. TypeOK'
  <2>1. DeviceTyped' /\ BoundsTyped'
    BY <1>1, <1>6 DEF IInv, TypeOK, DeviceTyped, BoundsTyped
  <2>2. RunTyped'
    BY <1>1, <1>3, <1>4, <1>5 DEF RunTyped, SyncPC
  <2> QED  BY <1>2, <2>1, <2>2, TypesAfter
<1>8. Settling' /\ Paging'
  BY <1>1, <1>4, <1>5, <1>6 DEF IInv, Settling, Paging
<1>9. Evidence' /\ IntentStands'
  BY <1>1, <1>2, DeviceStands
<1> QED  BY <1>2, <1>3, <1>5, <1>7, <1>8, <1>9 DEF IInv

LEMMA InvCrash ==
    ASSUME IInv, Crash
    PROVE  IInv'
<1>1. /\ faults < MaxFaults /\ faults' = faults + 1 /\ orphans' = Orphaned
      /\ pc' = "idle" /\ call' = Nil /\ attempts' = 0 /\ boot' = Nil /\ page' = Nil
      /\ UNCHANGED device
      /\ UNCHANGED <<server, taps, webs, history>>
  BY DEF Crash, SyncUnchanged, UserUnchanged, history
<1> USE DEF device, server, history
<1>2. ServerTyped' /\ Counted' /\ Grows
  BY <1>1, ServerStands
<1>3. orphans' \subseteq Queue /\ Naming'
  BY <1>1, Orphaning
<1>4. faults' \in 0..MaxFaults /\ faults' # 0 /\ 0 \in 0..MaxAttempts
  BY <1>1, Constants, MobileSyncAssumption DEF IInv, TypeOK
<1>5. TypeOK'
  <2>1. DeviceTyped' /\ BoundsTyped'
    BY <1>1, <1>4 DEF IInv, TypeOK, DeviceTyped, BoundsTyped
  <2>2. RunTyped'
    BY <1>1, <1>3, <1>4 DEF RunTyped, SyncPC
  <2> QED  BY <1>2, <2>1, <2>2, TypesAfter
<1>6. InFlight' /\ Settling' /\ Paging'
  BY <1>1, <1>4 DEF IInv, InFlight, Settling, Paging
<1>7. Evidence' /\ IntentStands'
  BY <1>1, <1>2, DeviceStands
<1> QED  BY <1>2, <1>3, <1>5, <1>6, <1>7 DEF IInv

\* The answered mutations are the claimed ones.
LEMMA Answered ==
    ASSUME IInv, pc = "await", Keys(call.todo) = {}
    PROVE  /\ call \in Call /\ call.answers \in [Tap -> Answer \cup {Nil}]
           /\ \A k \in Tap : k \in Sending(outbox) <=> call.answers[k] # Nil
           /\ \A k \in Tap : call.answers[k] # Nil =>
                /\ call.answers[k] \in Answer
                /\ outbox[k] # Nil /\ outbox[k] \in OutboxRow /\ outbox[k].body \in Body
                /\ outbox[k].status = "sending"
                /\ Backed(outbox[k].body, call.answers[k])
<1>1. call \in Call /\ call # Nil
  BY DEF IInv, TypeOK
<1>2. call.answers \in [Tap -> Answer \cup {Nil}]
  BY <1>1 DEF Call
<1>3. ASSUME NEW k \in Tap PROVE k \in Sending(outbox) <=> call.answers[k] # Nil
  <2>1. call.todo[k] = Nil
    BY DEF Keys
  <2> QED  BY <1>1, <2>1 DEF IInv, InFlight
<1>4. ASSUME NEW k \in Tap, call.answers[k] # Nil
      PROVE  /\ call.answers[k] \in Answer
             /\ outbox[k] # Nil /\ outbox[k] \in OutboxRow /\ outbox[k].body \in Body
             /\ outbox[k].status = "sending"
             /\ Backed(outbox[k].body, call.answers[k])
  <2>1. k \in Keys(outbox) /\ outbox[k].status = "sending"
    BY <1>3, <1>4 DEF Sending
  <2>2. outbox[k] \in OutboxRow /\ outbox[k] # Nil
    BY <2>1 DEF IInv, TypeOK, Keys
  <2>3. outbox[k].body \in Body
    BY <2>2 DEF OutboxRow
  <2>4. Backed(outbox[k].body, call.answers[k])
    BY <1>1, <1>4 DEF IInv, InFlight
  <2> QED  BY <1>2, <1>4, <2>1, <2>2, <2>3, <2>4
<1> QED  BY <1>1, <1>2, <1>3, <1>4

\* Of the answers to a row's mutations, one decides: its version and status
\* are the row's, unless an accepted deletion takes the row away.
LEMMA SettledTyped ==
    ASSUME IInv, pc = "await", Keys(call.todo) = {}, NEW e \in Entity
    PROVE  Settled(e) \in LocalRow \cup {Nil}
<1> DEFINE mine == {k \in Keys(call.answers) : outbox[k].body.ent = e}
           told == {k \in mine : call.answers[k].status # "rejected"}
           gone == {k \in mine : /\ call.answers[k].status \in Accepted
                                 /\ outbox[k].body.op = "delete"}
           row == [val |-> local[e].val,
                   ver |-> IF told = {} THEN local[e].ver ELSE call.answers[Max(told)].ver,
                   status |-> Shown[call.answers[Max(mine)].status]]
<1>1. \A k \in Tap : call.answers[k] # Nil => call.answers[k] \in Answer
  BY Answered
<1>2. mine \in SUBSET Tap /\ told \in SUBSET mine
  BY DEF Keys
<1>3. local[e] \in LocalRow \cup {Nil}
  BY DEF IInv, TypeOK
<1>4. \/ Settled(e) = local[e] \/ Settled(e) = Nil
      \/ mine # {} /\ local[e] # Nil /\ Settled(e) = row
  BY DEF Settled
<1>5. ASSUME mine # {}, local[e] # Nil PROVE row \in LocalRow
  <2>1. Max(mine) \in mine
    BY <1>2, <1>5, LastTap
  <2>2. call.answers[Max(mine)] \in Answer
    BY <1>1, <2>1 DEF Keys
  <2>3. told # {} => Max(told) \in told
    BY <1>2, LastTap
  <2>4. told # {} => call.answers[Max(told)] \in Answer
    BY <1>1, <2>3 DEF Keys
  <2>5. \A s \in {"applied", "duplicate", "conflict", "rejected"} :
           Shown[s] \in {"synced", "pending", "failed", "conflict"}
    BY DEF Shown
  <2>6. Shown[call.answers[Max(mine)].status] \in {"synced", "pending", "failed", "conflict"}
    BY <2>2, <2>5 DEF Answer
  <2>7. (IF told = {} THEN local[e].ver ELSE call.answers[Max(told)].ver) \in Version
    BY <1>3, <1>5, <2>4 DEF Answer, LocalRow
  <2>8. local[e].val \in Value
    BY <1>3, <1>5 DEF LocalRow
  <2> HIDE DEF mine, told
  <2> QED  BY <2>6, <2>7, <2>8 DEF LocalRow
<1> QED  BY <1>3, <1>4, <1>5

\* What the answer to the only mutation of a row makes of it.
LEMMA SettledAs ==
    ASSUME IInv, pc = "await", Keys(call.todo) = {}, NEW e \in Entity, local[e] # Nil,
           NEW k \in Tap, call.answers[k] # Nil, outbox[k].body.ent = e,
           outbox[k].body.op # "delete", \A j \in EntriesOf(e) : j = k,
           NEW a, a = call.answers[k]
    PROVE  /\ Settled(e) # Nil /\ Settled(e).val = local[e].val
           /\ Settled(e).ver = IF a.status = "rejected" THEN local[e].ver ELSE a.ver
           /\ Settled(e).status = Shown[a.status]
<1> DEFINE mine == {j \in Keys(call.answers) : outbox[j].body.ent = e}
           told == {j \in mine : call.answers[j].status # "rejected"}
           gone == {j \in mine : /\ call.answers[j].status \in Accepted
                                 /\ outbox[j].body.op = "delete"}
<1>1. \A j \in mine : j \in EntriesOf(e)
  BY Answered DEF Keys, EntriesOf
<1>2. mine = {k}
  BY <1>1 DEF Keys
<1>3. gone = {} /\ told = IF a.status = "rejected" THEN {} ELSE {k}
  BY <1>2
<1>4. Max({k}) = k
  BY DEF Max
<1>5. Settled(e) = [val |-> local[e].val,
                    ver |-> IF told = {} THEN local[e].ver ELSE call.answers[Max(told)].ver,
                    status |-> Shown[call.answers[Max(mine)].status]]
  BY <1>2, <1>3 DEF Settled
<1> HIDE DEF mine, told, gone
<1>6. Settled(e).status = Shown[a.status]
  BY <1>2, <1>4, <1>5
<1>7. Settled(e).ver = IF a.status = "rejected" THEN local[e].ver ELSE a.ver
  <2>1. CASE a.status = "rejected"
    BY <1>3, <1>5, <2>1
  <2>2. CASE a.status # "rejected"
    BY <1>3, <1>4, <1>5, <2>2
  <2> QED  BY <2>1, <2>2
<1>8. Settled(e) # Nil
  <2>1. local[e].ver \in Version /\ local[e].val \in Value
    BY DEF IInv, TypeOK, LocalRow
  <2>2. a \in Answer
    BY Answered
  <2>3. \A s \in {"applied", "duplicate", "conflict", "rejected"} :
           Shown[s] \in {"synced", "pending", "failed", "conflict"}
    BY DEF Shown
  <2>4. Shown[a.status] \in {"synced", "pending", "failed", "conflict"}
    BY <2>2, <2>3 DEF Answer
  <2>5. (IF a.status = "rejected" THEN local[e].ver ELSE a.ver) \in Version
    BY <2>1, <2>2 DEF Answer
  <2>6. \A ver \in Version, s \in {"synced", "pending", "failed", "conflict"} :
           [val |-> local[e].val, ver |-> ver, status |-> s] \in LocalRow
    BY <2>1 DEF LocalRow
  <2>7. Settled(e) = [val |-> local[e].val,
                      ver |-> IF a.status = "rejected" THEN local[e].ver ELSE a.ver,
                      status |-> Shown[a.status]]
    BY <1>5, <1>6, <1>7
  <2>8. Settled(e) \in LocalRow
    BY <2>4, <2>5, <2>6, <2>7
  <2> QED  BY <2>8, LocalNotNil
<1> QED  BY <1>5, <1>6, <1>7, <1>8

LEMMA InvPersistResponse ==
    ASSUME IInv, PersistResponse
    PROVE  IInv'
<1> DEFINE News(k) == [key |-> k, ent |-> outbox[k].body.ent,
                       reason |-> call.answers[k].reason, ver |-> call.answers[k].ver,
                       sval |-> call.answers[k].sval, lval |-> outbox[k].body.val]
           refused == {j \in Keys(call.answers) : call.answers[j].status = "conflict"}
<1>1. /\ pc = "await" /\ Keys(call.todo) = {}
      /\ local' = [e \in Entity |-> Settled(e)]
      /\ outbox' = [k \in Tap |->
           IF call.answers[k] = Nil THEN outbox[k]
           ELSE IF call.answers[k].status = "rejected"
                THEN [outbox[k] EXCEPT !.status = "failed"] ELSE Nil]
      /\ conflicts' = conflicts \cup {News(k) : k \in refused}
      /\ call' = Nil /\ attempts' = 0 /\ pc' = "claim"
      /\ UNCHANGED <<cursor, boot, page, orphans, faults>>
      /\ UNCHANGED <<server, taps, webs, history>>
  BY DEF PersistResponse, SyncUnchanged, UserUnchanged, history
<1> USE DEF server, history
<1>2. /\ call.answers \in [Tap -> Answer \cup {Nil}]
      /\ \A k \in Tap : k \in Sending(outbox) <=> call.answers[k] # Nil
      /\ \A k \in Tap : call.answers[k] # Nil =>
           /\ call.answers[k] \in Answer
           /\ outbox[k] # Nil /\ outbox[k] \in OutboxRow /\ outbox[k].body \in Body
           /\ outbox[k].status = "sending"
           /\ Backed(outbox[k].body, call.answers[k])
  BY <1>1, Answered
<1>3. ServerTyped' /\ Counted' /\ Grows
  BY <1>1, ServerStands
<1>4. ASSUME NEW k \in Tap
      PROVE  \/ call.answers[k] = Nil /\ outbox'[k] = outbox[k]
             \/ /\ call.answers[k] # Nil /\ call.answers[k].status = "rejected"
                /\ outbox'[k] \in OutboxRow /\ outbox'[k] # Nil
                /\ outbox'[k].body = outbox[k].body /\ outbox'[k].status = "failed"
             \/ /\ call.answers[k] # Nil /\ call.answers[k].status # "rejected"
                /\ outbox'[k] = Nil
  <2>1. CASE call.answers[k] # Nil /\ call.answers[k].status = "rejected"
    <3>1. outbox'[k] = [outbox[k] EXCEPT !.status = "failed"] /\ outbox[k] \in OutboxRow
      BY <1>1, <1>2, <2>1
    <3>2. /\ outbox'[k] \in OutboxRow /\ outbox'[k].body = outbox[k].body
          /\ outbox'[k].status = "failed"
      BY <3>1 DEF OutboxRow
    <3>3. outbox'[k] # Nil
      BY <3>2, OutboxNotNil
    <3> QED  BY <2>1, <3>2, <3>3
  <2>2. CASE ~ (call.answers[k] # Nil /\ call.answers[k].status = "rejected")
    BY <1>1, <2>2
  <2> QED  BY <2>1, <2>2
<1>5. outbox' \in [Tap -> OutboxRow \cup {Nil}]
  <2>1. \A k \in Tap : outbox'[k] \in OutboxRow \cup {Nil}
    BY <1>4 DEF IInv, TypeOK
  <2>2. outbox' = [k \in Tap |-> outbox'[k]]
    BY <1>1
  <2> QED  BY <2>1, <2>2
<1>6. ASSUME NEW k \in refused
      PROVE  /\ News(k) \in Conflict /\ k \in Tap /\ call.answers[k] # Nil
             /\ News(k).sval # Nil => Published(News(k).ent, News(k).ver, News(k).sval)
  <2>1. k \in Tap /\ call.answers[k] # Nil /\ call.answers[k].status = "conflict"
    BY DEF Keys
  <2>2. /\ call.answers[k].reason \in ConflictReasons
        /\ call.answers[k].sval # Nil =>
             Published(outbox[k].body.ent, call.answers[k].ver, call.answers[k].sval)
    BY <1>2, <2>1 DEF Backed
  <2>3. /\ call.answers[k].ver \in Version /\ call.answers[k].sval \in Value \cup {Nil}
        /\ outbox[k].body.ent \in Entity /\ outbox[k].body.val \in Value \cup {Nil}
    BY <1>2, <2>1 DEF Answer, Body
  <2>4. News(k) \in Conflict
    BY <2>1, <2>2, <2>3 DEF Conflict, ConflictReasons
  <2> QED  BY <2>1, <2>2, <2>4
<1>7. TypeOK'
  <2>1. local' \in [Entity -> LocalRow \cup {Nil}]
    BY <1>1, SettledTyped
  <2>2. DeviceTyped'
    BY <1>1, <1>5, <1>6, <2>1 DEF IInv, TypeOK, DeviceTyped
  <2>3. BoundsTyped'
    BY <1>1 DEF IInv, TypeOK, BoundsTyped
  <2>4. 0 \in 0..MaxAttempts
    BY MobileSyncAssumption
  <2>5. RunTyped'
    BY <1>1, <2>4 DEF IInv, TypeOK, RunTyped, SyncPC
  <2> QED  BY <1>3, <2>2, <2>3, <2>5, TypesAfter
<1>8. Naming'
  <2>1. ASSUME NEW k \in Keys(outbox)' PROVE Named(k, outbox[k].body)'
    <3>1. k \in Keys(outbox) /\ outbox'[k].body = outbox[k].body
      BY <1>2, <1>4, <2>1 DEF Keys
    <3> QED  BY <1>1, <3>1 DEF IInv, Naming, Named
  <2> QED  BY <1>1, <2>1 DEF IInv, Naming, Named, Keys
<1>9. Settling'
  <2>1. ASSUME faults = 0, NEW k \in Keys(outbox)', outcomes[k] # Nil
        PROVE  outcomes[k].res.status = "rejected"
    <3>1. k \in Tap /\ outbox'[k] # Nil
      BY <2>1 DEF Keys
    <3>2. k \in Keys(outbox)
      BY <1>2, <1>4, <3>1 DEF Keys
    <3> QED  BY <1>4, <2>1, <3>1, <3>2 DEF IInv, Settling
  <2> QED  BY <1>1, <2>1 DEF IInv, Settling, Keys
<1>10. InFlight' /\ Paging'
  BY <1>1 DEF IInv, InFlight, Paging
<1>11. Evidence'
  <2>1. ASSUME NEW c \in conflicts', c.sval # Nil PROVE Published(c.ent, c.ver, c.sval)
    BY <1>1, <1>6, <2>1 DEF IInv, Evidence
  <2> QED  BY <1>3, <2>1, StaysPublished DEF Evidence
<1>12. ASSUME NEW e \in Entity \ deletedHere PROVE Intent(e)'
  <2>1. Intent(e)
    BY DEF IInv, IntentStands
  <2> DEFINE mine == {k \in Keys(call.answers) : outbox[k].body.ent = e}
  <2>2. \A k \in Tap : call.answers[k] # Nil /\ outbox[k].body.ent = e => k \in EntriesOf(e)
    BY <1>2 DEF EntriesOf, Keys
  <2>3. CASE mine = {}
    <3>1. local'[e] = local[e]
      BY <1>1, <2>3 DEF Settled
    <3>2. \A k \in refused : News(k).ent # e
      BY <2>3
    <3>3. EvidenceOf(e)' = EvidenceOf(e)
      BY <1>1, <3>2 DEF EvidenceOf
    <3>4. \A k \in Tap : outbox'[k] = outbox[k] \/ ~ (k \in EntriesOf(e) \/ k \in EntriesOf(e)')
      <4>1. ASSUME NEW k \in Tap, call.answers[k] # Nil
            PROVE  k \notin EntriesOf(e) /\ k \notin EntriesOf(e)'
        <5>1. outbox[k].body.ent # e
          BY <2>3, <4>1 DEF Keys
        <5> QED  BY <1>4, <4>1, <5>1 DEF EntriesOf, Keys
      <4> QED  BY <1>4, <4>1
    <3> QED  BY <1>3, <2>1, <3>1, <3>3, <3>4, IntentStaysOf
  <2>4. CASE mine # {}
    <3>1. PICK k \in Tap : call.answers[k] # Nil /\ outbox[k].body.ent = e
      BY <2>4 DEF Keys
    <3>2. /\ local[e] # Nil /\ local[e].status \in {"pending", "failed"}
          /\ EvidenceOf(e) = {}
          /\ \A j \in EntriesOf(e) : j = k
          /\ outbox[k].body.val = local[e].val /\ outbox[k].body.base = local[e].ver
      BY <2>1, <2>2, <3>1 DEF Intent
    <3>3. local[e].val \in Value /\ local[e].val # Nil
      <4>1. local[e] \in LocalRow
        BY <3>2 DEF IInv, TypeOK
      <4> QED  BY <4>1, Constants DEF LocalRow
    <3>4. outbox[k].body.op # "delete"
      BY <1>2, <3>1, <3>2, <3>3 DEF IInv, Naming, Named, Keys
    <3>5. PICK a : a = call.answers[k]
      OBVIOUS
    <3>6. /\ local'[e] # Nil /\ local'[e].val = local[e].val
          /\ local'[e].ver = IF a.status = "rejected" THEN local[e].ver ELSE a.ver
          /\ local'[e].status = Shown[a.status]
      <4>1. local'[e] = Settled(e)
        BY <1>1
      <4> QED  BY <1>1, <3>1, <3>2, <3>4, <3>5, <4>1, SettledAs
    <3>7. \A j \in Tap : j # k => j \notin EntriesOf(e)'
      <4>1. ASSUME NEW j \in Tap, j \in EntriesOf(e)' PROVE j \in EntriesOf(e)
        BY <1>2, <1>4, <4>1 DEF EntriesOf, Keys
      <4> QED  BY <3>2, <4>1
    <3>8. \A j \in refused : News(j).ent = e => j = k
      BY <2>2, <3>2 DEF Keys
    <3>9. \/ call.answers[k].status \in Accepted
          \/ call.answers[k].status = "conflict"
          \/ call.answers[k].status = "rejected"
      BY <1>2, <3>1 DEF Answer, Accepted
    <3>10. CASE call.answers[k].status \in Accepted
      <4>0. PICK ver, v : ver = a.ver /\ v = local[e].val
        OBVIOUS
      <4>1. local'[e].status = "synced" /\ local'[e].ver = ver /\ local'[e].val = v
        BY <3>5, <3>6, <3>10, <4>0 DEF Accepted, Shown
      <4>2. Published(e, ver, v)'
        <5>1. Published(e, ver, v)
          BY <1>2, <3>1, <3>2, <3>5, <3>10, <4>0 DEF Backed
        <5> QED  BY <1>3, <5>1, StaysPublished
      <4>3. EntriesOf(e)' = {}
        BY <1>4, <3>1, <3>7, <3>10 DEF EntriesOf, Keys, Accepted
      <4>4. EvidenceOf(e)' = {}
        BY <1>1, <3>2, <3>8, <3>10 DEF EvidenceOf, Accepted
      <4> QED  BY <3>6, <4>1, <4>2, <4>3, <4>4 DEF Intent
    <3>11. CASE call.answers[k].status = "conflict"
      <4>1. local'[e].status = "conflict"
        BY <3>5, <3>6, <3>11 DEF Shown
      <4>2. EntriesOf(e)' = {}
        BY <1>4, <3>1, <3>7, <3>11 DEF EntriesOf, Keys
      <4>3. k \in refused
        BY <3>1, <3>11 DEF Keys
      <4>4. PICK c : c = News(k)
        OBVIOUS
      <4>5. c.ent = e /\ c.lval = local[e].val
        BY <3>1, <3>2, <4>4
      <4>6. EvidenceOf(e)' = {c}
        BY <1>1, <3>2, <3>8, <4>3, <4>4, <4>5 DEF EvidenceOf
      <4> HIDE DEF News
      <4> QED  BY <3>6, <4>1, <4>2, <4>5, <4>6 DEF Intent
    <3>12. CASE call.answers[k].status = "rejected"
      <4>1. local'[e].status = "failed" /\ local'[e].ver = local[e].ver
        BY <3>5, <3>6, <3>12 DEF Shown
      <4>2. outbox'[k] # Nil /\ outbox'[k].body = outbox[k].body /\ outbox'[k].status = "failed"
        BY <1>4, <3>1, <3>12
      <4>3. EntriesOf(e)' = {k}
        BY <3>1, <3>7, <4>2 DEF EntriesOf, Keys
      <4>4. EvidenceOf(e)' = {}
        BY <1>1, <3>2, <3>8, <3>12 DEF EvidenceOf
      <4> QED  BY <3>2, <3>6, <4>1, <4>2, <4>3, <4>4 DEF Intent
    <3> QED  BY <3>9, <3>10, <3>11, <3>12
  <2> QED  BY <2>3, <2>4
<1>13. IntentStands'
  BY <1>1, <1>12 DEF IntentStands
<1> QED  BY <1>3, <1>7, <1>8, <1>9, <1>10, <1>11, <1>13 DEF IInv

-----------------------------------------------------------------------------
(* Bootstrap and pull *)

\* A step that only reads for the next page.
LEMMA ReadingStands ==
    ASSUME IInv, UNCHANGED <<server, local, outbox, conflicts, call, attempts, orphans>>,
           UNCHANGED <<taps, webs, deletedHere, cancelled>>,
           faults' = 0 => faults = 0
    PROVE  /\ ServerTyped' /\ Counted' /\ Grows
           /\ Naming' /\ InFlight' /\ Settling' /\ Evidence' /\ IntentStands'
<1> USE DEF server
<1>1. ServerTyped' /\ Counted' /\ Grows
  BY ServerStands
<1>2. Naming' /\ InFlight' /\ Settling' /\ Evidence' /\ IntentStands'
  BY <1>1, NamesStand, CallStands, SettledStands, DeviceStands
<1> QED  BY <1>1, <1>2

\* Outside a call there is none.
LEMMA NoCall ==
    ASSUME IInv, pc # "await"
    PROVE  call = Nil
BY DEF IInv, TypeOK

LEMMA InvFetchBootstrap ==
    ASSUME IInv, FetchBootstrap
    PROVE  IInv'
<1> DEFINE ahead == {e \in Entity : e > BootTokens.last /\ rows[e] # Nil}
           ids == {e \in ahead : Cardinality({o \in ahead : o <= e}) <= PageSize}
           listed == [e \in ids |-> [ent |-> e, ver |-> rows[e].ver, val |-> rows[e].val]]
<1>1. /\ pc \in {"bootstrap", "rebootstrap"}
      /\ page' = [next |-> Nil, more |-> TRUE, changes |-> listed]
      /\ boot' = [BootTokens EXCEPT !.last = IF ids = {} THEN @ ELSE Max(ids),
                                    !.more = ids # ahead]
      /\ UNCHANGED <<device, pc, call, attempts, orphans, faults>>
      /\ UNCHANGED <<server, taps, webs, history>>
  BY DEF FetchBootstrap, SyncUnchanged, UserUnchanged, history
<1> USE DEF device, server, history
<1>2. /\ ServerTyped' /\ Counted' /\ Grows
      /\ Naming' /\ InFlight' /\ Settling' /\ Evidence' /\ IntentStands'
  BY <1>1, ReadingStands
<1>3. /\ ids \subseteq Entity /\ ids \subseteq Nat /\ IsFiniteSet(ids)
      /\ \A e \in ids : rows[e] # Nil
  BY MobileSyncAssumption, FS_Subset
<1>4. /\ BootTokens \in [high : Nat, last : Entity \cup {0}, more : BOOLEAN]
      /\ BootTokens.high <= Len(journal)
  BY DEF BootTokens, IInv, TypeOK, Paging
<1>5. ASSUME NEW e \in ids
      PROVE  listed[e] \in Change /\ Published(listed[e].ent, listed[e].ver, listed[e].val)
  <2>1. /\ rows[e] \in [ver : Version, val : Value]
        /\ Published(e, rows[e].ver, rows[e].val)
    BY <1>3 DEF IInv, TypeOK, Counted
  <2> QED  BY <1>3, <2>1 DEF Change
<1>6. ids # {} => Max(ids) \in Entity
  BY <1>3, MaxIs
<1>7. PICK last \in Entity \cup {0}, more \in BOOLEAN :
        boot' = [BootTokens EXCEPT !.last = last, !.more = more]
  <2>1. (IF ids = {} THEN BootTokens.last ELSE Max(ids)) \in Entity \cup {0}
    BY <1>4, <1>6
  <2> HIDE DEF ids, ahead
  <2>2. boot' = [BootTokens EXCEPT !.last = IF ids = {} THEN BootTokens.last ELSE Max(ids),
                                   !.more = ids # ahead]
    BY <1>1, <1>4
  <2> QED  BY <2>1, <2>2
<1>8. /\ boot' \in [high : Nat, last : Entity \cup {0}, more : BOOLEAN]
      /\ boot'.high <= Len(journal)
  BY <1>4, <1>7
<1>9. DOMAIN listed = ids /\ listed \in [ids -> Change]
  BY <1>5
<1> HIDE DEF listed
<1>10. /\ page' \in [changes : [DOMAIN page'.changes -> Change],
                     next : Nat \cup {Nil}, more : BOOLEAN]
       /\ page'.next = Nil /\ page'.more /\ page'.changes = listed
  BY <1>1, <1>9
<1>11. TypeOK'
  <2>1. DeviceTyped' /\ BoundsTyped'
    BY <1>1 DEF IInv, TypeOK, DeviceTyped, BoundsTyped
  <2>2. RunTyped'
    BY <1>1, <1>8, <1>10 DEF IInv, TypeOK, RunTyped
  <2> QED  BY <1>2, <2>1, <2>2, TypesAfter
<1>12. Paging'
  <2>1. PICK brought : brought = listed
    OBVIOUS
  <2>2. \A i \in DOMAIN brought : Published(brought[i].ent, brought[i].ver, brought[i].val)'
    BY <1>2, <1>5, <1>9, <2>1, StaysPublished
  <2> HIDE DEF ids
  <2> QED  BY <1>1, <1>3, <1>8, <1>9, <1>10, <2>1, <2>2 DEF IInv, Paging
<1> QED  BY <1>2, <1>11, <1>12 DEF IInv

LEMMA InvEstablishCursor ==
    ASSUME IInv, EstablishCursor
    PROVE  IInv'
<1>1. /\ boot # Nil /\ page = Nil
      /\ cursor' = boot.high /\ listedAt' = boot.high /\ boot' = Nil
      /\ pc' = IF pc = "bootstrap" THEN "pull" ELSE "repull"
      /\ UNCHANGED <<local, outbox, conflicts, call, attempts, page, orphans, faults>>
      /\ UNCHANGED <<server, taps, webs, deletedHere, cancelled>>
  BY DEF EstablishCursor, UserUnchanged
<1>2. /\ ServerTyped' /\ Counted' /\ Grows
      /\ Naming' /\ InFlight' /\ Settling' /\ Evidence' /\ IntentStands'
  BY <1>1, ReadingStands
<1>3. boot.high \in Nat /\ boot.high # Nil /\ boot.high <= Len(journal) /\ pc # "await"
  BY <1>1, Constants DEF IInv, TypeOK, Paging
<1>4. TypeOK'
  <2>1. DeviceTyped' /\ BoundsTyped'
    BY <1>1, <1>3 DEF IInv, TypeOK, DeviceTyped, BoundsTyped
  <2>2. RunTyped'
    BY <1>1, <1>3 DEF IInv, TypeOK, RunTyped, SyncPC
  <2> QED  BY <1>2, <2>1, <2>2, TypesAfter
<1>5. Paging'
  BY <1>1, <1>3 DEF Paging, server
<1> QED  BY <1>2, <1>4, <1>5 DEF IInv

LEMMA LeastOfTwo ==
    ASSUME NEW m \in Nat, NEW n \in Nat
    PROVE  Min({m, n}) \in {m, n} /\ Min({m, n}) <= m /\ Min({m, n}) <= n
<1>1. \E x \in {m, n} : \A y \in {m, n} : x =< y
  OBVIOUS
<1> QED  BY <1>1 DEF Min

LEMMA InvFetchPull ==
    ASSUME IInv, FetchPull
    PROVE  IInv'
<1>1. PICK last : last = Min({cursor + PageSize, Len(journal)})
  OBVIOUS
<1> DEFINE news == [i \in cursor + 1 .. last |-> journal[i]]
<1>2. /\ pc \in {"pull", "repull"}
      /\ page' = [changes |-> news, next |-> last, more |-> last < Len(journal)]
      /\ UNCHANGED <<device, pc, call, attempts, boot, orphans, faults>>
      /\ UNCHANGED <<server, taps, webs, history>>
  BY <1>1 DEF FetchPull, SyncUnchanged, UserUnchanged, history
<1> USE DEF device, server, history
<1>3. /\ ServerTyped' /\ Counted' /\ Grows
      /\ Naming' /\ InFlight' /\ Settling' /\ Evidence' /\ IntentStands'
  BY <1>2, ReadingStands
<1>4. cursor \in Nat /\ cursor <= Len(journal) /\ journal \in Seq(Change) /\ boot = Nil
  BY <1>2 DEF IInv, TypeOK, Paging
<1>5. last \in Nat /\ last <= Len(journal) /\ last # Nil
  <2>1. PageSize \in Nat /\ Len(journal) \in Nat /\ cursor + PageSize \in Nat
    BY <1>4, MobileSyncAssumption
  <2> QED  BY <1>1, <2>1, LeastOfTwo, Constants
<1>6. /\ DOMAIN news = cursor + 1 .. last /\ DOMAIN news \subseteq Nat
      /\ IsFiniteSet(DOMAIN news)
  BY <1>4, <1>5, FS_Interval
<1>7. ASSUME NEW i \in DOMAIN news
      PROVE  news[i] \in Change /\ Published(news[i].ent, news[i].ver, news[i].val)
  <2>1. i \in DOMAIN journal /\ news[i] = journal[i]
    BY <1>4, <1>5, <1>6
  <2>2. journal[i] \in Change
    BY <1>4, <2>1
  <2>3. journal[i] = [ent |-> journal[i].ent, ver |-> journal[i].ver, val |-> journal[i].val]
    BY <2>2 DEF Change
  <2> QED  BY <2>1, <2>2, <2>3 DEF Published
<1>8. news \in [DOMAIN news -> Change]
  BY <1>7
<1> HIDE DEF news
<1>9. /\ page' \in [changes : [DOMAIN page'.changes -> Change],
                    next : Nat \cup {Nil}, more : BOOLEAN]
      /\ page'.next = last /\ page'.changes = news
  BY <1>2, <1>5, <1>8
<1>10. TypeOK'
  <2>1. DeviceTyped' /\ BoundsTyped'
    BY <1>2 DEF IInv, TypeOK, DeviceTyped, BoundsTyped
  <2>2. RunTyped'
    BY <1>2, <1>9 DEF IInv, TypeOK, RunTyped
  <2> QED  BY <1>3, <2>1, <2>2, TypesAfter
<1>11. Paging'
  <2>1. PICK brought : brought = news
    OBVIOUS
  <2>2. \A i \in DOMAIN brought : Published(brought[i].ent, brought[i].ver, brought[i].val)'
    BY <1>3, <1>7, <2>1, StaysPublished
  <2> QED  BY <1>2, <1>4, <1>5, <1>6, <1>9, <2>1, <2>2 DEF IInv, Paging
<1> QED  BY <1>3, <1>10, <1>11 DEF IInv

LEMMA InvCursorRefused ==
    ASSUME IInv, CursorRefused
    PROVE  IInv'
<1>1. /\ pc = "pull" /\ page = Nil /\ faults < MaxFaults /\ faults' = faults + 1
      /\ cursor' = Nil /\ pc' = "rebootstrap"
      /\ UNCHANGED <<local, outbox, conflicts, call, attempts, boot, page, orphans>>
      /\ UNCHANGED <<server, taps, webs, history>>
  BY DEF CursorRefused, SyncUnchanged, UserUnchanged, history
<1> USE DEF history
<1>2. faults' \in 0..MaxFaults /\ faults' # 0
  BY <1>1, Constants DEF IInv, TypeOK
<1>3. /\ ServerTyped' /\ Counted' /\ Grows
      /\ Naming' /\ InFlight' /\ Settling' /\ Evidence' /\ IntentStands'
  BY <1>1, <1>2, ReadingStands
<1>4. TypeOK'
  <2>1. DeviceTyped' /\ BoundsTyped'
    BY <1>1, <1>2 DEF IInv, TypeOK, DeviceTyped, BoundsTyped
  <2>2. RunTyped'
    BY <1>1 DEF IInv, TypeOK, RunTyped, SyncPC
  <2> QED  BY <1>3, <2>1, <2>2, TypesAfter
<1>5. Paging'
  BY <1>1 DEF IInv, Paging
<1> QED  BY <1>3, <1>4, <1>5 DEF IInv

\* A page replaces only rows without local intent, each by a published one.
LEMMA Applying ==
    ASSUME IInv, page # Nil, NEW e \in Entity, NEW row, row = Apply(page.changes)[e]
    PROVE  \/ row = local[e]
           \/ /\ local[e] # Nil => local[e].status = "synced"
              /\ row = Nil \/ /\ row \in LocalRow /\ row.status = "synced"
                              /\ Published(e, row.ver, row.val)
<1> DEFINE mine == {i \in DOMAIN page.changes : page.changes[i].ent = e}
<1>1. CASE mine = {} \/ (local[e] # Nil /\ local[e].status # "synced")
  BY <1>1 DEF Apply
<1>2. CASE ~ (mine = {} \/ (local[e] # Nil /\ local[e].status # "synced"))
  <2>1. PICK n : n = Max(mine)
    OBVIOUS
  <2>2. row = Received(page.changes[n].ver, page.changes[n].val)
    BY <1>2, <2>1 DEF Apply
  <2>3. /\ DOMAIN page.changes \subseteq Nat /\ IsFiniteSet(DOMAIN page.changes)
        /\ \A i \in DOMAIN page.changes : page.changes[i].val # Nil =>
             Published(page.changes[i].ent, page.changes[i].ver, page.changes[i].val)
    BY DEF IInv, Paging
  <2>4. mine \in SUBSET Nat /\ IsFiniteSet(mine) /\ mine # {}
    BY <1>2, <2>3, FS_Subset
  <2>5. n \in mine
    BY <2>1, <2>4, MaxIs
  <2>6. page.changes[n] \in Change /\ page.changes[n].ent = e
    <3>1. page.changes \in [DOMAIN page.changes -> Change]
      BY DEF IInv, TypeOK
    <3> QED  BY <2>5, <3>1
  <2>7. CASE page.changes[n].val = Nil
    BY <1>2, <2>2, <2>7 DEF Received
  <2>8. CASE page.changes[n].val # Nil
    <3>1. Published(e, page.changes[n].ver, page.changes[n].val)
      BY <2>3, <2>5, <2>6, <2>8
    <3>2. row = [val |-> page.changes[n].val, ver |-> page.changes[n].ver, status |-> "synced"]
      BY <2>2, <2>8 DEF Received
    <3>3. row \in LocalRow
      BY <2>6, <2>8, <3>2 DEF Change, LocalRow
    <3> QED  BY <1>2, <3>1, <3>2, <3>3
  <2> QED  BY <2>7, <2>8
<1> QED  BY <1>1, <1>2

LEMMA InvApplyPage ==
    ASSUME IInv, ApplyPage
    PROVE  IInv'
<1>1. /\ page # Nil /\ local' = Apply(page.changes)
      /\ cursor' = IF page.next = Nil THEN cursor ELSE page.next
      /\ pc' = IF page.more THEN pc ELSE "idle"
      /\ page' = Nil
      /\ UNCHANGED <<outbox, conflicts, call, attempts, boot, orphans, faults>>
      /\ UNCHANGED <<server, taps, webs, history>>
  BY DEF ApplyPage, SyncUnchanged, UserUnchanged, history
<1> USE DEF history
<1>2. ServerTyped' /\ Counted' /\ Grows
  BY <1>1, ServerStands
<1>3. Naming' /\ InFlight' /\ Settling'
  BY <1>1, <1>2, NamesStand, CallStands, SettledStands DEF server
<1>4. /\ pc \in {"bootstrap", "rebootstrap", "pull", "repull"}
      /\ page.next = Nil \/ (page.next \in Nat /\ page.next <= Len(journal))
      /\ page.next = Nil <=> pc \in {"bootstrap", "rebootstrap"}
      /\ page.next = Nil => page.more
      /\ call = Nil
  BY <1>1 DEF IInv, TypeOK, Paging
<1>5. ASSUME NEW e \in Entity
      PROVE  \/ local'[e] = local[e]
             \/ /\ local[e] # Nil => local[e].status = "synced"
                /\ local'[e] = Nil \/ /\ local'[e] \in LocalRow /\ local'[e].status = "synced"
                                      /\ Published(e, local'[e].ver, local'[e].val)
  <2>1. PICK row : row = Apply(page.changes)[e]
    OBVIOUS
  <2>2. \/ row = local[e]
        \/ /\ local[e] # Nil => local[e].status = "synced"
           /\ row = Nil \/ /\ row \in LocalRow /\ row.status = "synced"
                           /\ Published(e, row.ver, row.val)
    BY <1>1, <2>1, Applying
  <2> QED  BY <1>1, <2>1, <2>2
<1>6. local' \in [Entity -> LocalRow \cup {Nil}]
  <2>1. \A e \in Entity : local'[e] \in LocalRow \cup {Nil}
    BY <1>5 DEF IInv, TypeOK
  <2>2. local' = [e \in Entity |-> local'[e]]
    BY <1>1 DEF Apply
  <2> QED  BY <2>1, <2>2
<1>7. TypeOK'
  <2>1. DeviceTyped' /\ BoundsTyped'
    BY <1>1, <1>4, <1>6 DEF IInv, TypeOK, DeviceTyped, BoundsTyped
  <2>2. RunTyped'
    BY <1>1, <1>4 DEF IInv, TypeOK, RunTyped, SyncPC
  <2> QED  BY <1>2, <2>1, <2>2, TypesAfter
<1>8. Paging'
  BY <1>1, <1>4 DEF IInv, Paging, server
<1>9. Evidence'
  BY <1>1, <1>2, StaysPublished DEF IInv, Evidence
<1>10. ASSUME NEW e \in Entity \ deletedHere PROVE Intent(e)'
  <2>1. Intent(e)
    BY DEF IInv, IntentStands
  <2>2. EvidenceOf(e)' = EvidenceOf(e) /\ EntriesOf(e)' = EntriesOf(e)
    BY <1>1 DEF EvidenceOf, EntriesOf, Keys
  <2>3. CASE local'[e] = local[e]
    BY <1>1, <1>2, <2>1, <2>2, <2>3, IntentStaysOf
  <2>4. CASE /\ local[e] # Nil => local[e].status = "synced"
             /\ local'[e] = Nil \/ /\ local'[e] \in LocalRow /\ local'[e].status = "synced"
                                   /\ Published(e, local'[e].ver, local'[e].val)
    <3>1. EvidenceOf(e) = {} /\ EntriesOf(e) = {}
      BY <2>1, <2>4 DEF Intent
    <3>2. PICK ver, v : ver = local'[e].ver /\ v = local'[e].val
      OBVIOUS
    <3>3. local'[e] # Nil => Published(e, ver, v)'
      BY <1>2, <2>4, <3>2, StaysPublished
    <3> QED  BY <2>2, <2>4, <3>1, <3>2, <3>3 DEF Intent
  <2> QED  BY <1>5, <2>3, <2>4
<1>11. IntentStands'
  BY <1>1, <1>10 DEF IntentStands
<1> QED  BY <1>2, <1>3, <1>7, <1>8, <1>9, <1>11 DEF IInv

-----------------------------------------------------------------------------
(* The invariant *)

LEMMA InitInv == Init => IInv
<1> SUFFICES ASSUME Init PROVE IInv
  OBVIOUS
<1>1. 0 \in 0..MaxTaps /\ 0 \in 0..MaxWeb /\ 0 \in 0..MaxFaults /\ 0 \in 0..MaxAttempts
  BY Constants, MobileSyncAssumption
<1>2. Len(journal) = 0 /\ journal \in Seq(Change) /\ DOMAIN journal = {}
  BY DEF Init
<1>3. TypeOK
  BY <1>1, <1>2 DEF Init, TypeOK, SyncPC
<1>4. Keys(outcomes) = {} /\ Keys(outbox) = {}
  BY DEF Init, Keys
<1>5. Counted
  <2>1. Cardinality(Keys(outcomes)) = 0 /\ webs = 0
    BY <1>4, FS_EmptySet DEF Init
  <2>2. \A e \in Entity : rows[e] = Nil
    BY DEF Init
  <2> QED  BY <1>2, <1>4, <2>1, <2>2 DEF Counted
<1>6. Naming /\ InFlight /\ Paging /\ Settling /\ Evidence
  BY <1>4 DEF Init, Naming, InFlight, Paging, Settling, Evidence
<1>7. IntentStands
  BY <1>4 DEF Init, IntentStands, Intent, EntriesOf, EvidenceOf
<1> QED  BY <1>3, <1>5, <1>6, <1>7 DEF IInv

LEMMA NextInv == IInv /\ [Next]_vars => IInv'
<1> SUFFICES ASSUME IInv, [Next]_vars PROVE IInv'
  OBVIOUS
<1>1. CASE UNCHANGED vars
  <2>1. UNCHANGED <<rows, outcomes, journal, local, outbox, conflicts, cursor, pc, call,
                    attempts, boot, page, orphans, taps, webs, faults, deletedHere,
                    cancelled, listedAt>>
    BY <1>1 DEF vars
  <2> USE DEF server, device, run, history
  <2>2. ServerTyped' /\ Counted' /\ Grows
    BY <2>1, ServerStands
  <2>3. TypeOK'
    <3>1. DeviceTyped' /\ RunTyped' /\ BoundsTyped'
      BY <2>1 DEF IInv, TypeOK, DeviceTyped, RunTyped, BoundsTyped
    <3> QED  BY <2>2, <3>1, TypesAfter
  <2>4. Naming' /\ Settling' /\ Paging' /\ Evidence' /\ IntentStands' /\ InFlight'
    BY <2>1, <2>2, NamesStand, SettledStands, PagingStands, DeviceStands, CallStands
  <2> QED  BY <2>2, <2>3, <2>4 DEF IInv
<1>2. CASE UserStep
  BY <1>2, InvCreate, InvEdit, InvDelete, InvUseServer, InvRetryMine DEF UserStep
<1>3. CASE SyncStep
  BY <1>3, InvStartSync, InvClaim, InvRequeue, InvPersistResponse, InvFetchBootstrap,
     InvEstablishCursor, InvFetchPull, InvApplyPage DEF SyncStep
<1>4. CASE \E todo \in orphans : ServeOrphan(todo) \/ DropOrphan(todo)
  BY <1>4, InvServeOrphan, InvDropOrphan
<1>5. CASE \E e \in Entity, v \in Value \cup {Nil} : WebWrite(e, v)
  BY <1>5, InvWebWrite
<1>6. CASE ServeCall \/ LoseCall \/ CursorRefused \/ Crash
  BY <1>6, InvServeCall, InvLoseCall, InvCursorRefused, InvCrash
<1> QED  BY <1>1, <1>2, <1>3, <1>4, <1>5, <1>6 DEF Next

LEMMA Invariance == Spec => []IInv
BY InitInv, NextInv, PTL DEF Spec

LEMMA Consistent == IInv => ReplicaConsistent
<1> SUFFICES ASSUME IInv PROVE ReplicaConsistent
  OBVIOUS
<1>1. ASSUME NEW e \in Entity \ deletedHere, NEW mine, mine = EntriesOf(e)
      PROVE  /\ \A j, k \in mine : j = k
             /\ mine # {} => local[e] # Nil
             /\ local[e] # Nil =>
                  /\ local[e].status = "conflict" <=> \E c \in conflicts : c.ent = e
                  /\ local[e].status \in {"pending", "failed"} <=> mine # {}
                  /\ \A k \in mine :
                       /\ outbox[k].body.val = local[e].val
                       /\ outbox[k].body.base = local[e].ver
                       /\ outbox[k].status = "failed" <=> local[e].status = "failed"
  <2>1. Intent(e)
    BY DEF IInv, IntentStands
  <2>2. EvidenceOf(e) # {} <=> \E c \in conflicts : c.ent = e
    BY DEF EvidenceOf
  <2> QED  BY <1>1, <2>1, <2>2 DEF Intent
<1>2. OutboxMatchesReplica
  BY <1>1 DEF OutboxMatchesReplica
<1>3. SyncedIsPublished
  BY DEF IInv, IntentStands, Intent, Published, SyncedIsPublished
<1>4. SentBodyStands
  BY DEF IInv, Settling, SentBodyStands
<1> QED  BY <1>2, <1>3, <1>4 DEF IInv, ReplicaConsistent

\* However the user's edits, the steps of a run, lost and late requests,
\* crashes and writes on the web interleave, for any number of transactions
\* and any batch and page size: every row with unsynced intent has exactly the
\* one mutation or the one conflict that agrees with it, a synced row is one
\* the server has published, and before the first loss what the server has
\* applied is what is still queued.
THEOREM ReplicaStands == Spec => []ReplicaConsistent
BY Invariance, Consistent, PTL

-----------------------------------------------------------------------------
(* Synchronization never destroys local intent *)

\* The answers to a batch leave the value of a row the user has not deleted.
LEMMA SettledKeeps ==
    ASSUME IInv, pc = "await", Keys(call.todo) = {}, NEW e \in Entity \ deletedHere,
           local[e] # Nil
    PROVE  Settled(e) # Nil /\ Settled(e).val = local[e].val
<1> DEFINE mine == {k \in Keys(call.answers) : outbox[k].body.ent = e}
<1>1. Intent(e)
  BY DEF IInv, IntentStands
<1>2. CASE mine = {}
  BY <1>2 DEF Settled
<1>3. CASE mine # {}
  <2>1. PICK k \in Tap : call.answers[k] # Nil /\ outbox[k].body.ent = e
    BY <1>3 DEF Keys
  <2>2. /\ outbox[k] # Nil /\ outbox[k].body \in Body
        /\ k \in EntriesOf(e)
    BY <2>1, Answered DEF EntriesOf, Keys
  <2>3. (\A j \in EntriesOf(e) : j = k) /\ outbox[k].body.val = local[e].val
    BY <1>1, <2>2 DEF Intent
  <2>4. local[e].val # Nil
    <3>1. local[e] \in LocalRow
      BY DEF IInv, TypeOK
    <3> QED  BY <3>1, Constants DEF LocalRow
  <2>5. outbox[k].body.op # "delete"
    BY <2>2, <2>3, <2>4 DEF IInv, Naming, Named, Keys
  <2>6. PICK a : a = call.answers[k]
    OBVIOUS
  <2> QED  BY <2>1, <2>3, <2>5, <2>6, SettledAs
<1> QED  BY <1>2, <1>3

LEMMA StepKeepsIntent ==
    ASSUME IInv, [Next]_vars, NEW e \in Entity \ deletedHere,
           local[e] # Nil, local[e].status # "synced", ~ Acted(e)
    PROVE  local'[e] # Nil /\ local'[e].val = local[e].val
<1>1. CASE UNCHANGED local
  BY <1>1
<1>2. ASSUME NEW op, Tapped(op) PROVE FALSE
  BY <1>2 DEF Tapped, run, Acted, IInv, TypeOK
<1>3. CASE UserStep
  <2>1. PICK c \in conflicts : UseServer(c)
    BY <1>2, <1>3 DEF UserStep, Create, Edit, Delete, RetryMine
  <2>2. c.ent # e
    BY <2>1 DEF UseServer, Acted
  <2>3. local'[e] = local[e]
    BY <2>1, <2>2 DEF UseServer, IInv, TypeOK
  <2> QED  BY <2>3
<1>4. CASE PersistResponse
  <2>1. local'[e] = Settled(e)
    BY <1>4 DEF PersistResponse
  <2> QED  BY <1>4, <2>1, SettledKeeps DEF PersistResponse
<1>5. CASE ApplyPage
  <2>1. page # Nil /\ local'[e] = Apply(page.changes)[e]
    BY <1>5 DEF ApplyPage
  <2>2. PICK row : row = Apply(page.changes)[e]
    OBVIOUS
  <2>3. row = local[e]
    BY <2>1, <2>2, Applying
  <2> QED  BY <2>1, <2>2, <2>3
<1>6. CASE \/ StartSync \/ Claim \/ Requeue
           \/ FetchBootstrap \/ EstablishCursor \/ FetchPull
  <2>1. UNCHANGED local
    BY <1>6 DEF StartSync, Claim, Requeue, FetchBootstrap, EstablishCursor, FetchPull, device
  <2> QED  BY <2>1
<1>7. CASE \/ ServeCall \/ LoseCall \/ CursorRefused \/ Crash
           \/ \E todo \in orphans : ServeOrphan(todo) \/ DropOrphan(todo)
           \/ \E o \in Entity, v \in Value \cup {Nil} : WebWrite(o, v)
  <2>1. UNCHANGED local
    BY <1>7 DEF ServeCall, LoseCall, CursorRefused, Crash, ServeOrphan, DropOrphan, WebWrite, device
  <2> QED  BY <2>1
<1>8. CASE UNCHANGED vars
  BY <1>8 DEF vars
<1> QED  BY <1>3, <1>4, <1>5, <1>6, <1>7, <1>8 DEF Next, SyncStep

\* No page, answer, retry or crash takes away a row with unsynced intent or
\* changes its value: only the user does.
THEOREM IntentKept == Spec => SyncKeepsIntent
<1> DEFINE Keeps == \A e \in Entity \ deletedHere :
                      local[e] # Nil /\ local[e].status # "synced" /\ ~ Acted(e) =>
                        local'[e] # Nil /\ local'[e].val = local[e].val
<1>1. IInv /\ [Next]_vars => Keeps
  BY StepKeepsIntent
<1>2. Spec => [][Keeps]_vars
  BY <1>1, Invariance, PTL DEF Spec
<1> QED  BY <1>2 DEF SyncKeepsIntent

-----------------------------------------------------------------------------
(* The server under the client is a versioned store *)

StoreRows ==
    [e \in Entity |->
       IF rows[e] = Nil
       THEN Nil
       ELSE [owner |-> "account", ver |-> rows[e].ver, val |-> rows[e].val]]

StoreOutcomes ==
    [k \in Tap |->
       IF outcomes[k] = Nil
       THEN Nil
       ELSE [req |-> outcomes[k].req, status |-> outcomes[k].res.status,
             ver |-> outcomes[k].res.ver]]

LEMMA StoreStands ==
    ASSUME UNCHANGED <<rows, outcomes>>
    PROVE  [Store!Next]_(Store!vars)
BY DEF Store!vars

LEMMA StoreApplies ==
    ASSUME NEW r \in Body, NEW row, NEW ver,
           StoreOutcomes[r.key] = Nil, Store!BaseMatches(r, StoreRows[r.ent]),
           row = Store!RowAfter(r, StoreRows[r.ent]),
           ver = Store!VersionAfter(r, StoreRows[r.ent]),
           StoreRows' = [StoreRows EXCEPT ![r.ent] = row],
           StoreOutcomes' = [StoreOutcomes EXCEPT ![r.key] =
                               [req |-> r, status |-> "applied", ver |-> ver]]
    PROVE  [Store!Next]_(Store!vars)
<1>1. Store!Apply(r)
  BY DEF Store!Apply, StoreRows, StoreOutcomes
<1> QED  BY <1>1 DEF Store!Next

LEMMA StoreRefuses ==
    ASSUME NEW r \in Body, NEW status \in {"conflict", "rejected"}, NEW ver \in Nat,
           StoreOutcomes[r.key] = Nil, UNCHANGED StoreRows,
           NEW o, o = [req |-> r, status |-> status, ver |-> ver],
           StoreOutcomes' = [StoreOutcomes EXCEPT ![r.key] = o],
           StoreOutcomes'[r.key] = o
    PROVE  [Store!Next]_(Store!vars)
<1>1. o \in [req : {r}, status : {"conflict", "rejected"}, ver : Nat]
  OBVIOUS
<1>2. StoreOutcomes'[r.key] \in [req : {r}, status : {"conflict", "rejected"}, ver : Nat]
  BY <1>1
<1>3. StoreOutcomes' = [StoreOutcomes EXCEPT ![r.key] = StoreOutcomes'[r.key]]
  OBVIOUS
<1>4. Store!Refuse(r)
  BY <1>2, <1>3 DEF Store!Refuse, StoreRows, StoreOutcomes
<1> QED  BY <1>4 DEF Store!Next

\* An outcome and a row as the store sees them.
StoreOutcome(w) == [req |-> w.req, status |-> w.res.status, ver |-> w.res.ver]

LEMMA StoreRecords ==
    ASSUME TypeOK, NEW k \in Tap, outcomes[k] = Nil,
           NEW w \in [req : Body, res : Answer], outcomes' = [outcomes EXCEPT ![k] = w]
    PROVE  /\ StoreOutcomes[k] = Nil
           /\ StoreOutcomes' = [StoreOutcomes EXCEPT ![k] = StoreOutcome(w)]
           /\ StoreOutcomes'[k] = StoreOutcome(w)
<1>1. StoreOutcomes[k] = Nil
  BY DEF StoreOutcomes
<1>2. outcomes'[k] = w /\ \A j \in Tap \ {k} : outcomes'[j] = outcomes[j]
  BY DEF TypeOK
<1>3. outcomes'[k] # Nil
  BY <1>2, OutcomeNotNil
<1>4. StoreOutcomes'[k] = StoreOutcome(w)
  BY <1>2, <1>3 DEF StoreOutcomes, StoreOutcome
<1>5. \A j \in Tap \ {k} : StoreOutcomes'[j] = StoreOutcomes[j]
  BY <1>2 DEF StoreOutcomes
<1>6. StoreOutcomes = [j \in Tap |-> StoreOutcomes[j]] /\ StoreOutcomes' = [j \in Tap |-> StoreOutcomes'[j]]
  BY DEF StoreOutcomes
<1>7. StoreOutcomes' = [StoreOutcomes EXCEPT ![k] = StoreOutcome(w)]
  BY <1>4, <1>5, <1>6
<1> QED  BY <1>1, <1>4, <1>7

StoreRow(row) ==
    IF row = Nil THEN Nil
    ELSE [owner |-> "account", ver |-> row.ver, val |-> row.val]

LEMMA StoreReplaces ==
    ASSUME TypeOK, NEW e \in Entity, NEW row, rows' = [rows EXCEPT ![e] = row]
    PROVE  StoreRows' = [StoreRows EXCEPT ![e] = StoreRow(row)]
<1>1. rows'[e] = row /\ \A d \in Entity \ {e} : rows'[d] = rows[d]
  BY DEF TypeOK
<1>2. StoreRows'[e] = StoreRow(row)
  BY <1>1 DEF StoreRows, StoreRow
<1>3. \A d \in Entity \ {e} : StoreRows'[d] = StoreRows[d]
  BY <1>1 DEF StoreRows
<1>4. StoreRows = [d \in Entity |-> StoreRows[d]] /\ StoreRows' = [d \in Entity |-> StoreRows'[d]]
  BY DEF StoreRows
<1> QED  BY <1>2, <1>3, <1>4

LEMMA StoreRowsAre == \A e \in Entity : StoreRows[e] = StoreRow(rows[e])
BY DEF StoreRows, StoreRow

\* Handling a mutation applies or refuses it in the store, or changes nothing.
LEMMA HandleImplements ==
    ASSUME TypeOK, Counted, Naming, UNCHANGED webs, taps <= taps',
           NEW k \in Tap, NEW r \in Body, Named(k, r), NEW a \in Answers(r), Handle(r, a)
    PROVE  [Store!Next]_(Store!vars)
<1>0. r.key = k /\ r.ent \in Entity /\ r.op \in {"upsert", "delete"} /\ (r.op = "delete" <=> r.val = Nil)
  BY DEF Body, Named
<1>1. CASE outcomes[k] # Nil
  <2>1. UNCHANGED <<rows, outcomes>>
    BY <1>0, <1>1 DEF Handle
  <2> QED  BY <2>1, StoreStands
<1>2. CASE outcomes[k] = Nil
  <2>1. /\ a.status = "rejected" \/ Applies(r, a) \/ Refuses(r, a)
    <3>1. a \in Verdicts(r)
      BY <1>0, <1>2 DEF Answers
    <3> QED  BY <3>1, VerdictIs
  <2>2. a \in Answer
    BY Handling
  <2> DEFINE changes == a.status = "applied" /\ (rows[r.ent] = Nil \/ a.ver # rows[r.ent].ver)
  <2>3. PICK row : row = IF r.op = "delete" THEN Nil ELSE [ver |-> a.ver, val |-> r.val]
    OBVIOUS
  <2>4. /\ outcomes' = [outcomes EXCEPT ![k] = [req |-> r, res |-> a]]
        /\ changes => rows' = [rows EXCEPT ![r.ent] = row]
        /\ ~ changes => UNCHANGED rows
    BY <1>0, <1>2, <2>3 DEF Handle
  <2>5. PICK o : o = [req |-> r, status |-> a.status, ver |-> a.ver]
    OBVIOUS
  <2>6. /\ StoreOutcomes[r.key] = Nil
        /\ StoreOutcomes' = [StoreOutcomes EXCEPT ![r.key] = o]
        /\ StoreOutcomes'[r.key] = o
    <3>1. PICK w \in [req : Body, res : Answer] : w = [req |-> r, res |-> a]
      BY <2>2
    <3>2. /\ StoreOutcomes[k] = Nil
          /\ StoreOutcomes' = [StoreOutcomes EXCEPT ![k] = StoreOutcome(w)]
          /\ StoreOutcomes'[k] = StoreOutcome(w)
      <4>1. outcomes' = [outcomes EXCEPT ![k] = w]
        BY <2>4, <3>1
      <4> QED  BY <1>2, <4>1, StoreRecords
    <3>4. o = StoreOutcome(w)
      BY <2>5, <3>1 DEF StoreOutcome
    <3>3. r.key = k
      BY <1>0
    <3> QED  BY <3>2, <3>3, <3>4, Zenon
  <2>7. a.ver \in Nat
    BY <2>2, Constants DEF Answer
  <2>8. CASE a.status = "rejected" \/ Refuses(r, a)
    <3>1. a.status \in {"conflict", "rejected"}
      BY <2>8 DEF Refuses
    <3>2. UNCHANGED StoreRows
      <4>1. UNCHANGED rows
        BY <2>4, <3>1
      <4> QED  BY <4>1 DEF StoreRows
    <3> QED  BY <2>5, <2>6, <2>7, <3>1, <3>2, StoreRefuses
  <2>9. CASE Applies(r, a)
    <3>0. a.status = "applied"
      BY <2>9 DEF Applies
    <3>1. PICK old : old = StoreRows[r.ent]
      OBVIOUS
    <3>2. old = StoreRow(rows[r.ent])
      BY <1>0, <3>1, StoreRowsAre
    <3>3. rows[r.ent] # Nil =>
            /\ rows[r.ent] \in [ver : Version, val : Value]
            /\ old # Nil /\ old.owner = "account"
            /\ old.ver = rows[r.ent].ver /\ old.val = rows[r.ent].val
            /\ rows[r.ent].ver \in Nat /\ rows[r.ent].val # Nil
      <4> SUFFICES ASSUME rows[r.ent] # Nil
                   PROVE  /\ rows[r.ent] \in [ver : Version, val : Value]
                          /\ old # Nil /\ old.owner = "account"
                          /\ old.ver = rows[r.ent].ver /\ old.val = rows[r.ent].val
                          /\ rows[r.ent].ver \in Nat /\ rows[r.ent].val # Nil
        OBVIOUS
      <4>1. rows[r.ent] \in [ver : Version, val : Value]
        BY <1>0 DEF TypeOK
      <4>2. old = [owner |-> "account", ver |-> rows[r.ent].ver, val |-> rows[r.ent].val]
        BY <3>2 DEF StoreRow
      <4>3. old \in [owner : {"account"}, ver : Version, val : Value]
        BY <4>1, <4>2
      <4> QED  BY <4>1, <4>2, <4>3, AbstractRowNotNil, Constants
    <3>4. rows[r.ent] = Nil => old = Nil /\ r.op = "upsert" /\ r.base = 0 /\ a.ver = 1
      BY <2>9, <3>2 DEF Applies, StoreRow
    <3>5. rows[r.ent] # Nil =>
            /\ r.base = old.ver
            /\ a.ver = IF r.val = old.val THEN old.ver ELSE old.ver + 1
      BY <2>9, <3>3 DEF Applies
    <3>6. Store!BaseMatches(r, old)
      BY <1>0, <3>3, <3>4, <3>5 DEF Store!BaseMatches
    <3>7. a.ver = Store!VersionAfter(r, old)
      <4>1. CASE rows[r.ent] = Nil
        BY <3>4, <4>1 DEF Store!VersionAfter, Store!RowAfter
      <4>2. CASE rows[r.ent] # Nil /\ r.op = "delete"
        BY <1>0, <3>3, <3>5, <4>2 DEF Store!VersionAfter
      <4>3. CASE rows[r.ent] # Nil /\ r.op = "upsert"
        BY <3>3, <3>5, <4>3 DEF Store!VersionAfter, Store!RowAfter
      <4> QED  BY <1>0, <4>1, <4>2, <4>3
    <3>8. PICK new : new = Store!RowAfter(r, old)
      OBVIOUS
    <3>9. StoreRows' = [StoreRows EXCEPT ![r.ent] = new]
      <4>1. CASE changes
        <5>1. new = StoreRow(row)
          <6>1. CASE r.op = "delete"
            BY <2>3, <3>8, <6>1 DEF StoreRow, Store!RowAfter
          <6>2. CASE r.op = "upsert"
            <7>1. row = [ver |-> a.ver, val |-> r.val]
              BY <2>3, <6>2
            <7>2. row # Nil
              <8>1. r.val \in Value /\ a.ver \in Version
                BY <1>0, <2>2, <6>2 DEF Body, Answer
              <8> QED  BY <7>1, <8>1, RowNotNil
            <7>3. StoreRow(row) = [owner |-> "account", ver |-> a.ver, val |-> r.val]
              BY <7>1, <7>2 DEF StoreRow
            <7>4. CASE rows[r.ent] = Nil
              BY <1>0, <3>4, <3>8, <6>2, <7>3, <7>4 DEF Store!RowAfter
            <7>5. CASE rows[r.ent] # Nil
              <8>1. r.val # old.val /\ a.ver = old.ver + 1
                BY <3>3, <3>5, <4>1, <7>5
              <8> QED  BY <3>3, <3>8, <6>2, <7>3, <7>5, <8>1 DEF Store!RowAfter
            <7> QED  BY <7>4, <7>5
          <6> QED  BY <1>0, <6>1, <6>2
        <5> QED  BY <1>0, <2>4, <4>1, <5>1, StoreReplaces
      <4>2. CASE ~ changes
        <5>1. rows[r.ent] # Nil /\ a.ver = old.ver
          BY <3>0, <3>3, <4>2
        <5>2. r.val = old.val /\ r.op = "upsert"
          BY <1>0, <3>3, <3>5, <5>1
        <5>3. new = old
          BY <3>3, <3>8, <5>1, <5>2 DEF Store!RowAfter
        <5>4. UNCHANGED StoreRows
          BY <2>4, <4>2 DEF StoreRows
        <5>5. StoreRows = [d \in Entity |-> StoreRows[d]]
          BY DEF StoreRows
        <5> QED  BY <1>0, <3>1, <5>3, <5>4, <5>5
      <4> QED  BY <4>1, <4>2
    <3>10. o = [req |-> r, status |-> "applied", ver |-> a.ver]
      BY <2>5, <3>0
    <3> QED  BY <2>6, <3>1, <3>6, <3>7, <3>8, <3>9, <3>10, StoreApplies
  <2> QED  BY <2>1, <2>8, <2>9
<1> QED  BY <1>1, <1>2

LEMMA WebImplements ==
    ASSUME TypeOK, Counted, NEW e \in Entity, NEW v \in Value \cup {Nil}, WebWrite(e, v)
    PROVE  [Store!Next]_(Store!vars)
<1>1. PICK ver : ver = IF rows[e] = Nil THEN 1 ELSE rows[e].ver + 1
  OBVIOUS
<1>2. PICK row : row = IF v = Nil THEN Nil ELSE [ver |-> ver, val |-> v]
  OBVIOUS
<1>3. /\ UNCHANGED outcomes /\ rows' = [rows EXCEPT ![e] = row]
      /\ rows[e] = Nil => v # Nil
  BY <1>1, <1>2 DEF WebWrite
<1>4. StoreRows' = [StoreRows EXCEPT ![e] = StoreRow(row)] /\ UNCHANGED StoreOutcomes
  BY <1>3, StoreReplaces DEF StoreOutcomes
<1>5. PICK old : old = StoreRows[e]
  OBVIOUS
<1>6. old = StoreRow(rows[e])
  BY <1>5, StoreRowsAre
<1>7. PICK new : new = StoreRow(row)
  OBVIOUS
<1>8. \/ old = Nil /\ v \in Value /\ new = [owner |-> "account", ver |-> 1, val |-> v]
      \/ /\ old # Nil /\ v \in Value
         /\ new = [owner |-> old.owner, ver |-> old.ver + 1, val |-> v]
      \/ old # Nil /\ new = Nil
  <2>1. rows[e] # Nil => old # Nil /\ old.owner = "account" /\ old.ver = rows[e].ver
    <3> SUFFICES ASSUME rows[e] # Nil
                 PROVE  old # Nil /\ old.owner = "account" /\ old.ver = rows[e].ver
      OBVIOUS
    <3>1. rows[e] \in [ver : Version, val : Value]
      BY DEF TypeOK
    <3>2. old = [owner |-> "account", ver |-> rows[e].ver, val |-> rows[e].val]
      BY <1>6 DEF StoreRow
    <3>3. old \in [owner : {"account"}, ver : Version, val : Value]
      BY <3>1, <3>2
    <3> QED  BY <3>2, <3>3, AbstractRowNotNil
  <2>2. v # Nil => row # Nil
    <3>1. ver \in Version
      BY <1>1, WebVersion DEF WebWrite
    <3> QED  BY <1>2, <3>1, RowNotNil
  <2> QED  BY <1>1, <1>2, <1>3, <1>6, <1>7, <2>1, <2>2 DEF StoreRow
<1>9. Store!External(e)
  BY <1>4, <1>5, <1>7, <1>8 DEF Store!External, StoreRows, StoreOutcomes
<1> QED  BY <1>9 DEF Store!Next

LEMMA StepImplements == IInv /\ [Next]_vars => [Store!Next]_(Store!vars)
<1> SUFFICES ASSUME IInv, [Next]_vars PROVE [Store!Next]_(Store!vars)
  OBVIOUS
<1>1. CASE ServeCall
  <2>1. PICK k, r : k = First(call.todo) /\ r = call.todo[k]
    OBVIOUS
  <2>2. PICK a \in Answers(r) : Handle(r, a)
    BY <1>1, <2>1 DEF ServeCall
  <2>3. pc = "await" /\ Keys(call.todo) # {} /\ UNCHANGED <<taps, webs>>
    BY <1>1 DEF ServeCall
  <2>4. call \in Call /\ call # Nil
    BY <2>3 DEF IInv, TypeOK
  <2>5. k \in Tap /\ r # Nil
    BY <2>1, <2>3, FirstTap DEF First, Keys
  <2>6. r \in Body /\ r = outbox[k].body /\ k \in Keys(outbox)
    BY <2>1, <2>4, <2>5 DEF IInv, InFlight, Call, Queue, Sending
  <2>7. Named(k, r)
    BY <2>6 DEF IInv, Naming
  <2>8. TypeOK /\ Counted /\ Naming /\ UNCHANGED webs /\ taps <= taps'
    BY <2>3 DEF IInv, TypeOK
  <2> QED  BY <2>2, <2>5, <2>6, <2>7, <2>8, HandleImplements
<1>2. ASSUME NEW todo \in orphans, ServeOrphan(todo) PROVE [Store!Next]_(Store!vars)
  <2>1. PICK k, r : k = First(todo) /\ r = todo[k]
    OBVIOUS
  <2>2. PICK a \in Answers(r) : Handle(r, a)
    BY <1>2, <2>1 DEF ServeOrphan
  <2>3. UNCHANGED <<taps, webs>>
    BY <1>2 DEF ServeOrphan
  <2>4. todo \in Queue /\ Keys(todo) # {} /\ \A j \in Keys(todo) : Named(j, todo[j])
    BY DEF IInv, TypeOK, Naming
  <2>5. k \in Tap /\ k \in Keys(todo)
    BY <2>1, <2>4, FirstTap DEF First, Keys
  <2>6. r \in Body /\ Named(k, r)
    BY <2>1, <2>4, <2>5 DEF Queue, Keys
  <2>7. TypeOK /\ Counted /\ Naming /\ UNCHANGED webs /\ taps <= taps'
    BY <2>3 DEF IInv, TypeOK
  <2> QED  BY <2>2, <2>5, <2>6, <2>7, HandleImplements
<1>3. ASSUME NEW e \in Entity, NEW v \in Value \cup {Nil}, WebWrite(e, v)
      PROVE  [Store!Next]_(Store!vars)
  BY <1>3, WebImplements DEF IInv
<1>4. CASE UserStep
  <2>1. UNCHANGED <<rows, outcomes>>
    BY <1>4 DEF UserStep, Create, Edit, Delete, UseServer, RetryMine, Tapped, server
  <2> QED  BY <2>1, StoreStands
<1>5. CASE SyncStep
  <2>1. UNCHANGED <<rows, outcomes>>
    BY <1>5 DEF SyncStep, StartSync, Claim, Requeue, PersistResponse, FetchBootstrap,
       EstablishCursor, FetchPull, ApplyPage, SyncUnchanged, UserUnchanged, server
  <2> QED  BY <2>1, StoreStands
<1>6. CASE LoseCall \/ CursorRefused \/ Crash \/ \E todo \in orphans : DropOrphan(todo)
  <2>1. UNCHANGED <<rows, outcomes>>
    BY <1>6 DEF LoseCall, CursorRefused, Crash, DropOrphan, SyncUnchanged, UserUnchanged, server
  <2> QED  BY <2>1, StoreStands
<1>7. CASE UNCHANGED vars
  <2>1. UNCHANGED <<rows, outcomes>>
    BY <1>7 DEF vars
  <2> QED  BY <2>1, StoreStands
<1> QED  BY <1>1, <1>2, <1>3, <1>4, <1>5, <1>6, <1>7 DEF Next

LEMMA InitImplements == Init => Store!Init
BY DEF Init, Store!Init

\* The server as this client meets it, with mutations that arrive late, twice
\* or not at all, is the store that SyncServer implements: a mutation changes a
\* row only in the step that records it as applied, on the version it was
\* based on.
THEOREM ServerImplements == Spec => ServerIsStore
BY InitImplements, StepImplements, Invariance, PTL DEF Spec, ServerIsStore, Store!Spec

-----------------------------------------------------------------------------
(* The replica keeps up with the server's journal: paging, skipping rows     *)
(* with local intent, late answers and conflicts lose no change.  The        *)
(* inductive invariant, on top of IInv.                                      *)

InJournal(e) == \E i \in DOMAIN journal : journal[i].ent = e

\* A change of e is still to be pulled.
Behind(e) == cursor = Nil \/ \E i \in DOMAIN journal : i > cursor /\ journal[i].ent = e

HasIntent(e) == EntriesOf(e) # {} \/ EvidenceOf(e) # {}

\* The device has of e what the server has, or what the server had before a
\* deletion that the last bootstrap counted behind its cursor.
Mirrors(e) ==
    IF rows[e] # Nil
    THEN local[e] = [val |-> rows[e].val, ver |-> rows[e].ver, status |-> "synced"]
    ELSE local[e] = Nil \/ \E i \in 1..listedAt :
           i \in DOMAIN journal /\ journal[i].ent = e /\ journal[i].val = Nil

Follows == \A e \in Entity \ cancelled : Behind(e) \/ HasIntent(e) \/ Mirrors(e)

\* The newest change of a row is the row.
Newest(i) == \A j \in DOMAIN journal : journal[j].ent = journal[i].ent => j <= i

Describes(i) ==
    LET e == journal[i].ent IN
    IF rows[e] = Nil THEN journal[i].val = Nil
    ELSE journal[i].ver = rows[e].ver /\ journal[i].val = rows[e].val

RowsJournaled ==
    /\ \A e \in Entity : rows[e] # Nil => InJournal(e)
    /\ \A i \in DOMAIN journal : journal[i].ver # 0 /\ (Newest(i) => Describes(i))

\* The bodies that may yet reach the server under k.
Late(k, m) == \E q \in orphans : q[k] = m

Drafted(k, m) == (outbox[k] # Nil /\ outbox[k].body = m) \/ Late(k, m)

\* A mutation is based on what the server had.  A deletion is never rewritten,
\* and the server knows nothing of a row before its creation has arrived, which
\* has one key.
DraftStands(k, m) ==
    /\ m.at <= taps
    /\ m.base # 0 => InJournal(m.ent)
    /\ m.op = "delete" =>
         /\ m.base # 0
         /\ \A n \in Body : Drafted(k, n) => n = m
         /\ outcomes[k] # Nil => outcomes[k].req = m
    /\ m.base = 0 /\ m.ent \notin cancelled =>
         /\ outcomes[k] = Nil => ~ InJournal(m.ent)
         /\ \A j \in Tap, n \in Body :
              Drafted(j, n) /\ n.ent = m.ent /\ n.base = 0 => j = k

DraftsStand == \A k \in Tap, m \in Body : Drafted(k, m) => DraftStands(k, m)

Recorded ==
    \A k \in Keys(outcomes) :
        /\ outcomes[k].req.at <= taps
        /\ outcomes[k].res.status # "duplicate"
        /\ outcomes[k].res.status # "rejected" => outcomes[k].res.ver # 0
        /\ outcomes[k].res.status = "conflict" => InJournal(outcomes[k].req.ent)
        /\ /\ outcomes[k].res.status = "applied"
           /\ outcomes[k].req.op = "delete"
           /\ outcomes[k].req.ent \notin cancelled
           => rows[outcomes[k].req.ent] = Nil

\* The server has rejected the mutation as it is, or knows another under k.
Denied(k) == outcomes[k].res.status = "rejected" \/ outcomes[k].req # outbox[k].body

FailuresTold ==
    \A k \in Keys(outbox) : outbox[k].status = "failed" => outcomes[k] # Nil /\ Denied(k)

AnswersTold ==
    call # Nil => \A k \in Tap : call.answers[k] # Nil =>
        LET a == call.answers[k] IN
        /\ outcomes[k] # Nil
        /\ a.status = "rejected" => Denied(k)
        /\ a.status # "rejected" => a.ver # 0
        /\ a.status = "conflict" => InJournal(outbox[k].body.ent)
        /\ a.status \in Accepted =>
             /\ outcomes[k].res.status = "applied"
             /\ outcomes[k].req = outbox[k].body
             /\ outcomes[k].res.ver = a.ver

\* What the device has seen of a row the server has had.
SeenOf(e) ==
    /\ local[e].ver # 0 => InJournal(e)
    /\ local[e].status = "synced" => local[e].ver # 0
    /\ local[e].status # "synced" => HasIntent(e)
    /\ e \in deletedHere => local[e].ver # 0

Seen ==
    /\ \A e \in Entity : local[e] # Nil => SeenOf(e)
    /\ \A c \in conflicts : c.ver # 0 /\ InJournal(c.ent)
    /\ \A e \in deletedHere : InJournal(e)

Reading == {"bootstrap", "pull", "rebootstrap", "repull"}

\* While pages are read no mutation waits whose outcome the device missed.
Quiet ==
    /\ pc \in Reading \cup {"claim"} => Sending(outbox) = {}
    /\ pc \in Reading => \A k \in Keys(outbox) :
         IF outcomes[k] = Nil THEN \A m \in Body : ~ Late(k, m) ELSE Denied(k)

\* What was applied without the device knowing is still to be pulled.
Unseen ==
    \A k \in Keys(outbox) :
        outcomes[k] # Nil /\ ~ Denied(k) /\ outcomes[k].res.status = "applied" =>
            LET m == outbox[k].body IN
            Behind(m.ent) \/ rows[m.ent] = [ver |-> outcomes[k].res.ver, val |-> m.val]

\* A deletion is done for ever, queued, or refused for ever.
Doomed ==
    \A e \in deletedHere \ cancelled :
        \/ rows[e] = Nil
        \/ \E k \in EntriesOf(e) : outbox[k].body.op = "delete"
        \/ \E c \in EvidenceOf(e) : c.lval = Nil

\* Rows that have not changed since the bootstrap began, its pages bring.
Still(e) == ~ \E i \in DOMAIN journal : i > boot.high /\ journal[i].ent = e

Brought(e) ==
    /\ boot.more \/ e <= boot.last
    /\ e <= boot.last =>
         HasIntent(e) \/ Mirrors(e) \/ (page # Nil /\ e \in DOMAIN page.changes)

Listing ==
    boot # Nil => \A e \in Entity \ cancelled : rows[e] # Nil /\ Still(e) => Brought(e)

Listed(e) ==
    /\ page.changes[e].ent = e
    /\ Still(e) => /\ rows[e] # Nil
                   /\ page.changes[e] = [ent |-> e, ver |-> rows[e].ver, val |-> rows[e].val]

Pages ==
    /\ pc \in {"bootstrap", "rebootstrap"} => cursor = Nil
    /\ page # Nil /\ page.next = Nil => boot # Nil /\ \A e \in DOMAIN page.changes :
         e \in Entity /\ Listed(e)
    /\ page # Nil /\ page.next # Nil =>
         /\ DOMAIN page.changes = cursor + 1 .. page.next
         /\ \A i \in DOMAIN page.changes : page.changes[i] = journal[i]

JInv ==
    /\ RowsJournaled /\ DraftsStand /\ Recorded /\ FailuresTold /\ AnswersTold
    /\ Seen /\ Quiet /\ Unseen /\ Doomed /\ Listing /\ Pages /\ Follows

-----------------------------------------------------------------------------
(* What the journal says of a row *)

LEMMA JournalTyped ==
    ASSUME TypeOK
    PROVE  /\ DOMAIN journal = 1..Len(journal) /\ Len(journal) \in Nat
           /\ \A i \in DOMAIN journal : i \in Nat /\ journal[i] \in Change
BY DEF TypeOK

LEMMA BootNotNil == \A x \in [high : Nat, last : Entity \cup {0}, more : BOOLEAN] : x # Nil
BY MobileSyncAssumption, Zenon

LEMMA PageNotNil ==
    \A ids \in SUBSET Entity :
        \A x \in [changes : [ids -> Change], next : {Nil}, more : BOOLEAN] : x # Nil
BY MobileSyncAssumption, Zenon

LEMMA InJournalStays ==
    ASSUME Grows, NEW e, InJournal(e)
    PROVE  InJournal(e)'
BY DEF Grows, InJournal

LEMMA PublishedInJournal ==
    ASSUME NEW e, NEW ver, NEW v, Published(e, ver, v)
    PROVE  InJournal(e)
BY DEF Published, InJournal

LEMMA PublishedVersion ==
    ASSUME RowsJournaled, NEW e, NEW ver, NEW v, Published(e, ver, v)
    PROVE  ver # 0
BY DEF Published, RowsJournaled

LEMMA RowVersion ==
    ASSUME IInv, RowsJournaled, NEW e \in Entity, rows[e] # Nil
    PROVE  rows[e].ver # 0 /\ InJournal(e) /\ rows[e].ver \in Nat
<1>1. rows[e].ver # 0 /\ InJournal(e)
  BY PublishedVersion, PublishedInJournal DEF IInv, Counted
<1>2. rows[e].ver \in Nat
  BY Constants DEF IInv, TypeOK
<1> QED  BY <1>1, <1>2

LEMMA LastIndex ==
    ASSUME TypeOK, NEW e, InJournal(e)
    PROVE  \E i \in DOMAIN journal : journal[i].ent = e /\ Newest(i)
<1> DEFINE T == {i \in DOMAIN journal : journal[i].ent = e}
<1>1. DOMAIN journal = 1..Len(journal) /\ Len(journal) \in Nat
  BY JournalTyped
<1>2. IsFiniteSet(1..Len(journal))
  BY <1>1, FS_Interval
<1>3. T \in SUBSET (1..Len(journal)) /\ T # {}
  BY <1>1 DEF InJournal
<1>4. T \in SUBSET Nat /\ IsFiniteSet(T)
  BY <1>1, <1>2, <1>3, FS_Subset
<1>5. Max(T) \in T /\ \A j \in T : j <= Max(T)
  BY <1>3, <1>4, MaxIs
<1> QED  BY <1>5 DEF Newest

\* A row that is in the journal and not in the table was deleted, by a change
\* that no other of it follows.
LEMMA Tombstone ==
    ASSUME TypeOK, RowsJournaled, NEW e \in Entity, rows[e] = Nil, InJournal(e)
    PROVE  \E i \in DOMAIN journal : journal[i].ent = e /\ journal[i].val = Nil /\ Newest(i)
<1>1. PICK i \in DOMAIN journal : journal[i].ent = e /\ Newest(i)
  BY LastIndex
<1> QED  BY <1>1 DEF RowsJournaled, Describes

\* A step that changes e adds a change of e to the journal.
Changes(e) == \E i \in DOMAIN journal' : i > Len(journal) /\ journal'[i].ent = e

Moves ==
    /\ Grows /\ RowsJournaled'
    /\ \A e \in Entity : Changes(e) \/ (rows'[e] = rows[e] /\ (InJournal(e)' => InJournal(e)))

LEMMA MovesNot ==
    ASSUME IInv, RowsJournaled, UNCHANGED <<rows, journal>>
    PROVE  Moves
<1>1. Grows
  BY Unchanging DEF IInv
<1>2. RowsJournaled'
  BY DEF RowsJournaled, InJournal, Newest, Describes
<1> QED  BY <1>1, <1>2 DEF Moves, InJournal

LEMMA Publishing ==
    ASSUME TypeOK, RowsJournaled, NEW c \in Change, c.ver # 0,
           journal' = Append(journal, c),
           NEW row, row = Nil <=> c.val = Nil, row # Nil => row.ver = c.ver /\ row.val = c.val,
           rows' = [rows EXCEPT ![c.ent] = row]
    PROVE  /\ Moves /\ Changes(c.ent) /\ rows'[c.ent] = row
           /\ \A e \in Entity : Changes(e) => e = c.ent
<1>1. /\ Grows /\ journal' \in Seq(Change) /\ Len(journal') = Len(journal) + 1
      /\ journal'[Len(journal) + 1] = c
      /\ Len(journal) \in Nat
      /\ DOMAIN journal = 1..Len(journal) /\ DOMAIN journal' = 1..Len(journal')
      /\ \A i \in DOMAIN journal : journal'[i] = journal[i]
  <2>1. journal \in Seq(Change)
    BY DEF TypeOK
  <2>2. Grows /\ journal' \in Seq(Change) /\ Len(journal') = Len(journal) + 1
    BY Appending
  <2> QED  BY <2>1, <2>2
<1>2. c.ent \in Entity /\ rows'[c.ent] = row /\ \A e \in Entity \ {c.ent} : rows'[e] = rows[e]
  BY DEF Change, TypeOK
<1>3. Changes(c.ent)
  BY <1>1 DEF Changes
<1>4. \A i \in DOMAIN journal' : i > Len(journal) => i = Len(journal) + 1
  BY <1>1
<1>5. \A e \in Entity : Changes(e) => e = c.ent
  BY <1>1, <1>4 DEF Changes
<1>6. \A e \in Entity : e # c.ent /\ InJournal(e)' => InJournal(e)
  <2>1. ASSUME NEW e \in Entity, e # c.ent, NEW i \in DOMAIN journal', journal'[i].ent = e
        PROVE  InJournal(e)
    <3>1. i # Len(journal) + 1
      BY <1>1, <2>1
    <3>2. i \in DOMAIN journal
      BY <1>1, <3>1
    <3> QED  BY <1>1, <2>1, <3>2 DEF InJournal
  <2> QED  BY <2>1 DEF InJournal
<1>7. RowsJournaled'
  <2>1. ASSUME NEW e \in Entity, rows'[e] # Nil PROVE InJournal(e)'
    <3>1. CASE e = c.ent
      BY <1>1, <3>1 DEF InJournal
    <3>2. CASE e # c.ent
      BY <1>1, <1>2, <2>1, <3>2, InJournalStays DEF RowsJournaled
    <3> QED  BY <3>1, <3>2
  <2>2. ASSUME NEW i \in DOMAIN journal'
        PROVE  journal'[i].ver # 0 /\ (Newest(i)' => Describes(i)')
    <3>1. CASE i = Len(journal) + 1
      BY <1>1, <1>2, <3>1 DEF Describes
    <3>2. CASE i \in DOMAIN journal
      <4>1. journal'[i] = journal[i] /\ journal[i].ver # 0
        BY <1>1, <3>2 DEF RowsJournaled
      <4>2. SUFFICES ASSUME Newest(i)' PROVE Describes(i)'
        BY <4>1
      <4>3. journal[i].ent # c.ent
        <5>1. Len(journal) + 1 \in DOMAIN journal' /\ ~ (Len(journal) + 1 <= i)
          BY <1>1, <3>2
        <5> QED  BY <1>1, <4>1, <4>2, <5>1 DEF Newest
      <4>4. Newest(i)
        <5>1. \A j \in DOMAIN journal : j \in DOMAIN journal' /\ journal'[j] = journal[j]
          BY <1>1
        <5> QED  BY <3>2, <4>1, <4>2, <5>1 DEF Newest
      <4>5. Describes(i) /\ journal[i].ent \in Entity
        BY <3>2, <4>4, JournalTyped DEF RowsJournaled, Change
      <4>6. rows'[journal[i].ent] = rows[journal[i].ent]
        BY <1>2, <4>3, <4>5
      <4> QED  BY <4>1, <4>5, <4>6 DEF Describes
    <3> QED  BY <1>1, <3>1, <3>2
  <2> QED  BY <2>1, <2>2 DEF RowsJournaled
<1> QED  BY <1>1, <1>2, <1>3, <1>5, <1>6, <1>7 DEF Moves

LEMMA IndexAfter ==
    ASSUME IInv', NEW i \in DOMAIN journal'
    PROVE  i \in Nat
BY DEF IInv, TypeOK

\* What a change of e means for the device.
LEMMA ChangeBehind ==
    ASSUME IInv, IInv', NEW e, Changes(e), UNCHANGED cursor
    PROVE  Behind(e)'
<1>1. cursor # Nil => cursor \in Nat /\ cursor <= Len(journal)
  BY DEF IInv, TypeOK, Paging
<1>2. PICK i \in DOMAIN journal' : i > Len(journal) /\ journal'[i].ent = e
  BY DEF Changes
<1>3. Len(journal) \in Nat
  BY JournalTyped DEF IInv
<1>4. i \in Nat
  BY <1>2 DEF IInv, TypeOK
<1> QED  BY <1>1, <1>2, <1>3, <1>4 DEF Behind

LEMMA ChangeNotStill ==
    ASSUME IInv, IInv', NEW e \in Entity, Moves, boot # Nil, UNCHANGED boot, Still(e)'
    PROVE  Still(e) /\ rows'[e] = rows[e]
<1>1. boot.high \in Nat /\ boot.high <= Len(journal) /\ Len(journal) \in Nat
  BY JournalTyped DEF IInv, TypeOK, Paging
<1>2. \A i \in DOMAIN journal : i \in DOMAIN journal' /\ journal'[i] = journal[i]
  BY DEF Moves, Grows
<1>3. Still(e)
  BY <1>2 DEF Still
<1>4. ~ Changes(e)
  <2>1. SUFFICES ASSUME NEW i \in DOMAIN journal', i > Len(journal), journal'[i].ent = e
                 PROVE  FALSE
    BY DEF Changes
  <2>2. i \in Nat
    BY <2>1, IndexAfter
  <2>3. i > boot.high
    BY <1>1, <2>1, <2>2
  <2> QED  BY <2>1, <2>3 DEF Still
<1> QED  BY <1>3, <1>4 DEF Moves

-----------------------------------------------------------------------------
(* Steps of the server *)

\* A step of the server leaves the device what it is, and what was deleted
\* stays deleted.
LEMMA DeviceFollows ==
    ASSUME IInv, IInv', JInv, Moves,
           UNCHANGED <<device, pc, boot, page, history>>,
           \A e \in Entity \ cancelled : rows[e] = Nil /\ InJournal(e) => rows'[e] = Nil
    PROVE  Seen' /\ Doomed' /\ Listing' /\ Pages' /\ Follows'
<1> USE DEF device, history
<1>1. Grows /\ \A i \in DOMAIN journal : i \in DOMAIN journal' /\ journal'[i] = journal[i]
  BY DEF Moves, Grows
<1>2. \A e : /\ EntriesOf(e)' = EntriesOf(e)
             /\ HasIntent(e)' <=> HasIntent(e)
             /\ InJournal(e) => InJournal(e)'
             /\ Behind(e) => Behind(e)'
  BY <1>1, InJournalStays DEF EntriesOf, EvidenceOf, HasIntent, Behind, Keys
<1>3. ASSUME NEW e \in Entity, rows'[e] = rows[e], Mirrors(e) PROVE Mirrors(e)'
  BY <1>1, <1>3 DEF Mirrors
<1>4. Seen'
  BY <1>2 DEF JInv, Seen, SeenOf
<1>5. Doomed'
  <2>1. ASSUME NEW e \in deletedHere \ cancelled, rows[e] = Nil PROVE rows'[e] = Nil
    <3>1. e \in Entity /\ InJournal(e)
      BY <2>1 DEF IInv, TypeOK, JInv, Seen
    <3> QED  BY <2>1, <3>1
  <2> QED  BY <1>2, <2>1 DEF JInv, Doomed, EvidenceOf
<1>6. Follows'
  <2>1. ASSUME NEW e \in Entity \ cancelled
        PROVE  Behind(e)' \/ HasIntent(e)' \/ Mirrors(e)'
    <3>1. CASE Changes(e)
      BY <3>1, ChangeBehind
    <3>2. CASE rows'[e] = rows[e]
      BY <1>2, <1>3, <3>2 DEF JInv, Follows
    <3> QED  BY <3>1, <3>2 DEF Moves
  <2> QED  BY <2>1 DEF Follows
<1>7. Listing'
  <2>1. ASSUME NEW e \in Entity \ cancelled, boot # Nil, rows'[e] # Nil, Still(e)'
        PROVE  Brought(e)'
    <3>1. Still(e) /\ rows'[e] = rows[e]
      BY <2>1, ChangeNotStill
    <3>2. Brought(e)
      BY <2>1, <3>1 DEF JInv, Listing
    <3> QED  BY <1>2, <1>3, <3>1, <3>2 DEF Brought
  <2> QED  BY <2>1 DEF Listing
<1>8. Pages'
  <2>1. ASSUME page # Nil, page.next = Nil, NEW e \in DOMAIN page.changes
        PROVE  boot # Nil /\ e \in Entity /\ Listed(e)'
    <3>1. boot # Nil /\ e \in Entity /\ Listed(e)
      BY <2>1 DEF JInv, Pages
    <3>2. Still(e)' => Still(e) /\ rows'[e] = rows[e]
      BY <3>1, ChangeNotStill
    <3> QED  BY <3>1, <3>2 DEF Listed
  <2>2. ASSUME page # Nil, page.next # Nil, NEW i \in DOMAIN page.changes
        PROVE  page.changes[i] = journal'[i]
    <3>1. i \in cursor + 1 .. page.next /\ page.changes[i] = journal[i]
      BY <2>2 DEF JInv, Pages
    <3>2. /\ pc \in {"pull", "repull"}
          /\ cursor \in Nat /\ page.next \in Nat /\ page.next <= Len(journal)
      BY <2>2 DEF IInv, TypeOK, Paging
    <3>3. DOMAIN journal = 1..Len(journal) /\ Len(journal) \in Nat
      BY JournalTyped DEF IInv
    <3>4. i \in DOMAIN journal
      BY <3>1, <3>2, <3>3
    <3> QED  BY <1>1, <3>1, <3>4
  <2> QED  BY <2>1, <2>2 DEF JInv, Pages
<1> QED  BY <1>4, <1>5, <1>6, <1>7, <1>8

\* A first answer is of the row as it is.
LEMMA FirstAnswers ==
    ASSUME IInv, JInv, NEW k \in Tap, NEW r \in Body, r.key = k, Drafted(k, r), Named(k, r),
           outcomes[k] = Nil, NEW a \in Answers(r)
    PROVE  /\ a.status \in {"applied", "conflict", "rejected"}
           /\ a.status # "rejected" => a.ver # 0
           /\ a.status = "conflict" => InJournal(r.ent)
           /\ a.status = "applied" =>
                \/ rows[r.ent] = Nil /\ r.op = "upsert" /\ r.base = 0 /\ a.ver = 1
                \/ /\ rows[r.ent] # Nil
                   /\ a.ver = IF r.val = rows[r.ent].val THEN rows[r.ent].ver
                              ELSE rows[r.ent].ver + 1
<1>1. a \in Verdicts(r)
  BY DEF Answers
<1>2. DraftStands(k, r)
  BY DEF JInv, DraftsStand
<1>3. r.ent \in Entity /\ r.op \in {"upsert", "delete"}
  BY DEF Body
<1>4. InJournal(r.ent) => \E i \in DOMAIN journal : LastVersion(r.ent) = journal[i].ver
  BY LastChange DEF IInv, InJournal
<1>5. InJournal(r.ent) => LastVersion(r.ent) # 0
  BY <1>4 DEF JInv, RowsJournaled
<1>6. rows[r.ent] # Nil =>
        rows[r.ent].ver # 0 /\ rows[r.ent].ver \in Nat /\ InJournal(r.ent)
  BY <1>3, RowVersion DEF JInv
<1>7. CASE a = Reply("rejected", "invalid_category", 0, Nil)
  BY <1>7 DEF Reply
<1>8. CASE rows[r.ent] = Nil /\ a = Reply("applied", "none", 1, Nil) /\ r.op = "upsert" /\ r.base = 0
  BY <1>8 DEF Reply
<1>9. CASE InJournal(r.ent) /\ a = Reply("conflict", "server_deleted", LastVersion(r.ent), Nil)
  BY <1>5, <1>9 DEF Reply
<1>10. CASE ~ InJournal(r.ent) /\ ~ (r.op = "upsert" /\ r.base = 0)
  <2>1. r.base = 0
    BY <1>2, <1>10 DEF DraftStands
  <2>2. r.op = "delete"
    BY <1>3, <1>10, <2>1
  <2> QED  BY <1>2, <2>1, <2>2 DEF DraftStands
<1>11. CASE /\ rows[r.ent] # Nil
            /\ a = Reply("conflict", "stale_version", rows[r.ent].ver, rows[r.ent].val)
  BY <1>6, <1>11 DEF Reply
<1>12. CASE /\ rows[r.ent] # Nil
            /\ a = Reply("applied", "none", IF r.val = rows[r.ent].val THEN rows[r.ent].ver
                                            ELSE rows[r.ent].ver + 1, Nil)
  <2>1. a.status = "applied" /\ a.ver = IF r.val = rows[r.ent].val THEN rows[r.ent].ver
                                        ELSE rows[r.ent].ver + 1
    BY <1>12 DEF Reply
  <2>2. a.ver # 0
    BY <1>6, <1>12, <2>1
  <2> QED  BY <1>12, <2>1, <2>2
<1> QED  BY <1>1, <1>7, <1>8, <1>9, <1>10, <1>11, <1>12 DEF Verdicts, InJournal

LEMMA HandleMoves ==
    ASSUME IInv, JInv, UNCHANGED <<webs, taps>>, NEW k \in Tap, NEW r \in Body,
           Drafted(k, r), Named(k, r), NEW a \in Answers(r), Handle(r, a)
    PROVE  /\ Moves
           /\ \A j \in Tap \ {k} : outcomes'[j] = outcomes[j]
           /\ outcomes[k] # Nil => UNCHANGED <<rows, outcomes, journal>>
           /\ outcomes[k] = Nil => outcomes'[k] = [req |-> r, res |-> a]
           /\ \A e \in Entity : Changes(e) =>
                e = r.ent /\ outcomes[k] = Nil /\ a.status = "applied"
           /\ outcomes[k] = Nil /\ a.status = "applied" =>
                /\ \/ Changes(r.ent)
                   \/ rows'[r.ent] = [ver |-> a.ver, val |-> r.val]
                /\ r.op = "delete" => rows'[r.ent] = Nil
           /\ \A e \in Entity \ cancelled : rows[e] = Nil /\ InJournal(e) => rows'[e] = Nil
<1>0. /\ r.key = k /\ r.ent \in Entity /\ r.val \in Value \cup {Nil} /\ r.op \in {"upsert", "delete"}
      /\ r.op = "delete" <=> r.val = Nil
  BY DEF Named, Body
<1>1. /\ a \in Answer /\ \A j \in Tap \ {k} : outcomes'[j] = outcomes[j]
      /\ outcomes[k] = Nil => outcomes'[k] = [req |-> r, res |-> a]
  <2>1. TypeOK /\ Counted /\ Naming /\ UNCHANGED webs /\ taps <= taps'
    BY DEF IInv, TypeOK
  <2> QED  BY <2>1, Handling
<1>2. RowsJournaled
  BY DEF JInv
<1>3. ASSUME UNCHANGED <<rows, journal>>
      PROVE  /\ Moves /\ \A e \in Entity : ~ Changes(e)
             /\ \A e \in Entity \ cancelled : rows[e] = Nil /\ InJournal(e) => rows'[e] = Nil
  <2>1. Moves
    BY <1>2, <1>3, MovesNot
  <2>2. \A e \in Entity : ~ Changes(e)
    BY <1>3, JournalTyped DEF IInv, Changes
  <2> QED  BY <1>3, <2>1, <2>2
<1>4. CASE outcomes[k] # Nil
  <2>1. UNCHANGED <<rows, outcomes, journal>>
    BY <1>0, <1>4 DEF Handle
  <2> QED  BY <1>1, <1>3, <1>4, <2>1
<1>5. CASE outcomes[k] = Nil
  <2>1. a.status = "applied" =>
          \/ rows[r.ent] = Nil /\ r.op = "upsert" /\ r.base = 0 /\ a.ver = 1
          \/ /\ rows[r.ent] # Nil
             /\ a.ver = IF r.val = rows[r.ent].val THEN rows[r.ent].ver
                        ELSE rows[r.ent].ver + 1
    BY <1>0, <1>5, FirstAnswers
  <2>2. a.status # "rejected" => a.ver # 0
    BY <1>0, <1>5, FirstAnswers
  <2>3. CASE a.status # "applied"
    <3>1. UNCHANGED <<rows, journal>>
      BY <1>0, <2>3 DEF Handle
    <3> QED  BY <1>1, <1>3, <1>5, <2>3, <3>1
  <2>4. CASE a.status = "applied" /\ ~ (rows[r.ent] = Nil \/ a.ver # rows[r.ent].ver)
    <3>1. UNCHANGED <<rows, journal>>
      BY <2>4 DEF Handle
    <3>2. rows[r.ent] \in [ver : Version, val : Value] /\ rows[r.ent].ver \in Nat
      BY <1>0, <2>4, Constants DEF IInv, TypeOK
    <3>3. r.val = rows[r.ent].val
      BY <2>1, <2>4, <3>2
    <3>4. rows'[r.ent] = [ver |-> a.ver, val |-> r.val]
      BY <2>4, <3>1, <3>2, <3>3
    <3>5. r.op # "delete"
      BY <1>0, <3>2, <3>3, Constants
    <3> QED  BY <1>1, <1>3, <1>5, <2>4, <3>1, <3>4, <3>5
  <2>5. CASE a.status = "applied" /\ (rows[r.ent] = Nil \/ a.ver # rows[r.ent].ver)
    <3> DEFINE c == [ent |-> r.ent, ver |-> a.ver, val |-> r.val]
               row == IF r.op = "delete" THEN Nil ELSE [ver |-> a.ver, val |-> r.val]
    <3>1. rows' = [rows EXCEPT ![r.ent] = row] /\ journal' = Append(journal, c)
      BY <1>0, <1>5, <2>5 DEF Handle
    <3>2. c \in Change /\ c.ver # 0 /\ c.ent = r.ent
      BY <1>0, <1>1, <2>2, <2>5 DEF Change, Answer
    <3>3. row = Nil <=> c.val = Nil
      <4>1. r.op # "delete" => [ver |-> a.ver, val |-> r.val] \in [ver : Version, val : Value]
        BY <1>0, <1>1 DEF Answer
      <4> QED  BY <1>0, <4>1, RowNotNil
    <3>4. row # Nil => row.ver = c.ver /\ row.val = c.val
      OBVIOUS
    <3>5. r.op = "delete" => row = Nil
      OBVIOUS
    <3> HIDE DEF c, row
    <3>6. /\ Moves /\ Changes(c.ent) /\ rows'[c.ent] = row
          /\ \A e \in Entity : Changes(e) => e = c.ent
      BY <1>2, <3>1, <3>2, <3>3, <3>4, Publishing DEF IInv
    <3>7. \A e \in Entity \ cancelled : rows[e] = Nil /\ InJournal(e) => rows'[e] = Nil
      <4>1. ASSUME NEW e \in Entity \ cancelled, rows[e] = Nil, InJournal(e)
            PROVE  rows'[e] = Nil
        <5>1. e # r.ent
          <6>1. SUFFICES ASSUME e = r.ent PROVE FALSE
            OBVIOUS
          <6>2. r.base = 0
            BY <2>1, <2>5, <4>1, <6>1
          <6>3. DraftStands(k, r)
            BY DEF JInv, DraftsStand
          <6> QED  BY <1>5, <4>1, <6>1, <6>2, <6>3 DEF DraftStands
        <5>2. rows'[e] = rows[e]
          BY <3>2, <3>6, <5>1 DEF Moves
        <5> QED  BY <4>1, <5>2
      <4> QED  BY <4>1
    <3> QED  BY <1>1, <1>5, <2>5, <3>2, <3>5, <3>6, <3>7
  <2> QED  BY <2>3, <2>4, <2>5
<1> QED  BY <1>4, <1>5

\* Of what is queued or late, a body that is handled is recorded as it is.
LEMMA HandleStands ==
    ASSUME IInv, IInv', JInv, UNCHANGED <<device, pc, taps, webs, history>>,
           NEW k \in Tap, NEW r \in Body,
           Drafted(k, r), Named(k, r), NEW a \in Answers(r), Handle(r, a),
           \A j \in Tap, m \in Body : Late(j, m)' => Late(j, m),
           pc \in Reading => Late(k, r)
    PROVE  /\ Moves
           /\ \A e \in Entity \ cancelled : rows[e] = Nil /\ InJournal(e) => rows'[e] = Nil
           /\ DraftsStand' /\ Recorded' /\ FailuresTold' /\ Quiet' /\ Unseen'
           /\ outcomes'[k] # Nil /\ \A j \in Tap : outcomes[j] # Nil => outcomes'[j] = outcomes[j]
<1> USE DEF device, history
<1>1. /\ Moves
      /\ \A j \in Tap \ {k} : outcomes'[j] = outcomes[j]
      /\ outcomes[k] # Nil => UNCHANGED <<rows, outcomes, journal>>
      /\ outcomes[k] = Nil => outcomes'[k] = [req |-> r, res |-> a]
      /\ \A e \in Entity : Changes(e) =>
           e = r.ent /\ outcomes[k] = Nil /\ a.status = "applied"
      /\ outcomes[k] = Nil /\ a.status = "applied" =>
           /\ \/ Changes(r.ent)
              \/ rows'[r.ent] = [ver |-> a.ver, val |-> r.val]
           /\ r.op = "delete" => rows'[r.ent] = Nil
      /\ \A e \in Entity \ cancelled : rows[e] = Nil /\ InJournal(e) => rows'[e] = Nil
  BY HandleMoves
<1>2. \A j \in Tap : outcomes[j] # Nil => outcomes'[j] = outcomes[j]
  BY <1>1
<1>3. \A j \in Tap : outcomes'[j] = Nil => outcomes[j] = Nil
  BY <1>2
<1>4. Grows /\ \A e : InJournal(e) => InJournal(e)'
  BY <1>1, InJournalStays DEF Moves
<1>5. \A j \in Tap, m \in Body : Drafted(j, m)' => Drafted(j, m)
  BY DEF Drafted
<1>6. r.ent \in Entity /\ r.key = k
  BY DEF Body, Named
<1>7. DraftStands(k, r)
  BY DEF JInv, DraftsStand
<1>8. outcomes'[k] # Nil
  <2>1. outcomes[k] = Nil => outcomes'[k] \in [req : Body, res : Answer] \cup {Nil} /\ outcomes'[k] = [req |-> r, res |-> a]
    BY <1>1 DEF IInv, TypeOK
  <2>2. outcomes[k] = Nil => a \in Answer
    <3>1. TypeOK /\ Counted /\ Naming /\ UNCHANGED webs /\ taps <= taps'
      BY DEF IInv, TypeOK
    <3> QED  BY <3>1, Handling
  <2>3. outcomes[k] = Nil => outcomes'[k] \in [req : Body, res : Answer]
    BY <2>1, <2>2
  <2> QED  BY <1>2, <2>3, OutcomeNotNil
<1>9. DraftsStand'
  <2>1. ASSUME NEW j \in Tap, NEW m \in Body, Drafted(j, m)'
        PROVE  DraftStands(j, m)'
    <3>1. Drafted(j, m) /\ DraftStands(j, m)
      BY <1>5, <2>1 DEF JInv, DraftsStand
    <3>2. m.ent \in Entity
      BY DEF Body
    <3>3. m.op = "delete" /\ outcomes'[j] # Nil => outcomes'[j].req = m
      <4>1. CASE outcomes[j] # Nil
        BY <1>2, <3>1, <4>1 DEF DraftStands
      <4>2. CASE outcomes[j] = Nil /\ j = k
        BY <1>1, <3>1, <4>2 DEF DraftStands
      <4>3. CASE outcomes[j] = Nil /\ j # k
        BY <1>1, <4>3
      <4> QED  BY <4>1, <4>2, <4>3
    <3>4. m.base = 0 /\ m.ent \notin cancelled /\ outcomes'[j] = Nil => ~ InJournal(m.ent)'
      <4>1. SUFFICES ASSUME m.base = 0, m.ent \notin cancelled, outcomes'[j] = Nil, InJournal(m.ent)'
                     PROVE  FALSE
        OBVIOUS
      <4>2. outcomes[j] = Nil /\ ~ InJournal(m.ent)
        BY <1>3, <3>1, <4>1 DEF DraftStands
      <4>3. Changes(m.ent)
        BY <1>1, <3>2, <4>1, <4>2 DEF Moves
      <4>4. m.ent = r.ent /\ outcomes[k] = Nil /\ a.status = "applied"
        BY <1>1, <3>2, <4>3
      <4>5. rows[r.ent] = Nil
        BY <4>2, <4>4, <1>6 DEF JInv, RowsJournaled
      <4>6. r.base = 0
        BY <1>6, <4>4, <4>5, FirstAnswers
      <4>7. k = j
        BY <3>1, <4>1, <4>4, <4>6 DEF DraftStands
      <4> QED  BY <1>8, <4>1, <4>7
    <3> QED  BY <1>4, <1>5, <3>1, <3>3, <3>4 DEF DraftStands
  <2> QED  BY <2>1 DEF DraftsStand
<1>10. Recorded'
  <2>1. ASSUME NEW j \in Tap, outcomes'[j] # Nil
        PROVE  /\ outcomes'[j].req.at <= taps
               /\ outcomes'[j].res.status # "duplicate"
               /\ outcomes'[j].res.status # "rejected" => outcomes'[j].res.ver # 0
               /\ outcomes'[j].res.status = "conflict" => InJournal(outcomes[j].req.ent)'
               /\ /\ outcomes'[j].res.status = "applied"
                  /\ outcomes'[j].req.op = "delete"
                  /\ outcomes'[j].req.ent \notin cancelled
                  => rows'[outcomes'[j].req.ent] = Nil
    <3>1. CASE outcomes[j] # Nil
      <4>1. outcomes'[j] = outcomes[j]
        BY <1>2, <3>1
      <4>2. /\ outcomes[j].req.at <= taps
            /\ outcomes[j].res.status # "duplicate"
            /\ outcomes[j].res.status # "rejected" => outcomes[j].res.ver # 0
            /\ outcomes[j].res.status = "conflict" => InJournal(outcomes[j].req.ent)
            /\ /\ outcomes[j].res.status = "applied"
               /\ outcomes[j].req.op = "delete"
               /\ outcomes[j].req.ent \notin cancelled
               => rows[outcomes[j].req.ent] = Nil
        BY <3>1 DEF JInv, Recorded, Keys
      <4>3. outcomes[j].req.ent \in Entity
        BY <3>1 DEF IInv, TypeOK, Body
      <4>4. outcomes[j].res.status = "applied" => InJournal(outcomes[j].req.ent)
        BY <3>1, PublishedInJournal DEF IInv, Counted, Backed, Accepted, Keys
      <4>5. InJournal(outcomes[j].req.ent) => InJournal(outcomes[j].req.ent)'
        <5>1. PICK x : x = outcomes[j].req.ent
          OBVIOUS
        <5>2. InJournal(x) => InJournal(x)'
          BY <1>4
        <5>3. outcomes'[j].req.ent = x
          BY <4>1, <5>1
        <5> QED  BY <5>1, <5>2, <5>3 DEF InJournal
      <4> QED  BY <1>1, <4>1, <4>2, <4>3, <4>4, <4>5
    <3>2. CASE outcomes[j] = Nil
      <4>1. j = k
        BY <1>1, <2>1, <3>2
      <4>2. outcomes'[j].req = r /\ outcomes'[j].res = a
        BY <1>1, <3>2, <4>1
      <4>3. /\ a.status \in {"applied", "conflict", "rejected"}
            /\ a.status # "rejected" => a.ver # 0
            /\ a.status = "conflict" => InJournal(r.ent)
        BY <1>6, <3>2, <4>1, FirstAnswers
      <4>4. InJournal(r.ent) => InJournal(outcomes[j].req.ent)'
        <5>1. InJournal(r.ent) => InJournal(r.ent)'
          BY <1>4
        <5> QED  BY <4>2, <5>1 DEF InJournal
      <4> QED  BY <1>1, <1>7, <3>2, <4>1, <4>2, <4>3, <4>4 DEF DraftStands
    <3> QED  BY <3>1, <3>2
  <2> QED  BY <2>1 DEF Recorded, Keys
<1>11. FailuresTold'
  BY <1>2 DEF JInv, FailuresTold, Denied, Keys
<1>12. Quiet'
  <2>1. ASSUME pc \in Reading, NEW j \in Keys(outbox)
        PROVE  IF outcomes'[j] = Nil THEN \A m \in Body : ~ Late(j, m)' ELSE Denied(j)'
    <3>1. j \in Tap /\ IF outcomes[j] = Nil THEN \A m \in Body : ~ Late(j, m) ELSE Denied(j)
      BY <2>1 DEF JInv, Quiet, Keys
    <3>2. CASE outcomes[j] # Nil
      BY <1>2, <3>1, <3>2 DEF Denied
    <3>3. CASE outcomes[j] = Nil
      <4>1. j # k
        BY <2>1, <3>1, <3>3
      <4> QED  BY <1>1, <3>1, <3>3, <4>1
    <3> QED  BY <3>2, <3>3
  <2> QED  BY <2>1 DEF JInv, Quiet, Sending, Keys
<1>13. Unseen'
  <2>1. ASSUME NEW j \in Keys(outbox), outcomes'[j] # Nil, ~ Denied(j)', outcomes'[j].res.status = "applied",
               NEW m, m = outbox[j].body
        PROVE  Behind(m.ent)' \/ rows'[m.ent] = [ver |-> outcomes'[j].res.ver, val |-> m.val]
    <3>1. j \in Tap /\ m \in Body /\ m.ent \in Entity
      BY <2>1 DEF IInv, TypeOK, OutboxRow, Keys, Body
    <3>2. CASE Changes(m.ent)
      BY <3>2, ChangeBehind
    <3>3. CASE ~ Changes(m.ent)
      <4>1. rows'[m.ent] = rows[m.ent]
        BY <1>1, <3>1, <3>3 DEF Moves
      <4>2. CASE outcomes[j] # Nil
        <5>1. ~ Denied(j) /\ outcomes'[j] = outcomes[j]
          BY <1>2, <2>1, <3>1, <4>2 DEF Denied
        <5>2. Behind(m.ent) \/ rows[m.ent] = [ver |-> outcomes[j].res.ver, val |-> m.val]
          BY <2>1, <4>2, <5>1 DEF JInv, Unseen
        <5>3. Behind(m.ent) => Behind(m.ent)'
          BY <1>4 DEF Behind, Grows
        <5> QED  BY <4>1, <5>1, <5>2, <5>3
      <4>3. CASE outcomes[j] = Nil
        <5>1. j = k
          BY <1>1, <2>1, <3>1, <4>3
        <5>2. outcomes'[j].req = r /\ outcomes'[j].res = a
          BY <1>1, <4>3, <5>1
        <5>3. m = r
          BY <2>1, <5>2 DEF Denied
        <5> QED  BY <1>1, <2>1, <3>3, <4>3, <5>1, <5>2, <5>3
      <4> QED  BY <4>2, <4>3
    <3> QED  BY <3>2, <3>3
  <2> QED  BY <2>1 DEF Unseen, Keys
<1> QED  BY <1>1, <1>2, <1>8, <1>9, <1>10, <1>11, <1>12, <1>13

\* What an answer says is what is recorded, or that the mutation is denied.
LEMMA AnswerTold ==
    ASSUME IInv, JInv, UNCHANGED <<webs, taps>>, NEW k \in Tap, NEW r \in Body,
           Drafted(k, r), Named(k, r), NEW a \in Answers(r), Handle(r, a)
    PROVE  /\ a.status = "rejected" =>
                outcomes'[k].res.status = "rejected" \/ outcomes'[k].req # r
           /\ a.status # "rejected" => a.ver # 0
           /\ a.status = "conflict" => InJournal(r.ent)
           /\ a.status \in Accepted =>
                /\ outcomes'[k].res.status = "applied"
                /\ outcomes'[k].req = r
                /\ outcomes'[k].res.ver = a.ver
<1>1. /\ outcomes[k] # Nil => UNCHANGED outcomes
      /\ outcomes[k] = Nil => outcomes'[k] = [req |-> r, res |-> a]
  BY HandleMoves
<1>2. r.key = k
  BY DEF Named
<1>3. CASE outcomes[k] = Nil
  <2>1. /\ a.status \in {"applied", "conflict", "rejected"}
        /\ a.status # "rejected" => a.ver # 0
        /\ a.status = "conflict" => InJournal(r.ent)
    BY <1>2, <1>3, FirstAnswers
  <2> QED  BY <1>1, <1>3, <2>1 DEF Accepted
<1>4. CASE outcomes[k] # Nil
  <2>1. /\ outcomes[k].res.status # "duplicate"
        /\ outcomes[k].res.status # "rejected" => outcomes[k].res.ver # 0
        /\ outcomes[k].res.status = "conflict" => InJournal(outcomes[k].req.ent)
    BY <1>4 DEF JInv, Recorded, Keys
  <2>2. outcomes[k].res \in Answer
    BY <1>4 DEF IInv, TypeOK
  <2>3. CASE outcomes[k].req = r
    <3>1. a = Replayed(outcomes[k].res)
      BY <1>2, <1>4, <2>3 DEF Answers
    <3>2. a.ver = outcomes[k].res.ver
      BY <2>2, <3>1 DEF Replayed, Answer
    <3>3. a.status = IF outcomes[k].res.status = "applied" THEN "duplicate" ELSE outcomes[k].res.status
      BY <2>2, <3>1 DEF Replayed, Answer
    <3> QED  BY <1>1, <1>4, <2>1, <2>3, <3>2, <3>3 DEF Accepted
  <2>4. CASE outcomes[k].req # r
    <3>1. a = Reply("rejected", "mutation_id_reused", 0, Nil)
      BY <1>2, <1>4, <2>4 DEF Answers
    <3> QED  BY <1>1, <1>4, <2>4, <3>1 DEF Reply, Accepted
  <2> QED  BY <2>3, <2>4
<1> QED  BY <1>3, <1>4

LEMMA FollowServeCall ==
    ASSUME IInv, IInv', JInv, ServeCall
    PROVE  JInv'
<1>1. PICK k, r : k = First(call.todo) /\ r = call.todo[k]
  OBVIOUS
<1>2. PICK a \in Answers(r) :
        /\ Handle(r, a)
        /\ call' = [todo |-> [call.todo EXCEPT ![k] = Nil],
                    answers |-> [call.answers EXCEPT ![k] = a]]
  BY <1>1 DEF ServeCall
<1>3. /\ pc = "await" /\ Keys(call.todo) # {}
      /\ UNCHANGED <<device, pc, attempts, boot, page, orphans, taps, webs, faults, history>>
  BY DEF ServeCall
<1>4. /\ k \in Tap /\ r # Nil /\ call \in Call
      /\ call.todo \in Queue /\ call.answers \in [Tap -> Answer \cup {Nil}]
  <2>1. call \in Call
    BY <1>3 DEF IInv, TypeOK
  <2>2. k \in Keys(call.todo)
    BY <1>1, <1>3, FirstTap DEF First, Keys
  <2> QED  BY <1>1, <2>1, <2>2 DEF Keys, Call
<1>5. call # Nil
  BY <1>4, CallNotNil
<1>6. r \in Body /\ r = outbox[k].body /\ outbox[k] # Nil
  BY <1>1, <1>4, <1>5 DEF IInv, InFlight, Queue, Sending, Keys
<1>7. Named(k, r) /\ Drafted(k, r)
  BY <1>4, <1>6 DEF IInv, Naming, Keys, Drafted
<1>8. /\ pc \notin Reading
      /\ \A j \in Tap, m \in Body : Late(j, m)' => Late(j, m)
      /\ UNCHANGED <<device, pc, taps, webs, history>>
      /\ UNCHANGED <<boot, page>>
  BY <1>3 DEF Reading, Late
<1>9. /\ Moves
      /\ \A e \in Entity \ cancelled : rows[e] = Nil /\ InJournal(e) => rows'[e] = Nil
      /\ DraftsStand' /\ Recorded' /\ FailuresTold' /\ Quiet' /\ Unseen'
      /\ outcomes'[k] # Nil /\ \A j \in Tap : outcomes[j] # Nil => outcomes'[j] = outcomes[j]
  BY <1>2, <1>4, <1>6, <1>7, <1>8, HandleStands
<1>10. Seen' /\ Doomed' /\ Listing' /\ Pages' /\ Follows'
  BY <1>8, <1>9, DeviceFollows
<1>11. /\ a.status = "rejected" =>
            outcomes'[k].res.status = "rejected" \/ outcomes'[k].req # r
       /\ a.status # "rejected" => a.ver # 0
       /\ a.status = "conflict" => InJournal(r.ent)
       /\ a.status \in Accepted =>
            /\ outcomes'[k].res.status = "applied"
            /\ outcomes'[k].req = r
            /\ outcomes'[k].res.ver = a.ver
  BY <1>2, <1>4, <1>6, <1>7, <1>8, AnswerTold
<1>12. AnswersTold'
  <2>0. \A x : InJournal(x) => InJournal(x)'
    BY <1>9, InJournalStays DEF Moves
  <2>1. outbox' = outbox
    BY <1>3 DEF device
  <2>2. ASSUME NEW j \in Tap, call'.answers[j] # Nil, NEW b, b = call'.answers[j]
        PROVE  /\ outcomes'[j] # Nil
               /\ b.status = "rejected" => Denied(j)'
               /\ b.status # "rejected" => b.ver # 0
               /\ b.status = "conflict" => InJournal(outbox[j].body.ent)'
               /\ b.status \in Accepted =>
                    /\ outcomes'[j].res.status = "applied"
                    /\ outcomes'[j].req = outbox[j].body
                    /\ outcomes'[j].res.ver = b.ver
    <3>1. CASE j = k
      <4>1. b = a
        BY <1>2, <1>4, <2>2, <3>1
      <4>2. InJournal(r.ent) => InJournal(outbox[j].body.ent)'
        <5>1. InJournal(r.ent) => InJournal(r.ent)'
          BY <2>0
        <5> QED  BY <1>6, <2>1, <3>1, <5>1 DEF InJournal
      <4> QED  BY <1>6, <1>9, <1>11, <2>1, <3>1, <4>1, <4>2 DEF Denied
    <3>2. CASE j # k
      <4>1. b = call.answers[j]
        BY <1>2, <1>4, <2>2, <3>2
      <4>2. /\ outcomes[j] # Nil
            /\ b.status = "rejected" => Denied(j)
            /\ b.status # "rejected" => b.ver # 0
            /\ b.status = "conflict" => InJournal(outbox[j].body.ent)
            /\ b.status \in Accepted =>
                 /\ outcomes[j].res.status = "applied"
                 /\ outcomes[j].req = outbox[j].body
                 /\ outcomes[j].res.ver = b.ver
        BY <1>5, <2>2, <4>1 DEF JInv, AnswersTold
      <4>3. InJournal(outbox[j].body.ent) => InJournal(outbox[j].body.ent)'
        BY <1>9, <2>1 DEF InJournal, Moves, Grows
      <4> QED  BY <1>9, <2>1, <4>2, <4>3 DEF Denied
    <3> QED  BY <3>1, <3>2
  <2> QED  BY <2>1, <2>2 DEF AnswersTold
<1>13. RowsJournaled'
  BY <1>9 DEF Moves
<1> QED  BY <1>9, <1>10, <1>12, <1>13 DEF JInv

LEMMA FollowServeOrphan ==
    ASSUME IInv, IInv', JInv, NEW todo, ServeOrphan(todo)
    PROVE  JInv'
<1>1. PICK k, r : k = First(todo) /\ r = todo[k]
  OBVIOUS
<1>2. PICK a \in Answers(r) : Handle(r, a)
  BY <1>1 DEF ServeOrphan
<1> DEFINE rest == [todo EXCEPT ![k] = Nil]
<1>3. /\ todo \in orphans
      /\ orphans' = (orphans \ {todo}) \cup (IF Keys(rest) = {} THEN {} ELSE {rest})
      /\ UNCHANGED <<device, pc, call, boot, page, taps, webs, faults, history>>
  BY <1>1 DEF ServeOrphan, run
<1>4. /\ todo \in Queue /\ Keys(todo) # {}
      /\ \A j \in Keys(todo) : Named(j, todo[j])
  BY <1>3 DEF IInv, TypeOK, Naming
<1>5. k \in Tap /\ r \in Body /\ Named(k, r)
  <2>1. k \in Keys(todo)
    BY <1>1, <1>4, FirstTap DEF First, Keys
  <2> QED  BY <1>1, <1>4, <2>1 DEF Keys, Queue
<1>6. Late(k, r) /\ Drafted(k, r)
  BY <1>1, <1>3 DEF Late, Drafted
<1>7. \A j \in Tap, m \in Body : Late(j, m)' => Late(j, m)
  <2>1. ASSUME NEW j \in Tap, NEW m \in Body, rest[j] = m PROVE todo[j] = m
    <3>1. m # Nil
      BY BodyNotNil
    <3> QED  BY <1>4, <2>1, <3>1 DEF Queue
  <2> HIDE DEF rest
  <2> QED  BY <1>3, <2>1 DEF Late
<1>8. /\ UNCHANGED <<device, pc, taps, webs, history>>
      /\ UNCHANGED <<boot, page>>
  BY <1>3
<1>9. /\ Moves
      /\ \A e \in Entity \ cancelled : rows[e] = Nil /\ InJournal(e) => rows'[e] = Nil
      /\ DraftsStand' /\ Recorded' /\ FailuresTold' /\ Quiet' /\ Unseen'
      /\ \A j \in Tap : outcomes[j] # Nil => outcomes'[j] = outcomes[j]
  BY <1>2, <1>5, <1>6, <1>7, <1>8, HandleStands
<1>10. Seen' /\ Doomed' /\ Listing' /\ Pages' /\ Follows'
  BY <1>8, <1>9, DeviceFollows
<1>11. AnswersTold'
  <2>1. ASSUME NEW j \in Tap, InJournal(outbox[j].body.ent)
        PROVE  InJournal(outbox[j].body.ent)'
    BY <1>3, <1>9, <2>1 DEF InJournal, Moves, Grows, device
  <2> QED  BY <1>3, <1>9, <2>1 DEF JInv, AnswersTold, Denied, device
<1>12. RowsJournaled'
  BY <1>9 DEF Moves
<1> QED  BY <1>9, <1>10, <1>11, <1>12 DEF JInv

LEMMA FollowWebWrite ==
    ASSUME IInv, IInv', JInv, NEW e \in Entity, NEW v \in Value \cup {Nil}, WebWrite(e, v)
    PROVE  JInv'
<1>0. PICK ver : ver = IF rows[e] = Nil THEN 1 ELSE rows[e].ver + 1
  OBVIOUS
<1> DEFINE c == [ent |-> e, ver |-> ver, val |-> v]
           row == IF v = Nil THEN Nil ELSE [ver |-> ver, val |-> v]
<1>1. /\ webs < MaxWeb
      /\ rows[e] = Nil => Fresh(e)
      /\ rows' = [rows EXCEPT ![e] = row] /\ journal' = Append(journal, c)
      /\ UNCHANGED <<outcomes, device, pc, call, boot, page, orphans, taps, history>>
  BY <1>0 DEF WebWrite, run
<1>2. ver \in Version /\ ver # 0
  <2>1. ver \in Version
    BY <1>0, <1>1, WebVersion DEF IInv
  <2>2. rows[e] # Nil => rows[e].ver \in Nat
    BY RowVersion DEF JInv
  <2> QED  BY <1>0, <2>1, <2>2
<1>3. c \in Change /\ c.ver # 0 /\ c.ent = e /\ c.val = v
  BY <1>2 DEF Change
<1>4. row = Nil <=> v = Nil
  <2>1. v # Nil => [ver |-> ver, val |-> v] \in [ver : Version, val : Value]
    BY <1>2
  <2> QED  BY <2>1, RowNotNil
<1>5. row # Nil => row.ver = ver /\ row.val = v
  OBVIOUS
<1>6. c.ver = ver
  OBVIOUS
<1> HIDE DEF c, row
<1>7. /\ Moves /\ Changes(c.ent) /\ rows'[c.ent] = row
      /\ \A o \in Entity : Changes(o) => o = c.ent
  BY <1>1, <1>3, <1>4, <1>5, <1>6, Publishing DEF IInv, JInv
<1>8. \A o \in Entity \ cancelled : rows[o] = Nil /\ InJournal(o) => rows'[o] = Nil
  <2>1. \A o \in Entity \ {e} : rows'[o] = rows[o]
    BY <1>1 DEF IInv, TypeOK
  <2>2. rows[e] = Nil => ~ InJournal(e)
    BY <1>1 DEF Fresh, InJournal
  <2> QED  BY <2>1, <2>2
<1>9. Grows /\ \A o : InJournal(o) => InJournal(o)'
  BY <1>7, InJournalStays DEF Moves
<1>10. /\ \A j \in Tap : \A m : Late(j, m)' <=> Late(j, m)
       /\ \A j \in Tap : \A m : Drafted(j, m)' <=> Drafted(j, m)
       /\ UNCHANGED <<outbox, cursor, outcomes, orphans, pc, call, taps, cancelled, deletedHere>>
  BY <1>1 DEF Late, Drafted, device, history
<1>11. DraftsStand'
  <2>1. ASSUME NEW j \in Tap, NEW m \in Body, Drafted(j, m)'
        PROVE  DraftStands(j, m)'
    <3>1. Drafted(j, m) /\ DraftStands(j, m)
      BY <1>10, <2>1 DEF JInv, DraftsStand
    <3>2. m.ent \in Entity /\ m # Nil
      BY BodyNotNil DEF Body
    <3>3. m.base = 0 /\ m.ent \notin cancelled /\ outcomes[j] = Nil => ~ InJournal(m.ent)'
      <4>1. SUFFICES ASSUME m.base = 0, m.ent \notin cancelled, outcomes[j] = Nil, InJournal(m.ent)'
                     PROVE  FALSE
        OBVIOUS
      <4>2. ~ InJournal(m.ent)
        BY <3>1, <4>1 DEF DraftStands
      <4>3. m.ent = e
        BY <1>3, <1>7, <3>2, <4>1, <4>2 DEF Moves
      <4>4. Fresh(e)
        BY <1>1, <4>2, <4>3 DEF JInv, RowsJournaled
      <4> QED  BY <3>1, <3>2, <4>3, <4>4 DEF Fresh, Drafted, Late, Keys
    <3> QED  BY <1>9, <1>10, <3>1, <3>3 DEF DraftStands
  <2> QED  BY <2>1 DEF DraftsStand
<1>12. Recorded'
  <2>1. ASSUME NEW j \in Keys(outcomes), outcomes[j].res.status = "applied",
               outcomes[j].req.op = "delete", outcomes[j].req.ent \notin cancelled
        PROVE  rows'[outcomes[j].req.ent] = Nil
    <3>1. rows[outcomes[j].req.ent] = Nil
      BY <2>1 DEF JInv, Recorded
    <3>2. outcomes[j].req.ent \in Entity
      BY DEF IInv, TypeOK, Body, Keys
    <3>3. InJournal(outcomes[j].req.ent)
      BY <2>1, PublishedInJournal DEF IInv, Counted, Backed, Accepted
    <3> QED  BY <1>8, <2>1, <3>1, <3>2, <3>3
  <2>2. ASSUME NEW j \in Tap, InJournal(outcomes[j].req.ent)
        PROVE  InJournal(outcomes[j].req.ent)'
    BY <1>9, <1>10, <2>2 DEF InJournal, Grows
  <2> QED  BY <1>10, <2>1, <2>2 DEF JInv, Recorded, Keys
<1>13. FailuresTold' /\ AnswersTold'
  <2>1. ASSUME NEW j \in Tap, InJournal(outbox[j].body.ent)
        PROVE  InJournal(outbox[j].body.ent)'
    BY <1>9, <1>10, <2>1 DEF InJournal, Grows
  <2> QED  BY <1>10, <2>1 DEF JInv, FailuresTold, AnswersTold, Denied, Keys
<1>14. Quiet'
  BY <1>10 DEF JInv, Quiet, Sending, Denied, Keys
<1>15. Unseen'
  <2>1. ASSUME NEW j \in Keys(outbox), outcomes[j] # Nil, ~ Denied(j), outcomes[j].res.status = "applied",
               NEW m, m = outbox[j].body
        PROVE  Behind(m.ent)' \/ rows'[m.ent] = [ver |-> outcomes[j].res.ver, val |-> m.val]
    <3>1. m.ent \in Entity
      BY <2>1 DEF IInv, TypeOK, OutboxRow, Keys, Body
    <3>2. CASE Changes(m.ent)
      BY <1>10, <3>2, ChangeBehind
    <3>3. CASE rows'[m.ent] = rows[m.ent]
      <4>1. Behind(m.ent) \/ rows[m.ent] = [ver |-> outcomes[j].res.ver, val |-> m.val]
        BY <2>1 DEF JInv, Unseen
      <4>2. Behind(m.ent) => Behind(m.ent)'
        BY <1>9, <1>10 DEF Behind, Grows
      <4> QED  BY <3>3, <4>1, <4>2
    <3> QED  BY <1>7, <3>1, <3>2, <3>3 DEF Moves
  <2> QED  BY <1>10, <2>1 DEF Unseen, Denied, Keys
<1>16. Seen' /\ Doomed' /\ Listing' /\ Pages' /\ Follows'
  <2>1. UNCHANGED <<device, pc, boot, page, history>>
    BY <1>1
  <2> QED  BY <1>7, <1>8, <2>1, DeviceFollows
<1>17. RowsJournaled'
  BY <1>7 DEF Moves
<1> QED  BY <1>11, <1>12, <1>13, <1>14, <1>15, <1>16, <1>17 DEF JInv

-----------------------------------------------------------------------------
(* Steps of the run that change statuses only *)

LEMMA RunFollows ==
    ASSUME IInv, IInv', JInv,
           UNCHANGED <<server, local, conflicts, cursor, taps, history>>,
           \A k \in Tap :
              /\ outbox'[k] = Nil <=> outbox[k] = Nil
              /\ outbox[k] # Nil => /\ outbox'[k].body = outbox[k].body
                                    /\ outbox'[k].status = "failed" <=> outbox[k].status = "failed",
           \A k \in Tap, m \in Body : Late(k, m)' => Drafted(k, m),
           UNCHANGED <<boot, page>> \/ (boot' = Nil /\ page' = Nil),
           pc' \in {"bootstrap", "rebootstrap"} => cursor = Nil
    PROVE  /\ RowsJournaled' /\ DraftsStand' /\ Recorded' /\ FailuresTold'
           /\ Seen' /\ Unseen' /\ Doomed' /\ Listing' /\ Pages' /\ Follows'
<1> USE DEF server, history
<1>1. /\ UNCHANGED <<rows, outcomes, journal, local, conflicts, cursor, taps>>
      /\ UNCHANGED <<deletedHere, cancelled, listedAt>>
  OBVIOUS
<1>2. Keys(outbox)' = Keys(outbox) /\ \A k \in Keys(outbox) :
        k \in Tap /\ outbox'[k].body = outbox[k].body
        /\ (outbox'[k].status = "failed" <=> outbox[k].status = "failed")
  BY DEF Keys
<1>3. \A e : EntriesOf(e)' = EntriesOf(e) /\ EvidenceOf(e)' = EvidenceOf(e)
  BY <1>1, <1>2 DEF EntriesOf, EvidenceOf
<1>4. \A e : /\ HasIntent(e)' <=> HasIntent(e)
             /\ InJournal(e)' <=> InJournal(e)
             /\ Behind(e)' <=> Behind(e)
             /\ Mirrors(e)' <=> Mirrors(e)
  BY <1>1, <1>3 DEF HasIntent, InJournal, Behind, Mirrors
<1>5. \A k \in Keys(outbox) : Denied(k)' <=> Denied(k)
  BY <1>1, <1>2 DEF Denied
<1>6. RowsJournaled' /\ Recorded'
  BY <1>1 DEF JInv, RowsJournaled, InJournal, Newest, Describes, Recorded, Keys
<1>7. \A k \in Tap, m \in Body : Drafted(k, m)' => Drafted(k, m)
  BY <1>2 DEF Drafted, Keys
<1>8. DraftsStand'
  <2>1. ASSUME NEW k \in Tap, NEW m \in Body, Drafted(k, m)'
        PROVE  DraftStands(k, m)'
    <3>1. Drafted(k, m) /\ DraftStands(k, m)
      BY <1>7, <2>1 DEF JInv, DraftsStand
    <3> QED  BY <1>1, <1>4, <1>7, <3>1 DEF DraftStands
  <2> QED  BY <2>1 DEF DraftsStand
<1>9. FailuresTold'
  BY <1>1, <1>2, <1>5 DEF JInv, FailuresTold
<1>10. Unseen'
  BY <1>1, <1>2, <1>4, <1>5 DEF JInv, Unseen
<1>11. Seen' /\ Doomed' /\ Follows'
  <2>1. Seen'
    BY <1>1, <1>4 DEF JInv, Seen, SeenOf
  <2>2. Follows'
    BY <1>1, <1>4 DEF JInv, Follows
  <2>3. Doomed'
    BY <1>1, <1>2, <1>3 DEF JInv, Doomed, EntriesOf
  <2> QED  BY <2>1, <2>2, <2>3
<1>12. Listing' /\ Pages'
  <2>1. CASE boot' = Nil /\ page' = Nil
    BY <2>1 DEF Listing, Pages
  <2>2. CASE UNCHANGED <<boot, page>>
    <3>1. \A e : Still(e)' <=> Still(e)
      BY <1>1, <2>2 DEF Still
    <3>2. Listing'
      BY <1>1, <1>4, <2>2, <3>1 DEF JInv, Listing, Brought
    <3>3. Pages'
      BY <1>1, <2>2, <3>1 DEF JInv, Pages, Listed
    <3> QED  BY <3>2, <3>3
  <2> QED  BY <2>1, <2>2
<1> QED  BY <1>6, <1>8, <1>9, <1>10, <1>11, <1>12

\* Requests nobody waits for carry what the outbox does.
LEMMA OrphansDrafted ==
    ASSUME IInv, orphans' = Orphaned, NEW k \in Tap, NEW m \in Body, Late(k, m)'
    PROVE  Drafted(k, m)
<1>1. PICK q \in orphans' : q[k] = m
  BY DEF Late
<1>2. CASE q \in orphans
  BY <1>1, <1>2 DEF Drafted, Late
<1>3. CASE call # Nil /\ q = call.todo
  <2>1. call.todo[k] # Nil
    BY <1>1, <1>3, BodyNotNil
  <2>2. call.todo[k] = outbox[k].body /\ k \in Sending(outbox)
    BY <1>3, <2>1 DEF IInv, InFlight
  <2> QED  BY <1>1, <1>3, <2>2 DEF Drafted, Sending, Keys
<1> QED  BY <1>1, <1>2, <1>3 DEF Orphaned

LEMMA NothingSending ==
    ASSUME IInv, outbox' = Requeued(outbox)
    PROVE  Sending(outbox)' = {}
<1>1. outbox \in [Tap -> OutboxRow \cup {Nil}]
  BY DEF IInv, TypeOK
<1>2. ASSUME NEW k \in Tap, outbox'[k] # Nil, outbox'[k].status = "sending" PROVE FALSE
  <2>1. CASE k \in Sending(outbox)
    <3>1. outbox'[k] = [outbox[k] EXCEPT !.status = "queued"]
      BY <2>1 DEF Requeued
    <3>2. outbox[k] \in OutboxRow
      BY <1>1, <2>1 DEF Sending, Keys
    <3> QED  BY <1>2, <3>1, <3>2 DEF OutboxRow
  <2>2. CASE k \notin Sending(outbox)
    <3>1. outbox'[k] = outbox[k]
      BY <2>2 DEF Requeued
    <3> QED  BY <1>2, <2>2, <3>1 DEF Sending, Keys
  <2> QED  BY <2>1, <2>2
<1> QED  BY <1>2 DEF Sending, Keys

LEMMA FollowStartSync ==
    ASSUME IInv, IInv', JInv, StartSync \/ Requeue
    PROVE  JInv'
<1>1. /\ outbox' = Requeued(outbox) /\ pc' \in {"claim", "idle"} /\ pc # "await"
      /\ UNCHANGED <<server, local, conflicts, cursor, taps, history>>
      /\ UNCHANGED <<call, boot, page, orphans>>
  BY DEF StartSync, Requeue, SyncUnchanged, UserUnchanged, history
<1>2. \A k \in Tap :
        /\ outbox'[k] = Nil <=> outbox[k] = Nil
        /\ outbox[k] # Nil => /\ outbox'[k].body = outbox[k].body
                              /\ outbox'[k].status = "failed" <=> outbox[k].status = "failed"
  BY <1>1, Requeueing
<1>3. \A k \in Tap, m \in Body : Late(k, m)' => Drafted(k, m)
  BY <1>1 DEF Late, Drafted
<1>4. UNCHANGED <<boot, page>> /\ pc' \notin {"bootstrap", "rebootstrap"}
  BY <1>1
<1>5. /\ RowsJournaled' /\ DraftsStand' /\ Recorded' /\ FailuresTold'
      /\ Seen' /\ Unseen' /\ Doomed' /\ Listing' /\ Pages' /\ Follows'
  BY <1>1, <1>2, <1>3, <1>4, RunFollows
<1>6. AnswersTold'
  BY <1>1, NoCall DEF AnswersTold
<1>7. Quiet'
  BY <1>1, NothingSending DEF Quiet, Reading
<1> QED  BY <1>5, <1>6, <1>7 DEF JInv

LEMMA FewerOrphans ==
    ASSUME IInv, IInv', JInv, UNCHANGED <<server, device, run, taps, history>>,
           orphans' \subseteq orphans
    PROVE  JInv'
<1>1. UNCHANGED <<server, device, run, taps, history>> /\ orphans' \subseteq orphans
  OBVIOUS
<1>2. /\ UNCHANGED <<server, local, conflicts, cursor, taps, history>>
      /\ UNCHANGED <<outcomes, outbox, call, pc, boot, page>>
  BY <1>1 DEF server, device, run
<1>3. \A k \in Tap, m \in Body : Late(k, m)' => Late(k, m)
  BY <1>1 DEF Late
<1>4. \A k \in Tap, m \in Body : Late(k, m)' => Drafted(k, m)
  BY <1>3 DEF Drafted
<1>5. /\ UNCHANGED <<boot, page>>
      /\ \A k \in Tap :
            /\ outbox'[k] = Nil <=> outbox[k] = Nil
            /\ outbox[k] # Nil => /\ outbox'[k].body = outbox[k].body
                                  /\ outbox'[k].status = "failed" <=> outbox[k].status = "failed"
      /\ pc' \in {"bootstrap", "rebootstrap"} => cursor = Nil
  BY <1>2 DEF JInv, Pages
<1>6. /\ RowsJournaled' /\ DraftsStand' /\ Recorded' /\ FailuresTold'
      /\ Seen' /\ Unseen' /\ Doomed' /\ Listing' /\ Pages' /\ Follows'
  BY <1>2, <1>4, <1>5, RunFollows
<1>7. AnswersTold'
  BY <1>2 DEF JInv, AnswersTold, Denied, InJournal, server
<1>8. Quiet'
  BY <1>2, <1>3 DEF JInv, Quiet, Sending, Keys, Denied
<1> QED  BY <1>6, <1>7, <1>8 DEF JInv

LEMMA FollowDropOrphan ==
    ASSUME IInv, IInv', JInv, NEW todo, DropOrphan(todo)
    PROVE  JInv'
<1>1. UNCHANGED <<server, device, run, taps, history>> /\ orphans' \subseteq orphans
  BY DEF DropOrphan
<1> QED  BY <1>1, FewerOrphans

LEMMA FollowClaim ==
    ASSUME IInv, IInv', JInv, Claim
    PROVE  JInv'
<1> DEFINE queued == {k \in Keys(outbox) : outbox[k].status = "queued"}
           batch == {k \in queued : Cardinality({j \in queued : j <= k}) <= BatchSize}
           claimed == [k \in Tap |->
                         IF k \in batch THEN [outbox[k] EXCEPT !.status = "sending"]
                                        ELSE outbox[k]]
<1>1. /\ pc = "claim"
      /\ UNCHANGED <<server, local, conflicts, cursor, taps, history>>
      /\ UNCHANGED <<boot, page, orphans>>
  BY DEF Claim, SyncUnchanged, UserUnchanged, history
<1>2. call = Nil
  BY <1>1, NoCall
<1>3. \A k \in Tap, m \in Body : Late(k, m)' => Drafted(k, m)
  BY <1>1 DEF Late, Drafted
<1>4. UNCHANGED <<boot, page>>
  BY <1>1
<1>5. outbox \in [Tap -> OutboxRow \cup {Nil}]
  BY DEF IInv, TypeOK
<1>6. CASE queued = {}
  <2>1. /\ pc' = (IF cursor = Nil THEN "bootstrap" ELSE "pull")
        /\ UNCHANGED <<outbox, call>>
    BY <1>6 DEF Claim
  <2>2. pc' \in {"bootstrap", "rebootstrap"} => cursor = Nil
    BY <2>1
  <2>3. /\ RowsJournaled' /\ DraftsStand' /\ Recorded' /\ FailuresTold'
        /\ Seen' /\ Unseen' /\ Doomed' /\ Listing' /\ Pages' /\ Follows'
    <3>1. \A k \in Tap :
            /\ outbox'[k] = Nil <=> outbox[k] = Nil
            /\ outbox[k] # Nil => /\ outbox'[k].body = outbox[k].body
                                  /\ outbox'[k].status = "failed" <=> outbox[k].status = "failed"
      BY <2>1
    <3> QED  BY <1>1, <1>3, <1>4, <2>2, <3>1, RunFollows
  <2>4. Sending(outbox) = {}
    BY <1>1 DEF JInv, Quiet
  <2>5. ASSUME NEW k \in Keys(outbox) PROVE outcomes[k] # Nil /\ Denied(k)
    <3>1. outbox[k] \in OutboxRow
      BY <1>5 DEF Keys
    <3>2. outbox[k].status = "failed"
      BY <1>6, <2>4, <3>1 DEF Sending, OutboxRow
    <3> QED  BY <3>2 DEF JInv, FailuresTold
  <2>6. Quiet'
    BY <1>1, <2>1, <2>4, <2>5 DEF Quiet, Sending, Keys, Denied, server
  <2>7. AnswersTold'
    BY <1>2, <2>1 DEF AnswersTold
  <2> QED  BY <2>3, <2>6, <2>7 DEF JInv
<1>7. CASE queued # {}
  <2>1. outbox' = claimed /\ call' = Fetch(claimed) /\ pc' = "await"
    BY <1>7 DEF Claim
  <2>2. ASSUME NEW k \in Tap
        PROVE  /\ outbox'[k] = Nil <=> outbox[k] = Nil
               /\ outbox[k] # Nil => /\ outbox'[k].body = outbox[k].body
                                     /\ outbox'[k].status = "failed" <=> outbox[k].status = "failed"
    <3>1. CASE k \in batch
      <4>1. outbox'[k] = [outbox[k] EXCEPT !.status = "sending"]
        BY <2>1, <3>1
      <4>2. outbox[k] \in OutboxRow /\ outbox[k].status = "queued"
        BY <1>5, <3>1 DEF Keys
      <4>3. outbox'[k] \in OutboxRow /\ outbox'[k].status = "sending" /\ outbox'[k].body = outbox[k].body
        BY <4>1, <4>2 DEF OutboxRow
      <4> QED  BY <4>2, <4>3, OutboxNotNil
    <3>2. CASE k \notin batch
      BY <2>1, <3>2
    <3> QED  BY <3>1, <3>2
  <2>3. /\ RowsJournaled' /\ DraftsStand' /\ Recorded' /\ FailuresTold'
        /\ Seen' /\ Unseen' /\ Doomed' /\ Listing' /\ Pages' /\ Follows'
    BY <1>1, <1>3, <1>4, <2>1, <2>2, RunFollows
  <2>4. \A k \in Tap : call'.answers[k] = Nil
    BY <2>1 DEF Fetch
  <2> QED  BY <2>1, <2>3, <2>4 DEF JInv, AnswersTold, Quiet, Reading
<1> QED  BY <1>6, <1>7

LEMMA FollowLoseCall ==
    ASSUME IInv, IInv', JInv, LoseCall \/ Crash
    PROVE  JInv'
<1>1. /\ UNCHANGED <<server, local, conflicts, cursor, taps, history>>
      /\ UNCHANGED outbox
      /\ orphans' = Orphaned
      /\ UNCHANGED <<boot, page>> \/ (boot' = Nil /\ page' = Nil)
      /\ pc' \in {"await", "requeue", "idle"}
      /\ call' = Nil \/ call' = Fetch(outbox)
  BY DEF LoseCall, Crash, SyncUnchanged, UserUnchanged, history, device
<1>2. \A k \in Tap, m \in Body : Late(k, m)' => Drafted(k, m)
  BY <1>1, OrphansDrafted
<1>3. \A k \in Tap :
        /\ outbox'[k] = Nil <=> outbox[k] = Nil
        /\ outbox[k] # Nil => /\ outbox'[k].body = outbox[k].body
                              /\ outbox'[k].status = "failed" <=> outbox[k].status = "failed"
  BY <1>1
<1>4. pc' \notin {"bootstrap", "rebootstrap"}
  BY <1>1
<1>5. /\ RowsJournaled' /\ DraftsStand' /\ Recorded' /\ FailuresTold'
      /\ Seen' /\ Unseen' /\ Doomed' /\ Listing' /\ Pages' /\ Follows'
  BY <1>1, <1>2, <1>3, <1>4, RunFollows
<1>6. AnswersTold'
  BY <1>1 DEF AnswersTold, Fetch
<1>7. Quiet'
  BY <1>1 DEF Quiet, Reading
<1> QED  BY <1>5, <1>6, <1>7 DEF JInv

-----------------------------------------------------------------------------
(* Steps that read pages *)

\* Whatever the cursor does, nothing queued was applied unnoticed.
LEMMA ReadingFollows ==
    ASSUME IInv, JInv, pc \in Reading, pc' \in Reading \cup {"idle"},
           UNCHANGED <<server, outbox, conflicts, call, orphans, taps>>,
           UNCHANGED <<deletedHere, cancelled>>
    PROVE  /\ RowsJournaled' /\ DraftsStand' /\ Recorded' /\ FailuresTold'
           /\ AnswersTold' /\ Quiet' /\ Unseen' /\ Doomed'
<1> USE DEF server
<1>1. UNCHANGED <<rows, outcomes, journal>>
  OBVIOUS
<1>2. /\ \A e : InJournal(e)' <=> InJournal(e)
      /\ \A k, m : Late(k, m)' <=> Late(k, m)
      /\ \A k, m : Drafted(k, m)' <=> Drafted(k, m)
      /\ \A k : Denied(k)' <=> Denied(k)
      /\ Keys(outbox)' = Keys(outbox) /\ Sending(outbox)' = Sending(outbox)
  BY <1>1 DEF InJournal, Late, Drafted, Denied, Keys, Sending
<1>3. RowsJournaled' /\ Recorded' /\ FailuresTold' /\ AnswersTold'
  <2>1. RowsJournaled' /\ Recorded'
    BY <1>1, <1>2 DEF JInv, RowsJournaled, InJournal, Newest, Describes, Recorded, Keys
  <2>2. FailuresTold' /\ AnswersTold'
    BY <1>1, <1>2 DEF JInv, InJournal, FailuresTold, AnswersTold
  <2> QED  BY <2>1, <2>2
<1>4. DraftsStand'
  BY <1>1, <1>2 DEF JInv, DraftsStand, DraftStands
<1>5. Quiet'
  BY <1>1, <1>2 DEF JInv, Quiet
<1>6. Unseen'
  BY <1>1, <1>2 DEF JInv, Quiet, Unseen
<1>7. Doomed'
  BY <1>1, <1>2 DEF JInv, Doomed, EntriesOf, EvidenceOf
<1> QED  BY <1>3, <1>4, <1>5, <1>6, <1>7

LEMMA FollowFetchBootstrap ==
    ASSUME IInv, IInv', JInv, FetchBootstrap
    PROVE  JInv'
<1> DEFINE ahead == {e \in Entity : e > BootTokens.last /\ rows[e] # Nil}
           ids == {e \in ahead : Cardinality({o \in ahead : o <= e}) <= PageSize}
           listed == [e \in ids |-> [ent |-> e, ver |-> rows[e].ver, val |-> rows[e].val]]
<1>1. /\ pc \in {"bootstrap", "rebootstrap"} /\ page = Nil /\ BootTokens.more
      /\ page' = [next |-> Nil, more |-> TRUE, changes |-> listed]
      /\ boot' = [BootTokens EXCEPT !.last = IF ids = {} THEN @ ELSE Max(ids),
                                    !.more = ids # ahead]
      /\ UNCHANGED <<server, local, outbox, conflicts, cursor, pc, call, orphans, taps, history>>
  BY DEF FetchBootstrap, SyncUnchanged, UserUnchanged, history, device
<1> USE DEF server, history
<1>2. /\ RowsJournaled' /\ DraftsStand' /\ Recorded' /\ FailuresTold'
      /\ AnswersTold' /\ Quiet' /\ Unseen' /\ Doomed'
  BY <1>1, ReadingFollows DEF Reading
<1>3. \A e : /\ HasIntent(e)' <=> HasIntent(e)
             /\ InJournal(e)' <=> InJournal(e)
             /\ Behind(e)' <=> Behind(e)
             /\ Mirrors(e)' <=> Mirrors(e)
  BY <1>1 DEF HasIntent, EntriesOf, EvidenceOf, InJournal, Behind, Mirrors, Keys
<1>4. Seen' /\ Follows'
  BY <1>1, <1>3 DEF JInv, Seen, SeenOf, Follows
<1>5. BootTokens \in [high : Nat, last : Entity \cup {0}, more : BOOLEAN]
  BY DEF BootTokens, IInv, TypeOK
<1>6. PICK last, more :
        /\ last = IF ids = {} THEN BootTokens.last ELSE Max(ids)
        /\ more = (ids # ahead)
  OBVIOUS
<1>7. /\ ids \subseteq ahead /\ ahead \subseteq Entity /\ ahead \subseteq Nat
      /\ IsFiniteSet(ids) /\ IsFiniteSet(ahead)
      /\ Entity \subseteq Nat /\ 0 \notin Entity
  BY MobileSyncAssumption, FS_Subset
<1>8. DOMAIN listed = ids
  OBVIOUS
<1>9. \A e \in ids : rows[e] # Nil /\ listed[e] = [ent |-> e, ver |-> rows[e].ver, val |-> rows[e].val]
  BY <1>7
<1>10. ids # {} => Max(ids) \in ids /\ \A e \in ids : e <= Max(ids)
  BY <1>7, MaxIs
<1>11. ASSUME NEW e \in ahead, NEW m \in ids, e <= m PROVE e \in ids
  <2>1. {o \in ahead : o <= e} \subseteq {o \in ahead : o <= m}
    BY <1>7, <1>11
  <2>2. /\ IsFiniteSet({o \in ahead : o <= m})
        /\ {o \in ahead : o <= m} \subseteq ahead
    BY <1>7, FS_Subset
  <2>3. /\ Cardinality({o \in ahead : o <= e}) <= Cardinality({o \in ahead : o <= m})
        /\ IsFiniteSet({o \in ahead : o <= e})
    BY <2>1, <2>2, FS_Subset
  <2>4. /\ Cardinality({o \in ahead : o <= e}) \in Nat
        /\ Cardinality({o \in ahead : o <= m}) \in Nat
    BY <2>2, <2>3, FS_CardinalityType
  <2>5. Cardinality({o \in ahead : o <= m}) <= PageSize
    OBVIOUS
  <2>6. PageSize \in Nat
    BY MobileSyncAssumption
  <2>7. Cardinality({o \in ahead : o <= e}) <= PageSize
    BY <2>3, <2>4, <2>5, <2>6
  <2> QED  BY <2>7
<1>12. \A e \in Entity : rows[e] # Nil /\ e > BootTokens.last => e \in ahead
  OBVIOUS
<1>13. \A e \in ahead : e > BootTokens.last
  OBVIOUS
<1> HIDE DEF ahead, ids, listed
<1>14. boot'.high = BootTokens.high /\ boot'.last = last /\ boot'.more = more /\ boot' # Nil
  <2>1. last \in Entity \cup {0} /\ more \in BOOLEAN
    BY <1>5, <1>6, <1>7, <1>10
  <2>2. boot' = [BootTokens EXCEPT !.last = last, !.more = more]
    BY <1>1, <1>5, <1>6
  <2>3. boot' = [high |-> BootTokens.high, last |-> last, more |-> more]
    BY <1>5, <2>2
  <2>4. boot' \in [high : Nat, last : Entity \cup {0}, more : BOOLEAN]
    BY <1>5, <2>1, <2>3
  <2> QED  BY <2>3, <2>4, BootNotNil
<1>15. page'.changes = listed /\ page'.next = Nil /\ page' # Nil
  <2>1. listed \in [ids -> Change]
    <3>1. ASSUME NEW e \in ids PROVE e \in Entity /\ rows[e] \in [ver : Version, val : Value]
      <4>1. e \in Entity /\ rows[e] # Nil
        BY <1>7, <1>9
      <4> QED  BY <4>1 DEF IInv, TypeOK
    <3>2. ASSUME NEW e \in ids PROVE listed[e] \in Change
      <4>1. /\ listed[e] = [ent |-> e, ver |-> rows[e].ver, val |-> rows[e].val]
            /\ e \in Entity /\ rows[e].ver \in Version /\ rows[e].val \in Value
        BY <1>9, <3>1
      <4> QED  BY <4>1 DEF Change
    <3> QED  BY <1>8, <3>2 DEF listed
  <2>2. page' \in [changes : [ids -> Change], next : {Nil}, more : BOOLEAN]
    BY <1>1, <2>1
  <2>3. ids \in SUBSET Entity
    BY <1>7
  <2> QED  BY <1>1, <2>2, <2>3, PageNotNil
<1>16. Pages'
  <2>1. ASSUME NEW e \in ids PROVE e \in Entity /\ Listed(e)'
    BY <1>1, <1>7, <1>9, <1>15 DEF Listed
  <2>2. pc' \in {"bootstrap", "rebootstrap"} => cursor' = Nil
    BY <1>1 DEF JInv, Pages
  <2> QED  BY <1>8, <1>14, <1>15, <2>1, <2>2 DEF Pages
<1>17. Listing'
  <2>1. ASSUME NEW e \in Entity \ cancelled, rows[e] # Nil, Still(e)'
        PROVE  Brought(e)'
    <3>1. e \in Nat /\ e # 0 /\ last \in Nat /\ BootTokens.last \in Nat /\ BootTokens.last <= last
      <4>1. e \in Nat /\ e # 0 /\ BootTokens.last \in Nat
        <5>1. BootTokens.last \in Entity \cup {0}
          BY <1>5
        <5>2. BootTokens.last \in Nat
          <6>1. \A x \in Entity \cup {0} : x \in Nat
            BY <1>7
          <6> QED  BY <5>1, <6>1
        <5>3. e \in Entity
          BY <2>1
        <5> QED  BY <1>7, <5>2, <5>3
      <4>2. CASE ids = {}
        BY <1>6, <4>1, <4>2
      <4>3. CASE ids # {}
        <5>1. last \in ids /\ last \in Nat /\ last > BootTokens.last
          BY <1>6, <1>7, <1>10, <1>13, <4>3
        <5> QED  BY <4>1, <5>1
      <4> QED  BY <4>1, <4>2, <4>3
    <3>2. CASE e > BootTokens.last
      <4>1. e \in ahead
        BY <1>12, <2>1, <3>2
      <4>2. more \/ e <= last
        BY <1>6, <1>10, <4>1
      <4>3. e <= last => e \in ids
        <5>1. SUFFICES ASSUME e <= last PROVE e \in ids
          OBVIOUS
        <5>2. ids # {} /\ last \in ids
          BY <1>6, <1>10, <3>1, <3>2, <5>1
        <5> QED  BY <1>11, <4>1, <5>1, <5>2
      <4> QED  BY <1>8, <1>14, <1>15, <4>2, <4>3 DEF Brought
    <3>3. CASE e <= BootTokens.last
      <4>1. boot # Nil /\ BootTokens = boot
        BY <3>1, <3>3 DEF BootTokens
      <4>2. Still(e)
        BY <1>1, <1>14, <2>1, <4>1 DEF Still
      <4>3. HasIntent(e) \/ Mirrors(e)
        BY <1>1, <2>1, <3>3, <4>1, <4>2 DEF JInv, Listing, Brought
      <4>4. e <= last
        BY <3>1, <3>3
      <4> QED  BY <1>3, <1>14, <4>3, <4>4 DEF Brought
    <3> QED  BY <3>1, <3>2, <3>3
  <2> QED  BY <1>1, <2>1 DEF Listing
<1> QED  BY <1>2, <1>4, <1>16, <1>17 DEF JInv

LEMMA FollowEstablishCursor ==
    ASSUME IInv, IInv', JInv, EstablishCursor
    PROVE  JInv'
<1>1. /\ boot # Nil /\ page = Nil /\ ~ boot.more
      /\ cursor' = boot.high /\ listedAt' = boot.high /\ boot' = Nil
      /\ pc' \in {"pull", "repull"}
      /\ UNCHANGED <<server, local, outbox, conflicts, call, page, orphans, taps>>
      /\ UNCHANGED <<deletedHere, cancelled>>
  BY DEF EstablishCursor, UserUnchanged
<1> USE DEF server
<1>2. boot.high \in Nat /\ pc \in {"bootstrap", "rebootstrap"}
  BY <1>1 DEF IInv, TypeOK, Paging
<1>3. /\ RowsJournaled' /\ DraftsStand' /\ Recorded' /\ FailuresTold'
      /\ AnswersTold' /\ Quiet' /\ Unseen' /\ Doomed'
  BY <1>1, <1>2, ReadingFollows DEF Reading
<1>4. \A e : /\ HasIntent(e)' <=> HasIntent(e)
             /\ InJournal(e)' <=> InJournal(e)
  BY <1>1 DEF HasIntent, EntriesOf, EvidenceOf, InJournal, Keys
<1>5. Seen'
  BY <1>1, <1>4 DEF JInv, Seen, SeenOf
<1>6. Listing' /\ Pages'
  BY <1>1 DEF Listing, Pages
<1>7. Follows'
  <2>1. ASSUME NEW e \in Entity \ cancelled, ~ Behind(e)', ~ HasIntent(e)
        PROVE  Mirrors(e)'
    <3>1. Still(e)
      BY <1>1, <2>1 DEF Behind, Still
    <3>2. CASE rows[e] # Nil
      <4>1. Mirrors(e)
        BY <1>1, <2>1, <3>1, <3>2 DEF JInv, Listing, Brought
      <4> QED  BY <1>1, <3>2, <4>1 DEF Mirrors
    <3>3. CASE rows[e] = Nil /\ local[e] # Nil
      <4>1. SeenOf(e)
        BY <3>3 DEF JInv, Seen
      <4>2. InJournal(e)
        BY <2>1, <4>1 DEF SeenOf
      <4>3. PICK i \in DOMAIN journal : journal[i].ent = e /\ journal[i].val = Nil
        BY <3>3, <4>2, Tombstone DEF IInv, JInv
      <4>4. i \in Nat /\ i >= 1
        BY JournalTyped DEF IInv
      <4>5. i <= boot.high
        BY <1>2, <3>1, <4>3, <4>4 DEF Still
      <4>6. i \in 1..boot.high
        BY <1>2, <4>4, <4>5
      <4> QED  BY <1>1, <3>3, <4>3, <4>6 DEF Mirrors
    <3>4. CASE rows[e] = Nil /\ local[e] = Nil
      BY <1>1, <3>4 DEF Mirrors
    <3> QED  BY <3>2, <3>3, <3>4
  <2> QED  BY <1>1, <1>4, <2>1 DEF Follows
<1> QED  BY <1>3, <1>5, <1>6, <1>7 DEF JInv

LEMMA FollowFetchPull ==
    ASSUME IInv, IInv', JInv, FetchPull
    PROVE  JInv'
<1>1. PICK last : last = Min({cursor + PageSize, Len(journal)})
  OBVIOUS
<1> DEFINE news == [i \in cursor + 1 .. last |-> journal[i]]
<1>2. /\ pc \in {"pull", "repull"}
      /\ page' = [changes |-> news, next |-> last, more |-> last < Len(journal)]
      /\ UNCHANGED <<server, local, outbox, conflicts, cursor, pc, call, boot, orphans, taps, history>>
  BY <1>1 DEF FetchPull, SyncUnchanged, UserUnchanged, history, device
<1> USE DEF server, history
<1>3. /\ RowsJournaled' /\ DraftsStand' /\ Recorded' /\ FailuresTold'
      /\ AnswersTold' /\ Quiet' /\ Unseen' /\ Doomed'
  BY <1>2, ReadingFollows DEF Reading
<1>4. \A e : /\ HasIntent(e)' <=> HasIntent(e)
             /\ InJournal(e)' <=> InJournal(e)
             /\ Behind(e)' <=> Behind(e)
             /\ Mirrors(e)' <=> Mirrors(e)
  BY <1>2 DEF HasIntent, EntriesOf, EvidenceOf, InJournal, Behind, Mirrors, Keys
<1>5. Seen' /\ Follows'
  BY <1>2, <1>4 DEF JInv, Seen, SeenOf, Follows
<1>6. cursor \in Nat /\ Len(journal) \in Nat /\ boot = Nil
  BY <1>2 DEF IInv, TypeOK, Paging
<1>7. last # Nil
  <2>1. PageSize \in Nat /\ cursor + PageSize \in Nat
    BY <1>6, MobileSyncAssumption
  <2>2. last \in Nat
    BY <1>1, <1>6, <2>1, LeastOfTwo
  <2> QED  BY <2>2, Constants
<1>8. /\ DOMAIN news = cursor + 1 .. last
      /\ \A i \in DOMAIN news : news[i] = journal[i]
  OBVIOUS
<1> HIDE DEF news
<1>9. Pages' /\ Listing'
  BY <1>2, <1>6, <1>7, <1>8 DEF Pages, Listing
<1> QED  BY <1>3, <1>5, <1>9 DEF JInv

LEMMA FollowCursorRefused ==
    ASSUME IInv, IInv', JInv, CursorRefused
    PROVE  JInv'
<1>1. /\ pc = "pull" /\ page = Nil /\ cursor' = Nil /\ pc' = "rebootstrap"
      /\ UNCHANGED <<server, local, outbox, conflicts, call, boot, page, orphans, taps, history>>
  BY DEF CursorRefused, SyncUnchanged, UserUnchanged, history
<1> USE DEF server, history
<1>2. /\ RowsJournaled' /\ DraftsStand' /\ Recorded' /\ FailuresTold'
      /\ AnswersTold' /\ Quiet' /\ Unseen' /\ Doomed'
  BY <1>1, ReadingFollows DEF Reading
<1>3. \A e : /\ HasIntent(e)' <=> HasIntent(e)
             /\ InJournal(e)' <=> InJournal(e)
  BY <1>1 DEF HasIntent, EntriesOf, EvidenceOf, InJournal, Keys
<1>4. Seen'
  BY <1>1, <1>3 DEF JInv, Seen, SeenOf
<1>5. boot = Nil
  BY <1>1 DEF IInv, Paging
<1>6. Pages' /\ Listing' /\ Follows'
  BY <1>1, <1>5 DEF Pages, Listing, Follows, Behind
<1> QED  BY <1>2, <1>4, <1>6 DEF JInv

\* A page writes what the server had, over rows without local intent.
LEMMA FollowApplyPage ==
    ASSUME IInv, IInv', JInv, ApplyPage
    PROVE  JInv'
<1>1. /\ page # Nil /\ page' = Nil /\ local' = Apply(page.changes)
      /\ cursor' = IF page.next = Nil THEN cursor ELSE page.next
      /\ pc' = IF page.more THEN pc ELSE "idle"
      /\ UNCHANGED <<server, outbox, conflicts, call, boot, orphans, taps, history>>
  BY DEF ApplyPage, SyncUnchanged, UserUnchanged, history
<1> USE DEF server, history
<1>2. /\ pc \in Reading /\ pc' \in {pc, "idle"}
      /\ page.next = Nil <=> pc \in {"bootstrap", "rebootstrap"}
      /\ page.next = Nil => page.more /\ cursor = Nil
      /\ page.next # Nil => boot = Nil
  BY <1>1 DEF IInv, Paging, Reading, JInv, Pages
<1>3. /\ RowsJournaled' /\ DraftsStand' /\ Recorded' /\ FailuresTold'
      /\ AnswersTold' /\ Quiet' /\ Unseen' /\ Doomed'
  BY <1>1, <1>2, ReadingFollows
<1>4. \A e : /\ HasIntent(e)' <=> HasIntent(e)
             /\ InJournal(e)' <=> InJournal(e)
  BY <1>1 DEF HasIntent, EntriesOf, EvidenceOf, InJournal, Keys
<1>5. ASSUME NEW e \in Entity
      PROVE  \/ local'[e] = local[e]
             \/ /\ local[e] # Nil => local[e].status = "synced"
                /\ local'[e] = Nil \/ /\ local'[e] \in LocalRow /\ local'[e].status = "synced"
                                      /\ Published(e, local'[e].ver, local'[e].val)
  <2>1. PICK row : row = Apply(page.changes)[e]
    OBVIOUS
  <2>2. \/ row = local[e]
        \/ /\ local[e] # Nil => local[e].status = "synced"
           /\ row = Nil \/ /\ row \in LocalRow /\ row.status = "synced"
                           /\ Published(e, row.ver, row.val)
    BY <1>1, <2>1, Applying
  <2> QED  BY <1>1, <2>1, <2>2
<1>6. Seen'
  <2>1. ASSUME NEW e \in Entity, local'[e] # Nil PROVE SeenOf(e)'
    <3>1. CASE local'[e] = local[e]
      BY <1>1, <1>4, <2>1, <3>1 DEF JInv, Seen, SeenOf
    <3>2. CASE local'[e].status = "synced" /\ Published(e, local'[e].ver, local'[e].val)
      <4>1. PICK ver, v : ver = local'[e].ver /\ v = local'[e].val
        OBVIOUS
      <4>2. ver # 0 /\ InJournal(e)
        BY <3>2, <4>1, PublishedVersion, PublishedInJournal DEF JInv
      <4> QED  BY <1>4, <3>2, <4>1, <4>2 DEF SeenOf
    <3> QED  BY <1>5, <2>1, <3>1, <3>2
  <2> QED  BY <1>1, <1>4, <2>1 DEF JInv, Seen
<1>7. \A e \in Entity : HasIntent(e) \/ local[e] = Nil \/ local[e].status = "synced"
  BY DEF JInv, Seen, SeenOf
<1>8. ASSUME NEW e \in Entity, local'[e] = local[e], Mirrors(e)
      PROVE  Mirrors(e)'
  BY <1>1, <1>8 DEF Mirrors
\* A change that describes the row as it is makes the replica mirror it.
<1>9. ASSUME NEW e \in Entity, NEW n, ~ HasIntent(e),
             n = Max({i \in DOMAIN page.changes : page.changes[i].ent = e}),
             {i \in DOMAIN page.changes : page.changes[i].ent = e} # {},
             IF rows[e] = Nil THEN page.changes[n].val = Nil
             ELSE page.changes[n].ver = rows[e].ver /\ page.changes[n].val = rows[e].val
      PROVE  Mirrors(e)'
  <2>1. PICK row : row = Apply(page.changes)[e]
    OBVIOUS
  <2>2. row = Received(page.changes[n].ver, page.changes[n].val)
    BY <1>7, <1>9, <2>1 DEF Apply
  <2>3. local'[e] = row
    BY <1>1, <2>1
  <2>4. CASE rows[e] = Nil
    BY <1>1, <1>9, <2>2, <2>3, <2>4 DEF Received, Mirrors
  <2>5. CASE rows[e] # Nil
    <3>1. rows[e].val # Nil
      BY <2>5, Constants DEF IInv, TypeOK
    <3> QED  BY <1>1, <1>9, <2>2, <2>3, <2>5, <3>1 DEF Received, Mirrors
  <2> QED  BY <2>4, <2>5
<1>10. ASSUME NEW e \in Entity, {i \in DOMAIN page.changes : page.changes[i].ent = e} = {}
       PROVE  local'[e] = local[e]
  <2>1. PICK row : row = Apply(page.changes)[e]
    OBVIOUS
  <2>2. row = local[e]
    BY <1>10, <2>1 DEF Apply
  <2> QED  BY <1>1, <2>1, <2>2
<1>11. Pages'
  BY <1>1, <1>2 DEF Pages
<1>12. Listing'
  <2>1. ASSUME NEW e \in Entity \ cancelled, boot # Nil, rows[e] # Nil, Still(e)
        PROVE  Brought(e)'
    <3>1. Brought(e) /\ page.next = Nil
      BY <1>2, <2>1 DEF JInv, Listing
    <3>2. \A i \in DOMAIN page.changes : i \in Entity /\ Listed(i)
      BY <1>1, <3>1 DEF JInv, Pages
    <3>3. CASE HasIntent(e)
      BY <1>1, <1>4, <3>1, <3>3 DEF Brought
    <3>4. CASE ~ HasIntent(e) /\ e \in DOMAIN page.changes
      <4>1. {i \in DOMAIN page.changes : page.changes[i].ent = e} = {e}
        <5>1. \A i \in DOMAIN page.changes : page.changes[i].ent = i
          BY <3>2 DEF Listed
        <5> QED  BY <3>4, <5>1
      <4>2. PICK n : n = Max({i \in DOMAIN page.changes : page.changes[i].ent = e})
        OBVIOUS
      <4>3. n = e
        <5>1. e \in Nat /\ {e} \in SUBSET Nat /\ IsFiniteSet({e}) /\ {e} # {}
          BY Constants, FS_Singleton
        <5>2. Max({e}) \in {e}
          BY <5>1, MaxIs
        <5> QED  BY <4>1, <4>2, <5>2
      <4>4. page.changes[n].ver = rows[e].ver /\ page.changes[n].val = rows[e].val
        <5>1. Listed(e)
          BY <3>2, <3>4
        <5>2. page.changes[e] = [ent |-> e, ver |-> rows[e].ver, val |-> rows[e].val]
          BY <2>1, <5>1 DEF Listed
        <5> QED  BY <4>3, <5>2
      <4>5. Mirrors(e)'
        BY <1>9, <2>1, <3>4, <4>1, <4>2, <4>4
      <4> QED  BY <1>1, <3>1, <4>5 DEF Brought
    <3>5. CASE ~ HasIntent(e) /\ e \notin DOMAIN page.changes
      <4>1. {i \in DOMAIN page.changes : page.changes[i].ent = e} = {}
        <5>1. \A i \in DOMAIN page.changes : page.changes[i].ent = i
          BY <3>2 DEF Listed
        <5> QED  BY <3>5, <5>1
      <4>2. local'[e] = local[e]
        BY <1>10, <4>1
      <4>3. e <= boot.last => Mirrors(e)'
        BY <1>8, <3>1, <3>5, <4>2 DEF Brought
      <4> QED  BY <1>1, <3>1, <4>3 DEF Brought
    <3> QED  BY <3>3, <3>4, <3>5
  <2>2. \A e : Still(e)' <=> Still(e)
    BY <1>1 DEF Still
  <2> QED  BY <1>1, <2>1, <2>2 DEF Listing
<1>13. Follows'
  <2>1. CASE page.next = Nil
    BY <1>1, <1>2, <2>1 DEF Follows, Behind
  <2>2. CASE page.next # Nil
    <3>1. /\ cursor' = page.next /\ cursor \in Nat /\ page.next \in Nat /\ cursor' # Nil
          /\ page.next <= Len(journal) /\ Len(journal) \in Nat /\ DOMAIN journal = 1..Len(journal)
      BY <1>1, <1>2, <2>2, JournalTyped, Constants DEF IInv, TypeOK, Paging, Reading
    <3>2. /\ DOMAIN page.changes = cursor + 1 .. page.next
          /\ \A i \in DOMAIN page.changes : i \in DOMAIN journal /\ page.changes[i] = journal[i]
      <4>1. /\ DOMAIN page.changes = cursor + 1 .. page.next
            /\ \A i \in DOMAIN page.changes : page.changes[i] = journal[i]
        BY <1>1, <2>2 DEF JInv, Pages
      <4> QED  BY <3>1, <4>1
    <3>3. ASSUME NEW e \in Entity \ cancelled, ~ Behind(e)', ~ HasIntent(e)
          PROVE  Mirrors(e)'
      <4>1. \A i \in DOMAIN journal : journal[i].ent = e => i <= page.next
        <5>1. \A i \in DOMAIN journal : i \in Nat /\ (journal[i].ent = e => ~ (i > page.next))
          BY <1>1, <3>1, <3>3 DEF Behind
        <5> QED  BY <3>1, <5>1
      <4>2. PICK mine : mine = {i \in DOMAIN page.changes : page.changes[i].ent = e}
        OBVIOUS
      <4>3. CASE mine = {}
        <5>1. ~ Behind(e)
          <6>1. SUFFICES ASSUME NEW i \in DOMAIN journal, i > cursor, journal[i].ent = e
                         PROVE  FALSE
            BY <3>1, Constants DEF Behind
          <6>2. i \in cursor + 1 .. page.next
            BY <3>1, <4>1, <6>1
          <6> QED  BY <3>2, <4>2, <4>3, <6>1, <6>2
        <5>2. Mirrors(e)
          BY <3>3, <5>1 DEF JInv, Follows
        <5>3. local'[e] = local[e]
          BY <1>10, <4>2, <4>3
        <5> QED  BY <1>8, <5>2, <5>3
      <4>4. CASE mine # {}
        <5>1. PICK n : n = Max(mine)
          OBVIOUS
        <5>2. n \in mine /\ \A i \in mine : i <= n
          <6>1. /\ cursor + 1 .. page.next \subseteq Nat
                /\ IsFiniteSet(cursor + 1 .. page.next)
            <7>1. cursor + 1 \in Int /\ page.next \in Int /\ cursor + 1 \in Nat
              BY <3>1
            <7>2. IsFiniteSet(cursor + 1 .. page.next)
              BY <7>1, FS_Interval
            <7> QED  BY <7>1, <7>2
          <6>2. mine \in SUBSET Nat /\ IsFiniteSet(mine)
            BY <3>2, <4>2, <6>1, FS_Subset
          <6> QED  BY <4>4, <5>1, <6>2, MaxIs
        <5>3. /\ n \in DOMAIN journal /\ page.changes[n] = journal[n] /\ journal[n].ent = e
              /\ n \in Nat /\ n >= cursor + 1
          BY <3>1, <3>2, <4>2, <5>2
        <5>4. Newest(n)
          <6>1. ASSUME NEW j \in DOMAIN journal, journal[j].ent = e PROVE j <= n
            <7>1. j \in Nat /\ j <= page.next
              BY <3>1, <4>1, <6>1
            <7>2. CASE j >= cursor + 1
              BY <3>1, <3>2, <4>2, <5>2, <6>1, <7>1, <7>2
            <7>3. CASE ~ (j >= cursor + 1)
              BY <3>1, <5>3, <7>1, <7>3
            <7> QED  BY <7>2, <7>3
          <6> QED  BY <5>3, <6>1 DEF Newest
        <5>5. Describes(n)
          BY <5>3, <5>4 DEF JInv, RowsJournaled
        <5>6. IF rows[e] = Nil THEN page.changes[n].val = Nil
              ELSE page.changes[n].ver = rows[e].ver /\ page.changes[n].val = rows[e].val
          BY <5>3, <5>5 DEF Describes
        <5>7. /\ n = Max({i \in DOMAIN page.changes : page.changes[i].ent = e})
              /\ {i \in DOMAIN page.changes : page.changes[i].ent = e} # {}
          BY <4>2, <4>4, <5>1
        <5> QED  BY <1>9, <3>3, <5>6, <5>7
      <4> QED  BY <4>3, <4>4
    <3> QED  BY <1>1, <1>4, <3>3 DEF Follows
  <2> QED  BY <2>1, <2>2
<1> QED  BY <1>3, <1>6, <1>11, <1>12, <1>13 DEF JInv

-----------------------------------------------------------------------------
(* Steps of the user *)

\* What a tap does to the mutations of e: it rewrites one that waits, adds one,
\* or removes them.
Rewrites(e, k) ==
    /\ k \in EntriesOf(e) /\ outbox'[k] # Nil
    /\ outbox[k].body.op = "upsert" /\ outbox'[k].body.op = "upsert"
    /\ outbox'[k].body.ent = e /\ outbox'[k].body.base = outbox[k].body.base
    /\ outbox'[k].body.at = taps + 1 /\ outbox'[k].status = "queued"

Adds(e, k) ==
    /\ k = taps + 1 /\ outbox'[k] # Nil
    /\ outbox'[k].body.ent = e
    /\ outbox'[k].body.at = taps + 1 /\ outbox'[k].status = "queued"
    /\ \/ Fresh(e) /\ outbox'[k].body.op = "upsert" /\ outbox'[k].body.base = 0
       \/ InJournal(e) /\ outbox'[k].body.base # 0

Removes(e, k) == k \in EntriesOf(e) /\ outbox'[k] = Nil

Touches(e, k) == k \notin Sending(outbox) /\ (Rewrites(e, k) \/ Adds(e, k) \/ Removes(e, k))

LEMMA UserFollows ==
    ASSUME IInv, IInv', JInv, NEW e \in Entity,
           UNCHANGED <<server, cursor, run, orphans, listedAt>>, taps' = taps + 1,
           taps + 1 \in Tap,
           \A o \in Entity \ {e} : local'[o] = local[o],
           \A k \in Tap : outbox'[k] = outbox[k] \/ Touches(e, k),
           conflicts' \subseteq conflicts, \A c \in conflicts \ conflicts' : c.ent = e,
           cancelled' \in {cancelled, cancelled \cup {e}},
           deletedHere' \in {deletedHere, deletedHere \cup {e}},
           HasIntent(e)' \/ e \in cancelled',
           local'[e] # Nil => SeenOf(e)',
           e \in deletedHere' => InJournal(e),
           e \in deletedHere' \ cancelled' =>
              \/ rows[e] = Nil
              \/ \E k \in EntriesOf(e)' : outbox'[k].body.op = "delete"
              \/ \E c \in EvidenceOf(e)' : c.lval = Nil
    PROVE  JInv'
<1> USE DEF server, run
<1>1. /\ UNCHANGED <<rows, outcomes, journal, cursor, orphans, listedAt>>
      /\ UNCHANGED <<pc, call, boot, page>>
  OBVIOUS
<1>2. /\ taps \in Nat /\ ~ (taps + 1 <= taps)
      /\ \A x \in Tap : x <= taps => x <= taps + 1
      /\ \A k \in Tap : k = taps + 1 => outcomes[k] = Nil /\ outbox[k] = Nil /\ \A m \in Body : ~ Late(k, m)
  <2>1. /\ taps \in Nat /\ ~ (taps + 1 <= taps)
        /\ \A x \in Tap : x <= taps => x <= taps + 1
    BY Constants DEF IInv, TypeOK
  <2>2. \A k \in Tap : k = taps + 1 => outcomes[k] = Nil /\ outbox[k] = Nil
    BY <2>1 DEF IInv, Naming, Named, Keys
  <2>3. ASSUME NEW k \in Tap, k = taps + 1, NEW m \in Body, Late(k, m) PROVE FALSE
    <3>1. PICK q \in orphans : q[k] = m
      BY <2>3 DEF Late
    <3>2. k \in Keys(q)
      BY <3>1, BodyNotNil DEF Keys
    <3> QED  BY <2>1, <2>3, <3>2 DEF IInv, Naming, Named
  <2> QED  BY <2>1, <2>2, <2>3
<1>3. ASSUME NEW o \in Entity, o # e
      PROVE  /\ EntriesOf(o)' = EntriesOf(o) /\ EvidenceOf(o)' = EvidenceOf(o)
             /\ \A k \in EntriesOf(o) : outbox'[k] = outbox[k]
             /\ o \in deletedHere' => o \in deletedHere
             /\ o \in cancelled' <=> o \in cancelled
             /\ local'[o] = local[o]
  <2>1. ASSUME NEW k \in Tap, k \in EntriesOf(o) \/ k \in EntriesOf(o)'
        PROVE  outbox'[k] = outbox[k]
    <3>1. ~ Rewrites(e, k) /\ ~ Removes(e, k)
      BY <1>3, <2>1 DEF Rewrites, Removes, EntriesOf, Keys
    <3>2. ~ Adds(e, k)
      BY <1>2, <1>3, <2>1 DEF Adds, EntriesOf, Keys
    <3> QED  BY <3>1, <3>2 DEF Touches
  <2>2. EntriesOf(o)' = EntriesOf(o) /\ \A k \in EntriesOf(o) : outbox'[k] = outbox[k]
    BY <2>1 DEF EntriesOf, Keys
  <2>3. EvidenceOf(o)' = EvidenceOf(o)
    BY <1>3 DEF EvidenceOf
  <2> QED  BY <1>3, <2>2, <2>3
<1>4. \A o : /\ InJournal(o)' <=> InJournal(o)
             /\ Behind(o)' <=> Behind(o)
             /\ local'[o] = local[o] => (Mirrors(o)' <=> Mirrors(o))
             /\ Still(o)' <=> Still(o)
  BY <1>1 DEF InJournal, Behind, Mirrors, Still
<1>5. \A o \in Entity : o # e => (HasIntent(o)' <=> HasIntent(o))
  BY <1>3 DEF HasIntent
<1>6. ASSUME NEW j \in Tap, NEW n \in Body, Drafted(j, n)'
      PROVE  \/ Drafted(j, n)
             \/ n = outbox'[j].body /\ (Rewrites(e, j) \/ Adds(e, j))
  BY <1>1, <1>6 DEF Drafted, Late, Touches, Removes
<1>7. \A j \in Tap : Rewrites(e, j) => outbox[j].body \in Body /\ Drafted(j, outbox[j].body)
                                       /\ outbox[j].body.ent = e
  BY DEF Rewrites, EntriesOf, Keys, Drafted, IInv, TypeOK, OutboxRow
<1>8. cancelled \subseteq cancelled' /\ deletedHere \subseteq deletedHere'
  OBVIOUS
<1>9. RowsJournaled' /\ Recorded'
  <2>1. RowsJournaled'
    BY <1>1 DEF JInv, RowsJournaled, InJournal, Newest, Describes
  <2>2. ASSUME NEW k \in Keys(outcomes)
        PROVE  /\ outcomes[k].req.at <= taps + 1
               /\ outcomes[k].res.status # "duplicate"
               /\ outcomes[k].res.status # "rejected" => outcomes[k].res.ver # 0
               /\ outcomes[k].res.status = "conflict" => InJournal(outcomes[k].req.ent)
               /\ /\ outcomes[k].res.status = "applied"
                  /\ outcomes[k].req.op = "delete"
                  /\ outcomes[k].req.ent \notin cancelled'
                  => rows[outcomes[k].req.ent] = Nil
    <3>1. outcomes[k].req.at \in Tap
      BY DEF IInv, TypeOK, Body, Keys
    <3> QED  BY <1>2, <1>8, <3>1 DEF JInv, Recorded
  <2> QED  BY <1>1, <2>1, <2>2 DEF Recorded, InJournal, Keys
<1>10. DraftsStand'
  <2>1. ASSUME NEW k \in Tap, NEW m \in Body, Drafted(k, m)'
        PROVE  /\ m.at <= taps + 1
               /\ m.base # 0 => InJournal(m.ent)
               /\ m.op = "delete" =>
                    /\ m.base # 0
                    /\ \A n \in Body : Drafted(k, n)' => n = m
                    /\ outcomes[k] # Nil => outcomes[k].req = m
               /\ m.base = 0 /\ m.ent \notin cancelled' =>
                    /\ outcomes[k] = Nil => ~ InJournal(m.ent)
                    /\ \A j \in Tap, n \in Body :
                         Drafted(j, n)' /\ n.ent = m.ent /\ n.base = 0 => j = k
    <3>1. CASE Drafted(k, m)
      <4>1. DraftStands(k, m)
        BY <3>1 DEF JInv, DraftsStand
      <4>2. ASSUME m.op = "delete", NEW n \in Body, Drafted(k, n)' PROVE n = m
        <5>1. ~ Rewrites(e, k)
          <6>1. SUFFICES ASSUME Rewrites(e, k) PROVE FALSE
            OBVIOUS
          <6>2. outbox[k].body \in Body /\ Drafted(k, outbox[k].body)
            BY <1>7, <6>1
          <6>3. outbox[k].body = m
            BY <4>1, <4>2, <6>2 DEF DraftStands
          <6> QED  BY <4>2, <6>1, <6>3 DEF Rewrites
        <5>2. ~ Adds(e, k)
          BY <1>2, <3>1 DEF Adds, Drafted
        <5>3. Drafted(k, n)
          BY <1>6, <4>2, <5>1, <5>2
        <5> QED  BY <4>1, <4>2, <5>3 DEF DraftStands
      <4>3. ASSUME m.base = 0, m.ent \notin cancelled', NEW j \in Tap, NEW n \in Body,
                   Drafted(j, n)', n.ent = m.ent, n.base = 0
            PROVE  j = k
        <5>1. CASE Drafted(j, n)
          BY <1>8, <4>1, <4>3, <5>1 DEF DraftStands
        <5>2. CASE n = outbox'[j].body /\ Rewrites(e, j)
          <6>1. outbox[j].body \in Body /\ Drafted(j, outbox[j].body) /\ outbox[j].body.ent = e
            BY <1>7, <5>2
          <6>2. outbox[j].body.base = 0 /\ m.ent = e
            BY <4>3, <5>2 DEF Rewrites
          <6> QED  BY <1>8, <4>1, <4>3, <6>1, <6>2 DEF DraftStands
        <5>3. CASE n = outbox'[j].body /\ Adds(e, j)
          <6>1. Fresh(e) /\ m.ent = e
            BY <4>3, <5>3 DEF Adds
          <6> QED  BY <3>1, <6>1, BodyNotNil DEF Fresh, Drafted, Late, Keys
        <5> QED  BY <1>6, <4>3, <5>1, <5>2, <5>3
      <4>4. m.at \in Tap
        BY DEF Body
      <4> QED  BY <1>2, <1>8, <4>1, <4>2, <4>3, <4>4 DEF DraftStands
    <3>2. CASE m = outbox'[k].body /\ Rewrites(e, k)
      <4>1. /\ outbox[k].body \in Body /\ Drafted(k, outbox[k].body) /\ outbox[k].body.ent = e
            /\ outbox[k].body.base = m.base /\ m.at = taps + 1 /\ m.ent = e /\ m.op = "upsert"
        BY <1>7, <3>2 DEF Rewrites
      <4>2. DraftStands(k, outbox[k].body)
        BY <4>1 DEF JInv, DraftsStand
      <4>3. ASSUME m.base = 0, e \notin cancelled', NEW j \in Tap, NEW n \in Body,
                   Drafted(j, n)', n.ent = e, n.base = 0
            PROVE  j = k
        <5>1. CASE Drafted(j, n)
          BY <1>8, <4>1, <4>2, <4>3, <5>1 DEF DraftStands
        <5>2. CASE n = outbox'[j].body /\ Rewrites(e, j)
          <6>1. outbox[j].body \in Body /\ Drafted(j, outbox[j].body) /\ outbox[j].body.ent = e
            BY <1>7, <5>2
          <6>2. outbox[j].body.base = 0
            BY <4>3, <5>2 DEF Rewrites
          <6> QED  BY <1>8, <4>1, <4>2, <4>3, <6>1, <6>2 DEF DraftStands
        <5>3. CASE n = outbox'[j].body /\ Adds(e, j)
          <6>1. Fresh(e)
            BY <4>3, <5>3 DEF Adds
          <6> QED  BY <3>2, <6>1 DEF Fresh, Rewrites, EntriesOf
        <5> QED  BY <1>6, <4>3, <5>1, <5>2, <5>3
      <4>4. taps + 1 <= taps + 1
        BY <1>2
      <4> QED  BY <1>8, <4>1, <4>2, <4>3, <4>4 DEF DraftStands
    <3>3. CASE m = outbox'[k].body /\ Adds(e, k)
      <4>1. /\ k = taps + 1 /\ m.ent = e /\ m.at = taps + 1 /\ taps + 1 <= taps + 1
            /\ outcomes[k] = Nil /\ outbox[k] = Nil /\ \A n \in Body : ~ Late(k, n)
            /\ (Fresh(e) /\ m.op = "upsert" /\ m.base = 0) \/ (InJournal(e) /\ m.base # 0)
        BY <1>2, <3>3 DEF Adds
      <4>2. \A n \in Body : Drafted(k, n)' => n = m
        BY <1>6, <3>3, <4>1 DEF Drafted
      <4>3. ASSUME m.base = 0, NEW j \in Tap, NEW n \in Body, Drafted(j, n)', n.ent = e
            PROVE  j = k
        <5>1. Fresh(e)
          BY <4>1, <4>3
        <5>2. ~ Drafted(j, n)
          BY <4>3, <5>1, BodyNotNil DEF Fresh, Drafted, Late, Keys
        <5>3. ~ Rewrites(e, j)
          BY <5>1 DEF Fresh, Rewrites, EntriesOf
        <5> QED  BY <1>6, <4>1, <4>3, <5>2, <5>3 DEF Adds
      <4>4. m.base = 0 => ~ InJournal(e)
        BY <4>1 DEF Fresh, InJournal
      <4>5. m.op = "delete" => m.base # 0
        BY <4>1
      <4>6. m.base # 0 => InJournal(e)
        BY <4>1
      <4> QED  BY <4>1, <4>2, <4>3, <4>4, <4>5, <4>6
    <3> QED  BY <1>6, <2>1, <3>1, <3>2, <3>3
  <2>2. ASSUME NEW k \in Tap, NEW m \in Body, Drafted(k, m)' PROVE DraftStands(k, m)'
    BY <1>1, <1>4, <2>1, <2>2 DEF DraftStands
  <2> QED  BY <2>2 DEF DraftsStand
<1>11. FailuresTold'
  <2>1. ASSUME NEW k \in Keys(outbox)', outbox'[k].status = "failed"
        PROVE  outcomes[k] # Nil /\ Denied(k)'
    <3>1. k \in Tap /\ outbox'[k] = outbox[k]
      BY <2>1 DEF Keys, Touches, Rewrites, Adds, Removes
    <3> QED  BY <1>1, <2>1, <3>1 DEF JInv, FailuresTold, Denied, Keys
  <2> QED  BY <1>1, <2>1 DEF FailuresTold
<1>12. AnswersTold'
  <2>1. ASSUME call # Nil, NEW k \in Tap, call.answers[k] # Nil PROVE outbox'[k] = outbox[k]
    BY <2>1 DEF IInv, InFlight, Touches
  <2> QED  BY <1>1, <2>1 DEF JInv, AnswersTold, Denied, InJournal
<1>13. Seen'
  <2>1. ASSUME NEW o \in Entity, local'[o] # Nil PROVE SeenOf(o)'
    <3>1. CASE o = e
      BY <2>1, <3>1
    <3>2. CASE o # e
      <4>1. local'[o] = local[o] /\ (o \in deletedHere' => o \in deletedHere)
        BY <1>3, <3>2
      <4>2. SeenOf(o)
        BY <2>1, <4>1 DEF JInv, Seen
      <4> QED  BY <1>4, <1>5, <3>2, <4>1, <4>2 DEF SeenOf
    <3> QED  BY <3>1, <3>2
  <2>2. \A c \in conflicts' : c.ver # 0 /\ InJournal(c.ent)'
    BY <1>4 DEF JInv, Seen
  <2>3. \A o \in deletedHere' : InJournal(o)'
    BY <1>4 DEF JInv, Seen
  <2> QED  BY <2>1, <2>2, <2>3 DEF Seen
<1>14. Quiet'
  <2>1. ASSUME NEW k \in Sending(outbox)' PROVE k \in Sending(outbox)
    BY <2>1 DEF Sending, Keys, Touches, Rewrites, Adds, Removes
  <2>2. ASSUME pc \in Reading, NEW k \in Keys(outbox)'
        PROVE  IF outcomes[k] = Nil THEN \A m \in Body : ~ Late(k, m) ELSE Denied(k)'
    <3>1. CASE outbox'[k] = outbox[k]
      BY <1>1, <2>2, <3>1 DEF JInv, Quiet, Keys, Denied
    <3>2. CASE Rewrites(e, k)
      <4>1. k \in Keys(outbox)
        BY <3>2 DEF Rewrites, EntriesOf
      <4>2. outcomes[k] # Nil => outcomes[k].req # outbox'[k].body
        <5>1. outcomes[k] # Nil => outcomes[k].req.at <= taps
          BY <2>2 DEF JInv, Recorded, Keys
        <5> QED  BY <1>2, <3>2, <5>1 DEF Rewrites
      <4> QED  BY <1>1, <2>2, <4>1, <4>2 DEF JInv, Quiet, Denied
    <3>3. CASE Adds(e, k)
      BY <1>2, <2>2, <3>3 DEF Adds, Keys
    <3> QED  BY <2>2, <3>1, <3>2, <3>3 DEF Keys, Touches, Removes
  <2>3. \A k, m : Late(k, m)' <=> Late(k, m)
    BY <1>1 DEF Late
  <2>4. pc \in Reading \cup {"claim"} => Sending(outbox)' = {}
    BY <2>1 DEF JInv, Quiet
  <2> QED  BY <1>1, <2>2, <2>3, <2>4 DEF Quiet
<1>15. Unseen'
  <2>1. ASSUME NEW k \in Keys(outbox)', outcomes[k] # Nil, ~ Denied(k)', outcomes[k].res.status = "applied",
               NEW m, m = outbox'[k].body
        PROVE  Behind(m.ent) \/ rows[m.ent] = [ver |-> outcomes[k].res.ver, val |-> m.val]
    <3>1. CASE outbox'[k] = outbox[k]
      BY <1>1, <2>1, <3>1 DEF JInv, Unseen, Keys, Denied
    <3>2. CASE Rewrites(e, k)
      <4>1. outcomes[k].req # outbox'[k].body
        <5>1. outcomes[k].req.at <= taps
          BY <2>1 DEF JInv, Recorded, Keys
        <5> QED  BY <1>2, <3>2, <5>1 DEF Rewrites
      <4> QED  BY <1>1, <2>1, <4>1 DEF Denied
    <3>3. CASE Adds(e, k)
      BY <1>2, <2>1, <3>3 DEF Adds, Keys
    <3> QED  BY <2>1, <3>1, <3>2, <3>3 DEF Keys, Touches, Removes
  <2> QED  BY <1>1, <1>4, <2>1 DEF Unseen
<1>16. Doomed'
  <2>1. ASSUME NEW o \in deletedHere' \ cancelled'
        PROVE  \/ rows[o] = Nil
               \/ \E k \in EntriesOf(o)' : outbox'[k].body.op = "delete"
               \/ \E c \in EvidenceOf(o)' : c.lval = Nil
    <3>1. CASE o = e
      BY <2>1, <3>1
    <3>2. CASE o # e
      <4>1. o \in Entity
        BY <2>1 DEF IInv, TypeOK
      <4>2. o \in deletedHere \ cancelled
        BY <1>3, <2>1, <3>2, <4>1
      <4>3. \/ rows[o] = Nil
            \/ \E k \in EntriesOf(o) : outbox[k].body.op = "delete"
            \/ \E c \in EvidenceOf(o) : c.lval = Nil
        BY <4>2 DEF JInv, Doomed
      <4> QED  BY <1>3, <3>2, <4>1, <4>3
    <3> QED  BY <3>1, <3>2
  <2> QED  BY <1>1, <2>1 DEF Doomed
<1>17. Listing'
  <2>1. ASSUME NEW o \in Entity \ cancelled', boot # Nil, rows[o] # Nil, Still(o)
        PROVE  Brought(o)'
    <3>1. Brought(o)
      BY <1>8, <2>1 DEF JInv, Listing
    <3>2. HasIntent(o)' \/ (o # e /\ local'[o] = local[o])
      BY <2>1
    <3> QED  BY <1>1, <1>4, <1>5, <3>1, <3>2 DEF Brought
  <2> QED  BY <1>1, <1>4, <2>1 DEF Listing
<1>18. Pages'
  BY <1>1, <1>4 DEF JInv, Pages, Listed
<1>19. Follows'
  <2>1. ASSUME NEW o \in Entity \ cancelled' PROVE Behind(o)' \/ HasIntent(o)' \/ Mirrors(o)'
    <3>1. CASE o = e
      BY <2>1, <3>1
    <3>2. CASE o # e
      <4>1. Behind(o) \/ HasIntent(o) \/ Mirrors(o)
        BY <1>8 DEF JInv, Follows
      <4> QED  BY <1>4, <1>5, <3>2, <4>1
    <3> QED  BY <3>1, <3>2
  <2> QED  BY <2>1 DEF Follows
<1> QED  BY <1>9, <1>10, <1>11, <1>12, <1>13, <1>14, <1>15, <1>16, <1>17, <1>18, <1>19 DEF JInv

LEMMA FollowCreate ==
    ASSUME IInv, IInv', JInv, NEW e \in Entity, NEW v \in Value, Create(e, v)
    PROVE  JInv'
<1>1. /\ taps < MaxTaps /\ taps' = taps + 1 /\ Fresh(e)
      /\ UNCHANGED <<server, cursor, run, orphans, listedAt>>
      /\ local' = [local EXCEPT ![e] = [val |-> v, ver |-> 0, status |-> "pending"]]
      /\ outbox' = Enqueued(outbox, e, "upsert", 0, v)
      /\ UNCHANGED <<conflicts, deletedHere, cancelled>>
  BY DEF Create, Tapped, history
<1>2. /\ taps + 1 \in Tap /\ outbox[taps + 1] = Nil
      /\ \A k \in Tap \ {taps + 1} : outbox'[k] = outbox[k]
      /\ outbox'[taps + 1] # Nil /\ outbox'[taps + 1].status = "queued"
      /\ outbox'[taps + 1].body = [key |-> taps + 1, ent |-> e, op |-> "upsert",
                                   base |-> 0, val |-> v, at |-> taps + 1]
  <2>1. outbox \in [Tap -> OutboxRow \cup {Nil}] /\ 0 \in Version /\ v \in Value \cup {Nil}
    BY Constants DEF IInv, TypeOK
  <2> QED  BY <1>1, <2>1, Queueing
<1>3. /\ \A o \in Entity \ {e} : local'[o] = local[o]
      /\ local'[e] = [val |-> v, ver |-> 0, status |-> "pending"]
  BY <1>1 DEF IInv, TypeOK
<1>4. \A k \in Tap : outbox'[k] = outbox[k] \/ Touches(e, k)
  BY <1>1, <1>2 DEF Touches, Adds, Sending, Keys
<1>5. HasIntent(e)'
  BY <1>2 DEF HasIntent, EntriesOf, Keys
<1>6. e \notin deletedHere
  BY <1>1 DEF JInv, Seen, InJournal, Fresh
<1>7. SeenOf(e)'
  BY <1>1, <1>3, <1>5, <1>6 DEF SeenOf
<1> QED  BY <1>1, <1>2, <1>3, <1>4, <1>5, <1>6, <1>7, UserFollows

\* The one mutation of a row the user has not deleted here writes it.
LEMMA LatestUpserts ==
    ASSUME IInv, NEW e \in Entity \ deletedHere, local[e] # Nil, EntriesOf(e) # {}
    PROVE  outbox[Max(EntriesOf(e))].body.op = "upsert"
<1>1. EntriesOf(e) \in SUBSET Tap
  BY DEF EntriesOf, Keys
<1>2. PICK k \in EntriesOf(e) : k = Max(EntriesOf(e))
  BY <1>1, LastTap
<1>3. k \in Keys(outbox) /\ outbox[k] \in OutboxRow /\ local[e] \in LocalRow
  BY <1>2 DEF IInv, TypeOK, EntriesOf, Keys
<1>4. outbox[k].body.val = local[e].val /\ local[e].val # Nil
  BY <1>2, <1>3, Constants DEF IInv, IntentStands, Intent, LocalRow
<1>5. outbox[k].body.op # "delete" /\ outbox[k].body.op \in {"upsert", "delete"}
  BY <1>3, <1>4 DEF IInv, Naming, Named, OutboxRow, Body
<1> QED  BY <1>2, <1>5

LEMMA FollowEdit ==
    ASSUME IInv, IInv', JInv, NEW e \in Entity, NEW v \in Value, Edit(e, v)
    PROVE  JInv'
<1>0. PICK latest : latest = Max(EntriesOf(e))
  OBVIOUS
<1> DEFINE new == [body |-> [outbox[latest].body EXCEPT !.val = v, !.at = taps + 1],
                   status |-> "queued"]
<1>1. /\ taps < MaxTaps /\ taps' = taps + 1
      /\ UNCHANGED <<server, cursor, run, orphans, listedAt>>
      /\ NotSending(e) /\ local[e] # Nil /\ local[e].status # "conflict"
      /\ local' = [local EXCEPT ![e].val = v, ![e].status = "pending"]
      /\ outbox' = IF EntriesOf(e) # {} /\ outbox[latest].body.op = "upsert"
                   THEN [outbox EXCEPT ![latest] = new]
                   ELSE Enqueued(outbox, e, "upsert", local[e].ver, v)
      /\ UNCHANGED <<conflicts, deletedHere, cancelled>>
  BY <1>0 DEF Edit, Tapped, history
<1>2. /\ outbox \in [Tap -> OutboxRow \cup {Nil}]
      /\ local[e] \in LocalRow /\ local[e].ver \in Version /\ local[e].status # "conflict"
      /\ taps \in Nat /\ taps + 1 \in Tap /\ SeenOf(e)
  <2>1. local[e] \in LocalRow /\ taps \in 0..MaxTaps
    BY <1>1 DEF IInv, TypeOK
  <2>2. local[e].ver \in Version
    BY <2>1 DEF LocalRow
  <2>3. SeenOf(e)
    BY <1>1 DEF JInv, Seen
  <2>4. taps \in Nat /\ taps + 1 \in Tap
    BY <1>1, <2>1, Constants DEF Tap
  <2> QED  BY <1>1, <2>1, <2>2, <2>3, <2>4 DEF IInv, TypeOK
<1>3. /\ \A o \in Entity \ {e} : local'[o] = local[o]
      /\ local'[e].ver = local[e].ver /\ local'[e].status = "pending"
  <2>1. local \in [Entity -> LocalRow \cup {Nil}]
    BY DEF IInv, TypeOK
  <2> QED  BY <1>1, <1>2, <2>1 DEF LocalRow
<1>4. CASE EntriesOf(e) # {} /\ outbox[latest].body.op = "upsert"
  <2>1. latest \in EntriesOf(e) /\ latest \in Tap
    <3>1. EntriesOf(e) \in SUBSET Tap
      BY DEF EntriesOf, Keys
    <3> QED  BY <1>0, <1>4, <3>1, LastTap
  <2>2. outbox[latest] \in OutboxRow /\ outbox[latest].body.ent = e /\ outbox[latest].body \in Body
    BY <1>2, <2>1 DEF EntriesOf, Keys, OutboxRow
  <2>3. /\ new.status = "queued" /\ new.body.op = "upsert" /\ new.body.ent = e
        /\ new.body.base = outbox[latest].body.base /\ new.body.at = taps + 1
        /\ new \in OutboxRow
    BY <1>2, <1>4, <2>2 DEF Body, OutboxRow
  <2>4. outbox' = [outbox EXCEPT ![latest] = new]
    BY <1>1, <1>4
  <2> HIDE DEF new
  <2>5. /\ outbox'[latest] = new /\ new # Nil
        /\ \A k \in Tap : k # latest => outbox'[k] = outbox[k]
    BY <1>2, <2>1, <2>3, <2>4, OutboxNotNil
  <2>6. latest \notin Sending(outbox)
    BY <1>1, <2>1 DEF NotSending, Sending
  <2>7. \A k \in Tap : outbox'[k] = outbox[k] \/ Touches(e, k)
    BY <1>4, <2>1, <2>3, <2>5, <2>6 DEF Touches, Rewrites
  <2>8. HasIntent(e)'
    BY <2>1, <2>3, <2>5 DEF HasIntent, EntriesOf, Keys
  <2>9. local'[e] # Nil => SeenOf(e)'
    BY <1>1, <1>2, <1>3, <2>8 DEF SeenOf, InJournal, server
  <2>10. e \in deletedHere => InJournal(e)
    BY DEF JInv, Seen
  <2>11. ASSUME e \in deletedHere \ cancelled
         PROVE  \/ rows[e] = Nil
                \/ \E k \in EntriesOf(e)' : outbox'[k].body.op = "delete"
                \/ \E c \in EvidenceOf(e)' : c.lval = Nil
    <3>1. \/ rows[e] = Nil
          \/ \E k \in EntriesOf(e) : outbox[k].body.op = "delete"
          \/ \E c \in EvidenceOf(e) : c.lval = Nil
      BY <2>11 DEF JInv, Doomed
    <3>2. ASSUME NEW k \in EntriesOf(e), outbox[k].body.op = "delete"
          PROVE  k \in EntriesOf(e)' /\ outbox'[k].body.op = "delete"
      BY <1>4, <2>5, <3>2 DEF EntriesOf, Keys
    <3> QED  BY <1>1, <3>1, <3>2 DEF EvidenceOf
  <2> QED  BY <1>1, <1>2, <1>3, <2>7, <2>8, <2>9, <2>10, <2>11, UserFollows
<1>5. CASE ~ (EntriesOf(e) # {} /\ outbox[latest].body.op = "upsert")
  <2>1. /\ outbox[taps + 1] = Nil
        /\ \A k \in Tap \ {taps + 1} : outbox'[k] = outbox[k]
        /\ outbox'[taps + 1] # Nil /\ outbox'[taps + 1].status = "queued"
        /\ outbox'[taps + 1].body = [key |-> taps + 1, ent |-> e, op |-> "upsert",
                                     base |-> local[e].ver, val |-> v, at |-> taps + 1]
    <3>1. v \in Value \cup {Nil} /\ outbox' = Enqueued(outbox, e, "upsert", local[e].ver, v)
      BY <1>1, <1>5
    <3> QED  BY <1>1, <1>2, <3>1, Queueing
  <2>2. local[e].ver # 0
    <3>1. SUFFICES ASSUME local[e].ver = 0 PROVE FALSE
      OBVIOUS
    <3>2. e \notin deletedHere /\ local[e].status # "synced"
      BY <1>2, <3>1 DEF SeenOf
    <3>3. EntriesOf(e) # {}
      BY <1>1, <1>2, <3>2 DEF IInv, IntentStands, Intent, LocalRow
    <3> QED  BY <1>0, <1>1, <1>5, <3>2, <3>3, LatestUpserts
  <2>3. InJournal(e)
    BY <1>2, <2>2 DEF SeenOf
  <2>4. \A k \in Tap : outbox'[k] = outbox[k] \/ Touches(e, k)
    BY <1>2, <2>1, <2>2, <2>3 DEF Touches, Adds, Sending, Keys
  <2>5. HasIntent(e)'
    BY <1>2, <2>1 DEF HasIntent, EntriesOf, Keys
  <2>6. SeenOf(e)'
    BY <1>1, <1>2, <1>3, <2>5 DEF SeenOf, InJournal, server
  <2>7. ASSUME e \in deletedHere \ cancelled
        PROVE  \/ rows[e] = Nil
               \/ \E k \in EntriesOf(e)' : outbox'[k].body.op = "delete"
               \/ \E c \in EvidenceOf(e)' : c.lval = Nil
    <3>1. \/ rows[e] = Nil
          \/ \E k \in EntriesOf(e) : outbox[k].body.op = "delete"
          \/ \E c \in EvidenceOf(e) : c.lval = Nil
      BY <2>7 DEF JInv, Doomed
    <3>2. ASSUME NEW k \in EntriesOf(e), outbox[k].body.op = "delete"
          PROVE  k \in EntriesOf(e)' /\ outbox'[k].body.op = "delete"
      BY <2>1, <3>2 DEF EntriesOf, Keys
    <3> QED  BY <1>1, <3>1, <3>2 DEF EvidenceOf
  <2> QED  BY <1>1, <1>2, <1>3, <2>3, <2>4, <2>5, <2>6, <2>7, UserFollows
<1> QED  BY <1>4, <1>5

LEMMA FollowDelete ==
    ASSUME IInv, IInv', JInv, NEW e \in Entity, Delete(e)
    PROVE  JInv'
<1>0. PICK base, since :
        /\ base = IF EntriesOf(e) = {} THEN local[e].ver
                  ELSE outbox[Max(EntriesOf(e))].body.base
        /\ since = IF base = 0 THEN local[e].ver ELSE base
  OBVIOUS
<1> DEFINE others == [k \in Tap |-> IF k \in EntriesOf(e) THEN Nil ELSE outbox[k]]
<1>1. /\ taps < MaxTaps /\ taps' = taps + 1
      /\ UNCHANGED <<server, cursor, run, orphans, listedAt>>
      /\ NotSending(e) /\ local[e] # Nil
      /\ local' = [local EXCEPT ![e] = Nil]
      /\ \/ /\ outbox' = others /\ UNCHANGED deletedHere
            /\ cancelled' = cancelled \cup {e}
         \/ /\ local[e].ver # 0
            /\ outbox' = Enqueued(others, e, "delete", since, Nil)
            /\ deletedHere' = deletedHere \cup {e} /\ UNCHANGED cancelled
      /\ UNCHANGED conflicts
  BY <1>0 DEF Delete, Tapped, history
<1>2. /\ outbox \in [Tap -> OutboxRow \cup {Nil}]
      /\ local[e].ver \in Version /\ taps + 1 \in Tap /\ SeenOf(e)
  <2>1. local[e] \in LocalRow /\ taps \in 0..MaxTaps
    BY <1>1 DEF IInv, TypeOK
  <2>2. local[e].ver \in Version
    BY <2>1 DEF LocalRow
  <2>3. SeenOf(e)
    BY <1>1 DEF JInv, Seen
  <2>4. taps + 1 \in Tap
    BY <1>1, <2>1, Constants DEF Tap
  <2> QED  BY <2>2, <2>3, <2>4 DEF IInv, TypeOK
<1>3. since \in Version
  <2>1. CASE EntriesOf(e) # {}
    <3>1. EntriesOf(e) \in SUBSET Tap
      BY DEF EntriesOf, Keys
    <3>2. Max(EntriesOf(e)) \in EntriesOf(e)
      BY <2>1, <3>1, LastTap
    <3>3. outbox[Max(EntriesOf(e))] \in OutboxRow
      BY <1>2, <3>2 DEF EntriesOf, Keys
    <3> QED  BY <1>0, <1>2, <2>1, <3>3 DEF OutboxRow, Body
  <2> QED  BY <1>0, <1>2, <2>1
<1>4. /\ others \in [Tap -> OutboxRow \cup {Nil}]
      /\ \A k \in Tap : k \in EntriesOf(e) => others[k] = Nil
      /\ \A k \in Tap : k \notin EntriesOf(e) => others[k] = outbox[k]
  BY <1>2 DEF EntriesOf, Keys
<1> HIDE DEF others
<1>5. \A k \in EntriesOf(e) : k \notin Sending(outbox)
  BY <1>1 DEF NotSending, Sending
<1>6. \A o \in Entity \ {e} : local'[o] = local[o]
  BY <1>1 DEF IInv, TypeOK
<1>7. local'[e] = Nil
  BY <1>1 DEF IInv, TypeOK
<1>8. CASE outbox' = others /\ UNCHANGED deletedHere /\ cancelled' = cancelled \cup {e}
  <2>1. \A k \in Tap : outbox'[k] = outbox[k] \/ Touches(e, k)
    BY <1>4, <1>5, <1>8 DEF Touches, Removes
  <2>2. e \in deletedHere => InJournal(e)
    BY DEF JInv, Seen
  <2> QED  BY <1>1, <1>2, <1>6, <1>7, <1>8, <2>1, <2>2, UserFollows
<1>9. CASE /\ local[e].ver # 0
           /\ outbox' = Enqueued(others, e, "delete", since, Nil)
           /\ deletedHere' = deletedHere \cup {e} /\ UNCHANGED cancelled
  <2>1. /\ outbox[taps + 1] = Nil
        /\ \A k \in Tap \ {taps + 1} : outbox'[k] = others[k]
        /\ outbox'[taps + 1] # Nil /\ outbox'[taps + 1].status = "queued"
        /\ outbox'[taps + 1].body = [key |-> taps + 1, ent |-> e, op |-> "delete",
                                     base |-> since, val |-> Nil, at |-> taps + 1]
    <3>1. Nil \in Value \cup {Nil} /\ outbox' = Enqueued(others, e, "delete", since, Nil)
      BY <1>9
    <3> QED  BY <1>1, <1>3, <1>4, <3>1, Queueing
  <2>2. since # 0
    BY <1>0, <1>9
  <2>3. InJournal(e)
    BY <1>2, <1>9 DEF SeenOf
  <2>4. ASSUME NEW k \in Tap PROVE outbox'[k] = outbox[k] \/ Touches(e, k)
    <3>1. CASE k = taps + 1
      BY <2>1, <2>2, <2>3, <3>1 DEF Touches, Adds, Sending, Keys
    <3>2. CASE k # taps + 1 /\ k \in EntriesOf(e)
      BY <1>4, <1>5, <2>1, <3>2 DEF Touches, Removes
    <3>3. CASE k # taps + 1 /\ k \notin EntriesOf(e)
      BY <1>4, <2>1, <3>3
    <3> QED  BY <3>1, <3>2, <3>3
  <2>5. taps + 1 \in EntriesOf(e)' /\ outbox'[taps + 1].body.op = "delete"
    BY <1>2, <2>1 DEF EntriesOf, Keys
  <2>6. HasIntent(e)'
    BY <2>5 DEF HasIntent
  <2> QED  BY <1>1, <1>2, <1>6, <1>7, <1>9, <2>3, <2>4, <2>5, <2>6, UserFollows
<1> QED  BY <1>1, <1>8, <1>9

LEMMA FollowRetryMine ==
    ASSUME IInv, IInv', JInv, NEW c \in conflicts, RetryMine(c)
    PROVE  JInv'
<1>0. PICK e : e = c.ent
  OBVIOUS
<1>1. /\ taps < MaxTaps /\ taps' = taps + 1
      /\ UNCHANGED <<server, cursor, run, orphans, listedAt>>
      /\ c.lval # Nil
      /\ conflicts' = conflicts \ {c}
      /\ local' = IF local[e] = Nil THEN local
                  ELSE [local EXCEPT ![e].ver = c.ver, ![e].status = "pending"]
      /\ outbox' = Enqueued(outbox, e, "upsert", c.ver, c.lval)
      /\ UNCHANGED <<deletedHere, cancelled>>
  BY <1>0 DEF RetryMine, Tapped, history
<1>2. /\ e \in Entity /\ c.ver \in Version /\ c.lval \in Value \cup {Nil}
      /\ taps + 1 \in Tap /\ c.ver # 0 /\ InJournal(e)
  <2>1. taps \in 0..MaxTaps
    BY DEF IInv, TypeOK
  <2>2. taps + 1 \in Tap
    BY <1>1, <2>1, Constants DEF Tap
  <2> QED  BY <1>0, <2>2 DEF IInv, TypeOK, Conflict, JInv, Seen
<1>3. /\ outbox[taps + 1] = Nil
      /\ \A k \in Tap \ {taps + 1} : outbox'[k] = outbox[k]
      /\ outbox'[taps + 1] # Nil /\ outbox'[taps + 1].status = "queued"
      /\ outbox'[taps + 1].body = [key |-> taps + 1, ent |-> e, op |-> "upsert",
                                   base |-> c.ver, val |-> c.lval, at |-> taps + 1]
  <2>1. outbox \in [Tap -> OutboxRow \cup {Nil}]
    BY DEF IInv, TypeOK
  <2> QED  BY <1>1, <1>2, <2>1, Queueing
<1>4. /\ \A o \in Entity \ {e} : local'[o] = local[o]
      /\ local'[e] # Nil => local'[e].ver = c.ver /\ local'[e].status = "pending"
  <2>1. local \in [Entity -> LocalRow \cup {Nil}]
    BY DEF IInv, TypeOK
  <2>2. CASE local[e] = Nil
    BY <1>1, <2>2
  <2>3. CASE local[e] # Nil
    <3>1. local[e] \in LocalRow /\ local' = [local EXCEPT ![e].ver = c.ver, ![e].status = "pending"]
      BY <1>1, <1>2, <2>1, <2>3
    <3> QED  BY <1>2, <2>1, <3>1 DEF LocalRow
  <2> QED  BY <2>2, <2>3
<1>5. \A k \in Tap : outbox'[k] = outbox[k] \/ Touches(e, k)
  BY <1>2, <1>3 DEF Touches, Adds, Sending, Keys
<1>6. HasIntent(e)'
  BY <1>2, <1>3 DEF HasIntent, EntriesOf, Keys
<1>7. local'[e] # Nil => SeenOf(e)'
  BY <1>1, <1>2, <1>4, <1>6 DEF SeenOf, InJournal, server
<1>8. ASSUME e \in deletedHere \ cancelled
      PROVE  \/ rows[e] = Nil
             \/ \E k \in EntriesOf(e)' : outbox'[k].body.op = "delete"
             \/ \E d \in EvidenceOf(e)' : d.lval = Nil
  <2>1. \/ rows[e] = Nil
        \/ \E k \in EntriesOf(e) : outbox[k].body.op = "delete"
        \/ \E d \in EvidenceOf(e) : d.lval = Nil
    BY <1>8 DEF JInv, Doomed
  <2>2. ASSUME NEW k \in EntriesOf(e), outbox[k].body.op = "delete"
        PROVE  k \in EntriesOf(e)' /\ outbox'[k].body.op = "delete"
    BY <1>3, <2>2 DEF EntriesOf, Keys
  <2>3. ASSUME NEW d \in EvidenceOf(e), d.lval = Nil PROVE d \in EvidenceOf(e)'
    BY <1>1, <2>3 DEF EvidenceOf
  <2> QED  BY <2>1, <2>2, <2>3
<1>9. \A d \in conflicts \ conflicts' : d.ent = e
  BY <1>0, <1>1
<1> QED  BY <1>1, <1>2, <1>4, <1>5, <1>6, <1>7, <1>8, <1>9, UserFollows

-----------------------------------------------------------------------------
(* The answers of a batch *)

LEMMA FollowPersistResponse ==
    ASSUME IInv, IInv', JInv, PersistResponse
    PROVE  JInv'
<1> DEFINE News(k) == [key |-> k, ent |-> outbox[k].body.ent,
                       reason |-> call.answers[k].reason, ver |-> call.answers[k].ver,
                       sval |-> call.answers[k].sval, lval |-> outbox[k].body.val]
           refused == {j \in Keys(call.answers) : call.answers[j].status = "conflict"}
<1>1. /\ pc = "await" /\ Keys(call.todo) = {}
      /\ local' = [e \in Entity |-> Settled(e)]
      /\ outbox' = [k \in Tap |->
           IF call.answers[k] = Nil THEN outbox[k]
           ELSE IF call.answers[k].status = "rejected"
                THEN [outbox[k] EXCEPT !.status = "failed"] ELSE Nil]
      /\ conflicts' = conflicts \cup {News(k) : k \in refused}
      /\ call' = Nil /\ pc' = "claim"
      /\ UNCHANGED <<cursor, boot, page, orphans, server, taps, history>>
  BY DEF PersistResponse, SyncUnchanged, UserUnchanged, history
<1> USE DEF server, history
<1>2. /\ \A k \in Tap : k \in Sending(outbox) <=> call.answers[k] # Nil
      /\ \A k \in Tap : call.answers[k] # Nil =>
           /\ call.answers[k] \in Answer
           /\ outbox[k] # Nil /\ outbox[k] \in OutboxRow /\ outbox[k].body \in Body
           /\ Backed(outbox[k].body, call.answers[k])
  BY <1>1, Answered
<1>3. ASSUME NEW k \in Tap
      PROVE  \/ call.answers[k] = Nil /\ outbox'[k] = outbox[k]
             \/ /\ call.answers[k] # Nil /\ call.answers[k].status = "rejected"
                /\ outbox'[k] # Nil
                /\ outbox'[k].body = outbox[k].body /\ outbox'[k].status = "failed"
             \/ /\ call.answers[k] # Nil /\ call.answers[k].status # "rejected"
                /\ outbox'[k] = Nil
  <2>1. CASE call.answers[k] # Nil /\ call.answers[k].status = "rejected"
    <3>1. outbox'[k] = [outbox[k] EXCEPT !.status = "failed"] /\ outbox[k] \in OutboxRow
      BY <1>1, <1>2, <2>1
    <3>2. /\ outbox'[k] \in OutboxRow /\ outbox'[k].body = outbox[k].body
          /\ outbox'[k].status = "failed"
      BY <3>1 DEF OutboxRow
    <3>3. outbox'[k] # Nil
      BY <3>2, OutboxNotNil
    <3> QED  BY <2>1, <3>2, <3>3
  <2>2. CASE ~ (call.answers[k] # Nil /\ call.answers[k].status = "rejected")
    BY <1>1, <2>2
  <2> QED  BY <2>1, <2>2
\* Of the news only this is needed.
<1>4. /\ conflicts \subseteq conflicts'
      /\ \A c \in conflicts' \ conflicts : \E k \in Tap :
           /\ call.answers[k] # Nil /\ call.answers[k].status = "conflict"
           /\ c.ent = outbox[k].body.ent /\ c.ver = call.answers[k].ver
      /\ \A k \in Tap : call.answers[k] # Nil /\ call.answers[k].status = "conflict" =>
           \E c \in conflicts' : c.ent = outbox[k].body.ent /\ c.lval = outbox[k].body.val
  <2>1. conflicts \subseteq conflicts'
    BY <1>1
  <2>2. ASSUME NEW c \in conflicts' \ conflicts
        PROVE  \E k \in Tap :
                 /\ call.answers[k] # Nil /\ call.answers[k].status = "conflict"
                 /\ c.ent = outbox[k].body.ent /\ c.ver = call.answers[k].ver
    <3>1. PICK k \in refused : c = News(k)
      BY <1>1
    <3>2. c.ent = outbox[k].body.ent /\ c.ver = call.answers[k].ver
      BY <3>1
    <3> QED  BY <3>2 DEF Keys
  <2>3. ASSUME NEW k \in Tap, call.answers[k] # Nil, call.answers[k].status = "conflict"
        PROVE  \E c \in conflicts' : c.ent = outbox[k].body.ent /\ c.lval = outbox[k].body.val
    <3>1. k \in refused
      BY <2>3 DEF Keys
    <3>2. News(k) \in conflicts'
      BY <1>1, <3>1
    <3>3. News(k).ent = outbox[k].body.ent /\ News(k).lval = outbox[k].body.val
      OBVIOUS
    <3> QED  BY <3>2, <3>3
  <2> QED  BY <2>1, <2>2, <2>3
<1> HIDE DEF News, refused
<1>5. ASSUME NEW k \in Tap, call.answers[k] # Nil
      PROVE  /\ outcomes[k] # Nil
             /\ call.answers[k].status = "rejected" => Denied(k)
             /\ call.answers[k].status # "rejected" =>
                  call.answers[k].ver # 0 /\ InJournal(outbox[k].body.ent)
             /\ call.answers[k].status \in Accepted =>
                  /\ outcomes[k].res.status = "applied"
                  /\ outcomes[k].req = outbox[k].body
                  /\ outcomes[k].res.ver = call.answers[k].ver
  <2>1. call # Nil
    BY <1>1 DEF IInv, TypeOK
  <2>2. /\ outcomes[k] # Nil
        /\ call.answers[k].status = "rejected" => Denied(k)
        /\ call.answers[k].status # "rejected" => call.answers[k].ver # 0
        /\ call.answers[k].status = "conflict" => InJournal(outbox[k].body.ent)
        /\ call.answers[k].status \in Accepted =>
             /\ outcomes[k].res.status = "applied"
             /\ outcomes[k].req = outbox[k].body
             /\ outcomes[k].res.ver = call.answers[k].ver
    BY <1>5, <2>1 DEF JInv, AnswersTold
  <2>3. call.answers[k].status \in Accepted => InJournal(outbox[k].body.ent)
    BY <1>2, <1>5, PublishedInJournal DEF Backed
  <2>4. call.answers[k].status \in Accepted \cup {"conflict", "rejected"}
    BY <1>2, <1>5 DEF Answer, Accepted
  <2> QED  BY <2>2, <2>3, <2>4
<1>6. ASSUME NEW k \in Keys(outbox)'
      PROVE  /\ k \in Keys(outbox) /\ outbox'[k].body = outbox[k].body
             /\ outbox'[k] = outbox[k] \/ (call.answers[k] # Nil /\ call.answers[k].status = "rejected")
  BY <1>2, <1>3, <1>6 DEF Keys
<1>7. \A e : /\ EntriesOf(e)' \subseteq EntriesOf(e)
             /\ EvidenceOf(e) \subseteq EvidenceOf(e)'
             /\ InJournal(e)' <=> InJournal(e)
             /\ Behind(e)' <=> Behind(e)
  BY <1>1, <1>4, <1>6 DEF EntriesOf, EvidenceOf, InJournal, Behind, Keys
<1>8. \A k \in Keys(outbox)' : Denied(k)' <=> Denied(k)
  BY <1>1, <1>6 DEF Denied
<1>9. RowsJournaled' /\ Recorded'
  BY <1>1 DEF JInv, RowsJournaled, InJournal, Newest, Describes, Recorded, Keys
<1>10. DraftsStand'
  <2>1. \A k \in Tap, m \in Body : Drafted(k, m)' => Drafted(k, m)
    BY <1>1, <1>6 DEF Drafted, Late, Keys
  <2>2. ASSUME NEW k \in Tap, NEW m \in Body, Drafted(k, m)'
        PROVE  DraftStands(k, m)'
    <3>1. Drafted(k, m) /\ DraftStands(k, m)
      BY <2>1, <2>2 DEF JInv, DraftsStand
    <3> QED  BY <1>1, <1>7, <2>1, <3>1 DEF DraftStands
  <2> QED  BY <2>2 DEF DraftsStand
<1>11. FailuresTold'
  <2>1. ASSUME NEW k \in Keys(outbox)', outbox'[k].status = "failed"
        PROVE  outcomes[k] # Nil /\ Denied(k)
    <3>1. CASE outbox'[k] = outbox[k]
      BY <1>6, <2>1, <3>1 DEF JInv, FailuresTold
    <3>2. CASE call.answers[k] # Nil /\ call.answers[k].status = "rejected"
      BY <1>5, <2>1, <3>2 DEF Keys
    <3> QED  BY <1>6, <2>1, <3>1, <3>2
  <2> QED  BY <1>1, <1>8, <2>1 DEF FailuresTold
<1>12. AnswersTold'
  BY <1>1 DEF AnswersTold
<1>13. Quiet'
  <2>1. ASSUME NEW k \in Tap, outbox'[k] # Nil, outbox'[k].status = "sending" PROVE FALSE
    <3>1. call.answers[k] = Nil /\ outbox'[k] = outbox[k]
      BY <1>3, <2>1
    <3> QED  BY <1>2, <2>1, <3>1 DEF Sending, Keys
  <2>2. Sending(outbox)' = {}
    BY <2>1 DEF Sending, Keys
  <2> QED  BY <1>1, <2>2 DEF Quiet, Reading
<1>14. Unseen'
  <2>1. ASSUME NEW k \in Keys(outbox)', outcomes[k] # Nil, ~ Denied(k), outcomes[k].res.status = "applied",
               NEW m, m = outbox'[k].body
        PROVE  Behind(m.ent) \/ rows[m.ent] = [ver |-> outcomes[k].res.ver, val |-> m.val]
    BY <1>6, <2>1 DEF JInv, Unseen
  <2> QED  BY <1>1, <1>7, <1>8, <2>1 DEF Unseen
<1>15. Listing' /\ Pages'
  BY <1>1 DEF IInv, Paging, Listing, Pages
<1>16. ASSUME NEW k \in Tap, call.answers[k] # Nil, NEW e, e = outbox[k].body.ent
       PROVE  /\ call.answers[k].status = "rejected" => k \in EntriesOf(e)'
              /\ call.answers[k].status = "conflict" =>
                   \E c \in EvidenceOf(e)' : c.lval = outbox[k].body.val
  <2>1. call.answers[k].status = "rejected" => k \in EntriesOf(e)'
    BY <1>3, <1>16 DEF EntriesOf, Keys
  <2>2. call.answers[k].status = "conflict" =>
          \E c \in EvidenceOf(e)' : c.lval = outbox[k].body.val
    BY <1>4, <1>16 DEF EvidenceOf
  <2> QED  BY <2>1, <2>2
<1>17. Doomed'
  <2>1. ASSUME NEW e \in deletedHere \ cancelled
        PROVE  \/ rows[e] = Nil
               \/ \E k \in EntriesOf(e)' : outbox'[k].body.op = "delete"
               \/ \E c \in EvidenceOf(e)' : c.lval = Nil
    <3>1. CASE rows[e] = Nil
      BY <3>1
    <3>2. CASE \E c \in EvidenceOf(e) : c.lval = Nil
      BY <1>7, <3>2
    <3>3. CASE \E k \in EntriesOf(e) : outbox[k].body.op = "delete"
      <4>1. PICK k \in EntriesOf(e) : outbox[k].body.op = "delete"
        BY <3>3
      <4>2. k \in Tap /\ k \in Keys(outbox) /\ outbox[k].body.ent = e
        BY DEF EntriesOf, Keys
      <4>3. outbox[k].body.val = Nil
        BY <4>1, <4>2 DEF IInv, Naming, Named
      <4>4. CASE call.answers[k] = Nil
        <5>1. outbox'[k] = outbox[k]
          BY <1>3, <4>2, <4>4
        <5>2. k \in EntriesOf(e)'
          BY <4>2, <5>1 DEF EntriesOf, Keys
        <5> QED  BY <4>1, <5>1, <5>2
      <4>5. CASE call.answers[k] # Nil /\ call.answers[k].status = "rejected"
        <5>1. k \in EntriesOf(e)'
          BY <1>16, <4>2, <4>5
        <5>2. outbox'[k].body = outbox[k].body
          BY <1>3, <4>2, <4>5
        <5> QED  BY <4>1, <5>1, <5>2
      <4>6. CASE call.answers[k] # Nil /\ call.answers[k].status = "conflict"
        BY <1>16, <4>2, <4>3, <4>6
      <4>7. CASE call.answers[k] # Nil /\ call.answers[k].status \in Accepted
        <5>1. /\ outcomes[k] # Nil /\ outcomes[k].res.status = "applied"
              /\ outcomes[k].req = outbox[k].body
          BY <1>5, <4>2, <4>7
        <5>2. k \in Keys(outcomes) /\ outcomes[k].req.op = "delete" /\ outcomes[k].req.ent = e
          BY <4>1, <4>2, <5>1 DEF Keys
        <5> QED  BY <2>1, <5>1, <5>2 DEF JInv, Recorded
      <4>8. call.answers[k] # Nil => call.answers[k].status \in Accepted \cup {"conflict", "rejected"}
        BY <1>2, <4>2 DEF Answer, Accepted
      <4> QED  BY <4>4, <4>5, <4>6, <4>7, <4>8
    <3> QED  BY <2>1, <3>1, <3>2, <3>3 DEF JInv, Doomed
  <2> QED  BY <1>1, <2>1 DEF Doomed
\* A row no answer is about is left alone.
<1>18. ASSUME NEW e \in Entity,
              \A k \in Tap : call.answers[k] # Nil => outbox[k].body.ent # e
       PROVE  /\ local'[e] = local[e] /\ EntriesOf(e)' = EntriesOf(e)
  <2>1. PICK row : row = Settled(e)
    OBVIOUS
  <2>2. row = local[e]
    BY <1>18, <2>1 DEF Settled, Keys
  <2>3. \A k \in EntriesOf(e) : outbox'[k] = outbox[k]
    BY <1>3, <1>18 DEF EntriesOf, Keys
  <2>4. EntriesOf(e) \subseteq EntriesOf(e)'
    BY <2>3 DEF EntriesOf, Keys
  <2> QED  BY <1>1, <1>7, <2>1, <2>2, <2>4
<1>19. Seen'
  <2>1. ASSUME NEW e \in Entity, local'[e] # Nil PROVE SeenOf(e)'
    <3> DEFINE mine == {k \in Keys(call.answers) : outbox[k].body.ent = e}
               told == {k \in mine : call.answers[k].status # "rejected"}
               gone == {k \in mine : /\ call.answers[k].status \in Accepted
                                     /\ outbox[k].body.op = "delete"}
    <3>1. CASE mine = {}
      <4>1. local'[e] = local[e] /\ EntriesOf(e)' = EntriesOf(e)
        BY <1>18, <3>1 DEF Keys
      <4>2. SeenOf(e)
        BY <2>1, <4>1 DEF JInv, Seen
      <4>3. HasIntent(e) => HasIntent(e)'
        BY <1>7, <4>1 DEF HasIntent
      <4> QED  BY <1>1, <1>7, <4>1, <4>2, <4>3 DEF SeenOf
    <3>2. CASE mine # {}
      <4>1. PICK last, lasttold : last = Max(mine) /\ lasttold = Max(told)
        OBVIOUS
      <4>2. mine \in SUBSET Tap /\ told \in SUBSET Tap
        BY DEF Keys
      <4>3. last \in mine /\ (told # {} => lasttold \in told)
        BY <3>2, <4>1, <4>2, LastTap
      <4>4. /\ local[e] # Nil
            /\ local'[e].ver = IF told = {} THEN local[e].ver ELSE call.answers[lasttold].ver
            /\ local'[e].status = Shown[call.answers[last].status]
        <5>1. PICK row : row = Settled(e)
          OBVIOUS
        <5>2. local'[e] = row
          BY <1>1, <5>1
        <5>3. local[e] # Nil
          BY <2>1, <5>1, <5>2 DEF Settled
        <5>4. row # Nil
          BY <2>1, <5>2
        <5>5. row = [val |-> local[e].val,
                     ver |-> IF told = {} THEN local[e].ver ELSE call.answers[lasttold].ver,
                     status |-> Shown[call.answers[last].status]]
          BY <3>2, <4>1, <5>1, <5>3, <5>4 DEF Settled
        <5> HIDE DEF told
        <5> QED  BY <5>2, <5>3, <5>5
      <4>5. /\ last \in Tap /\ call.answers[last] # Nil /\ outbox[last].body.ent = e
            /\ call.answers[last].status # "rejected" => told # {}
        BY <4>3 DEF Keys
      <4>6. told # {} => /\ lasttold \in Tap /\ call.answers[lasttold] # Nil
                         /\ outbox[lasttold].body.ent = e
                         /\ call.answers[lasttold].status # "rejected"
        BY <4>3 DEF Keys
      <4> HIDE DEF mine, told, gone
      <4>7. told # {} => local'[e].ver # 0 /\ InJournal(e)
        BY <1>5, <4>4, <4>6
      <4>8. SeenOf(e)
        BY <4>4 DEF JInv, Seen
      <4>9. call.answers[last].status \in Accepted \cup {"conflict", "rejected"}
        BY <1>2, <4>5 DEF Answer, Accepted
      <4>10. local'[e].ver # 0 => InJournal(e)
        BY <4>4, <4>7, <4>8 DEF SeenOf
      <4>11. e \in deletedHere => local'[e].ver # 0
        BY <4>4, <4>7, <4>8 DEF SeenOf
      <4>12. local'[e].status = "synced" => local'[e].ver # 0
        BY <4>4, <4>5, <4>7, <4>9 DEF Shown, Accepted
      <4>13. local'[e].status # "synced" => HasIntent(e)'
        <5>1. CASE call.answers[last].status \in Accepted
          BY <4>4, <5>1 DEF Shown, Accepted
        <5>2. CASE call.answers[last].status \in {"conflict", "rejected"}
          BY <1>16, <4>5, <5>2 DEF HasIntent
        <5> QED  BY <4>9, <5>1, <5>2
      <4> QED  BY <1>1, <1>7, <4>10, <4>11, <4>12, <4>13 DEF SeenOf
    <3> QED  BY <3>1, <3>2
  <2>2. ASSUME NEW c \in conflicts' PROVE c.ver # 0 /\ InJournal(c.ent)
    <3>1. CASE c \in conflicts
      BY <3>1 DEF JInv, Seen
    <3>2. CASE c \notin conflicts
      <4>1. PICK k \in Tap :
              /\ call.answers[k] # Nil /\ call.answers[k].status = "conflict"
              /\ c.ent = outbox[k].body.ent /\ c.ver = call.answers[k].ver
        BY <1>4, <2>2, <3>2
      <4> QED  BY <1>5, <4>1
    <3> QED  BY <3>1, <3>2
  <2>3. \A e \in deletedHere : InJournal(e)
    BY DEF JInv, Seen
  <2> QED  BY <1>1, <1>7, <2>1, <2>2, <2>3 DEF Seen
\* A row whose mutations have all been accepted is what the server made of it.
<1>20. ASSUME NEW e \in Entity \ cancelled, ~ Behind(e), ~ HasIntent(e)', HasIntent(e)
       PROVE  Mirrors(e)'
  <2>1. EvidenceOf(e) = {} /\ EntriesOf(e) # {} /\ EntriesOf(e)' = {}
    BY <1>7, <1>20 DEF HasIntent
  <2>2. ASSUME NEW k \in EntriesOf(e)
        PROVE  /\ k \in Tap /\ k \in Keys(outbox) /\ outbox[k].body.ent = e
               /\ call.answers[k] # Nil /\ call.answers[k].status \in Accepted
               /\ outcomes[k] # Nil /\ outcomes[k].res.status = "applied"
               /\ outcomes[k].req = outbox[k].body
               /\ outcomes[k].res.ver = call.answers[k].ver
               /\ rows[e] = [ver |-> call.answers[k].ver, val |-> outbox[k].body.val]
    <3>1. k \in Tap /\ k \in Keys(outbox) /\ outbox[k].body.ent = e
      BY DEF EntriesOf, Keys
    <3>2. call.answers[k] # Nil
      <4>1. SUFFICES ASSUME call.answers[k] = Nil PROVE FALSE
        OBVIOUS
      <4>2. k \in EntriesOf(e)'
        BY <1>3, <3>1, <4>1 DEF EntriesOf, Keys
      <4> QED  BY <2>1, <4>2
    <3>3. call.answers[k].status \in Accepted \cup {"conflict", "rejected"}
      BY <1>2, <3>1, <3>2 DEF Answer, Accepted
    <3>4. call.answers[k].status # "rejected" /\ call.answers[k].status # "conflict"
      BY <1>16, <1>20, <2>1, <3>1, <3>2 DEF HasIntent
    <3>5. /\ outcomes[k] # Nil /\ outcomes[k].res.status = "applied"
          /\ outcomes[k].req = outbox[k].body
          /\ outcomes[k].res.ver = call.answers[k].ver
      BY <1>5, <3>1, <3>2, <3>3, <3>4
    <3>6. ~ Denied(k)
      BY <3>5 DEF Denied
    <3>7. Behind(e) \/ rows[e] = [ver |-> outcomes[k].res.ver, val |-> outbox[k].body.val]
      BY <3>1, <3>5, <3>6 DEF JInv, Unseen
    <3> QED  BY <1>20, <3>1, <3>2, <3>3, <3>4, <3>5, <3>7
  <2>3. CASE \E k \in EntriesOf(e) : outbox[k].body.op = "delete"
    <3>1. PICK k \in EntriesOf(e) : outbox[k].body.op = "delete"
      BY <2>3
    <3>2. rows[e] = Nil
      <4>1. k \in Keys(outcomes) /\ outcomes[k].req.op = "delete" /\ outcomes[k].req.ent = e
        BY <2>2, <3>1 DEF Keys
      <4> QED  BY <1>20, <2>2, <4>1 DEF JInv, Recorded
    <3>3. PICK row : row = Settled(e)
      OBVIOUS
    <3>4. row = Nil
      <4>1. k \in {j \in Keys(call.answers) : outbox[j].body.ent = e}
        BY <2>2 DEF Keys
      <4>2. k \in {j \in {i \in Keys(call.answers) : outbox[i].body.ent = e} :
                     /\ call.answers[j].status \in Accepted
                     /\ outbox[j].body.op = "delete"}
        BY <2>2, <3>1, <4>1
      <4> QED  BY <3>3, <4>1, <4>2 DEF Settled
    <3> QED  BY <1>1, <3>2, <3>3, <3>4 DEF Mirrors
  <2>4. CASE \A k \in EntriesOf(e) : outbox[k].body.op # "delete"
    <3>1. PICK k \in EntriesOf(e) : TRUE
      BY <2>1
    <3>0. PICK a, m : a = call.answers[k] /\ m = outbox[k].body
      OBVIOUS
    <3>11. /\ k \in Tap /\ k \in Keys(outbox) /\ m.ent = e
           /\ call.answers[k] # Nil /\ a.status \in Accepted
           /\ rows[e] = [ver |-> a.ver, val |-> m.val] /\ m.op # "delete"
      BY <2>2, <2>4, <3>0
    <3>2. m \in Body /\ m.val # Nil /\ a \in Answer
      BY <1>2, <3>0, <3>11 DEF IInv, Naming, Named
    <3>3. rows[e] # Nil
      <4>1. rows[e] \in [ver : Version, val : Value]
        <5>1. a.ver \in Version /\ m.val \in Value
          BY <3>2 DEF Body, Answer
        <5> QED  BY <3>11, <5>1
      <4> QED  BY <4>1, RowNotNil
    <3>4. e \notin deletedHere
      BY <1>20, <2>1, <2>4, <3>3 DEF JInv, Doomed
    <3>5. /\ local[e] # Nil /\ m.val = local[e].val
          /\ \A j \in EntriesOf(e) : j = k
      BY <2>1, <3>0, <3>4 DEF IInv, IntentStands, Intent
    <3>6. PICK row : row = Settled(e)
      OBVIOUS
    <3>7. /\ row # Nil /\ row.val = local[e].val
          /\ row.ver = IF a.status = "rejected" THEN local[e].ver ELSE a.ver
          /\ row.status = Shown[a.status]
      <4>1. /\ call.answers[k] # Nil /\ outbox[k].body.ent = e
            /\ outbox[k].body.op # "delete" /\ k \in Tap /\ e \in Entity
        BY <3>0, <3>11
      <4> QED  BY <1>1, <3>0, <3>5, <3>6, <4>1, SettledAs
    <3>8. row.status = "synced" /\ row.ver = a.ver
      BY <3>7, <3>11 DEF Shown, Accepted
    <3>9. row \in LocalRow
      <4>1. Settled(e) \in LocalRow \cup {Nil}
        BY <1>1, SettledTyped
      <4> QED  BY <3>6, <3>7, <4>1
    <3>10. row = [val |-> rows[e].val, ver |-> rows[e].ver, status |-> "synced"]
      <4>1. rows[e].val = local[e].val /\ rows[e].ver = a.ver
        BY <3>5, <3>11
      <4> QED  BY <3>7, <3>8, <3>9, <4>1 DEF LocalRow
    <3> QED  BY <1>1, <3>3, <3>6, <3>10 DEF Mirrors
  <2> QED  BY <2>3, <2>4
<1>21. Follows'
  <2>1. ASSUME NEW e \in Entity \ cancelled PROVE Behind(e)' \/ HasIntent(e)' \/ Mirrors(e)'
    <3>1. CASE Behind(e)
      BY <1>7, <3>1
    <3>2. CASE HasIntent(e)' \/ (~ Behind(e) /\ HasIntent(e))
      BY <1>20, <3>2
    <3>3. CASE ~ Behind(e) /\ ~ HasIntent(e)
      <4>1. Mirrors(e)
        BY <3>3 DEF JInv, Follows
      <4>2. \A k \in Tap : call.answers[k] # Nil => outbox[k].body.ent # e
        BY <1>2, <3>3 DEF HasIntent, EntriesOf, Keys
      <4>3. local'[e] = local[e]
        BY <1>18, <4>2
      <4> QED  BY <1>1, <4>1, <4>3 DEF Mirrors
    <3> QED  BY <3>1, <3>2, <3>3
  <2> QED  BY <1>1, <2>1 DEF Follows
<1> QED  BY <1>9, <1>10, <1>11, <1>12, <1>13, <1>14, <1>15, <1>17, <1>19, <1>21 DEF JInv

-----------------------------------------------------------------------------
(* The replica keeps up *)

LEMMA FollowInit == Init => JInv
<1> SUFFICES ASSUME Init PROVE JInv
  OBVIOUS
<1>1. DOMAIN journal = {} /\ Keys(outbox) = {} /\ Keys(outcomes) = {}
  BY DEF Init, Keys
<1>2. \A k \in Tap, m \in Body : ~ Drafted(k, m)
  BY DEF Init, Drafted, Late
<1>3. RowsJournaled /\ DraftsStand
  BY <1>1, <1>2 DEF Init, RowsJournaled, DraftsStand
<1>4. Recorded /\ FailuresTold /\ AnswersTold /\ Seen /\ Doomed /\ Unseen
  BY <1>1 DEF Init, Recorded, FailuresTold, AnswersTold, Seen, Doomed, Unseen
<1>5. Quiet
  BY <1>1 DEF Init, Quiet, Reading, Sending
<1>6. Listing /\ Pages /\ Follows
  BY DEF Init, Listing, Pages, Follows, Behind
<1> QED  BY <1>3, <1>4, <1>5, <1>6 DEF JInv

LEMMA FollowStutter ==
    ASSUME IInv, IInv', JInv, UNCHANGED vars
    PROVE  JInv'
<1>1. UNCHANGED <<server, device, run, taps, history>> /\ orphans' \subseteq orphans
  BY DEF vars, server, device, run, history
<1> QED  BY <1>1, FewerOrphans

LEMMA FollowNext ==
    ASSUME "useServer" \notin UserOps, IInv, IInv', JInv, [Next]_vars
    PROVE  JInv'
<1>1. CASE UNCHANGED vars
  BY <1>1, FollowStutter
<1>2. CASE UserStep
  <2>1. \A c \in conflicts : ~ UseServer(c)
    BY DEF UseServer
  <2> QED  BY <1>2, <2>1, FollowCreate, FollowEdit, FollowDelete, FollowRetryMine DEF UserStep
<1>3. CASE SyncStep
  BY <1>3, FollowStartSync, FollowClaim, FollowPersistResponse, FollowFetchBootstrap,
     FollowEstablishCursor, FollowFetchPull, FollowApplyPage DEF SyncStep
<1>4. CASE \E todo \in orphans : ServeOrphan(todo) \/ DropOrphan(todo)
  BY <1>4, FollowServeOrphan, FollowDropOrphan
<1>5. CASE \E e \in Entity, v \in Value \cup {Nil} : WebWrite(e, v)
  BY <1>5, FollowWebWrite
<1>6. CASE ServeCall \/ LoseCall \/ CursorRefused \/ Crash
  BY <1>6, FollowServeCall, FollowLoseCall, FollowCursorRefused
<1> QED  BY <1>1, <1>2, <1>3, <1>4, <1>5, <1>6 DEF Next

\* At rest nothing is behind and nothing is intended, so what follows mirrors.
LEMMA KeepsUp == IInv /\ JInv => ReplicaFollowsJournal
<1> SUFFICES ASSUME IInv, JInv, AtRest, NEW e \in Entity \ cancelled
    PROVE  /\ rows[e] # Nil =>
                local[e] = [val |-> rows[e].val, ver |-> rows[e].ver, status |-> "synced"]
           /\ rows[e] = Nil /\ local[e] # Nil =>
                \E i \in 1..listedAt : journal[i].ent = e /\ journal[i].val = Nil
  BY DEF ReplicaFollowsJournal
<1>1. cursor = Len(journal) /\ Keys(outbox) = {} /\ conflicts = {}
  BY DEF AtRest
<1>2. ~ Behind(e)
  <2>1. Len(journal) \in Nat /\ DOMAIN journal = 1..Len(journal)
    BY JournalTyped DEF IInv
  <2>2. cursor # Nil
    BY <1>1, <2>1, MobileSyncAssumption
  <2> QED  BY <1>1, <2>1, <2>2 DEF Behind
<1>3. ~ HasIntent(e)
  BY <1>1 DEF HasIntent, EntriesOf, EvidenceOf
<1>4. Mirrors(e)
  BY <1>2, <1>3 DEF JInv, Follows
<1> QED  BY <1>4 DEF Mirrors

\* Unless the user takes the server's side of a conflict, a device at rest,
\* which has pulled the whole journal and has nothing queued, refused or on
\* its way, holds exactly the transactions the server holds: no paging,
\* skipping of rows with local intent, late answer, lost call, crash,
\* bootstrap or refused cursor has lost a change.  A row whose creation the
\* user cancelled, and one the server deleted before the last bootstrap, are
\* excepted as the property says.
THEOREM ReplicaKeepsUp == "useServer" \notin UserOps => (Spec => []ReplicaFollowsJournal)
<1> SUFFICES ASSUME "useServer" \notin UserOps PROVE Spec => []ReplicaFollowsJournal
  OBVIOUS
<1>1. IInv /\ JInv /\ [Next]_vars => (IInv /\ JInv)'
  BY NextInv, FollowNext
<1>2. Init => IInv /\ JInv
  BY InitInv, FollowInit
<1> QED  BY <1>1, <1>2, KeepsUp, PTL DEF Spec
=============================================================================
