----------------------- MODULE FinancialAccountsProofs -----------------------
(***************************************************************************)
(* The balance history of an account and the net worth, as the components  *)
(* of MCServices: for any states, dates, and numbers of edits, web edits   *)
(* and losses; for any accounts, changes, days and windows.                *)
(***************************************************************************)
EXTENDS MCServices, NaturalSets, FiniteSetTheorems

-----------------------------------------------------------------------------
(* The inductive invariant *)

Drawn == 1..accCount.ids

\* The versions of the account are known that far, and the newest one's state.
Known(ver, st) ==
    /\ account # Nil /\ ver # 0 /\ ver <= account.ver
    /\ ver = account.ver => account.st = st

\* The phone's row says what it has to send, to wait for and to resolve.
Phases ==
    /\ push # Nil <=> outbox # Nil /\ outbox.status = "sending"
    /\ push # Nil => /\ push.key = outbox.key /\ push.body = outbox.body
                     /\ push.at = "core" <=> push.result = Nil
    /\ outbox # Nil <=> phone # Nil /\ phone.status \in {"pending", "failed"}
    /\ dispute # Nil <=> phone # Nil /\ phone.status = "conflict"

\* Ids are drawn once.
DrawnOnce ==
    /\ DOMAIN history \subseteq Drawn
    /\ \A o \in made : o.id \in Drawn
    /\ \A o, p \in made : o.id = p.id => o = p
    /\ \A oc \in outcomes : oc.key \in Drawn
    /\ outbox # Nil => outbox.key \in Drawn
    /\ \A oc, od \in outcomes : oc.key = od.key => oc = od

\* A mutation carries the phone's state and observations it has made.
Coherent(b) ==
    /\ b = Acc!Body(b.base, b.hb, b.obs, b.fin)
    /\ b.fin = phone.st
    /\ Acc!Range(b.obs) \subseteq made /\ Acc!IsInjective(b.obs)

\* What a mutation takes for the state before its edits makes the same history
\* as the row, as long as the row is at its base.
Based(b) ==
    /\ b.base # 0 => account # Nil /\ b.base <= account.ver
    /\ account # Nil /\ b.base = account.ver => b.hb # Nil /\ ~ Acc!Differs(b.hb, account.st)

Bodies ==
    /\ outbox # Nil => Coherent(outbox.body) /\ Based(outbox.body)
    /\ dispute # Nil => Coherent(dispute.local) /\ Known(dispute.ver, dispute.server)
    /\ phone # Nil /\ phone.status = "synced" => Known(phone.ver, phone.st)

Accepted == {"applied", "duplicate"}

True(r, b) ==
    /\ r.status \in Accepted => Known(r.ver, b.fin)
    /\ r.status = "conflict" => Known(r.ver, r.st)

Outcomes ==
    /\ account # Nil => account.ver # 0
    /\ \A oc \in outcomes :
         /\ True(oc.result, oc.body)
         /\ oc.result.status # "duplicate"
         /\ oc.result.status = "rejected" => ~ Acc!Valid(oc.body)

\* The result of a push is read from an outcome.
Grounds(r, b, oc) ==
    /\ r.status \in Accepted => oc.body = b /\ oc.result.status = "applied"
    /\ r.status = "conflict" => oc.result.status = "conflict"
    /\ r.status = "rejected" => oc.body # b \/ oc.result.status = "rejected"

Answers ==
    push # Nil /\ push.result # Nil =>
        /\ True(push.result, push.body)
        /\ \E oc \in outcomes : oc.key = push.key /\ Grounds(push.result, push.body, oc)

Here(o) == o.id \in DOMAIN history /\ history[o.id] = o.is

\* In the history, if only with the server's date.
Noted(o) == history[o.id] \in {o.is, [o.is EXCEPT !.at = Acc!Now]}

Applied(k) == \E oc \in outcomes : oc.key = k /\ oc.result.status = "applied"

HistoryStands ==
    /\ \A o \in made : o.id \in DOMAIN history => Noted(o)
    /\ \A o \in made :
         \/ outbox # Nil /\ o \in Acc!Range(outbox.body.obs)
         \/ dispute # Nil /\ o \in Acc!Range(dispute.local.obs)
         \/ Here(o)
    /\ push # Nil /\ push.at = "answer" /\ push.result.status \in Accepted =>
         \A o \in Acc!Range(push.body.obs) : Here(o)
    /\ outbox # Nil /\ ~ Applied(outbox.key) =>
         \A o \in Acc!Range(outbox.body.obs) : o.id \notin DOMAIN history
    /\ dispute # Nil => \A o \in Acc!Range(dispute.local.obs) : o.id \notin DOMAIN history
    /\ account # Nil => \E i \in DOMAIN history : ~ Acc!Differs(account.st, history[i])

AccInv ==
    /\ Acc!TypeOK
    /\ Phases /\ DrawnOnce /\ Bodies /\ Outcomes /\ Answers /\ HistoryStands
    /\ Acc!RefusalHasCause /\ Acc!ReaderFollows

-----------------------------------------------------------------------------
(* Constants and sequences *)

LEMMA AccApart ==
    /\ \A x \in AccountState : x # Nil
    /\ \A x \in Acc!Row : x # Nil
    /\ \A x \in Acc!PhoneRow : x # Nil
    /\ \A x \in Acc!OutboxRow : x # Nil
    /\ \A x \in Acc!Dispute : x # Nil
    /\ \A x \in Acc!Push : x # Nil
    /\ \A x \in Acc!Result : x # Nil
BY ServicesAssumption, Zenon

LEMMA BodyIs ==
    ASSUME NEW base \in Nat, NEW hb \in AccountState \cup {Nil},
           NEW obs \in Seq(Acc!Observation), NEW fin \in AccountState
    PROVE  LET b == Acc!Body(base, hb, obs, fin) IN
           /\ b \in Acc!Mutation
           /\ b.base = base /\ b.hb = hb /\ b.obs = obs /\ b.fin = fin
<1>1. obs # <<>> => Acc!Last(obs).id \in Nat
  <2> SUFFICES ASSUME obs # <<>> PROVE Acc!Last(obs).id \in Nat
    OBVIOUS
  <2>1. Len(obs) \in DOMAIN obs
    OBVIOUS
  <2>2. Acc!Last(obs) \in Acc!Observation
    BY <2>1 DEF Acc!Last
  <2> QED  BY <2>2 DEF Acc!Observation
<1> QED  BY <1>1 DEF Acc!Body, Acc!Mutation

LEMMA Inserting ==
    ASSUME NEW S, NEW s \in Seq(S), NEW e \in S, NEW i \in 1..Len(s) + 1
    PROVE  LET t == Acc!InsertAt(s, i, e) IN
           /\ t \in Seq(S) /\ t # <<>>
           /\ Acc!Range(t) = Acc!Range(s) \cup {e}
           /\ Acc!IsInjective(s) /\ e \notin Acc!Range(s) => Acc!IsInjective(t)
<1> DEFINE t == Acc!InsertAt(s, i, e)
<1>1. /\ t \in Seq(S) /\ Len(t) = Len(s) + 1
      /\ \A j \in 1..Len(t) : t[j] = IF j < i THEN s[j] ELSE IF j = i THEN e ELSE s[j - 1]
  <2> DEFINE a == SubSeq(s, 1, i - 1)
             c == SubSeq(s, i, Len(s))
  <2>1. a \in Seq(S) /\ Len(a) = i - 1 /\ \A j \in 1..(i - 1) : a[j] = s[j]
    OBVIOUS
  <2>2. c \in Seq(S) /\ Len(c) = Len(s) - i + 1 /\ \A j \in 1..(Len(s) - i + 1) : c[j] = s[i + j - 1]
    OBVIOUS
  <2>3. t = (a \o <<e>>) \o c
    BY DEF Acc!InsertAt
  <2> HIDE DEF a, c, t
  <2> DEFINE d == a \o <<e>>
  <2>4. /\ d \in Seq(S) /\ Len(d) = i
        /\ \A j \in 1..i : d[j] = IF j < i THEN s[j] ELSE e
    BY <2>1
  <2>5. t = d \o c
    BY <2>3
  <2> HIDE DEF d
  <2>6. t \in Seq(S) /\ Len(t) = Len(s) + 1
    <3>1. t \in Seq(S) /\ Len(t) = Len(d) + Len(c)
      BY <2>2, <2>4, <2>5
    <3>2. Len(s) \in Nat /\ i \in Int
      OBVIOUS
    <3> QED  BY <2>2, <2>4, <3>1, <3>2
  <2>7. ASSUME NEW j \in 1..Len(t)
        PROVE  t[j] = IF j < i THEN s[j] ELSE IF j = i THEN e ELSE s[j - 1]
    <3>1. CASE j \in 1..i
      BY <2>2, <2>4, <2>5, <2>6, <3>1
    <3>2. CASE j \notin 1..i
      <4>1. j - i \in 1..(Len(s) - i + 1) /\ i + (j - i) - 1 = j - 1
        BY <2>6, <3>2
      <4>2. t[j] = c[j - i]
        BY <2>2, <2>4, <2>5, <2>6, <3>2
      <4> QED  BY <2>2, <3>2, <4>1, <4>2
    <3> QED  BY <3>1, <3>2
  <2> QED  BY <2>6, <2>7
<1> HIDE DEF t
<1>2. DOMAIN t = 1..Len(s) + 1 /\ DOMAIN s = 1..Len(s) /\ Len(s) \in Nat
  BY <1>1
<1>3. \A j \in DOMAIN t : t[j] \in Acc!Range(s) \cup {e}
  BY <1>1, <1>2 DEF Acc!Range
<1>4. \A j \in DOMAIN s : \E k \in DOMAIN t : t[k] = s[j]
  <2> TAKE j \in DOMAIN s
  <2>1. CASE j < i
    BY <1>1, <1>2, <2>1
  <2>2. CASE ~ (j < i)
    <3>1. j + 1 \in DOMAIN t /\ ~ (j + 1 < i) /\ j + 1 # i /\ (j + 1) - 1 = j
      BY <1>2, <2>2
    <3> QED  BY <1>1, <1>2, <3>1
  <2> QED  BY <2>1, <2>2
<1>5. t[i] = e /\ i \in DOMAIN t
  BY <1>1, <1>2
<1>6. Acc!Range(t) = Acc!Range(s) \cup {e}
  BY <1>3, <1>4, <1>5 DEF Acc!Range
<1>7. ASSUME Acc!IsInjective(s), e \notin Acc!Range(s) PROVE Acc!IsInjective(t)
  <2>1. ASSUME NEW a \in DOMAIN t, NEW b \in DOMAIN t, t[a] = t[b], a < b
        PROVE  FALSE
    <3>1. \A j \in DOMAIN s : s[j] # e
      BY <1>7 DEF Acc!Range
    <3>2. \A j, k \in DOMAIN s : s[j] = s[k] => j = k
      BY <1>7 DEF Acc!IsInjective
    <3>3. CASE b < i
      BY <1>1, <1>2, <2>1, <3>2, <3>3
    <3>4. CASE b = i
      BY <1>1, <1>2, <2>1, <3>1, <3>4
    <3>5. CASE b > i
      <4>1. b - 1 \in DOMAIN s /\ t[b] = s[b - 1]
        BY <1>1, <1>2, <3>5
      <4>2. CASE a < i
        BY <1>1, <1>2, <2>1, <3>2, <3>5, <4>1, <4>2
      <4>3. CASE a = i
        BY <1>1, <1>2, <2>1, <3>1, <4>1, <4>3
      <4>4. CASE a > i
        <5>1. a - 1 \in DOMAIN s /\ t[a] = s[a - 1]
          BY <1>1, <1>2, <4>4
        <5> QED  BY <1>2, <2>1, <3>2, <4>1, <5>1
      <4> QED  BY <1>2, <4>2, <4>3, <4>4
    <3> QED  BY <1>2, <3>3, <3>4, <3>5
  <2>2. \A a, b \in DOMAIN t : a < b \/ b < a \/ a = b
    BY <1>2
  <2>3. \A a, b \in DOMAIN t : t[a] = t[b] => a = b
    BY <2>1, <2>2
  <2> QED  BY <2>3 DEF Acc!IsInjective
<1>8. t # <<>>
  BY <1>1
<1> QED  BY <1>1, <1>6, <1>7, <1>8 DEF t

\* The elements of a finite set of numbers in their order, each once.
LEMMA Ranked ==
    ASSUME NEW N \in SUBSET Nat, IsFiniteSet(N)
    PROVE  \A k \in 1..Cardinality(N) : \E n \in N : Cardinality({m \in N : m <= n}) = k
<1> DEFINE Upto(n) == {m \in N : m <= n}
           f == [n \in N |-> Cardinality(Upto(n))]
<1>1. \A n \in N : /\ IsFiniteSet(Upto(n)) /\ Cardinality(Upto(n)) \in Nat
                   /\ Cardinality(Upto(n)) <= Cardinality(N) /\ Cardinality(Upto(n)) # 0
  <2> TAKE n \in N
  <2>1. Upto(n) \in SUBSET N /\ n \in Upto(n)
    OBVIOUS
  <2> HIDE DEF Upto
  <2>2. IsFiniteSet(Upto(n)) /\ Cardinality(Upto(n)) <= Cardinality(N)
    BY <2>1, FS_Subset
  <2>3. Cardinality(Upto(n)) \in Nat
    BY <2>2, FS_CardinalityType
  <2>4. Cardinality(Upto(n)) # 0
    BY <2>1, <2>2, FS_EmptySet
  <2> QED  BY <2>2, <2>3, <2>4
<1>2. Cardinality(N) \in Nat
  BY FS_CardinalityType
<1>3. ASSUME NEW m \in N, NEW n \in N, m < n
      PROVE  Cardinality(Upto(m)) # Cardinality(Upto(n))
  <2>1. m \in Nat /\ n \in Nat /\ n <= n /\ ~ (n <= m)
    BY <1>3
  <2>2. \A x \in N : x <= m => x <= n
    BY <1>3, <2>1
  <2>3. Upto(m) \in SUBSET Upto(n) /\ n \in Upto(n) /\ n \notin Upto(m)
    BY <2>1, <2>2
  <2> HIDE DEF Upto
  <2> QED  BY <1>1, <2>3, FS_Subset
<1>4. f \in Injection(N, 1..Cardinality(N))
  <2>1. f \in [N -> 1..Cardinality(N)]
    BY <1>1, <1>2
  <2>2. \A m, n \in N : f[m] = f[n] => m = n
    <3> TAKE m, n \in N
    <3>1. m \in Nat /\ n \in Nat
      OBVIOUS
    <3>2. m < n \/ n < m \/ m = n
      BY <3>1
    <3> QED  BY <1>3, <3>2
  <2> HIDE DEF f
  <2> QED  BY <2>1, <2>2 DEF Injection, IsInjective
<1>5. IsFiniteSet(1..Cardinality(N)) /\ Cardinality(1..Cardinality(N)) = Cardinality(N)
  BY <1>2, FS_Interval
<1>6. f \in Surjection(N, 1..Cardinality(N))
  <2> HIDE DEF f
  <2> QED  BY <1>4, <1>5, FS_Injection
<1>7. \A k \in 1..Cardinality(N) : \E n \in N : f[n] = k
  <2> HIDE DEF f
  <2> QED  BY <1>6 DEF Surjection
<1>8. \A k \in 1..Cardinality(N) : \E n \in N : Cardinality(Upto(n)) = k
  BY <1>7
<1> QED  BY <1>8

\* The instance counts as the library does.
LEMMA AccCounts == \A S : Acc!Cardinality(S) = Cardinality(S)
BY DEF Acc!Cardinality, Cardinality

\* What is inserted anew has ids the history lacks, each once.
LEMMA Lacking ==
    ASSUME NEW obs \in Seq(Acc!Observation),
           \A m, n \in DOMAIN obs : obs[m].id = obs[n].id => m = n
    PROVE  LET u == Acc!Unrecorded(obs) IN
           \E N \in Nat :
              /\ DOMAIN u = 1..N /\ u = [k \in 1..N |-> u[k]]
              /\ \A k \in 1..N : u[k] \notin DOMAIN history /\ \E n \in DOMAIN obs : u[k] = obs[n].id
              /\ \A j, k \in 1..N : u[j] = u[k] => j = k
<1> DEFINE lacking == {n \in DOMAIN obs : obs[n].id \notin DOMAIN history}
           upto(n) == {m \in lacking : m <= n}
           N == Acc!Cardinality(lacking)
           nth(k) == CHOOSE n \in lacking : Acc!Cardinality(upto(n)) = k
           u == [k \in 1..N |-> obs[nth(k)].id]
<1>1. Acc!Unrecorded(obs) = u
  BY DEF Acc!Unrecorded
<1>2. lacking \in SUBSET Nat /\ IsFiniteSet(lacking)
  <2>1. DOMAIN obs = 1..Len(obs) /\ Len(obs) \in Nat
    OBVIOUS
  <2>2. IsFiniteSet(1..Len(obs))
    BY <2>1, FS_Interval
  <2> QED  BY <2>1, <2>2, FS_Subset
<1>3. lacking \subseteq DOMAIN obs /\ \A n \in lacking : obs[n].id \notin DOMAIN history
  OBVIOUS
<1>4. N \in Nat
  BY <1>2, AccCounts, FS_CardinalityType
<1>5. \A k \in 1..N : \E n \in lacking : Acc!Cardinality(upto(n)) = k
  <2> HIDE DEF lacking
  <2>1. \A k \in 1..Cardinality(lacking) : \E n \in lacking : Cardinality(upto(n)) = k
    BY <1>2, Ranked
  <2> HIDE DEF upto
  <2> QED  BY <2>1, AccCounts
<1> HIDE DEF lacking, upto, N
<1>6. \A k \in 1..N : nth(k) \in lacking /\ Acc!Cardinality(upto(nth(k))) = k
  BY <1>5
<1> HIDE DEF nth
<1>7. \A j, k \in 1..N : nth(j) = nth(k) => j = k
  BY <1>6
<1>8. DOMAIN u = 1..N /\ u = [k \in 1..N |-> u[k]]
  OBVIOUS
<1>9. \A k \in 1..N : u[k] \notin DOMAIN history /\ \E n \in DOMAIN obs : u[k] = obs[n].id
  BY <1>3, <1>6
<1>10. \A j, k \in 1..N : u[j] = u[k] => j = k
  BY <1>3, <1>6, <1>7
<1> HIDE DEF u
<1> QED  BY <1>1, <1>4, <1>8, <1>9, <1>10

-----------------------------------------------------------------------------
(* The phone's steps: the server's tables and the reader stand *)

\* What the phone and its push are made of.
Ours == <<phone, outbox, dispute, push, made, accCount>>

Theirs == <<account, history, feed, outcomes, reader>>

LEMMA AccInit == Acc!Init => AccInv
<1> SUFFICES ASSUME Acc!Init PROVE AccInv
  OBVIOUS
<1> USE DEF Acc!Init
<1>1. Acc!TypeOK
  <2>1. history \in [DOMAIN history -> Acc!Snapshot]
    OBVIOUS
  <2>2. feed \in Seq(DOMAIN history) /\ Acc!IsInjective(feed)
    BY DEF Acc!IsInjective
  <2>3. reader.seen \in 0..Len(feed) /\ DOMAIN reader.copy = {feed[n] : n \in 1..reader.seen}
    OBVIOUS
  <2> QED  BY <2>1, <2>2, <2>3 DEF Acc!TypeOK
<1>2. Phases /\ DrawnOnce /\ Bodies /\ Outcomes /\ Answers /\ HistoryStands
  BY DEF Phases, DrawnOnce, Bodies, Outcomes, Answers, HistoryStands
<1>3. Acc!RefusalHasCause /\ Acc!ReaderFollows
  BY DEF Acc!RefusalHasCause, Acc!ReaderFollows
<1> QED  BY <1>1, <1>2, <1>3 DEF AccInv

LEMMA OthersStand ==
    ASSUME AccInv, UNCHANGED Theirs
    PROVE  /\ Outcomes' /\ Acc!ReaderFollows'
           /\ (history \in [DOMAIN history -> Acc!Snapshot])'
           /\ (feed \in Seq(DOMAIN history) /\ Acc!IsInjective(feed))'
           /\ (reader.seen \in 0..Len(feed) /\ DOMAIN reader.copy = {feed[n] : n \in 1..reader.seen})'
           /\ (account \in Acc!Row \cup {Nil})'
           /\ (outcomes \subseteq [key : Nat, body : Acc!Mutation, result : Acc!Result])'
           /\ (account # Nil => \E i \in DOMAIN history : ~ Acc!Differs(account.st, history[i]))'
<1> USE DEF Theirs
<1>1. Outcomes'
  BY DEF AccInv, Outcomes, True, Known
<1>2. Acc!ReaderFollows'
  BY DEF AccInv, Acc!ReaderFollows
<1>3. (account # Nil => \E i \in DOMAIN history : ~ Acc!Differs(account.st, history[i]))'
  BY DEF AccInv, HistoryStands, Acc!Differs, Acc!HistoryOf
<1> QED  BY <1>1, <1>2, <1>3 DEF AccInv, Acc!TypeOK

\* The parts of the history's account that a step of the phone may disturb.
LEMMA HistoryFrame ==
    ASSUME AccInv, UNCHANGED Theirs, made' \subseteq made,
           (/\ \A o \in made :
                \/ outbox # Nil /\ o \in Acc!Range(outbox.body.obs)
                \/ dispute # Nil /\ o \in Acc!Range(dispute.local.obs)
                \/ Here(o)
            /\ push # Nil /\ push.at = "answer" /\ push.result.status \in Accepted =>
                 \A o \in Acc!Range(push.body.obs) : Here(o)
            /\ outbox # Nil /\ ~ Applied(outbox.key) =>
                 \A o \in Acc!Range(outbox.body.obs) : o.id \notin DOMAIN history
            /\ dispute # Nil => \A o \in Acc!Range(dispute.local.obs) : o.id \notin DOMAIN history)'
    PROVE  HistoryStands'
<1>1. (\A o \in made : o.id \in DOMAIN history => Noted(o))'
  BY DEF AccInv, HistoryStands, Noted, Theirs
<1> QED  BY <1>1, OthersStand DEF HistoryStands

LEMMA AccSend ==
    ASSUME AccInv, Acc!Send
    PROVE  AccInv'
<1> USE DEF Acc!Send
<1>0. UNCHANGED Theirs
  BY DEF Theirs
<1>1. Acc!TypeOK'
  <2>1. (outbox \in Acc!OutboxRow \cup {Nil})'
    BY DEF AccInv, Acc!TypeOK, Acc!OutboxRow
  <2>2. (push \in Acc!Push \cup {Nil})'
    BY DEF AccInv, Acc!TypeOK, Acc!OutboxRow, Acc!Push, Acc!Stage
  <2> QED  BY <1>0, <2>1, <2>2, OthersStand DEF AccInv, Acc!TypeOK
<1>2. Phases'
  <2>1. push' # Nil
    BY <1>1, AccApart DEF AccInv, Acc!TypeOK, Acc!OutboxRow, Acc!Push, Acc!Stage
  <2> QED  BY <2>1, AccApart DEF AccInv, Phases, Acc!TypeOK, Acc!OutboxRow
<1>3. DrawnOnce'
  BY DEF AccInv, DrawnOnce, Drawn, Acc!TypeOK, Acc!OutboxRow
<1>4. Bodies'
  BY DEF AccInv, Bodies, Coherent, Based, Known, Acc!TypeOK, Acc!OutboxRow
<1>5. Answers'
  BY DEF Answers
<1>6. HistoryStands'
  <2>1. HistoryStands /\ outbox' # Nil /\ outbox'.key = outbox.key /\ outbox'.body = outbox.body
    BY <1>2 DEF AccInv, Acc!TypeOK, Acc!OutboxRow, Phases
  <2>2. push'.at = "core" /\ Applied(outbox.key)' = Applied(outbox.key)
    BY DEF Applied
  <2> QED  BY <1>0, <2>1, <2>2, HistoryFrame DEF HistoryStands, Here, Applied
<1>7. Acc!RefusalHasCause'
  BY DEF Acc!RefusalHasCause, AccInv, Acc!TypeOK, Acc!OutboxRow
<1> QED  BY <1>0, <1>1, <1>2, <1>3, <1>4, <1>5, <1>6, <1>7, OthersStand DEF AccInv

\* A step of a bounded kind counts itself and the ids it draws.
LEMMA Counting ==
    ASSUME NEW c \in [ids : Nat, edits : Nat, web : Nat, lost : Nat],
           NEW kind \in {"edits", "web", "lost"}, NEW n \in Nat
    PROVE  LET d == [c EXCEPT ![kind] = @ + 1, !.ids = @ + n] IN
           d \in [ids : Nat, edits : Nat, web : Nat, lost : Nat] /\ d.ids = c.ids + n
<1> DEFINE F == [{"ids", "edits", "web", "lost"} -> Nat]
           d == [c EXCEPT ![kind] = @ + 1, !.ids = @ + n]
<1>1. c \in F
  OBVIOUS
<1>2. d.ids = c.ids + n
  BY <1>1
<1>3. d = [[c EXCEPT ![kind] = @ + 1] EXCEPT !.ids = @ + n]
  OBVIOUS
<1>4. [c EXCEPT ![kind] = @ + 1] \in [ids : Nat, edits : Nat, web : Nat, lost : Nat]
  <2>1. CASE kind = "edits"
    BY <2>1
  <2>2. CASE kind = "lost"
    BY <2>2
  <2>3. CASE kind = "web"
    BY <2>3
  <2> QED  BY <2>1, <2>2, <2>3
<1>5. d \in [ids : Nat, edits : Nat, web : Nat, lost : Nat]
  <2>1. \A e \in [ids : Nat, edits : Nat, web : Nat, lost : Nat] :
           [e EXCEPT !.ids = @ + n] \in [ids : Nat, edits : Nat, web : Nat, lost : Nat]
    OBVIOUS
  <2> HIDE DEF d
  <2> QED  BY <1>3, <1>4, <2>1
<1> QED  BY <1>2, <1>5

LEMMA CountIs ==
    ASSUME AccInv
    PROVE  /\ accCount \in [ids : Nat, edits : Nat, web : Nat, lost : Nat]
           /\ accCount.ids \in Nat /\ Acc!NewId = accCount.ids + 1 /\ Drawn = 1..accCount.ids
BY DEF AccInv, Acc!TypeOK, Acc!NewId, Drawn

LEMMA Counted ==
    ASSUME AccInv, NEW kind \in {"edits", "web", "lost"}, NEW n \in Nat, Acc!Count(kind, n)
    PROVE  /\ accCount' \in [ids : Nat, edits : Nat, web : Nat, lost : Nat]
           /\ accCount'.ids = accCount.ids + n
<1> DEFINE d == [accCount EXCEPT ![kind] = @ + 1, !.ids = @ + n]
<1>1. accCount' = d
  BY DEF Acc!Count
<1>2. d \in [ids : Nat, edits : Nat, web : Nat, lost : Nat] /\ d.ids = accCount.ids + n
  BY CountIs, Counting
<1> HIDE DEF d
<1> QED  BY <1>1, <1>2

LEMMA AccLose ==
    ASSUME AccInv, Acc!Lose
    PROVE  AccInv'
<1>c. (accCount \in [ids : Nat, edits : Nat, web : Nat, lost : Nat])' /\ accCount'.ids = accCount.ids
  <2>1. accCount' \in [ids : Nat, edits : Nat, web : Nat, lost : Nat] /\ accCount'.ids = accCount.ids + 0
    BY Counted DEF Acc!Lose
  <2> QED  BY <2>1, CountIs
<1> USE DEF Acc!Lose
<1>0. UNCHANGED Theirs
  BY DEF Theirs
<1>1. Acc!TypeOK'
  <2>1. (outbox \in Acc!OutboxRow \cup {Nil})'
    BY DEF AccInv, Phases, Acc!TypeOK, Acc!OutboxRow
  <2> QED  BY <1>0, <1>c, <2>1, OthersStand DEF AccInv, Acc!TypeOK
<1>2. Phases'
  BY AccApart DEF AccInv, Phases, Acc!TypeOK, Acc!OutboxRow
<1>3. DrawnOnce'
  <2>1. DrawnOnce /\ outbox # Nil /\ outbox'.key = outbox.key
    BY DEF AccInv, Acc!TypeOK, Acc!OutboxRow, Phases
  <2> QED  BY <1>c, <2>1 DEF DrawnOnce, Drawn
<1>4. Bodies'
  BY DEF AccInv, Bodies, Coherent, Based, Known, Phases, Acc!TypeOK, Acc!OutboxRow
<1>5. Answers'
  BY DEF Answers
<1>6. HistoryStands'
  <2>1. HistoryStands /\ outbox # Nil /\ outbox'.key = outbox.key /\ outbox'.body = outbox.body
    BY DEF AccInv, Acc!TypeOK, Acc!OutboxRow, Phases
  <2>2. outbox' # Nil
    BY <1>2, <2>1 DEF AccInv, Phases
  <2>3. Applied(outbox.key)' = Applied(outbox.key)
    BY <2>1 DEF Applied
  <2>4. (\A o \in made :
           \/ outbox # Nil /\ o \in Acc!Range(outbox.body.obs)
           \/ dispute # Nil /\ o \in Acc!Range(dispute.local.obs)
           \/ Here(o))'
    BY <2>1, <2>2 DEF HistoryStands, Here
  <2>5. (/\ outbox # Nil /\ ~ Applied(outbox.key) =>
               \A o \in Acc!Range(outbox.body.obs) : o.id \notin DOMAIN history
         /\ dispute # Nil => \A o \in Acc!Range(dispute.local.obs) : o.id \notin DOMAIN history)'
    BY <2>1, <2>3 DEF HistoryStands
  <2> QED  BY <1>0, <2>4, <2>5, HistoryFrame
<1>7. Acc!RefusalHasCause'
  BY DEF Acc!RefusalHasCause, AccInv, Phases, Acc!TypeOK, Acc!OutboxRow
<1> QED  BY <1>0, <1>1, <1>2, <1>3, <1>4, <1>5, <1>6, <1>7, OthersStand DEF AccInv

LEMMA AccPull ==
    ASSUME AccInv, Acc!PullAccount
    PROVE  AccInv'
<1> USE DEF Acc!PullAccount
<1>0. UNCHANGED Theirs
  BY DEF Theirs
<1>1. Acc!TypeOK'
  <2>1. (phone \in Acc!PhoneRow \cup {Nil})'
    BY DEF AccInv, Acc!TypeOK, Acc!PhoneRow, Acc!Row
  <2> QED  BY <1>0, <2>1, OthersStand DEF AccInv, Acc!TypeOK
<1>2. outbox = Nil /\ dispute = Nil /\ phone' # Nil
  BY <1>1, AccApart DEF AccInv, Phases, Acc!TypeOK, Acc!PhoneRow, Acc!Row
<1>3. Phases'
  BY <1>2 DEF Phases, AccInv
<1>4. DrawnOnce'
  BY DEF AccInv, DrawnOnce, Drawn
<1>5. Bodies'
  BY <1>2 DEF AccInv, Bodies, Known, Outcomes, Acc!TypeOK, Acc!Row
<1>6. Answers'
  BY DEF Answers
<1>7. HistoryStands'
  BY <1>0, <1>2, OthersStand DEF AccInv, HistoryStands, Here, Noted
<1>8. Acc!RefusalHasCause'
  BY <1>2 DEF Acc!RefusalHasCause
<1> QED  BY <1>0, <1>1, <1>3, <1>4, <1>5, <1>6, <1>7, <1>8, OthersStand DEF AccInv

LEMMA AccUseServer ==
    ASSUME AccInv, Acc!UseServer
    PROVE  AccInv'
<1> USE DEF Acc!UseServer
<1>0. UNCHANGED Theirs
  BY DEF Theirs
<1>1. Acc!TypeOK'
  <2>1. (phone \in Acc!PhoneRow \cup {Nil})'
    BY DEF AccInv, Acc!TypeOK, Acc!PhoneRow, Acc!Dispute
  <2> QED  BY <1>0, <2>1, OthersStand DEF AccInv, Acc!TypeOK
<1>2. outbox = Nil /\ phone' # Nil
  <2>1. outbox = Nil
    BY DEF AccInv, Phases
  <2>2. phone' \in Acc!PhoneRow
    BY DEF AccInv, Acc!TypeOK, Acc!PhoneRow, Acc!Dispute
  <2> QED  BY <2>1, <2>2, AccApart
<1>3. Phases'
  BY <1>2 DEF Phases, AccInv
<1>4. DrawnOnce'
  BY DEF AccInv, DrawnOnce, Drawn
<1>5. Bodies'
  BY <1>2 DEF AccInv, Bodies, Known
<1>6. Answers'
  BY DEF Answers
<1>7. HistoryStands'
  BY <1>0, <1>2, OthersStand DEF AccInv, HistoryStands, Here, Noted
<1>8. Acc!RefusalHasCause'
  BY <1>2 DEF Acc!RefusalHasCause
<1> QED  BY <1>0, <1>1, <1>3, <1>4, <1>5, <1>6, <1>7, <1>8, OthersStand DEF AccInv

LEMMA AccKeepMine ==
    ASSUME AccInv, Acc!KeepMine
    PROVE  AccInv'
<1> DEFINE l == dispute.local
           b == Acc!Body(dispute.ver, dispute.server, l.obs, l.fin)
<1>0. UNCHANGED Theirs
  BY DEF Theirs, Acc!KeepMine
<1>1. /\ dispute \in Acc!Dispute /\ push = Nil /\ push' = Nil /\ dispute' = Nil /\ made' = made
      /\ outbox' = [key |-> Acc!NewId, status |-> "queued", body |-> b]
      /\ phone' = [phone EXCEPT !.status = "pending", !.ver = dispute.ver]
      /\ accCount' = [accCount EXCEPT !.ids = @ + 1]
  BY DEF AccInv, Acc!TypeOK, Acc!KeepMine
<1>2. /\ phone # Nil /\ phone.status = "conflict" /\ outbox = Nil /\ phone \in Acc!PhoneRow
      /\ Coherent(l) /\ Known(dispute.ver, dispute.server)
      /\ \A o \in Acc!Range(l.obs) : o.id \notin DOMAIN history
  BY DEF AccInv, Phases, Bodies, HistoryStands, Acc!KeepMine, Acc!TypeOK
<1>3. dispute.ver \in Nat /\ dispute.server \in AccountState /\ l \in Acc!Mutation
  BY <1>1 DEF Acc!Dispute
<1>4. l.obs \in Seq(Acc!Observation) /\ l.fin \in AccountState
  BY <1>3 DEF Acc!Mutation
<1>5. /\ b \in Acc!Mutation /\ b.base = dispute.ver /\ b.hb = dispute.server
      /\ b.obs = l.obs /\ b.fin = l.fin
  BY <1>3, <1>4, BodyIs
<1>6. b = Acc!Body(b.base, b.hb, b.obs, b.fin)
  BY <1>5
<1> HIDE DEF b
<1>7. accCount.ids \in Nat /\ accCount'.ids = accCount.ids + 1 /\ Acc!NewId = accCount.ids + 1
  BY <1>1 DEF AccInv, Acc!TypeOK, Acc!NewId
<1>8. outbox' \in Acc!OutboxRow /\ outbox' # Nil /\ outbox'.key = accCount.ids + 1
      /\ outbox'.status = "queued" /\ outbox'.body = b
  BY <1>1, <1>5, <1>7, AccApart DEF Acc!OutboxRow
<1>9. phone' \in Acc!PhoneRow /\ phone' # Nil /\ phone'.status = "pending" /\ phone'.st = phone.st
  BY <1>1, <1>2, <1>3, AccApart DEF Acc!PhoneRow
<1>10. Acc!TypeOK'
  <2>1. (accCount \in [ids : Nat, edits : Nat, web : Nat, lost : Nat])'
    <3>1. [accCount EXCEPT !.ids = @ + 1] \in [ids : Nat, edits : Nat, web : Nat, lost : Nat]
      BY CountIs
    <3> QED  BY <1>1, <3>1
  <2> QED  BY <1>0, <1>1, <1>8, <1>9, <2>1, OthersStand DEF AccInv, Acc!TypeOK
<1>11. Phases'
  BY <1>1, <1>8, <1>9 DEF Phases
<1>12. DrawnOnce'
  BY <1>0, <1>1, <1>7, <1>8 DEF AccInv, DrawnOnce, Drawn, Theirs
<1>13. Bodies'
  <2>1. /\ b.fin = phone'.st /\ Acc!Range(b.obs) \subseteq made' /\ Acc!IsInjective(b.obs)
    BY <1>1, <1>2, <1>5, <1>9 DEF Coherent
  <2>2. /\ b.base # 0 => account' # Nil /\ b.base <= account'.ver
        /\ account' # Nil /\ b.base = account'.ver => b.hb # Nil /\ ~ Acc!Differs(b.hb, account'.st)
    BY <1>0, <1>2, <1>3, <1>5, AccApart DEF Known, Acc!Differs, Theirs
  <2>3. \A m : m = b => Coherent(m)' /\ Based(m)'
    BY <1>6, <2>1, <2>2 DEF Coherent, Based
  <2> QED  BY <1>1, <1>8, <1>9, <2>3 DEF Bodies
<1>14. Answers'
  BY <1>1 DEF Answers
<1>15. HistoryStands'
  <2>1. ~ Applied(outbox'.key)
    <3>1. \A oc \in outcomes : oc.key # accCount.ids + 1
      BY <1>7 DEF AccInv, DrawnOnce, Drawn
    <3> QED  BY <1>8, <3>1 DEF Applied
  <2> QED  BY <1>0, <1>1, <1>2, <1>5, <1>8, HistoryFrame DEF AccInv, HistoryStands, Here, Theirs
<1>16. Acc!RefusalHasCause'
  BY <1>8 DEF Acc!RefusalHasCause
<1> QED  BY <1>0, <1>10, <1>11, <1>12, <1>13, <1>14, <1>15, <1>16, OthersStand DEF AccInv

\* What an edit queues: its body, whose observations are those of the mutation
\* it joins and its own.
LEMMA Queueing ==
    ASSUME AccInv, NEW fin \in AccountState, NEW hb \in AccountState \cup {Nil},
           NEW oo \in Seq(Acc!Observation), oo = <<>> \/ Len(oo) = 1,
           Acc!Range(oo) \cap made = {},
           Acc!Queue(fin, oo, hb)
    PROVE  \E b \in Acc!Mutation :
              /\ outbox' \in Acc!OutboxRow /\ outbox'.status = "queued" /\ outbox'.body = b
              /\ b = Acc!Body(b.base, b.hb, b.obs, b.fin) /\ b.fin = fin
              /\ outbox = Nil => /\ outbox'.key = Acc!NewId
                                 /\ b.base = (IF phone = Nil THEN 0 ELSE phone.ver) /\ b.hb = hb
                                 /\ Acc!Range(b.obs) = Acc!Range(oo)
              /\ outbox # Nil => /\ outbox'.key = outbox.key
                                 /\ b.base = outbox.body.base /\ b.hb = outbox.body.hb
                                 /\ Acc!Range(b.obs) = Acc!Range(outbox.body.obs) \cup Acc!Range(oo)
              /\ Acc!IsInjective(b.obs)
<1>1. CASE outbox = Nil
  <2> DEFINE base == IF phone = Nil THEN 0 ELSE phone.ver
             b == Acc!Body(base, hb, oo, fin)
  <2>1. base \in Nat
    BY DEF AccInv, Acc!TypeOK, Acc!PhoneRow
  <2>2. outbox' = [key |-> Acc!NewId, status |-> "queued", body |-> b]
    BY <1>1 DEF Acc!Queue
  <2> HIDE DEF base
  <2>3. b \in Acc!Mutation /\ b.base = base /\ b.hb = hb /\ b.obs = oo /\ b.fin = fin
    <3>1. b \in Acc!Mutation
      BY <2>1, BodyIs
    <3>2. b.base = base /\ b.hb = hb
      BY DEF Acc!Body
    <3>3. b.obs = oo /\ b.fin = fin
      BY DEF Acc!Body
    <3> QED  BY <3>1, <3>2, <3>3
  <2>4. b = Acc!Body(b.base, b.hb, b.obs, b.fin)
    BY <2>3
  <2>5. Acc!IsInjective(oo)
    BY DEF Acc!IsInjective
  <2> HIDE DEF b
  <2>6. Acc!NewId \in Nat
    BY CountIs
  <2>7. outbox' \in Acc!OutboxRow /\ outbox'.key = Acc!NewId /\ outbox'.status = "queued" /\ outbox'.body = b
    BY <2>2, <2>3, <2>6 DEF Acc!OutboxRow
  <2> QED  BY <1>1, <2>3, <2>4, <2>5, <2>7 DEF base
<1>2. CASE outbox # Nil
  <2> DEFINE old == outbox.body
             i == Acc!Cardinality({j \in DOMAIN old.obs : old.obs[j].is.at <= oo[1].is.at}) + 1
             obs == IF oo = <<>> THEN old.obs ELSE Acc!InsertAt(old.obs, i, oo[1])
             b == Acc!Body(old.base, old.hb, obs, fin)
  <2>1. /\ outbox \in Acc!OutboxRow /\ old \in Acc!Mutation
        /\ Acc!Range(old.obs) \subseteq made /\ Acc!IsInjective(old.obs)
    BY <1>2 DEF AccInv, Acc!TypeOK, Acc!OutboxRow, Bodies, Coherent
  <2>2. outbox' = [outbox EXCEPT !.status = "queued", !.body = b]
    BY <1>2 DEF Acc!Queue
  <2>3. old.base \in Nat /\ old.hb \in AccountState \cup {Nil} /\ old.obs \in Seq(Acc!Observation)
    BY <2>1 DEF Acc!Mutation
  <2>4. i \in 1..Len(old.obs) + 1
    <3> DEFINE sel == {j \in DOMAIN old.obs : old.obs[j].is.at <= oo[1].is.at}
    <3>1. DOMAIN old.obs = 1..Len(old.obs) /\ Len(old.obs) \in Nat /\ sel \subseteq DOMAIN old.obs
      BY <2>3
    <3>2. i = Acc!Cardinality(sel) + 1
      OBVIOUS
    <3> HIDE DEF sel, i, old
    <3>3. IsFiniteSet(1..Len(old.obs)) /\ Cardinality(1..Len(old.obs)) = Len(old.obs)
      BY <3>1, FS_Interval
    <3>4. IsFiniteSet(sel) /\ Cardinality(sel) <= Len(old.obs)
      BY <3>1, <3>3, FS_Subset
    <3>5. Cardinality(sel) \in Nat
      BY <3>4, FS_CardinalityType
    <3> QED  BY <3>1, <3>2, <3>4, <3>5, AccCounts
  <2> HIDE DEF i
  <2>5. /\ obs \in Seq(Acc!Observation) /\ Acc!IsInjective(obs)
        /\ Acc!Range(obs) = Acc!Range(old.obs) \cup Acc!Range(oo)
    <3>1. CASE oo = <<>>
      BY <2>1, <2>3, <3>1 DEF Acc!Range
    <3>2. CASE oo # <<>>
      <4>1. /\ oo[1] \in Acc!Observation /\ Acc!Range(oo) = {oo[1]} /\ oo[1] \notin made
            /\ obs = Acc!InsertAt(old.obs, i, oo[1])
        BY <3>2 DEF Acc!Range
      <4> HIDE DEF obs, old
      <4>2. oo[1] \notin Acc!Range(old.obs)
        BY <2>1, <4>1
      <4> QED  BY <2>1, <2>3, <2>4, <4>1, <4>2, Inserting
    <3> QED  BY <3>1, <3>2
  <2> HIDE DEF obs
  <2>6. b \in Acc!Mutation /\ b.base = old.base /\ b.hb = old.hb /\ b.obs = obs /\ b.fin = fin
    <3> HIDE DEF old
    <3>1. b \in Acc!Mutation
      BY <2>3, <2>5, BodyIs
    <3>2. b.base = old.base /\ b.hb = old.hb
      BY DEF Acc!Body
    <3>3. b.obs = obs /\ b.fin = fin
      BY DEF Acc!Body
    <3> QED  BY <3>1, <3>2, <3>3
  <2>7. b = Acc!Body(b.base, b.hb, b.obs, b.fin)
    BY <2>6
  <2> HIDE DEF b
  <2>8. outbox' \in Acc!OutboxRow /\ outbox'.key = outbox.key /\ outbox'.status = "queued" /\ outbox'.body = b
    BY <2>1, <2>2, <2>6 DEF Acc!OutboxRow
  <2> QED  BY <1>2, <2>5, <2>6, <2>7, <2>8
<1> QED  BY <1>1, <1>2

LEMMA AccEdit ==
    ASSUME AccInv, NEW fin \in AccountState, NEW date \in PhoneTime, Acc!Edit(fin, date)
    PROVE  AccInv'
<1> DEFINE o == [id |-> Acc!NewId + 1, is |-> Acc!Dated(fin, date)]
           historic == phone = Nil \/ Acc!Differs(phone.st, fin)
           oo == IF historic THEN <<o>> ELSE <<>>
           hb == IF phone = Nil THEN Nil ELSE phone.st
           ver == IF phone = Nil THEN 0 ELSE phone.ver
<1>0. UNCHANGED Theirs
  BY DEF Theirs, Acc!Edit
<1>1. /\ phone = Nil => account = Nil
      /\ phone # Nil => phone.status # "conflict"
      /\ outbox # Nil => outbox.status # "sending"
      /\ Acc!Queue(fin, oo, hb)
      /\ made' = made \cup Acc!Range(oo)
      /\ phone' = [st |-> fin, ver |-> ver, status |-> "pending"]
      /\ Acc!Count("edits", 2)
      /\ dispute' = dispute /\ push' = push
  BY DEF Acc!Edit, Acc!Range
<1>2. /\ accCount' \in [ids : Nat, edits : Nat, web : Nat, lost : Nat]
      /\ accCount'.ids = accCount.ids + 2
  BY <1>1, Counted
<1>3. hb \in AccountState \cup {Nil} /\ ver \in Nat /\ (phone # Nil => hb = phone.st /\ ver = phone.ver)
  BY DEF AccInv, Acc!TypeOK, Acc!PhoneRow
<1>4. o \in Acc!Observation /\ o.id = accCount.ids + 2
  BY CountIs DEF Acc!Observation, Acc!Snapshot
<1>5. /\ oo \in Seq(Acc!Observation) /\ (oo = <<>> \/ Len(oo) = 1)
      /\ \A p \in Acc!Range(oo) : p = o
  <2> HIDE DEF o
  <2> QED  BY <1>4 DEF Acc!Range
<1> HIDE DEF o, oo, hb, ver
<1>6. \A p \in made : p.id \in 1..accCount.ids
  BY CountIs DEF AccInv, DrawnOnce
<1>7. Acc!Range(oo) \cap made = {}
  BY <1>4, <1>5, <1>6, CountIs
<1>8. PICK b \in Acc!Mutation :
        /\ outbox' \in Acc!OutboxRow /\ outbox'.status = "queued" /\ outbox'.body = b
        /\ b = Acc!Body(b.base, b.hb, b.obs, b.fin) /\ b.fin = fin
        /\ outbox = Nil => /\ outbox'.key = Acc!NewId
                           /\ b.base = (IF phone = Nil THEN 0 ELSE phone.ver) /\ b.hb = hb
                           /\ Acc!Range(b.obs) = Acc!Range(oo)
        /\ outbox # Nil => /\ outbox'.key = outbox.key
                           /\ b.base = outbox.body.base /\ b.hb = outbox.body.hb
                           /\ Acc!Range(b.obs) = Acc!Range(outbox.body.obs) \cup Acc!Range(oo)
        /\ Acc!IsInjective(b.obs)
  BY <1>1, <1>3, <1>5, <1>7, Queueing
<1>9. outbox' # Nil /\ phone' \in Acc!PhoneRow /\ phone' # Nil /\ phone'.st = fin /\ phone'.status = "pending"
  BY <1>1, <1>3, <1>8, AccApart DEF Acc!PhoneRow
<1>10. push = Nil /\ push' = Nil /\ dispute = Nil /\ dispute' = Nil
  BY <1>1 DEF AccInv, Phases
<1>11. Acc!TypeOK'
  BY <1>0, <1>1, <1>2, <1>4, <1>5, <1>8, <1>9, <1>10, OthersStand DEF AccInv, Acc!TypeOK
<1>12. Phases'
  BY <1>8, <1>9, <1>10 DEF Phases
<1>13. outbox'.key \in 1..(accCount.ids + 2)
  BY <1>8, CountIs DEF AccInv, DrawnOnce
<1>14. DrawnOnce'
  <2>1. Drawn' = 1..(accCount.ids + 2) /\ Drawn = 1..accCount.ids /\ accCount.ids \in Nat
    BY <1>2, CountIs DEF Drawn
  <2>2. DrawnOnce
    BY DEF AccInv
  <2>3. \A p \in made' : p = o \/ p \in made
    BY <1>1, <1>5
  <2>4. \A p \in made' : p.id \in Drawn'
    BY <1>4, <1>6, <2>1, <2>3
  <2>5. \A p, q \in made' : p.id = q.id => p = q
    BY <1>4, <1>6, <2>1, <2>2, <2>3 DEF DrawnOnce
  <2> QED  BY <1>0, <1>13, <2>1, <2>2, <2>4, <2>5 DEF DrawnOnce, Theirs
<1>15. Bodies'
  <2>1. Acc!Range(b.obs) \subseteq made'
    <3>1. outbox # Nil => Acc!Range(outbox.body.obs) \subseteq made
      BY DEF AccInv, Bodies, Coherent
    <3> QED  BY <1>1, <1>8, <3>1
  <2>2. Coherent(b)'
    BY <1>8, <1>9, <2>1 DEF Coherent
  <2>3. Based(b)'
    <3>1. CASE outbox # Nil
      <4>1. \A m : m = outbox.body => Based(m)
        BY <3>1 DEF AccInv, Bodies
      <4> QED  BY <1>0, <1>8, <3>1, <4>1 DEF Based, Theirs, Acc!Differs
    <3>2. CASE outbox = Nil /\ phone = Nil
      BY <1>0, <1>1, <1>8, <3>2 DEF Based, Theirs
    <3>3. CASE outbox = Nil /\ phone # Nil
      <4>1. phone \in Acc!PhoneRow /\ phone.status = "synced"
        BY <1>1, <3>3 DEF AccInv, Phases, Acc!TypeOK, Acc!PhoneRow
      <4>2. Known(phone.ver, phone.st) /\ hb # Nil
        BY <1>3, <3>3, <4>1, AccApart DEF AccInv, Bodies, Acc!PhoneRow
      <4> QED  BY <1>0, <1>3, <1>8, <3>3, <4>2 DEF Based, Known, Theirs, Acc!Differs
    <3> QED  BY <3>1, <3>2, <3>3
  <2> QED  BY <1>8, <1>9, <1>10, <2>2, <2>3 DEF Bodies
<1>16. Answers'
  BY <1>10 DEF Answers
<1>17. HistoryStands'
  <2>1. HistoryStands
    BY DEF AccInv
  <2>2. \A p \in Acc!Range(oo) : p.id \notin DOMAIN history
    BY <1>4, <1>5, CountIs DEF AccInv, DrawnOnce
  <2>4. ASSUME outbox' # Nil, ~ Applied(outbox.key)', NEW p \in Acc!Range(b.obs)
        PROVE  p.id \notin DOMAIN history
    <3>1. CASE p \in Acc!Range(oo)
      BY <2>2, <3>1
    <3>2. CASE p \notin Acc!Range(oo)
      <4>1. outbox # Nil /\ p \in Acc!Range(outbox.body.obs) /\ ~ Applied(outbox.key)
        BY <1>0, <1>8, <2>4, <3>2 DEF Applied, Theirs
      <4> QED  BY <2>1, <4>1 DEF HistoryStands
    <3> QED  BY <3>1, <3>2
  <2>5. ASSUME NEW p \in made'
        PROVE  (outbox' # Nil /\ p \in Acc!Range(b.obs)) \/ Here(p)'
    <3>1. CASE p \in Acc!Range(oo)
      BY <1>8, <1>9, <3>1
    <3>2. CASE p \notin Acc!Range(oo)
      <4>1. p \in made
        BY <1>1, <3>2
      <4>2. (outbox # Nil /\ p \in Acc!Range(outbox.body.obs)) \/ Here(p)
        BY <1>10, <2>1, <4>1 DEF HistoryStands
      <4> QED  BY <1>0, <1>8, <1>9, <4>2 DEF Here, Theirs
    <3> QED  BY <3>1, <3>2
  <2>6. \A p \in made' : p.id \in DOMAIN history' => Noted(p)'
    <3>1. \A p \in made' : p \in made \/ p.id \notin DOMAIN history
      BY <1>1, <2>2
    <3> QED  BY <1>0, <2>1, <3>1 DEF HistoryStands, Noted, Theirs
  <2> QED  BY <1>0, <1>8, <1>10, <2>4, <2>5, <2>6, OthersStand DEF HistoryStands, Theirs
<1>18. Acc!RefusalHasCause'
  BY <1>8 DEF Acc!RefusalHasCause
<1> QED  BY <1>0, <1>11, <1>12, <1>14, <1>15, <1>16, <1>17, <1>18, OthersStand DEF AccInv

\* The answer is stored as the push learnt it.
LEMMA AccPersist ==
    ASSUME AccInv, Acc!Persist
    PROVE  AccInv'
<1> DEFINE r == push.result
<1>0. UNCHANGED Theirs
  BY DEF Theirs, Acc!Persist
<1>1. /\ push # Nil /\ push \in Acc!Push /\ push.at = "answer" /\ push' = Nil
      /\ made' = made /\ accCount' = accCount
      /\ outbox' = IF r.status = "rejected" THEN [outbox EXCEPT !.status = "failed"] ELSE Nil
      /\ dispute' = IF r.status = "conflict"
                    THEN [ver |-> r.ver, server |-> r.st, local |-> push.body] ELSE dispute
      /\ r.status = "rejected" => phone' = [phone EXCEPT !.status = "failed"]
      /\ r.status = "conflict" => phone' = [phone EXCEPT !.status = "conflict", !.ver = r.ver]
      /\ r.status \in Accepted => phone' = [phone EXCEPT !.status = "synced", !.ver = r.ver]
  BY DEF AccInv, Acc!TypeOK, Acc!Persist, Accepted
<1>2. r \in Acc!Result /\ r # Nil
  BY <1>1, AccApart DEF AccInv, Phases, Acc!Push
<1>3. /\ outbox \in Acc!OutboxRow /\ outbox # Nil /\ push.key = outbox.key /\ push.body = outbox.body
      /\ phone \in Acc!PhoneRow /\ phone # Nil /\ phone.status \in {"pending", "failed"} /\ dispute = Nil
  BY <1>1 DEF AccInv, Phases, Acc!TypeOK
<1>4. push.body \in Acc!Mutation
  BY <1>1 DEF Acc!Push
<1>5. Coherent(push.body) /\ Based(push.body)
  <2>1. \A m : m = outbox.body => Coherent(m) /\ Based(m)
    BY <1>3 DEF AccInv, Bodies
  <2> QED  BY <1>3, <2>1
<1>6. True(r, push.body)
  BY <1>1, <1>2 DEF AccInv, Answers
<1>7. PICK oc \in outcomes : oc.key = push.key /\ Grounds(r, push.body, oc)
  BY <1>1, <1>2 DEF AccInv, Answers
<1> HIDE DEF r
<1>8. r.status \in {"rejected", "conflict"} \cup Accepted
  BY <1>2 DEF Acc!Result, Accepted
<1>h. HistoryStands
  BY DEF AccInv
\* The three answers, each with what it leaves.
<1>9. CASE r.status = "rejected"
  <2>1. /\ outbox' \in Acc!OutboxRow /\ outbox' # Nil /\ outbox'.status = "failed"
        /\ outbox'.key = outbox.key /\ outbox'.body = outbox.body
    BY <1>1, <1>3, <1>9, AccApart DEF Acc!OutboxRow
  <2>2. /\ phone' \in Acc!PhoneRow /\ phone' # Nil /\ phone'.status = "failed" /\ phone'.st = phone.st
    BY <1>1, <1>3, <1>9, AccApart DEF Acc!PhoneRow
  <2>3. dispute' = Nil
    BY <1>1, <1>3, <1>9
  <2>4. Acc!TypeOK'
    BY <1>0, <1>1, <2>1, <2>2, <2>3, OthersStand DEF AccInv, Acc!TypeOK
  <2>5. Phases'
    BY <1>1, <2>1, <2>2, <2>3 DEF Phases
  <2>6. DrawnOnce'
    BY <1>0, <1>1, <1>3, <2>1 DEF AccInv, DrawnOnce, Drawn, Theirs
  <2>7. Bodies'
    BY <1>0, <1>1, <1>3, <1>5, <2>1, <2>2, <2>3 DEF Bodies, Coherent, Based, Theirs, Acc!Differs
  <2>8. HistoryStands'
    <3>1. Applied(outbox.key)' = Applied(outbox.key)
      BY <1>0, <2>1 DEF Applied, Theirs
    <3>2. (\A o \in made :
             \/ outbox # Nil /\ o \in Acc!Range(outbox.body.obs)
             \/ dispute # Nil /\ o \in Acc!Range(dispute.local.obs)
             \/ Here(o))'
      BY <1>0, <1>1, <1>3, <1>h, <2>1 DEF HistoryStands, Here, Theirs
    <3>3. (outbox # Nil /\ ~ Applied(outbox.key) =>
              \A o \in Acc!Range(outbox.body.obs) : o.id \notin DOMAIN history)'
      BY <1>0, <1>3, <1>h, <2>1, <3>1 DEF HistoryStands, Theirs
    <3> QED  BY <1>0, <1>1, <2>3, <3>2, <3>3, HistoryFrame
  <2>9. Acc!RefusalHasCause'
    <3>1. oc.body # push.body \/ ~ Acc!Valid(oc.body)
      <4>1. oc.body # push.body \/ oc.result.status = "rejected"
        BY <1>7, <1>9 DEF Grounds
      <4> QED  BY <4>1 DEF AccInv, Outcomes
    <3>2. oc \in outcomes' /\ oc.key = outbox'.key /\ (oc.body # outbox'.body \/ ~ Acc!Valid(oc.body))
      BY <1>0, <1>3, <1>7, <2>1, <3>1 DEF Theirs
    <3> QED  BY <3>2 DEF Acc!RefusalHasCause
  <2>10. Answers'
    BY <1>1 DEF Answers
  <2> QED  BY <1>0, <2>4, <2>5, <2>6, <2>7, <2>8, <2>9, <2>10, OthersStand DEF AccInv
<1>10. CASE r.status = "conflict"
  <2>1. outbox' = Nil
    BY <1>1, <1>10
  <2>2. r.ver \in Nat /\ r.st \in AccountState
    BY <1>2, <1>10 DEF Acc!Result
  <2>3. /\ phone' \in Acc!PhoneRow /\ phone' # Nil /\ phone'.status = "conflict" /\ phone'.st = phone.st
    BY <1>1, <1>3, <1>10, <2>2, AccApart DEF Acc!PhoneRow
  <2>4. /\ dispute' \in Acc!Dispute /\ dispute' # Nil
        /\ dispute'.ver = r.ver /\ dispute'.server = r.st /\ dispute'.local = push.body
    BY <1>1, <1>4, <1>10, <2>2, AccApart DEF Acc!Dispute
  <2>5. Acc!TypeOK'
    BY <1>0, <1>1, <2>1, <2>3, <2>4, OthersStand DEF AccInv, Acc!TypeOK
  <2>6. Phases'
    BY <1>1, <2>1, <2>3, <2>4 DEF Phases
  <2>7. DrawnOnce'
    BY <1>0, <1>1, <2>1 DEF AccInv, DrawnOnce, Drawn, Theirs
  <2>8. Bodies'
    <3>1. Known(r.ver, r.st)
      BY <1>6, <1>10 DEF True
    <3>2. Coherent(dispute.local)'
      BY <1>1, <1>3, <1>5, <2>3, <2>4 DEF Coherent
    <3>3. Known(dispute.ver, dispute.server)'
      BY <1>0, <2>4, <3>1 DEF Known, Theirs
    <3> QED  BY <2>1, <2>3, <3>2, <3>3 DEF Bodies
  <2>9. HistoryStands'
    <3>1. ~ Applied(outbox.key)
      <4>1. oc.result.status = "conflict"
        BY <1>7, <1>10 DEF Grounds
      <4>2. \A od \in outcomes : od.key = outbox.key => od = oc
        BY <1>3, <1>7 DEF AccInv, DrawnOnce
      <4> QED  BY <4>1, <4>2 DEF Applied
    <3>2. \A o \in Acc!Range(push.body.obs) : o.id \notin DOMAIN history
      BY <1>3, <1>h, <3>1 DEF HistoryStands
    <3>3. (\A o \in made :
             \/ outbox # Nil /\ o \in Acc!Range(outbox.body.obs)
             \/ dispute # Nil /\ o \in Acc!Range(dispute.local.obs)
             \/ Here(o))'
      BY <1>0, <1>1, <1>3, <1>h, <2>4 DEF HistoryStands, Here, Theirs
    <3> QED  BY <1>0, <1>1, <2>1, <2>4, <3>2, <3>3, HistoryFrame DEF Theirs
  <2>10. Acc!RefusalHasCause' /\ Answers'
    BY <1>1, <2>1 DEF Acc!RefusalHasCause, Answers
  <2> QED  BY <1>0, <2>5, <2>6, <2>7, <2>8, <2>9, <2>10, OthersStand DEF AccInv
<1>11. CASE r.status \in Accepted
  <2>1. outbox' = Nil /\ dispute' = Nil
    BY <1>1, <1>3, <1>11 DEF Accepted
  <2>2. r.ver \in Nat
    BY <1>2, <1>11 DEF Acc!Result, Accepted
  <2>3. /\ phone' \in Acc!PhoneRow /\ phone' # Nil /\ phone'.status = "synced"
        /\ phone'.st = phone.st /\ phone'.ver = r.ver
    BY <1>1, <1>3, <1>11, <2>2, AccApart DEF Acc!PhoneRow
  <2>4. Acc!TypeOK'
    BY <1>0, <1>1, <2>1, <2>3, OthersStand DEF AccInv, Acc!TypeOK
  <2>5. Phases'
    BY <1>1, <2>1, <2>3 DEF Phases
  <2>6. DrawnOnce'
    BY <1>0, <1>1, <2>1 DEF AccInv, DrawnOnce, Drawn, Theirs
  <2>7. Bodies'
    <3>1. Known(r.ver, phone.st)
      BY <1>5, <1>6, <1>11 DEF True, Coherent
    <3>2. Known(phone.ver, phone.st)'
      BY <1>0, <2>3, <3>1 DEF Known, Theirs
    <3> QED  BY <2>1, <3>2 DEF Bodies
  <2>8. HistoryStands'
    <3>1. \A o \in Acc!Range(push.body.obs) : Here(o)
      BY <1>1, <1>11, <1>h DEF HistoryStands, r
    <3>2. \A o \in made : Here(o)
      BY <1>3, <1>h, <3>1 DEF HistoryStands
    <3>3. (\A o \in made : Here(o))'
      BY <1>0, <1>1, <3>2 DEF Here, Theirs
    <3> QED  BY <1>0, <1>1, <2>1, <3>3, HistoryFrame
  <2>9. Acc!RefusalHasCause' /\ Answers'
    BY <1>1, <2>1 DEF Acc!RefusalHasCause, Answers
  <2> QED  BY <1>0, <2>4, <2>5, <2>6, <2>7, <2>8, <2>9, OthersStand DEF AccInv
<1> QED  BY <1>8, <1>9, <1>10, <1>11

-----------------------------------------------------------------------------
(* The server's steps *)

\* A new snapshot is new to the feed, and nothing that was read changes.
LEMMA Inserted ==
    ASSUME AccInv, NEW id \in Nat, id \notin DOMAIN history, NEW s \in Acc!Snapshot,
           Acc!Insert(id, s), reader' = reader
    PROVE  /\ DOMAIN history' = DOMAIN history \cup {id} /\ history'[id] = s
           /\ \A i \in DOMAIN history : history'[i] = history[i]
           /\ (history \in [DOMAIN history -> Acc!Snapshot])'
           /\ (feed \in Seq(DOMAIN history) /\ Acc!IsInjective(feed))'
           /\ (reader.seen \in 0..Len(feed) /\ DOMAIN reader.copy = {feed[n] : n \in 1..reader.seen})'
           /\ Acc!ReaderFollows'
<1>1. /\ DOMAIN history' = DOMAIN history \cup {id} /\ history'[id] = s
      /\ \A i \in DOMAIN history : history'[i] = history[i]
      /\ history' = [i \in DOMAIN history' |-> history'[i]]
  BY DEF Acc!Insert
<1>2. history \in [DOMAIN history -> Acc!Snapshot]
  BY DEF AccInv, Acc!TypeOK
<1>3. \A i \in DOMAIN history' : history'[i] \in Acc!Snapshot
  BY <1>1, <1>2
<1>4. history' \in [DOMAIN history' -> Acc!Snapshot]
  <2> DEFINE H == history'
  <2>1. H = [i \in DOMAIN H |-> H[i]] /\ \A i \in DOMAIN H : H[i] \in Acc!Snapshot
    BY <1>1, <1>3
  <2> HIDE DEF H
  <2>2. H \in [DOMAIN H -> Acc!Snapshot]
    BY <2>1
  <2> QED  BY <2>2 DEF H
<1>5. feed \in Seq(DOMAIN history) /\ Acc!IsInjective(feed) /\ feed' = Append(feed, id)
  BY DEF AccInv, Acc!TypeOK, Acc!Insert
<1>6. /\ feed' \in Seq(DOMAIN history') /\ Len(feed') = Len(feed) + 1 /\ Len(feed) \in Nat
      /\ \A n \in 1..Len(feed) : feed'[n] = feed[n] /\ feed[n] \in DOMAIN history
      /\ feed'[Len(feed) + 1] = id
  <2>1. feed \in Seq(DOMAIN history') /\ id \in DOMAIN history'
    BY <1>1, <1>5
  <2> QED  BY <1>5, <2>1
<1>7. Acc!IsInjective(feed')
  <2>1. \A m, n \in 1..Len(feed) : feed[m] = feed[n] => m = n
    BY <1>5 DEF Acc!IsInjective
  <2>2. DOMAIN feed' = 1..(Len(feed) + 1)
    BY <1>6
  <2>3. \A m, n \in 1..(Len(feed) + 1) : feed'[m] = feed'[n] => m = n
    BY <1>6, <2>1
  <2> QED  BY <2>2, <2>3 DEF Acc!IsInjective
<1>8. reader.seen \in 0..Len(feed) /\ DOMAIN reader.copy = {feed[n] : n \in 1..reader.seen}
  BY DEF AccInv, Acc!TypeOK
<1>9. {feed'[n] : n \in 1..reader.seen} = {feed[n] : n \in 1..reader.seen}
  <2>1. \A n \in 1..reader.seen : feed'[n] = feed[n]
    BY <1>6, <1>8
  <2> QED  BY <2>1
<1>10. Acc!ReaderFollows'
  <2>1. \A i \in {feed[n] : n \in 1..reader.seen} : history'[i] = history[i]
    <3>1. \A n \in 1..reader.seen : feed[n] \in DOMAIN history
      BY <1>6, <1>8
    <3> QED  BY <1>1, <3>1
  <2>2. Acc!ReaderFollows
    BY DEF AccInv
  <2> QED  BY <1>9, <2>1, <2>2 DEF Acc!ReaderFollows
<1>11. (reader.seen \in 0..Len(feed) /\ DOMAIN reader.copy = {feed[n] : n \in 1..reader.seen})'
  BY <1>6, <1>8, <1>9
<1> QED  BY <1>1, <1>4, <1>6, <1>7, <1>10, <1>11

\* The row stays or gets its next version.
Moves ==
    \/ account' = account
    \/ account' \in Acc!Row /\ account'.ver = (IF account = Nil THEN 1 ELSE account.ver + 1)

\* What is known of the account stays known, and a mutation stays based.
LEMMA KnownStays ==
    ASSUME AccInv, Moves
    PROVE  /\ \A v \in Nat : \A t : Known(v, t) => Known(v, t)'
           /\ \A b \in Acc!Mutation : Based(b) => Based(b)'
           /\ \A r \in Acc!Result : \A b : True(r, b) => True(r, b)'
           /\ (account # Nil => account.ver # 0)' /\ (account \in Acc!Row \cup {Nil})'
<1>1. account # Nil => account \in Acc!Row
  BY DEF AccInv, Acc!TypeOK
<1>2. CASE account' = account
  <2>1. \A v, t : Known(v, t) => Known(v, t)'
    BY <1>2 DEF Known
  <2>2. \A b : Based(b) => Based(b)'
    BY <1>2 DEF Based
  <2>3. \A r, b : True(r, b) => True(r, b)'
    BY <1>2 DEF True, Known
  <2> QED  BY <1>1, <1>2, <2>1, <2>2, <2>3 DEF AccInv, Outcomes
<1>3. CASE account' \in Acc!Row /\ account'.ver = (IF account = Nil THEN 1 ELSE account.ver + 1)
  <2>1. account' # Nil
    BY <1>3, AccApart
  <2>2. ASSUME NEW v \in Nat, NEW t, Known(v, t)
        PROVE  Known(v, t)'
    BY <1>1, <1>3, <2>1, <2>2 DEF Known, Acc!Row
  <2>3. ASSUME NEW b \in Acc!Mutation, Based(b)
        PROVE  Based(b)'
    <3>1. b.base # account'.ver /\ (b.base # 0 => b.base <= account'.ver)
      BY <1>1, <1>3, <2>3 DEF Based, Acc!Row, Acc!Mutation
    <3> QED  BY <2>1, <3>1 DEF Based
  <2>4. ASSUME NEW r \in Acc!Result, NEW b, True(r, b)
        PROVE  True(r, b)'
    BY <2>2, <2>4 DEF True, Accepted, Acc!Result
  <2>5. account'.ver # 0
    BY <1>1, <1>3 DEF Acc!Row
  <2> QED  BY <1>3, <2>2, <2>3, <2>4, <2>5
<1> QED  BY <1>2, <1>3 DEF Moves

LEMMA BodiesStay ==
    ASSUME AccInv, Moves, UNCHANGED <<phone, outbox, dispute, made>>
    PROVE  Bodies'
<1>1. outbox # Nil => Coherent(outbox.body)' /\ Based(outbox.body)'
  <2>1. outbox # Nil => outbox.body \in Acc!Mutation /\ Coherent(outbox.body) /\ Based(outbox.body)
    BY DEF AccInv, Bodies, Acc!TypeOK, Acc!OutboxRow
  <2>2. ASSUME NEW b \in Acc!Mutation, outbox # Nil, b = outbox.body, Based(b)
        PROVE  Based(outbox.body)'
    <3>1. Based(b)'
      BY <2>2, KnownStays
    <3> QED  BY <2>2, <3>1 DEF Based
  <2> QED  BY <2>1, <2>2 DEF Coherent
<1>2. dispute # Nil => Coherent(dispute.local)' /\ Known(dispute.ver, dispute.server)'
  <2>1. dispute # Nil => /\ dispute.ver \in Nat /\ Coherent(dispute.local)
                         /\ Known(dispute.ver, dispute.server)
    BY DEF AccInv, Bodies, Acc!TypeOK, Acc!Dispute
  <2> QED  BY <2>1, KnownStays DEF Coherent, Known
<1>3. phone # Nil /\ phone.status = "synced" => Known(phone.ver, phone.st)'
  <2>1. phone # Nil /\ phone.status = "synced" => phone.ver \in Nat /\ Known(phone.ver, phone.st)
    BY DEF AccInv, Bodies, Acc!TypeOK, Acc!PhoneRow
  <2> QED  BY <2>1, KnownStays DEF Known
<1> QED  BY <1>1, <1>2, <1>3 DEF Bodies

\* An edit on the web: a version and, if the state is new to it, a snapshot.
LEMMA WebStep ==
    ASSUME AccInv, NEW s \in Acc!Snapshot, account' \in Acc!Row,
           account'.ver = (IF account = Nil THEN 1 ELSE account.ver + 1),
           \/ Acc!Insert(Acc!NewId, s) /\ ~ Acc!Differs(account'.st, s)
           \/ UNCHANGED <<history, feed>> /\ account # Nil /\ ~ Acc!Differs(account.st, account'.st),
           Acc!Count("web", 1),
           UNCHANGED <<outcomes, phone, outbox, dispute, push, reader, made>>
    PROVE  AccInv'
<1>1. account' # Nil
  BY AccApart
<1>2. Acc!NewId \in Nat /\ Acc!NewId \notin DOMAIN history /\ \A o \in made : o.id # Acc!NewId
  BY CountIs DEF AccInv, DrawnOnce
<1>3. /\ accCount' \in [ids : Nat, edits : Nat, web : Nat, lost : Nat]
      /\ accCount'.ids = accCount.ids + 1
  BY Counted
<1>4. /\ DOMAIN history \subseteq DOMAIN history' /\ DOMAIN history' \subseteq DOMAIN history \cup {Acc!NewId}
      /\ \A i \in DOMAIN history : history'[i] = history[i]
      /\ (history \in [DOMAIN history -> Acc!Snapshot])'
      /\ (feed \in Seq(DOMAIN history) /\ Acc!IsInjective(feed))'
      /\ (reader.seen \in 0..Len(feed) /\ DOMAIN reader.copy = {feed[n] : n \in 1..reader.seen})'
      /\ Acc!ReaderFollows'
  <2>1. CASE Acc!Insert(Acc!NewId, s)
    BY <1>2, <2>1, Inserted
  <2>2. CASE UNCHANGED <<history, feed>>
    <3>1. Acc!ReaderFollows'
      BY <2>2 DEF AccInv, Acc!ReaderFollows
    <3> QED  BY <2>2, <3>1 DEF AccInv, Acc!TypeOK
  <2> QED  BY <2>1, <2>2
<1>5. Acc!TypeOK'
  BY <1>3, <1>4 DEF AccInv, Acc!TypeOK
<1>6. Phases'
  BY DEF AccInv, Phases
<1>7. DrawnOnce'
  <2>1. Drawn' = 1..(accCount.ids + 1) /\ Drawn = 1..accCount.ids /\ accCount.ids \in Nat
        /\ Acc!NewId \in Drawn'
    BY <1>3, CountIs DEF Drawn
  <2>2. Drawn \subseteq Drawn'
    BY <2>1
  <2> QED  BY <1>4, <2>1, <2>2 DEF AccInv, DrawnOnce
<1>8. Moves
  BY DEF Moves
<1>9. Bodies'
  BY <1>8, BodiesStay
<1>10. Outcomes'
  <2>1. \A oc \in outcomes : oc.result \in Acc!Result /\ True(oc.result, oc.body)
    BY DEF AccInv, Acc!TypeOK, Outcomes
  <2>2. \A oc \in outcomes : True(oc.result, oc.body)'
    BY <1>8, <2>1, KnownStays
  <2> QED  BY <1>8, <2>2, KnownStays DEF AccInv, Outcomes
<1>11. Answers'
  <2>1. push # Nil /\ push.result # Nil => push.result \in Acc!Result /\ True(push.result, push.body)
    BY DEF AccInv, Acc!TypeOK, Answers, Acc!Push
  <2>2. ASSUME NEW r \in Acc!Result, NEW b, r = push.result, b = push.body, True(r, b)
        PROVE  True(push.result, push.body)'
    <3>1. True(r, b)'
      BY <1>8, <2>2, KnownStays
    <3> QED  BY <2>2, <3>1 DEF True, Known
  <2> QED  BY <2>1, <2>2 DEF AccInv, Answers, Grounds
<1>12. HistoryStands'
  <2>1. HistoryStands
    BY DEF AccInv
  <2>2. \A o \in made : Here(o) => Here(o)'
    BY <1>4 DEF Here
  <2>3. \A o \in made : o.id \in DOMAIN history' => o.id \in DOMAIN history
    BY <1>2, <1>4
  <2>4. \A o \in made : o.id \in DOMAIN history' => Noted(o)'
    BY <1>4, <2>1, <2>3 DEF HistoryStands, Noted
  <2>5. /\ outbox # Nil => Acc!Range(outbox.body.obs) \subseteq made
        /\ dispute # Nil => Acc!Range(dispute.local.obs) \subseteq made
        /\ push # Nil => push.body = outbox.body /\ outbox # Nil
    BY DEF AccInv, Bodies, Coherent, Phases
  <2>6. \E i \in DOMAIN history' : ~ Acc!Differs(account'.st, history'[i])
    <3>1. CASE Acc!Insert(Acc!NewId, s) /\ ~ Acc!Differs(account'.st, s)
      <4>1. Acc!NewId \in DOMAIN history' /\ history'[Acc!NewId] = s
        BY <1>2, <3>1, Inserted
      <4> QED  BY <3>1, <4>1
    <3>2. CASE UNCHANGED <<history, feed>> /\ account # Nil /\ ~ Acc!Differs(account.st, account'.st)
      BY <2>1, <3>2 DEF HistoryStands, Acc!Differs
    <3> QED  BY <3>1, <3>2
  <2>7. (\A o \in made :
           \/ outbox # Nil /\ o \in Acc!Range(outbox.body.obs)
           \/ dispute # Nil /\ o \in Acc!Range(dispute.local.obs)
           \/ Here(o))'
    BY <2>1, <2>2 DEF HistoryStands
  <2>8. (push # Nil /\ push.at = "answer" /\ push.result.status \in Accepted =>
           \A o \in Acc!Range(push.body.obs) : Here(o))'
    BY <2>1, <2>2, <2>5 DEF HistoryStands
  <2>9. (outbox # Nil /\ ~ Applied(outbox.key) =>
           \A o \in Acc!Range(outbox.body.obs) : o.id \notin DOMAIN history)'
    BY <2>1, <2>3, <2>5 DEF HistoryStands, Applied
  <2>10. (dispute # Nil => \A o \in Acc!Range(dispute.local.obs) : o.id \notin DOMAIN history)'
    BY <2>1, <2>3, <2>5 DEF HistoryStands
  <2> QED  BY <2>4, <2>6, <2>7, <2>8, <2>9, <2>10 DEF HistoryStands
<1>13. Acc!RefusalHasCause'
  BY DEF AccInv, Acc!RefusalHasCause
<1> QED  BY <1>4, <1>5, <1>6, <1>7, <1>9, <1>10, <1>11, <1>12, <1>13 DEF AccInv

\* The snapshot of a state that the server dates.
LEMMA ServerDated ==
    ASSUME NEW st \in AccountState
    PROVE  Acc!Dated(st, Acc!Now) \in Acc!Snapshot /\ ~ Acc!Differs(st, Acc!Dated(st, Acc!Now))
<1>1. Acc!Dated(st, Acc!Now) \in Acc!Snapshot
  BY DEF Acc!Snapshot
<1>2. ~ Acc!Differs(st, Acc!Dated(st, Acc!Now))
  BY DEF Acc!Dated, Acc!Differs, Acc!HistoryOf
<1> QED  BY <1>1, <1>2

LEMMA AccWebWrite ==
    ASSUME AccInv, NEW fin \in AccountState, Acc!WebWrite(fin)
    PROVE  AccInv'
<1> DEFINE s == Acc!Dated(fin, Acc!Now)
<1>1. s \in Acc!Snapshot /\ ~ Acc!Differs(fin, s)
  BY ServerDated
<1>2. account # Nil => account \in Acc!Row
  BY DEF AccInv, Acc!TypeOK
<1>3. /\ account' \in Acc!Row /\ account'.st = fin
      /\ account'.ver = (IF account = Nil THEN 1 ELSE account.ver + 1)
  BY <1>2 DEF Acc!WebWrite, Acc!Stored, Acc!Row
<1>4. \/ Acc!Insert(Acc!NewId, s) /\ ~ Acc!Differs(account'.st, s)
      \/ UNCHANGED <<history, feed>> /\ account # Nil /\ ~ Acc!Differs(account.st, account'.st)
  BY <1>1, <1>3 DEF Acc!WebWrite
<1>5. Acc!Count("web", 1) /\ UNCHANGED <<outcomes, phone, outbox, dispute, push, reader, made>>
  BY DEF Acc!WebWrite
<1> HIDE DEF s
<1> QED  BY <1>1, <1>3, <1>4, <1>5, WebStep

LEMMA AccWebRecord ==
    ASSUME AccInv, NEW bal, Acc!WebRecord(bal)
    PROVE  AccInv'
<1> DEFINE st == [account.st EXCEPT !.bal = bal]
           s == Acc!Dated(st, Acc!Now)
<1>1. account \in Acc!Row /\ account # Nil /\ st \in AccountState
  BY DEF AccInv, Acc!TypeOK, Acc!WebRecord
<1>2. account' = [st |-> st, ver |-> account.ver + 1] /\ Acc!Insert(Acc!NewId, s)
  BY DEF Acc!WebRecord
<1>3. Acc!Count("web", 1) /\ UNCHANGED <<outcomes, phone, outbox, dispute, push, reader, made>>
  BY DEF Acc!WebRecord
<1> HIDE DEF st
<1>4. s \in Acc!Snapshot /\ ~ Acc!Differs(st, s)
  BY <1>1, ServerDated
<1>5. /\ account' \in Acc!Row /\ account'.st = st
      /\ account'.ver = (IF account = Nil THEN 1 ELSE account.ver + 1)
  BY <1>1, <1>2 DEF Acc!Row
<1> HIDE DEF s
<1> QED  BY <1>2, <1>3, <1>4, <1>5, WebStep

\* The other device copies what is new to it.
LEMMA AccRead ==
    ASSUME AccInv, Acc!ReaderPull
    PROVE  AccInv'
<1> DEFINE seen == reader.seen
           new == Acc!Range(SubSeq(feed, seen + 1, Len(feed)))
           old == {feed[n] : n \in 1..seen}
           all == {feed[n] : n \in 1..Len(feed)}
<1>0. UNCHANGED <<account, history, feed, outcomes, phone, outbox, dispute, push, made, accCount>>
  BY DEF Acc!ReaderPull
<1>1. /\ reader'.seen = Len(feed)
      /\ reader'.copy = [i \in DOMAIN reader.copy \cup new |->
                           IF i \in new THEN history[i] ELSE reader.copy[i]]
  BY DEF Acc!ReaderPull
<1>2. feed \in Seq(DOMAIN history) /\ seen \in 0..Len(feed) /\ DOMAIN reader.copy = old
  BY DEF AccInv, Acc!TypeOK
<1>3. \A i \in old : reader.copy[i] \in {history[i], [history[i] EXCEPT !.at = Acc!Now]}
  BY DEF AccInv, Acc!ReaderFollows
<1>4. seen \in Nat /\ Len(feed) \in Nat /\ seen <= Len(feed)
  BY <1>2
<1> HIDE DEF seen
<1>5. old \cup new = all
  <2> DEFINE t == SubSeq(feed, seen + 1, Len(feed))
  <2>1. DOMAIN t = 1..(Len(feed) - seen) /\ \A k \in 1..(Len(feed) - seen) : t[k] = feed[seen + k]
    BY <1>2, <1>4
  <2>2. new = {t[k] : k \in DOMAIN t}
    BY DEF Acc!Range
  <2> HIDE DEF t, new
  <2>3. \A k \in 1..(Len(feed) - seen) : seen + k \in 1..Len(feed)
    BY <1>4
  <2>4. \A n \in 1..Len(feed) :
        n \in 1..seen \/ (n - seen \in 1..(Len(feed) - seen) /\ seen + (n - seen) = n)
    BY <1>4
  <2>5. \A x \in new : x \in all
    BY <2>1, <2>2, <2>3
  <2>6. \A n \in 1..Len(feed) : feed[n] \in old \cup new
    <3> TAKE n \in 1..Len(feed)
    <3>1. CASE n \in 1..seen
      BY <3>1
    <3>2. CASE n - seen \in 1..(Len(feed) - seen) /\ seen + (n - seen) = n
      <4>1. t[n - seen] = feed[n] /\ n - seen \in DOMAIN t
        BY <2>1, <3>2
      <4> QED  BY <2>2, <4>1
    <3> QED  BY <2>4, <3>1, <3>2
  <2>7. \A n \in 1..seen : n \in 1..Len(feed)
    BY <1>4
  <2> QED  BY <2>5, <2>6, <2>7
<1>6. {feed'[n] : n \in 1..reader'.seen} = all
  BY <1>0, <1>1
<1> HIDE DEF new, old, all
<1>7. Acc!TypeOK'
  <2>1. DOMAIN reader'.copy = all
    BY <1>1, <1>2, <1>5
  <2>2. reader'.seen \in 0..Len(feed)
    BY <1>1, <1>4
  <2> QED  BY <1>0, <1>6, <2>1, <2>2 DEF AccInv, Acc!TypeOK
<1>8. Acc!ReaderFollows'
  <2>1. \A i \in all : reader'.copy[i] \in {history[i], [history[i] EXCEPT !.at = Acc!Now]}
    BY <1>1, <1>2, <1>3, <1>5
  <2> QED  BY <1>0, <1>6, <2>1 DEF Acc!ReaderFollows
<1>9. Phases' /\ DrawnOnce' /\ Acc!RefusalHasCause'
  BY <1>0 DEF AccInv, Phases, DrawnOnce, Drawn, Acc!RefusalHasCause
<1>10. Bodies'
  BY <1>0, BodiesStay DEF Moves
<1>11. Outcomes' /\ Answers'
  BY <1>0 DEF AccInv, Outcomes, Answers, True, Known, Grounds
<1>12. HistoryStands'
  <2>1. HistoryStands
    BY DEF AccInv
  <2> QED  BY <1>0, <2>1 DEF HistoryStands, Here, Noted, Applied, Acc!Differs, Acc!HistoryOf
<1> QED  BY <1>7, <1>8, <1>9, <1>10, <1>11, <1>12 DEF AccInv

LEMMA Learnt ==
    ASSUME NEW r \in Acc!Result, push \in Acc!Push,
           push' = [push EXCEPT !.at = "reconcile", !.result = r]
    PROVE  /\ push' \in Acc!Push /\ push' # Nil /\ push'.key = push.key /\ push'.body = push.body
           /\ push'.at = "reconcile" /\ push'.result = r /\ r # Nil
<1>1. push' \in Acc!Push /\ push'.key = push.key /\ push'.body = push.body
      /\ push'.at = "reconcile" /\ push'.result = r
  BY DEF Acc!Push, Acc!Stage
<1> QED  BY <1>1, AccApart

\* A mutation whose outcome is stored is answered from it.
LEMMA AccAnswered ==
    ASSUME AccInv, Acc!PushCore, {o \in outcomes : o.key = push.key} # {}
    PROVE  AccInv'
<1> DEFINE known == {o \in outcomes : o.key = push.key}
           oc == CHOOSE o \in known : TRUE
           r == IF oc.body # push.body THEN [status |-> "rejected"]
                ELSE IF oc.result.status = "applied" THEN [oc.result EXCEPT !.status = "duplicate"]
                ELSE oc.result
<1>0. UNCHANGED Theirs /\ UNCHANGED <<phone, outbox, dispute, made, accCount>>
  BY DEF Theirs, Acc!PushCore
<1>1. /\ push \in Acc!Push /\ push # Nil /\ push.at = "core"
      /\ push' = [push EXCEPT !.at = "reconcile", !.result = r]
  BY DEF AccInv, Acc!TypeOK, Acc!PushCore
<1>2. oc \in outcomes /\ oc.key = push.key
  <2>1. oc \in known
    OBVIOUS
  <2> QED  BY <2>1
<1> HIDE DEF oc
<1>3. /\ oc.result \in Acc!Result /\ True(oc.result, oc.body) /\ oc.result.status # "duplicate"
  BY <1>2 DEF AccInv, Acc!TypeOK, Outcomes
<1>4. r \in Acc!Result /\ True(r, push.body) /\ Grounds(r, push.body, oc)
  <2>1. CASE oc.body # push.body
    <3>1. r = [status |-> "rejected"]
      BY <2>1
    <3> HIDE DEF r
    <3>2. r.status = "rejected"
      BY <3>1
    <3> QED  BY <2>1, <3>1, <3>2 DEF Acc!Result, True, Grounds, Accepted
  <2>2. CASE oc.body = push.body /\ oc.result.status = "applied"
    <3>1. r = [oc.result EXCEPT !.status = "duplicate"]
      BY <2>2
    <3> HIDE DEF r
    <3>2. r \in Acc!Result /\ r.status = "duplicate" /\ r.ver = oc.result.ver
      BY <1>3, <2>2, <3>1 DEF Acc!Result
    <3>3. Known(r.ver, push.body.fin)
      BY <1>3, <2>2, <3>2 DEF True, Accepted
    <3> QED  BY <2>2, <3>2, <3>3 DEF True, Grounds, Accepted
  <2>3. CASE oc.body = push.body /\ oc.result.status # "applied"
    <3>1. r = oc.result
      BY <2>3
    <3> HIDE DEF r
    <3>2. r.status \in {"rejected", "conflict"}
      BY <1>3, <2>3, <3>1 DEF Acc!Result
    <3> QED  BY <1>3, <2>3, <3>1, <3>2 DEF True, Grounds, Accepted
  <2> QED  BY <2>1, <2>2, <2>3
<1> HIDE DEF r
<1>5. /\ push' \in Acc!Push /\ push' # Nil /\ push'.key = push.key /\ push'.body = push.body
      /\ push'.at = "reconcile" /\ push'.result = r /\ r # Nil
  BY <1>1, <1>4, Learnt
<1>6. Acc!TypeOK'
  BY <1>0, <1>5, OthersStand DEF AccInv, Acc!TypeOK
<1>7. Phases'
  BY <1>0, <1>1, <1>5 DEF AccInv, Phases
<1>8. DrawnOnce' /\ Acc!RefusalHasCause'
  BY <1>0 DEF AccInv, DrawnOnce, Drawn, Acc!RefusalHasCause, Theirs
<1>9. Bodies'
  BY <1>0, BodiesStay DEF Moves, Theirs
<1>10. Answers'
  BY <1>0, <1>2, <1>4, <1>5 DEF Answers, True, Known, Grounds, Theirs
<1>11. HistoryStands'
  <2>1. HistoryStands
    BY DEF AccInv
  <2> QED  BY <1>0, <1>5, <2>1, HistoryFrame DEF HistoryStands, Here, Applied, Theirs
<1> QED  BY <1>0, <1>6, <1>7, <1>8, <1>9, <1>10, <1>11, OthersStand DEF AccInv

\* What the first transaction makes of a mutation it does not know.
LEMMA Judged ==
    ASSUME AccInv, push # Nil, push.at = "core"
    PROVE  LET b == push.body
               r == Acc!Outcome(b) IN
           /\ r \in Acc!Result /\ r.status \in {"rejected", "conflict", "applied"}
           /\ r.status = "rejected" => ~ Acc!Valid(b)
           /\ r.status = "conflict" => Known(r.ver, r.st)
           /\ r.status = "applied" => Acc!Valid(b) /\ r.ver = Acc!Stored(b.fin).ver
<1> DEFINE b == push.body
           r == Acc!Outcome(b)
           now == IF account = Nil THEN 0 ELSE account.ver
<1>1. b \in Acc!Mutation
  BY DEF AccInv, Acc!TypeOK, Acc!Push
<1>2. b = Acc!Body(b.base, b.hb, b.obs, b.fin) /\ Based(b)
  <2>1. outbox # Nil /\ b = outbox.body
    BY DEF AccInv, Phases
  <2>2. \A m : m = outbox.body => m = Acc!Body(m.base, m.hb, m.obs, m.fin) /\ Based(m)
    BY <2>1 DEF AccInv, Bodies, Coherent
  <2> HIDE DEF b
  <2> QED  BY <2>1, <2>2
<1>3. /\ account # Nil => account \in Acc!Row /\ account.ver # 0
      /\ b.base \in Nat /\ b.fin \in AccountState /\ b.hb \in AccountState \cup {Nil}
  BY <1>1 DEF AccInv, Acc!TypeOK, Outcomes, Acc!Mutation
<1>4. r = IF ~ Acc!Valid(b) THEN [status |-> "rejected"]
          ELSE IF b.base # now
          THEN [status |-> "conflict", ver |-> now, st |-> IF account = Nil THEN Nil ELSE account.st]
          ELSE IF account # Nil /\ ~ Acc!Differs(account.st, b.fin) /\ b.snap # 0
          THEN [status |-> "rejected"]
          ELSE [status |-> "applied", ver |-> Acc!Stored(b.fin).ver]
  BY DEF Acc!Outcome
<1>5. ~ (b.base = now /\ account # Nil /\ ~ Acc!Differs(account.st, b.fin) /\ b.snap # 0)
  <2> SUFFICES ASSUME b.base = now, account # Nil, ~ Acc!Differs(account.st, b.fin), b.snap # 0
               PROVE  FALSE
    OBVIOUS
  <2>1. b.hb # Nil /\ ~ Acc!Differs(b.hb, account.st)
    BY <1>2 DEF Based
  <2>2. ~ Acc!Differs(b.fin, b.hb)
    BY <2>1 DEF Acc!Differs
  <2>3. b.snap = 0
    BY <1>2, <2>1, <2>2 DEF Acc!Body
  <2> QED  BY <2>3
<1>6. b.base # now => account # Nil
  BY <1>2 DEF Based
<1>7. Acc!Stored(b.fin).ver \in Nat
  BY <1>3 DEF Acc!Stored, Acc!Row
<1> HIDE DEF b, r
<1>8. CASE ~ Acc!Valid(b)
  <2>1. r = [status |-> "rejected"]
    BY <1>4, <1>8
  <2>2. r \in Acc!Result /\ r.status = "rejected"
    BY <2>1 DEF Acc!Result
  <2> QED  BY <1>8, <2>2 DEF b, r
<1>9. CASE Acc!Valid(b) /\ b.base # now
  <2>1. r = [status |-> "conflict", ver |-> account.ver, st |-> account.st]
    BY <1>4, <1>6, <1>9
  <2>2. r \in Acc!Result /\ r.status = "conflict" /\ r.ver = account.ver /\ r.st = account.st
    BY <1>3, <1>6, <1>9, <2>1 DEF Acc!Result, Acc!Row
  <2>3. Known(r.ver, r.st)
    BY <1>3, <1>6, <1>9, <2>2 DEF Known, Acc!Row
  <2> QED  BY <2>2, <2>3 DEF b, r
<1>10. CASE Acc!Valid(b) /\ b.base = now
  <2>1. r = [status |-> "applied", ver |-> Acc!Stored(b.fin).ver]
    BY <1>4, <1>5, <1>10
  <2>2. r \in Acc!Result /\ r.status = "applied" /\ r.ver = Acc!Stored(b.fin).ver
    BY <1>7, <2>1 DEF Acc!Result
  <2> QED  BY <1>10, <2>2 DEF b, r
<1> QED  BY <1>8, <1>9, <1>10

\* A new mutation is judged, applied if it may be, and its outcome stored.
LEMMA AccApplied ==
    ASSUME AccInv, Acc!PushCore, {o \in outcomes : o.key = push.key} = {}
    PROVE  AccInv'
<1>1. PICK b : b = push.body
  OBVIOUS
<1>2. PICK r : r = Acc!Outcome(b)
  OBVIOUS
<1>3. PICK id : id = IF b.snap = 0 THEN Acc!NewId ELSE b.snap
  OBVIOUS
<1>4. PICK s : s = Acc!Dated(b.fin, Acc!Now)
  OBVIOUS
<1> DEFINE fresh == r.status = "applied" /\ (account = Nil \/ Acc!Differs(account.st, b.fin))
           oc == [key |-> push.key, body |-> b, result |-> r]
<1>5. /\ push # Nil /\ push \in Acc!Push /\ push.at = "core"
      /\ push' = [push EXCEPT !.at = "reconcile", !.result = r]
      /\ outcomes' = outcomes \cup {oc}
      /\ account' = IF r.status = "applied" THEN Acc!Stored(b.fin) ELSE account
      /\ IF fresh THEN Acc!Insert(id, s) ELSE UNCHANGED <<history, feed>>
      /\ accCount' = [accCount EXCEPT !.ids = @ + 1]
      /\ UNCHANGED <<phone, outbox, dispute, reader, made>>
  BY <1>1, <1>2, <1>3, <1>4 DEF AccInv, Acc!TypeOK, Acc!PushCore
<1>6. /\ r \in Acc!Result /\ r.status \in {"rejected", "conflict", "applied"}
      /\ r.status = "rejected" => ~ Acc!Valid(b)
      /\ r.status = "conflict" => Known(r.ver, r.st)
      /\ r.status = "applied" => Acc!Valid(b) /\ r.ver = Acc!Stored(b.fin).ver
  BY <1>1, <1>2, <1>5, Judged
<1>7. /\ outbox # Nil /\ push.key = outbox.key /\ b = outbox.body /\ outbox.status = "sending"
      /\ dispute = Nil /\ push.key \in Nat
  BY <1>1, <1>5 DEF AccInv, Phases, Acc!Push
<1>8. /\ b \in Acc!Mutation /\ b = Acc!Body(b.base, b.hb, b.obs, b.fin)
      /\ Acc!Range(b.obs) \subseteq made
  BY <1>1, <1>5, <1>7 DEF Acc!Push, AccInv, Bodies, Coherent
<1>9. b.fin \in AccountState /\ b.snap \in Nat /\ b.obs \in Seq(Acc!Observation)
  BY <1>8 DEF Acc!Mutation
<1>10. HistoryStands
  BY DEF AccInv
<1>11. \A o \in Acc!Range(b.obs) : o.id \notin DOMAIN history
  <2>1. ~ Applied(outbox.key)
    BY <1>7 DEF Applied
  <2> QED  BY <1>7, <1>10, <2>1 DEF HistoryStands
<1>12. b.snap # 0 => LET l == Acc!Last(b.obs) IN
                     b.obs # <<>> /\ l \in Acc!Range(b.obs) /\ b.snap = l.id
  <2> SUFFICES ASSUME b.snap # 0
               PROVE  /\ b.obs # <<>> /\ Acc!Last(b.obs) \in Acc!Range(b.obs)
                      /\ b.snap = Acc!Last(b.obs).id
    OBVIOUS
  <2>1. b.snap = IF b.obs # <<>> /\ (b.hb = Nil \/ Acc!Differs(b.fin, b.hb))
                 THEN Acc!Last(b.obs).id ELSE 0
    BY <1>8 DEF Acc!Body
  <2>2. b.obs # <<>> /\ b.snap = Acc!Last(b.obs).id
    BY <2>1
  <2>3. Len(b.obs) \in DOMAIN b.obs
    BY <1>9, <2>2
  <2>4. Acc!Last(b.obs) \in Acc!Range(b.obs)
    BY <2>3 DEF Acc!Last, Acc!Range
  <2> QED  BY <2>2, <2>4
<1>13. /\ accCount' \in [ids : Nat, edits : Nat, web : Nat, lost : Nat]
       /\ Drawn = 1..accCount.ids /\ Drawn' = 1..(accCount.ids + 1) /\ accCount.ids \in Nat
       /\ Drawn \subseteq Drawn' /\ Acc!NewId \in Drawn' /\ Acc!NewId \notin Drawn
  <2>1. /\ [accCount EXCEPT !.ids = @ + 1] \in [ids : Nat, edits : Nat, web : Nat, lost : Nat]
        /\ [accCount EXCEPT !.ids = @ + 1].ids = accCount.ids + 1
    BY CountIs
  <2>2. accCount' \in [ids : Nat, edits : Nat, web : Nat, lost : Nat] /\ accCount'.ids = accCount.ids + 1
    BY <1>5, <2>1
  <2> QED  BY <2>2, CountIs DEF Drawn
<1>14. \A o \in made : o.id \in Drawn
  BY DEF AccInv, DrawnOnce
<1>15. id \in Nat /\ id \in Drawn' /\ id \notin DOMAIN history
  <2>1. CASE b.snap = 0
    BY <1>3, <1>13, <2>1, CountIs DEF AccInv, DrawnOnce
  <2>2. CASE b.snap # 0
    BY <1>3, <1>8, <1>9, <1>11, <1>12, <1>13, <1>14, <2>2
  <2> QED  BY <2>1, <2>2
<1>16. s \in Acc!Snapshot /\ ~ Acc!Differs(b.fin, s)
  BY <1>4, <1>9, ServerDated
<1>17. /\ DOMAIN history' = DOMAIN history \cup (IF fresh THEN {id} ELSE {})
       /\ fresh => history'[id] = s
       /\ \A i \in DOMAIN history : history'[i] = history[i]
       /\ (history \in [DOMAIN history -> Acc!Snapshot])'
       /\ (feed \in Seq(DOMAIN history) /\ Acc!IsInjective(feed))'
       /\ (reader.seen \in 0..Len(feed) /\ DOMAIN reader.copy = {feed[n] : n \in 1..reader.seen})'
       /\ Acc!ReaderFollows'
  <2>1. CASE fresh
    BY <1>5, <1>15, <1>16, <2>1, Inserted
  <2>2. CASE ~ fresh
    <3>1. UNCHANGED <<history, feed, reader>>
      BY <1>5, <2>2
    <3>2. Acc!ReaderFollows'
      BY <3>1 DEF AccInv, Acc!ReaderFollows
    <3> QED  BY <2>2, <3>1, <3>2 DEF AccInv, Acc!TypeOK
  <2> QED  BY <2>1, <2>2
<1>18. /\ Moves /\ (r.status # "applied" => account' = account)
       /\ r.status = "applied" => /\ account' # Nil /\ account'.st = b.fin /\ r.ver = account'.ver
                                  /\ account'.ver \in Nat
  <2>1. CASE r.status = "applied"
    <3>1. account # Nil => account \in Acc!Row
      BY DEF AccInv, Acc!TypeOK
    <3>2. account' = Acc!Stored(b.fin)
      BY <1>5, <2>1
    <3>3. /\ account' \in Acc!Row /\ account'.st = b.fin
          /\ account' = account \/ account'.ver = (IF account = Nil THEN 1 ELSE account.ver + 1)
      BY <1>9, <3>1, <3>2 DEF Acc!Stored, Acc!Row
    <3>4. account' # Nil /\ account'.ver \in Nat
      BY <3>3, AccApart DEF Acc!Row
    <3> QED  BY <1>6, <2>1, <3>2, <3>3, <3>4 DEF Moves
  <2>2. CASE r.status # "applied"
    BY <1>5, <2>2 DEF Moves
  <2> QED  BY <2>1, <2>2
<1>19. /\ push' \in Acc!Push /\ push' # Nil /\ push'.key = push.key /\ push'.body = push.body
       /\ push'.at = "reconcile" /\ push'.result = r /\ r # Nil
  BY <1>5, <1>6, Learnt
<1>20. oc \in [key : Nat, body : Acc!Mutation, result : Acc!Result]
  BY <1>6, <1>7, <1>8
<1>21. oc.key = push.key /\ oc.body = b /\ oc.result = r /\ oc \in outcomes'
  BY <1>5
<1>22. \A od \in outcomes' : od \in outcomes \/ od = oc
  BY <1>5
<1> HIDE DEF oc
<1>23. Acc!TypeOK'
  <2>1. (outcomes \subseteq [key : Nat, body : Acc!Mutation, result : Acc!Result])'
    BY <1>5, <1>20 DEF AccInv, Acc!TypeOK
  <2> QED  BY <1>5, <1>13, <1>17, <1>18, <1>19, <2>1, KnownStays DEF AccInv, Acc!TypeOK
<1>24. Phases'
  BY <1>5, <1>19 DEF AccInv, Phases
<1>25. DrawnOnce'
  <2>1. DOMAIN history' \subseteq Drawn'
    BY <1>13, <1>15, <1>17 DEF AccInv, DrawnOnce
  <2>2. \A od \in outcomes' : od.key \in Drawn'
    BY <1>7, <1>13, <1>21, <1>22 DEF AccInv, DrawnOnce
  <2>3. \A od, oe \in outcomes' : od.key = oe.key => od = oe
    <3>1. \A od \in outcomes : od.key # oc.key
      BY <1>21
    <3> QED  BY <1>22, <3>1 DEF AccInv, DrawnOnce
  <2> QED  BY <1>5, <1>13, <2>1, <2>2, <2>3 DEF AccInv, DrawnOnce
<1>26. Bodies'
  BY <1>5, <1>18, BodiesStay
<1>27. True(r, b)'
  <2>1. CASE r.status = "applied"
    <3>1. account'.ver # 0
      BY <1>18, <2>1, KnownStays
    <3> QED  BY <1>18, <2>1, <3>1 DEF True, Known
  <2>2. CASE r.status = "conflict"
    BY <1>6, <1>18, <2>2 DEF True, Known, Accepted
  <2>3. CASE r.status = "rejected"
    BY <2>3 DEF True, Accepted
  <2> QED  BY <1>6, <2>1, <2>2, <2>3
<1>28. Outcomes'
  <2>1. ASSUME NEW od \in outcomes'
        PROVE  /\ True(od.result, od.body)' /\ od.result.status # "duplicate"
               /\ od.result.status = "rejected" => ~ Acc!Valid(od.body)
    <3>1. CASE od \in outcomes
      <4>1. /\ od.result \in Acc!Result /\ True(od.result, od.body) /\ od.result.status # "duplicate"
            /\ od.result.status = "rejected" => ~ Acc!Valid(od.body)
        BY <3>1 DEF AccInv, Acc!TypeOK, Outcomes
      <4> QED  BY <1>18, <4>1, KnownStays
    <3>2. CASE od = oc
      BY <1>6, <1>21, <1>27, <3>2
    <3> QED  BY <1>22, <2>1, <3>1, <3>2
  <2> QED  BY <1>18, <2>1, KnownStays DEF Outcomes
<1>29. Answers'
  <2>1. Grounds(r, b, oc)
    BY <1>6, <1>21 DEF Grounds, Accepted
  <2>2. True(push.result, push.body)'
    BY <1>1, <1>19, <1>27 DEF True, Known
  <2>3. oc.key = push'.key /\ Grounds(push'.result, push'.body, oc)
    BY <1>1, <1>19, <1>21, <2>1
  <2> QED  BY <1>21, <2>2, <2>3 DEF Answers, Grounds
<1>30. HistoryStands'
  <2>1. ASSUME NEW o \in made, o.id \in DOMAIN history'
        PROVE  Noted(o)'
    <3>1. CASE o.id \in DOMAIN history
      BY <1>10, <1>17, <3>1 DEF HistoryStands, Noted
    <3>2. CASE fresh /\ o.id = id
      <4>1. b.snap # 0 /\ id = b.snap
        BY <1>3, <1>13, <1>14, <3>2
      <4>2. o = Acc!Last(b.obs) /\ b.obs # <<>>
        BY <1>8, <1>12, <3>2, <4>1 DEF AccInv, DrawnOnce
      <4>3. Acc!Dated(b.fin, o.is.at) = o.is
        BY <1>6, <3>2, <4>2 DEF Acc!Valid
      <4>4. [o.is EXCEPT !.at = Acc!Now] = s
        BY <1>4, <4>3 DEF Acc!Dated
      <4> QED  BY <1>17, <3>2, <4>4 DEF Noted
    <3> QED  BY <1>17, <2>1, <3>1, <3>2
  <2>2. \A o \in made : Here(o) => Here(o)'
    BY <1>17 DEF Here
  <2>3. (\A o \in made :
           \/ outbox # Nil /\ o \in Acc!Range(outbox.body.obs)
           \/ dispute # Nil /\ o \in Acc!Range(dispute.local.obs)
           \/ Here(o))'
    BY <1>5, <1>10, <2>2 DEF HistoryStands
  <2>4. (outbox # Nil /\ ~ Applied(outbox.key) =>
           \A o \in Acc!Range(outbox.body.obs) : o.id \notin DOMAIN history)'
    <3>1. CASE r.status = "applied"
      <4>1. oc \in outcomes' /\ oc.key = outbox'.key /\ oc.result.status = "applied"
        BY <1>5, <1>7, <1>21, <3>1
      <4> QED  BY <4>1 DEF Applied
    <3>2. CASE r.status # "applied"
      BY <1>5, <1>7, <1>11, <1>17, <3>2
    <3> QED  BY <3>1, <3>2
  <2>5. (account # Nil => \E i \in DOMAIN history : ~ Acc!Differs(account.st, history[i]))'
    <3>1. CASE fresh
      <4>1. ~ Acc!Differs(account'.st, history'[id]) /\ id \in DOMAIN history'
        BY <1>16, <1>17, <1>18, <3>1
      <4> QED  BY <4>1
    <3>2. CASE ~ fresh /\ r.status = "applied"
      <4>1. account # Nil /\ ~ Acc!Differs(account.st, account'.st)
        BY <1>18, <3>2
      <4>2. PICK i \in DOMAIN history : ~ Acc!Differs(account.st, history[i])
        BY <1>10, <4>1 DEF HistoryStands
      <4>3. i \in DOMAIN history' /\ ~ Acc!Differs(account'.st, history'[i])
        BY <1>17, <4>1, <4>2 DEF Acc!Differs
      <4> QED  BY <4>3
    <3>3. CASE r.status # "applied"
      <4>1. account' = account
        BY <1>18, <3>3
      <4> QED  BY <1>10, <1>17, <4>1 DEF HistoryStands, Acc!Differs
    <3> QED  BY <3>1, <3>2, <3>3
  <2>6. push'.at = "reconcile" /\ dispute' = Nil /\ made' = made
    BY <1>5, <1>7, <1>19
  <2> QED  BY <2>1, <2>3, <2>4, <2>5, <2>6 DEF HistoryStands
<1>31. Acc!RefusalHasCause'
  BY <1>5, <1>7 DEF Acc!RefusalHasCause
<1> QED  BY <1>17, <1>23, <1>24, <1>25, <1>26, <1>28, <1>29, <1>30, <1>31 DEF AccInv

\* The second transaction dates what the first has published and adds the rest.
LEMMA AccReconciled ==
    ASSUME AccInv, Acc!PushReconcile, push.result.status \in Accepted
    PROVE  AccInv'
<1> DEFINE b == push.body
           u == Acc!Unrecorded(b.obs)
           ids == {o.id : o \in Acc!Range(b.obs)}
           told == [i \in ids |-> (CHOOSE o \in Acc!Range(b.obs) : o.id = i).is]
<1>1. b = push.body
  OBVIOUS
<1>2. Acc!Reconciles(push.result.status)
  BY DEF Acc!Reconciles, Accepted
<1>3. /\ push # Nil /\ push \in Acc!Push /\ push.at = "reconcile"
      /\ push' = [push EXCEPT !.at = "answer"]
      /\ history' = [i \in DOMAIN history \cup ids |-> IF i \in ids THEN told[i] ELSE history[i]]
      /\ feed' = feed \o u
      /\ UNCHANGED <<account, outcomes, phone, outbox, dispute, reader, made, accCount>>
  <2>1. push # Nil /\ push \in Acc!Push /\ push.at = "reconcile" /\ push' = [push EXCEPT !.at = "answer"]
        /\ UNCHANGED <<account, outcomes, phone, outbox, dispute, reader, made, accCount>>
    BY DEF AccInv, Acc!TypeOK, Acc!PushReconcile
  <2>2. /\ history' = [i \in DOMAIN history \cup DOMAIN told |->
                         IF i \in DOMAIN told THEN told[i] ELSE history[i]]
        /\ feed' = feed \o u
    BY <1>2 DEF Acc!PushReconcile
  <2>3. DOMAIN told = ids
    OBVIOUS
  <2> HIDE DEF told, ids, u
  <2> QED  BY <2>1, <2>2, <2>3
<1>4. /\ outbox # Nil /\ push.key = outbox.key /\ b = outbox.body /\ dispute = Nil
      /\ push.result # Nil /\ push.result \in Acc!Result /\ outbox.status = "sending"
  BY <1>3 DEF AccInv, Phases, Acc!Push
<1>5. /\ b \in Acc!Mutation /\ Acc!Range(b.obs) \subseteq made /\ Acc!IsInjective(b.obs)
      /\ b.obs \in Seq(Acc!Observation)
  <2>1. b \in Acc!Mutation
    BY <1>3 DEF Acc!Push
  <2>2. \A m : m = outbox.body => Acc!Range(m.obs) \subseteq made /\ Acc!IsInjective(m.obs)
    BY <1>4 DEF AccInv, Bodies, Coherent
  <2> HIDE DEF b
  <2> QED  BY <1>4, <2>1, <2>2 DEF Acc!Mutation
<1> HIDE DEF b
<1>6. /\ \A o \in made : o.id \in Drawn /\ o \in Acc!Observation
      /\ \A o, p \in made : o.id = p.id => o = p
      /\ DOMAIN history \subseteq Drawn /\ history \in [DOMAIN history -> Acc!Snapshot]
  BY DEF AccInv, DrawnOnce, Acc!TypeOK
<1>7. HistoryStands
  BY DEF AccInv
\* What is told is what was observed.
<1>8. ASSUME NEW o \in made, o.id \in ids
      PROVE  o \in Acc!Range(b.obs) /\ told[o.id] = o.is
  <2>1. PICK p \in Acc!Range(b.obs) : p.id = o.id
    BY <1>8
  <2>2. p = o
    BY <1>5, <1>6, <2>1
  <2>3. \A q \in Acc!Range(b.obs) : q.id = o.id => q = o
    BY <1>5, <1>6
  <2>4. (CHOOSE q \in Acc!Range(b.obs) : q.id = o.id) = o
    BY <2>1, <2>2, <2>3
  <2> QED  BY <1>8, <2>1, <2>2, <2>4
<1>9. \A i \in ids : \E o \in Acc!Range(b.obs) : o.id = i /\ o \in made /\ told[i] = o.is
  <2> TAKE i \in ids
  <2>1. PICK o \in Acc!Range(b.obs) : o.id = i
    OBVIOUS
  <2> HIDE DEF ids, told
  <2> QED  BY <1>5, <1>8, <2>1
<1>10. \A o \in Acc!Range(b.obs) : o.id \in ids
  OBVIOUS
<1> HIDE DEF ids, told
<1>11. /\ DOMAIN history' = DOMAIN history \cup ids
       /\ \A i \in ids : history'[i] = told[i]
       /\ \A i \in DOMAIN history : i \notin ids => history'[i] = history[i]
       /\ history' = [i \in DOMAIN history' |-> history'[i]]
  BY <1>3
<1>12. \A o \in Acc!Range(b.obs) : Here(o)'
  BY <1>5, <1>8, <1>10, <1>11 DEF Here
<1>13. \A i \in DOMAIN history' : history'[i] \in Acc!Snapshot
  BY <1>6, <1>9, <1>11 DEF Acc!Observation
<1>14. (history \in [DOMAIN history -> Acc!Snapshot])'
  <2> DEFINE H == history'
  <2>1. H = [i \in DOMAIN H |-> H[i]] /\ \A i \in DOMAIN H : H[i] \in Acc!Snapshot
    BY <1>11, <1>13
  <2> HIDE DEF H
  <2>2. H \in [DOMAIN H -> Acc!Snapshot]
    BY <2>1
  <2> QED  BY <2>2 DEF H
\* What stood there differs in its date only.
<1>15. \A i \in DOMAIN history :
          \/ history'[i] = history[i]
          \/ history[i] = [history'[i] EXCEPT !.at = Acc!Now]
  <2> TAKE i \in DOMAIN history
  <2>1. CASE i \notin ids
    BY <1>11, <2>1
  <2>2. CASE i \in ids
    <3>1. PICK o \in made : o.id = i /\ told[i] = o.is
      BY <1>9, <2>2
    <3>2. history[i] \in {o.is, [o.is EXCEPT !.at = Acc!Now]}
      BY <1>7, <3>1 DEF HistoryStands, Noted
    <3>3. history'[i] = o.is
      BY <1>11, <2>2, <3>1
    <3> QED  BY <3>2, <3>3
  <2> QED  BY <2>1, <2>2
\* The feed.
<1>16. \A m, n \in DOMAIN b.obs : b.obs[m].id = b.obs[n].id => m = n
  <2>1. \A m \in DOMAIN b.obs : b.obs[m] \in made
    BY <1>5 DEF Acc!Range
  <2> QED  BY <1>5, <1>6, <2>1 DEF Acc!IsInjective
<1>17. PICK N \in Nat :
         /\ DOMAIN u = 1..N /\ u = [k \in 1..N |-> u[k]]
         /\ \A k \in 1..N : u[k] \notin DOMAIN history /\ \E n \in DOMAIN b.obs : u[k] = b.obs[n].id
         /\ \A j, k \in 1..N : u[j] = u[k] => j = k
  BY <1>5, <1>16, Lacking
<1> HIDE DEF u
<1>18. \A k \in 1..N : u[k] \in ids /\ u[k] \in DOMAIN history'
  <2>1. \A n \in DOMAIN b.obs : b.obs[n].id \in ids
    BY <1>10 DEF Acc!Range
  <2> QED  BY <1>11, <1>17, <2>1
<1>19. feed \in Seq(DOMAIN history) /\ Acc!IsInjective(feed) /\ Len(feed) \in Nat
  BY DEF AccInv, Acc!TypeOK
<1>20. /\ feed' \in Seq(DOMAIN history') /\ Len(feed') = Len(feed) + N
       /\ \A n \in 1..Len(feed) : feed'[n] = feed[n] /\ feed[n] \in DOMAIN history
       /\ \A k \in 1..N : feed'[Len(feed) + k] = u[k]
  <2> DEFINE D == DOMAIN history'
  <2>1. u \in Seq(D) /\ Len(u) = N
    BY <1>17, <1>18
  <2>2. feed \in Seq(D)
    BY <1>11, <1>19
  <2> HIDE DEF D
  <2>3. feed \o u \in Seq(D) /\ Len(feed \o u) = Len(feed) + N
    BY <2>1, <2>2
  <2>4. \A n \in 1..Len(feed) : (feed \o u)[n] = feed[n] /\ feed[n] \in DOMAIN history
    BY <1>19, <2>1, <2>2
  <2>5. \A k \in 1..N : (feed \o u)[Len(feed) + k] = u[k]
    BY <2>1, <2>2
  <2> QED  BY <1>3, <2>3, <2>4, <2>5 DEF D
<1>21. Acc!IsInjective(feed')
  <2>1. \A m, n \in 1..Len(feed) : feed[m] = feed[n] => m = n
    BY <1>19 DEF Acc!IsInjective
  <2>2. DOMAIN feed' = 1..(Len(feed) + N)
    BY <1>20
  <2>3. \A m \in 1..(Len(feed) + N) : m \in 1..Len(feed) \/ m - Len(feed) \in 1..N
    BY <1>19
  <2>4. \A m \in 1..(Len(feed) + N) : m - Len(feed) \in 1..N => feed'[m] = u[m - Len(feed)]
    <3> TAKE m \in 1..(Len(feed) + N)
    <3> HAVE m - Len(feed) \in 1..N
    <3>1. Len(feed) + (m - Len(feed)) = m
      BY <1>19
    <3> QED  BY <1>20, <3>1
  <2>5. ASSUME NEW m \in 1..(Len(feed) + N), NEW n \in 1..(Len(feed) + N), feed'[m] = feed'[n]
        PROVE  m = n
    <3>1. CASE m \in 1..Len(feed) /\ n \in 1..Len(feed)
      BY <1>20, <2>1, <2>5, <3>1
    <3>2. CASE m - Len(feed) \in 1..N /\ n - Len(feed) \in 1..N
      <4>1. m - Len(feed) = n - Len(feed)
        BY <1>17, <2>4, <2>5, <3>2
      <4> QED  BY <1>19, <4>1
    <3>3. CASE m \in 1..Len(feed) /\ n - Len(feed) \in 1..N
      <4>1. feed'[m] \in DOMAIN history /\ feed'[n] \notin DOMAIN history
        BY <1>17, <1>20, <2>4, <3>3
      <4> QED  BY <2>5, <4>1
    <3>4. CASE n \in 1..Len(feed) /\ m - Len(feed) \in 1..N
      <4>1. feed'[n] \in DOMAIN history /\ feed'[m] \notin DOMAIN history
        BY <1>17, <1>20, <2>4, <3>4
      <4> QED  BY <2>5, <4>1
    <3> QED  BY <2>3, <3>1, <3>2, <3>3, <3>4
  <2> QED  BY <2>2, <2>5 DEF Acc!IsInjective
<1>22. reader.seen \in 0..Len(feed) /\ DOMAIN reader.copy = {feed[n] : n \in 1..reader.seen}
  BY DEF AccInv, Acc!TypeOK
<1>23. {feed'[n] : n \in 1..reader.seen} = {feed[n] : n \in 1..reader.seen}
  <2>1. \A n \in 1..reader.seen : feed'[n] = feed[n]
    BY <1>19, <1>20, <1>22
  <2> QED  BY <2>1
<1>24. (reader.seen \in 0..Len(feed) /\ DOMAIN reader.copy = {feed[n] : n \in 1..reader.seen})'
  <2>1. reader.seen \in 0..Len(feed')
    BY <1>19, <1>20, <1>22
  <2> QED  BY <1>3, <1>22, <1>23, <2>1
<1>25. Acc!ReaderFollows'
  <2>1. \A i \in {feed[n] : n \in 1..reader.seen} :
           reader.copy[i] \in {history'[i], [history'[i] EXCEPT !.at = Acc!Now]}
    <3> TAKE i \in {feed[n] : n \in 1..reader.seen}
    <3>1. i \in DOMAIN history
      BY <1>19, <1>20, <1>22
    <3>2. reader.copy[i] \in {history[i], [history[i] EXCEPT !.at = Acc!Now]}
      BY DEF AccInv, Acc!ReaderFollows
    <3>3. history'[i] = history[i] \/ history[i] = [history'[i] EXCEPT !.at = Acc!Now]
      BY <1>15, <3>1
    <3>4. history'[i] \in Acc!Snapshot
      BY <1>11, <1>13, <3>1
    <3> QED  BY <3>2, <3>3, <3>4 DEF Acc!Snapshot, Acc!Dated
  <2> QED  BY <1>3, <1>23, <2>1 DEF Acc!ReaderFollows
<1>26. /\ push' \in Acc!Push /\ push' # Nil /\ push'.key = push.key /\ push'.body = b
       /\ push'.at = "answer" /\ push'.result = push.result
  <2>1. /\ push' \in Acc!Push /\ push'.key = push.key /\ push'.body = b
        /\ push'.at = "answer" /\ push'.result = push.result
    BY <1>1, <1>3 DEF Acc!Push, Acc!Stage
  <2> QED  BY <2>1, AccApart
<1>27. Acc!TypeOK'
  BY <1>3, <1>14, <1>20, <1>21, <1>24, <1>26 DEF AccInv, Acc!TypeOK
<1>28. Phases'
  BY <1>1, <1>3, <1>4, <1>26 DEF AccInv, Phases
<1>29. DrawnOnce'
  <2>1. DOMAIN history' \subseteq Drawn
    BY <1>6, <1>9, <1>11
  <2> QED  BY <1>3, <2>1 DEF AccInv, DrawnOnce, Drawn
<1>30. Bodies'
  BY <1>3, BodiesStay DEF Moves
<1>31. Outcomes' /\ Answers' /\ Acc!RefusalHasCause'
  <2>1. Outcomes' /\ Acc!RefusalHasCause'
    BY <1>3 DEF AccInv, Outcomes, True, Known, Acc!RefusalHasCause
  <2>2. Answers'
    BY <1>1, <1>3, <1>26 DEF AccInv, Answers, True, Known, Grounds
  <2> QED  BY <2>1, <2>2
<1>32. HistoryStands'
  <2>1. Applied(outbox.key)
    <3>1. PICK oc \in outcomes : oc.key = push.key /\ Grounds(push.result, push.body, oc)
      BY <1>3, <1>4 DEF AccInv, Answers
    <3>2. oc.result.status = "applied"
      BY <3>1 DEF Grounds
    <3> QED  BY <1>4, <3>1, <3>2 DEF Applied
  <2>2. Applied(outbox.key)'
    BY <1>3, <2>1 DEF Applied
  <2>3. ASSUME NEW o \in made, o.id \in DOMAIN history'
        PROVE  Noted(o)'
    <3>1. CASE o.id \in ids
      BY <1>8, <1>11, <3>1 DEF Noted
    <3>2. CASE o.id \notin ids
      BY <1>7, <1>11, <2>3, <3>2 DEF HistoryStands, Noted
    <3> QED  BY <3>1, <3>2
  <2>4. ASSUME NEW o \in made, Here(o)
        PROVE  Here(o)'
    <3>1. CASE o.id \in ids
      BY <1>8, <1>11, <3>1 DEF Here
    <3>2. CASE o.id \notin ids
      BY <1>11, <2>4, <3>2 DEF Here
    <3> QED  BY <3>1, <3>2
  <2>5. (\A o \in made :
           \/ outbox # Nil /\ o \in Acc!Range(outbox.body.obs)
           \/ dispute # Nil /\ o \in Acc!Range(dispute.local.obs)
           \/ Here(o))'
    BY <1>3, <1>7, <2>4 DEF HistoryStands
  <2>6. (account # Nil => \E i \in DOMAIN history : ~ Acc!Differs(account.st, history[i]))'
    <3> SUFFICES ASSUME account # Nil
                 PROVE  \E i \in DOMAIN history' : ~ Acc!Differs(account.st, history'[i])
      BY <1>3 DEF Acc!Differs
    <3>1. PICK i \in DOMAIN history : ~ Acc!Differs(account.st, history[i])
      BY <1>7 DEF HistoryStands
    <3>2. i \in DOMAIN history' /\ history'[i] \in Acc!Snapshot
      BY <1>11, <1>13
    <3>3. Acc!HistoryOf(history[i]) = Acc!HistoryOf(history'[i])
      BY <1>15, <3>2 DEF Acc!HistoryOf, Acc!Snapshot, Acc!Dated
    <3> QED  BY <3>1, <3>2, <3>3 DEF Acc!Differs
  <2> QED  BY <1>3, <1>4, <1>12, <1>26, <2>2, <2>3, <2>5, <2>6 DEF HistoryStands
<1> QED  BY <1>25, <1>27, <1>28, <1>29, <1>30, <1>31, <1>32 DEF AccInv

\* A refusal or a conflict leaves the history alone.
LEMMA AccNotReconciled ==
    ASSUME AccInv, Acc!PushReconcile, push.result.status \notin Accepted
    PROVE  AccInv'
<1>0. UNCHANGED Theirs /\ UNCHANGED <<phone, outbox, dispute, made, accCount>>
  BY DEF Theirs, Acc!PushReconcile, Acc!Reconciles, Accepted
<1>1. /\ push \in Acc!Push /\ push # Nil /\ push.at = "reconcile"
      /\ push' = [push EXCEPT !.at = "answer"]
  BY DEF AccInv, Acc!TypeOK, Acc!PushReconcile
<1>2. /\ push' \in Acc!Push /\ push' # Nil /\ push'.key = push.key /\ push'.body = push.body
      /\ push'.at = "answer" /\ push'.result = push.result
  <2>1. /\ push' \in Acc!Push /\ push'.key = push.key /\ push'.body = push.body
        /\ push'.at = "answer" /\ push'.result = push.result
    BY <1>1 DEF Acc!Push, Acc!Stage
  <2> QED  BY <2>1, AccApart
<1>3. Acc!TypeOK'
  BY <1>0, <1>2, OthersStand DEF AccInv, Acc!TypeOK
<1>4. Phases'
  BY <1>0, <1>1, <1>2 DEF AccInv, Phases
<1>5. DrawnOnce' /\ Acc!RefusalHasCause'
  BY <1>0 DEF AccInv, DrawnOnce, Drawn, Acc!RefusalHasCause, Theirs
<1>6. Bodies'
  BY <1>0, BodiesStay DEF Moves, Theirs
<1>7. Answers'
  <2>1. True(push.result, push.body)' <=> True(push.result, push.body)
    BY <1>0, <1>2 DEF True, Known, Theirs
  <2>2. push.result # Nil
    BY <1>1 DEF AccInv, Phases
  <2> QED  BY <1>0, <1>1, <1>2, <2>1, <2>2 DEF AccInv, Answers, Grounds, Theirs
<1>8. HistoryStands'
  <2>1. HistoryStands
    BY DEF AccInv
  <2> QED  BY <1>0, <1>2, <2>1, HistoryFrame DEF HistoryStands, Here, Applied, Theirs
<1> QED  BY <1>0, <1>3, <1>4, <1>5, <1>6, <1>7, <1>8, OthersStand DEF AccInv

LEMMA AccStep == AccInv /\ [Acc!Next]_(Acc!accVars) => AccInv'
<1> SUFFICES ASSUME AccInv, [Acc!Next]_(Acc!accVars)
             PROVE  AccInv'
  OBVIOUS
<1>1. ASSUME NEW fin \in AccountState, NEW date \in PhoneTime, Acc!Edit(fin, date)
      PROVE  AccInv'
  BY <1>1, AccEdit
<1>2. ASSUME NEW fin \in AccountState, Acc!WebWrite(fin)
      PROVE  AccInv'
  BY <1>2, AccWebWrite
<1>3. ASSUME NEW st \in AccountState, Acc!WebRecord(st.bal)
      PROVE  AccInv'
  BY <1>3, AccWebRecord
<1>4. CASE Acc!Send
  BY <1>4, AccSend
<1>5. CASE Acc!PushCore
  BY <1>5, AccAnswered, AccApplied
<1>6. CASE Acc!PushReconcile
  BY <1>6, AccReconciled, AccNotReconciled
<1>7. CASE Acc!Persist
  BY <1>7, AccPersist
<1>8. CASE Acc!Lose
  BY <1>8, AccLose
<1>9. CASE Acc!PullAccount
  BY <1>9, AccPull
<1>10. CASE Acc!UseServer
  BY <1>10, AccUseServer
<1>11. CASE Acc!KeepMine
  BY <1>11, AccKeepMine
<1>12. CASE Acc!ReaderPull
  BY <1>12, AccRead
<1>13. CASE UNCHANGED Acc!accVars
  <2>0. /\ UNCHANGED Theirs
        /\ UNCHANGED <<phone, outbox, dispute, push, made, accCount>>
    BY <1>13 DEF Acc!accVars, Theirs
  <2>1. Acc!TypeOK' /\ Phases' /\ DrawnOnce' /\ Acc!RefusalHasCause'
    BY <2>0, OthersStand DEF AccInv, Acc!TypeOK, Phases, DrawnOnce, Drawn, Acc!RefusalHasCause, Theirs
  <2>2. Bodies' /\ Answers'
    BY <2>0, BodiesStay DEF AccInv, Answers, True, Known, Grounds, Moves, Theirs
  <2>3. HistoryStands'
    BY <2>0, HistoryFrame DEF AccInv, HistoryStands, Here, Applied, Theirs
  <2> QED  BY <2>0, <2>1, <2>2, <2>3, OthersStand DEF AccInv
<1> QED  BY <1>1, <1>2, <1>3, <1>4, <1>5, <1>6, <1>7, <1>8, <1>9, <1>10, <1>11, <1>12, <1>13 DEF Acc!Next

\* What the phone observed is on the server once nothing waits.
LEMMA AccSafe == AccInv => AccountsSafe
<1> SUFFICES ASSUME AccInv PROVE Acc!AccountsSafe
  BY DEF AccountsSafe
<1>1. outbox = Nil /\ dispute = Nil =>
        \A o \in made : o.id \in DOMAIN history /\ history[o.id] = o.is
  BY DEF AccInv, HistoryStands, Here
<1>2. account # Nil => \E i \in DOMAIN history : Acc!Dated(account.st, history[i].at) = history[i]
  <2> SUFFICES ASSUME account # Nil
               PROVE  \E i \in DOMAIN history : Acc!Dated(account.st, history[i].at) = history[i]
    OBVIOUS
  <2>1. PICK i \in DOMAIN history : ~ Acc!Differs(account.st, history[i])
    BY DEF AccInv, HistoryStands
  <2>2. history[i] \in Acc!Snapshot
    BY DEF AccInv, Acc!TypeOK
  <2>3. Acc!Dated(account.st, history[i].at) = history[i]
    BY <2>1, <2>2 DEF Acc!Differs, Acc!HistoryOf, Acc!Dated, Acc!Snapshot
  <2> QED  BY <2>3
<1>3. Acc!HistoryComplete
  BY <1>1, <1>2 DEF Acc!HistoryComplete
<1> QED  BY <1>3 DEF AccInv, Acc!AccountsSafe

\* The balance history through lost answers, stopped processes, retries and
\* conflicts, for any states, dates and numbers of edits and losses: once the phone
\* has nothing to send or to resolve, every observation it made is in the history
\* with its own date; the state the server holds always is; the server refuses a
\* mutation only for its dates or for an edit after its outcome was stored; and the
\* journal tells another device every state.
THEOREM HistoryKept == Spec => []AccountsSafe
<1>1. Init => AccInv
  BY AccInit DEF Init
<1>2. [Next]_vars => Acc!Next \/ UNCHANGED Acc!accVars
  BY DEF Next, vars, accountsVars, Acc!accVars
<1>3. AccInv /\ [Next]_vars => AccInv'
  BY <1>2, AccStep
<1>4. AccInv => AccountsSafe
  BY AccSafe
<1> QED  BY <1>1, <1>3, <1>4, PTL DEF Spec

-----------------------------------------------------------------------------
(* The net worth: what is known of a total, and of days *)

LEMMA NetApart == \A x : x \in Net!Row \/ x \in Net!Snapshot => x # Nil
BY ServicesAssumption, Zenon

LEMMA TotalIs ==
    ASSUME NEW rows
    PROVE  Net!Total(rows) = SumOver(Net!Held(rows))
BY DEF Net!Total, Net!MapThenSumSet, Net!MapThenFoldSet, SumOver, SumTable

\* Accounts or snapshots with a balance and whether it counts.
Holds(r) == r # Nil => r.bal \in Int /\ r.inc \in BOOLEAN /\ r.arch \in BOOLEAN

LEMMA TotalTyped ==
    ASSUME NEW rows, IsFiniteSet(DOMAIN rows), \A a \in DOMAIN rows : Holds(rows[a])
    PROVE  Net!Total(rows) \in Int
<1> DEFINE C == {a \in DOMAIN rows : rows[a] # Nil /\ rows[a].inc /\ ~ rows[a].arch}
<1>1. IsFiniteSet(C)
  BY FS_Subset
<1>2. Net!Held(rows) \in [C -> Int]
  BY DEF Net!Held, Holds
<1> QED  BY <1>1, <1>2, TotalIs, SumTyped

LEMMA Days ==
    /\ PerDay \in Nat \ {0}
    /\ \A x, y \in Int : x <= y => Net!Day(x) <= Net!Day(y)
    /\ \A x, t \in Int : (t + 1) % PerDay = 0 /\ x > t => Net!Day(x) > Net!Day(t)
    /\ \A x \in Int : Net!Day(x) \in Int /\ Net!Day(x - Window * PerDay) < Net!Day(x)
<1>1. PerDay \in Nat \ {0} /\ Window \in Nat \ {0}
  BY ServicesAssumption
<1>2. \A x, y \in Int : x <= y => Net!Day(x) <= Net!Day(y)
  BY <1>1 DEF Net!Day
<1>3. \A x, t \in Int : (t + 1) % PerDay = 0 /\ x > t => Net!Day(x) > Net!Day(t)
  BY <1>1 DEF Net!Day
<1>4. \A x \in Int : Net!Day(x) \in Int /\ Net!Day(x - Window * PerDay) < Net!Day(x)
  BY <1>1 DEF Net!Day
<1> QED  BY <1>1, <1>2, <1>3, <1>4

-----------------------------------------------------------------------------
(* The inductive invariant *)

\* The latest of the first n snapshots of an account.
Latest(a, n) == Net!Max({i \in 1..n : snapshots[i].acc = a})

InOrder ==
    /\ \A i \in 1..Len(snapshots) : snapshots[i].at <= clock
    /\ \A i, j \in 1..Len(snapshots) : i < j => snapshots[i].at < snapshots[j].at

\* An account counts as its latest snapshot says.
Mirrored ==
    \A a \in Money :
        IF accounts[a] = Nil THEN \A i \in 1..Len(snapshots) : snapshots[i].acc # a
        ELSE \E i \in 1..Len(snapshots) :
               /\ snapshots[i].acc = a /\ \A j \in 1..Len(snapshots) : j > i => snapshots[j].acc # a
               /\ snapshots[i].bal = accounts[a].bal
               /\ snapshots[i].inc = accounts[a].inc /\ snapshots[i].arch = accounts[a].arch

\* The first n snapshots are those up to t.
UpTo(t, n) ==
    /\ \A i \in 1..n : snapshots[i].at <= t
    /\ \A i \in n + 1..Len(snapshots) : snapshots[i].at > t

Remembered ==
    \A t \in 1..clock, n \in 0..Len(snapshots) : UpTo(t, n) => worth[t] = Net!Replayed(n)

Invested == \A a \in Money : accounts[a] # Nil /\ accounts[a].type = "broker" => accounts[a].purpose = "investment"

NetInv == Net!TypeOK /\ InOrder /\ Mirrored /\ Remembered /\ Invested

-----------------------------------------------------------------------------
(* The latest snapshots are the accounts *)

LEMMA GreatestIs ==
    ASSUME NEW n \in Nat, NEW T \in SUBSET (1..n), T # {}
    PROVE  Net!Max(T) \in T /\ \A j \in T : j <= Net!Max(T)
<1>1. IsFiniteSet(1..n)
  BY FS_Interval
<1>2. T \in SUBSET Nat /\ IsFiniteSet(T)
  <2>1. T \subseteq 1..n
    OBVIOUS
  <2>2. IsFiniteSet(T)
    BY <1>1, <2>1, FS_Subset
  <2> QED  BY <2>1, <2>2
<1>3. \E x \in T : \A y \in T : x >= y
  BY <1>2, FiniteGreatest
<1>4. Net!Max(T) \in T /\ \A j \in T : Net!Max(T) >= j
  BY <1>3 DEF Net!Max
<1> QED  BY <1>2, <1>4

LEMMA LatestIs ==
    ASSUME NEW n \in Nat, NEW a, NEW k \in 1..n, snapshots[k].acc = a
    PROVE  /\ Latest(a, n) \in 1..n /\ snapshots[Latest(a, n)].acc = a
           /\ \A j \in 1..n : snapshots[j].acc = a => j <= Latest(a, n)
<1> DEFINE T == {i \in 1..n : snapshots[i].acc = a}
<1>1. T \in SUBSET (1..n) /\ T # {}
  OBVIOUS
<1>2. Net!Max(T) \in T /\ \A j \in T : j <= Net!Max(T)
  <2> HIDE DEF T
  <2> QED  BY <1>1, GreatestIs
<1> QED  BY <1>2 DEF Latest

Seen(n) == [a \in {snapshots[i].acc : i \in 1..n} |-> snapshots[Latest(a, n)]]

LEMMA ReplayedIs ==
    ASSUME NEW n
    PROVE  Net!Replayed(n) = Net!Total(Seen(n))
BY DEF Net!Replayed, Seen, Latest

LEMMA SnapshotTyped ==
    ASSUME Net!TypeOK
    PROVE  /\ Len(snapshots) \in Nat
           /\ \A i \in 1..Len(snapshots) : snapshots[i] \in Net!Snapshot /\ snapshots[i].at \in Nat
                                           /\ snapshots[i].acc \in Money
<1>1. \A i \in 1..Len(snapshots) : snapshots[i] \in Net!Snapshot
  BY DEF Net!TypeOK
<1> QED  BY <1>1 DEF Net!TypeOK, Net!Snapshot

LEMMA AccountsNow ==
    Net!TypeOK /\ Mirrored => Net!Replayed(Len(snapshots)) = Net!Total(accounts)
<1> SUFFICES ASSUME Net!TypeOK, Mirrored
             PROVE  Net!Replayed(Len(snapshots)) = Net!Total(accounts)
  OBVIOUS
<1> DEFINE n == Len(snapshots)
           S == Seen(n)
           Counts(r) == r # Nil /\ r.inc /\ ~ r.arch
<1>1. /\ n \in Nat
      /\ \A i \in 1..n : snapshots[i] \in Net!Snapshot /\ snapshots[i].acc \in Money
                         /\ snapshots[i] # Nil
  BY SnapshotTyped, NetApart
<1>2. DOMAIN accounts = Money /\ \A a \in Money : accounts[a] # Nil => accounts[a] \in Net!Row
  BY DEF Net!TypeOK
<1>3. \A a \in Money : a \in DOMAIN S <=> accounts[a] # Nil
  <2>1. \A a \in Money : a \in DOMAIN S <=> \E i \in 1..n : snapshots[i].acc = a
    BY DEF Seen
  <2> QED  BY <2>1 DEF Mirrored
<1>4. DOMAIN S \subseteq Money
  BY <1>1 DEF Seen
<1>5. ASSUME NEW a \in DOMAIN S
      PROVE  /\ S[a] # Nil /\ accounts[a] # Nil /\ S[a].bal = accounts[a].bal
             /\ S[a].inc = accounts[a].inc /\ S[a].arch = accounts[a].arch
  <2>1. a \in Money /\ accounts[a] # Nil
    BY <1>3, <1>4, <1>5
  <2>2. PICK i \in 1..n :
           /\ snapshots[i].acc = a /\ \A j \in 1..n : j > i => snapshots[j].acc # a
           /\ snapshots[i].bal = accounts[a].bal
           /\ snapshots[i].inc = accounts[a].inc /\ snapshots[i].arch = accounts[a].arch
    BY <2>1 DEF Mirrored
  <2>3. /\ Latest(a, n) \in 1..n /\ snapshots[Latest(a, n)].acc = a
        /\ \A j \in 1..n : snapshots[j].acc = a => j <= Latest(a, n)
    BY <1>1, <2>2, LatestIs
  <2>4. Latest(a, n) = i
    BY <1>1, <2>2, <2>3
  <2>5. S[a] = snapshots[i]
    BY <1>5, <2>4 DEF Seen
  <2> QED  BY <1>1, <2>1, <2>2, <2>5
<1> HIDE DEF S
<1>6. Net!Held(S) = Net!Held(accounts)
  <2>1. {a \in DOMAIN S : Counts(S[a])} = {a \in DOMAIN accounts : Counts(accounts[a])}
    BY <1>2, <1>3, <1>4, <1>5
  <2>2. \A a \in {a \in DOMAIN S : Counts(S[a])} : S[a].bal = accounts[a].bal
    BY <1>5
  <2> QED  BY <2>1, <2>2 DEF Net!Held
<1>7. Net!Replayed(n) = Net!Total(S)
  BY ReplayedIs DEF S
<1> QED  BY <1>6, <1>7, TotalIs

LEMMA AccountsNext ==
    (Net!TypeOK /\ Mirrored)' => (Net!Replayed(Len(snapshots)) = Net!Total(accounts))'
BY AccountsNow, PTL

\* What is replayed depends on the snapshots replayed.
LEMMA ReplayedBefore ==
    ASSUME Net!TypeOK, NEW n \in 0..Len(snapshots), Len(snapshots') \in Nat,
           \A i \in 1..n : snapshots'[i] = snapshots[i]
    PROVE  Net!Replayed(n)' = Net!Replayed(n)
<1>1. n \in Nat /\ n <= Len(snapshots)
  BY SnapshotTyped
<1>2. \A a : {i \in 1..n : snapshots'[i].acc = a} = {i \in 1..n : snapshots[i].acc = a}
  OBVIOUS
<1>3. \A a : Latest(a, n)' = Latest(a, n)
  BY <1>2 DEF Latest
<1>4. {snapshots'[i].acc : i \in 1..n} = {snapshots[i].acc : i \in 1..n}
  OBVIOUS
<1>5. \A a \in {snapshots[i].acc : i \in 1..n} : Latest(a, n) \in 1..n
  BY <1>1, LatestIs
<1>6. Seen(n)' = Seen(n)
  BY <1>3, <1>4, <1>5 DEF Seen
<1>7. Net!Total(Seen(n))' = Net!Total(Seen(n))
  BY <1>6, TotalIs DEF Net!Held
<1>8. Net!Replayed(n) = Net!Total(Seen(n)) /\ Net!Replayed(n)' = Net!Total(Seen(n))'
  BY DEF Net!Replayed, Seen, Latest
<1> QED  BY <1>7, <1>8

-----------------------------------------------------------------------------
(* The steps *)

LEMMA NormalRow ==
    ASSUME NEW r \in Net!Row
    PROVE  /\ Net!Normal(r) \in Net!Row
           /\ Net!Normal(r).type = "broker" => Net!Normal(r).purpose = "investment"
           /\ Net!Normal(r).bal = r.bal /\ Net!Normal(r).inc = r.inc /\ Net!Normal(r).arch = r.arch
BY DEF Net!Normal, Net!Row, Net!Purpose

LEMMA PatchedRow ==
    ASSUME NEW r \in Net!Row, NEW patch \in Patch
    PROVE  Net!Patched(r, patch) \in Net!Row
<1>1. Net!Fits(patch)
  BY ServicesAssumption
<1> QED  BY <1>1 DEF Net!Patched, Net!Row, Net!Fits

LEMMA NetWritten ==
    ASSUME NetInv, NEW a \in Money, NEW row \in Net!Row, NEW snap \in BOOLEAN,
           row.type = "broker" => row.purpose = "investment",
           ~ snap => /\ accounts[a] # Nil /\ row.bal = accounts[a].bal
                     /\ row.inc = accounts[a].inc /\ row.arch = accounts[a].arch,
           Net!Write(a, row, snap)
    PROVE  NetInv'
<1> DEFINE n == Len(snapshots)
           new == [acc |-> a, bal |-> row.bal, inc |-> row.inc, arch |-> row.arch, at |-> clock + 1]
<1>1. /\ n \in Nat /\ snapshots \in Seq(Net!Snapshot) /\ clock \in Nat
      /\ accounts \in [Money -> Net!Row \cup {Nil}]
      /\ worth \in Seq(Int) /\ Len(worth) = clock
  BY SnapshotTyped DEF NetInv, Net!TypeOK
<1>2. /\ clock' = clock + 1 /\ accounts' = [accounts EXCEPT ![a] = row]
      /\ snapshots' = IF snap THEN Append(snapshots, new) ELSE snapshots
      /\ worth' = Append(worth, Net!Total(accounts'))
  BY DEF Net!Write
<1>3. new \in Net!Snapshot
  BY <1>1 DEF Net!Row, Net!Snapshot
<1> HIDE DEF new
<1>4. /\ snapshots' \in Seq(Net!Snapshot) /\ Len(snapshots') \in Nat
      /\ \A i \in 1..n : i \in 1..Len(snapshots') /\ snapshots'[i] = snapshots[i]
      /\ Len(snapshots') = IF snap THEN n + 1 ELSE n
      /\ snap => snapshots'[n + 1] = new
  BY <1>1, <1>2, <1>3
<1>5. /\ accounts' \in [Money -> Net!Row \cup {Nil}] /\ accounts'[a] = row
      /\ \A b \in Money \ {a} : accounts'[b] = accounts[b]
  BY <1>1, <1>2
<1>6. Net!Total(accounts') \in Int
  <2>1. \A b \in Money : Holds(accounts'[b])
    BY <1>5 DEF Holds, Net!Row
  <2>2. IsFiniteSet(Money) /\ DOMAIN accounts' = Money
    BY <1>5, ServicesAssumption
  <2> QED  BY <2>1, <2>2, TotalTyped
<1>7. /\ worth' \in Seq(Int) /\ Len(worth') = clock + 1
      /\ \A t \in 1..clock : worth'[t] = worth[t]
      /\ worth'[clock + 1] = Net!Total(accounts')
  BY <1>1, <1>2, <1>6
<1>8. Net!TypeOK'
  BY <1>1, <1>2, <1>4, <1>5, <1>7 DEF Net!TypeOK
<1>9. InOrder'
  <2>1. /\ \A i \in 1..n : snapshots[i].at \in Nat /\ snapshots[i].at <= clock
        /\ \A i, j \in 1..n : i < j => snapshots[i].at < snapshots[j].at
    BY SnapshotTyped DEF NetInv, InOrder
  <2>2. new.at = clock + 1
    BY DEF new
  <2>3. CASE snap
    <3>1. \A i \in 1..Len(snapshots') : i \in 1..n \/ i = n + 1
      BY <1>1, <1>4, <2>3
    <3> QED  BY <1>1, <1>2, <1>4, <2>1, <2>2, <2>3, <3>1 DEF InOrder
  <2>4. CASE ~ snap
    BY <1>1, <1>2, <1>4, <2>1, <2>4 DEF InOrder
  <2> QED  BY <2>3, <2>4
<1>10. row # Nil
  BY NetApart
<1>11. Mirrored'
  <2> SUFFICES ASSUME NEW b \in Money
      PROVE  IF accounts'[b] = Nil THEN \A i \in 1..Len(snapshots') : snapshots'[i].acc # b
             ELSE \E i \in 1..Len(snapshots') :
               /\ snapshots'[i].acc = b
               /\ \A j \in 1..Len(snapshots') : j > i => snapshots'[j].acc # b
               /\ snapshots'[i].bal = accounts'[b].bal
               /\ snapshots'[i].inc = accounts'[b].inc /\ snapshots'[i].arch = accounts'[b].arch
    BY DEF Mirrored
  <2>1. IF accounts[b] = Nil THEN \A i \in 1..n : snapshots[i].acc # b
        ELSE \E i \in 1..n :
               /\ snapshots[i].acc = b /\ \A j \in 1..n : j > i => snapshots[j].acc # b
               /\ snapshots[i].bal = accounts[b].bal
               /\ snapshots[i].inc = accounts[b].inc /\ snapshots[i].arch = accounts[b].arch
    BY DEF NetInv, Mirrored
  <2>2. CASE snap
    <3>1. n + 1 \in 1..Len(snapshots') /\ \A i \in 1..Len(snapshots') : i \in 1..n \/ i = n + 1
      BY <1>1, <1>4, <2>2
    <3>2. /\ new.acc = a /\ new.bal = row.bal /\ new.inc = row.inc /\ new.arch = row.arch
      BY DEF new
    <3>3. CASE b = a
      <4>1. \A j \in 1..Len(snapshots') : ~ (j > n + 1)
        BY <1>1, <3>1
      <4> QED  BY <1>4, <1>5, <1>10, <2>2, <3>1, <3>2, <3>3, <4>1
    <3>4. CASE b # a
      BY <1>4, <1>5, <2>1, <2>2, <3>1, <3>2, <3>4
    <3> QED  BY <3>3, <3>4
  <2>3. CASE ~ snap
    <3>1. snapshots' = snapshots
      BY <1>2, <2>3
    <3>2. CASE b = a
      BY <1>5, <1>10, <2>1, <2>3, <3>1, <3>2
    <3>3. CASE b # a
      BY <1>5, <2>1, <3>1, <3>3
    <3> QED  BY <3>2, <3>3
  <2> QED  BY <2>2, <2>3
<1>12. Remembered'
  <2> SUFFICES ASSUME NEW t \in 1..clock', NEW m \in 0..Len(snapshots'), UpTo(t, m)'
               PROVE  worth'[t] = Net!Replayed(m)'
    BY DEF Remembered
  <2>1. CASE t = clock + 1
    <3>1. m = Len(snapshots')
      <4>1. \A i \in 1..Len(snapshots') : snapshots'[i].at <= clock + 1 /\ snapshots'[i].at \in Nat
        <5>1. \A i \in 1..Len(snapshots') : snapshots'[i] \in Net!Snapshot
          BY <1>4
        <5>2. \A i \in 1..Len(snapshots') : snapshots'[i].at \in Nat
          BY <5>1 DEF Net!Snapshot
        <5> QED  BY <1>2, <1>9, <5>2 DEF InOrder
      <4>2. SUFFICES ASSUME m + 1 \in 1..Len(snapshots') PROVE FALSE
        BY <1>4
      <4>3. snapshots'[m + 1].at > clock + 1
        BY <2>1, <4>2 DEF UpTo
      <4> DEFINE last == snapshots'[m + 1].at
      <4>4. last <= clock + 1 /\ last \in Nat
        BY <4>1, <4>2
      <4>5. last > clock + 1
        BY <4>3
      <4> HIDE DEF last
      <4> QED  BY <1>1, <4>4, <4>5
    <3>2. Net!Replayed(Len(snapshots))' = Net!Total(accounts)'
      BY <1>8, <1>11, AccountsNext
    <3>3. Net!Total(accounts)' = Net!Total(accounts')
      OBVIOUS
    <3> QED  BY <1>7, <2>1, <3>1, <3>2, <3>3
  <2>2. CASE t # clock + 1
    <3>1. t \in 1..clock
      BY <1>1, <1>2, <2>2
    <3>2. m \in 0..n
      <4>1. SUFFICES ASSUME snap, m = n + 1 PROVE FALSE
        BY <1>1, <1>4
      <4>2. snapshots'[m].at = clock + 1
        BY <1>4, <4>1 DEF new
      <4>3. snapshots'[m].at <= t
        BY <1>1, <4>1 DEF UpTo
      <4> QED  BY <1>1, <3>1, <4>2, <4>3
    <3>3. UpTo(t, m)
      <4>1. \A i \in 1..m : i \in 1..n /\ snapshots'[i].at <= t
        BY <1>1, <3>2 DEF UpTo
      <4>2. \A i \in m + 1..n : i \in m + 1..Len(snapshots') /\ i \in 1..n
        BY <1>1, <1>4, <3>2
      <4>3. \A i \in m + 1..n : snapshots'[i].at > t
        BY <4>2 DEF UpTo
      <4> QED  BY <1>4, <4>1, <4>2, <4>3 DEF UpTo
    <3>4. worth[t] = Net!Replayed(m)
      BY <3>1, <3>2, <3>3 DEF NetInv, Remembered
    <3>5. Net!Replayed(m)' = Net!Replayed(m)
      BY <1>1, <1>4, <3>2, ReplayedBefore DEF NetInv
    <3> QED  BY <1>7, <3>1, <3>4, <3>5
  <2> QED  BY <2>1, <2>2
<1>13. Invested'
  BY <1>5 DEF NetInv, Invested
<1> QED  BY <1>8, <1>9, <1>11, <1>12, <1>13 DEF NetInv

LEMMA NetMidnight ==
    ASSUME NetInv, Net!NextDay
    PROVE  NetInv'
<1> DEFINE next == (Net!Day(clock) + 1) * PerDay
           night == [i \in 1..(next - clock) |-> Net!Total(accounts)]
<1>1. /\ clock \in Nat /\ worth \in Seq(Int) /\ Len(worth) = clock /\ Len(snapshots) \in Nat
      /\ accounts \in [Money -> Net!Row \cup {Nil}]
  BY SnapshotTyped DEF NetInv, Net!TypeOK
<1>2. /\ clock' = next /\ worth' = worth \o night /\ UNCHANGED <<accounts, snapshots>>
  BY DEF Net!NextDay
<1>3. next \in Nat /\ next > clock
  <2>1. PerDay \in Nat \ {0}
    BY Days
  <2>2. clock < (clock \div PerDay + 1) * PerDay /\ (clock \div PerDay + 1) * PerDay \in Nat
    BY <1>1, <2>1
  <2> QED  BY <2>2 DEF Net!Day
<1> HIDE DEF next
<1>4. Net!Total(accounts) \in Int
  <2>1. \A b \in Money : Holds(accounts[b])
    BY <1>1 DEF Holds, Net!Row
  <2>2. IsFiniteSet(Money) /\ DOMAIN accounts = Money
    BY <1>1, ServicesAssumption
  <2> QED  BY <2>1, <2>2, TotalTyped
<1>5. /\ worth' \in Seq(Int) /\ Len(worth') = clock'
      /\ \A t \in 1..clock' : worth'[t] = IF t <= clock THEN worth[t] ELSE Net!Total(accounts)
  <2>1. night \in Seq(Int) /\ Len(night) = next - clock
    BY <1>1, <1>3, <1>4
  <2>2. \A i \in 1..next - clock : night[i] = Net!Total(accounts)
    BY <1>1, <1>3
  <2> HIDE DEF night
  <2>3. worth' \in Seq(Int) /\ Len(worth') = Len(worth) + Len(night)
    <3>1. \A s, t \in Seq(Int) : s \o t \in Seq(Int) /\ Len(s \o t) = Len(s) + Len(t)
      OBVIOUS
    <3> QED  BY <1>1, <1>2, <2>1, <3>1
  <2>4. \A t \in 1..clock' : worth'[t] = IF t <= clock THEN worth[t] ELSE night[t - clock]
    <3>1. \A s, t \in Seq(Int) : \A i \in 1..Len(s) + Len(t) :
            (s \o t)[i] = IF i <= Len(s) THEN s[i] ELSE t[i - Len(s)]
      OBVIOUS
    <3>2. \A t \in 1..clock' : t \in 1..Len(worth) + Len(night)
      BY <1>1, <1>2, <1>3, <2>1
    <3> QED  BY <1>1, <1>2, <2>1, <3>1, <3>2
  <2>5. \A t \in 1..clock' : ~ (t <= clock) => t - clock \in 1..next - clock
    BY <1>1, <1>2, <1>3
  <2> QED  BY <1>1, <1>2, <1>3, <2>1, <2>2, <2>3, <2>4, <2>5
<1>6. Net!TypeOK'
  BY <1>2, <1>3, <1>5 DEF NetInv, Net!TypeOK
<1>7. InOrder'
  <2>1. \A i \in 1..Len(snapshots) : snapshots[i].at \in Nat
    BY SnapshotTyped DEF NetInv
  <2> QED  BY <1>1, <1>2, <1>3, <2>1 DEF NetInv, InOrder
<1>8. Mirrored' /\ Invested'
  BY <1>2 DEF NetInv, Mirrored, Invested
<1>9. Remembered'
  <2> SUFFICES ASSUME NEW t \in 1..clock', NEW m \in 0..Len(snapshots), UpTo(t, m)'
               PROVE  worth'[t] = Net!Replayed(m)'
    BY <1>2 DEF Remembered
  <2>1. UpTo(t, m)
    BY <1>2 DEF UpTo
  <2>2. Net!Replayed(m)' = Net!Replayed(m)
    BY <1>1, <1>2, ReplayedBefore DEF NetInv
  <2>3. CASE t <= clock
    BY <1>1, <1>2, <1>3, <1>5, <2>1, <2>2, <2>3 DEF NetInv, Remembered
  <2>4. CASE ~ (t <= clock)
    <3>1. m = Len(snapshots)
      <4>1. SUFFICES ASSUME m + 1 \in 1..Len(snapshots) PROVE FALSE
        BY <1>1
      <4>2. snapshots[m + 1].at > t /\ snapshots[m + 1].at <= clock /\ snapshots[m + 1].at \in Nat
        BY <1>1, <2>1, <4>1, SnapshotTyped DEF UpTo, NetInv, InOrder
      <4> QED  BY <1>1, <1>2, <1>3, <2>4, <4>2
    <3>2. Net!Replayed(Len(snapshots)) = Net!Total(accounts)
      BY AccountsNow DEF NetInv
    <3> QED  BY <1>5, <2>2, <2>4, <3>1, <3>2
  <2> QED  BY <2>3, <2>4
<1> QED  BY <1>6, <1>7, <1>8, <1>9 DEF NetInv

LEMMA NetStep ==
    ASSUME NetInv, [Net!Next]_worthVars
    PROVE  NetInv'
<1>1. \A a \in Money : accounts[a] # Nil => accounts[a] \in Net!Row
  BY DEF NetInv, Net!TypeOK
<1>2. CASE Net!NextDay
  BY <1>2, NetMidnight
<1>3. ASSUME NEW a \in Money, NEW row \in Opening, Net!Create(a, row)
      PROVE  NetInv'
  <2>1. row \in Net!Row
    BY ServicesAssumption
  <2> QED  BY <1>3, <2>1, NormalRow, NetWritten DEF Net!Create
<1>4. ASSUME NEW a \in Money, NEW row \in Opening, Net!Record(a, row.bal)
      PROVE  NetInv'
  <2> DEFINE new == [accounts[a] EXCEPT !.bal = row.bal]
  <2>1. row \in Net!Row /\ accounts[a] # Nil /\ Net!Write(a, new, TRUE)
    BY <1>4, ServicesAssumption DEF Net!Record
  <2>2. new \in Net!Row /\ (new.type = "broker" => new.purpose = "investment")
    BY <1>1, <2>1 DEF Net!Row, NetInv, Invested
  <2> HIDE DEF new
  <2> QED  BY <2>1, <2>2, NetWritten
<1>5. ASSUME NEW a \in Money, NEW patch \in Patch, Net!Update(a, patch)
      PROVE  NetInv'
  <2> DEFINE old == accounts[a]
             new == Net!Normal(Net!Patched(old, patch))
  <2>1. old # Nil /\ Net!Write(a, new, Net!IsHistory(old, new))
    BY <1>5 DEF Net!Update
  <2>2. new \in Net!Row /\ (new.type = "broker" => new.purpose = "investment")
    BY <1>1, <2>1, PatchedRow, NormalRow
  <2>3. Net!IsHistory(old, new) \in BOOLEAN
    BY DEF Net!IsHistory
  <2>4. ~ Net!IsHistory(old, new) => new.bal = old.bal /\ new.inc = old.inc /\ new.arch = old.arch
    BY DEF Net!IsHistory
  <2> HIDE DEF new
  <2> QED  BY <2>1, <2>2, <2>3, <2>4, NetWritten
<1>6. ASSUME NEW a \in Money, Net!Archive(a)
      PROVE  NetInv'
  <2> DEFINE new == [accounts[a] EXCEPT !.arch = TRUE]
  <2>1. accounts[a] # Nil /\ Net!Write(a, new, TRUE)
    BY <1>6 DEF Net!Archive
  <2>2. new \in Net!Row /\ (new.type = "broker" => new.purpose = "investment")
    BY <1>1, <2>1 DEF Net!Row, NetInv, Invested
  <2> HIDE DEF new
  <2> QED  BY <2>1, <2>2, NetWritten
<1>7. CASE UNCHANGED worthVars
  <2>1. UNCHANGED <<accounts, snapshots, clock, worth>>
    BY <1>7 DEF worthVars
  <2>2. Net!TypeOK' /\ InOrder' /\ Mirrored' /\ Invested'
    BY <2>1 DEF NetInv, Net!TypeOK, InOrder, Mirrored, Invested
  <2>3. Remembered'
    <3> SUFFICES ASSUME NEW t \in 1..clock, NEW m \in 0..Len(snapshots), UpTo(t, m)'
                 PROVE  worth[t] = Net!Replayed(m)'
      BY <2>1 DEF Remembered
    <3>1. UpTo(t, m)
      BY <2>1 DEF UpTo
    <3>2. Net!Replayed(m)' = Net!Replayed(m)
      BY <2>1, SnapshotTyped, ReplayedBefore DEF NetInv
    <3> QED  BY <3>1, <3>2 DEF NetInv, Remembered
  <2> QED  BY <2>2, <2>3 DEF NetInv
<1>8. Net!Next \/ UNCHANGED worthVars
  OBVIOUS
<1> QED  BY <1>2, <1>3, <1>4, <1>5, <1>6, <1>7, <1>8 DEF Net!Next

LEMMA NetStart == Net!Init => NetInv
<1> SUFFICES ASSUME Net!Init PROVE NetInv
  OBVIOUS
<1>1. accounts = [a \in Money |-> Nil] /\ snapshots = <<>> /\ clock = 0 /\ worth = <<>>
  BY DEF Net!Init
<1>2. Net!TypeOK
  BY <1>1 DEF Net!TypeOK
<1>3. InOrder /\ Mirrored /\ Remembered /\ Invested
  BY <1>1 DEF InOrder, Mirrored, Remembered, Invested
<1> QED  BY <1>2, <1>3 DEF NetInv

-----------------------------------------------------------------------------
(* What the invariant says of the summary and of the curve *)

\* The total of the accounts of one kind.
Part(T) == Net!Total([a \in {a \in Money : accounts[a] # Nil /\ a \in T} |-> accounts[a]])

LEMMA PartIs ==
    ASSUME Net!TypeOK, NEW T \in SUBSET Money
    PROVE  Part(T) = SumOver([a \in DOMAIN Net!Held(accounts) \cap T |-> Net!Held(accounts)[a]])
<1> DEFINE R == [a \in {a \in Money : accounts[a] # Nil /\ a \in T} |-> accounts[a]]
<1>1. DOMAIN accounts = Money
  BY DEF Net!TypeOK
<1>2. DOMAIN Net!Held(R) = DOMAIN Net!Held(accounts) \cap T
  BY <1>1 DEF Net!Held
<1>3. Net!Held(R) = [a \in DOMAIN Net!Held(accounts) \cap T |-> Net!Held(accounts)[a]]
  BY <1>1, <1>2 DEF Net!Held
<1> HIDE DEF R
<1> QED  BY <1>3, TotalIs DEF Part, R

LEMMA PartsAdd ==
    ASSUME Net!TypeOK, NEW T \in SUBSET Money, NEW U \in SUBSET T
    PROVE  Part(T) = Part(U) + Part(T \ U)
<1> DEFINE h == Net!Held(accounts)
           D == DOMAIN h
           f == [a \in D \cap T |-> h[a]]
<1>1. accounts \in [Money -> Net!Row \cup {Nil}] /\ IsFiniteSet(Money)
  BY ServicesAssumption DEF Net!TypeOK
<1>2. D \subseteq Money /\ h \in [D -> Int]
  BY <1>1 DEF Net!Held, Net!Row
<1>3. IsFiniteSet(D \cap T)
  BY <1>1, <1>2, FS_Subset
<1> HIDE DEF h, D
<1>4. f \in [D \cap T -> Int]
  BY <1>2
<1>5. SumOver(f) = SumOver([a \in D \cap U |-> f[a]]) + SumOver([a \in (D \cap T) \ (D \cap U) |-> f[a]])
  <2> DEFINE E == D \cap T
             A == D \cap U
  <2>1. A \in SUBSET E
    OBVIOUS
  <2> HIDE DEF f, E, A
  <2>2. SumOver(f) = SumOver([a \in A |-> f[a]]) + SumOver([a \in E \ A |-> f[a]])
    BY <1>3, <1>4, <2>1, SumOfParts DEF E
  <2> QED  BY <2>2 DEF E, A
<1>6. (D \cap T) \ (D \cap U) = D \cap (T \ U)
  OBVIOUS
<1>7. /\ [a \in D \cap U |-> f[a]] = [a \in D \cap U |-> h[a]]
      /\ [a \in D \cap (T \ U) |-> f[a]] = [a \in D \cap (T \ U) |-> h[a]]
  OBVIOUS
<1>8. /\ Part(T) = SumOver(f) /\ Part(U) = SumOver([a \in D \cap U |-> h[a]])
      /\ Part(T \ U) = SumOver([a \in D \cap (T \ U) |-> h[a]])
  BY PartIs DEF h, D
<1> QED  BY <1>5, <1>6, <1>7, <1>8

LEMMA SummaryIs ==
    ASSUME Net!TypeOK
    PROVE  LET I == {a \in Money : accounts[a].purpose = "investment"}
           IN  /\ Net!Summary.total = Net!Total(accounts)
               /\ Net!Summary.invested = Part(I)
<1> DEFINE I == {a \in Money : accounts[a].purpose = "investment"}
           In(as) == [a \in {a \in Money : accounts[a] # Nil /\ accounts[a].purpose \in as}
                        |-> accounts[a]]
           Of(T) == [a \in {a \in Money : accounts[a] # Nil /\ a \in T} |-> accounts[a]]
<1>1. accounts \in [Money -> Net!Row \cup {Nil}]
  BY DEF Net!TypeOK
<1>2. In({"investment"}) = Of(I)
  OBVIOUS
<1>3. In(Net!Purpose \ {"investment"}) = Of(Money \ I)
  <2>1. \A a \in Money : accounts[a] # Nil => accounts[a].purpose \in Net!Purpose
    BY <1>1 DEF Net!Row
  <2>2. {a \in Money : accounts[a] # Nil /\ accounts[a].purpose \in Net!Purpose \ {"investment"}}
          = {a \in Money : accounts[a] # Nil /\ a \in Money \ I}
    BY <2>1
  <2> QED  BY <2>2
<1>4. Net!Summary.invested = Part(I) /\ Net!Summary.total = Part(I) + Part(Money \ I)
  <2>1. /\ Net!Summary.invested = Net!Total(In({"investment"}))
        /\ Net!Summary.total = Net!Total(In({"investment"})) + Net!Total(In(Net!Purpose \ {"investment"}))
    BY DEF Net!Summary
  <2> QED  BY <1>2, <1>3, <2>1 DEF Part
<1>5. Part(Money) = Net!Total(accounts)
  <2>1. Net!Held(Of(Money)) = Net!Held(accounts)
    BY <1>1 DEF Net!Held
  <2> QED  BY <2>1, TotalIs DEF Part
<1> HIDE DEF I
<1>6. I \in SUBSET Money
  BY DEF I
<1>7. Part(Money) = Part(I) + Part(Money \ I)
  BY <1>6, PartsAdd
<1> QED  BY <1>4, <1>5, <1>7 DEF I

LEMMA BrokersStand ==
    ASSUME NetInv
    PROVE  Net!BrokersAreInvested
<1> DEFINE I == {a \in Money : accounts[a].purpose = "investment"}
           B == {a \in I : accounts[a].type = "broker"}
<1>1. Net!Summary.invested = Part(I)
  BY SummaryIs DEF NetInv
<1>2. Part(I) = Part(B) + Part(I \ B)
  <2>1. I \in SUBSET Money /\ B \in SUBSET I
    OBVIOUS
  <2> HIDE DEF I, B
  <2> QED  BY <2>1, PartsAdd DEF NetInv
<1>3. [a \in {a \in Money : accounts[a] # Nil /\ accounts[a].type = "broker"} |-> accounts[a]]
        = [a \in {a \in Money : accounts[a] # Nil /\ a \in B} |-> accounts[a]]
  <2>1. {a \in Money : accounts[a] # Nil /\ accounts[a].type = "broker"}
          = {a \in Money : accounts[a] # Nil /\ a \in B}
    BY DEF NetInv, Invested
  <2> QED  BY <2>1
<1>4. [a \in {a \in Money : accounts[a] # Nil
                /\ (accounts[a].type # "broker" /\ accounts[a].purpose = "investment")} |-> accounts[a]]
        = [a \in {a \in Money : accounts[a] # Nil /\ a \in I \ B} |-> accounts[a]]
  <2>1. {a \in Money : accounts[a] # Nil
           /\ (accounts[a].type # "broker" /\ accounts[a].purpose = "investment")}
          = {a \in Money : accounts[a] # Nil /\ a \in I \ B}
    OBVIOUS
  <2> QED  BY <2>1
<1> HIDE DEF I, B
<1> QED  BY <1>1, <1>2, <1>3, <1>4 DEF Net!BrokersAreInvested, Part

\* The snapshots up to a moment, and the point they make.
LEMMA CurveStands ==
    ASSUME NetInv
    PROVE  Net!CurveIsWhatWasHeld
<1> DEFINE n == Len(snapshots)
           C == Net!Cutoff
<1>1. /\ n \in Nat /\ clock \in Nat /\ C \in Int
      /\ \A i \in 1..n : snapshots[i].at \in Nat /\ snapshots[i].at <= clock
      /\ \A i, j \in 1..n : i < j => snapshots[i].at < snapshots[j].at
      /\ DOMAIN snapshots = 1..n
  <2>1. Window * PerDay \in Nat
    BY ServicesAssumption
  <2> QED  BY <2>1, SnapshotTyped DEF NetInv, InOrder, Net!TypeOK, Net!Cutoff
<1>2. /\ \A x, y \in Int : x <= y => Net!Day(x) <= Net!Day(y)
      /\ \A x, t \in Int : (t + 1) % PerDay = 0 /\ x > t => Net!Day(x) > Net!Day(t)
      /\ \A x \in Int : Net!Day(x) \in Int
      /\ Net!Day(C) < Net!Day(clock) /\ C < clock
  <2>1. Net!Day(C) < Net!Day(clock)
    BY <1>1, Days DEF Net!Cutoff
  <2>2. ~ (clock <= C)
    BY <1>1, <2>1, Days
  <2> QED  BY <1>1, <2>1, <2>2, Days
<1>3. Net!Summary.total = Net!Total(accounts) /\ Net!Replayed(n) = Net!Total(accounts)
  BY SummaryIs, AccountsNow DEF NetInv
<1> DEFINE total == Net!Summary.total
           base == Net!Baseline
           daily == Net!Daily
           ps == base \cup daily
           wrong == {p \in ps : Net!Day(p.at) = Net!Day(clock) /\ p.total # total
                                /\ \A q \in ps : q.at <= p.at}
           today == {p \in ps \ wrong : Net!Day(p.at) = Net!Day(clock)}
           now == IF today = {} THEN {[at |-> clock, total |-> total]} ELSE {}
<1>4. Net!Points = (ps \ wrong) \cup now
  BY DEF Net!Points
<1>5. SUFFICES ASSUME snapshots # <<>>, NEW t \in 1..clock, t >= C,
                      t = clock \/ (t + 1) % PerDay = 0
               PROVE  LET upto == {p \in Net!Points : p.at <= t} IN
                      IF upto = {} THEN worth[t] = 0
                      ELSE \E p \in upto : p.total = worth[t] /\ \A q \in upto : q.at <= p.at
  BY DEF Net!CurveIsWhatWasHeld
<1> DEFINE upto == {p \in Net!Points : p.at <= t}
           point(i) == [at |-> snapshots[i].at, total |-> Net!Replayed(i)]
<1>6. \A q : q \in daily <=> \E i \in 1..n :
        /\ q = point(i) /\ snapshots[i].at >= C
        /\ \A j \in (i + 1)..n : Net!Day(snapshots[j].at) # Net!Day(snapshots[i].at)
  BY <1>1 DEF Net!Daily
<1>7. \A q \in base : q.at = C /\ \E i \in 1..n : snapshots[i].at < C
  BY <1>1 DEF Net!Baseline
<1>8. \A q \in daily : q.at <= clock /\ q.at >= C /\ q.at \in Nat
  BY <1>1, <1>6
<1>9. PICK m \in 0..n : UpTo(t, m)
  <2> DEFINE T == {i \in 0..n : i # 0 => snapshots[i].at <= t}
  <2>1. T \in SUBSET Nat /\ 0 \in T /\ \A i \in T : i <= n
    BY <1>1
  <2>2. PICK m \in T : \A i \in T : i <= m
    <3> HIDE DEF T
    <3> QED  BY <1>1, <2>1, GreatestElement
  <2>3. \A i \in 1..m : snapshots[i].at <= t
    <3>1. \A i \in 1..m : i \in 1..n /\ m \in 1..n /\ snapshots[m].at <= t /\ (i < m \/ i = m)
      BY <1>1, <2>2
    <3> QED  BY <1>1, <3>1
  <2>4. \A i \in m + 1..n : snapshots[i].at > t
    <3>1. \A i \in m + 1..n : i \in 1..n /\ i \notin T
      BY <1>1, <2>2
    <3> QED  BY <1>1, <3>1
  <2> QED  BY <2>2, <2>3, <2>4 DEF UpTo
<1>10. worth[t] = Net!Replayed(m)
  BY <1>9 DEF NetInv, Remembered
<1>11. /\ m \in Nat /\ m <= n /\ t \in Int /\ t <= clock
       /\ \A i \in 1..n : i <= m => snapshots[i].at <= t
       /\ \A i \in 1..n : i > m => snapshots[i].at > t
  BY <1>1, <1>9 DEF UpTo
<1>14. \A i, j \in 1..n : i <= j => snapshots[i].at <= snapshots[j].at
  BY <1>1
<1>15. /\ Net!Day(C) \in Int /\ Net!Day(clock) \in Int /\ Net!Day(t) \in Int
       /\ Net!Day(C) # Net!Day(clock)
       /\ \A i \in 1..n : snapshots[i].at \in Int /\ Net!Day(snapshots[i].at) \in Int
  <2>1. \A x \in Int : Net!Day(x) \in Int
    BY <1>2
  <2>2. Net!Day(C) # Net!Day(clock)
    BY <1>1, <1>2, <2>1
  <2> HIDE DEF n, C
  <2>3. \A i \in 1..n : snapshots[i].at \in Int
    BY <1>1
  <2>4. C \in Int /\ clock \in Int /\ t \in Int
    BY <1>1, <1>11
  <2> QED  BY <2>1, <2>2, <2>3, <2>4
<1>16. /\ \A i, j \in 1..n : i <= j => Net!Day(snapshots[i].at) <= Net!Day(snapshots[j].at)
       /\ \A i \in 1..n : Net!Day(snapshots[i].at) <= Net!Day(clock)
       /\ \A i \in 1..n : i <= m => Net!Day(snapshots[i].at) <= Net!Day(t)
  <2> HIDE DEF n, C
  <2>1. \A x, y \in Int : x <= y => Net!Day(x) <= Net!Day(y)
    BY <1>2
  <2>2. clock \in Int /\ \A i \in 1..n : snapshots[i].at <= clock
    BY <1>1
  <2> QED  BY <1>11, <1>14, <1>15, <2>1, <2>2
<1> HIDE DEF n, C, total, base, daily, point
<1>12. CASE t = clock
  <2>1. m = n
    BY <1>1, <1>11, <1>12
  <2>2. worth[t] = total
    BY <1>3, <1>10, <2>1 DEF total
  <2>3. CASE today = {}
    <3> DEFINE p == [at |-> clock, total |-> total]
    <3>1. p \in upto /\ p.total = worth[t] /\ p.at = clock
      BY <1>1, <1>4, <1>12, <2>2, <2>3
    <3>2. \A q \in upto : q.at <= clock
      BY <1>12
    <3> QED  BY <3>1, <3>2
  <2>4. CASE today # {}
    <3>1. PICK p \in ps : p \notin wrong /\ Net!Day(p.at) = Net!Day(clock)
      BY <2>4
    <3>2. p \in daily
      BY <1>7, <1>15, <3>1
    <3>3. PICK i \in 1..n :
        /\ p = point(i) /\ snapshots[i].at >= C
        /\ \A j \in (i + 1)..n : Net!Day(snapshots[j].at) # Net!Day(snapshots[i].at)
      BY <1>6, <3>2
    <3>4. i = n
      <4>1. SUFFICES ASSUME n \in (i + 1)..n PROVE FALSE
        BY <1>1
      <4>2. n \in 1..n /\ i <= n
        BY <1>1, <4>1
      <4>3. /\ Net!Day(snapshots[i].at) <= Net!Day(snapshots[n].at)
            /\ Net!Day(snapshots[n].at) <= Net!Day(clock)
        BY <1>16, <4>2
      <4>4. Net!Day(snapshots[i].at) = Net!Day(clock)
        BY <3>1, <3>3 DEF point
      <4>5. Net!Day(snapshots[n].at) = Net!Day(snapshots[i].at)
        BY <1>15, <4>2, <4>3, <4>4
      <4> QED  BY <3>3, <4>1, <4>5
    <3>5. p.total = worth[t] /\ p.at = snapshots[n].at
      BY <1>10, <2>1, <3>3, <3>4 DEF point
    <3>6. p \in upto
      BY <1>1, <1>4, <1>12, <3>1, <3>4, <3>5
    <3>7. ASSUME NEW q \in upto PROVE q.at <= p.at
      <4>1. q \in ps
        BY <1>4, <2>4
      <4>2. CASE q \in base
        BY <1>1, <1>7, <3>3, <3>4, <3>5, <4>2 DEF point
      <4>3. CASE q \in daily
        <5>1. PICK k \in 1..n : q = point(k)
          BY <1>6, <4>3
        <5>2. snapshots[k].at <= snapshots[n].at
          BY <1>1, <1>14, <3>4
        <5> QED  BY <3>5, <5>1, <5>2 DEF point
      <4> QED  BY <4>1, <4>2, <4>3
    <3> QED  BY <3>5, <3>6, <3>7
  <2> QED  BY <2>3, <2>4
<1>13. CASE t # clock
  <2>1. t \in Int /\ t < clock /\ \A x \in Int : x > t => Net!Day(x) > Net!Day(t)
    BY <1>1, <1>2, <1>5, <1>13
  <2>2. Net!Day(t) < Net!Day(clock)
    BY <1>1, <2>1
  <2>3. \A q \in ps : q.at \in Int /\ (q.at <= t => q \notin wrong)
    <3>1. \A q \in ps : q.at \in Int
      BY <1>1, <1>7, <1>8
    <3> SUFFICES ASSUME NEW q \in ps, q.at <= t PROVE q \notin wrong
      BY <3>1
    <3>2. Net!Day(q.at) \in Int /\ Net!Day(q.at) <= Net!Day(t)
      BY <1>2, <2>1, <3>1
    <3>3. Net!Day(q.at) # Net!Day(clock)
      BY <1>15, <2>2, <3>2
    <3> QED  BY <3>3
  <2>4. upto = {p \in ps : p.at <= t}
    <3>1. \A q \in now : q.at = clock
      OBVIOUS
    <3> QED  BY <1>1, <1>4, <2>1, <2>3, <3>1
  <2>5. CASE m = 0
    <3>1. \A i \in 1..n : snapshots[i].at > t
      BY <1>11, <2>5
    <3>2. \A q \in daily : ~ (q.at <= t)
      BY <1>1, <1>6, <2>1, <3>1 DEF point
    <3>3. base = {}
      BY <1>1, <1>5, <1>7, <2>1, <3>1
    <3>4. upto = {}
      BY <2>4, <3>2, <3>3
    <3>5. Net!Replayed(0) = 0
      <4>1. DOMAIN Net!Held(Seen(0)) = {}
        BY DEF Net!Held, Seen
      <4> QED  BY <4>1, ReplayedIs, TotalIs, SumOfNone
    <3> QED  BY <1>10, <2>5, <3>4, <3>5
  <2>6. CASE m # 0 /\ snapshots[m].at >= C
    <3>1. m \in 1..n /\ snapshots[m].at <= t
      BY <1>1, <1>11, <2>6
    <3>2. \A j \in (m + 1)..n : Net!Day(snapshots[j].at) # Net!Day(snapshots[m].at)
      <4> SUFFICES ASSUME NEW j \in (m + 1)..n
                   PROVE  Net!Day(snapshots[j].at) # Net!Day(snapshots[m].at)
        OBVIOUS
      <4>1. j \in 1..n /\ snapshots[j].at > t
        BY <1>1, <1>11
      <4>2. Net!Day(snapshots[j].at) > Net!Day(t)
        BY <1>15, <2>1, <4>1
      <4>3. Net!Day(snapshots[m].at) <= Net!Day(t)
        BY <1>1, <1>16, <3>1
      <4> QED  BY <1>15, <3>1, <4>1, <4>2, <4>3
    <3>3. point(m) \in daily
      BY <1>6, <2>6, <3>1, <3>2
    <3>4. point(m).at = snapshots[m].at /\ point(m).total = worth[t]
      BY <1>10 DEF point
    <3>5. point(m) \in upto
      BY <2>4, <3>1, <3>3, <3>4
    <3>6. ASSUME NEW q \in upto PROVE q.at <= point(m).at
      <4>1. q \in ps /\ q.at <= t
        BY <2>4
      <4>2. CASE q \in base
        BY <1>7, <2>6, <3>1, <3>4, <4>2, <1>1
      <4>3. CASE q \in daily
        <5>1. PICK k \in 1..n : q = point(k)
          BY <1>6, <4>3
        <5>2. k <= m
          BY <1>1, <1>11, <4>1, <5>1 DEF point
        <5>3. snapshots[k].at <= snapshots[m].at
          BY <1>14, <3>1, <5>2
        <5> QED  BY <3>4, <5>1, <5>3 DEF point
      <4> QED  BY <4>1, <4>2, <4>3
    <3> QED  BY <3>4, <3>5, <3>6
  <2>7. CASE m # 0 /\ ~ (snapshots[m].at >= C)
    <3> DEFINE before == {i \in 1..n : snapshots[i].at < C}
    <3>1. m \in 1..n /\ snapshots[m].at < C
      BY <1>1, <1>11, <2>7
    <3>2. \A i \in before : i <= m
      BY <1>1, <1>5, <1>11
    <3>3. Net!Max(before) = m
      <4>1. before \in SUBSET (1..n) /\ before # {} /\ m \in before
        BY <3>1
      <4> HIDE DEF before
      <4>2. Net!Max(before) \in before /\ \A j \in before : j <= Net!Max(before)
        BY <1>1, <4>1, GreatestIs
      <4>3. Net!Max(before) <= m /\ m <= Net!Max(before)
        BY <3>2, <4>1, <4>2
      <4>4. Net!Max(before) \in 1..n
        BY <4>1, <4>2
      <4> QED  BY <1>1, <3>1, <4>3, <4>4
    <3> DEFINE p == [at |-> C, total |-> worth[t]]
    <3>4. base = {p}
      BY <1>1, <1>10, <3>1, <3>3 DEF base, Net!Baseline, C
    <3>5. p \in upto /\ p.at = C /\ p.total = worth[t]
      BY <1>5, <2>4, <3>4
    <3>6. ASSUME NEW q \in upto PROVE q.at <= C
      <4>1. q \in ps /\ q.at <= t
        BY <2>4
      <4>2. CASE q \in base
        BY <1>1, <1>7, <4>2
      <4>3. CASE q \in daily
        <5>1. PICK k \in 1..n : q = point(k) /\ snapshots[k].at >= C
          BY <1>6, <4>3
        <5>2. k <= m
          BY <1>1, <1>11, <4>1, <5>1 DEF point
        <5>3. snapshots[k].at <= snapshots[m].at
          BY <1>14, <3>1, <5>2
        <5> QED  BY <1>1, <3>1, <5>1, <5>3
      <4> QED  BY <4>1, <4>2, <4>3
    <3> QED  BY <3>5, <3>6
  <2> QED  BY <2>5, <2>6, <2>7
<1> QED  BY <1>12, <1>13

\* The net worth for any accounts, changes and window: today's figure and the
\* history agree with the accounts at every moment, and a broker's money counts
\* as invested in whichever order its type and its purpose were changed.
THEOREM WorthStands == Spec => []NetWorthSafe
<1>1. Init => NetInv
  BY NetStart DEF Init
<1>2. [Next]_vars => Net!Next \/ UNCHANGED worthVars
  BY DEF Next, vars, worthVars
<1>3. NetInv /\ [Next]_vars => NetInv'
  BY <1>2, NetStep
<1>4. NetInv => NetWorthSafe
  BY CurveStands, BrokersStand DEF NetInv, NetWorthSafe, Net!NetWorthSafe
<1> QED  BY <1>1, <1>3, <1>4, PTL DEF Spec
=============================================================================
