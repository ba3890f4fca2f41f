------------------------- MODULE MobileSessionProofs -------------------------
(***************************************************************************)
(* Proofs about MobileSession.  First what a process holds at each step,   *)
(* whatever runs next to it, and the types of the variables.  Then: the    *)
(* device is of one account, the login screen is clean, a session is       *)
(* revoked as replayed for a cause, and an edit is lost for one.  For      *)
(* those the invariant adds four parts to what each step holds: what keeps *)
(* tasks, tokens and rows of one account, as long as no task ran next to a *)
(* restore; what is left to wipe; which refresh token is the current one;  *)
(* and why a session that the device gives up was ended.                   *)
(***************************************************************************)
EXTENDS MobileSession, SequenceTheorems, TLAPS

Full(c) == c.access # 0 /\ c.refresh # 0 /\ c.user # Nil

\* Steps at which a process holds tokens, and at which a task is in its replica.
Holding == {"me", "refresh", "save", "bind", "rebind", "sent", "denied", "resent", "persist"}

Entered == {"claim", "call", "sent", "denied", "await", "resent", "persist"}

\* The application is shown, or is being left.
Inside == {"in", "drain", "revoke", "call", "sent", "denied", "await", "resent", "relogin"}

Issuing == {"sent", "denied", "await", "resent", "relogin", "call"}

\* What each step holds, whatever runs next to it.
PairsInOrder == \A m \in DOMAIN pairs : pairs[m].sess <= m

TokensIssued ==
    /\ store.access <= Len(pairs) /\ store.refresh <= Len(pairs)
    /\ \A p \in Process : tok[p].access <= Len(pairs) /\ tok[p].refresh <= Len(pairs)

\* What tokens go with a step.
Fits(p, l, c) ==
    /\ l \notin Holding => c = None
    /\ l \in {"me", "save", "bind", "rebind"} => Full(c)
    /\ l = "refresh" => c.refresh # 0 /\ (p = "ui" => Full(c))
    /\ l \in {"sent", "denied", "resent", "persist"} => c.access # 0

StepHolds(p) == Fits(p, pc[p], tok[p])

CarriesLate ==
    \A w \in Work : pc[w] \in {"idle", "bind", "rebind", "claim", "clear"} => carry[w] = {}

FlightAwaited == pc["flight"] # "idle" => \E p \in Process : pc[p] = "await"

StepsHold ==
    PairsInOrder /\ TokensIssued /\ (\A p \in Process : StepHolds(p)) /\ CarriesLate /\ FlightAwaited

\* What the interface does and with which purpose.
UiStands ==
    /\ pc["ui"] \in Inside => shown # Nil
    /\ goal # Nil => shown # Nil
    /\ pc["ui"] \in (Inside \ {"in"}) => ~ accepting
    /\ pc["ui"] \in {"wipe", "ack"} => marker
    /\ pc["ui"] \in {"launch", "read", "me", "refresh", "bind", "rebind", "signedout", "in"} => goal = Nil
    /\ pc["ui"] = "save" => goal \in {Nil, "password"}
    /\ pc["ui"] \in Issuing => goal \in {"password", "delete"}
    /\ pc["ui"] = "drain" => goal # Nil
    /\ pc["ui"] = "relogin" => goal = "password"
    /\ goal = "password" /\ pc["ui"] \notin {"in", "drain"} => edits = {}

-----------------------------------------------------------------------------
(* Credentials, pairs and the items that remain *)

LEMMA NoneIs == \A c \in Credentials : c = None <=> c.access = 0 /\ c.refresh = 0 /\ c.user = Nil
BY DEF Credentials, None, Token

LEMMA FullIs ==
    \A c \in Credentials : (\E i \in DOMAIN None : c[i] = None[i]) <=> ~ Full(c)
BY DEF Credentials, None, Full

LEMMA NoneHeld == None \in Credentials /\ None.access = 0 /\ None.refresh = 0 /\ None.user = Nil
BY MobileSessionAssumption DEF Credentials, None, Token

LEMMA RemainingApart ==
    /\ Item \in Remaining /\ <<"refresh", "user">> \in Remaining /\ <<"user">> \in Remaining
    /\ <<>> \in Remaining
    /\ Item # <<"refresh", "user">> /\ Item # <<"user">> /\ Item # <<>>
    /\ <<"refresh", "user">> # <<"user">> /\ <<"refresh", "user">> # <<>> /\ <<"user">> # <<>>
BY DEF Item, Remaining

LEMMA SaveIs ==
    ASSUME TypeOK, NEW p \in Process, SaveItem(p)
    PROVE  \/ /\ left[p] = Item /\ store' = [store EXCEPT !.access = tok[p].access]
              /\ left' = [left EXCEPT ![p] = <<"refresh", "user">>]
           \/ /\ left[p] = <<"refresh", "user">>
              /\ store' = [store EXCEPT !.refresh = tok[p].refresh]
              /\ left' = [left EXCEPT ![p] = <<"user">>]
           \/ /\ left[p] = <<"user">> /\ store' = [store EXCEPT !.user = tok[p].user]
              /\ left' = [left EXCEPT ![p] = <<>>]
<1>1. left[p] \in Remaining \ {<<>>}
  BY DEF TypeOK, MemoryTyped, SaveItem
<1>2. CASE left[p] = Item
  <2>1. Head(left[p]) = "access" /\ Tail(left[p]) = <<"refresh", "user">>
    BY <1>2 DEF Item
  <2> QED  BY <1>2, <2>1 DEF SaveItem
<1>3. CASE left[p] = <<"refresh", "user">>
  <2>1. Head(left[p]) = "refresh" /\ Tail(left[p]) = <<"user">>
    BY <1>3
  <2> QED  BY <1>3, <2>1 DEF SaveItem
<1>4. CASE left[p] = <<"user">>
  <2>1. Head(left[p]) = "user" /\ Tail(left[p]) = <<>>
    BY <1>4
  <2> QED  BY <1>4, <2>1 DEF SaveItem
<1> QED  BY <1>1, <1>2, <1>3, <1>4 DEF Remaining

LEMMA ClearIs ==
    ASSUME TypeOK, NEW p \in Process, ClearItem(p)
    PROVE  \/ /\ left[p] = Item /\ store' = [store EXCEPT !.access = 0]
              /\ left' = [left EXCEPT ![p] = <<"refresh", "user">>]
           \/ /\ left[p] = <<"refresh", "user">> /\ store' = [store EXCEPT !.refresh = 0]
              /\ left' = [left EXCEPT ![p] = <<"user">>]
           \/ /\ left[p] = <<"user">> /\ store' = [store EXCEPT !.user = Nil]
              /\ left' = [left EXCEPT ![p] = <<>>]
<1>1. left[p] \in Remaining \ {<<>>}
  BY DEF TypeOK, MemoryTyped, ClearItem
<1>2. CASE left[p] = Item
  <2>1. Head(left[p]) = "access" /\ Tail(left[p]) = <<"refresh", "user">>
    BY <1>2 DEF Item
  <2> QED  BY <1>2, <2>1, NoneHeld DEF ClearItem
<1>3. CASE left[p] = <<"refresh", "user">>
  <2>1. Head(left[p]) = "refresh" /\ Tail(left[p]) = <<"user">>
    BY <1>3
  <2> QED  BY <1>3, <2>1, NoneHeld DEF ClearItem
<1>4. CASE left[p] = <<"user">>
  <2>1. Head(left[p]) = "user" /\ Tail(left[p]) = <<>>
    BY <1>4
  <2> QED  BY <1>4, <2>1, NoneHeld DEF ClearItem
<1> QED  BY <1>1, <1>2, <1>3, <1>4 DEF Remaining

-----------------------------------------------------------------------------
(* What each step holds *)

Held == TypeOK /\ StepsHold /\ UiStands

LEMMA HeldInit == Init => Held
<1> SUFFICES ASSUME Init PROVE Held
  OBVIOUS
<1>1. \A p \in Process : /\ pc[p] = IF p = "ui" THEN "launch" ELSE "idle"
                         /\ tok[p] = None /\ left[p] = <<>>
  BY DEF Init
<1>2. TypeOK
  <2>1. ServerTyped
    BY MobileSessionAssumption DEF Init, ServerTyped, Token
  <2>2. StepsTyped
    BY MobileSessionAssumption DEF Init, StepsTyped, Process, UiPC, FlightPC, WorkPC
  <2>3. MemoryTyped /\ DeviceTyped
    BY NoneHeld, RemainingApart DEF Init, MemoryTyped, DeviceTyped
  <2>4. \A w \in Work : tok[w] = None /\ carry[w] = {}
    BY DEF Init, Process
  <2>5. UiTyped
    BY MobileSessionAssumption DEF Init, UiTyped
  <2> QED  BY <2>1, <2>2, <2>3, <2>4, <2>5 DEF TypeOK
<1>3. StepsHold
  BY <1>1, NoneHeld, MobileSessionAssumption
     DEF Init, StepsHold, PairsInOrder, TokensIssued, StepHolds, Fits, CarriesLate, FlightAwaited,
         Process, Holding
<1>4. UiStands
  BY <1>1 DEF Init, UiStands, Process, Inside, Issuing
<1> QED  BY <1>2, <1>3, <1>4 DEF Held

\* The pairs of the server.
LEMMA PairsTyped ==
    ASSUME TypeOK
    PROVE  /\ Len(pairs) \in Nat /\ DOMAIN pairs = 1..Len(pairs)
           /\ \A m \in 1..Len(pairs) : pairs[m] \in Pair
           /\ \A b : SessionsOf(b) \subseteq 1..MaxPairs
<1>1. Len(pairs) \in Nat /\ DOMAIN pairs = 1..Len(pairs) /\ \A m \in 1..Len(pairs) : pairs[m] \in Pair
  BY DEF TypeOK, ServerTyped
<1> QED  BY <1>1 DEF SessionsOf, Pair

\* One pair more.
Grown(x) ==
    /\ pairs' \in Seq(Pair) /\ Len(pairs') = Len(pairs) + 1 /\ Len(pairs') <= MaxPairs
    /\ \A m \in 1..Len(pairs) : pairs'[m] = pairs[m]
    /\ pairs'[Len(pairs) + 1] = x

LEMMA Grows ==
    ASSUME TypeOK, NEW x \in Pair, Len(pairs) < MaxPairs, pairs' = Append(pairs, x)
    PROVE  Grown(x)
BY PairsTyped, MobileSessionAssumption DEF TypeOK, ServerTyped, Grown

LEMMA GrownInOrder ==
    ASSUME TypeOK, PairsInOrder, NEW x \in Pair, x.sess <= Len(pairs) + 1, Grown(x)
    PROVE  PairsInOrder' /\ Len(pairs') \in Nat /\ Len(pairs) <= Len(pairs') /\ Len(pairs') = Len(pairs) + 1
<1>1. DOMAIN pairs' = 1..(Len(pairs) + 1) /\ Len(pairs) \in Nat /\ DOMAIN pairs = 1..Len(pairs)
  BY PairsTyped DEF Grown
<1>2. \A m \in 1..(Len(pairs) + 1) : m \in 1..Len(pairs) \/ m = Len(pairs) + 1
  BY <1>1
<1> QED  BY <1>1, <1>2 DEF Grown, PairsInOrder

LEMMA IssueIs ==
    ASSUME TypeOK, NEW b \in Account, NEW lost \in SUBSET {NextSession}, Issue(b, lost)
    PROVE  /\ Grown([acct |-> b, sess |-> Len(pairs) + 1])
           /\ Len(pairs) < MaxPairs /\ Len(pairs) + 1 \in 1..MaxPairs
           /\ revoked' \subseteq 1..MaxPairs /\ ended' \subseteq 1..MaxPairs
           /\ expired' = expired /\ gone' = gone
<1>1. Len(pairs) + 1 \in 1..MaxPairs
  BY PairsTyped, MobileSessionAssumption DEF Issue
<1>2. [acct |-> b, sess |-> Len(pairs) + 1] \in Pair
  BY <1>1 DEF Pair
<1> QED  BY <1>1, <1>2, PairsTyped, Grows DEF Issue, NextSession, TypeOK, ServerTyped

LEMMA RotateIs ==
    ASSUME TypeOK, NEW n \in 1..Len(pairs), Rotate(n)
    PROVE  /\ Grown(pairs[n]) /\ Len(pairs) < MaxPairs
           /\ pairs[n] \in Pair /\ pairs[n].acct \in Account
           /\ UNCHANGED <<revoked, expired, gone, ended>>
BY PairsTyped, Grows DEF Rotate, Pair

LEMMA RefuseIs ==
    ASSUME TypeOK, NEW n \in 1..Len(pairs), Refuse(n)
    PROVE  revoked' \subseteq 1..MaxPairs
BY PairsTyped DEF Refuse, Pair, TypeOK, ServerTyped

\* A process that goes to a step with the tokens that fit.
Moves(p, l, c) ==
    /\ pc' = [pc EXCEPT ![p] = l] /\ tok' = [tok EXCEPT ![p] = c]
    /\ l \in IF p = "ui" THEN UiPC ELSE IF p = "flight" THEN FlightPC ELSE WorkPC
    /\ c \in Credentials /\ Fits(p, l, c)
    /\ c.access <= Len(pairs') /\ c.refresh <= Len(pairs')

LEMMA MovedHolds ==
    ASSUME Held, NEW p \in Process, NEW l, NEW c, Moves(p, l, c),
           Len(pairs') \in Nat, Len(pairs) <= Len(pairs')
    PROVE  /\ StepsTyped' /\ tok' \in [Process -> Credentials]
           /\ \A q \in Process : StepHolds(q)'
           /\ \A q \in Process : tok'[q].access <= Len(pairs') /\ tok'[q].refresh <= Len(pairs')
<1> USE DEF Held, TypeOK, StepsHold
<1>1. StepsTyped'
  <2>1. \A q \in Process : pc'[q] = IF q = p THEN l ELSE pc[q]
    BY DEF Moves, StepsTyped
  <2>2. p \in Work => p # "ui" /\ p # "flight"
    BY MobileSessionAssumption
  <2>3. l \in UiPC \cup FlightPC \cup WorkPC
    BY DEF Moves
  <2>4. pc' \in [Process -> UiPC \cup FlightPC \cup WorkPC]
    BY <2>3 DEF Moves, StepsTyped
  <2> QED  BY <2>1, <2>2, <2>4 DEF Moves, StepsTyped, Process
<1>2. tok' \in [Process -> Credentials]
  BY DEF Moves, MemoryTyped
<1>3. \A q \in Process : /\ pc'[q] = IF q = p THEN l ELSE pc[q]
                         /\ tok'[q] = IF q = p THEN c ELSE tok[q]
  BY DEF Moves, StepsTyped, MemoryTyped
<1>4. \A q \in Process : Fits(q, pc'[q], tok'[q])
  BY <1>3 DEF Moves, StepHolds
<1>5. \A q \in Process : tok[q].access \in Nat /\ tok[q].refresh \in Nat
  BY MobileSessionAssumption DEF MemoryTyped, Credentials, Token
<1>6. \A q \in Process : tok'[q].access <= Len(pairs') /\ tok'[q].refresh <= Len(pairs')
  BY <1>3, <1>5, PairsTyped DEF Moves, TokensIssued
<1> QED  BY <1>1, <1>2, <1>4, <1>6 DEF StepHolds

\* What the end of a shared rotation does to a process.
EndsFor(q, granted) ==
    IF pc[q] = "await"
    THEN IF granted THEN pc'[q] = "resent" /\ tok'[q] = tok["flight"]
         ELSE pc'[q] = (IF q = "ui" THEN "in" ELSE "idle") /\ tok'[q] = tok[q]
    ELSE IF q = "flight" THEN pc'[q] = "idle" /\ tok'[q] = None
    ELSE pc'[q] = pc[q] /\ tok'[q] = tok[q]

LEMMA FlightEndsIs ==
    ASSUME TypeOK, NEW granted \in BOOLEAN, FlightEnds(granted)
    PROVE  /\ StepsTyped' /\ tok' \in [Process -> Credentials] /\ carry' \in [Work -> SUBSET Edit]
           /\ \A q \in Process : EndsFor(q, granted)
           /\ \A w \in Work : carry'[w] = IF pc[w] = "await" /\ ~ granted THEN {} ELSE carry[w]
           /\ pc["ui"] = "await" /\ ~ granted => goal' = Nil /\ accepting' = TRUE
           /\ pc["ui"] # "await" \/ granted => UNCHANGED <<goal, accepting>>
<1> USE DEF TypeOK
<1>1. pc["flight"] # "await"
  BY DEF StepsTyped, FlightPC
<1>2. \A q \in Process : EndsFor(q, granted)
  BY <1>1, MobileSessionAssumption DEF FlightEnds, Waiting, EndsFor, Process
<1>3. \A w \in Work : carry'[w] = IF pc[w] = "await" /\ ~ granted THEN {} ELSE carry[w]
  BY DEF FlightEnds, Waiting, Process
<1>4. pc["ui"] = "await" <=> "ui" \in Waiting
  BY DEF Waiting, Process
<1>5. /\ pc["ui"] = "await" /\ ~ granted => goal' = Nil /\ accepting' = TRUE
      /\ pc["ui"] # "await" \/ granted => UNCHANGED <<goal, accepting>>
  BY <1>4 DEF FlightEnds, UiTyped
<1>6. StepsTyped'
  <2>1. \A q \in Process : pc'[q] \in UiPC \cup FlightPC \cup WorkPC
    BY <1>2 DEF EndsFor, StepsTyped, UiPC, FlightPC, WorkPC
  <2>2. pc' \in [Process -> UiPC \cup FlightPC \cup WorkPC]
    BY <2>1 DEF FlightEnds
  <2> QED  BY <1>1, <1>2, <2>2, MobileSessionAssumption
           DEF EndsFor, StepsTyped, UiPC, FlightPC, WorkPC, Process
<1>7. tok' \in [Process -> Credentials]
  <2>1. \A q \in Process : tok'[q] \in Credentials
    BY <1>2, NoneHeld DEF EndsFor, MemoryTyped, Process
  <2> QED  BY <2>1 DEF FlightEnds
<1>8. carry' \in [Work -> SUBSET Edit]
  BY <1>3 DEF FlightEnds, MemoryTyped
<1> QED  BY <1>2, <1>3, <1>5, <1>6, <1>7, <1>8

\* What a login or a rotation brings.
LEMMA IssuedIs ==
    ASSUME TypeOK, Len(pairs) < MaxPairs, NEW b \in Account
    PROVE  NextIssued(b) \in Credentials /\ Full(NextIssued(b))
           /\ NextIssued(b).access = Len(pairs) + 1 /\ NextIssued(b).refresh = Len(pairs) + 1
           /\ NextIssued(b).user = b
BY PairsTyped, MobileSessionAssumption DEF NextIssued, Issued, Credentials, Token, Full

\* What the server does with the refresh token of a process.
LEMMA RefreshIs ==
    ASSUME Held, NEW p \in Process, pc[p] = "refresh", NEW n, n = tok[p].refresh,
           NEW c, c = NextIssued(pairs[n].acct)
    PROVE  /\ n \in 1..Len(pairs) /\ n # 0 /\ tok[p] \in Credentials
           /\ pairs[n] \in Pair /\ pairs[n].acct \in Account
           /\ Rotate(n) => /\ Grown(pairs[n]) /\ c \in Credentials /\ Full(c)
                           /\ c.access = Len(pairs) + 1 /\ c.refresh = Len(pairs) + 1
                           /\ c.user = pairs[n].acct
                           /\ UNCHANGED <<revoked, expired, gone, ended>>
           /\ Refuse(n) => /\ pairs' = pairs /\ UNCHANGED <<expired, gone, ended>>
                           /\ revoked' \subseteq 1..MaxPairs
           /\ Rotate(n) \/ Refuse(n) \/ ServerUnchanged =>
                /\ ServerTyped' /\ PairsInOrder' /\ Len(pairs') \in Nat /\ Len(pairs) <= Len(pairs')
<1> USE DEF Held, TypeOK, StepsHold
<1>1. n \in 1..Len(pairs) /\ n # 0 /\ tok[p] \in Credentials
  BY PairsTyped DEF StepHolds, Fits, TokensIssued, MemoryTyped, Credentials, Token
<1>2. pairs[n] \in Pair /\ pairs[n].acct \in Account
  BY <1>1, PairsTyped DEF Pair
<1>3. TypeOK /\ PairsInOrder /\ pairs[n].sess <= Len(pairs) + 1
  BY <1>1, <1>2, PairsTyped DEF PairsInOrder, Pair
<1>4. Rotate(n) => /\ Grown(pairs[n]) /\ c \in Credentials /\ Full(c)
                   /\ c.access = Len(pairs) + 1 /\ c.refresh = Len(pairs) + 1
                   /\ c.user = pairs[n].acct
                   /\ UNCHANGED <<revoked, expired, gone, ended>>
  BY <1>1, <1>2, <1>3, RotateIs, IssuedIs
<1>5. Refuse(n) => /\ pairs' = pairs /\ UNCHANGED <<expired, gone, ended>>
                   /\ revoked' \subseteq 1..MaxPairs
  BY <1>1, RefuseIs DEF Refuse
<1>6. CASE Rotate(n)
  <2>1. ServerTyped'
    BY <1>4, <1>6 DEF ServerTyped, Grown
  <2>2. PairsInOrder' /\ Len(pairs') \in Nat /\ Len(pairs) <= Len(pairs')
    BY <1>2, <1>3, <1>4, <1>6, GrownInOrder
  <2> QED  BY <1>1, <1>2, <1>4, <1>5, <2>1, <2>2
<1>7. CASE pairs' = pairs /\ UNCHANGED <<expired, gone, ended>> /\ revoked' \subseteq 1..MaxPairs
  <2>1. ServerTyped' /\ PairsInOrder'
    BY <1>7 DEF ServerTyped, PairsInOrder
  <2> QED  BY <1>1, <1>2, <1>4, <1>5, <1>7, <2>1, PairsTyped
<1> QED  BY <1>1, <1>2, <1>4, <1>5, <1>6, <1>7 DEF ServerUnchanged, ServerTyped

LEMMA HeldLogin ==
    ASSUME Held, NEW b \in Account, Login(b) PROVE Held'
<1> USE DEF Held, TypeOK, Login, BeginSave, Goto, Hold, NextIssued, LoseAnswer, UiRest, secure,
       sqlite
<1>13. PICK lost \in SUBSET {NextSession} : Issue(b, lost)
  OBVIOUS
<1>14. /\ Grown([acct |-> b, sess |-> Len(pairs) + 1])
       /\ Len(pairs) < MaxPairs /\ Len(pairs) + 1 \in 1..MaxPairs
       /\ revoked' \subseteq 1..MaxPairs /\ ended' \subseteq 1..MaxPairs
       /\ expired' = expired /\ gone' = gone
  BY <1>13, IssueIs
<1>1. ServerTyped'
  BY <1>14, PairsTyped DEF ServerTyped, Grown, Token
<1>2. DeviceTyped'
  BY NoneHeld DEF DeviceTyped
<1>3. StepsTyped'
  BY MobileSessionAssumption DEF StepsTyped, DeviceTyped, UiPC, FlightPC, WorkPC, Process
<1>4. MemoryTyped'
  <2>1. NextIssued(b) \in Credentials
    BY <1>14, IssuedIs
  <2>2. tok' = [tok EXCEPT !["ui"] = NextIssued(b)] \/ tok' = tok
    OBVIOUS
  <2>3. left' = [left EXCEPT !["ui"] = Item] \/ left' = left
    OBVIOUS
  <2> QED  BY <2>1, <2>2, <2>3, RemainingApart DEF MemoryTyped, Process
<1>5. UiTyped'
  BY MobileSessionAssumption DEF UiTyped
<1>6. PairsInOrder'
  BY <1>14, PairsTyped DEF StepsHold, PairsInOrder, Grown
<1>7. TokensIssued'
  <2>1. NextIssued(b) \in Credentials /\ NextIssued(b).access = Len(pairs) + 1 /\ NextIssued(b).refresh = Len(pairs) + 1
    BY <1>14, IssuedIs
  <2>2. tok' = [tok EXCEPT !["ui"] = NextIssued(b)] \/ tok' = tok
    OBVIOUS
  <2>3. Len(pairs') = Len(pairs) + 1 /\ Len(pairs) \in Nat
    BY <1>14, PairsTyped DEF Grown
  <2>4. store' = store
    OBVIOUS
  <2> QED  BY <2>1, <2>2, <2>3, <2>4 DEF StepsHold, TokensIssued, MemoryTyped, DeviceTyped, Credentials, Token, Process
<1>8. \A q \in Process : StepHolds(q)'
  BY MobileSessionAssumption, NoneHeld, <1>14, IssuedIs
     DEF StepsHold, StepHolds, Fits, Holding, MemoryTyped, StepsTyped, UiPC, FlightPC, WorkPC,
         Process
<1>9. CarriesLate'
  BY MobileSessionAssumption
     DEF StepsHold, CarriesLate, StepsTyped, MemoryTyped, UiPC, FlightPC, WorkPC, Process
<1>10. FlightAwaited'
  BY MobileSessionAssumption
     DEF StepsHold, FlightAwaited, StepsTyped, UiPC, FlightPC, WorkPC, Process
<1>11. UiStands'
  BY MobileSessionAssumption
     DEF UiStands, StepsTyped, Inside, Issuing, UiPC, FlightPC, WorkPC, Process
<1>12. \A v \in Work : pc'[v] = "idle" => tok'[v] = None /\ carry'[v] = {}
  BY <1>8, <1>9 DEF StepHolds, Fits, Holding, CarriesLate, Process
<1> QED
  BY <1>1, <1>2, <1>3, <1>4, <1>5, <1>6, <1>7, <1>8, <1>9, <1>10, <1>11, <1>12 DEF StepsHold

LEMMA HeldEndElsewhere ==
    ASSUME Held, NEW b \in Account, EndElsewhere(b) PROVE Held'
<1> USE DEF Held, TypeOK, EndElsewhere, EndSessions, secure, sqlite, memory
<1>1. ServerTyped'
  BY MobileSessionAssumption, PairsTyped DEF ServerTyped
<1>2. DeviceTyped'
  BY NoneHeld DEF DeviceTyped
<1>3. StepsTyped'
  BY MobileSessionAssumption DEF StepsTyped, DeviceTyped, UiPC, FlightPC, WorkPC, Process
<1>4. MemoryTyped'
  BY NoneHeld, RemainingApart DEF MemoryTyped, DeviceTyped, Process
<1>5. UiTyped'
  BY MobileSessionAssumption DEF UiTyped
<1>6. PairsInOrder'
  BY DEF StepsHold, PairsInOrder
<1>7. TokensIssued'
  BY NoneHeld DEF StepsHold, TokensIssued, MemoryTyped, DeviceTyped, Process
<1>8. \A q \in Process : StepHolds(q)'
  BY MobileSessionAssumption, NoneHeld
     DEF StepsHold, StepHolds, Fits, Holding, MemoryTyped, StepsTyped, UiPC, FlightPC, WorkPC,
         Process
<1>9. CarriesLate'
  BY MobileSessionAssumption
     DEF StepsHold, CarriesLate, StepsTyped, MemoryTyped, UiPC, FlightPC, WorkPC, Process
<1>10. FlightAwaited'
  BY MobileSessionAssumption
     DEF StepsHold, FlightAwaited, StepsTyped, UiPC, FlightPC, WorkPC, Process
<1>11. UiStands'
  BY MobileSessionAssumption
     DEF UiStands, StepsTyped, Inside, Issuing, UiPC, FlightPC, WorkPC, Process
<1>12. \A v \in Work : pc'[v] = "idle" => tok'[v] = None /\ carry'[v] = {}
  BY <1>8, <1>9 DEF StepHolds, Fits, Holding, CarriesLate, Process
<1> QED
  BY <1>1, <1>2, <1>3, <1>4, <1>5, <1>6, <1>7, <1>8, <1>9, <1>10, <1>11, <1>12 DEF StepsHold

LEMMA HeldLeave ==
    ASSUME Held, NEW g \in UserGoals, Leave(g) PROVE Held'
<1> USE DEF Held, TypeOK, Leave, Goto, UiRest, server, secure, sqlite, history
<1>1. ServerTyped'
  BY MobileSessionAssumption DEF ServerTyped
<1>2. DeviceTyped'
  BY NoneHeld DEF DeviceTyped
<1>3. StepsTyped'
  BY MobileSessionAssumption DEF StepsTyped, DeviceTyped, UiPC, FlightPC, WorkPC, Process
<1>4. MemoryTyped'
  BY NoneHeld, RemainingApart DEF MemoryTyped, DeviceTyped, Process
<1>5. UiTyped'
  BY MobileSessionAssumption DEF UiTyped
<1>6. PairsInOrder'
  BY DEF StepsHold, PairsInOrder
<1>7. TokensIssued'
  BY NoneHeld DEF StepsHold, TokensIssued, MemoryTyped, DeviceTyped, Process
<1>8. \A q \in Process : StepHolds(q)'
  BY MobileSessionAssumption, NoneHeld
     DEF StepsHold, StepHolds, Fits, Holding, MemoryTyped, StepsTyped, UiPC, FlightPC, WorkPC,
         Process
<1>9. CarriesLate'
  BY MobileSessionAssumption
     DEF StepsHold, CarriesLate, StepsTyped, MemoryTyped, UiPC, FlightPC, WorkPC, Process
<1>10. FlightAwaited'
  BY MobileSessionAssumption
     DEF StepsHold, FlightAwaited, StepsTyped, UiPC, FlightPC, WorkPC, Process
<1>11. UiStands'
  BY MobileSessionAssumption
     DEF UiStands, StepsTyped, Inside, Issuing, UiPC, FlightPC, WorkPC, Process
<1>12. \A v \in Work : pc'[v] = "idle" => tok'[v] = None /\ carry'[v] = {}
  BY <1>8, <1>9 DEF StepHolds, Fits, Holding, CarriesLate, Process
<1> QED
  BY <1>1, <1>2, <1>3, <1>4, <1>5, <1>6, <1>7, <1>8, <1>9, <1>10, <1>11, <1>12 DEF StepsHold

LEMMA HeldMount ==
    ASSUME Held, Mount PROVE Held'
<1> USE DEF Held, TypeOK, Mount, BeginClear, Goto, Hold, UiRest, Overlaps, server, secure, sqlite
<1>13. PICK l \in {"clear", "read"} : pc' = [pc EXCEPT !["ui"] = l]
  OBVIOUS
<1>1. ServerTyped'
  BY MobileSessionAssumption DEF ServerTyped
<1>2. DeviceTyped'
  BY NoneHeld DEF DeviceTyped
<1>3. StepsTyped'
  BY <1>13, MobileSessionAssumption DEF StepsTyped, UiPC, Process
<1>4. MemoryTyped'
  BY NoneHeld, RemainingApart DEF MemoryTyped, DeviceTyped, Process
<1>5. UiTyped'
  BY MobileSessionAssumption DEF UiTyped
<1>6. PairsInOrder'
  BY DEF StepsHold, PairsInOrder
<1>7. TokensIssued'
  BY NoneHeld DEF StepsHold, TokensIssued, MemoryTyped, DeviceTyped, Process
<1>8. \A q \in Process : StepHolds(q)'
  BY MobileSessionAssumption, NoneHeld
     DEF StepsHold, StepHolds, Fits, Holding, MemoryTyped, StepsTyped, UiPC, FlightPC, WorkPC,
         Process
<1>9. CarriesLate'
  BY MobileSessionAssumption
     DEF StepsHold, CarriesLate, StepsTyped, MemoryTyped, UiPC, FlightPC, WorkPC, Process
<1>10. FlightAwaited'
  BY MobileSessionAssumption
     DEF StepsHold, FlightAwaited, StepsTyped, UiPC, FlightPC, WorkPC, Process
<1>11. UiStands'
  BY MobileSessionAssumption
     DEF UiStands, StepsTyped, Inside, Issuing, UiPC, FlightPC, WorkPC, Process
<1>12. \A v \in Work : pc'[v] = "idle" => tok'[v] = None /\ carry'[v] = {}
  BY <1>8, <1>9 DEF StepHolds, Fits, Holding, CarriesLate, Process
<1> QED
  BY <1>1, <1>2, <1>3, <1>4, <1>5, <1>6, <1>7, <1>8, <1>9, <1>10, <1>11, <1>12 DEF StepsHold

LEMMA HeldReadStored ==
    ASSUME Held, ReadStored PROVE Held'
<1> USE DEF Held, TypeOK, ReadStored, BeginClear, Goto, Hold, UiRest, server, secure, sqlite, history
<1>13. PICK l \in {"signedout", "clear", "me"}, c \in Credentials : 
         /\ Moves("ui", l, c)
         /\ left' = left \/ left' = [left EXCEPT !["ui"] = Item]
  <2>1. store \in Credentials /\ store.access <= Len(pairs) /\ store.refresh <= Len(pairs)
    BY DEF DeviceTyped, StepsHold, TokensIssued
  <2>2. None.access <= Len(pairs) /\ None.refresh <= Len(pairs) /\ pairs' = pairs
    BY NoneHeld, PairsTyped
  <2>3. CASE store = None
    <3>1. tok' = [tok EXCEPT !["ui"] = None]
      BY <2>3 DEF MemoryTyped, StepsHold, StepHolds, Fits, Holding, Process
    <3>2. ~ \A i \in DOMAIN None : store[i] # None[i]
      BY <2>1, <2>3, NoneHeld, FullIs DEF Full
    <3>3. Goto("ui", "signedout") /\ UNCHANGED left
      BY <2>3, <3>2
    <3>4. Moves("ui", "signedout", None)
      BY <2>2, <3>1, <3>3, NoneHeld DEF Moves, Fits, Holding, UiPC
    <3> QED  BY <3>3, <3>4 DEF Moves
  <2>4. CASE store # None /\ \E i \in DOMAIN None : store[i] = None[i]
    <3>1. ~ \A i \in DOMAIN None : store[i] # None[i]
      BY <2>4
    <3>2. BeginClear("ui")
      BY <2>4, <3>1
    <3>3. Moves("ui", "clear", None)
      BY <2>2, <3>2, NoneHeld DEF Moves, Fits, Holding, UiPC
    <3> QED  BY <3>2, <3>3 DEF Moves
  <2>5. CASE \A i \in DOMAIN None : store[i] # None[i]
    <3>1. Full(store)
      BY <2>1, <2>5, FullIs
    <3>2. store # None
      BY <3>1, NoneHeld DEF Full
    <3>3. Goto("ui", "me") /\ Hold("ui", store) /\ UNCHANGED left
      BY <2>5, <3>2
    <3>4. Moves("ui", "me", store)
      BY <2>1, <2>2, <3>1, <3>3 DEF Moves, Fits, Holding, UiPC
    <3> QED  BY <3>3, <3>4 DEF Moves
  <2> QED  BY <2>3, <2>4, <2>5
<1>14. /\ StepsTyped' /\ tok' \in [Process -> Credentials]
       /\ \A q \in Process : StepHolds(q)'
       /\ \A q \in Process : tok'[q].access <= Len(pairs') /\ tok'[q].refresh <= Len(pairs')
  <2>1. Len(pairs') \in Nat /\ Len(pairs) <= Len(pairs')
    BY PairsTyped
  <2>2. Held /\ "ui" \in Process
    BY DEF Process
  <2> QED  BY <1>13, <2>1, <2>2, MovedHolds
<1>1. ServerTyped'
  BY MobileSessionAssumption DEF ServerTyped
<1>2. DeviceTyped'
  BY NoneHeld DEF DeviceTyped
<1>3. StepsTyped'
  BY <1>14
<1>4. MemoryTyped'
  BY <1>14, RemainingApart DEF MemoryTyped, Process
<1>5. UiTyped'
  BY MobileSessionAssumption DEF UiTyped
<1>6. PairsInOrder'
  BY DEF StepsHold, PairsInOrder
<1>7. TokensIssued'
  BY <1>14 DEF StepsHold, TokensIssued
<1>8. \A q \in Process : StepHolds(q)'
  BY <1>14
<1>9. CarriesLate'
  BY <1>13, MobileSessionAssumption DEF StepsHold, CarriesLate, StepsTyped, Moves, Process
<1>10. FlightAwaited'
  BY <1>13, MobileSessionAssumption DEF StepsHold, FlightAwaited, StepsTyped, Moves, Process
<1>11. UiStands'
  BY <1>13, MobileSessionAssumption DEF UiStands, StepsTyped, Inside, Issuing, Moves, Process
<1>12. \A v \in Work : pc'[v] = "idle" => tok'[v] = None /\ carry'[v] = {}
  BY <1>8, <1>9 DEF StepHolds, Fits, Holding, CarriesLate, Process
<1> QED
  BY <1>1, <1>2, <1>3, <1>4, <1>5, <1>6, <1>7, <1>8, <1>9, <1>10, <1>11, <1>12 DEF StepsHold

LEMMA HeldMe ==
    ASSUME Held, Me PROVE Held'
<1> USE DEF Held, TypeOK, Me, BeginSave, Goto, Hold, UiRest, server, secure, sqlite, history
<1>13. PICK l \in {"save", "refresh", "bind"}, c \in Credentials : Moves("ui", l, c)
  <2> DEFINE n == tok["ui"].access
             u == [tok["ui"] EXCEPT !.user = pairs[n].acct]
  <2>1. /\ tok["ui"] \in Credentials /\ Full(tok["ui"])
        /\ n <= Len(pairs) /\ tok["ui"].refresh <= Len(pairs) /\ n \in 1..Len(pairs)
    BY PairsTyped DEF StepsHold, StepHolds, Fits, TokensIssued, MemoryTyped, Credentials, Token, Process, Full
  <2>2. pairs[n].acct \in Account /\ pairs[n].acct # Nil
    BY <2>1, PairsTyped, MobileSessionAssumption DEF Pair
  <2>3. /\ u \in Credentials /\ Full(u) /\ u.access = n /\ u.refresh = tok["ui"].refresh
    BY <2>1, <2>2 DEF Credentials, Full
  <2>4. /\ tok' = [tok EXCEPT !["ui"] = tok["ui"]] \/ tok' = [tok EXCEPT !["ui"] = u]
        /\ \E l \in {"save", "refresh", "bind"} : pc' = [pc EXCEPT !["ui"] = l]
    BY DEF MemoryTyped, Process
  <2>5. Len(pairs') = Len(pairs)
    OBVIOUS
  <2> HIDE DEF u
  <2> QED  BY <2>1, <2>3, <2>4, <2>5 DEF Moves, Fits, Holding, UiPC, Full
<1>14. /\ StepsTyped' /\ tok' \in [Process -> Credentials]
       /\ \A q \in Process : StepHolds(q)'
       /\ \A q \in Process : tok'[q].access <= Len(pairs') /\ tok'[q].refresh <= Len(pairs')
  <2>1. Len(pairs') \in Nat /\ Len(pairs) <= Len(pairs')
    BY PairsTyped
  <2>2. Held /\ "ui" \in Process
    BY DEF Process
  <2> QED  BY <1>13, <2>1, <2>2, MovedHolds
<1>1. ServerTyped'
  BY MobileSessionAssumption DEF ServerTyped
<1>2. DeviceTyped'
  BY NoneHeld DEF DeviceTyped
<1>3. StepsTyped'
  BY <1>14
<1>4. MemoryTyped'
  BY <1>14, RemainingApart DEF MemoryTyped, Process
<1>5. UiTyped'
  BY MobileSessionAssumption DEF UiTyped
<1>6. PairsInOrder'
  BY DEF StepsHold, PairsInOrder
<1>7. TokensIssued'
  BY <1>14 DEF StepsHold, TokensIssued
<1>8. \A q \in Process : StepHolds(q)'
  BY <1>14
<1>9. CarriesLate'
  BY MobileSessionAssumption
     DEF StepsHold, CarriesLate, StepsTyped, MemoryTyped, UiPC, FlightPC, WorkPC, Process
<1>10. FlightAwaited'
  BY MobileSessionAssumption
     DEF StepsHold, FlightAwaited, StepsTyped, UiPC, FlightPC, WorkPC, Process
<1>11. UiStands'
  BY MobileSessionAssumption
     DEF UiStands, StepsTyped, Inside, Issuing, UiPC, FlightPC, WorkPC, Process
<1>12. \A v \in Work : pc'[v] = "idle" => tok'[v] = None /\ carry'[v] = {}
  BY <1>8, <1>9 DEF StepHolds, Fits, Holding, CarriesLate, Process
<1> QED
  BY <1>1, <1>2, <1>3, <1>4, <1>5, <1>6, <1>7, <1>8, <1>9, <1>10, <1>11, <1>12 DEF StepsHold

LEMMA HeldRestoreRefresh ==
    ASSUME Held, RestoreRefresh PROVE Held'
<1> USE DEF Held, TypeOK, RestoreRefresh, BeginSave, BeginClear, Goto, Hold, NextIssued, Refuse,
       ServerUnchanged, LoseRotation, LoseAnswer, UiRest, secure, sqlite
<1> DEFINE n == tok["ui"].refresh
           c == NextIssued(pairs[n].acct)
<1>13. /\ n \in 1..Len(pairs) /\ n # 0 /\ tok["ui"] \in Credentials
       /\ pairs[n] \in Pair /\ pairs[n].acct \in Account
       /\ Rotate(n) => /\ Grown(pairs[n]) /\ c \in Credentials /\ Full(c)
                       /\ c.access = Len(pairs) + 1 /\ c.refresh = Len(pairs) + 1
       /\ Rotate(n) \/ Refuse(n) \/ ServerUnchanged =>
            /\ ServerTyped' /\ PairsInOrder' /\ Len(pairs') \in Nat /\ Len(pairs) <= Len(pairs')
  <2>1. Held /\ pc["ui"] = "refresh" /\ "ui" \in Process
    BY DEF Process
  <2> QED  BY <2>1, RefreshIs
<1>17. \/ Rotate(n) /\ BeginSave("ui", c) /\ UNCHANGED <<lapses, faults>>
       \/ Refuse(n) /\ BeginClear("ui") /\ UNCHANGED <<lapses, faults>>
       \/ /\ Rotate(n) /\ Goto("ui", "bind") /\ UNCHANGED <<tok, left>>
          /\ faults < MaxFaults /\ faults' = faults + 1 /\ lapses' = lapses \cup {"unsaved"}
       \/ ServerUnchanged /\ Goto("ui", "bind") /\ UNCHANGED <<tok, left, lapses, faults>>
  OBVIOUS
<1>18. /\ ServerTyped' /\ PairsInOrder' /\ Len(pairs') \in Nat /\ Len(pairs) <= Len(pairs')
       /\ Rotate(n) => Len(pairs') = Len(pairs) + 1
  <2>1. Rotate(n) \/ Refuse(n) \/ ServerUnchanged
    BY <1>17
  <2> QED  BY <1>13, <2>1 DEF Grown
<1>19. PICK l \in {"save", "clear", "bind"}, d \in Credentials : 
         /\ Moves("ui", l, d)
         /\ left' = left \/ left' = [left EXCEPT !["ui"] = Item]
  <2>1. CASE Rotate(n) /\ BeginSave("ui", c)
    <3>1. Moves("ui", "save", c)
      BY <1>13, <1>18, <2>1 DEF Moves, Fits, Holding, UiPC, Full
    <3> QED  BY <2>1, <3>1 DEF Moves
  <2>2. CASE BeginClear("ui")
    <3>1. Moves("ui", "clear", None)
      BY <1>18, <2>2, NoneHeld, PairsTyped DEF Moves, Fits, Holding, UiPC
    <3> QED  BY <2>2, <3>1 DEF Moves
  <2>3. CASE Goto("ui", "bind") /\ UNCHANGED <<tok, left>>
    <3>1. Full(tok["ui"]) /\ tok' = [tok EXCEPT !["ui"] = tok["ui"]]
      BY <2>3 DEF StepsHold, StepHolds, Fits, MemoryTyped, Process
    <3>2. /\ tok["ui"].access <= Len(pairs) /\ tok["ui"].refresh <= Len(pairs)
          /\ tok["ui"].access \in Nat /\ tok["ui"].refresh \in Nat
      BY MobileSessionAssumption DEF StepsHold, TokensIssued, MemoryTyped, Credentials, Token, Process
    <3>3. tok["ui"].access <= Len(pairs') /\ tok["ui"].refresh <= Len(pairs')
      BY <1>18, <3>2, PairsTyped
    <3>4. Moves("ui", "bind", tok["ui"])
      BY <1>13, <2>3, <3>1, <3>3 DEF Moves, Fits, Holding, UiPC, Full
    <3> QED  BY <2>3, <3>4 DEF Moves
  <2> QED  BY <1>17, <2>1, <2>2, <2>3
<1> HIDE DEF n, c
<1>20. /\ StepsTyped' /\ tok' \in [Process -> Credentials]
       /\ \A q \in Process : StepHolds(q)'
       /\ \A q \in Process : tok'[q].access <= Len(pairs') /\ tok'[q].refresh <= Len(pairs')
  <2>1. Len(pairs') \in Nat /\ Len(pairs) <= Len(pairs')
    BY <1>18
  <2>2. Held /\ "ui" \in Process
    BY DEF Process
  <2> QED  BY <1>19, <2>1, <2>2, MovedHolds
<1>1. ServerTyped'
  BY <1>18
<1>2. DeviceTyped'
  BY NoneHeld DEF DeviceTyped
<1>3. StepsTyped'
  BY <1>20
<1>4. MemoryTyped'
  <2>1. left' \in [Process -> Remaining]
    BY <1>19, RemainingApart DEF MemoryTyped, Process
  <2> QED  BY <1>20, <2>1 DEF MemoryTyped
<1>5. UiTyped'
  <2>1. faults' \in 0..MaxFaults
    BY <1>17, MobileSessionAssumption DEF UiTyped
  <2>2. lapses' \subseteq {"unsaved", "unmarked", "overlap"}
    BY <1>17 DEF UiTyped
  <2> QED  BY <2>1, <2>2 DEF UiTyped
<1>6. PairsInOrder'
  BY <1>18
<1>7. TokensIssued'
  <2>1. store.access \in Nat /\ store.refresh \in Nat /\ store' = store
    BY MobileSessionAssumption DEF DeviceTyped, Credentials, Token
  <2> QED  BY <1>18, <1>20, <2>1, PairsTyped DEF StepsHold, TokensIssued
<1>8. \A q \in Process : StepHolds(q)'
  BY <1>20
<1>9. CarriesLate'
  BY <1>19, MobileSessionAssumption DEF StepsHold, CarriesLate, StepsTyped, Moves, Process
<1>10. FlightAwaited'
  BY <1>19, MobileSessionAssumption DEF StepsHold, FlightAwaited, StepsTyped, Moves, Process
<1>11. UiStands'
  BY <1>19, MobileSessionAssumption DEF UiStands, StepsTyped, Inside, Issuing, Moves, Process
<1>12. \A v \in Work : pc'[v] = "idle" => tok'[v] = None /\ carry'[v] = {}
  BY <1>8, <1>9 DEF StepHolds, Fits, Holding, CarriesLate, Process
<1> QED
  BY <1>1, <1>2, <1>3, <1>4, <1>5, <1>6, <1>7, <1>8, <1>9, <1>10, <1>11, <1>12 DEF StepsHold

LEMMA HeldSaved ==
    ASSUME Held, Saved PROVE Held'
<1> USE DEF Held, TypeOK, Saved, Goto, Hold, UiRest, server, secure, sqlite, history
<1>13. PICK l \in {"in", "bind"} : pc' = [pc EXCEPT !["ui"] = l]
  OBVIOUS
<1>1. ServerTyped'
  BY MobileSessionAssumption DEF ServerTyped
<1>2. DeviceTyped'
  BY NoneHeld DEF DeviceTyped
<1>3. StepsTyped'
  BY <1>13, MobileSessionAssumption DEF StepsTyped, UiPC, Process
<1>4. MemoryTyped'
  BY NoneHeld, RemainingApart DEF MemoryTyped, DeviceTyped, Process
<1>5. UiTyped'
  BY MobileSessionAssumption DEF UiTyped
<1>6. PairsInOrder'
  BY DEF StepsHold, PairsInOrder
<1>7. TokensIssued'
  BY NoneHeld DEF StepsHold, TokensIssued, MemoryTyped, DeviceTyped, Process
<1>8. \A q \in Process : StepHolds(q)'
  BY MobileSessionAssumption, NoneHeld
     DEF StepsHold, StepHolds, Fits, Holding, MemoryTyped, StepsTyped, UiPC, FlightPC, WorkPC,
         Process
<1>9. CarriesLate'
  BY MobileSessionAssumption
     DEF StepsHold, CarriesLate, StepsTyped, MemoryTyped, UiPC, FlightPC, WorkPC, Process
<1>10. FlightAwaited'
  BY MobileSessionAssumption
     DEF StepsHold, FlightAwaited, StepsTyped, UiPC, FlightPC, WorkPC, Process
<1>11. UiStands'
  BY MobileSessionAssumption
     DEF UiStands, StepsTyped, Inside, Issuing, UiPC, FlightPC, WorkPC, Process
<1>12. \A v \in Work : pc'[v] = "idle" => tok'[v] = None /\ carry'[v] = {}
  BY <1>8, <1>9 DEF StepHolds, Fits, Holding, CarriesLate, Process
<1> QED
  BY <1>1, <1>2, <1>3, <1>4, <1>5, <1>6, <1>7, <1>8, <1>9, <1>10, <1>11, <1>12 DEF StepsHold

LEMMA HeldDrained ==
    ASSUME Held, Drained PROVE Held'
<1> USE DEF Held, TypeOK, Drained, Working, Goto, UiRest, server, secure, sqlite, history
<1>13. \/ goal = "logout" /\ Goto("ui", "revoke") /\ UNCHANGED <<goal, accepting>>
       \/ goal = "password" /\ edits # {} /\ Goto("ui", "in") /\ goal' = Nil /\ accepting'
       \/ /\ goal # "logout" /\ (goal = "password" => edits = {})
          /\ Goto("ui", "call") /\ UNCHANGED <<goal, accepting>>
  OBVIOUS
<1>14. goal \in {"logout", "password", "delete"}
  BY MobileSessionAssumption DEF UiStands, UiTyped
<1>1. ServerTyped'
  BY MobileSessionAssumption DEF ServerTyped
<1>2. DeviceTyped'
  BY NoneHeld DEF DeviceTyped
<1>3. StepsTyped'
  BY MobileSessionAssumption DEF StepsTyped, DeviceTyped, UiPC, FlightPC, WorkPC, Process
<1>4. MemoryTyped'
  BY NoneHeld, RemainingApart DEF MemoryTyped, DeviceTyped, Process
<1>5. UiTyped'
  BY MobileSessionAssumption DEF UiTyped
<1>6. PairsInOrder'
  BY DEF StepsHold, PairsInOrder
<1>7. TokensIssued'
  BY NoneHeld DEF StepsHold, TokensIssued, MemoryTyped, DeviceTyped, Process
<1>8. \A q \in Process : StepHolds(q)'
  BY MobileSessionAssumption, NoneHeld
     DEF StepsHold, StepHolds, Fits, Holding, MemoryTyped, StepsTyped, UiPC, FlightPC, WorkPC,
         Process
<1>9. CarriesLate'
  BY MobileSessionAssumption
     DEF StepsHold, CarriesLate, StepsTyped, MemoryTyped, UiPC, FlightPC, WorkPC, Process
<1>10. FlightAwaited'
  BY MobileSessionAssumption
     DEF StepsHold, FlightAwaited, StepsTyped, UiPC, FlightPC, WorkPC, Process
<1>11. UiStands'
  BY <1>13, <1>14, MobileSessionAssumption DEF UiStands, StepsTyped, Inside, Issuing, Process
<1>12. \A v \in Work : pc'[v] = "idle" => tok'[v] = None /\ carry'[v] = {}
  BY <1>8, <1>9 DEF StepHolds, Fits, Holding, CarriesLate, Process
<1> QED
  BY <1>1, <1>2, <1>3, <1>4, <1>5, <1>6, <1>7, <1>8, <1>9, <1>10, <1>11, <1>12 DEF StepsHold

LEMMA HeldRevokeStored ==
    ASSUME Held, RevokeStored PROVE Held'
<1> USE DEF Held, TypeOK, RevokeStored, EndSessions, BeginClear, Goto, Hold, UiRest, secure, sqlite
<1>13. store.refresh # 0 => store.refresh \in 1..Len(pairs)
  BY PairsTyped DEF StepsHold, TokensIssued, DeviceTyped, Credentials, Token
<1>14. store.refresh # 0 => pairs[store.refresh].sess \in 1..MaxPairs
  BY <1>13, PairsTyped DEF Pair
<1>1. ServerTyped'
  BY <1>14 DEF ServerTyped
<1>2. DeviceTyped'
  BY NoneHeld DEF DeviceTyped
<1>3. StepsTyped'
  BY MobileSessionAssumption DEF StepsTyped, DeviceTyped, UiPC, FlightPC, WorkPC, Process
<1>4. MemoryTyped'
  BY NoneHeld, RemainingApart DEF MemoryTyped, DeviceTyped, Process
<1>5. UiTyped'
  BY MobileSessionAssumption DEF UiTyped
<1>6. PairsInOrder'
  BY DEF StepsHold, PairsInOrder
<1>7. TokensIssued'
  BY NoneHeld DEF StepsHold, TokensIssued, MemoryTyped, DeviceTyped, Process
<1>8. \A q \in Process : StepHolds(q)'
  BY MobileSessionAssumption, NoneHeld
     DEF StepsHold, StepHolds, Fits, Holding, MemoryTyped, StepsTyped, UiPC, FlightPC, WorkPC,
         Process
<1>9. CarriesLate'
  BY MobileSessionAssumption
     DEF StepsHold, CarriesLate, StepsTyped, MemoryTyped, UiPC, FlightPC, WorkPC, Process
<1>10. FlightAwaited'
  BY MobileSessionAssumption
     DEF StepsHold, FlightAwaited, StepsTyped, UiPC, FlightPC, WorkPC, Process
<1>11. UiStands'
  BY MobileSessionAssumption
     DEF UiStands, StepsTyped, Inside, Issuing, UiPC, FlightPC, WorkPC, Process
<1>12. \A v \in Work : pc'[v] = "idle" => tok'[v] = None /\ carry'[v] = {}
  BY <1>8, <1>9 DEF StepHolds, Fits, Holding, CarriesLate, Process
<1> QED
  BY <1>1, <1>2, <1>3, <1>4, <1>5, <1>6, <1>7, <1>8, <1>9, <1>10, <1>11, <1>12 DEF StepsHold

LEMMA HeldRelogin ==
    ASSUME Held, Relogin PROVE Held'
<1> USE DEF Held, TypeOK, Relogin, BeginSave, BeginClear, Goto, Hold, NextIssued, ServerUnchanged,
       LoseAnswer, UiRest, secure, sqlite
<1> DEFINE c == NextIssued(shown)
<1>13. shown \in Account
  BY DEF UiTyped, UiStands, Inside
<1>14. ASSUME NEW lost \in SUBSET {NextSession}, Issue(shown, lost)
       PROVE  /\ ServerTyped' /\ PairsInOrder' /\ Len(pairs') = Len(pairs) + 1
              /\ c \in Credentials /\ Full(c)
              /\ c.access = Len(pairs) + 1 /\ c.refresh = Len(pairs) + 1
  <2>1. TypeOK
    OBVIOUS
  <2>2. /\ Grown([acct |-> shown, sess |-> Len(pairs) + 1])
        /\ Len(pairs) < MaxPairs /\ Len(pairs) + 1 \in 1..MaxPairs
        /\ revoked' \subseteq 1..MaxPairs /\ ended' \subseteq 1..MaxPairs
        /\ expired' = expired /\ gone' = gone
    BY <1>13, <1>14, <2>1, IssueIs
  <2>3. [acct |-> shown, sess |-> Len(pairs) + 1] \in Pair
    BY <1>13, <2>2 DEF Pair
  <2>4. PairsInOrder' /\ Len(pairs') = Len(pairs) + 1
    BY <2>1, <2>2, <2>3, GrownInOrder, PairsTyped DEF StepsHold
  <2>5. ServerTyped'
    BY <2>2 DEF ServerTyped, Grown
  <2> QED  BY <1>13, <2>1, <2>2, <2>4, <2>5, IssuedIs
<1>15. \/ Issue(shown, {}) /\ BeginSave("ui", c)
       \/ Issue(shown, {NextSession}) /\ BeginClear("ui")
       \/ ServerUnchanged /\ BeginClear("ui")
  OBVIOUS
<1> HIDE DEF c
<1>18. ServerTyped' /\ PairsInOrder' /\ Len(pairs') \in Nat /\ Len(pairs) <= Len(pairs')
  <2>1. CASE ServerUnchanged
    BY <2>1, PairsTyped DEF ServerTyped, StepsHold, PairsInOrder
  <2>2. CASE \E lost \in SUBSET {NextSession} : Issue(shown, lost)
    BY <1>14, <2>2, PairsTyped
  <2> QED  BY <1>15, <2>1, <2>2
<1>19. PICK l \in {"save", "clear"}, d \in Credentials : Moves("ui", l, d) /\ left' = [left EXCEPT !["ui"] = Item]
  <2>1. CASE Issue(shown, {}) /\ BeginSave("ui", c)
    <3>1. Len(pairs') = Len(pairs) + 1 /\ c \in Credentials /\ Full(c)
          /\ c.access = Len(pairs) + 1 /\ c.refresh = Len(pairs) + 1
      BY <1>14, <2>1
    <3>2. Moves("ui", "save", c)
      BY <1>18, <2>1, <3>1 DEF Moves, Fits, Holding, UiPC, Full
    <3> QED  BY <2>1, <3>2 DEF Moves
  <2>2. CASE BeginClear("ui")
    <3>1. Moves("ui", "clear", None)
      BY <1>18, <2>2, NoneHeld, PairsTyped DEF Moves, Fits, Holding, UiPC
    <3> QED  BY <2>2, <3>1 DEF Moves
  <2> QED  BY <1>15, <2>1, <2>2
<1>20. /\ StepsTyped' /\ tok' \in [Process -> Credentials]
       /\ \A q \in Process : StepHolds(q)'
       /\ \A q \in Process : tok'[q].access <= Len(pairs') /\ tok'[q].refresh <= Len(pairs')
  <2>1. Len(pairs') \in Nat /\ Len(pairs) <= Len(pairs')
    BY <1>18
  <2>2. Held /\ "ui" \in Process
    BY DEF Process
  <2> QED  BY <1>19, <2>1, <2>2, MovedHolds
<1>1. ServerTyped'
  BY <1>18
<1>2. DeviceTyped'
  BY NoneHeld DEF DeviceTyped
<1>3. StepsTyped'
  BY <1>20
<1>4. MemoryTyped'
  <2>1. left' \in [Process -> Remaining]
    BY <1>19, RemainingApart DEF MemoryTyped, Process
  <2> QED  BY <1>20, <2>1 DEF MemoryTyped
<1>5. UiTyped'
  BY MobileSessionAssumption DEF UiTyped
<1>6. PairsInOrder'
  BY <1>18
<1>7. TokensIssued'
  <2>1. store.access \in Nat /\ store.refresh \in Nat /\ store' = store
    BY MobileSessionAssumption DEF DeviceTyped, Credentials, Token
  <2> QED  BY <1>18, <1>20, <2>1, PairsTyped DEF StepsHold, TokensIssued
<1>8. \A q \in Process : StepHolds(q)'
  BY <1>20
<1>9. CarriesLate'
  BY <1>19, MobileSessionAssumption DEF StepsHold, CarriesLate, StepsTyped, Moves, Process
<1>10. FlightAwaited'
  BY <1>19, MobileSessionAssumption DEF StepsHold, FlightAwaited, StepsTyped, Moves, Process
<1>11. UiStands'
  BY <1>19, MobileSessionAssumption DEF UiStands, StepsTyped, Inside, Issuing, Moves, Process
<1>12. \A v \in Work : pc'[v] = "idle" => tok'[v] = None /\ carry'[v] = {}
  BY <1>8, <1>9 DEF StepHolds, Fits, Holding, CarriesLate, Process
<1> QED
  BY <1>1, <1>2, <1>3, <1>4, <1>5, <1>6, <1>7, <1>8, <1>9, <1>10, <1>11, <1>12 DEF StepsHold

LEMMA HeldWipe ==
    ASSUME Held, Wipe PROVE Held'
<1> USE DEF Held, TypeOK, Wipe, Goto, UiRest, server, secure, history
<1>1. ServerTyped'
  BY MobileSessionAssumption DEF ServerTyped
<1>2. DeviceTyped'
  BY NoneHeld DEF DeviceTyped
<1>3. StepsTyped'
  BY MobileSessionAssumption DEF StepsTyped, DeviceTyped, UiPC, FlightPC, WorkPC, Process
<1>4. MemoryTyped'
  BY NoneHeld, RemainingApart DEF MemoryTyped, DeviceTyped, Process
<1>5. UiTyped'
  BY MobileSessionAssumption DEF UiTyped
<1>6. PairsInOrder'
  BY DEF StepsHold, PairsInOrder
<1>7. TokensIssued'
  BY NoneHeld DEF StepsHold, TokensIssued, MemoryTyped, DeviceTyped, Process
<1>8. \A q \in Process : StepHolds(q)'
  BY MobileSessionAssumption, NoneHeld
     DEF StepsHold, StepHolds, Fits, Holding, MemoryTyped, StepsTyped, UiPC, FlightPC, WorkPC,
         Process
<1>9. CarriesLate'
  BY MobileSessionAssumption
     DEF StepsHold, CarriesLate, StepsTyped, MemoryTyped, UiPC, FlightPC, WorkPC, Process
<1>10. FlightAwaited'
  BY MobileSessionAssumption
     DEF StepsHold, FlightAwaited, StepsTyped, UiPC, FlightPC, WorkPC, Process
<1>11. UiStands'
  BY MobileSessionAssumption
     DEF UiStands, StepsTyped, Inside, Issuing, UiPC, FlightPC, WorkPC, Process
<1>12. \A v \in Work : pc'[v] = "idle" => tok'[v] = None /\ carry'[v] = {}
  BY <1>8, <1>9 DEF StepHolds, Fits, Holding, CarriesLate, Process
<1> QED
  BY <1>1, <1>2, <1>3, <1>4, <1>5, <1>6, <1>7, <1>8, <1>9, <1>10, <1>11, <1>12 DEF StepsHold

LEMMA HeldAcknowledge ==
    ASSUME Held, Acknowledge PROVE Held'
<1> USE DEF Held, TypeOK, Acknowledge, Goto, UiRest, server, sqlite, history
<1>1. ServerTyped'
  BY MobileSessionAssumption DEF ServerTyped
<1>2. DeviceTyped'
  BY NoneHeld DEF DeviceTyped
<1>3. StepsTyped'
  BY MobileSessionAssumption DEF StepsTyped, DeviceTyped, UiPC, FlightPC, WorkPC, Process
<1>4. MemoryTyped'
  BY NoneHeld, RemainingApart DEF MemoryTyped, DeviceTyped, Process
<1>5. UiTyped'
  BY MobileSessionAssumption DEF UiTyped
<1>6. PairsInOrder'
  BY DEF StepsHold, PairsInOrder
<1>7. TokensIssued'
  BY NoneHeld DEF StepsHold, TokensIssued, MemoryTyped, DeviceTyped, Process
<1>8. \A q \in Process : StepHolds(q)'
  BY MobileSessionAssumption, NoneHeld
     DEF StepsHold, StepHolds, Fits, Holding, MemoryTyped, StepsTyped, UiPC, FlightPC, WorkPC,
         Process
<1>9. CarriesLate'
  BY MobileSessionAssumption
     DEF StepsHold, CarriesLate, StepsTyped, MemoryTyped, UiPC, FlightPC, WorkPC, Process
<1>10. FlightAwaited'
  BY MobileSessionAssumption
     DEF StepsHold, FlightAwaited, StepsTyped, UiPC, FlightPC, WorkPC, Process
<1>11. UiStands'
  BY MobileSessionAssumption
     DEF UiStands, StepsTyped, Inside, Issuing, UiPC, FlightPC, WorkPC, Process
<1>12. \A v \in Work : pc'[v] = "idle" => tok'[v] = None /\ carry'[v] = {}
  BY <1>8, <1>9 DEF StepHolds, Fits, Holding, CarriesLate, Process
<1> QED
  BY <1>1, <1>2, <1>3, <1>4, <1>5, <1>6, <1>7, <1>8, <1>9, <1>10, <1>11, <1>12 DEF StepsHold

LEMMA HeldEditLocally ==
    ASSUME Held, EditLocally PROVE Held'
<1> USE DEF Held, TypeOK, EditLocally, server, secure, memory, history
<1>1. ServerTyped'
  BY MobileSessionAssumption DEF ServerTyped
<1>2. DeviceTyped'
  <2>1. shown \in Account
    BY DEF UiTyped, UiStands, Inside
  <2>2. [acct |-> shown, id |-> made + 1] \in Edit
    BY <2>1, MobileSessionAssumption DEF UiTyped, Edit
  <2> QED  BY <2>1, <2>2 DEF DeviceTyped
<1>3. StepsTyped'
  BY MobileSessionAssumption DEF StepsTyped, DeviceTyped, UiPC, FlightPC, WorkPC, Process
<1>4. MemoryTyped'
  BY NoneHeld, RemainingApart DEF MemoryTyped, DeviceTyped, Process
<1>5. UiTyped'
  BY MobileSessionAssumption DEF UiTyped
<1>6. PairsInOrder'
  BY DEF StepsHold, PairsInOrder
<1>7. TokensIssued'
  BY NoneHeld DEF StepsHold, TokensIssued, MemoryTyped, DeviceTyped, Process
<1>8. \A q \in Process : StepHolds(q)'
  BY MobileSessionAssumption, NoneHeld
     DEF StepsHold, StepHolds, Fits, Holding, MemoryTyped, StepsTyped, UiPC, FlightPC, WorkPC,
         Process
<1>9. CarriesLate'
  BY MobileSessionAssumption
     DEF StepsHold, CarriesLate, StepsTyped, MemoryTyped, UiPC, FlightPC, WorkPC, Process
<1>10. FlightAwaited'
  BY MobileSessionAssumption
     DEF StepsHold, FlightAwaited, StepsTyped, UiPC, FlightPC, WorkPC, Process
<1>11. UiStands'
  BY MobileSessionAssumption
     DEF UiStands, StepsTyped, Inside, Issuing, UiPC, FlightPC, WorkPC, Process
<1>12. \A v \in Work : pc'[v] = "idle" => tok'[v] = None /\ carry'[v] = {}
  BY <1>8, <1>9 DEF StepHolds, Fits, Holding, CarriesLate, Process
<1> QED
  BY <1>1, <1>2, <1>3, <1>4, <1>5, <1>6, <1>7, <1>8, <1>9, <1>10, <1>11, <1>12 DEF StepsHold

LEMMA HeldSaveItem ==
    ASSUME Held, NEW p \in Process, SaveItem(p) PROVE Held'
<1> USE DEF Held, TypeOK, SaveItem, server, sqlite, bounds, history
<1>13. /\ store' \in Credentials /\ left' \in [Process -> Remaining]
       /\ store'.access <= Len(pairs) /\ store'.refresh <= Len(pairs)
  <2>1. Held /\ TypeOK
    OBVIOUS
  <2>2. /\ store \in Credentials /\ tok[p] \in Credentials /\ left \in [Process -> Remaining]
        /\ store.access <= Len(pairs) /\ store.refresh <= Len(pairs)
        /\ tok[p].access <= Len(pairs) /\ tok[p].refresh <= Len(pairs)
    BY DEF DeviceTyped, MemoryTyped, StepsHold, TokensIssued
  <2> QED  BY <2>1, <2>2, SaveIs, RemainingApart, PairsTyped, MobileSessionAssumption DEF Credentials, Token
<1>1. ServerTyped'
  BY MobileSessionAssumption DEF ServerTyped
<1>2. DeviceTyped'
  BY <1>13 DEF DeviceTyped
<1>3. StepsTyped'
  BY MobileSessionAssumption DEF StepsTyped, DeviceTyped, UiPC, FlightPC, WorkPC, Process
<1>4. MemoryTyped'
  BY <1>13 DEF MemoryTyped
<1>5. UiTyped'
  BY MobileSessionAssumption DEF UiTyped
<1>6. PairsInOrder'
  BY DEF StepsHold, PairsInOrder
<1>7. TokensIssued'
  BY <1>13 DEF StepsHold, TokensIssued
<1>8. \A q \in Process : StepHolds(q)'
  BY MobileSessionAssumption, NoneHeld
     DEF StepsHold, StepHolds, Fits, Holding, MemoryTyped, StepsTyped, UiPC, FlightPC, WorkPC,
         Process
<1>9. CarriesLate'
  BY MobileSessionAssumption
     DEF StepsHold, CarriesLate, StepsTyped, MemoryTyped, UiPC, FlightPC, WorkPC, Process
<1>10. FlightAwaited'
  BY MobileSessionAssumption
     DEF StepsHold, FlightAwaited, StepsTyped, UiPC, FlightPC, WorkPC, Process
<1>11. UiStands'
  BY MobileSessionAssumption
     DEF UiStands, StepsTyped, Inside, Issuing, UiPC, FlightPC, WorkPC, Process
<1>12. \A v \in Work : pc'[v] = "idle" => tok'[v] = None /\ carry'[v] = {}
  BY <1>8, <1>9 DEF StepHolds, Fits, Holding, CarriesLate, Process
<1> QED
  BY <1>1, <1>2, <1>3, <1>4, <1>5, <1>6, <1>7, <1>8, <1>9, <1>10, <1>11, <1>12 DEF StepsHold

LEMMA HeldClearItem ==
    ASSUME Held, NEW p \in Process, ClearItem(p) PROVE Held'
<1> USE DEF Held, TypeOK, ClearItem, server, sqlite, bounds, history
<1>13. /\ store' \in Credentials /\ left' \in [Process -> Remaining]
       /\ store'.access <= Len(pairs) /\ store'.refresh <= Len(pairs)
  <2>1. Held /\ TypeOK
    OBVIOUS
  <2>2. /\ store \in Credentials /\ tok[p] \in Credentials /\ left \in [Process -> Remaining]
        /\ store.access <= Len(pairs) /\ store.refresh <= Len(pairs)
        /\ tok[p].access <= Len(pairs) /\ tok[p].refresh <= Len(pairs)
    BY DEF DeviceTyped, MemoryTyped, StepsHold, TokensIssued
  <2>3. 0 \in Token /\ 0 <= Len(pairs)
    BY PairsTyped, MobileSessionAssumption DEF Token
  <2> QED  BY <2>3, <2>1, <2>2, ClearIs, RemainingApart, PairsTyped DEF Credentials
<1>1. ServerTyped'
  BY MobileSessionAssumption DEF ServerTyped
<1>2. DeviceTyped'
  BY <1>13 DEF DeviceTyped
<1>3. StepsTyped'
  BY MobileSessionAssumption DEF StepsTyped, DeviceTyped, UiPC, FlightPC, WorkPC, Process
<1>4. MemoryTyped'
  BY <1>13 DEF MemoryTyped
<1>5. UiTyped'
  BY MobileSessionAssumption DEF UiTyped
<1>6. PairsInOrder'
  BY DEF StepsHold, PairsInOrder
<1>7. TokensIssued'
  BY <1>13 DEF StepsHold, TokensIssued
<1>8. \A q \in Process : StepHolds(q)'
  BY MobileSessionAssumption, NoneHeld
     DEF StepsHold, StepHolds, Fits, Holding, MemoryTyped, StepsTyped, UiPC, FlightPC, WorkPC,
         Process
<1>9. CarriesLate'
  BY MobileSessionAssumption
     DEF StepsHold, CarriesLate, StepsTyped, MemoryTyped, UiPC, FlightPC, WorkPC, Process
<1>10. FlightAwaited'
  BY MobileSessionAssumption
     DEF StepsHold, FlightAwaited, StepsTyped, UiPC, FlightPC, WorkPC, Process
<1>11. UiStands'
  BY MobileSessionAssumption
     DEF UiStands, StepsTyped, Inside, Issuing, UiPC, FlightPC, WorkPC, Process
<1>12. \A v \in Work : pc'[v] = "idle" => tok'[v] = None /\ carry'[v] = {}
  BY <1>8, <1>9 DEF StepHolds, Fits, Holding, CarriesLate, Process
<1> QED
  BY <1>1, <1>2, <1>3, <1>4, <1>5, <1>6, <1>7, <1>8, <1>9, <1>10, <1>11, <1>12 DEF StepsHold

LEMMA HeldMark ==
    ASSUME Held, NEW p \in Process, Mark(p) PROVE Held'
<1> USE DEF Held, TypeOK, Mark, FlightEnds, Waiting, Goto, server, sqlite, bounds, history
<1>13. \/ /\ p = "flight"
          /\ pc'["ui"] = IF pc["ui"] = "await" THEN "in" ELSE pc["ui"]
          /\ pc["ui"] = "await" => goal' = Nil /\ accepting'
          /\ pc["ui"] # "await" => UNCHANGED <<goal, accepting>>
       \/ p = "ui" /\ pc'["ui"] = "wipe" /\ UNCHANGED <<goal, accepting>>
       \/ p \in Work /\ pc'["ui"] = pc["ui"] /\ UNCHANGED <<goal, accepting>>
  <2>1. CASE p = "flight"
    <3>1. FlightEnds(FALSE) /\ TypeOK
      BY <2>1
    <3> QED  BY <2>1, <3>1, FlightEndsIs DEF EndsFor, Process
  <2>2. CASE p # "flight"
    BY <2>2, MobileSessionAssumption DEF StepsTyped, Process
  <2> QED  BY <2>1, <2>2
<1>1. ServerTyped'
  BY MobileSessionAssumption DEF ServerTyped
<1>2. DeviceTyped'
  BY NoneHeld DEF DeviceTyped
<1>3. StepsTyped'
  BY MobileSessionAssumption DEF StepsTyped, DeviceTyped, UiPC, FlightPC, WorkPC, Process
<1>4. MemoryTyped'
  BY NoneHeld, RemainingApart DEF MemoryTyped, DeviceTyped, Process
<1>5. UiTyped'
  BY MobileSessionAssumption DEF UiTyped
<1>6. PairsInOrder'
  BY DEF StepsHold, PairsInOrder
<1>7. TokensIssued'
  BY NoneHeld DEF StepsHold, TokensIssued, MemoryTyped, DeviceTyped, Process
<1>8. \A q \in Process : StepHolds(q)'
  BY MobileSessionAssumption, NoneHeld
     DEF StepsHold, StepHolds, Fits, Holding, MemoryTyped, StepsTyped, UiPC, FlightPC, WorkPC,
         Process
<1>9. CarriesLate'
  BY MobileSessionAssumption
     DEF StepsHold, CarriesLate, StepsTyped, MemoryTyped, UiPC, FlightPC, WorkPC, Process
<1>10. FlightAwaited'
  BY MobileSessionAssumption
     DEF StepsHold, FlightAwaited, StepsTyped, UiPC, FlightPC, WorkPC, Process
<1>11. UiStands'
  BY <1>13, MobileSessionAssumption DEF UiStands, StepsTyped, Inside, Issuing, Process
<1>12. \A v \in Work : pc'[v] = "idle" => tok'[v] = None /\ carry'[v] = {}
  BY <1>8, <1>9 DEF StepHolds, Fits, Holding, CarriesLate, Process
<1> QED
  BY <1>1, <1>2, <1>3, <1>4, <1>5, <1>6, <1>7, <1>8, <1>9, <1>10, <1>11, <1>12 DEF StepsHold

LEMMA HeldBind ==
    ASSUME Held, NEW p \in Process, Bind(p) PROVE Held'
<1> USE DEF Held, TypeOK, Bind, EnterBound, Goto, Hold, server, secure, sqlite, bounds, history
<1>13. tok[p] \in Credentials /\ tok[p].user \in Account
  BY DEF MemoryTyped, StepsHold, StepHolds, Fits, Full, Credentials
<1>14. p # "flight"
  BY DEF StepsTyped, FlightPC
<1>15. PICK l \in {"in", "claim", "rebind"} :
         /\ pc' = [pc EXCEPT ![p] = l]
         /\ l = "in" => p = "ui" /\ shown' = tok[p].user /\ accepting'
         /\ l # "in" => UNCHANGED <<shown, accepting>> /\ (l = "claim" => p # "ui")
  BY DEF StepsTyped, Process
<1>1. ServerTyped'
  BY MobileSessionAssumption DEF ServerTyped
<1>2. DeviceTyped'
  BY NoneHeld DEF DeviceTyped
<1>3. StepsTyped'
  BY <1>14, <1>15, MobileSessionAssumption DEF StepsTyped, UiPC, FlightPC, WorkPC, Process
<1>4. MemoryTyped'
  BY NoneHeld, RemainingApart DEF MemoryTyped, DeviceTyped, Process
<1>5. UiTyped'
  BY <1>13, <1>15 DEF UiTyped
<1>6. PairsInOrder'
  BY DEF StepsHold, PairsInOrder
<1>7. TokensIssued'
  BY NoneHeld DEF StepsHold, TokensIssued, MemoryTyped, DeviceTyped, Process
<1>8. \A q \in Process : StepHolds(q)'
  BY MobileSessionAssumption, NoneHeld
     DEF StepsHold, StepHolds, Fits, Holding, MemoryTyped, StepsTyped, UiPC, FlightPC, WorkPC,
         Process
<1>9. CarriesLate'
  BY MobileSessionAssumption
     DEF StepsHold, CarriesLate, StepsTyped, MemoryTyped, UiPC, FlightPC, WorkPC, Process
<1>10. FlightAwaited'
  BY MobileSessionAssumption
     DEF StepsHold, FlightAwaited, StepsTyped, UiPC, FlightPC, WorkPC, Process
<1>11. UiStands'
  BY <1>13, <1>15, MobileSessionAssumption DEF UiStands, StepsTyped, Inside, Issuing, Process
<1>12. \A v \in Work : pc'[v] = "idle" => tok'[v] = None /\ carry'[v] = {}
  BY <1>8, <1>9 DEF StepHolds, Fits, Holding, CarriesLate, Process
<1> QED
  BY <1>1, <1>2, <1>3, <1>4, <1>5, <1>6, <1>7, <1>8, <1>9, <1>10, <1>11, <1>12 DEF StepsHold

LEMMA HeldRebind ==
    ASSUME Held, NEW p \in Process, Rebind(p) PROVE Held'
<1> USE DEF Held, TypeOK, Rebind, EnterBound, Goto, Hold, server, secure, bounds, history
<1>13. tok[p] \in Credentials /\ tok[p].user \in Account
  BY DEF MemoryTyped, StepsHold, StepHolds, Fits, Full, Credentials
<1>14. p # "flight"
  BY DEF StepsTyped, FlightPC
<1>15. PICK l \in {"in", "claim", "rebind"} :
         /\ pc' = [pc EXCEPT ![p] = l]
         /\ l = "in" => p = "ui" /\ shown' = tok[p].user /\ accepting'
         /\ l # "in" => UNCHANGED <<shown, accepting>> /\ (l = "claim" => p # "ui")
  BY DEF StepsTyped, Process
<1>1. ServerTyped'
  BY MobileSessionAssumption DEF ServerTyped
<1>2. DeviceTyped'
  BY <1>13 DEF DeviceTyped
<1>3. StepsTyped'
  BY <1>14, <1>15, MobileSessionAssumption DEF StepsTyped, UiPC, FlightPC, WorkPC, Process
<1>4. MemoryTyped'
  BY NoneHeld, RemainingApart DEF MemoryTyped, DeviceTyped, Process
<1>5. UiTyped'
  BY <1>13, <1>15 DEF UiTyped
<1>6. PairsInOrder'
  BY DEF StepsHold, PairsInOrder
<1>7. TokensIssued'
  BY NoneHeld DEF StepsHold, TokensIssued, MemoryTyped, DeviceTyped, Process
<1>8. \A q \in Process : StepHolds(q)'
  BY MobileSessionAssumption, NoneHeld
     DEF StepsHold, StepHolds, Fits, Holding, MemoryTyped, StepsTyped, UiPC, FlightPC, WorkPC,
         Process
<1>9. CarriesLate'
  BY MobileSessionAssumption
     DEF StepsHold, CarriesLate, StepsTyped, MemoryTyped, UiPC, FlightPC, WorkPC, Process
<1>10. FlightAwaited'
  BY MobileSessionAssumption
     DEF StepsHold, FlightAwaited, StepsTyped, UiPC, FlightPC, WorkPC, Process
<1>11. UiStands'
  BY <1>13, <1>15, MobileSessionAssumption DEF UiStands, StepsTyped, Inside, Issuing, Process
<1>12. \A v \in Work : pc'[v] = "idle" => tok'[v] = None /\ carry'[v] = {}
  BY <1>8, <1>9 DEF StepHolds, Fits, Holding, CarriesLate, Process
<1> QED
  BY <1>1, <1>2, <1>3, <1>4, <1>5, <1>6, <1>7, <1>8, <1>9, <1>10, <1>11, <1>12 DEF StepsHold

LEMMA HeldSendCall ==
    ASSUME Held, NEW p \in Process, SendCall(p) PROVE Held'
<1> USE DEF Held, TypeOK, SendCall, GiveUp, Goto, Hold, CallRest, server, secure, sqlite, history
<1>13. p # "flight"
  BY DEF StepsTyped, FlightPC
<1>14. PICK l \in {"in", "idle", "sent"} :
         /\ pc' = [pc EXCEPT ![p] = l]
         /\ l = "in" => p = "ui"
         /\ l = "idle" => p # "ui" /\ carry' = [carry EXCEPT ![p] = {}]
         /\ l = "sent" => UNCHANGED carry
  OBVIOUS
<1>1. ServerTyped'
  BY MobileSessionAssumption DEF ServerTyped
<1>2. DeviceTyped'
  BY NoneHeld DEF DeviceTyped
<1>3. StepsTyped'
  BY <1>13, <1>14, MobileSessionAssumption DEF StepsTyped, UiPC, FlightPC, WorkPC, Process
<1>4. MemoryTyped'
  BY NoneHeld, RemainingApart DEF MemoryTyped, DeviceTyped, Process
<1>5. UiTyped'
  BY MobileSessionAssumption DEF UiTyped
<1>6. PairsInOrder'
  BY DEF StepsHold, PairsInOrder
<1>7. TokensIssued'
  BY NoneHeld DEF StepsHold, TokensIssued, MemoryTyped, DeviceTyped, Process
<1>8. \A q \in Process : StepHolds(q)'
  BY MobileSessionAssumption, NoneHeld
     DEF StepsHold, StepHolds, Fits, Holding, MemoryTyped, StepsTyped, UiPC, FlightPC, WorkPC,
         Process
<1>9. CarriesLate'
  BY <1>13, <1>14, MobileSessionAssumption DEF StepsHold, CarriesLate, StepsTyped, MemoryTyped, Process
<1>10. FlightAwaited'
  BY MobileSessionAssumption
     DEF StepsHold, FlightAwaited, StepsTyped, UiPC, FlightPC, WorkPC, Process
<1>11. UiStands'
  BY MobileSessionAssumption
     DEF UiStands, StepsTyped, Inside, Issuing, UiPC, FlightPC, WorkPC, Process
<1>12. \A v \in Work : pc'[v] = "idle" => tok'[v] = None /\ carry'[v] = {}
  BY <1>8, <1>9 DEF StepHolds, Fits, Holding, CarriesLate, Process
<1> QED
  BY <1>1, <1>2, <1>3, <1>4, <1>5, <1>6, <1>7, <1>8, <1>9, <1>10, <1>11, <1>12 DEF StepsHold

LEMMA HeldAnswered ==
    ASSUME Held, NEW p \in Process, Answered(p) PROVE Held'
<1> USE DEF Held, TypeOK, Answered, Serve, EndSessions, BeginClear, GiveUp, Goto, Hold, LoseAnswer,
       secure, sqlite
<1> DEFINE n == tok[p].access
           b == pairs[n].acct
<1>13. p # "flight" /\ n \in 1..Len(pairs) /\ n # 0 /\ tok[p] \in Credentials
       /\ tok[p].refresh <= Len(pairs)
  BY PairsTyped DEF StepsTyped, FlightPC, StepsHold, StepHolds, Fits, TokensIssued, MemoryTyped,
                    Credentials, Token
<1>14. b \in Account /\ SessionsOf(b) \subseteq 1..MaxPairs
  BY <1>13, PairsTyped DEF Pair
<1> HIDE DEF n, b
<1>15. \/ /\ p = "ui" /\ goal = "delete" /\ BeginClear(p)
          /\ UNCHANGED <<carry, goal, accepting, faults>>
       \/ /\ p = "ui" /\ goal # "delete" /\ Goto(p, "relogin") /\ Hold(p, None)
          /\ UNCHANGED <<left, carry, goal, accepting, faults>>
       \/ /\ p # "ui" /\ Goto(p, "persist") /\ UNCHANGED <<tok, left, carry, goal, accepting, faults>>
       \/ /\ Goto(p, "denied") /\ UNCHANGED <<tok, left, carry, goal, accepting, faults>>
       \/ /\ GiveUp(p) /\ UNCHANGED left
          /\ faults' = faults \/ (faults < MaxFaults /\ faults' = faults + 1)
  OBVIOUS
<1>16. PICK l \in {"clear", "relogin", "persist", "denied", "in", "idle"} :
         /\ pc' = [pc EXCEPT ![p] = l]
         /\ l \in {"clear", "relogin", "in"} => p = "ui"
         /\ l \in {"persist", "idle"} => p # "ui"
         /\ l = "idle" => carry' = [carry EXCEPT ![p] = {}]
         /\ l # "idle" => UNCHANGED carry
  BY <1>15
<1>1. ServerTyped'
  BY <1>14 DEF ServerTyped, b, n
<1>2. DeviceTyped'
  BY NoneHeld DEF DeviceTyped
<1>3. StepsTyped'
  BY <1>13, <1>16, MobileSessionAssumption DEF StepsTyped, UiPC, FlightPC, WorkPC, Process
<1>4. MemoryTyped'
  BY NoneHeld, RemainingApart DEF MemoryTyped, DeviceTyped, Process
<1>5. UiTyped'
  <2>1. faults' \in 0..MaxFaults
    BY <1>15, MobileSessionAssumption DEF UiTyped
  <2>2. goal' \in UserGoals \cup {Nil} /\ accepting' \in BOOLEAN
    BY <1>15 DEF UiTyped
  <2> QED  BY <2>1, <2>2 DEF UiTyped
<1>6. PairsInOrder'
  BY DEF StepsHold, PairsInOrder
<1>7. TokensIssued'
  BY NoneHeld DEF StepsHold, TokensIssued, MemoryTyped, DeviceTyped, Process
<1>8. \A q \in Process : StepHolds(q)'
  BY MobileSessionAssumption, NoneHeld
     DEF StepsHold, StepHolds, Fits, Holding, MemoryTyped, StepsTyped, UiPC, FlightPC, WorkPC,
         Process
<1>9. CarriesLate'
  BY <1>13, <1>16, MobileSessionAssumption DEF StepsHold, CarriesLate, StepsTyped, MemoryTyped, Process
<1>10. FlightAwaited'
  BY MobileSessionAssumption
     DEF StepsHold, FlightAwaited, StepsTyped, UiPC, FlightPC, WorkPC, Process
<1>11. UiStands'
  BY MobileSessionAssumption
     DEF UiStands, StepsTyped, Inside, Issuing, UiPC, FlightPC, WorkPC, Process
<1>12. \A v \in Work : pc'[v] = "idle" => tok'[v] = None /\ carry'[v] = {}
  BY <1>8, <1>9 DEF StepHolds, Fits, Holding, CarriesLate, Process
<1> QED
  BY <1>1, <1>2, <1>3, <1>4, <1>5, <1>6, <1>7, <1>8, <1>9, <1>10, <1>11, <1>12 DEF StepsHold

LEMMA HeldDenied ==
    ASSUME Held, NEW p \in Process, Denied(p) PROVE Held'
<1> USE DEF Held, TypeOK, Denied, Goto, Hold, CallRest, server, secure, sqlite, history
<1>13. /\ p # "flight" /\ tok[p] \in Credentials /\ store \in Credentials
       /\ store.access <= Len(pairs) /\ store.refresh <= Len(pairs)
  BY DEF StepsTyped, FlightPC, MemoryTyped, DeviceTyped, StepsHold, TokensIssued
<1>14. \/ /\ store.access # 0 /\ pc' = [pc EXCEPT ![p] = "resent"]
          /\ tok' = [tok EXCEPT ![p] = store]
       \/ /\ pc' = [pc EXCEPT ![p] = "await", !["flight"] = IF @ = "idle" THEN "read" ELSE @]
          /\ tok' = [tok EXCEPT ![p] = None]
  OBVIOUS
<1>15. \A q \in Process : \/ q = p /\ pc'[q] = "resent" /\ tok'[q] = store /\ store.access # 0
                          \/ q = p /\ pc'[q] = "await" /\ tok'[q] = None
                          \/ q = "flight" /\ pc[q] = "idle" /\ pc'[q] = "read" /\ tok'[q] = tok[q]
                          \/ q # p /\ pc'[q] = pc[q] /\ tok'[q] = tok[q]
  BY <1>13, <1>14 DEF StepsTyped, MemoryTyped, Process
<1>1. ServerTyped'
  BY MobileSessionAssumption DEF ServerTyped
<1>2. DeviceTyped'
  BY NoneHeld DEF DeviceTyped
<1>3. StepsTyped'
  <2>1. pc' \in [Process -> UiPC \cup FlightPC \cup WorkPC]
    BY <1>14 DEF StepsTyped, UiPC, FlightPC, WorkPC
  <2> QED  BY <1>13, <1>15, <2>1, MobileSessionAssumption DEF StepsTyped, UiPC, FlightPC, WorkPC, Process
<1>4. MemoryTyped'
  BY NoneHeld, RemainingApart DEF MemoryTyped, DeviceTyped, Process
<1>5. UiTyped'
  BY MobileSessionAssumption DEF UiTyped
<1>6. PairsInOrder'
  BY DEF StepsHold, PairsInOrder
<1>7. TokensIssued'
  BY NoneHeld DEF StepsHold, TokensIssued, MemoryTyped, DeviceTyped, Process
<1>8. \A q \in Process : StepHolds(q)'
  BY <1>15 DEF StepsHold, StepHolds, Fits, Holding
<1>9. CarriesLate'
  BY <1>13, <1>15, MobileSessionAssumption DEF StepsHold, CarriesLate, Process
<1>10. FlightAwaited'
  <2>1. CASE \E q \in Process : q # p /\ pc[q] = "await"
    BY <1>15, <2>1 DEF FlightAwaited
  <2>2. CASE pc'[p] = "await"
    BY <2>2 DEF FlightAwaited
  <2>3. CASE pc["flight"] = "idle" /\ pc'[p] = "resent"
    BY <1>13, <1>14, <2>3 DEF FlightAwaited, StepsTyped, Process
  <2> QED  BY <1>15, <2>1, <2>2, <2>3 DEF StepsHold, FlightAwaited
<1>11. UiStands'
  BY <1>13, <1>15, MobileSessionAssumption DEF UiStands, StepsTyped, Inside, Issuing, Process
<1>12. \A v \in Work : pc'[v] = "idle" => tok'[v] = None /\ carry'[v] = {}
  BY <1>8, <1>9 DEF StepHolds, Fits, Holding, CarriesLate, Process
<1> QED
  BY <1>1, <1>2, <1>3, <1>4, <1>5, <1>6, <1>7, <1>8, <1>9, <1>10, <1>11, <1>12 DEF StepsHold

LEMMA HeldFlightRead ==
    ASSUME Held, FlightRead PROVE Held'
<1> USE DEF Held, TypeOK, FlightRead, BeginClear, Goto, Hold, FlightRest, server, secure, sqlite
<1>13. PICK l \in {"clear", "refresh"}, c \in Credentials : 
         /\ Moves("flight", l, c)
         /\ left' = left \/ left' = [left EXCEPT !["flight"] = Item]
  <2>1. store \in Credentials /\ store.access <= Len(pairs) /\ store.refresh <= Len(pairs)
    BY DEF DeviceTyped, StepsHold, TokensIssued
  <2>2. None.access <= Len(pairs) /\ None.refresh <= Len(pairs) /\ pairs' = pairs
    BY NoneHeld, PairsTyped
  <2>3. CASE store.refresh = 0
    <3>1. Moves("flight", "clear", None)
      BY <2>2, <2>3, NoneHeld DEF Moves, Fits, Holding, FlightPC
    <3> QED  BY <2>3, <3>1 DEF Moves
  <2>4. CASE store.refresh # 0
    <3>1. Moves("flight", "refresh", store)
      BY <2>1, <2>2, <2>4 DEF Moves, Fits, Holding, FlightPC
    <3> QED  BY <2>4, <3>1 DEF Moves
  <2> QED  BY <2>3, <2>4
<1>14. /\ StepsTyped' /\ tok' \in [Process -> Credentials]
       /\ \A q \in Process : StepHolds(q)'
       /\ \A q \in Process : tok'[q].access <= Len(pairs') /\ tok'[q].refresh <= Len(pairs')
  <2>1. Len(pairs') \in Nat /\ Len(pairs) <= Len(pairs')
    BY PairsTyped
  <2>2. Held /\ "flight" \in Process
    BY DEF Process
  <2> QED  BY <1>13, <2>1, <2>2, MovedHolds
<1>1. ServerTyped'
  BY MobileSessionAssumption DEF ServerTyped
<1>2. DeviceTyped'
  BY NoneHeld DEF DeviceTyped
<1>3. StepsTyped'
  BY <1>14
<1>4. MemoryTyped'
  BY <1>14, RemainingApart DEF MemoryTyped, Process
<1>5. UiTyped'
  BY MobileSessionAssumption DEF UiTyped
<1>6. PairsInOrder'
  BY DEF StepsHold, PairsInOrder
<1>7. TokensIssued'
  BY <1>14 DEF StepsHold, TokensIssued
<1>8. \A q \in Process : StepHolds(q)'
  BY <1>14
<1>9. CarriesLate'
  BY <1>13, MobileSessionAssumption DEF StepsHold, CarriesLate, StepsTyped, Moves, Process
<1>10. FlightAwaited'
  BY <1>13, MobileSessionAssumption DEF StepsHold, FlightAwaited, StepsTyped, Moves, Process
<1>11. UiStands'
  BY <1>13, MobileSessionAssumption DEF UiStands, StepsTyped, Inside, Issuing, Moves, Process
<1>12. \A v \in Work : pc'[v] = "idle" => tok'[v] = None /\ carry'[v] = {}
  BY <1>8, <1>9 DEF StepHolds, Fits, Holding, CarriesLate, Process
<1> QED
  BY <1>1, <1>2, <1>3, <1>4, <1>5, <1>6, <1>7, <1>8, <1>9, <1>10, <1>11, <1>12 DEF StepsHold

LEMMA HeldFlightRefresh ==
    ASSUME Held, FlightRefresh PROVE Held'
<1> USE DEF Held, TypeOK, FlightRefresh, BeginSave, BeginClear, FlightEnds, Waiting, Goto, Hold,
       NextIssued, Refuse, ServerUnchanged, LoseRotation, LoseAnswer, FlightRest, secure, sqlite
<1> DEFINE n == tok["flight"].refresh
           c == NextIssued(pairs[n].acct)
<1>13. /\ n \in 1..Len(pairs) /\ n # 0 /\ tok["flight"] \in Credentials
       /\ pairs[n] \in Pair /\ pairs[n].acct \in Account
       /\ Rotate(n) => /\ Grown(pairs[n]) /\ c \in Credentials /\ Full(c)
                       /\ c.access = Len(pairs) + 1 /\ c.refresh = Len(pairs) + 1
       /\ Rotate(n) \/ Refuse(n) \/ ServerUnchanged =>
            /\ ServerTyped' /\ PairsInOrder' /\ Len(pairs') \in Nat /\ Len(pairs) <= Len(pairs')
  <2>1. Held /\ pc["flight"] = "refresh" /\ "flight" \in Process
    BY DEF Process
  <2> QED  BY <2>1, RefreshIs
<1>17. \/ Rotate(n) /\ BeginSave("flight", c) /\ UNCHANGED <<carry, goal, accepting, lapses, faults>>
       \/ Refuse(n) /\ BeginClear("flight") /\ UNCHANGED <<carry, goal, accepting, lapses, faults>>
       \/ /\ FlightEnds(FALSE) /\ UNCHANGED left
          /\ Rotate(n) /\ faults < MaxFaults /\ faults' = faults + 1 /\ lapses' = lapses \cup {"unsaved"}
       \/ FlightEnds(FALSE) /\ ServerUnchanged /\ UNCHANGED <<left, lapses, faults>>
  OBVIOUS
<1>18. /\ ServerTyped' /\ PairsInOrder' /\ Len(pairs') \in Nat /\ Len(pairs) <= Len(pairs')
       /\ Rotate(n) => Len(pairs') = Len(pairs) + 1
  <2>1. Rotate(n) \/ Refuse(n) \/ ServerUnchanged
    BY <1>17
  <2> QED  BY <1>13, <2>1 DEF Grown
<1>19. \/ FlightEnds(FALSE) /\ UNCHANGED left
       \/ \E l \in {"save", "clear"}, d \in Credentials : 
            /\ Moves("flight", l, d) /\ left' = [left EXCEPT !["flight"] = Item]
            /\ UNCHANGED <<carry, goal, accepting>>
  <2>1. CASE Rotate(n) /\ BeginSave("flight", c) /\ UNCHANGED <<carry, goal, accepting>>
    <3>1. Moves("flight", "save", c)
      BY <1>13, <1>18, <2>1 DEF Moves, Fits, Holding, FlightPC, Full
    <3> QED  BY <2>1, <3>1 DEF Moves
  <2>2. CASE BeginClear("flight") /\ UNCHANGED <<carry, goal, accepting>>
    <3>1. Moves("flight", "clear", None)
      BY <1>18, <2>2, NoneHeld, PairsTyped DEF Moves, Fits, Holding, FlightPC
    <3> QED  BY <2>2, <3>1 DEF Moves
  <2> QED  BY <1>17, <2>1, <2>2
<1> HIDE DEF n, c, FlightEnds
<1>20. /\ StepsTyped' /\ tok' \in [Process -> Credentials] /\ carry' \in [Work -> SUBSET Edit]
       /\ \A q \in Process : StepHolds(q)'
       /\ \A q \in Process : tok'[q].access <= Len(pairs') /\ tok'[q].refresh <= Len(pairs')
       /\ CarriesLate' /\ FlightAwaited' /\ UiStands'
       /\ goal' \in UserGoals \cup {Nil} /\ accepting' \in BOOLEAN
  <2>1. Held /\ TypeOK /\ "flight" \in Process
    BY DEF Process
  <2>2. CASE FlightEnds(FALSE)
    <3>1. \A q \in Process : EndsFor(q, FALSE)
      BY <2>1, <2>2, FlightEndsIs
    <3>2. \A q \in Process : StepHolds(q)'
      BY <3>1, NoneHeld DEF EndsFor, StepsHold, StepHolds, Fits, Holding
    <3>3. \A q \in Process : tok[q].access \in Nat /\ tok[q].refresh \in Nat
      BY MobileSessionAssumption DEF MemoryTyped, Credentials, Token
    <3>4. \A q \in Process : tok'[q] = None \/ tok'[q] = tok[q]
      BY <3>1 DEF EndsFor
    <3>5. \A q \in Process : tok'[q].access <= Len(pairs') /\ tok'[q].refresh <= Len(pairs')
      BY <1>18, <3>3, <3>4, NoneHeld, PairsTyped DEF StepsHold, TokensIssued
    <3>6. /\ StepsTyped' /\ tok' \in [Process -> Credentials] /\ carry' \in [Work -> SUBSET Edit]
          /\ \A w \in Work : carry'[w] = IF pc[w] = "await" THEN {} ELSE carry[w]
          /\ pc["ui"] = "await" => goal' = Nil /\ accepting' = TRUE
          /\ pc["ui"] # "await" => UNCHANGED <<goal, accepting>>
      BY <2>1, <2>2, FlightEndsIs
    <3>7. CarriesLate'
      BY <3>1, <3>6, MobileSessionAssumption DEF EndsFor, StepsHold, CarriesLate, Process
    <3>8. FlightAwaited'
      <4>1. pc["flight"] # "await"
        BY DEF StepsTyped, FlightPC
      <4> QED  BY <3>1, <4>1 DEF EndsFor, FlightAwaited, Process
    <3>9. pc'["ui"] = IF pc["ui"] = "await" THEN "in" ELSE pc["ui"]
      BY <3>1 DEF EndsFor, Process
    <3>10. UiStands'
      BY <3>6, <3>9, MobileSessionAssumption DEF UiStands, StepsTyped, Inside, Issuing
    <3>11. goal' \in UserGoals \cup {Nil} /\ accepting' \in BOOLEAN
      BY <3>6 DEF UiTyped
    <3> QED  BY <3>2, <3>5, <3>6, <3>7, <3>8, <3>10, <3>11
  <2>3. ASSUME NEW l \in {"save", "clear"}, NEW d, Moves("flight", l, d), UNCHANGED <<carry, goal, accepting>>
        PROVE  <1>20
    <3>1. /\ StepsTyped' /\ tok' \in [Process -> Credentials]
          /\ \A q \in Process : StepHolds(q)'
          /\ \A q \in Process : tok'[q].access <= Len(pairs') /\ tok'[q].refresh <= Len(pairs')
      BY <1>18, <2>1, <2>3, MovedHolds
    <3>2. CarriesLate'
      BY <2>3, MobileSessionAssumption DEF Moves, StepsTyped, StepsHold, CarriesLate, Process
    <3>3. FlightAwaited'
      BY <2>3 DEF Moves, StepsTyped, StepsHold, FlightAwaited, Process
    <3>4. UiStands'
      BY <2>3 DEF Moves, StepsTyped, UiStands
    <3> QED  BY <2>3, <3>1, <3>2, <3>3, <3>4 DEF MemoryTyped, UiTyped
  <2> QED  BY <1>19, <2>2, <2>3
<1>1. ServerTyped'
  BY <1>18
<1>2. DeviceTyped'
  BY NoneHeld DEF DeviceTyped
<1>3. StepsTyped'
  BY <1>20
<1>4. MemoryTyped'
  <2>1. left' \in [Process -> Remaining]
    BY <1>19, RemainingApart DEF MemoryTyped, Process
  <2> QED  BY <1>20, <2>1 DEF MemoryTyped
<1>5. UiTyped'
  <2>1. faults' = faults \/ (faults < MaxFaults /\ faults' = faults + 1)
    BY <1>17
  <2>2. faults \in 0..MaxFaults /\ MaxFaults \in Nat
    BY MobileSessionAssumption DEF UiTyped
  <2>3. faults' \in 0..MaxFaults
    BY <2>1, <2>2
  <2>4. lapses' \subseteq {"unsaved", "unmarked", "overlap"}
    BY <1>17 DEF UiTyped
  <2> QED  BY <1>20, <2>3, <2>4 DEF UiTyped
<1>6. PairsInOrder'
  BY <1>18
<1>7. TokensIssued'
  <2>1. store.access \in Nat /\ store.refresh \in Nat /\ store' = store
    BY MobileSessionAssumption DEF DeviceTyped, Credentials, Token
  <2> QED  BY <1>18, <1>20, <2>1, PairsTyped DEF StepsHold, TokensIssued
<1>8. \A q \in Process : StepHolds(q)'
  BY <1>20
<1>9. CarriesLate'
  BY <1>20
<1>10. FlightAwaited'
  BY <1>20
<1>11. UiStands'
  BY <1>20
<1>12. \A v \in Work : pc'[v] = "idle" => tok'[v] = None /\ carry'[v] = {}
  BY <1>8, <1>9 DEF StepHolds, Fits, Holding, CarriesLate, Process
<1> QED
  BY <1>1, <1>2, <1>3, <1>4, <1>5, <1>6, <1>7, <1>8, <1>9, <1>10, <1>11, <1>12 DEF StepsHold

LEMMA HeldFlightSaved ==
    ASSUME Held, FlightSaved PROVE Held'
<1> USE DEF Held, TypeOK, FlightSaved, FlightEnds, Waiting, FlightRest, server, secure, sqlite
<1>1. ServerTyped'
  BY MobileSessionAssumption DEF ServerTyped
<1>2. DeviceTyped'
  BY NoneHeld DEF DeviceTyped
<1>3. StepsTyped'
  BY MobileSessionAssumption DEF StepsTyped, DeviceTyped, UiPC, FlightPC, WorkPC, Process
<1>4. MemoryTyped'
  BY NoneHeld, RemainingApart DEF MemoryTyped, DeviceTyped, Process
<1>5. UiTyped'
  BY MobileSessionAssumption DEF UiTyped
<1>6. PairsInOrder'
  BY DEF StepsHold, PairsInOrder
<1>7. TokensIssued'
  BY NoneHeld DEF StepsHold, TokensIssued, MemoryTyped, DeviceTyped, Process
<1>8. \A q \in Process : StepHolds(q)'
  <2>1. TypeOK /\ FlightEnds(TRUE) /\ Full(tok["flight"])
    BY DEF StepsHold, StepHolds, Fits, Process
  <2>2. \A q \in Process : EndsFor(q, TRUE)
    BY <2>1, FlightEndsIs
  <2> QED  BY <2>1, <2>2 DEF EndsFor, StepsHold, StepHolds, Fits, Holding, Full
<1>9. CarriesLate'
  BY MobileSessionAssumption
     DEF StepsHold, CarriesLate, StepsTyped, MemoryTyped, UiPC, FlightPC, WorkPC, Process
<1>10. FlightAwaited'
  BY MobileSessionAssumption
     DEF StepsHold, FlightAwaited, StepsTyped, UiPC, FlightPC, WorkPC, Process
<1>11. UiStands'
  BY MobileSessionAssumption
     DEF UiStands, StepsTyped, Inside, Issuing, UiPC, FlightPC, WorkPC, Process
<1>12. \A v \in Work : pc'[v] = "idle" => tok'[v] = None /\ carry'[v] = {}
  BY <1>8, <1>9 DEF StepHolds, Fits, Holding, CarriesLate, Process
<1> QED
  BY <1>1, <1>2, <1>3, <1>4, <1>5, <1>6, <1>7, <1>8, <1>9, <1>10, <1>11, <1>12 DEF StepsHold

LEMMA HeldStart ==
    ASSUME Held, NEW w \in Work, Start(w) PROVE Held'
<1> USE DEF Held, TypeOK, Start, BeginClear, Goto, Hold, server, secure, sqlite, bounds
<1>13. PICK l \in {"clear", "bind", "claim"}, c \in Credentials : 
         /\ Moves(w, l, c)
         /\ left' = left \/ left' = [left EXCEPT ![w] = Item]
  <2>1. /\ store \in Credentials /\ store.access <= Len(pairs) /\ store.refresh <= Len(pairs)
        /\ tok \in [Process -> Credentials] /\ w \in Process /\ w # "ui" /\ w # "flight"
        /\ tok[w] = None
    BY MobileSessionAssumption
       DEF DeviceTyped, MemoryTyped, StepsHold, StepHolds, Fits, Holding, TokensIssued, Process
  <2>2. None.access <= Len(pairs) /\ None.refresh <= Len(pairs) /\ pairs' = pairs
    BY NoneHeld, PairsTyped
  <2>3. CASE BeginClear(w)
    <3>1. Moves(w, "clear", None)
      BY <2>1, <2>2, <2>3, NoneHeld DEF Moves, Fits, Holding, WorkPC
    <3> QED  BY <2>3, <3>1 DEF Moves
  <2>4. CASE Full(store) /\ Goto(w, "bind") /\ Hold(w, store) /\ UNCHANGED left
    <3>1. Moves(w, "bind", store)
      BY <2>1, <2>2, <2>4 DEF Moves, Fits, Holding, WorkPC
    <3> QED  BY <2>4, <3>1 DEF Moves
  <2>5. CASE Goto(w, "claim") /\ UNCHANGED <<tok, left>>
    <3>1. tok' = [tok EXCEPT ![w] = None]
      BY <2>1, <2>5
    <3>2. Moves(w, "claim", None)
      BY <2>1, <2>2, <2>5, <3>1, NoneHeld DEF Moves, Fits, Holding, WorkPC
    <3> QED  BY <2>5, <3>2 DEF Moves
  <2> QED  BY <2>3, <2>4, <2>5 DEF Full
<1>14. /\ StepsTyped' /\ tok' \in [Process -> Credentials]
       /\ \A q \in Process : StepHolds(q)'
       /\ \A q \in Process : tok'[q].access <= Len(pairs') /\ tok'[q].refresh <= Len(pairs')
  <2>1. Len(pairs') \in Nat /\ Len(pairs) <= Len(pairs')
    BY PairsTyped
  <2>2. Held /\ w \in Process
    BY DEF Process
  <2> QED  BY <1>13, <2>1, <2>2, MovedHolds
<1>1. ServerTyped'
  BY MobileSessionAssumption DEF ServerTyped
<1>2. DeviceTyped'
  BY NoneHeld DEF DeviceTyped
<1>3. StepsTyped'
  BY <1>14
<1>4. MemoryTyped'
  BY <1>14, RemainingApart DEF MemoryTyped, Process
<1>5. UiTyped'
  BY MobileSessionAssumption DEF UiTyped
<1>6. PairsInOrder'
  BY DEF StepsHold, PairsInOrder
<1>7. TokensIssued'
  BY <1>14 DEF StepsHold, TokensIssued
<1>8. \A q \in Process : StepHolds(q)'
  BY <1>14
<1>9. CarriesLate'
  BY <1>13, MobileSessionAssumption DEF StepsHold, CarriesLate, StepsTyped, Moves, Process
<1>10. FlightAwaited'
  BY <1>13, MobileSessionAssumption DEF StepsHold, FlightAwaited, StepsTyped, Moves, Process
<1>11. UiStands'
  BY <1>13, MobileSessionAssumption DEF UiStands, StepsTyped, Inside, Issuing, Moves, Process
<1>12. \A v \in Work : pc'[v] = "idle" => tok'[v] = None /\ carry'[v] = {}
  BY <1>8, <1>9 DEF StepHolds, Fits, Holding, CarriesLate, Process
<1> QED
  BY <1>1, <1>2, <1>3, <1>4, <1>5, <1>6, <1>7, <1>8, <1>9, <1>10, <1>11, <1>12 DEF StepsHold

LEMMA HeldClaim ==
    ASSUME Held, NEW w \in Work, Claim(w) PROVE Held'
<1> USE DEF Held, TypeOK, Claim, Goto, WorkRest, server, secure, sqlite, bounds
<1>1. ServerTyped'
  BY MobileSessionAssumption DEF ServerTyped
<1>2. DeviceTyped'
  BY NoneHeld DEF DeviceTyped
<1>3. StepsTyped'
  BY MobileSessionAssumption DEF StepsTyped, DeviceTyped, UiPC, FlightPC, WorkPC, Process
<1>4. MemoryTyped'
  BY NoneHeld, RemainingApart DEF MemoryTyped, DeviceTyped, Process
<1>5. UiTyped'
  BY MobileSessionAssumption DEF UiTyped
<1>6. PairsInOrder'
  BY DEF StepsHold, PairsInOrder
<1>7. TokensIssued'
  BY NoneHeld DEF StepsHold, TokensIssued, MemoryTyped, DeviceTyped, Process
<1>8. \A q \in Process : StepHolds(q)'
  BY MobileSessionAssumption, NoneHeld
     DEF StepsHold, StepHolds, Fits, Holding, MemoryTyped, StepsTyped, UiPC, FlightPC, WorkPC,
         Process
<1>9. CarriesLate'
  BY MobileSessionAssumption
     DEF StepsHold, CarriesLate, StepsTyped, MemoryTyped, UiPC, FlightPC, WorkPC, Process
<1>10. FlightAwaited'
  BY MobileSessionAssumption
     DEF StepsHold, FlightAwaited, StepsTyped, UiPC, FlightPC, WorkPC, Process
<1>11. UiStands'
  BY MobileSessionAssumption
     DEF UiStands, StepsTyped, Inside, Issuing, UiPC, FlightPC, WorkPC, Process
<1>12. \A v \in Work : pc'[v] = "idle" => tok'[v] = None /\ carry'[v] = {}
  BY <1>8, <1>9 DEF StepHolds, Fits, Holding, CarriesLate, Process
<1> QED
  BY <1>1, <1>2, <1>3, <1>4, <1>5, <1>6, <1>7, <1>8, <1>9, <1>10, <1>11, <1>12 DEF StepsHold

LEMMA HeldPersist ==
    ASSUME Held, NEW w \in Work, Persist(w) PROVE Held'
<1> USE DEF Held, TypeOK, Persist, Goto, Hold, WorkRest, server, secure, bounds
<1>13. tok[w] \in Credentials /\ tok[w].access # 0 /\ tok[w].access <= Len(pairs)
  BY DEF StepsHold, StepHolds, Fits, TokensIssued, MemoryTyped, Process
<1>14. tok[w].access \in 1..Len(pairs)
  BY <1>13, PairsTyped DEF Credentials, Token
<1>15. pairs[tok[w].access].acct \in Account
  BY <1>14, PairsTyped DEF Pair
<1>1. ServerTyped'
  BY MobileSessionAssumption DEF ServerTyped
<1>2. DeviceTyped'
  BY <1>15 DEF DeviceTyped
<1>3. StepsTyped'
  BY MobileSessionAssumption DEF StepsTyped, DeviceTyped, UiPC, FlightPC, WorkPC, Process
<1>4. MemoryTyped'
  BY NoneHeld, RemainingApart DEF MemoryTyped, DeviceTyped, Process
<1>5. UiTyped'
  BY MobileSessionAssumption DEF UiTyped
<1>6. PairsInOrder'
  BY DEF StepsHold, PairsInOrder
<1>7. TokensIssued'
  BY NoneHeld DEF StepsHold, TokensIssued, MemoryTyped, DeviceTyped, Process
<1>8. \A q \in Process : StepHolds(q)'
  BY MobileSessionAssumption, NoneHeld
     DEF StepsHold, StepHolds, Fits, Holding, MemoryTyped, StepsTyped, UiPC, FlightPC, WorkPC,
         Process
<1>9. CarriesLate'
  BY MobileSessionAssumption
     DEF StepsHold, CarriesLate, StepsTyped, MemoryTyped, UiPC, FlightPC, WorkPC, Process
<1>10. FlightAwaited'
  BY MobileSessionAssumption
     DEF StepsHold, FlightAwaited, StepsTyped, UiPC, FlightPC, WorkPC, Process
<1>11. UiStands'
  BY MobileSessionAssumption
     DEF UiStands, StepsTyped, Inside, Issuing, UiPC, FlightPC, WorkPC, Process
<1>12. \A v \in Work : pc'[v] = "idle" => tok'[v] = None /\ carry'[v] = {}
  BY <1>8, <1>9 DEF StepHolds, Fits, Holding, CarriesLate, Process
<1> QED
  BY <1>1, <1>2, <1>3, <1>4, <1>5, <1>6, <1>7, <1>8, <1>9, <1>10, <1>11, <1>12 DEF StepsHold

LEMMA HeldExpire ==
    ASSUME Held, Expire PROVE Held'
<1> USE DEF Held, TypeOK, Expire, secure, sqlite, memory, bounds, history
<1>1. ServerTyped'
  BY PairsTyped DEF ServerTyped, Token
<1>2. DeviceTyped'
  BY NoneHeld DEF DeviceTyped
<1>3. StepsTyped'
  BY MobileSessionAssumption DEF StepsTyped, DeviceTyped, UiPC, FlightPC, WorkPC, Process
<1>4. MemoryTyped'
  BY NoneHeld, RemainingApart DEF MemoryTyped, DeviceTyped, Process
<1>5. UiTyped'
  BY MobileSessionAssumption DEF UiTyped
<1>6. PairsInOrder'
  BY DEF StepsHold, PairsInOrder
<1>7. TokensIssued'
  BY NoneHeld DEF StepsHold, TokensIssued, MemoryTyped, DeviceTyped, Process
<1>8. \A q \in Process : StepHolds(q)'
  BY MobileSessionAssumption, NoneHeld
     DEF StepsHold, StepHolds, Fits, Holding, MemoryTyped, StepsTyped, UiPC, FlightPC, WorkPC,
         Process
<1>9. CarriesLate'
  BY MobileSessionAssumption
     DEF StepsHold, CarriesLate, StepsTyped, MemoryTyped, UiPC, FlightPC, WorkPC, Process
<1>10. FlightAwaited'
  BY MobileSessionAssumption
     DEF StepsHold, FlightAwaited, StepsTyped, UiPC, FlightPC, WorkPC, Process
<1>11. UiStands'
  BY MobileSessionAssumption
     DEF UiStands, StepsTyped, Inside, Issuing, UiPC, FlightPC, WorkPC, Process
<1>12. \A v \in Work : pc'[v] = "idle" => tok'[v] = None /\ carry'[v] = {}
  BY <1>8, <1>9 DEF StepHolds, Fits, Holding, CarriesLate, Process
<1> QED
  BY <1>1, <1>2, <1>3, <1>4, <1>5, <1>6, <1>7, <1>8, <1>9, <1>10, <1>11, <1>12 DEF StepsHold

LEMMA HeldCrash ==
    ASSUME Held, Crash PROVE Held'
<1> USE DEF Held, TypeOK, Crash, server, secure, sqlite
<1>1. ServerTyped'
  BY MobileSessionAssumption DEF ServerTyped
<1>2. DeviceTyped'
  BY NoneHeld DEF DeviceTyped
<1>3. StepsTyped'
  BY MobileSessionAssumption DEF StepsTyped, DeviceTyped, UiPC, FlightPC, WorkPC, Process
<1>4. MemoryTyped'
  BY NoneHeld, RemainingApart DEF MemoryTyped, DeviceTyped, Process
<1>5. UiTyped'
  BY MobileSessionAssumption DEF UiTyped
<1>6. PairsInOrder'
  BY DEF StepsHold, PairsInOrder
<1>7. TokensIssued'
  BY NoneHeld DEF StepsHold, TokensIssued, MemoryTyped, DeviceTyped, Process
<1>8. \A q \in Process : StepHolds(q)'
  BY MobileSessionAssumption, NoneHeld
     DEF StepsHold, StepHolds, Fits, Holding, MemoryTyped, StepsTyped, UiPC, FlightPC, WorkPC,
         Process
<1>9. CarriesLate'
  BY MobileSessionAssumption
     DEF StepsHold, CarriesLate, StepsTyped, MemoryTyped, UiPC, FlightPC, WorkPC, Process
<1>10. FlightAwaited'
  BY MobileSessionAssumption
     DEF StepsHold, FlightAwaited, StepsTyped, UiPC, FlightPC, WorkPC, Process
<1>11. UiStands'
  BY MobileSessionAssumption
     DEF UiStands, StepsTyped, Inside, Issuing, UiPC, FlightPC, WorkPC, Process
<1>12. \A v \in Work : pc'[v] = "idle" => tok'[v] = None /\ carry'[v] = {}
  BY <1>8, <1>9 DEF StepHolds, Fits, Holding, CarriesLate, Process
<1> QED
  BY <1>1, <1>2, <1>3, <1>4, <1>5, <1>6, <1>7, <1>8, <1>9, <1>10, <1>11, <1>12 DEF StepsHold

-----------------------------------------------------------------------------
(* Every step *)

LEMMA HeldUi == ASSUME Held, UiStep PROVE Held'
BY HeldMount, HeldReadStored, HeldMe, HeldRestoreRefresh, HeldSaved, HeldDrained, HeldRevokeStored,
   HeldRelogin, HeldWipe, HeldAcknowledge
   DEF UiStep

LEMMA HeldStepOf == ASSUME Held, NEW p \in Process, StepOf(p) PROVE Held'
BY HeldSaveItem, HeldClearItem, HeldMark, HeldBind, HeldRebind, HeldSendCall, HeldAnswered, HeldDenied
   DEF StepOf

LEMMA HeldNext == Held /\ [Next]_vars => Held'
<1> SUFFICES ASSUME Held, [Next]_vars PROVE Held'
  OBVIOUS
<1>1. CASE \E a \in Account : Login(a) \/ EndElsewhere(a)
  BY <1>1, HeldLogin, HeldEndElsewhere
<1>2. CASE \E g \in UserGoals : Leave(g)
  BY <1>2, HeldLeave
<1>3. CASE UiStep \/ EditLocally
  BY <1>3, HeldUi, HeldEditLocally
<1>4. CASE \E p \in Process : StepOf(p)
  BY <1>4, HeldStepOf
<1>5. CASE FlightStep
  BY <1>5, HeldFlightRead, HeldFlightRefresh, HeldFlightSaved DEF FlightStep
<1>6. CASE \E w \in Work : Start(w) \/ Claim(w) \/ Persist(w)
  BY <1>6, HeldStart, HeldClaim, HeldPersist
<1>7. CASE Expire \/ Crash
  BY <1>7, HeldExpire, HeldCrash
<1>8. CASE UNCHANGED vars
  <2>1. TypeOK'
    BY <1>8 DEF Held, TypeOK, ServerTyped, DeviceTyped, StepsTyped, MemoryTyped, UiTyped, vars
  <2>2. StepsHold'
    BY <1>8 DEF Held, StepsHold, PairsInOrder, TokensIssued, StepHolds, Fits, CarriesLate,
                FlightAwaited, vars
  <2>3. UiStands'
    BY <1>8 DEF Held, UiStands, vars
  <2> QED  BY <2>1, <2>2, <2>3 DEF Held
<1> QED  BY <1>1, <1>2, <1>3, <1>4, <1>5, <1>6, <1>7, <1>8 DEF Next

\* Every process holds what its step needs: a token where it calls, a batch only
\* once it has claimed one, somebody who waits wherever the rotation runs.
THEOREM StepsStand == Spec => []Held
<1>1. Held /\ [Next]_vars => Held'
  BY HeldNext
<1> QED  BY <1>1, HeldInit, PTL DEF Spec

-----------------------------------------------------------------------------
(* While no task has run next to a restore *)

Of(c, a) ==
    /\ c.access # 0 => pairs[c.access].acct = a
    /\ c.refresh # 0 => pairs[c.refresh].acct = a
    /\ c.user # Nil => c.user = a

\* Every token, every task in the replica and the interface are of the account.
Owned(a) ==
    /\ Of(store, a) /\ \A p \in Process : Of(tok[p], a)
    /\ \A w \in Work : pc[w] \in Entered => bound = a
    /\ \A p \in Process : pc[p] = "rebind" => bound \in {Nil, a}
    /\ pc["ui"] \in Inside \/ (pc["ui"] = "save" /\ goal = "password") => shown = a /\ bound = a
    /\ lapses = {} => bound \in {Nil, a}

\* The account's work runs only next to the application and its drain, or
\* before the interface is there.
Quiet == pc["ui"] \notin {"launch", "in", "drain"} => \A w \in Work : pc[w] = "idle"

RowsOwned ==
    /\ \A d \in data : d = bound
    /\ \A e \in edits : e.acct = bound
    /\ \A w \in Work : \A e \in carry[w] : e.acct = bound

\* Somebody has begun to give the stored session up.
Doomed == marker \/ ~ Full(store) \/ \E p \in Process : pc[p] = "clear"

\* The stored session while it is saved and cleared: what is cleared stays
\* cleared, and no token is asked for with a session that is given up.
Clearing ==
    /\ \A p \in Process : pc[p] = "clear" =>
         /\ left[p] # Item => store.access = 0
         /\ left[p] \in {<<"user">>, <<>>} => store.refresh = 0
         /\ left[p] = <<>> => store.user = Nil
    /\ \A w \in Work : pc[w] = "clear" => store.access = 0 \/ store.refresh = 0

Saving ==
    pc["ui"] = "save" =>
         /\ ~ marker /\ pc["flight"] # "clear"
         /\ left["ui"] # Item => store.access # 0
         /\ left["ui"] \in {<<"user">>, <<>>} => store.refresh # 0
         /\ left["ui"] = <<>> => store.user # Nil

Marked ==
    /\ marker => store = None
    /\ pc["ui"] \in {"read", "signedout"} => ~ marker
    /\ pc["ui"] = "signedout" => store = None
    /\ pc["ui"] = "ack" => data = {} /\ edits = {} /\ bound = Nil

InUse ==
    /\ pc["ui"] \in {"me", "refresh", "bind", "rebind", "sent", "denied", "resent", "relogin"} => ~ Doomed
    /\ pc["flight"] \in {"refresh", "save"} => ~ Doomed

GivenUpBy ==
    Doomed =>
         \/ pc["flight"] = "clear"
         \/ store.access = 0 /\ store.refresh = 0
         \/ pc["ui"] = "save"
         \/ /\ pc["ui"] \in {"launch", "read", "clear"} /\ pc["flight"] = "idle"
            /\ \A w \in Work : pc[w] \in {"idle", "clear"}

StoreStands == Clearing /\ Saving /\ Marked /\ InUse /\ GivenUpBy

Apart ==
    "overlap" \notin lapses =>
        Quiet /\ RowsOwned /\ StoreStands /\ \E a \in Account \cup {Nil} : Owned(a)

-----------------------------------------------------------------------------
(* What is left to wipe *)

\* Without a stored user there is nothing on the device, or the wipe is
\* required, or somebody is about to require it.
Empty ==
    /\ data = {} /\ edits = {} /\ bound = Nil
    /\ \A w \in Work : pc[w] = "idle"
    /\ pc["ui"] \in {"launch", "read", "clear", "save", "signedout"}

WipeDue ==
    lapses \cap {"unmarked", "overlap"} = {} =>
        \/ store.user # Nil
        \/ marker
        \/ \E p \in Process : pc[p] = "clear" /\ left[p] = <<>>
        \/ Empty

-----------------------------------------------------------------------------
(* The current refresh token *)

\* The last token of a session that is the account's only one that was not ended.
Current(n) ==
    n # 0 => /\ Unused(n) \/ pairs[n].sess \in ended
             /\ SessionsOf(pairs[n].acct) \subseteq ended \cup {pairs[n].sess}

\* A rotated pair is being stored, and the store holds the token before it.
Behind(p) == pc[p] = "save" /\ left[p] \in {Item, <<"refresh", "user">>}

TokensCurrent ==
    lapses \cap {"unsaved", "overlap"} = {} =>
        /\ ~ Behind("ui") /\ ~ Behind("flight") => Current(store.refresh)
        /\ \A p \in {"ui", "flight"} :
             pc[p] \in {"me", "refresh", "save"} => Current(tok[p].refresh)
        /\ revoked \subseteq ended

-----------------------------------------------------------------------------
(* Why a session is given up *)

\* The replica of a session that is given up is of an account whose sessions
\* were ended, or holds no edit and the interface is not back.
GivenUpEnded ==
    lapses = {} /\ bound # Nil /\ Doomed =>
        \/ SessionsOf(bound) \subseteq ended
        \/ edits = {} /\ pc["ui"] \in {"launch", "read", "clear", "wipe", "ack", "save"}

SessInv == Held /\ Apart /\ WipeDue /\ TokensCurrent /\ GivenUpEnded

-----------------------------------------------------------------------------
(* One account at a time *)

\* Nothing runs next to the interface once the account's work has stopped.
LEMMA AtRest ==
    ASSUME Held, Quiet, pc["ui"] \notin {"launch", "in", "drain", "await"}
    PROVE  /\ pc["flight"] = "idle" /\ \A w \in Work : pc[w] = "idle"
           /\ tok["flight"] = None /\ \A w \in Work : tok[w] = None /\ carry[w] = {}
<1>1. \A w \in Work : pc[w] = "idle"
  BY DEF Quiet
<1>2. pc["flight"] = "idle"
  BY <1>1 DEF Held, StepsHold, FlightAwaited, Process, TypeOK, StepsTyped, FlightPC
<1> QED  BY <1>1, <1>2 DEF Held, TypeOK, StepsHold, StepHolds, Fits, Holding, Process

\* Sessions and current tokens depend on the pairs and on what was ended.
LEMMA SameTokens ==
    ASSUME UNCHANGED <<pairs, ended>>
    PROVE  /\ \A b : SessionsOf(b)' = SessionsOf(b)
           /\ \A m : Current(m)' <=> Current(m)
<1>1. \A b : SessionsOf(b)' = SessionsOf(b)
  BY DEF SessionsOf
<1> QED  BY <1>1 DEF Current, Unused

LEMMA MoreEnded ==
    ASSUME UNCHANGED pairs, ended \subseteq ended'
    PROVE  /\ \A b : SessionsOf(b)' = SessionsOf(b)
           /\ \A m : Current(m) => Current(m)'
<1>1. \A b : SessionsOf(b)' = SessionsOf(b)
  BY DEF SessionsOf
<1> QED  BY <1>1 DEF Current, Unused

\* A rotation adds no session, and its pair is the current one.
LEMMA RotatedTokens ==
    ASSUME TypeOK, NEW n \in 1..Len(pairs), Grown(pairs[n]), UNCHANGED ended, NEW k, k = Len(pairs) + 1
    PROVE  /\ \A b : SessionsOf(b)' = SessionsOf(b)
           /\ Current(n) => Current(k)'
<1>1. /\ Len(pairs) \in Nat /\ DOMAIN pairs = 1..Len(pairs) /\ DOMAIN pairs' = 1..(Len(pairs) + 1)
      /\ \A m \in 1..Len(pairs) : pairs'[m] = pairs[m]
      /\ pairs'[Len(pairs) + 1] = pairs[n]
  BY PairsTyped DEF Grown
<1>2. \A b : SessionsOf(b)' = SessionsOf(b)
  BY <1>1 DEF SessionsOf
<1>3. Unused(k)'
  BY <1>1 DEF Unused
<1> QED  BY <1>1, <1>2, <1>3 DEF Current

\* A new session is the account's only one that was not ended.
LEMMA IssuedTokens ==
    ASSUME TypeOK, NEW b, Grown([acct |-> b, sess |-> Len(pairs) + 1]), SessionsOf(b) \subseteq ended',
           NEW k, k = Len(pairs) + 1
    PROVE  SessionsOf(b)' \subseteq ended' \cup {k} /\ Current(k)'
<1>1. /\ Len(pairs) \in Nat /\ DOMAIN pairs = 1..Len(pairs) /\ DOMAIN pairs' = 1..(Len(pairs) + 1)
      /\ \A m \in 1..Len(pairs) : pairs'[m] = pairs[m]
      /\ pairs'[Len(pairs) + 1] = [acct |-> b, sess |-> Len(pairs) + 1]
  BY PairsTyped DEF Grown
<1>2. SessionsOf(b)' \subseteq SessionsOf(b) \cup {Len(pairs) + 1}
  BY <1>1 DEF SessionsOf
<1>3. Unused(k)'
  BY <1>1 DEF Unused
<1> QED  BY <1>1, <1>2, <1>3 DEF Current

\* What the server's answer to a rotation does to both.
LEMMA AfterRefresh ==
    ASSUME Held, NEW n \in 1..Len(pairs), n # 0, NEW k, k = Len(pairs) + 1
    PROVE  /\ Rotate(n) => /\ \A b : SessionsOf(b)' = SessionsOf(b)
                           /\ Current(n) => Current(k)'
                           /\ revoked' = revoked /\ ended' = ended
           /\ Refuse(n) => /\ \A b : SessionsOf(b)' = SessionsOf(b)
                           /\ \A m : Current(m)' <=> Current(m)
                           /\ ended' = ended
                           /\ Current(n) /\ revoked \subseteq ended =>
                                revoked' \subseteq ended /\ SessionsOf(pairs[n].acct) \subseteq ended
<1>1. ASSUME Rotate(n)
      PROVE  /\ \A b : SessionsOf(b)' = SessionsOf(b)
             /\ Current(n) => Current(k)'
             /\ revoked' = revoked /\ ended' = ended
  <2>1. Grown(pairs[n]) /\ UNCHANGED <<revoked, expired, gone, ended>>
    BY <1>1, RotateIs DEF Held
  <2> QED  BY <2>1, RotatedTokens DEF Held
<1>2. ASSUME Refuse(n)
      PROVE  /\ \A b : SessionsOf(b)' = SessionsOf(b)
             /\ \A m : Current(m)' <=> Current(m)
             /\ ended' = ended
             /\ Current(n) /\ revoked \subseteq ended =>
                  revoked' \subseteq ended /\ SessionsOf(pairs[n].acct) \subseteq ended
  <2>1. UNCHANGED <<pairs, ended>>
    BY <1>2 DEF Refuse
  <2>2. (\A b : SessionsOf(b)' = SessionsOf(b)) /\ \A m : Current(m)' <=> Current(m)
    BY <2>1, SameTokens
  <2>3. ASSUME Current(n), revoked \subseteq ended
        PROVE  revoked' \subseteq ended /\ SessionsOf(pairs[n].acct) \subseteq ended
    <3>1. pairs[n].sess \in ended
      BY <1>2, <2>3 DEF Refuse, Live, Current
    <3> QED  BY <1>2, <2>3, <3>1 DEF Refuse, Current
  <2> QED  BY <2>1, <2>2, <2>3
<1> QED  BY <1>1, <1>2

LEMMA SessLogin ==
    ASSUME SessInv, Held', NEW b \in Account, Login(b) PROVE SessInv'
<1> SUFFICES ASSUME "overlap" \notin lapses'
             PROVE  /\ Quiet' /\ RowsOwned' /\ StoreStands' /\ \E a \in Account \cup {Nil} : Owned(a)'
                    /\ WipeDue' /\ TokensCurrent' /\ GivenUpEnded'
  BY DEF SessInv, Apart, WipeDue, TokensCurrent, GivenUpEnded
<1> USE DEF SessInv, Held, TypeOK, Login, BeginSave, Goto, Hold, NextIssued, LoseAnswer, UiRest,
       secure, sqlite
<1>1. "overlap" \notin lapses
  OBVIOUS
<1>2. Quiet /\ RowsOwned /\ Clearing /\ Saving /\ Marked /\ InUse /\ GivenUpBy
  BY <1>1 DEF Apart, StoreStands
<1>3. PICK a \in Account \cup {Nil} : Owned(a)
  BY <1>1 DEF Apart
<1>4. /\ pc["flight"] = "idle" /\ \A w \in Work : pc[w] = "idle"
      /\ tok["flight"] = None /\ \A w \in Work : tok[w] = None /\ carry[w] = {}
  BY <1>2, AtRest
<1>5. /\ Grown([acct |-> b, sess |-> Len(pairs) + 1])
      /\ NextIssued(b) \in Credentials
      /\ NextIssued(b).access = Len(pairs) + 1 /\ NextIssued(b).refresh = Len(pairs) + 1
      /\ NextIssued(b).user = b
  <2>1. PICK lost \in SUBSET {NextSession} : Issue(b, lost)
    OBVIOUS
  <2>2. /\ Grown([acct |-> b, sess |-> Len(pairs) + 1])
        /\ Len(pairs) < MaxPairs /\ Len(pairs) + 1 \in 1..MaxPairs
        /\ revoked' \subseteq 1..MaxPairs /\ ended' \subseteq 1..MaxPairs
        /\ expired' = expired /\ gone' = gone
    BY <2>1, IssueIs
  <2> QED  BY <2>2, IssuedIs
<1>6. pc["ui"] = "signedout" /\ store = None /\ ~ marker /\ goal = Nil
  BY <1>2 DEF Marked, UiStands
<1>7. \/ /\ pc' = [pc EXCEPT !["ui"] = "save"] /\ tok' = [tok EXCEPT !["ui"] = NextIssued(b)]
         /\ left' = [left EXCEPT !["ui"] = Item]
      \/ UNCHANGED <<pc, tok, left>>
  OBVIOUS
<1>8. UNCHANGED <<store, marker, data, edits, bound, carry, shown, goal, accepting, lapses>>
  OBVIOUS
<1>9. lapses = {} => bound = Nil
  BY <1>4, <1>6, NoneHeld, MobileSessionAssumption DEF WipeDue, Empty, Process
<1>10. tok["ui"] = None
  BY DEF StepsHold, StepHolds, Fits, Holding, Process
<1>11. pairs'[Len(pairs) + 1].acct = b
  BY <1>5 DEF Grown
<1>12. /\ SessionsOf(b) \subseteq ended' /\ revoked' = revoked \cup SessionsOf(b) /\ ended \subseteq ended'
       /\ pc' = pc => Len(pairs) + 1 \in ended'
  <2>1. PICK lost \in SUBSET {NextSession} : Issue(b, lost) /\ (lost = {NextSession} \/ pc'["ui"] = "save")
    BY DEF StepsTyped, Process
  <2> HIDE DEF Login
  <2> QED  BY <1>6, <2>1 DEF Issue, NextSession
<1> HIDE DEF Login
<1>21. Quiet'
  BY <1>2, MobileSessionAssumption, <1>4, <1>6, <1>7, <1>8 DEF Quiet, StepsTyped, Process
<1>22. RowsOwned'
  BY <1>2, <1>3, MobileSessionAssumption, <1>4, <1>6, <1>7, <1>8
     DEF RowsOwned, Quiet, Owned, StepsTyped, MemoryTyped, Process, Entered
<1>23. Clearing'
  BY <1>2, MobileSessionAssumption, NoneHeld, RemainingApart, <1>4, <1>6, <1>7, <1>8
     DEF Clearing, StepsTyped, MemoryTyped, DeviceTyped, Process, Credentials
<1>24. Saving'
  BY <1>4, <1>6, <1>7, <1>8, RemainingApart DEF Saving, StepsTyped, MemoryTyped, Process
<1>25. Marked'
  BY <1>2, MobileSessionAssumption, NoneHeld, <1>4, <1>6, <1>7, <1>8
     DEF Marked, StepsTyped, DeviceTyped, Process
<1>26. InUse'
  BY <1>2, MobileSessionAssumption, NoneHeld, <1>4, <1>6, <1>7, <1>8
     DEF InUse, Doomed, Full, StepsTyped, DeviceTyped, Process
<1>27. GivenUpBy'
  BY <1>2, MobileSessionAssumption, NoneHeld, <1>4, <1>6, <1>7, <1>8
     DEF GivenUpBy, Doomed, Full, StepsTyped, DeviceTyped, Process
<1>28. Owned(b)'
  <2>1. Of(store, b)'
    BY <1>6, <1>8, NoneHeld DEF Of
  <2>2. \A p \in Process : tok'[p] = None \/ tok'[p] = NextIssued(b)
    BY <1>4, <1>7, <1>10 DEF MemoryTyped, Process
  <2>3. \A p \in Process : Of(tok[p], b)'
    BY <1>5, <1>11, <2>2, NoneHeld DEF Of
  <2>4. \A w \in Work : pc'[w] \notin Entered
    BY <1>4, <1>7, MobileSessionAssumption DEF StepsTyped, Process, Entered
  <2>5. pc'["ui"] \notin Inside /\ goal' # "password"
    BY <1>6, <1>7, <1>8, MobileSessionAssumption DEF StepsTyped, Process, Inside
  <2>6. \A q \in Process : pc'[q] # "rebind"
    BY <1>4, <1>6, <1>7 DEF StepsTyped, Process
  <2> QED  BY <1>8, <1>9, <2>1, <2>3, <2>4, <2>5, <2>6 DEF Owned
<1>29. WipeDue'
  BY <1>2, <1>4, <1>6, <1>7, <1>8 DEF WipeDue, Empty, StepsTyped, Process, Inside
<1>30. TokensCurrent'
  <2>1. PICK k : k = Len(pairs) + 1
    OBVIOUS
  <2>2. Current(k)'
    BY <1>5, <1>12, <2>1, IssuedTokens
  <2>3. Current(store.refresh)'
    BY <1>6, <1>8, NoneHeld DEF Current
  <2>4. \A q \in {"ui", "flight"} : pc'[q] \in {"me", "refresh", "save"} => tok'[q].refresh = k
    BY <1>4, <1>5, <1>6, <1>7, <2>1 DEF StepsTyped, MemoryTyped, Process
  <2> QED  BY <1>8, <1>12, <2>2, <2>3, <2>4 DEF TokensCurrent
<1>31. GivenUpEnded'
  BY <1>8, <1>9 DEF GivenUpEnded
<1> QED
  BY <1>21, <1>22, <1>23, <1>24, <1>25, <1>26, <1>27, <1>28, <1>29, <1>30, <1>31 DEF StoreStands

LEMMA SessEndElsewhere ==
    ASSUME SessInv, Held', NEW b \in Account, EndElsewhere(b) PROVE SessInv'
<1> SUFFICES ASSUME "overlap" \notin lapses'
             PROVE  /\ Quiet' /\ RowsOwned' /\ StoreStands' /\ \E a \in Account \cup {Nil} : Owned(a)'
                    /\ WipeDue' /\ TokensCurrent' /\ GivenUpEnded'
  BY DEF SessInv, Apart, WipeDue, TokensCurrent, GivenUpEnded
<1> USE DEF SessInv, Held, TypeOK, EndElsewhere, EndSessions, secure, sqlite, memory
<1>1. "overlap" \notin lapses
  OBVIOUS
<1>2. Quiet /\ RowsOwned /\ Clearing /\ Saving /\ Marked /\ InUse /\ GivenUpBy
  BY <1>1 DEF Apart, StoreStands
<1>3. PICK a \in Account \cup {Nil} : Owned(a)
  BY <1>1 DEF Apart
<1>8. /\ \A m : SessionsOf(m)' = SessionsOf(m)
      /\ \A m : Current(m) => Current(m)'
      /\ ended \subseteq ended' /\ revoked' \cup ended = revoked \cup ended'
      /\ UNCHANGED <<store, marker, edits, bound, pc, tok, left, lapses>>
  BY MoreEnded
<1>9. Behind("ui")' = Behind("ui") /\ Behind("flight")' = Behind("flight") /\ Doomed' = Doomed
  BY <1>8 DEF Behind, Doomed
<1>21. Quiet'
  BY <1>2, MobileSessionAssumption DEF Quiet, StepsTyped, Process
<1>22. RowsOwned'
  BY <1>2, <1>3, MobileSessionAssumption
     DEF RowsOwned, Quiet, Owned, StepsTyped, MemoryTyped, Process, Entered
<1>23. Clearing'
  BY <1>2, MobileSessionAssumption, NoneHeld, RemainingApart
     DEF Clearing, StepsTyped, MemoryTyped, DeviceTyped, Process, Credentials
<1>24. Saving'
  BY <1>2, MobileSessionAssumption, NoneHeld, RemainingApart
     DEF Saving, StepsTyped, MemoryTyped, DeviceTyped, Process, Credentials
<1>25. Marked'
  BY <1>2, MobileSessionAssumption, NoneHeld DEF Marked, StepsTyped, DeviceTyped, Process
<1>26. InUse'
  BY <1>2, MobileSessionAssumption, NoneHeld
     DEF InUse, Doomed, Full, StepsTyped, DeviceTyped, Process
<1>27. GivenUpBy'
  BY <1>2, MobileSessionAssumption, NoneHeld
     DEF GivenUpBy, Doomed, Full, StepsTyped, DeviceTyped, Process
<1>28. Owned(a)'
  BY <1>2, <1>3, MobileSessionAssumption, NoneHeld
     DEF Owned, Of, StepsTyped, MemoryTyped, DeviceTyped, Process, Credentials, Entered, Inside
<1>29. WipeDue'
  BY <1>2 DEF WipeDue, Empty, StepsTyped, Process, Inside
<1>30. TokensCurrent'
  <2> HIDE DEF EndElsewhere
  <2> QED  BY <1>8, <1>9 DEF TokensCurrent
<1>31. GivenUpEnded'
  <2> HIDE DEF EndElsewhere
  <2> QED  BY <1>8, <1>9 DEF GivenUpEnded
<1> QED
  BY <1>21, <1>22, <1>23, <1>24, <1>25, <1>26, <1>27, <1>28, <1>29, <1>30, <1>31 DEF StoreStands

LEMMA SessLeave ==
    ASSUME SessInv, Held', NEW g \in UserGoals, Leave(g) PROVE SessInv'
<1> SUFFICES ASSUME "overlap" \notin lapses'
             PROVE  /\ Quiet' /\ RowsOwned' /\ StoreStands' /\ \E a \in Account \cup {Nil} : Owned(a)'
                    /\ WipeDue' /\ TokensCurrent' /\ GivenUpEnded'
  BY DEF SessInv, Apart, WipeDue, TokensCurrent, GivenUpEnded
<1> USE DEF SessInv, Held, TypeOK, Leave, Goto, UiRest, server, secure, sqlite, history
<1>1. "overlap" \notin lapses
  OBVIOUS
<1>2. Quiet /\ RowsOwned /\ Clearing /\ Saving /\ Marked /\ InUse /\ GivenUpBy
  BY <1>1 DEF Apart, StoreStands
<1>3. PICK a \in Account \cup {Nil} : Owned(a)
  BY <1>1 DEF Apart
<1>18. UNCHANGED <<pairs, revoked, ended>>
  OBVIOUS
<1>19. /\ \A b : SessionsOf(b)' = SessionsOf(b)
       /\ \A m : Current(m)' <=> Current(m)
  BY <1>18, SameTokens
<1>21. Quiet'
  BY <1>2, MobileSessionAssumption DEF Quiet, StepsTyped, Process
<1>22. RowsOwned'
  BY <1>2, <1>3, MobileSessionAssumption
     DEF RowsOwned, Quiet, Owned, StepsTyped, MemoryTyped, Process, Entered
<1>23. Clearing'
  BY <1>2, MobileSessionAssumption, NoneHeld, RemainingApart
     DEF Clearing, StepsTyped, MemoryTyped, DeviceTyped, Process, Credentials
<1>24. Saving'
  BY <1>2, MobileSessionAssumption, NoneHeld, RemainingApart
     DEF Saving, StepsTyped, MemoryTyped, DeviceTyped, Process, Credentials
<1>25. Marked'
  BY <1>2, MobileSessionAssumption, NoneHeld DEF Marked, StepsTyped, DeviceTyped, Process
<1>26. InUse'
  BY <1>2, MobileSessionAssumption, NoneHeld
     DEF InUse, Doomed, Full, StepsTyped, DeviceTyped, Process
<1>27. GivenUpBy'
  BY <1>2, MobileSessionAssumption, NoneHeld
     DEF GivenUpBy, Doomed, Full, StepsTyped, DeviceTyped, Process
<1>28. Owned(a)'
  BY <1>2, <1>3, MobileSessionAssumption, NoneHeld
     DEF Owned, Of, StepsTyped, MemoryTyped, DeviceTyped, Process, Credentials, Entered, Inside
<1>29. WipeDue'
  BY <1>2, <1>18, <1>19 DEF WipeDue, Empty, StepsTyped, Process, Inside
<1>30. TokensCurrent'
  BY <1>2, MobileSessionAssumption, RemainingApart, <1>18, <1>19
     DEF TokensCurrent, Behind, StepsTyped, MemoryTyped, Process
<1>31. GivenUpEnded'
  BY <1>2, MobileSessionAssumption, <1>18, <1>19 DEF GivenUpEnded, Doomed, StepsTyped, Process
<1> QED
  BY <1>21, <1>22, <1>23, <1>24, <1>25, <1>26, <1>27, <1>28, <1>29, <1>30, <1>31 DEF StoreStands

LEMMA SessMount ==
    ASSUME SessInv, Held', Mount PROVE SessInv'
<1> SUFFICES ASSUME "overlap" \notin lapses'
             PROVE  /\ Quiet' /\ RowsOwned' /\ StoreStands' /\ \E a \in Account \cup {Nil} : Owned(a)'
                    /\ WipeDue' /\ TokensCurrent' /\ GivenUpEnded'
  BY DEF SessInv, Apart, WipeDue, TokensCurrent, GivenUpEnded
<1> USE DEF SessInv, Held, TypeOK, Mount, BeginClear, Goto, Hold, UiRest, Overlaps, server, secure,
       sqlite
<1>1. "overlap" \notin lapses
  OBVIOUS
<1>2. Quiet /\ RowsOwned /\ Clearing /\ Saving /\ Marked /\ InUse /\ GivenUpBy
  BY <1>1 DEF Apart, StoreStands
<1>3. PICK a \in Account \cup {Nil} : Owned(a)
  BY <1>1 DEF Apart
<1>4. /\ \A w \in Work : pc[w] = "idle"
      /\ pc["flight"] = "idle" /\ pc["ui"] = "launch"
  <2>1. Work \subseteq Process
    BY DEF Process
  <2>2. \A w \in Work : pc[w] = "idle"
    BY DEF Working
  <2> QED  BY <2>1, <2>2 DEF StepsHold, FlightAwaited, Process, StepsTyped, FlightPC
<1>5. \A w \in Work : tok[w] = None /\ carry[w] = {}
  BY <1>4
<1>6. tok["flight"] = None /\ tok["ui"] = None
  BY <1>4 DEF StepsHold, StepHolds, Fits, Holding, Process
<1>7. \/ /\ marker /\ pc' = [pc EXCEPT !["ui"] = "clear"] /\ tok' = [tok EXCEPT !["ui"] = None]
         /\ left' = [left EXCEPT !["ui"] = Item]
      \/ ~ marker /\ pc' = [pc EXCEPT !["ui"] = "read"] /\ UNCHANGED <<tok, left>>
  OBVIOUS
<1>8. UNCHANGED <<pairs, store, marker, data, edits, bound, carry, shown, goal, accepting>>
      /\ lapses \subseteq lapses'
  OBVIOUS
<1>18. UNCHANGED <<pairs, revoked, ended>>
  OBVIOUS
<1>19. /\ \A b : SessionsOf(b)' = SessionsOf(b)
       /\ \A m : Current(m)' <=> Current(m)
  BY <1>18, SameTokens
<1> HIDE DEF Mount
<1>21. Quiet'
  BY <1>2, MobileSessionAssumption, <1>4, <1>5, <1>6, <1>7, <1>8 DEF Quiet, StepsTyped, Process
<1>22. RowsOwned'
  BY <1>2, <1>3, MobileSessionAssumption, <1>4, <1>5, <1>6, <1>7, <1>8
     DEF RowsOwned, Quiet, Owned, StepsTyped, MemoryTyped, Process, Entered
<1>23. Clearing'
  <2>1. \A q \in Process : pc'[q] = "clear" => q = "ui" /\ left'[q] = Item
    BY <1>4, <1>5, <1>7, MobileSessionAssumption DEF StepsTyped, MemoryTyped, Process
  <2>2. \A w \in Work : pc'[w] # "clear"
    BY <2>1, MobileSessionAssumption DEF Process
  <2> QED  BY <2>1, <2>2, RemainingApart DEF Clearing
<1>24. Saving'
  BY <1>2, MobileSessionAssumption, NoneHeld, RemainingApart, <1>4, <1>5, <1>6, <1>7, <1>8
     DEF Saving, StepsTyped, MemoryTyped, DeviceTyped, Process, Credentials
<1>25. Marked'
  BY <1>2, MobileSessionAssumption, NoneHeld, <1>4, <1>5, <1>6, <1>7, <1>8
     DEF Marked, StepsTyped, DeviceTyped, Process
<1>26. InUse'
  BY <1>2, MobileSessionAssumption, NoneHeld, <1>4, <1>5, <1>6, <1>7, <1>8
     DEF InUse, Doomed, Full, StepsTyped, DeviceTyped, Process
<1>27. GivenUpBy'
  BY <1>2, MobileSessionAssumption, NoneHeld, <1>4, <1>5, <1>6, <1>7, <1>8
     DEF GivenUpBy, Doomed, Full, StepsTyped, DeviceTyped, Process
<1>28. Owned(a)'
  <2>1. Of(store, a)'
    BY <1>3, <1>4, <1>5, <1>6, <1>7, <1>8 DEF Owned, Of
  <2>2. \A q \in Process : Of(tok[q], a)'
    BY <1>3, <1>4, <1>5, <1>6, <1>7, <1>8, NoneHeld DEF Owned, Of, MemoryTyped, Process
  <2>3. \A v \in Work : pc'[v] \in Entered => bound' = a
    BY <1>3, <1>4, <1>5, <1>6, <1>7, <1>8, MobileSessionAssumption DEF Owned, Entered, StepsTyped, Process
  <2>4. pc'["ui"] \in Inside \/ (pc'["ui"] = "save" /\ goal' = "password")
          => shown' = a /\ bound' = a
    BY <1>2, <1>3, <1>4, <1>5, <1>6, <1>7, <1>8, MobileSessionAssumption DEF Owned, Inside, UiStands, StepsTyped, Process
  <2>5. lapses' = {} => bound' \in {Nil, a}
    BY <1>3, <1>4, <1>5, <1>6, <1>7, <1>8 DEF Owned
  <2>6. \A q \in Process : pc'[q] = "rebind" => bound' \in {Nil, a}
    BY <1>3, <1>4, <1>5, <1>6, <1>7, <1>8 DEF Owned, StepsTyped
  <2> QED  BY <2>1, <2>2, <2>3, <2>4, <2>5, <2>6 DEF Owned
<1>29. WipeDue'
  BY <1>2, <1>4, <1>5, <1>6, <1>7, <1>8, <1>18, <1>19
     DEF WipeDue, Empty, StepsTyped, Process, Inside
<1>30. TokensCurrent'
  BY <1>2, MobileSessionAssumption, RemainingApart, <1>4, <1>5, <1>6, <1>7, <1>8, <1>18, <1>19
     DEF TokensCurrent, Behind, StepsTyped, MemoryTyped, Process
<1>31. GivenUpEnded'
  BY <1>2, MobileSessionAssumption, <1>4, <1>5, <1>6, <1>7, <1>8, <1>18, <1>19
     DEF GivenUpEnded, Doomed, StepsTyped, Process
<1> QED
  BY <1>21, <1>22, <1>23, <1>24, <1>25, <1>26, <1>27, <1>28, <1>29, <1>30, <1>31 DEF StoreStands

LEMMA SessReadStored ==
    ASSUME SessInv, Held', ReadStored PROVE SessInv'
<1> SUFFICES ASSUME "overlap" \notin lapses'
             PROVE  /\ Quiet' /\ RowsOwned' /\ StoreStands' /\ \E a \in Account \cup {Nil} : Owned(a)'
                    /\ WipeDue' /\ TokensCurrent' /\ GivenUpEnded'
  BY DEF SessInv, Apart, WipeDue, TokensCurrent, GivenUpEnded
<1> USE DEF SessInv, Held, TypeOK, ReadStored, BeginClear, Goto, Hold, UiRest, server, secure,
       sqlite, history
<1>1. "overlap" \notin lapses
  OBVIOUS
<1>2. Quiet /\ RowsOwned /\ Clearing /\ Saving /\ Marked /\ InUse /\ GivenUpBy
  BY <1>1 DEF Apart, StoreStands
<1>3. PICK a \in Account \cup {Nil} : Owned(a)
  BY <1>1 DEF Apart
<1>4. /\ pc["flight"] = "idle" /\ \A w \in Work : pc[w] = "idle"
      /\ tok["flight"] = None /\ \A w \in Work : tok[w] = None /\ carry[w] = {}
  BY <1>2, AtRest
<1>5. pc["ui"] = "read" /\ tok["ui"] = None /\ ~ marker
  BY <1>2 DEF Marked, StepsHold, StepHolds, Fits, Holding, Process
<1>6. store \in Credentials
  BY DEF DeviceTyped
<1>7. \/ /\ store = None /\ pc' = [pc EXCEPT !["ui"] = "signedout"] /\ UNCHANGED <<tok, left>>
      \/ /\ ~ Full(store) /\ pc' = [pc EXCEPT !["ui"] = "clear"]
         /\ tok' = [tok EXCEPT !["ui"] = None] /\ left' = [left EXCEPT !["ui"] = Item]
      \/ /\ Full(store) /\ pc' = [pc EXCEPT !["ui"] = "me"] /\ tok' = [tok EXCEPT !["ui"] = store]
         /\ UNCHANGED left
  BY <1>6, FullIs DEF Full, None
<1>8. UNCHANGED <<pairs, store, marker, data, edits, bound, carry, shown, goal, accepting, lapses>>
  OBVIOUS
<1>18. UNCHANGED <<pairs, revoked, ended>>
  OBVIOUS
<1>19. /\ \A b : SessionsOf(b)' = SessionsOf(b)
       /\ \A m : Current(m)' <=> Current(m)
  BY <1>18, SameTokens
<1> HIDE DEF ReadStored
<1>21. Quiet'
  BY <1>2, MobileSessionAssumption, <1>4, <1>5, <1>6, <1>7, <1>8 DEF Quiet, StepsTyped, Process
<1>22. RowsOwned'
  BY <1>2, <1>3, MobileSessionAssumption, <1>4, <1>5, <1>6, <1>7, <1>8
     DEF RowsOwned, Quiet, Owned, StepsTyped, MemoryTyped, Process, Entered
<1>23. Clearing'
  <2>1. \A q \in Process : pc'[q] = "clear" => q = "ui" /\ left'[q] = Item
    BY <1>4, <1>5, <1>7, MobileSessionAssumption DEF StepsTyped, MemoryTyped, Process
  <2>2. \A w \in Work : pc'[w] # "clear"
    BY <2>1, MobileSessionAssumption DEF Process
  <2> QED  BY <2>1, <2>2, RemainingApart DEF Clearing
<1>24. Saving'
  BY <1>2, MobileSessionAssumption, NoneHeld, RemainingApart, <1>4, <1>5, <1>6, <1>7, <1>8
     DEF Saving, StepsTyped, MemoryTyped, DeviceTyped, Process, Credentials
<1>25. Marked'
  BY <1>2, MobileSessionAssumption, NoneHeld, <1>4, <1>5, <1>6, <1>7, <1>8
     DEF Marked, StepsTyped, DeviceTyped, Process
<1>26. InUse'
  BY <1>2, MobileSessionAssumption, NoneHeld, <1>4, <1>5, <1>6, <1>7, <1>8
     DEF InUse, Doomed, Full, StepsTyped, DeviceTyped, Process
<1>27. GivenUpBy'
  BY <1>2, MobileSessionAssumption, NoneHeld, <1>4, <1>5, <1>6, <1>7, <1>8
     DEF GivenUpBy, Doomed, Full, StepsTyped, DeviceTyped, Process
<1>28. Owned(a)'
  <2>1. Of(store, a)'
    BY <1>3, <1>4, <1>5, <1>6, <1>7, <1>8 DEF Owned, Of
  <2>2. \A q \in Process : Of(tok[q], a)'
    BY <1>3, <1>4, <1>5, <1>6, <1>7, <1>8, NoneHeld DEF Owned, Of, MemoryTyped, Process
  <2>3. \A v \in Work : pc'[v] \in Entered => bound' = a
    BY <1>3, <1>4, <1>5, <1>6, <1>7, <1>8, MobileSessionAssumption DEF Owned, Entered, StepsTyped, Process
  <2>4. pc'["ui"] \in Inside \/ (pc'["ui"] = "save" /\ goal' = "password")
          => shown' = a /\ bound' = a
    BY <1>2, <1>3, <1>4, <1>5, <1>6, <1>7, <1>8, MobileSessionAssumption DEF Owned, Inside, UiStands, StepsTyped, Process
  <2>5. lapses' = {} => bound' \in {Nil, a}
    BY <1>3, <1>4, <1>5, <1>6, <1>7, <1>8 DEF Owned
  <2>6. \A q \in Process : pc'[q] = "rebind" => bound' \in {Nil, a}
    BY <1>3, <1>4, <1>5, <1>6, <1>7, <1>8 DEF Owned, StepsTyped
  <2> QED  BY <2>1, <2>2, <2>3, <2>4, <2>5, <2>6 DEF Owned
<1>29. WipeDue'
  <2>1. \A q \in Process : pc[q] # "clear"
    BY <1>4, <1>5 DEF Process
  <2>2. store.user # Nil \/ (data = {} /\ edits = {} /\ bound = Nil)
    \/ lapses \cap {"unmarked", "overlap"} # {}
    BY <1>5, <2>1 DEF WipeDue, Empty
  <2>3. \A w \in Work : pc'[w] = "idle"
    BY <1>4, <1>5, <1>7, MobileSessionAssumption DEF StepsTyped, Process
  <2>4. pc'["ui"] \in {"signedout", "clear"} \/ store.user # Nil
    BY <1>7 DEF Full, StepsTyped, Process
  <2> QED  BY <1>8, <2>2, <2>3, <2>4 DEF WipeDue, Empty
<1>30. TokensCurrent'
  BY <1>2, MobileSessionAssumption, RemainingApart, <1>4, <1>5, <1>6, <1>7, <1>8, <1>18, <1>19
     DEF TokensCurrent, Behind, StepsTyped, MemoryTyped, Process
<1>31. GivenUpEnded'
  <2>1. \A q \in Process : pc[q] # "clear"
    BY <1>4, <1>5 DEF Process
  <2>2. CASE pc' = [pc EXCEPT !["ui"] = "signedout"] /\ store = None
    <3>1. bound = Nil \/ lapses # {}
      BY <1>5, <2>1, <2>2, NoneHeld DEF WipeDue, Empty
    <3> QED  BY <1>8, <3>1 DEF GivenUpEnded
  <2>3. CASE pc' = [pc EXCEPT !["ui"] = "clear"] /\ ~ Full(store)
    <3>1. Doomed /\ pc'["ui"] = "clear"
      BY <2>3 DEF Doomed, StepsTyped, Process
    <3> QED  BY <1>5, <1>8, <1>18, <1>19, <3>1 DEF GivenUpEnded
  <2>4. CASE pc' = [pc EXCEPT !["ui"] = "me"] /\ Full(store)
    <3>1. ~ Doomed'
      BY <1>5, <1>8, <2>1, <2>4 DEF Doomed, Full, StepsTyped
    <3> QED  BY <3>1 DEF GivenUpEnded
  <2> QED  BY <1>7, <2>2, <2>3, <2>4
<1> QED
  BY <1>21, <1>22, <1>23, <1>24, <1>25, <1>26, <1>27, <1>28, <1>29, <1>30, <1>31 DEF StoreStands

LEMMA SessMe ==
    ASSUME SessInv, Held', Me PROVE SessInv'
<1> SUFFICES ASSUME "overlap" \notin lapses'
             PROVE  /\ Quiet' /\ RowsOwned' /\ StoreStands' /\ \E a \in Account \cup {Nil} : Owned(a)'
                    /\ WipeDue' /\ TokensCurrent' /\ GivenUpEnded'
  BY DEF SessInv, Apart, WipeDue, TokensCurrent, GivenUpEnded
<1> USE DEF SessInv, Held, TypeOK, Me, BeginSave, Goto, Hold, UiRest, server, secure, sqlite, history
<1>1. "overlap" \notin lapses
  OBVIOUS
<1>2. Quiet /\ RowsOwned /\ Clearing /\ Saving /\ Marked /\ InUse /\ GivenUpBy
  BY <1>1 DEF Apart, StoreStands
<1>3. PICK a \in Account \cup {Nil} : Owned(a)
  BY <1>1 DEF Apart
<1>4. /\ pc["flight"] = "idle" /\ \A w \in Work : pc[w] = "idle"
      /\ tok["flight"] = None /\ \A w \in Work : tok[w] = None /\ carry[w] = {}
  BY <1>2, AtRest
<1>5. pc["ui"] = "me" /\ ~ Doomed /\ goal = Nil
  BY <1>2 DEF InUse, UiStands
<1>6. /\ tok["ui"].access # 0 /\ tok["ui"].access \in 1..Len(pairs)
      /\ pairs[tok["ui"].access].acct = a
  <2>1. Full(tok["ui"]) /\ tok["ui"].access <= Len(pairs) /\ tok["ui"].access \in Token
    BY DEF StepsHold, StepHolds, Fits, TokensIssued, MemoryTyped, Credentials, Process
  <2> QED  BY <1>3, <2>1, PairsTyped, MobileSessionAssumption DEF Full, Owned, Of, Token, Process
<1>7. \/ /\ pc' = [pc EXCEPT !["ui"] = "save"] /\ left' = [left EXCEPT !["ui"] = Item]
         /\ tok' = [tok EXCEPT !["ui"] = [tok["ui"] EXCEPT !.user = a]]
      \/ pc' = [pc EXCEPT !["ui"] = "refresh"] /\ UNCHANGED <<tok, left>>
      \/ pc' = [pc EXCEPT !["ui"] = "bind"] /\ UNCHANGED <<tok, left>>
  BY <1>6
<1>8. UNCHANGED <<pairs, store, marker, data, edits, bound, carry, shown, goal, accepting, lapses>>
  OBVIOUS
<1>18. UNCHANGED <<pairs, revoked, ended>>
  OBVIOUS
<1>19. /\ \A b : SessionsOf(b)' = SessionsOf(b)
       /\ \A m : Current(m)' <=> Current(m)
  BY <1>18, SameTokens
<1> HIDE DEF Me
<1>21. Quiet'
  BY <1>2, MobileSessionAssumption, <1>4, <1>5, <1>6, <1>7, <1>8 DEF Quiet, StepsTyped, Process
<1>22. RowsOwned'
  BY <1>2, <1>3, MobileSessionAssumption, <1>4, <1>5, <1>6, <1>7, <1>8
     DEF RowsOwned, Quiet, Owned, StepsTyped, MemoryTyped, Process, Entered
<1>23. Clearing'
  BY <1>2, MobileSessionAssumption, NoneHeld, RemainingApart, <1>4, <1>5, <1>6, <1>7, <1>8
     DEF Clearing, StepsTyped, MemoryTyped, DeviceTyped, Process, Credentials
<1>24. Saving'
  <2>1. ~ marker
    BY <1>5 DEF Doomed
  <2>2. pc'["flight"] = "idle"
    BY <1>4, <1>7 DEF StepsTyped, Process
  <2>3. pc'["ui"] = "save" => left'["ui"] = Item
    BY <1>7 DEF StepsTyped, MemoryTyped, Process
  <2> QED  BY <1>8, <2>1, <2>2, <2>3, RemainingApart DEF Saving
<1>25. Marked'
  BY <1>2, MobileSessionAssumption, NoneHeld, <1>4, <1>5, <1>6, <1>7, <1>8
     DEF Marked, StepsTyped, DeviceTyped, Process
<1>26. InUse'
  BY <1>2, MobileSessionAssumption, NoneHeld, <1>4, <1>5, <1>6, <1>7, <1>8
     DEF InUse, Doomed, Full, StepsTyped, DeviceTyped, Process
<1>27. GivenUpBy'
  BY <1>2, MobileSessionAssumption, NoneHeld, <1>4, <1>5, <1>6, <1>7, <1>8
     DEF GivenUpBy, Doomed, Full, StepsTyped, DeviceTyped, Process
<1>28. Owned(a)'
  BY <1>2, <1>3, MobileSessionAssumption, NoneHeld, <1>4, <1>5, <1>6, <1>7, <1>8
     DEF Owned, Of, StepsTyped, MemoryTyped, DeviceTyped, Process, Credentials, Entered, Inside
<1>29. WipeDue'
  BY <1>2, <1>4, <1>5, <1>6, <1>7, <1>8, <1>18, <1>19
     DEF WipeDue, Empty, StepsTyped, Process, Inside
<1>30. TokensCurrent'
  <2>2. Behind("ui") \/ Behind("flight") => Behind("ui")' \/ Behind("flight")'
    BY <1>4, <1>5, <1>7, RemainingApart DEF Behind, StepsTyped, MemoryTyped, Process
  <2>3. \A q \in {"ui", "flight"} : pc'[q] \in {"me", "refresh", "save"} =>
          pc[q] \in {"me", "refresh", "save"} /\ tok'[q].refresh = tok[q].refresh
    BY <1>4, <1>5, <1>7, MobileSessionAssumption DEF StepsTyped, Credentials, MemoryTyped, Process
  <2> QED  BY <1>8, <1>18, <1>19, <2>2, <2>3 DEF TokensCurrent
<1>31. GivenUpEnded'
  BY <1>2, MobileSessionAssumption, <1>4, <1>5, <1>6, <1>7, <1>8, <1>18, <1>19
     DEF GivenUpEnded, Doomed, StepsTyped, Process
<1> QED
  BY <1>21, <1>22, <1>23, <1>24, <1>25, <1>26, <1>27, <1>28, <1>29, <1>30, <1>31 DEF StoreStands

LEMMA SessRestoreRefresh ==
    ASSUME SessInv, Held', RestoreRefresh PROVE SessInv'
<1> SUFFICES ASSUME "overlap" \notin lapses'
             PROVE  /\ Quiet' /\ RowsOwned' /\ StoreStands' /\ \E a \in Account \cup {Nil} : Owned(a)'
                    /\ WipeDue' /\ TokensCurrent' /\ GivenUpEnded'
  BY DEF SessInv, Apart, WipeDue, TokensCurrent, GivenUpEnded
<1> USE DEF SessInv, Held, TypeOK, RestoreRefresh, BeginSave, BeginClear, Goto, Hold, NextIssued,
       Refuse, ServerUnchanged, LoseRotation, LoseAnswer, UiRest, secure, sqlite
<1>1. "overlap" \notin lapses
  OBVIOUS
<1>2. Quiet /\ RowsOwned /\ Clearing /\ Saving /\ Marked /\ InUse /\ GivenUpBy
  BY <1>1 DEF Apart, StoreStands
<1>3. PICK a \in Account \cup {Nil} : Owned(a)
  BY <1>1 DEF Apart
<1>4. /\ pc["flight"] = "idle" /\ \A w \in Work : pc[w] = "idle"
      /\ tok["flight"] = None /\ \A w \in Work : tok[w] = None /\ carry[w] = {}
  BY <1>2, AtRest
<1>16. PICK n, c : n = tok["ui"].refresh /\ c = NextIssued(pairs[n].acct)
  OBVIOUS
<1>5. pc["ui"] = "refresh" /\ ~ Doomed /\ goal = Nil /\ Full(tok["ui"])
  BY <1>2 DEF InUse, UiStands, StepsHold, StepHolds, Fits, Process
<1>6. /\ n \in 1..Len(pairs) /\ n # 0 /\ tok["ui"] \in Credentials /\ pairs[n].acct = a
      /\ Rotate(n) => Grown(pairs[n]) /\ c.access = Len(pairs) + 1 /\ c.refresh = Len(pairs) + 1 /\ c.user = a
  <2>1. Held /\ pc["ui"] = "refresh" /\ "ui" \in Process
    BY DEF Process
  <2>2. n \in 1..Len(pairs) /\ n # 0 /\ tok["ui"] \in Credentials
    BY <1>16, <2>1, RefreshIs
  <2>3. pairs[n].acct = a
    BY <1>3, <1>16, <2>1, <2>2 DEF Owned, Of
  <2> QED  BY <1>16, <2>1, <2>2, <2>3, RefreshIs
<1>7. \/ /\ Rotate(n) /\ pc' = [pc EXCEPT !["ui"] = "save"] /\ tok' = [tok EXCEPT !["ui"] = c]
         /\ left' = [left EXCEPT !["ui"] = Item]
      \/ /\ pairs' = pairs /\ pc' = [pc EXCEPT !["ui"] = "clear"]
         /\ tok' = [tok EXCEPT !["ui"] = None] /\ left' = [left EXCEPT !["ui"] = Item]
      \/ /\ Rotate(n) \/ pairs' = pairs
         /\ pc' = [pc EXCEPT !["ui"] = "bind"] /\ UNCHANGED <<tok, left>>
  BY <1>16
<1>8. UNCHANGED <<store, marker, data, edits, bound, carry, shown, goal, accepting>> /\ lapses \subseteq lapses'
  OBVIOUS
<1>17. \/ Rotate(n) /\ ended' = ended /\ revoked' = revoked
       \/ Refuse(n) /\ ended' = ended
       \/ pc'["ui"] = "bind" /\ UNCHANGED <<pairs, ended, revoked>>
  BY <1>16 DEF Rotate, StepsTyped, Process
<1>15. c.refresh = Len(pairs) + 1
  BY <1>16 DEF NextIssued, Issued
<1>14. /\ pc'["ui"] = "save" => Rotate(n) /\ left'["ui"] = Item /\ tok'["ui"] = c
       /\ pc'["ui"] = "clear" => Refuse(n)
       /\ pc'["ui"] = "bind" => ("unsaved" \in lapses' \/ UNCHANGED <<pairs, revoked, ended>>)
       /\ pc'["ui"] \in {"save", "clear", "bind"}
  BY <1>16 DEF StepsTyped, MemoryTyped, Process
<1> HIDE DEF RestoreRefresh
<1>9. /\ \A m \in 1..Len(pairs) : pairs'[m] = pairs[m]
      /\ pc'["ui"] = "save" => tok'["ui"] = c /\ Of(c, a)'
  <2>1. \A m \in 1..Len(pairs) : pairs'[m] = pairs[m]
    BY <1>6, <1>7 DEF Grown
  <2>2. CASE pc'["ui"] = "save"
    <3>1. Rotate(n) /\ tok'["ui"] = c
      BY <1>7, <2>2 DEF StepsTyped, MemoryTyped, Process
    <3>2. pairs'[Len(pairs) + 1].acct = a
      BY <1>6, <3>1 DEF Grown
    <3> QED  BY <1>6, <2>1, <3>1, <3>2 DEF Of
  <2> QED  BY <2>1, <2>2
<1>21. Quiet'
  BY <1>2, MobileSessionAssumption, <1>4, <1>5, <1>7, <1>8 DEF Quiet, StepsTyped, Process
<1>22. RowsOwned'
  BY <1>2, <1>3, MobileSessionAssumption, <1>4, <1>5, <1>7, <1>8
     DEF RowsOwned, Quiet, Owned, StepsTyped, MemoryTyped, Process, Entered
<1>23. Clearing'
  <2>1. \A q \in Process : pc'[q] = "clear" => q = "ui" /\ left'[q] = Item
    BY <1>4, <1>5, <1>7, MobileSessionAssumption DEF StepsTyped, MemoryTyped, Process
  <2>2. \A w \in Work : pc'[w] # "clear"
    BY <2>1, MobileSessionAssumption DEF Process
  <2> QED  BY <2>1, <2>2, RemainingApart DEF Clearing
<1>24. Saving'
  <2>1. ~ marker
    BY <1>5 DEF Doomed
  <2>2. pc'["flight"] = "idle"
    BY <1>4, <1>7 DEF StepsTyped, Process
  <2>3. pc'["ui"] = "save" => left'["ui"] = Item
    BY <1>7 DEF StepsTyped, MemoryTyped, Process
  <2> QED  BY <1>8, <2>1, <2>2, <2>3, RemainingApart DEF Saving
<1>25. Marked'
  BY <1>2, MobileSessionAssumption, NoneHeld, <1>4, <1>5, <1>7, <1>8
     DEF Marked, StepsTyped, DeviceTyped, Process
<1>26. InUse'
  BY <1>2, MobileSessionAssumption, NoneHeld, <1>4, <1>5, <1>7, <1>8
     DEF InUse, Doomed, Full, StepsTyped, DeviceTyped, Process
<1>27. GivenUpBy'
  BY <1>2, MobileSessionAssumption, NoneHeld, <1>4, <1>5, <1>7, <1>8
     DEF GivenUpBy, Doomed, Full, StepsTyped, DeviceTyped, Process
<1>28. Owned(a)'
  <2>1. Of(store, a)' /\ \A q \in Process : Of(tok[q], a)'
    <3>1. \A e \in Credentials : e.access <= Len(pairs) /\ e.refresh <= Len(pairs) /\ Of(e, a) => Of(e, a)'
      BY <1>9, PairsTyped, MobileSessionAssumption DEF Of, Credentials, Token
    <3>2. Of(store, a)'
      BY <1>3, <1>8, <3>1 DEF Owned, DeviceTyped, StepsHold, TokensIssued
    <3>3. Of(None, a)'
      BY NoneHeld DEF Of
    <3>4. Of(tok["ui"], a)' \/ tok'["ui"] = tok["ui"] \/ tok'["ui"] = None
      BY <1>7, <1>9 DEF MemoryTyped, StepsTyped, Process
    <3>5. \A q \in Process : q # "ui" => tok'[q] = tok[q]
      BY <1>7 DEF MemoryTyped
    <3> QED  BY <1>3, <3>1, <3>2, <3>3, <3>4, <3>5 DEF Owned, MemoryTyped, StepsHold, TokensIssued, Process
  <2>3. \A v \in Work : pc'[v] \in Entered => bound' = a
    BY <1>3, <1>4, <1>5, <1>6, <1>7, <1>8, <1>9, MobileSessionAssumption DEF Owned, Entered, StepsTyped, Process
  <2>4. pc'["ui"] \in Inside \/ (pc'["ui"] = "save" /\ goal' = "password")
          => shown' = a /\ bound' = a
    BY <1>2, <1>3, <1>4, <1>5, <1>6, <1>7, <1>8, <1>9, MobileSessionAssumption DEF Owned, Inside, UiStands, StepsTyped, Process
  <2>5. lapses' = {} => bound' \in {Nil, a}
    BY <1>3, <1>4, <1>5, <1>6, <1>7, <1>8, <1>9 DEF Owned
  <2>6. \A q \in Process : pc'[q] = "rebind" => bound' \in {Nil, a}
    BY <1>3, <1>4, <1>5, <1>6, <1>7, <1>8, <1>9 DEF Owned, StepsTyped
  <2> QED  BY <2>1, <2>3, <2>4, <2>5, <2>6 DEF Owned
<1>29. WipeDue'
  BY <1>2, <1>4, <1>5, <1>7, <1>8 DEF WipeDue, Empty, StepsTyped, Process, Inside
<1>30. TokensCurrent'
  <2> SUFFICES ASSUME lapses' \cap {"unsaved", "overlap"} = {} PROVE TokensCurrent'
    BY DEF TokensCurrent
  <2>1. Current(n) /\ Current(store.refresh) /\ revoked \subseteq ended
    BY <1>4, <1>5, <1>8, <1>16 DEF TokensCurrent, Behind
  <2>2. pc'["flight"] = "idle"
    BY <1>4, <1>7 DEF StepsTyped, Process
  <2>3. CASE pc'["ui"] = "save"
    <3>1. Current(tok["ui"].refresh)' /\ Behind("ui")' /\ revoked' \subseteq ended'
      BY <1>6, <1>14, <1>15, <2>1, <2>3, AfterRefresh DEF Behind
    <3> QED  BY <2>2, <3>1 DEF TokensCurrent
  <2>4. CASE pc'["ui"] = "clear"
    BY <1>6, <1>8, <1>14, <1>15, <2>1, <2>2, <2>4, AfterRefresh DEF TokensCurrent
  <2>5. CASE pc'["ui"] = "bind"
    <3>1. UNCHANGED <<pairs, revoked, ended>>
      BY <1>14, <2>5
    <3>2. \A m : Current(m)' <=> Current(m)
      BY <3>1, SameTokens
    <3> QED  BY <1>8, <2>1, <2>2, <2>5, <3>1, <3>2 DEF TokensCurrent
  <2> QED  BY <1>14, <2>3, <2>4, <2>5
<1>31. GivenUpEnded'
  <2>1. CASE pc'["ui"] = "clear" /\ lapses = {}
    <3>1. Current(n) /\ revoked \subseteq ended
      BY <1>4, <1>5, <1>16, <2>1 DEF TokensCurrent, Behind
    <3>2. SessionsOf(a)' \subseteq ended'
      BY <1>6, <1>14, <1>15, <2>1, <3>1, AfterRefresh
    <3>3. bound' \in {Nil, a}
      BY <1>3, <1>8, <2>1 DEF Owned
    <3> QED  BY <3>2, <3>3 DEF GivenUpEnded
  <2>2. CASE pc'["ui"] # "clear"
    <3>1. ~ Doomed'
      BY <1>4, <1>5, <1>7, <1>8, <2>2 DEF Doomed, StepsTyped, Process
    <3> QED  BY <3>1 DEF GivenUpEnded
  <2> QED  BY <1>8, <2>1, <2>2 DEF GivenUpEnded
<1> QED
  BY <1>21, <1>22, <1>23, <1>24, <1>25, <1>26, <1>27, <1>28, <1>29, <1>30, <1>31 DEF StoreStands

LEMMA SessSaved ==
    ASSUME SessInv, Held', Saved PROVE SessInv'
<1> SUFFICES ASSUME "overlap" \notin lapses'
             PROVE  /\ Quiet' /\ RowsOwned' /\ StoreStands' /\ \E a \in Account \cup {Nil} : Owned(a)'
                    /\ WipeDue' /\ TokensCurrent' /\ GivenUpEnded'
  BY DEF SessInv, Apart, WipeDue, TokensCurrent, GivenUpEnded
<1> USE DEF SessInv, Held, TypeOK, Saved, Goto, Hold, UiRest, server, secure, sqlite, history
<1>1. "overlap" \notin lapses
  OBVIOUS
<1>2. Quiet /\ RowsOwned /\ Clearing /\ Saving /\ Marked /\ InUse /\ GivenUpBy
  BY <1>1 DEF Apart, StoreStands
<1>3. PICK a \in Account \cup {Nil} : Owned(a)
  BY <1>1 DEF Apart
<1>4. /\ pc["flight"] = "idle" /\ \A w \in Work : pc[w] = "idle"
      /\ tok["flight"] = None /\ \A w \in Work : tok[w] = None /\ carry[w] = {}
  BY <1>2, AtRest
<1>5. pc["ui"] = "save" /\ left["ui"] = <<>> /\ ~ Doomed
  <2>1. pc["ui"] = "save" /\ ~ marker /\ store.access # 0 /\ store.refresh # 0 /\ store.user # Nil
    BY <1>2, RemainingApart DEF Saving
  <2>2. \A q \in Process : pc[q] # "clear"
    BY <1>4, <2>1 DEF Process
  <2>3. left["ui"] = <<>>
    OBVIOUS
  <2> QED  BY <2>1, <2>2, <2>3 DEF Doomed, Full
<1>7. \/ goal = "password" /\ pc' = [pc EXCEPT !["ui"] = "in"] /\ tok' = [tok EXCEPT !["ui"] = None]
      \/ goal # "password" /\ pc' = [pc EXCEPT !["ui"] = "bind"] /\ UNCHANGED <<tok, goal>>
  OBVIOUS
<1>9. goal' = goal \/ goal' = Nil
  OBVIOUS
<1>8. UNCHANGED <<pairs, store, marker, data, edits, bound, carry, shown, lapses>>
  OBVIOUS
<1>10. left' = left
  OBVIOUS
<1>18. UNCHANGED <<pairs, revoked, ended>>
  OBVIOUS
<1>19. /\ \A b : SessionsOf(b)' = SessionsOf(b)
       /\ \A m : Current(m)' <=> Current(m)
  BY <1>18, SameTokens
<1> HIDE DEF Saved
<1>21. Quiet'
  BY <1>2, MobileSessionAssumption, <1>4, <1>5, <1>7, <1>8, <1>9, <1>10
     DEF Quiet, StepsTyped, Process
<1>22. RowsOwned'
  BY <1>2, <1>3, MobileSessionAssumption, <1>4, <1>5, <1>7, <1>8, <1>9, <1>10
     DEF RowsOwned, Quiet, Owned, StepsTyped, MemoryTyped, Process, Entered
<1>23. Clearing'
  <2>1. \A q \in Process : pc'[q] # "clear"
    BY <1>4, <1>5, <1>7 DEF StepsTyped, Process
  <2> QED  BY <2>1 DEF Clearing, Process
<1>24. Saving'
  BY <1>2, MobileSessionAssumption, NoneHeld, RemainingApart, <1>4, <1>5, <1>7, <1>8, <1>9,
         <1>10
     DEF Saving, StepsTyped, MemoryTyped, DeviceTyped, Process, Credentials
<1>25. Marked'
  BY <1>2, MobileSessionAssumption, NoneHeld, <1>4, <1>5, <1>7, <1>8, <1>9, <1>10
     DEF Marked, StepsTyped, DeviceTyped, Process
<1>26. InUse'
  BY <1>2, MobileSessionAssumption, NoneHeld, <1>4, <1>5, <1>7, <1>8, <1>9, <1>10
     DEF InUse, Doomed, Full, StepsTyped, DeviceTyped, Process
<1>27. GivenUpBy'
  BY <1>2, MobileSessionAssumption, NoneHeld, <1>4, <1>5, <1>7, <1>8, <1>9, <1>10
     DEF GivenUpBy, Doomed, Full, StepsTyped, DeviceTyped, Process
<1>28. Owned(a)'
  <2>1. Of(store, a)'
    BY <1>3, <1>4, <1>5, <1>7, <1>8, <1>9 DEF Owned, Of
  <2>2. \A q \in Process : Of(tok[q], a)'
    BY <1>3, <1>4, <1>5, <1>7, <1>8, <1>9, NoneHeld DEF Owned, Of, MemoryTyped, Process
  <2>3. \A v \in Work : pc'[v] \in Entered => bound' = a
    BY <1>3, <1>4, <1>5, <1>7, <1>8, <1>9, MobileSessionAssumption DEF Owned, Entered, StepsTyped, Process
  <2>4. pc'["ui"] \in Inside \/ (pc'["ui"] = "save" /\ goal' = "password")
          => shown' = a /\ bound' = a
    BY <1>2, <1>3, <1>4, <1>5, <1>7, <1>8, <1>9, MobileSessionAssumption DEF Owned, Inside, UiStands, StepsTyped, Process
  <2>5. lapses' = {} => bound' \in {Nil, a}
    BY <1>3, <1>4, <1>5, <1>7, <1>8, <1>9 DEF Owned
  <2>6. \A q \in Process : pc'[q] = "rebind" => bound' \in {Nil, a}
    BY <1>3, <1>4, <1>5, <1>7, <1>8, <1>9 DEF Owned, StepsTyped
  <2> QED  BY <2>1, <2>2, <2>3, <2>4, <2>5, <2>6 DEF Owned
<1>29. WipeDue'
  BY <1>5, <1>8 DEF WipeDue, Doomed, Full
<1>30. TokensCurrent'
  <2>2. Behind("ui") \/ Behind("flight") => Behind("ui")' \/ Behind("flight")'
    BY <1>4, <1>5, <1>7, <1>10, RemainingApart DEF Behind, StepsTyped, MemoryTyped, Process
  <2>3. \A q \in {"ui", "flight"} : pc'[q] \in {"me", "refresh", "save"} =>
          pc[q] \in {"me", "refresh", "save"} /\ tok'[q].refresh = tok[q].refresh
    BY <1>4, <1>5, <1>7, <1>10, RemainingApart, MobileSessionAssumption DEF StepsTyped, MemoryTyped, Process
  <2> QED  BY <1>8, <1>18, <1>19, <2>2, <2>3 DEF TokensCurrent
<1>31. GivenUpEnded'
  BY <1>2, MobileSessionAssumption, <1>4, <1>5, <1>7, <1>8, <1>9, <1>10, <1>18, <1>19
     DEF GivenUpEnded, Doomed, StepsTyped, Process
<1> QED
  BY <1>21, <1>22, <1>23, <1>24, <1>25, <1>26, <1>27, <1>28, <1>29, <1>30, <1>31 DEF StoreStands

LEMMA SessDrained ==
    ASSUME SessInv, Held', Drained PROVE SessInv'
<1> SUFFICES ASSUME "overlap" \notin lapses'
             PROVE  /\ Quiet' /\ RowsOwned' /\ StoreStands' /\ \E a \in Account \cup {Nil} : Owned(a)'
                    /\ WipeDue' /\ TokensCurrent' /\ GivenUpEnded'
  BY DEF SessInv, Apart, WipeDue, TokensCurrent, GivenUpEnded
<1> USE DEF SessInv, Held, TypeOK, Drained, Working, Goto, UiRest, server, secure, sqlite, history
<1>1. "overlap" \notin lapses
  OBVIOUS
<1>2. Quiet /\ RowsOwned /\ Clearing /\ Saving /\ Marked /\ InUse /\ GivenUpBy
  BY <1>1 DEF Apart, StoreStands
<1>3. PICK a \in Account \cup {Nil} : Owned(a)
  BY <1>1 DEF Apart
<1>18. UNCHANGED <<pairs, revoked, ended>>
  OBVIOUS
<1>19. /\ \A b : SessionsOf(b)' = SessionsOf(b)
       /\ \A m : Current(m)' <=> Current(m)
  BY <1>18, SameTokens
<1>21. Quiet'
  BY <1>2, MobileSessionAssumption DEF Quiet, StepsTyped, Process
<1>22. RowsOwned'
  BY <1>2, <1>3, MobileSessionAssumption
     DEF RowsOwned, Quiet, Owned, StepsTyped, MemoryTyped, Process, Entered
<1>23. Clearing'
  BY <1>2, MobileSessionAssumption, NoneHeld, RemainingApart
     DEF Clearing, StepsTyped, MemoryTyped, DeviceTyped, Process, Credentials
<1>24. Saving'
  BY <1>2, MobileSessionAssumption, NoneHeld, RemainingApart
     DEF Saving, StepsTyped, MemoryTyped, DeviceTyped, Process, Credentials
<1>25. Marked'
  BY <1>2, MobileSessionAssumption, NoneHeld DEF Marked, StepsTyped, DeviceTyped, Process
<1>26. InUse'
  BY <1>2, MobileSessionAssumption, NoneHeld
     DEF InUse, Doomed, Full, StepsTyped, DeviceTyped, Process
<1>27. GivenUpBy'
  BY <1>2, MobileSessionAssumption, NoneHeld
     DEF GivenUpBy, Doomed, Full, StepsTyped, DeviceTyped, Process
<1>28. Owned(a)'
  BY <1>2, <1>3, MobileSessionAssumption, NoneHeld
     DEF Owned, Of, StepsTyped, MemoryTyped, DeviceTyped, Process, Credentials, Entered, Inside
<1>29. WipeDue'
  BY <1>2, <1>18, <1>19 DEF WipeDue, Empty, StepsTyped, Process, Inside
<1>30. TokensCurrent'
  BY <1>2, MobileSessionAssumption, RemainingApart, <1>18, <1>19
     DEF TokensCurrent, Behind, StepsTyped, MemoryTyped, Process
<1>31. GivenUpEnded'
  BY <1>2, MobileSessionAssumption, <1>18, <1>19 DEF GivenUpEnded, Doomed, StepsTyped, Process
<1> QED
  BY <1>21, <1>22, <1>23, <1>24, <1>25, <1>26, <1>27, <1>28, <1>29, <1>30, <1>31 DEF StoreStands

LEMMA SessRevokeStored ==
    ASSUME SessInv, Held', RevokeStored PROVE SessInv'
<1> SUFFICES ASSUME "overlap" \notin lapses'
             PROVE  /\ Quiet' /\ RowsOwned' /\ StoreStands' /\ \E a \in Account \cup {Nil} : Owned(a)'
                    /\ WipeDue' /\ TokensCurrent' /\ GivenUpEnded'
  BY DEF SessInv, Apart, WipeDue, TokensCurrent, GivenUpEnded
<1> USE DEF SessInv, Held, TypeOK, RevokeStored, EndSessions, BeginClear, Goto, Hold, UiRest, secure,
       sqlite
<1>1. "overlap" \notin lapses
  OBVIOUS
<1>2. Quiet /\ RowsOwned /\ Clearing /\ Saving /\ Marked /\ InUse /\ GivenUpBy
  BY <1>1 DEF Apart, StoreStands
<1>3. PICK a \in Account \cup {Nil} : Owned(a)
  BY <1>1 DEF Apart
<1>4. /\ pc["flight"] = "idle" /\ \A w \in Work : pc[w] = "idle"
      /\ tok["flight"] = None /\ \A w \in Work : tok[w] = None /\ carry[w] = {}
  BY <1>2, AtRest
<1>5. pc["ui"] = "revoke"
  OBVIOUS
<1>7. /\ pc' = [pc EXCEPT !["ui"] = "clear"] /\ tok' = [tok EXCEPT !["ui"] = None]
      /\ left' = [left EXCEPT !["ui"] = Item]
  OBVIOUS
<1>8. UNCHANGED <<pairs, store, marker, data, edits, bound, carry, shown, goal, accepting, lapses>>
  OBVIOUS
<1>18. /\ pairs' = pairs /\ ended \subseteq ended' /\ revoked' \subseteq revoked \cup ended'
       /\ store.refresh # 0 => pairs[store.refresh].sess \in ended'
  OBVIOUS
<1> HIDE DEF RevokeStored
<1>19. (\A b : SessionsOf(b)' = SessionsOf(b)) /\ \A m : Current(m) => Current(m)'
  BY <1>18, MoreEnded
<1>21. Quiet'
  BY <1>2, MobileSessionAssumption, <1>4, <1>5, <1>7, <1>8 DEF Quiet, StepsTyped, Process
<1>22. RowsOwned'
  BY <1>2, <1>3, MobileSessionAssumption, <1>4, <1>5, <1>7, <1>8
     DEF RowsOwned, Quiet, Owned, StepsTyped, MemoryTyped, Process, Entered
<1>23. Clearing'
  <2>1. \A q \in Process : pc'[q] = "clear" => q = "ui" /\ left'[q] = Item
    BY <1>4, <1>5, <1>7, MobileSessionAssumption DEF StepsTyped, MemoryTyped, Process
  <2>2. \A w \in Work : pc'[w] # "clear"
    BY <2>1, MobileSessionAssumption DEF Process
  <2> QED  BY <2>1, <2>2, RemainingApart DEF Clearing
<1>24. Saving'
  BY <1>2, MobileSessionAssumption, NoneHeld, RemainingApart, <1>4, <1>5, <1>7, <1>8
     DEF Saving, StepsTyped, MemoryTyped, DeviceTyped, Process, Credentials
<1>25. Marked'
  BY <1>2, MobileSessionAssumption, NoneHeld, <1>4, <1>5, <1>7, <1>8
     DEF Marked, StepsTyped, DeviceTyped, Process
<1>26. InUse'
  BY <1>2, MobileSessionAssumption, NoneHeld, <1>4, <1>5, <1>7, <1>8
     DEF InUse, Doomed, Full, StepsTyped, DeviceTyped, Process
<1>27. GivenUpBy'
  BY <1>2, MobileSessionAssumption, NoneHeld, <1>4, <1>5, <1>7, <1>8
     DEF GivenUpBy, Doomed, Full, StepsTyped, DeviceTyped, Process
<1>28. Owned(a)'
  <2>1. Of(store, a)'
    BY <1>3, <1>4, <1>5, <1>7, <1>8 DEF Owned, Of
  <2>2. \A q \in Process : Of(tok[q], a)'
    BY <1>3, <1>4, <1>5, <1>7, <1>8, NoneHeld DEF Owned, Of, MemoryTyped, Process
  <2>3. \A v \in Work : pc'[v] \in Entered => bound' = a
    BY <1>3, <1>4, <1>5, <1>7, <1>8, MobileSessionAssumption DEF Owned, Entered, StepsTyped, Process
  <2>4. pc'["ui"] \in Inside \/ (pc'["ui"] = "save" /\ goal' = "password")
          => shown' = a /\ bound' = a
    BY <1>2, <1>3, <1>4, <1>5, <1>7, <1>8, MobileSessionAssumption DEF Owned, Inside, UiStands, StepsTyped, Process
  <2>5. lapses' = {} => bound' \in {Nil, a}
    BY <1>3, <1>4, <1>5, <1>7, <1>8 DEF Owned
  <2>6. \A q \in Process : pc'[q] = "rebind" => bound' \in {Nil, a}
    BY <1>3, <1>4, <1>5, <1>7, <1>8 DEF Owned, StepsTyped
  <2> QED  BY <2>1, <2>2, <2>3, <2>4, <2>5, <2>6 DEF Owned
<1>29. WipeDue'
  BY <1>2, <1>4, <1>5, <1>7, <1>8 DEF WipeDue, Empty, StepsTyped, Process, Inside
<1>30. TokensCurrent'
  <2>2. Behind("ui") \/ Behind("flight") => Behind("ui")' \/ Behind("flight")'
    BY <1>4, <1>5, <1>7 DEF Behind, StepsTyped, MemoryTyped, Process
  <2>3. \A q \in {"ui", "flight"} : pc'[q] \in {"me", "refresh", "save"} =>
          pc[q] \in {"me", "refresh", "save"} /\ tok'[q].refresh = tok[q].refresh
    BY <1>4, <1>5, <1>7, MobileSessionAssumption DEF StepsTyped, MemoryTyped, Process
  <2> QED  BY <1>8, <1>18, <1>19, <2>2, <2>3 DEF TokensCurrent
<1>31. GivenUpEnded'
  <2> SUFFICES ASSUME lapses' = {}, bound' # Nil PROVE SessionsOf(bound)' \subseteq ended'
    BY DEF GivenUpEnded
  <2>1. lapses = {} /\ bound' = bound /\ bound = a
    BY <1>3, <1>8 DEF Owned
  <2>2. SessionsOf(bound)' = SessionsOf(bound)
    BY <1>8, <1>19
  <2>3. CASE store.refresh # 0
    <3>1. pairs[store.refresh].acct = a
      BY <1>3, <2>3 DEF Owned, Of
    <3>2. Current(store.refresh)
      BY <1>4, <1>5, <2>1 DEF TokensCurrent, Behind
    <3>3. SessionsOf(a) \subseteq ended \cup {pairs[store.refresh].sess}
      BY <2>3, <3>1, <3>2 DEF Current
    <3> QED  BY <1>18, <2>1, <2>2, <2>3, <3>3
  <2>4. CASE store.refresh = 0
    <3>1. Doomed
      BY <2>4 DEF Doomed, Full
    <3>2. SessionsOf(bound) \subseteq ended
      BY <1>5, <1>8, <2>1, <3>1 DEF GivenUpEnded
    <3> QED  BY <1>18, <2>2, <3>2
  <2> QED  BY <2>3, <2>4
<1> QED
  BY <1>21, <1>22, <1>23, <1>24, <1>25, <1>26, <1>27, <1>28, <1>29, <1>30, <1>31 DEF StoreStands

LEMMA SessRelogin ==
    ASSUME SessInv, Held', Relogin PROVE SessInv'
<1> SUFFICES ASSUME "overlap" \notin lapses'
             PROVE  /\ Quiet' /\ RowsOwned' /\ StoreStands' /\ \E a \in Account \cup {Nil} : Owned(a)'
                    /\ WipeDue' /\ TokensCurrent' /\ GivenUpEnded'
  BY DEF SessInv, Apart, WipeDue, TokensCurrent, GivenUpEnded
<1> USE DEF SessInv, Held, TypeOK, Relogin, BeginSave, BeginClear, Goto, Hold, NextIssued,
       ServerUnchanged, LoseAnswer, UiRest, secure, sqlite
<1>1. "overlap" \notin lapses
  OBVIOUS
<1>2. Quiet /\ RowsOwned /\ Clearing /\ Saving /\ Marked /\ InUse /\ GivenUpBy
  BY <1>1 DEF Apart, StoreStands
<1>3. PICK a \in Account \cup {Nil} : Owned(a)
  BY <1>1 DEF Apart
<1>4. /\ pc["flight"] = "idle" /\ \A w \in Work : pc[w] = "idle"
      /\ tok["flight"] = None /\ \A w \in Work : tok[w] = None /\ carry[w] = {}
  BY <1>2, AtRest
<1>16. PICK c : c = NextIssued(shown)
  OBVIOUS
<1>5. pc["ui"] = "relogin" /\ ~ Doomed /\ shown \in Account /\ shown = a /\ bound = a
  BY <1>2, <1>3 DEF InUse, Owned, Inside, UiStands, UiTyped
<1>6. \/ /\ Grown([acct |-> a, sess |-> Len(pairs) + 1])
         /\ c.access = Len(pairs) + 1 /\ c.refresh = Len(pairs) + 1 /\ c.user = a
      \/ pairs' = pairs /\ pc' = [pc EXCEPT !["ui"] = "clear"]
  <2>1. ASSUME NEW lost \in SUBSET {NextSession}, Issue(shown, lost)
        PROVE  /\ Grown([acct |-> a, sess |-> Len(pairs) + 1])
               /\ c.access = Len(pairs) + 1 /\ c.refresh = Len(pairs) + 1 /\ c.user = a
    <3>1. /\ Grown([acct |-> a, sess |-> Len(pairs) + 1])
          /\ Len(pairs) < MaxPairs /\ Len(pairs) + 1 \in 1..MaxPairs
          /\ revoked' \subseteq 1..MaxPairs /\ ended' \subseteq 1..MaxPairs
          /\ expired' = expired /\ gone' = gone
      BY <1>5, <2>1, IssueIs
    <3> QED  BY <1>5, <1>16, <3>1, IssuedIs
  <2>2. CASE ServerUnchanged /\ BeginClear("ui")
    BY <2>2
  <2> QED  BY <2>1, <2>2
<1>7. \/ /\ pc' = [pc EXCEPT !["ui"] = "save"] /\ tok' = [tok EXCEPT !["ui"] = c]
         /\ left' = [left EXCEPT !["ui"] = Item]
      \/ /\ pc' = [pc EXCEPT !["ui"] = "clear"]
         /\ tok' = [tok EXCEPT !["ui"] = None] /\ left' = [left EXCEPT !["ui"] = Item]
  BY <1>16
<1>8. UNCHANGED <<store, marker, data, edits, bound, carry, shown, goal, accepting, lapses>>
  OBVIOUS
<1>17. c.refresh = Len(pairs) + 1
  BY <1>16 DEF NextIssued, Issued
<1>18. \/ /\ Grown([acct |-> a, sess |-> Len(pairs) + 1]) /\ ended \subseteq ended'
          /\ SessionsOf(a) \subseteq ended' /\ revoked' = revoked \cup SessionsOf(a)
          /\ pc'["ui"] = "save" \/ Len(pairs) + 1 \in ended'
       \/ UNCHANGED <<pairs, revoked, ended>> /\ pc'["ui"] = "clear"
  <2>1. ASSUME NEW lost \in SUBSET {NextSession}, Issue(shown, lost), lost = {NextSession} \/ pc'["ui"] = "save"
        PROVE  <1>18
    <3>1. Grown([acct |-> shown, sess |-> Len(pairs) + 1])
      BY <1>5, <2>1, IssueIs
    <3> HIDE DEF Relogin
    <3> QED  BY <1>5, <2>1, <3>1 DEF Issue, NextSession
  <2>2. CASE Issue(shown, {}) /\ BeginSave("ui", c)
    <3>1. pc'["ui"] = "save"
      BY <2>2 DEF StepsTyped, Process
    <3> QED  BY <2>1, <2>2, <3>1
  <2>3. CASE Issue(shown, {NextSession})
    BY <2>1, <2>3
  <2>4. CASE ServerUnchanged /\ BeginClear("ui")
    BY <2>4 DEF StepsTyped, Process
  <2> QED  BY <1>16, <2>2, <2>3, <2>4
<1>10. edits = {}
  BY <1>5 DEF UiStands
<1> HIDE DEF Relogin
<1>9. /\ \A m \in 1..Len(pairs) : pairs'[m] = pairs[m]
      /\ pc'["ui"] = "save" => tok'["ui"] = c /\ Of(c, a)'
  <2>1. \A m \in 1..Len(pairs) : pairs'[m] = pairs[m]
    BY <1>6 DEF Grown
  <2>2. CASE pc'["ui"] = "save"
    <3>1. /\ Grown([acct |-> a, sess |-> Len(pairs) + 1]) /\ tok'["ui"] = c
          /\ c.access = Len(pairs) + 1 /\ c.refresh = Len(pairs) + 1 /\ c.user = a
      BY <1>6, <1>7, <2>2 DEF StepsTyped, MemoryTyped, Process
    <3>2. pairs'[Len(pairs) + 1].acct = a
      BY <3>1 DEF Grown
    <3> QED  BY <2>1, <3>1, <3>2 DEF Of
  <2> QED  BY <2>1, <2>2
<1>21. Quiet'
  BY <1>2, MobileSessionAssumption, <1>4, <1>5, <1>7, <1>8 DEF Quiet, StepsTyped, Process
<1>22. RowsOwned'
  BY <1>2, <1>3, MobileSessionAssumption, <1>4, <1>5, <1>7, <1>8
     DEF RowsOwned, Quiet, Owned, StepsTyped, MemoryTyped, Process, Entered
<1>23. Clearing'
  <2>1. \A q \in Process : pc'[q] = "clear" => q = "ui" /\ left'[q] = Item
    BY <1>4, <1>5, <1>7, MobileSessionAssumption DEF StepsTyped, MemoryTyped, Process
  <2>2. \A w \in Work : pc'[w] # "clear"
    BY <2>1, MobileSessionAssumption DEF Process
  <2> QED  BY <2>1, <2>2, RemainingApart DEF Clearing
<1>24. Saving'
  <2>1. ~ marker
    BY <1>5 DEF Doomed
  <2>2. pc'["flight"] = "idle"
    BY <1>4, <1>7 DEF StepsTyped, Process
  <2>3. pc'["ui"] = "save" => left'["ui"] = Item
    BY <1>7 DEF StepsTyped, MemoryTyped, Process
  <2> QED  BY <1>8, <2>1, <2>2, <2>3, RemainingApart DEF Saving
<1>25. Marked'
  BY <1>2, MobileSessionAssumption, NoneHeld, <1>4, <1>5, <1>7, <1>8
     DEF Marked, StepsTyped, DeviceTyped, Process
<1>26. InUse'
  BY <1>2, MobileSessionAssumption, NoneHeld, <1>4, <1>5, <1>7, <1>8
     DEF InUse, Doomed, Full, StepsTyped, DeviceTyped, Process
<1>27. GivenUpBy'
  BY <1>2, MobileSessionAssumption, NoneHeld, <1>4, <1>5, <1>7, <1>8
     DEF GivenUpBy, Doomed, Full, StepsTyped, DeviceTyped, Process
<1>28. Owned(a)'
  <2>1. Of(store, a)' /\ \A q \in Process : Of(tok[q], a)'
    <3>1. \A e \in Credentials : e.access <= Len(pairs) /\ e.refresh <= Len(pairs) /\ Of(e, a) => Of(e, a)'
      BY <1>9, PairsTyped, MobileSessionAssumption DEF Of, Credentials, Token
    <3>2. Of(store, a)'
      BY <1>3, <1>8, <3>1 DEF Owned, DeviceTyped, StepsHold, TokensIssued
    <3>3. Of(None, a)'
      BY NoneHeld DEF Of
    <3>4. Of(tok["ui"], a)' \/ tok'["ui"] = tok["ui"] \/ tok'["ui"] = None
      BY <1>7, <1>9 DEF MemoryTyped, StepsTyped, Process
    <3>5. \A q \in Process : q # "ui" => tok'[q] = tok[q]
      BY <1>7 DEF MemoryTyped
    <3> QED  BY <1>3, <3>1, <3>2, <3>3, <3>4, <3>5 DEF Owned, MemoryTyped, StepsHold, TokensIssued, Process
  <2>3. \A v \in Work : pc'[v] \in Entered => bound' = a
    BY <1>3, <1>4, <1>5, <1>6, <1>7, <1>8, <1>9, MobileSessionAssumption DEF Owned, Entered, StepsTyped, Process
  <2>4. pc'["ui"] \in Inside \/ (pc'["ui"] = "save" /\ goal' = "password")
          => shown' = a /\ bound' = a
    BY <1>2, <1>3, <1>4, <1>5, <1>6, <1>7, <1>8, <1>9, MobileSessionAssumption DEF Owned, Inside, UiStands, StepsTyped, Process
  <2>5. lapses' = {} => bound' \in {Nil, a}
    BY <1>3, <1>4, <1>5, <1>6, <1>7, <1>8, <1>9 DEF Owned
  <2>6. \A q \in Process : pc'[q] = "rebind" => bound' \in {Nil, a}
    BY <1>3, <1>4, <1>5, <1>6, <1>7, <1>8, <1>9 DEF Owned, StepsTyped
  <2> QED  BY <2>1, <2>3, <2>4, <2>5, <2>6 DEF Owned
<1>29. WipeDue'
  BY <1>2, <1>4, <1>5, <1>7, <1>8 DEF WipeDue, Empty, StepsTyped, Process, Inside
<1>30. TokensCurrent'
  <2> SUFFICES ASSUME lapses' \cap {"unsaved", "overlap"} = {} PROVE TokensCurrent'
    BY DEF TokensCurrent
  <2>1. Current(store.refresh) /\ revoked \subseteq ended
    BY <1>4, <1>5, <1>8 DEF TokensCurrent, Behind
  <2>2. pc'["flight"] = "idle"
    BY <1>4, <1>7 DEF StepsTyped, Process
  <2>3. CASE UNCHANGED <<pairs, revoked, ended>> /\ pc'["ui"] = "clear"
    BY <1>8, <2>1, <2>2, <2>3, SameTokens DEF TokensCurrent
  <2>4. CASE /\ Grown([acct |-> a, sess |-> Len(pairs) + 1]) /\ ended \subseteq ended'
             /\ SessionsOf(a) \subseteq ended' /\ revoked' = revoked \cup SessionsOf(a)
             /\ pc'["ui"] = "save" \/ Len(pairs) + 1 \in ended'
    <3>1. SessionsOf(a)' \subseteq ended' \cup {c.refresh} /\ Current(c.refresh)'
      BY <1>17, <2>4, IssuedTokens
    <3>2. CASE pc'["ui"] = "save"
      <4>1. Behind("ui")' /\ tok'["ui"] = c
        BY <1>7, <3>2 DEF Behind, StepsTyped, MemoryTyped, Process
      <4> QED  BY <2>1, <2>2, <2>4, <3>1, <3>2, <4>1 DEF TokensCurrent
    <3>3. CASE pc'["ui"] # "save"
      <4>1. SessionsOf(a)' \subseteq ended' /\ pc'["ui"] = "clear"
        BY <1>7, <1>17, <2>4, <3>1, <3>3 DEF StepsTyped, Process
      <4>2. ASSUME store.refresh # 0 PROVE Current(store.refresh)'
        <5>1. store.refresh \in 1..Len(pairs) /\ pairs[store.refresh].acct = a
          BY <1>3, <4>2, PairsTyped, MobileSessionAssumption
             DEF Owned, Of, StepsHold, TokensIssued, DeviceTyped, Credentials, Token
        <5>2. pairs[store.refresh].sess \in ended'
          BY <2>4, <5>1, PairsTyped DEF SessionsOf
        <5> QED  BY <1>8, <1>9, <4>1, <5>1, <5>2 DEF Current
      <4>3. Current(store.refresh)'
        BY <1>8, <4>2 DEF Current
      <4> QED  BY <2>1, <2>2, <2>4, <4>1, <4>3 DEF TokensCurrent
    <3> QED  BY <3>2, <3>3
  <2> QED  BY <1>18, <2>3, <2>4
<1>31. GivenUpEnded'
  <2>1. CASE pc'["ui"] = "save"
    <3>1. ~ Doomed'
      BY <1>4, <1>5, <1>7, <1>8, <2>1 DEF Doomed, StepsTyped, Process
    <3> QED  BY <3>1 DEF GivenUpEnded
  <2>2. CASE pc'["ui"] # "save"
    <3>1. pc'["ui"] = "clear" /\ edits' = {}
      BY <1>7, <1>8, <1>10, <2>2 DEF StepsTyped, Process
    <3> QED  BY <3>1 DEF GivenUpEnded
  <2> QED  BY <2>1, <2>2
<1> QED
  BY <1>21, <1>22, <1>23, <1>24, <1>25, <1>26, <1>27, <1>28, <1>29, <1>30, <1>31 DEF StoreStands

LEMMA SessWipe ==
    ASSUME SessInv, Held', Wipe PROVE SessInv'
<1> SUFFICES ASSUME "overlap" \notin lapses'
             PROVE  /\ Quiet' /\ RowsOwned' /\ StoreStands' /\ \E a \in Account \cup {Nil} : Owned(a)'
                    /\ WipeDue' /\ TokensCurrent' /\ GivenUpEnded'
  BY DEF SessInv, Apart, WipeDue, TokensCurrent, GivenUpEnded
<1> USE DEF SessInv, Held, TypeOK, Wipe, Goto, UiRest, server, secure, history
<1>1. "overlap" \notin lapses
  OBVIOUS
<1>2. Quiet /\ RowsOwned /\ Clearing /\ Saving /\ Marked /\ InUse /\ GivenUpBy
  BY <1>1 DEF Apart, StoreStands
<1>3. PICK a \in Account \cup {Nil} : Owned(a)
  BY <1>1 DEF Apart
<1>4. /\ pc["flight"] = "idle" /\ \A w \in Work : pc[w] = "idle"
      /\ tok["flight"] = None /\ \A w \in Work : tok[w] = None /\ carry[w] = {}
  BY <1>2, AtRest
<1>5. pc["ui"] = "wipe"
  OBVIOUS
<1>7. pc' = [pc EXCEPT !["ui"] = "ack"] /\ UNCHANGED <<tok, left>> /\ bound' = Nil
  OBVIOUS
<1>9. data' = {} /\ edits' = {}
  OBVIOUS
<1>8. UNCHANGED <<pairs, store, marker, carry, shown, goal, accepting, lapses>>
  OBVIOUS
<1>18. UNCHANGED <<pairs, revoked, ended>>
  OBVIOUS
<1>19. /\ \A b : SessionsOf(b)' = SessionsOf(b)
       /\ \A m : Current(m)' <=> Current(m)
  BY <1>18, SameTokens
<1> HIDE DEF Wipe
<1>21. Quiet'
  BY <1>2, MobileSessionAssumption, <1>4, <1>5, <1>7, <1>8, <1>9 DEF Quiet, StepsTyped, Process
<1>22. RowsOwned'
  BY <1>2, <1>3, MobileSessionAssumption, <1>4, <1>5, <1>7, <1>8, <1>9
     DEF RowsOwned, Quiet, Owned, StepsTyped, MemoryTyped, Process, Entered
<1>23. Clearing'
  BY <1>2, MobileSessionAssumption, NoneHeld, RemainingApart, <1>4, <1>5, <1>7, <1>8, <1>9
     DEF Clearing, StepsTyped, MemoryTyped, DeviceTyped, Process, Credentials
<1>24. Saving'
  BY <1>2, MobileSessionAssumption, NoneHeld, RemainingApart, <1>4, <1>5, <1>7, <1>8, <1>9
     DEF Saving, StepsTyped, MemoryTyped, DeviceTyped, Process, Credentials
<1>25. Marked'
  BY <1>2, MobileSessionAssumption, NoneHeld, <1>4, <1>5, <1>7, <1>8, <1>9
     DEF Marked, StepsTyped, DeviceTyped, Process
<1>26. InUse'
  BY <1>2, MobileSessionAssumption, NoneHeld, <1>4, <1>5, <1>7, <1>8, <1>9
     DEF InUse, Doomed, Full, StepsTyped, DeviceTyped, Process
<1>27. GivenUpBy'
  BY <1>2, MobileSessionAssumption, NoneHeld, <1>4, <1>5, <1>7, <1>8, <1>9
     DEF GivenUpBy, Doomed, Full, StepsTyped, DeviceTyped, Process
<1>28. Owned(a)'
  <2>1. Of(store, a)'
    BY <1>3, <1>4, <1>5, <1>7, <1>8 DEF Owned, Of
  <2>2. \A q \in Process : Of(tok[q], a)'
    BY <1>3, <1>4, <1>5, <1>7, <1>8, NoneHeld DEF Owned, Of, MemoryTyped, Process
  <2>3. \A v \in Work : pc'[v] \in Entered => bound' = a
    BY <1>3, <1>4, <1>5, <1>7, <1>8, MobileSessionAssumption DEF Owned, Entered, StepsTyped, Process
  <2>4. pc'["ui"] \in Inside \/ (pc'["ui"] = "save" /\ goal' = "password")
          => shown' = a /\ bound' = a
    BY <1>2, <1>3, <1>4, <1>5, <1>7, <1>8, MobileSessionAssumption DEF Owned, Inside, UiStands, StepsTyped, Process
  <2>5. lapses' = {} => bound' \in {Nil, a}
    BY <1>3, <1>4, <1>5, <1>7, <1>8 DEF Owned
  <2>6. \A q \in Process : pc'[q] = "rebind" => bound' \in {Nil, a}
    BY <1>3, <1>4, <1>5, <1>7, <1>8 DEF Owned, StepsTyped
  <2> QED  BY <2>1, <2>2, <2>3, <2>4, <2>5, <2>6 DEF Owned
<1>29. WipeDue'
  BY <1>2, <1>4, <1>5, <1>7, <1>8, <1>9, <1>18, <1>19
     DEF WipeDue, Empty, StepsTyped, Process, Inside
<1>30. TokensCurrent'
  BY <1>2, MobileSessionAssumption, RemainingApart, <1>4, <1>5, <1>7, <1>8, <1>9, <1>18, <1>19
     DEF TokensCurrent, Behind, StepsTyped, MemoryTyped, Process
<1>31. GivenUpEnded'
  BY <1>2, MobileSessionAssumption, <1>4, <1>5, <1>7, <1>8, <1>9, <1>18, <1>19
     DEF GivenUpEnded, Doomed, StepsTyped, Process
<1> QED
  BY <1>21, <1>22, <1>23, <1>24, <1>25, <1>26, <1>27, <1>28, <1>29, <1>30, <1>31 DEF StoreStands

LEMMA SessAcknowledge ==
    ASSUME SessInv, Held', Acknowledge PROVE SessInv'
<1> SUFFICES ASSUME "overlap" \notin lapses'
             PROVE  /\ Quiet' /\ RowsOwned' /\ StoreStands' /\ \E a \in Account \cup {Nil} : Owned(a)'
                    /\ WipeDue' /\ TokensCurrent' /\ GivenUpEnded'
  BY DEF SessInv, Apart, WipeDue, TokensCurrent, GivenUpEnded
<1> USE DEF SessInv, Held, TypeOK, Acknowledge, Goto, UiRest, server, sqlite, history
<1>1. "overlap" \notin lapses
  OBVIOUS
<1>2. Quiet /\ RowsOwned /\ Clearing /\ Saving /\ Marked /\ InUse /\ GivenUpBy
  BY <1>1 DEF Apart, StoreStands
<1>3. PICK a \in Account \cup {Nil} : Owned(a)
  BY <1>1 DEF Apart
<1>4. /\ pc["flight"] = "idle" /\ \A w \in Work : pc[w] = "idle"
      /\ tok["flight"] = None /\ \A w \in Work : tok[w] = None /\ carry[w] = {}
  BY <1>2, AtRest
<1>5. pc["ui"] = "ack" /\ marker /\ store = None
  BY <1>2 DEF Marked, UiStands
<1>7. /\ pc' = [pc EXCEPT !["ui"] = "signedout"] /\ UNCHANGED <<tok, left>>
      /\ shown' = Nil /\ goal' = Nil /\ marker' = FALSE
  OBVIOUS
<1>8. UNCHANGED <<pairs, store, data, edits, bound, carry, accepting, lapses>>
  OBVIOUS
<1>18. UNCHANGED <<pairs, revoked, ended>>
  OBVIOUS
<1>19. /\ \A b : SessionsOf(b)' = SessionsOf(b)
       /\ \A m : Current(m)' <=> Current(m)
  BY <1>18, SameTokens
<1> HIDE DEF Acknowledge
<1>21. Quiet'
  BY <1>2, MobileSessionAssumption, <1>4, <1>5, <1>7, <1>8 DEF Quiet, StepsTyped, Process
<1>22. RowsOwned'
  BY <1>2, <1>3, MobileSessionAssumption, <1>4, <1>5, <1>7, <1>8
     DEF RowsOwned, Quiet, Owned, StepsTyped, MemoryTyped, Process, Entered
<1>23. Clearing'
  BY <1>2, MobileSessionAssumption, NoneHeld, RemainingApart, <1>4, <1>5, <1>7, <1>8
     DEF Clearing, StepsTyped, MemoryTyped, DeviceTyped, Process, Credentials
<1>24. Saving'
  BY <1>2, MobileSessionAssumption, NoneHeld, RemainingApart, <1>4, <1>5, <1>7, <1>8
     DEF Saving, StepsTyped, MemoryTyped, DeviceTyped, Process, Credentials
<1>25. Marked'
  BY <1>2, MobileSessionAssumption, NoneHeld, <1>4, <1>5, <1>7, <1>8
     DEF Marked, StepsTyped, DeviceTyped, Process
<1>26. InUse'
  BY <1>2, MobileSessionAssumption, NoneHeld, <1>4, <1>5, <1>7, <1>8
     DEF InUse, Doomed, Full, StepsTyped, DeviceTyped, Process
<1>27. GivenUpBy'
  BY <1>2, MobileSessionAssumption, NoneHeld, <1>4, <1>5, <1>7, <1>8
     DEF GivenUpBy, Doomed, Full, StepsTyped, DeviceTyped, Process
<1>28. Owned(a)'
  <2>1. Of(store, a)'
    BY <1>3, <1>4, <1>5, <1>7, <1>8 DEF Owned, Of
  <2>2. \A q \in Process : Of(tok[q], a)'
    BY <1>3, <1>4, <1>5, <1>7, <1>8, NoneHeld DEF Owned, Of, MemoryTyped, Process
  <2>3. \A v \in Work : pc'[v] \in Entered => bound' = a
    BY <1>3, <1>4, <1>5, <1>7, <1>8, MobileSessionAssumption DEF Owned, Entered, StepsTyped, Process
  <2>4. pc'["ui"] \in Inside \/ (pc'["ui"] = "save" /\ goal' = "password")
          => shown' = a /\ bound' = a
    BY <1>2, <1>3, <1>4, <1>5, <1>7, <1>8, MobileSessionAssumption DEF Owned, Inside, UiStands, StepsTyped, Process
  <2>5. lapses' = {} => bound' \in {Nil, a}
    BY <1>3, <1>4, <1>5, <1>7, <1>8 DEF Owned
  <2>6. \A q \in Process : pc'[q] = "rebind" => bound' \in {Nil, a}
    BY <1>3, <1>4, <1>5, <1>7, <1>8 DEF Owned, StepsTyped
  <2> QED  BY <2>1, <2>2, <2>3, <2>4, <2>5, <2>6 DEF Owned
<1>29. WipeDue'
  <2>1. data = {} /\ edits = {} /\ bound = Nil
    BY <1>2, <1>5 DEF Marked
  <2>2. \A w \in Work : pc'[w] = "idle"
    BY <1>4, <1>7, MobileSessionAssumption DEF StepsTyped, Process
  <2>3. pc'["ui"] = "signedout"
    BY <1>7 DEF StepsTyped, Process
  <2> QED  BY <1>8, <2>1, <2>2, <2>3 DEF WipeDue, Empty
<1>30. TokensCurrent'
  BY <1>2, MobileSessionAssumption, RemainingApart, <1>4, <1>5, <1>7, <1>8, <1>18, <1>19
     DEF TokensCurrent, Behind, StepsTyped, MemoryTyped, Process
<1>31. GivenUpEnded'
  <2>1. bound = Nil
    BY <1>2, <1>5 DEF Marked
  <2> QED  BY <1>8, <2>1 DEF GivenUpEnded
<1> QED
  BY <1>21, <1>22, <1>23, <1>24, <1>25, <1>26, <1>27, <1>28, <1>29, <1>30, <1>31 DEF StoreStands

LEMMA SessEditLocally ==
    ASSUME SessInv, Held', EditLocally PROVE SessInv'
<1> SUFFICES ASSUME "overlap" \notin lapses'
             PROVE  /\ Quiet' /\ RowsOwned' /\ StoreStands' /\ \E a \in Account \cup {Nil} : Owned(a)'
                    /\ WipeDue' /\ TokensCurrent' /\ GivenUpEnded'
  BY DEF SessInv, Apart, WipeDue, TokensCurrent, GivenUpEnded
<1> USE DEF SessInv, Held, TypeOK, EditLocally, server, secure, memory, history
<1>1. "overlap" \notin lapses
  OBVIOUS
<1>2. Quiet /\ RowsOwned /\ Clearing /\ Saving /\ Marked /\ InUse /\ GivenUpBy
  BY <1>1 DEF Apart, StoreStands
<1>3. PICK a \in Account \cup {Nil} : Owned(a)
  BY <1>1 DEF Apart
<1>18. UNCHANGED <<pairs, revoked, ended>>
  OBVIOUS
<1>19. /\ \A b : SessionsOf(b)' = SessionsOf(b)
       /\ \A m : Current(m)' <=> Current(m)
  BY <1>18, SameTokens
<1>21. Quiet'
  BY <1>2, MobileSessionAssumption DEF Quiet, StepsTyped, Process
<1>22. RowsOwned'
  <2>1. shown = a /\ bound = a
    BY <1>3 DEF Owned, Inside
  <2> QED  BY <1>2, <2>1 DEF RowsOwned
<1>23. Clearing'
  BY <1>2, MobileSessionAssumption, NoneHeld, RemainingApart
     DEF Clearing, StepsTyped, MemoryTyped, DeviceTyped, Process, Credentials
<1>24. Saving'
  BY <1>2, MobileSessionAssumption, NoneHeld, RemainingApart
     DEF Saving, StepsTyped, MemoryTyped, DeviceTyped, Process, Credentials
<1>25. Marked'
  BY <1>2, MobileSessionAssumption, NoneHeld DEF Marked, StepsTyped, DeviceTyped, Process
<1>26. InUse'
  BY <1>2, MobileSessionAssumption, NoneHeld
     DEF InUse, Doomed, Full, StepsTyped, DeviceTyped, Process
<1>27. GivenUpBy'
  BY <1>2, MobileSessionAssumption, NoneHeld
     DEF GivenUpBy, Doomed, Full, StepsTyped, DeviceTyped, Process
<1>28. Owned(a)'
  BY <1>2, <1>3, MobileSessionAssumption, NoneHeld
     DEF Owned, Of, StepsTyped, MemoryTyped, DeviceTyped, Process, Credentials, Entered, Inside
<1>29. WipeDue'
  BY <1>2, <1>18, <1>19 DEF WipeDue, Empty, StepsTyped, Process, Inside
<1>30. TokensCurrent'
  BY <1>2, MobileSessionAssumption, RemainingApart, <1>18, <1>19
     DEF TokensCurrent, Behind, StepsTyped, MemoryTyped, Process
<1>31. GivenUpEnded'
  BY <1>2, MobileSessionAssumption, <1>18, <1>19 DEF GivenUpEnded, Doomed, StepsTyped, Process
<1> QED
  BY <1>21, <1>22, <1>23, <1>24, <1>25, <1>26, <1>27, <1>28, <1>29, <1>30, <1>31 DEF StoreStands

LEMMA SessSaveItem ==
    ASSUME SessInv, Held', NEW p \in Process, SaveItem(p) PROVE SessInv'
<1> SUFFICES ASSUME "overlap" \notin lapses'
             PROVE  /\ Quiet' /\ RowsOwned' /\ StoreStands' /\ \E a \in Account \cup {Nil} : Owned(a)'
                    /\ WipeDue' /\ TokensCurrent' /\ GivenUpEnded'
  BY DEF SessInv, Apart, WipeDue, TokensCurrent, GivenUpEnded
<1> USE DEF SessInv, Held, TypeOK, SaveItem, server, sqlite, bounds, history
<1>1. "overlap" \notin lapses
  OBVIOUS
<1>2. Quiet /\ RowsOwned /\ Clearing /\ Saving /\ Marked /\ InUse /\ GivenUpBy
  BY <1>1 DEF Apart, StoreStands
<1>3. PICK a \in Account \cup {Nil} : Owned(a)
  BY <1>1 DEF Apart
<1>4. pc["ui"] \in {"save", "read", "signedout", "ack", "me", "refresh", "bind", "rebind", "clear"} =>
        pc["flight"] = "idle" /\ \A w \in Work : pc[w] = "idle"
  BY <1>2, AtRest
<1>5. /\ pc[p] = "save" /\ p \in {"ui", "flight"} /\ Full(tok[p])
      /\ \A q \in Process : pc[q] # "clear"
      /\ p = "flight" => pc["ui"] # "save" /\ ~ Doomed
      /\ ~ marker /\ pc["ui"] \notin {"read", "signedout", "ack"}
  <2>1. pc[p] = "save" /\ p \in {"ui", "flight"}
    BY DEF Process, StepsTyped, WorkPC
  <2>2. Full(tok[p])
    BY <2>1 DEF StepsHold, StepHolds, Fits, Process
  <2>3. CASE p = "ui"
    BY <1>2, <1>4, <2>1, <2>2, <2>3 DEF Saving, Process
  <2>4. CASE p = "flight"
    BY <1>2, <1>4, <2>1, <2>2, <2>4 DEF InUse, Doomed
  <2> QED  BY <2>1, <2>3, <2>4
<1>6. /\ \A i \in {"access", "refresh", "user"} : store'[i] = store[i] \/ store'[i] = tok[p][i]
      /\ left[p] = Item => /\ left' = [left EXCEPT ![p] = <<"refresh", "user">>]
                           /\ store'.access = tok[p].access
      /\ left[p] = <<"refresh", "user">> => /\ left' = [left EXCEPT ![p] = <<"user">>]
                                            /\ store'.refresh = tok[p].refresh
      /\ left[p] = <<"user">> => /\ left' = [left EXCEPT ![p] = <<>>]
                                 /\ store'.user = tok[p].user
      /\ left[p] # <<"refresh", "user">> => store'.refresh = store.refresh
      /\ left[p] \in {Item, <<"refresh", "user">>, <<"user">>}
  <2>1. store \in Credentials
    BY DEF DeviceTyped
  <2>2. TypeOK
    OBVIOUS
  <2> HIDE DEF SaveItem
  <2> QED  BY <2>1, <2>2, SaveIs, RemainingApart DEF Credentials
<1>7. /\ store \in Credentials /\ store' \in Credentials /\ UNCHANGED <<pc, tok>>
      /\ Full(store) => Full(store')
  <2>1. UNCHANGED <<pc, tok>>
    OBVIOUS
  <2> HIDE DEF SaveItem
  <2> QED  BY <1>5, <1>6, <2>1 DEF DeviceTyped, Full
<1>8. UNCHANGED <<pairs, marker, data, edits, bound, carry, shown, goal, accepting, lapses>>
  OBVIOUS
<1>18. UNCHANGED <<pairs, revoked, ended>>
  OBVIOUS
<1>19. /\ \A b : SessionsOf(b)' = SessionsOf(b)
       /\ \A m : Current(m)' <=> Current(m)
  BY <1>18, SameTokens
<1> HIDE DEF SaveItem
<1>21. Quiet'
  BY <1>2, <1>7 DEF Quiet
<1>22. RowsOwned'
  BY <1>2, <1>8 DEF RowsOwned
<1>23. Clearing'
  BY <1>5, <1>7 DEF Clearing, Process
<1>24. Saving'
  <2>1. CASE p = "ui"
    <3>1. left'["ui"] = IF left["ui"] = Item THEN <<"refresh", "user">>
                      ELSE IF left["ui"] = <<"refresh", "user">> THEN <<"user">> ELSE <<>>
      BY <1>6, <2>1, RemainingApart DEF MemoryTyped, Process
    <3>2. tok["ui"].access # 0 /\ tok["ui"].refresh # 0 /\ tok["ui"].user # Nil
      BY <1>5, <2>1 DEF Full
    <3> QED  BY <1>2, <1>5, <1>6, <1>7, <1>8, <2>1, <3>1, <3>2, RemainingApart DEF Saving
  <2>2. CASE p = "flight"
    BY <1>5, <1>7, <2>2 DEF Saving
  <2> QED  BY <1>5, <2>1, <2>2
<1>25. Marked'
  BY <1>5, <1>7, <1>8 DEF Marked
<1>26. InUse'
  <2>1. CASE p = "ui"
    BY <1>4, <1>5, <1>7, <2>1 DEF InUse
  <2>2. CASE p = "flight"
    BY <1>5, <1>7, <1>8, <2>2 DEF InUse, Doomed
  <2> QED  BY <1>5, <2>1, <2>2
<1>27. GivenUpBy'
  <2>1. CASE p = "ui"
    BY <1>5, <1>7, <2>1 DEF GivenUpBy
  <2>2. CASE p = "flight"
    BY <1>5, <1>7, <1>8, <2>2 DEF GivenUpBy, Doomed
  <2> QED  BY <1>5, <2>1, <2>2
<1>28. Owned(a)'
  <2>1. Of(store, a)'
    BY <1>3, <1>6, <1>7, <1>8 DEF Owned, Of
  <2> QED  BY <1>3, <1>7, <1>8, <2>1 DEF Owned, Of
<1>29. WipeDue'
  <2>1. Empty => Empty'
    BY <1>7, <1>8 DEF Empty
  <2>2. \A q \in Process : pc[q] = "clear" => FALSE
    BY <1>5
  <2>3. store.user # Nil => store'.user # Nil
    BY <1>5, <1>6 DEF Full
  <2> QED  BY <1>8, <2>1, <2>2, <2>3 DEF WipeDue
<1>30. TokensCurrent'
  <2>1. CASE left[p] = <<"refresh", "user">>
    <3>1. store'.refresh = tok[p].refresh
      BY <1>6, <2>1
    <3> QED  BY <1>5, <1>7, <1>8, <1>18, <1>19, <3>1 DEF TokensCurrent
  <2>2. CASE left[p] # <<"refresh", "user">>
    <3>1. store'.refresh = store.refresh
      BY <1>6, <2>2
    <3>2. Behind("ui") \/ Behind("flight") => Behind("ui")' \/ Behind("flight")'
      BY <1>6, <1>7, <2>2, RemainingApart DEF Behind, MemoryTyped, Process
    <3> QED  BY <1>7, <1>8, <1>18, <1>19, <3>1, <3>2 DEF TokensCurrent
  <2> QED  BY <2>1, <2>2
<1>31. GivenUpEnded'
  <2>1. Doomed' => Doomed
    BY <1>7, <1>8 DEF Doomed
  <2> QED  BY <1>7, <1>8, <1>18, <1>19, <2>1 DEF GivenUpEnded
<1> QED
  BY <1>21, <1>22, <1>23, <1>24, <1>25, <1>26, <1>27, <1>28, <1>29, <1>30, <1>31 DEF StoreStands

LEMMA SessClearItem ==
    ASSUME SessInv, Held', NEW p \in Process, ClearItem(p) PROVE SessInv'
<1> SUFFICES ASSUME "overlap" \notin lapses'
             PROVE  /\ Quiet' /\ RowsOwned' /\ StoreStands' /\ \E a \in Account \cup {Nil} : Owned(a)'
                    /\ WipeDue' /\ TokensCurrent' /\ GivenUpEnded'
  BY DEF SessInv, Apart, WipeDue, TokensCurrent, GivenUpEnded
<1> USE DEF SessInv, Held, TypeOK, ClearItem, server, sqlite, bounds, history
<1>1. "overlap" \notin lapses
  OBVIOUS
<1>2. Quiet /\ RowsOwned /\ Clearing /\ Saving /\ Marked /\ InUse /\ GivenUpBy
  BY <1>1 DEF Apart, StoreStands
<1>3. PICK a \in Account \cup {Nil} : Owned(a)
  BY <1>1 DEF Apart
<1>4. pc["ui"] \in {"save", "read", "signedout", "ack", "me", "refresh", "bind", "rebind", "clear"} =>
        pc["flight"] = "idle" /\ \A w \in Work : pc[w] = "idle"
  BY <1>2, AtRest
<1>5. /\ pc[p] = "clear" /\ pc["ui"] \notin {"save", "read", "signedout", "ack"}
  <2>1. pc[p] = "clear"
    OBVIOUS
  <2> QED  BY <1>4, <2>1 DEF Process
<1>6. /\ store'.access = 0 \/ store'.access = store.access
      /\ store'.refresh = 0 \/ store'.refresh = store.refresh
      /\ store'.user = Nil \/ store'.user = store.user
      /\ left[p] = Item => left' = [left EXCEPT ![p] = <<"refresh", "user">>] /\ store'.access = 0
      /\ left[p] = <<"refresh", "user">> => /\ left' = [left EXCEPT ![p] = <<"user">>]
                                            /\ store'.refresh = 0
      /\ left[p] = <<"user">> => left' = [left EXCEPT ![p] = <<>>] /\ store'.user = Nil
      /\ left[p] # <<"user">> => store'.user = store.user
      /\ left[p] \in {Item, <<"refresh", "user">>, <<"user">>}
  <2>1. store \in Credentials
    BY DEF DeviceTyped
  <2>2. TypeOK
    OBVIOUS
  <2> HIDE DEF ClearItem
  <2> QED  BY <2>1, <2>2, ClearIs, RemainingApart DEF Credentials
<1>7. /\ store \in Credentials /\ store' \in Credentials /\ UNCHANGED <<pc, tok>>
      /\ store = None => store' = None
  <2>1. UNCHANGED <<pc, tok>> /\ store \in Credentials /\ store' \in Credentials
    BY DEF DeviceTyped
  <2> HIDE DEF ClearItem
  <2> QED  BY <1>6, <2>1, NoneIs
<1>8. UNCHANGED <<pairs, marker, data, edits, bound, carry, shown, goal, accepting, lapses>>
  OBVIOUS
<1>18. UNCHANGED <<pairs, revoked, ended>>
  OBVIOUS
<1>19. /\ \A b : SessionsOf(b)' = SessionsOf(b)
       /\ \A m : Current(m)' <=> Current(m)
  BY <1>18, SameTokens
<1> HIDE DEF ClearItem
<1>21. Quiet'
  BY <1>2, <1>7 DEF Quiet
<1>22. RowsOwned'
  BY <1>2, <1>8 DEF RowsOwned
<1>23. Clearing'
  <2>1. \A q \in Process : left'[q] =
          IF q # p THEN left[q]
          ELSE IF left[p] = Item THEN <<"refresh", "user">>
          ELSE IF left[p] = <<"refresh", "user">> THEN <<"user">> ELSE <<>>
    BY <1>6, RemainingApart DEF MemoryTyped
  <2>2. ASSUME NEW q \in Process, pc[q] = "clear"
        PROVE  /\ left'[q] # Item => store'.access = 0
               /\ left'[q] \in {<<"user">>, <<>>} => store'.refresh = 0
               /\ left'[q] = <<>> => store'.user = Nil
    <3>1. /\ left[q] # Item => store.access = 0
          /\ left[q] \in {<<"user">>, <<>>} => store.refresh = 0
          /\ left[q] = <<>> => store.user = Nil
      BY <1>2, <2>2 DEF Clearing
    <3>2. CASE q = p
      <4>1. /\ left[p] # Item => store.access = 0
            /\ left[p] \in {<<"user">>, <<>>} => store.refresh = 0
        BY <3>1, <3>2
      <4> QED  BY <1>6, <2>1, <3>2, <4>1, RemainingApart
    <3>3. CASE q # p
      BY <1>6, <2>1, <3>1, <3>3
    <3> QED  BY <3>2, <3>3
  <2> QED  BY <1>2, <1>6, <1>7, <2>2 DEF Clearing
<1>24. Saving'
  BY <1>5, <1>7 DEF Saving
<1>25. Marked'
  BY <1>2, <1>5, <1>7, <1>8 DEF Marked
<1>26. InUse'
  <2>1. Doomed
    BY <1>5 DEF Doomed
  <2> QED  BY <1>2, <1>7, <2>1 DEF InUse
<1>27. GivenUpBy'
  <2>1. Doomed
    BY <1>5 DEF Doomed
  <2> QED  BY <1>2, <1>6, <1>7, <2>1 DEF GivenUpBy
<1>28. Owned(a)'
  <2>1. Of(store, a)'
    BY <1>3, <1>6, <1>7, <1>8 DEF Owned, Of
  <2> QED  BY <1>3, <1>7, <1>8, <2>1 DEF Owned, Of
<1>29. WipeDue'
  <2>1. Empty => Empty'
    BY <1>7, <1>8 DEF Empty
  <2>2. CASE left[p] = <<"user">>
    <3>1. pc'[p] = "clear" /\ left'[p] = <<>>
      BY <1>5, <1>6, <1>7, <2>2 DEF MemoryTyped
    <3> QED  BY <3>1 DEF WipeDue
  <2>3. CASE left[p] # <<"user">>
    <3>1. store'.user = store.user
      BY <1>6, <2>3
    <3>2. \A q \in Process : left[q] = <<>> => left'[q] = <<>>
      BY <1>6, RemainingApart DEF MemoryTyped
    <3> QED  BY <1>7, <1>8, <2>1, <3>1, <3>2 DEF WipeDue
  <2> QED  BY <2>2, <2>3
<1>30. TokensCurrent'
  <2>1. Behind("ui") \/ Behind("flight") => Behind("ui")' \/ Behind("flight")'
    BY <1>5, <1>6, <1>7 DEF Behind, MemoryTyped, Process
  <2>2. store'.refresh = 0 => Current(store.refresh)'
    BY DEF Current
  <2> QED  BY <1>6, <1>7, <1>8, <1>18, <1>19, <2>1, <2>2 DEF TokensCurrent
<1>31. GivenUpEnded'
  <2>1. Doomed
    BY <1>5 DEF Doomed
  <2> QED  BY <1>7, <1>8, <1>18, <1>19, <2>1 DEF GivenUpEnded
<1> QED
  BY <1>21, <1>22, <1>23, <1>24, <1>25, <1>26, <1>27, <1>28, <1>29, <1>30, <1>31 DEF StoreStands

LEMMA SessMark ==
    ASSUME SessInv, Held', NEW p \in Process, Mark(p) PROVE SessInv'
<1> SUFFICES ASSUME "overlap" \notin lapses'
             PROVE  /\ Quiet' /\ RowsOwned' /\ StoreStands' /\ \E a \in Account \cup {Nil} : Owned(a)'
                    /\ WipeDue' /\ TokensCurrent' /\ GivenUpEnded'
  BY DEF SessInv, Apart, WipeDue, TokensCurrent, GivenUpEnded
<1> USE DEF SessInv, Held, TypeOK, Mark, FlightEnds, Waiting, Goto, server, sqlite, bounds, history
<1>1. "overlap" \notin lapses
  OBVIOUS
<1>2. Quiet /\ RowsOwned /\ Clearing /\ Saving /\ Marked /\ InUse /\ GivenUpBy
  BY <1>1 DEF Apart, StoreStands
<1>3. PICK a \in Account \cup {Nil} : Owned(a)
  BY <1>1 DEF Apart
<1>4. pc["ui"] \in {"save", "read", "signedout", "ack", "me", "refresh", "bind", "rebind", "clear"} =>
        pc["flight"] = "idle" /\ \A w \in Work : pc[w] = "idle"
  BY <1>2, AtRest
<1>5. /\ pc[p] = "clear" /\ pc["ui"] \notin {"save", "read", "signedout", "ack"}
      /\ store = None /\ marker'
  <2>1. pc[p] = "clear" /\ left[p] = <<>> /\ marker'
    OBVIOUS
  <2>2. store = None
    BY <1>2, <2>1, NoneIs, RemainingApart DEF Clearing, DeviceTyped
  <2> QED  BY <1>4, <2>1, <2>2 DEF Process
<1>6. \A q \in Process : \/ pc'[q] = pc[q] /\ tok'[q] = tok[q] /\ (q = p => FALSE)
                         \/ pc'[q] = "wipe" /\ q = "ui" /\ p = q /\ tok'[q] = tok[q]
                         \/ pc'[q] = "idle" /\ q # "ui" /\ (q = p \/ pc[q] = "await") /\ (tok'[q] = tok[q] \/ tok'[q] = None)
                         \/ pc'[q] = "in" /\ q = "ui" /\ pc["ui"] = "await" /\ tok'[q] = tok[q]
  <2>1. CASE p = "flight"
    <3>1. FlightEnds(FALSE)
      BY <2>1
    <3>2. \A q \in Process : EndsFor(q, FALSE)
      BY <3>1, FlightEndsIs
    <3>3. pc["flight"] # "await"
      BY DEF StepsTyped, FlightPC
    <3> HIDE DEF Mark
    <3> QED  BY <2>1, <3>2, <3>3 DEF EndsFor
  <2>2. CASE p # "flight"
    <3>1. pc' = [pc EXCEPT ![p] = IF p = "ui" THEN "wipe" ELSE "idle"] /\ tok' = tok
      BY <2>2
    <3> HIDE DEF Mark
    <3> QED  BY <3>1 DEF StepsTyped
  <2> QED  BY <2>1, <2>2
<1>9. /\ \A w \in Work : carry'[w] = carry[w] \/ carry'[w] = {}
      /\ goal' = goal \/ goal' = Nil
  <2>1. CASE p = "flight"
    <3>1. FlightEnds(FALSE)
      BY <2>1
    <3>2. /\ \A w \in Work : carry'[w] = IF pc[w] = "await" THEN {} ELSE carry[w]
          /\ pc["ui"] = "await" => goal' = Nil
          /\ pc["ui"] # "await" => goal' = goal
      BY <3>1, FlightEndsIs
    <3> HIDE DEF Mark
    <3> QED  BY <3>2
  <2>2. CASE p # "flight"
    BY <2>2
  <2> QED  BY <2>1, <2>2
<1>8. UNCHANGED <<pairs, store, data, edits, bound, shown, lapses>>
  OBVIOUS
<1>10. left' = left
  OBVIOUS
<1>18. UNCHANGED <<pairs, revoked, ended>>
  OBVIOUS
<1>19. /\ \A b : SessionsOf(b)' = SessionsOf(b)
       /\ \A m : Current(m)' <=> Current(m)
  BY <1>18, SameTokens
<1> HIDE DEF Mark
<1>21. Quiet'
  BY <1>2, <1>5, <1>6, MobileSessionAssumption DEF Quiet, Process
<1>22. RowsOwned'
  BY <1>2, <1>8, <1>9 DEF RowsOwned
<1>23. Clearing'
  BY <1>2, <1>6, <1>8, <1>10, MobileSessionAssumption DEF Clearing, Process
<1>24. Saving'
  BY <1>5, <1>6 DEF Saving, Process
<1>25. Marked'
  BY <1>5, <1>6, <1>8 DEF Marked, Process
<1>26. InUse'
  <2>1. Doomed
    BY <1>5 DEF Doomed
  <2> QED  BY <1>2, <1>6, <2>1 DEF InUse, Process
<1>27. GivenUpBy'
  BY <1>5, <1>8, NoneHeld DEF GivenUpBy
<1>28. Owned(a)'
  <2>1. Of(store, a)'
    BY <1>3, <1>8 DEF Owned, Of
  <2>2. \A q \in Process : Of(tok[q], a)'
    BY <1>3, <1>6, <1>8, NoneHeld DEF Owned, Of
  <2>3. \A w \in Work : pc'[w] \in Entered => pc[w] \in Entered
    BY <1>6, MobileSessionAssumption DEF Entered, Process
  <2>4. pc'["ui"] \in Inside => pc["ui"] \in Inside
    BY <1>6 DEF Inside, Process
  <2>5. pc'["ui"] # "save" /\ \A q \in Process : pc'[q] = "rebind" => pc[q] = "rebind"
    BY <1>5, <1>6 DEF Process
  <2> QED  BY <1>3, <1>8, <2>1, <2>2, <2>3, <2>4, <2>5 DEF Owned
<1>29. WipeDue'
  BY <1>5 DEF WipeDue
<1>30. TokensCurrent'
  <2>1. Behind("ui") \/ Behind("flight") => Behind("ui")' \/ Behind("flight")'
    BY <1>5, <1>6, <1>10 DEF Behind, Process
  <2>2. \A q \in {"ui", "flight"} : pc'[q] \in {"me", "refresh", "save"} =>
          pc[q] \in {"me", "refresh", "save"} /\ tok'[q].refresh = tok[q].refresh
    BY <1>6 DEF Process
  <2> QED  BY <1>8, <1>18, <1>19, <2>1, <2>2 DEF TokensCurrent
<1>31. GivenUpEnded'
  <2>1. Doomed
    BY <1>5 DEF Doomed
  <2>2. pc["ui"] \in {"launch", "read", "clear", "wipe", "ack", "save"} =>
          pc'["ui"] \in {"launch", "read", "clear", "wipe", "ack", "save"}
    BY <1>6 DEF Process
  <2> QED  BY <1>8, <1>18, <1>19, <2>1, <2>2 DEF GivenUpEnded
<1> QED
  BY <1>21, <1>22, <1>23, <1>24, <1>25, <1>26, <1>27, <1>28, <1>29, <1>30, <1>31 DEF StoreStands

LEMMA SessBind ==
    ASSUME SessInv, Held', NEW p \in Process, Bind(p) PROVE SessInv'
<1> SUFFICES ASSUME "overlap" \notin lapses'
             PROVE  /\ Quiet' /\ RowsOwned' /\ StoreStands' /\ \E a \in Account \cup {Nil} : Owned(a)'
                    /\ WipeDue' /\ TokensCurrent' /\ GivenUpEnded'
  BY DEF SessInv, Apart, WipeDue, TokensCurrent, GivenUpEnded
<1> USE DEF SessInv, Held, TypeOK, Bind, EnterBound, Goto, Hold, server, secure, sqlite, bounds,
       history
<1>1. "overlap" \notin lapses
  OBVIOUS
<1>2. Quiet /\ RowsOwned /\ Clearing /\ Saving /\ Marked /\ InUse /\ GivenUpBy
  BY <1>1 DEF Apart, StoreStands
<1>3. PICK a \in Account \cup {Nil} : Owned(a)
  BY <1>1 DEF Apart
<1>4. pc["ui"] \in {"save", "read", "signedout", "ack", "me", "refresh", "bind", "rebind", "clear"} =>
        pc["flight"] = "idle" /\ \A w \in Work : pc[w] = "idle"
  BY <1>2, AtRest
<1>5. /\ pc[p] = "bind" /\ p # "flight" /\ Full(tok[p]) /\ tok[p].user = a /\ a # Nil /\ a \in Account
      /\ p = "ui" => ~ Doomed /\ goal = Nil
  <2>1. pc[p] = "bind" /\ p # "flight" /\ p = "ui" => ~ Doomed /\ goal = Nil
    BY <1>2 DEF StepsTyped, FlightPC, InUse, UiStands
  <2>2. pc[p] = "bind"
    OBVIOUS
  <2>3. p # "flight"
    BY <2>2 DEF StepsTyped, FlightPC
  <2>4. Full(tok[p])
    BY <2>2 DEF StepsHold, StepHolds, Fits
  <2> QED  BY <1>3, <2>1, <2>2, <2>3, <2>4 DEF Full, Owned, Of
<1>7. \/ /\ bound = a /\ UNCHANGED <<data, edits, bound>>
         /\ tok' = [tok EXCEPT ![p] = None]
         /\ \/ p = "ui" /\ pc' = [pc EXCEPT ![p] = "in"] /\ shown' = a
            \/ p # "ui" /\ pc' = [pc EXCEPT ![p] = "claim"] /\ shown' = shown
      \/ /\ bound # a /\ data' = {} /\ edits' = {} /\ bound' = Nil
         /\ pc' = [pc EXCEPT ![p] = "rebind"] /\ UNCHANGED <<tok, shown>>
  BY <1>5
<1>8. UNCHANGED <<pairs, store, marker, carry, goal, lapses>>
  OBVIOUS
<1>9. left' = left
  OBVIOUS
<1>18. UNCHANGED <<pairs, revoked, ended>>
  OBVIOUS
<1>19. /\ \A b : SessionsOf(b)' = SessionsOf(b)
       /\ \A m : Current(m)' <=> Current(m)
  BY <1>18, SameTokens
<1> HIDE DEF Bind
<1>21. Quiet'
  BY <1>2, MobileSessionAssumption, <1>5, <1>7, <1>8 DEF Quiet, StepsTyped, Process
<1>22. RowsOwned'
  <2>1. CASE bound = a
    BY <1>2, <1>7, <1>8, <2>1 DEF RowsOwned
  <2>2. CASE bound # a
    <3>1. \A w \in Work : pc[w] \notin Entered
      BY <1>3, <2>2 DEF Owned
    <3>2. \A w \in Work : carry[w] = {}
      BY <3>1 DEF StepsHold, CarriesLate, Entered, StepsTyped, WorkPC
    <3> QED  BY <1>7, <1>8, <2>2, <3>2 DEF RowsOwned
  <2> QED  BY <2>1, <2>2
<1>23. Clearing'
  <2>1. \A q \in Process : pc'[q] = "clear" => pc[q] = "clear"
    BY <1>7 DEF StepsTyped
  <2> QED  BY <1>2, <1>8, <1>9, <2>1 DEF Clearing, Process
<1>24. Saving'
  <2>1. pc'["ui"] = "save" => pc["ui"] = "save" /\ (pc'["flight"] = "clear" => pc["flight"] = "clear")
    BY <1>2, <1>5, <1>7 DEF StepsTyped, Process
  <2> QED  BY <1>2, <1>8, <1>9, <2>1 DEF Saving
<1>25. Marked'
  BY <1>2, MobileSessionAssumption, NoneHeld, <1>5, <1>7, <1>8
     DEF Marked, StepsTyped, DeviceTyped, Process
<1>26. InUse'
  BY <1>2, MobileSessionAssumption, NoneHeld, <1>5, <1>7, <1>8
     DEF InUse, Doomed, Full, StepsTyped, DeviceTyped, Process
<1>27. GivenUpBy'
  BY <1>2, MobileSessionAssumption, NoneHeld, <1>5, <1>7, <1>8
     DEF GivenUpBy, Doomed, Full, StepsTyped, DeviceTyped, Process
<1>28. Owned(a)'
  <2>1. Of(store, a)'
    BY <1>3, <1>8 DEF Owned, Of
  <2>2. \A q \in Process : Of(tok[q], a)'
    BY <1>3, <1>7, <1>8, NoneHeld DEF Owned, Of, MemoryTyped, Process
  <2>3. \A v \in Work : pc'[v] \in Entered => bound' = a
    BY <1>3, <1>5, <1>7, <1>8, MobileSessionAssumption DEF Owned, Entered, StepsTyped, Process
  <2>4. pc'["ui"] \in Inside \/ (pc'["ui"] = "save" /\ goal' = "password")
          => shown' = a /\ bound' = a
    BY <1>2, <1>3, <1>5, <1>7, <1>8, MobileSessionAssumption DEF Owned, Inside, UiStands, StepsTyped, Process
  <2>5. lapses' = {} => bound' \in {Nil, a}
    BY <1>3, <1>7, <1>8 DEF Owned
  <2>6. \A q \in Process : pc'[q] = "rebind" => bound' \in {Nil, a}
    BY <1>3, <1>5, <1>7, <1>8 DEF Owned, StepsTyped
  <2> QED  BY <2>1, <2>2, <2>3, <2>4, <2>5, <2>6 DEF Owned
<1>29. WipeDue'
  <2>1. ~ Empty
    BY <1>5, <1>7 DEF Empty, Process
  <2>2. \A q \in Process : pc[q] = "clear" => pc'[q] = "clear" /\ left'[q] = left[q]
    BY <1>5, <1>7, <1>9 DEF StepsTyped, MemoryTyped
  <2> QED  BY <1>8, <2>1, <2>2 DEF WipeDue
<1>30. TokensCurrent'
  <2>2. Behind("ui") \/ Behind("flight") => Behind("ui")' \/ Behind("flight")'
    BY <1>5, <1>7, <1>9 DEF Behind, StepsTyped, MemoryTyped, Process
  <2>3. \A q \in {"ui", "flight"} : pc'[q] \in {"me", "refresh", "save"} =>
          pc[q] \in {"me", "refresh", "save"} /\ tok'[q].refresh = tok[q].refresh
    BY <1>5, <1>7, <1>9, MobileSessionAssumption DEF StepsTyped, MemoryTyped, Process
  <2> QED  BY <1>8, <1>18, <1>19, <2>2, <2>3 DEF TokensCurrent
<1>31. GivenUpEnded'
  BY <1>2, MobileSessionAssumption, <1>5, <1>7, <1>8, <1>18, <1>19
     DEF GivenUpEnded, Doomed, StepsTyped, Process
<1> QED
  BY <1>21, <1>22, <1>23, <1>24, <1>25, <1>26, <1>27, <1>28, <1>29, <1>30, <1>31 DEF StoreStands

LEMMA SessRebind ==
    ASSUME SessInv, Held', NEW p \in Process, Rebind(p) PROVE SessInv'
<1> SUFFICES ASSUME "overlap" \notin lapses'
             PROVE  /\ Quiet' /\ RowsOwned' /\ StoreStands' /\ \E a \in Account \cup {Nil} : Owned(a)'
                    /\ WipeDue' /\ TokensCurrent' /\ GivenUpEnded'
  BY DEF SessInv, Apart, WipeDue, TokensCurrent, GivenUpEnded
<1> USE DEF SessInv, Held, TypeOK, Rebind, EnterBound, Goto, Hold, server, secure, bounds, history
<1>1. "overlap" \notin lapses
  OBVIOUS
<1>2. Quiet /\ RowsOwned /\ Clearing /\ Saving /\ Marked /\ InUse /\ GivenUpBy
  BY <1>1 DEF Apart, StoreStands
<1>3. PICK a \in Account \cup {Nil} : Owned(a)
  BY <1>1 DEF Apart
<1>4. pc["ui"] \in {"save", "read", "signedout", "ack", "me", "refresh", "bind", "rebind", "clear"} =>
        pc["flight"] = "idle" /\ \A w \in Work : pc[w] = "idle"
  BY <1>2, AtRest
<1>5. /\ pc[p] = "rebind" /\ p # "flight" /\ Full(tok[p]) /\ tok[p].user = a /\ a # Nil /\ a \in Account
      /\ p = "ui" => ~ Doomed /\ goal = Nil
  <2>1. pc[p] = "rebind" /\ p # "flight" /\ p = "ui" => ~ Doomed /\ goal = Nil
    BY <1>2 DEF StepsTyped, FlightPC, InUse, UiStands
  <2>2. pc[p] = "rebind"
    OBVIOUS
  <2>3. p # "flight"
    BY <2>2 DEF StepsTyped, FlightPC
  <2>4. Full(tok[p])
    BY <2>2 DEF StepsHold, StepHolds, Fits
  <2> QED  BY <1>3, <2>1, <2>2, <2>3, <2>4 DEF Full, Owned, Of
<1>7. /\ bound' = a
      /\ tok' = [tok EXCEPT ![p] = None]
      /\ \/ p = "ui" /\ pc' = [pc EXCEPT ![p] = "in"] /\ shown' = a
         \/ p # "ui" /\ pc' = [pc EXCEPT ![p] = "claim"] /\ shown' = shown
  BY <1>5
<1>8. UNCHANGED <<pairs, store, marker, data, edits, carry, goal, lapses>>
  OBVIOUS
<1>9. left' = left
  OBVIOUS
<1>10. bound \in {Nil, a}
  BY <1>3, <1>5 DEF Owned
<1>18. UNCHANGED <<pairs, revoked, ended>>
  OBVIOUS
<1>19. /\ \A b : SessionsOf(b)' = SessionsOf(b)
       /\ \A m : Current(m)' <=> Current(m)
  BY <1>18, SameTokens
<1> HIDE DEF Rebind
<1>21. Quiet'
  BY <1>2, MobileSessionAssumption, <1>5, <1>7, <1>8 DEF Quiet, StepsTyped, Process
<1>22. RowsOwned'
  <2>1. CASE bound = a
    BY <1>2, <1>7, <1>8, <2>1 DEF RowsOwned
  <2>2. CASE bound = Nil
    <3>1. data = {} /\ edits = {}
      BY <1>2, <2>2, MobileSessionAssumption DEF RowsOwned, DeviceTyped, Edit
    <3>2. \A w \in Work : carry[w] = {}
      BY <1>2, <2>2, MobileSessionAssumption DEF RowsOwned, MemoryTyped, Edit
    <3> QED  BY <1>7, <1>8, <3>1, <3>2 DEF RowsOwned
  <2> QED  BY <1>10, <2>1, <2>2
<1>23. Clearing'
  <2>1. \A q \in Process : pc'[q] = "clear" => pc[q] = "clear"
    BY <1>7 DEF StepsTyped
  <2> QED  BY <1>2, <1>8, <1>9, <2>1 DEF Clearing, Process
<1>24. Saving'
  <2>1. pc'["ui"] = "save" => pc["ui"] = "save" /\ (pc'["flight"] = "clear" => pc["flight"] = "clear")
    BY <1>2, <1>5, <1>7 DEF StepsTyped, Process
  <2> QED  BY <1>2, <1>8, <1>9, <2>1 DEF Saving
<1>25. Marked'
  <2>1. pc'["ui"] \notin {"read", "signedout", "ack"}
    BY <1>4, <1>5, <1>7 DEF StepsTyped, Process
  <2> QED  BY <1>2, <1>8, <2>1 DEF Marked
<1>26. InUse'
  BY <1>2, MobileSessionAssumption, NoneHeld, <1>5, <1>7, <1>8
     DEF InUse, Doomed, Full, StepsTyped, DeviceTyped, Process
<1>27. GivenUpBy'
  BY <1>2, MobileSessionAssumption, NoneHeld, <1>5, <1>7, <1>8
     DEF GivenUpBy, Doomed, Full, StepsTyped, DeviceTyped, Process
<1>28. Owned(a)'
  <2>1. Of(store, a)'
    BY <1>3, <1>8 DEF Owned, Of
  <2>2. \A q \in Process : Of(tok[q], a)'
    BY <1>3, <1>7, <1>8, NoneHeld DEF Owned, Of, MemoryTyped, Process
  <2>3. \A v \in Work : pc'[v] \in Entered => bound' = a
    BY <1>3, <1>5, <1>7, <1>8, MobileSessionAssumption DEF Owned, Entered, StepsTyped, Process
  <2>4. pc'["ui"] \in Inside \/ (pc'["ui"] = "save" /\ goal' = "password")
          => shown' = a /\ bound' = a
    BY <1>2, <1>3, <1>5, <1>7, <1>8, MobileSessionAssumption DEF Owned, Inside, UiStands, StepsTyped, Process
  <2>5. lapses' = {} => bound' \in {Nil, a}
    BY <1>3, <1>7, <1>8 DEF Owned
  <2>6. \A q \in Process : pc'[q] = "rebind" => bound' \in {Nil, a}
    BY <1>3, <1>5, <1>7, <1>8 DEF Owned, StepsTyped
  <2> QED  BY <2>1, <2>2, <2>3, <2>4, <2>5, <2>6 DEF Owned
<1>29. WipeDue'
  <2>1. ~ Empty
    BY <1>5, <1>7 DEF Empty, Process
  <2>2. \A q \in Process : pc[q] = "clear" => pc'[q] = "clear" /\ left'[q] = left[q]
    BY <1>5, <1>7, <1>9 DEF StepsTyped, MemoryTyped
  <2> QED  BY <1>8, <2>1, <2>2 DEF WipeDue
<1>30. TokensCurrent'
  <2>2. Behind("ui") \/ Behind("flight") => Behind("ui")' \/ Behind("flight")'
    BY <1>5, <1>7, <1>9 DEF Behind, StepsTyped, MemoryTyped, Process
  <2>3. \A q \in {"ui", "flight"} : pc'[q] \in {"me", "refresh", "save"} =>
          pc[q] \in {"me", "refresh", "save"} /\ tok'[q].refresh = tok[q].refresh
    BY <1>5, <1>7, <1>9, MobileSessionAssumption DEF StepsTyped, MemoryTyped, Process
  <2> QED  BY <1>8, <1>18, <1>19, <2>2, <2>3 DEF TokensCurrent
<1>31. GivenUpEnded'
  <2>1. CASE p = "ui"
    <3>1. ~ Doomed'
      BY <1>5, <1>7, <1>8, <2>1 DEF Doomed, StepsTyped
    <3> QED  BY <3>1 DEF GivenUpEnded
  <2>2. CASE p # "ui" /\ bound = a
    <3>1. Doomed' => Doomed
      BY <1>7, <1>8 DEF Doomed, StepsTyped
    <3>2. pc'["ui"] = pc["ui"]
      BY <1>7, <2>2 DEF StepsTyped, Process
    <3> QED  BY <1>7, <1>8, <1>18, <1>19, <2>2, <3>1, <3>2 DEF GivenUpEnded
  <2>3. CASE p # "ui" /\ bound = Nil
    <3>1. edits = {}
      BY <1>2, <2>3, MobileSessionAssumption DEF RowsOwned, DeviceTyped, Edit
    <3>2. pc["ui"] \notin {"in", "drain"}
      BY <1>3, <1>5, <2>3 DEF Owned, Inside
    <3>3. pc["ui"] = "launch"
      BY <1>2, <1>5, <2>3, <3>2 DEF Quiet, Process
    <3>4. pc'["ui"] = "launch" /\ edits' = {}
      BY <1>7, <1>8, <2>3, <3>1, <3>3 DEF StepsTyped, Process
    <3> QED  BY <3>4 DEF GivenUpEnded
  <2> QED  BY <1>10, <2>1, <2>2, <2>3
<1> QED
  BY <1>21, <1>22, <1>23, <1>24, <1>25, <1>26, <1>27, <1>28, <1>29, <1>30, <1>31 DEF StoreStands

LEMMA SessSendCall ==
    ASSUME SessInv, Held', NEW p \in Process, SendCall(p) PROVE SessInv'
<1> SUFFICES ASSUME "overlap" \notin lapses'
             PROVE  /\ Quiet' /\ RowsOwned' /\ StoreStands' /\ \E a \in Account \cup {Nil} : Owned(a)'
                    /\ WipeDue' /\ TokensCurrent' /\ GivenUpEnded'
  BY DEF SessInv, Apart, WipeDue, TokensCurrent, GivenUpEnded
<1> USE DEF SessInv, Held, TypeOK, SendCall, GiveUp, Goto, Hold, CallRest, server, secure, sqlite,
       history
<1>1. "overlap" \notin lapses
  OBVIOUS
<1>2. Quiet /\ RowsOwned /\ Clearing /\ Saving /\ Marked /\ InUse /\ GivenUpBy
  BY <1>1 DEF Apart, StoreStands
<1>3. PICK a \in Account \cup {Nil} : Owned(a)
  BY <1>1 DEF Apart
<1>5. /\ pc[p] = "call" /\ p # "flight"
      /\ p = "ui" => pc["flight"] = "idle" /\ \A w \in Work : pc[w] = "idle"
  <2>1. pc[p] = "call"
    OBVIOUS
  <2>2. p # "flight"
    BY <2>1 DEF StepsTyped, FlightPC
  <2>3. p = "ui" => pc["flight"] = "idle" /\ \A w \in Work : pc[w] = "idle"
    BY <1>2, <2>1, AtRest
  <2> QED  BY <2>1, <2>2, <2>3
<1>6. \A w \in Work : carry'[w] \subseteq carry[w]
  BY DEF MemoryTyped
<1>7. \/ /\ tok' = [tok EXCEPT ![p] = None]
         /\ \/ p = "ui" /\ pc' = [pc EXCEPT ![p] = "in"] /\ goal' = Nil /\ carry' = carry
            \/ p # "ui" /\ pc' = [pc EXCEPT ![p] = "idle"] /\ goal' = goal /\ carry' = [carry EXCEPT ![p] = {}]
      \/ /\ store.access # 0 /\ UNCHANGED <<carry, goal>>
         /\ pc' = [pc EXCEPT ![p] = "sent"] /\ tok' = [tok EXCEPT ![p] = store]
  OBVIOUS
<1>8. UNCHANGED <<pairs, store, marker, data, edits, bound, shown, lapses>>
  OBVIOUS
<1>9. left' = left
  OBVIOUS
<1>18. UNCHANGED <<pairs, revoked, ended>>
  OBVIOUS
<1>19. /\ \A b : SessionsOf(b)' = SessionsOf(b)
       /\ \A m : Current(m)' <=> Current(m)
  BY <1>18, SameTokens
<1> HIDE DEF SendCall
<1>21. Quiet'
  BY <1>2, MobileSessionAssumption, <1>5, <1>7, <1>8 DEF Quiet, StepsTyped, Process
<1>22. RowsOwned'
  BY <1>2, <1>6, <1>8 DEF RowsOwned
<1>23. Clearing'
  <2>1. \A q \in Process : pc'[q] = "clear" => pc[q] = "clear"
    BY <1>7 DEF StepsTyped
  <2> QED  BY <1>2, <1>8, <1>9, <2>1 DEF Clearing, Process
<1>24. Saving'
  <2>1. pc'["ui"] = "save" => pc["ui"] = "save" /\ (pc'["flight"] = "clear" => pc["flight"] = "clear")
    BY <1>2, <1>7 DEF StepsTyped, Process
  <2> QED  BY <1>2, <1>8, <1>9, <2>1 DEF Saving
<1>25. Marked'
  BY <1>2, MobileSessionAssumption, NoneHeld, <1>5, <1>7, <1>8
     DEF Marked, StepsTyped, DeviceTyped, Process
<1>26. InUse'
  <2>1. Doomed' => Doomed
    BY <1>7, <1>8 DEF Doomed, StepsTyped
  <2>2. p = "ui" /\ store.access # 0 => ~ Doomed
    BY <1>2, <1>5 DEF GivenUpBy
  <2> QED  BY <1>2, <1>5, <1>7, <2>1, <2>2 DEF InUse, StepsTyped, Process
<1>27. GivenUpBy'
  BY <1>2, MobileSessionAssumption, NoneHeld, <1>5, <1>7, <1>8
     DEF GivenUpBy, Doomed, Full, StepsTyped, DeviceTyped, Process
<1>28. Owned(a)'
  <2>1. Of(store, a)'
    BY <1>3, <1>8 DEF Owned, Of
  <2>2. \A q \in Process : Of(tok[q], a)'
    BY <1>3, <1>7, <1>8, NoneHeld DEF Owned, Of, MemoryTyped, Process
  <2>3. \A v \in Work : pc'[v] \in Entered => bound' = a
    BY <1>3, <1>5, <1>7, <1>8, MobileSessionAssumption DEF Owned, Entered, StepsTyped, Process
  <2>4. pc'["ui"] \in Inside \/ (pc'["ui"] = "save" /\ goal' = "password")
          => shown' = a /\ bound' = a
    BY <1>2, <1>3, <1>5, <1>7, <1>8, MobileSessionAssumption DEF Owned, Inside, UiStands, StepsTyped, Process
  <2>5. lapses' = {} => bound' \in {Nil, a}
    BY <1>3, <1>7, <1>8 DEF Owned
  <2>6. \A q \in Process : pc'[q] = "rebind" => bound' \in {Nil, a}
    BY <1>3, <1>5, <1>7, <1>8 DEF Owned, StepsTyped
  <2> QED  BY <2>1, <2>2, <2>3, <2>4, <2>5, <2>6 DEF Owned
<1>29. WipeDue'
  <2>1. ~ Empty
    BY <1>5, <1>7 DEF Empty, Process
  <2>2. \A q \in Process : pc[q] = "clear" => pc'[q] = "clear" /\ left'[q] = left[q]
    BY <1>5, <1>7, <1>9 DEF StepsTyped, MemoryTyped
  <2> QED  BY <1>8, <2>1, <2>2 DEF WipeDue
<1>30. TokensCurrent'
  <2>2. Behind("ui") \/ Behind("flight") => Behind("ui")' \/ Behind("flight")'
    BY <1>5, <1>7, <1>9 DEF Behind, StepsTyped, MemoryTyped, Process
  <2>3. \A q \in {"ui", "flight"} : pc'[q] \in {"me", "refresh", "save"} =>
          pc[q] \in {"me", "refresh", "save"} /\ tok'[q].refresh = tok[q].refresh
    BY <1>5, <1>7, <1>9, MobileSessionAssumption DEF StepsTyped, MemoryTyped, Process
  <2> QED  BY <1>8, <1>18, <1>19, <2>2, <2>3 DEF TokensCurrent
<1>31. GivenUpEnded'
  <2>1. Doomed' => Doomed
    BY <1>7, <1>8 DEF Doomed, StepsTyped
  <2>2. pc["ui"] \in {"launch", "read", "clear", "wipe", "ack", "save"} => pc'["ui"] = pc["ui"]
    BY <1>5, <1>7 DEF StepsTyped, Process
  <2> QED  BY <1>8, <1>18, <1>19, <2>1, <2>2 DEF GivenUpEnded
<1> QED
  BY <1>21, <1>22, <1>23, <1>24, <1>25, <1>26, <1>27, <1>28, <1>29, <1>30, <1>31 DEF StoreStands

LEMMA SessAnswered ==
    ASSUME SessInv, Held', NEW p \in Process, Answered(p) PROVE SessInv'
<1> SUFFICES ASSUME "overlap" \notin lapses'
             PROVE  /\ Quiet' /\ RowsOwned' /\ StoreStands' /\ \E a \in Account \cup {Nil} : Owned(a)'
                    /\ WipeDue' /\ TokensCurrent' /\ GivenUpEnded'
  BY DEF SessInv, Apart, WipeDue, TokensCurrent, GivenUpEnded
<1> USE DEF SessInv, Held, TypeOK, Answered, Serve, EndSessions, BeginClear, GiveUp, Goto, Hold,
       LoseAnswer, secure, sqlite
<1>1. "overlap" \notin lapses
  OBVIOUS
<1>2. Quiet /\ RowsOwned /\ Clearing /\ Saving /\ Marked /\ InUse /\ GivenUpBy
  BY <1>1 DEF Apart, StoreStands
<1>3. PICK a \in Account \cup {Nil} : Owned(a)
  BY <1>1 DEF Apart
<1>5. /\ pc[p] \in {"sent", "resent"} /\ p # "flight"
      /\ p = "ui" => pc["flight"] = "idle" /\ \A w \in Work : pc[w] = "idle"
  <2>1. pc[p] \in {"sent", "resent"}
    OBVIOUS
  <2>2. p # "flight"
    BY <2>1 DEF StepsTyped, FlightPC
  <2>3. p = "ui" => pc["flight"] = "idle" /\ \A w \in Work : pc[w] = "idle"
    BY <1>2, <2>1, AtRest
  <2> QED  BY <2>1, <2>2, <2>3
<1>6. \A w \in Work : carry'[w] \subseteq carry[w]
  <2>1. carry' = carry \/ carry' = [carry EXCEPT ![p] = {}]
    OBVIOUS
  <2> HIDE DEF Answered
  <2> QED  BY <2>1 DEF MemoryTyped
<1>7. \/ /\ tok' = [tok EXCEPT ![p] = None]
         /\ \/ p = "ui" /\ pc' = [pc EXCEPT ![p] = "in"] /\ goal' = Nil /\ carry' = carry
            \/ p # "ui" /\ pc' = [pc EXCEPT ![p] = "idle"] /\ goal' = goal /\ carry' = [carry EXCEPT ![p] = {}]
         /\ left' = left
      \/ /\ UNCHANGED <<carry, goal, left>>
         /\ \/ pc' = [pc EXCEPT ![p] = "denied"] /\ tok' = tok
            \/ p # "ui" /\ pc' = [pc EXCEPT ![p] = "persist"] /\ tok' = tok
            \/ p = "ui" /\ pc' = [pc EXCEPT ![p] = "relogin"] /\ tok' = [tok EXCEPT ![p] = None]
      \/ /\ UNCHANGED <<carry, goal>> /\ left' = [left EXCEPT ![p] = Item]
         /\ p = "ui" /\ pc' = [pc EXCEPT ![p] = "clear"] /\ tok' = [tok EXCEPT ![p] = None]
  OBVIOUS
<1>8. UNCHANGED <<pairs, store, marker, data, edits, bound, shown, lapses>>
  OBVIOUS
<1>18. /\ pairs' = pairs /\ ended \subseteq ended' /\ revoked' \subseteq revoked \cup ended'
       /\ pc' = [pc EXCEPT ![p] = "clear"] => SessionsOf(pairs[tok[p].access].acct) \subseteq ended'
  <2>1. Serve(p) => /\ ended \subseteq ended' /\ revoked' \subseteq revoked \cup ended'
                    /\ p = "ui" => SessionsOf(pairs[tok[p].access].acct) \subseteq ended'
    OBVIOUS
  <2>2. \/ Serve(p) /\ (p = "ui" \/ pc' # [pc EXCEPT ![p] = "clear"])
        \/ UNCHANGED <<revoked, ended>> /\ pc' # [pc EXCEPT ![p] = "clear"]
    <3>1. \A l : pc' = [pc EXCEPT ![p] = l] => pc'[p] = l
      BY DEF StepsTyped
    <3> HIDE DEF Serve
    <3> QED  BY <3>1
  <2>3. pairs' = pairs
    OBVIOUS
  <2> HIDE DEF Answered, Serve
  <2> QED  BY <2>1, <2>2, <2>3
<1> HIDE DEF Answered
<1>19. (\A b : SessionsOf(b)' = SessionsOf(b)) /\ \A m : Current(m) => Current(m)'
  BY <1>18, MoreEnded
<1>9. \A q \in Process : pc[q] = "clear" => pc'[q] = "clear" /\ left'[q] = left[q]
  BY <1>5, <1>7 DEF StepsTyped, MemoryTyped
<1>21. Quiet'
  BY <1>2, MobileSessionAssumption, <1>5, <1>7, <1>8 DEF Quiet, StepsTyped, Process
<1>22. RowsOwned'
  BY <1>2, <1>6, <1>8 DEF RowsOwned
<1>23. Clearing'
  <2>1. \A q \in Process : pc'[q] = "clear" => \/ pc[q] = "clear" /\ left'[q] = left[q]
                                               \/ q = "ui" /\ left'[q] = Item
    BY <1>5, <1>7 DEF StepsTyped, MemoryTyped
  <2>2. \A w \in Work : pc'[w] = "clear" => pc[w] = "clear"
    BY <2>1, MobileSessionAssumption DEF Process
  <2> QED  BY <1>2, <1>8, <2>1, <2>2, RemainingApart DEF Clearing
<1>24. Saving'
  <2>1. pc'["ui"] = "save" => /\ pc["ui"] = "save" /\ (pc'["flight"] = "clear" => pc["flight"] = "clear")
                              /\ p # "ui" /\ left'["ui"] = left["ui"]
    BY <1>5, <1>7 DEF StepsTyped, Process
  <2> QED  BY <1>2, <1>8, <2>1 DEF Saving
<1>25. Marked'
  BY <1>2, MobileSessionAssumption, NoneHeld, <1>5, <1>7, <1>8
     DEF Marked, StepsTyped, DeviceTyped, Process
<1>26. InUse'
  <2>1. CASE p = "ui"
    <3>1. ~ Doomed
      BY <1>2, <1>5, <2>1 DEF InUse
    <3>2. pc'["ui"] # "clear" => ~ Doomed'
      BY <1>5, <1>7, <1>8, <2>1, <3>1 DEF Doomed, StepsTyped, Process
    <3>3. pc'["flight"] = "idle"
      BY <1>5, <1>7, <2>1 DEF StepsTyped, Process
    <3> QED  BY <3>2, <3>3 DEF InUse
  <2>2. CASE p # "ui"
    <3>1. Doomed' => Doomed
      BY <1>7, <1>8, <2>2 DEF Doomed, StepsTyped
    <3>2. pc'["ui"] = pc["ui"] /\ pc'["flight"] = pc["flight"]
      BY <1>5, <1>7, <2>2 DEF StepsTyped, Process
    <3> QED  BY <1>2, <3>1, <3>2 DEF InUse
  <2> QED  BY <2>1, <2>2
<1>27. GivenUpBy'
  <2>1. CASE p = "ui"
    <3>1. ~ Doomed /\ \A w \in Work : pc'[w] = "idle"
      BY <1>2, <1>5, <1>7, <2>1, MobileSessionAssumption DEF InUse, StepsTyped, Process
    <3>2. pc'["ui"] # "clear" => ~ Doomed'
      BY <1>5, <1>7, <1>8, <2>1, <3>1 DEF Doomed, StepsTyped, Process
    <3>3. pc'["flight"] = "idle"
      BY <1>5, <1>7, <2>1 DEF StepsTyped, Process
    <3> QED  BY <3>1, <3>2, <3>3 DEF GivenUpBy
  <2>2. CASE p # "ui"
    <3>1. Doomed' => Doomed
      BY <1>7, <1>8, <2>2 DEF Doomed, StepsTyped
    <3>2. pc'["ui"] = pc["ui"] /\ pc'["flight"] = pc["flight"] /\ p \in Work
      BY <1>5, <1>7, <2>2 DEF StepsTyped, Process
    <3> QED  BY <1>2, <1>5, <1>8, <3>1, <3>2 DEF GivenUpBy
  <2> QED  BY <2>1, <2>2
<1>28. Owned(a)'
  <2>1. Of(store, a)'
    BY <1>3, <1>8 DEF Owned, Of
  <2>2. \A q \in Process : Of(tok[q], a)'
    BY <1>3, <1>7, <1>8, NoneHeld DEF Owned, Of, MemoryTyped, Process
  <2>3. \A v \in Work : pc'[v] \in Entered => bound' = a
    BY <1>3, <1>5, <1>7, <1>8, MobileSessionAssumption DEF Owned, Entered, StepsTyped, Process
  <2>4. pc'["ui"] \in Inside \/ (pc'["ui"] = "save" /\ goal' = "password")
          => shown' = a /\ bound' = a
    BY <1>2, <1>3, <1>5, <1>7, <1>8, MobileSessionAssumption DEF Owned, Inside, UiStands, StepsTyped, Process
  <2>5. lapses' = {} => bound' \in {Nil, a}
    BY <1>3, <1>7, <1>8 DEF Owned
  <2>6. \A q \in Process : pc'[q] = "rebind" => bound' \in {Nil, a}
    BY <1>3, <1>5, <1>7, <1>8 DEF Owned, StepsTyped
  <2> QED  BY <2>1, <2>2, <2>3, <2>4, <2>5, <2>6 DEF Owned
<1>29. WipeDue'
  <2>1. ~ Empty
    BY <1>5 DEF Empty, Process
  <2> QED  BY <1>8, <1>9, <2>1 DEF WipeDue
<1>30. TokensCurrent'
  <2>2. Behind("ui") \/ Behind("flight") => Behind("ui")' \/ Behind("flight")'
    <3>1. \A q \in {"ui", "flight"} : pc[q] = "save" => pc'[q] = pc[q] /\ left'[q] = left[q]
      BY <1>5, <1>7 DEF StepsTyped, MemoryTyped, Process
    <3> QED  BY <3>1 DEF Behind
  <2>3. \A q \in {"ui", "flight"} : pc'[q] \in {"me", "refresh", "save"} =>
          pc[q] \in {"me", "refresh", "save"} /\ tok'[q].refresh = tok[q].refresh
    BY <1>5, <1>7, MobileSessionAssumption DEF StepsTyped, MemoryTyped, Process
  <2> QED  BY <1>8, <1>18, <1>19, <2>2, <2>3 DEF TokensCurrent
<1>31. GivenUpEnded'
  <2>1. CASE p = "ui" /\ pc'["ui"] = "clear"
    <3>1. pc' = [pc EXCEPT ![p] = "clear"]
      BY <1>5, <1>7, <2>1 DEF StepsTyped, Process
    <3>2. pairs[tok[p].access].acct = a
      BY <1>3, <1>5 DEF Owned, Of, StepsHold, StepHolds, Fits
    <3>3. lapses' = {} => bound' \in {Nil, a}
      BY <1>3, <1>8 DEF Owned
    <3> QED  BY <1>18, <1>19, <3>1, <3>2, <3>3 DEF GivenUpEnded
  <2>2. CASE p = "ui" /\ pc'["ui"] # "clear"
    <3>1. ~ Doomed'
      <4>1. ~ Doomed
        BY <1>2, <1>5, <2>2 DEF InUse
      <4> QED  BY <1>7, <1>8, <2>2, <4>1 DEF Doomed, StepsTyped
    <3> QED  BY <3>1 DEF GivenUpEnded
  <2>3. CASE p # "ui"
    <3>1. Doomed' => Doomed
      BY <1>7, <1>8, <2>3 DEF Doomed, StepsTyped
    <3>2. pc'["ui"] = pc["ui"]
      BY <1>7, <2>3 DEF StepsTyped, Process
    <3> QED  BY <1>8, <1>18, <1>19, <3>1, <3>2 DEF GivenUpEnded
  <2> QED  BY <2>1, <2>2, <2>3
<1> QED
  BY <1>21, <1>22, <1>23, <1>24, <1>25, <1>26, <1>27, <1>28, <1>29, <1>30, <1>31 DEF StoreStands

LEMMA SessDenied ==
    ASSUME SessInv, Held', NEW p \in Process, Denied(p) PROVE SessInv'
<1> SUFFICES ASSUME "overlap" \notin lapses'
             PROVE  /\ Quiet' /\ RowsOwned' /\ StoreStands' /\ \E a \in Account \cup {Nil} : Owned(a)'
                    /\ WipeDue' /\ TokensCurrent' /\ GivenUpEnded'
  BY DEF SessInv, Apart, WipeDue, TokensCurrent, GivenUpEnded
<1> USE DEF SessInv, Held, TypeOK, Denied, Goto, Hold, CallRest, server, secure, sqlite, history
<1>1. "overlap" \notin lapses
  OBVIOUS
<1>2. Quiet /\ RowsOwned /\ Clearing /\ Saving /\ Marked /\ InUse /\ GivenUpBy
  BY <1>1 DEF Apart, StoreStands
<1>3. PICK a \in Account \cup {Nil} : Owned(a)
  BY <1>1 DEF Apart
<1>5. /\ pc[p] = "denied" /\ p # "flight"
      /\ p = "ui" => pc["flight"] = "idle" /\ \A w \in Work : pc[w] = "idle"
  <2>1. pc[p] = "denied"
    OBVIOUS
  <2>2. p # "flight"
    BY <2>1 DEF StepsTyped, FlightPC
  <2>3. p = "ui" => pc["flight"] = "idle" /\ \A w \in Work : pc[w] = "idle"
    BY <1>2, <2>1, AtRest
  <2> QED  BY <2>1, <2>2, <2>3
<1>7. \/ pc' = [pc EXCEPT ![p] = "resent"] /\ tok' = [tok EXCEPT ![p] = store]
      \/ /\ pc' = [pc EXCEPT ![p] = "await", !["flight"] = IF @ = "idle" THEN "read" ELSE @]
         /\ tok' = [tok EXCEPT ![p] = None]
  OBVIOUS
<1>8. UNCHANGED <<pairs, store, marker, data, edits, bound, carry, shown, goal, accepting, lapses>>
  OBVIOUS
<1>9. left' = left
  OBVIOUS
<1>10. \A q \in Process : \/ q = p /\ pc'[q] \in {"resent", "await"}
                          \/ q = "flight" /\ pc[q] = "idle" /\ pc'[q] = "read"
                          \/ q # p /\ pc'[q] = pc[q]
  BY <1>5, <1>7 DEF StepsTyped
<1>18. UNCHANGED <<pairs, revoked, ended>>
  OBVIOUS
<1>19. /\ \A b : SessionsOf(b)' = SessionsOf(b)
       /\ \A m : Current(m)' <=> Current(m)
  BY <1>18, SameTokens
<1> HIDE DEF Denied
<1>21. Quiet'
  BY <1>2, MobileSessionAssumption, <1>5, <1>10, <1>8 DEF Quiet, StepsTyped, Process
<1>22. RowsOwned'
  BY <1>2, <1>3, MobileSessionAssumption, <1>5, <1>10, <1>8
     DEF RowsOwned, Quiet, Owned, StepsTyped, MemoryTyped, Process, Entered
<1>23. Clearing'
  <2>1. \A q \in Process : pc'[q] = "clear" => pc[q] = "clear"
    BY <1>10
  <2> QED  BY <1>2, <1>8, <1>9, <2>1 DEF Clearing, Process
<1>24. Saving'
  <2>1. pc'["ui"] = "save" => pc["ui"] = "save" /\ (pc'["flight"] = "clear" => pc["flight"] = "clear")
    BY <1>10 DEF Process
  <2> QED  BY <1>2, <1>8, <1>9, <2>1 DEF Saving
<1>25. Marked'
  BY <1>2, MobileSessionAssumption, NoneHeld, <1>5, <1>10, <1>8
     DEF Marked, StepsTyped, DeviceTyped, Process
<1>26. InUse'
  BY <1>2, MobileSessionAssumption, NoneHeld, <1>5, <1>10, <1>8
     DEF InUse, Doomed, Full, StepsTyped, DeviceTyped, Process
<1>27. GivenUpBy'
  BY <1>2, MobileSessionAssumption, NoneHeld, <1>5, <1>10, <1>8
     DEF GivenUpBy, Doomed, Full, StepsTyped, DeviceTyped, Process
<1>28. Owned(a)'
  <2>1. Of(store, a)'
    BY <1>3, <1>8 DEF Owned, Of
  <2>2. \A q \in Process : Of(tok[q], a)'
    BY <1>3, <1>7, <1>8, NoneHeld DEF Owned, Of, MemoryTyped, Process
  <2>3. \A v \in Work : pc'[v] \in Entered => bound' = a
    BY <1>3, <1>5, <1>10, <1>8, MobileSessionAssumption DEF Owned, Entered, StepsTyped, Process
  <2>4. pc'["ui"] \in Inside \/ (pc'["ui"] = "save" /\ goal' = "password")
          => shown' = a /\ bound' = a
    BY <1>2, <1>3, <1>5, <1>10, <1>8, MobileSessionAssumption DEF Owned, Inside, UiStands, StepsTyped, Process
  <2>5. lapses' = {} => bound' \in {Nil, a}
    BY <1>3, <1>7, <1>8 DEF Owned
  <2>6. \A q \in Process : pc'[q] = "rebind" => bound' \in {Nil, a}
    BY <1>3, <1>5, <1>10, <1>8 DEF Owned, StepsTyped
  <2> QED  BY <2>1, <2>2, <2>3, <2>4, <2>5, <2>6 DEF Owned
<1>29. WipeDue'
  <2>1. ~ Empty
    BY <1>5, <1>7 DEF Empty, Process
  <2>2. \A q \in Process : pc[q] = "clear" => pc'[q] = "clear" /\ left'[q] = left[q]
    BY <1>5, <1>9, <1>10 DEF StepsTyped, MemoryTyped
  <2> QED  BY <1>8, <2>1, <2>2 DEF WipeDue
<1>30. TokensCurrent'
  <2>2. Behind("ui") \/ Behind("flight") => Behind("ui")' \/ Behind("flight")'
    BY <1>5, <1>7, <1>9, <1>10 DEF Behind, StepsTyped, MemoryTyped, Process
  <2>3. \A q \in {"ui", "flight"} : pc'[q] \in {"me", "refresh", "save"} =>
          pc[q] \in {"me", "refresh", "save"} /\ tok'[q].refresh = tok[q].refresh
    BY <1>5, <1>7, <1>9, <1>10, MobileSessionAssumption DEF StepsTyped, MemoryTyped, Process
  <2> QED  BY <1>8, <1>18, <1>19, <2>2, <2>3 DEF TokensCurrent
<1>31. GivenUpEnded'
  <2>1. Doomed' => Doomed
    BY <1>8, <1>10 DEF Doomed
  <2>2. pc["ui"] \in {"launch", "read", "clear", "wipe", "ack", "save"} => pc'["ui"] = pc["ui"]
    BY <1>5, <1>10 DEF StepsTyped, Process
  <2> QED  BY <1>8, <1>18, <1>19, <2>1, <2>2 DEF GivenUpEnded
<1> QED
  BY <1>21, <1>22, <1>23, <1>24, <1>25, <1>26, <1>27, <1>28, <1>29, <1>30, <1>31 DEF StoreStands

LEMMA SessFlightRead ==
    ASSUME SessInv, Held', FlightRead PROVE SessInv'
<1> SUFFICES ASSUME "overlap" \notin lapses'
             PROVE  /\ Quiet' /\ RowsOwned' /\ StoreStands' /\ \E a \in Account \cup {Nil} : Owned(a)'
                    /\ WipeDue' /\ TokensCurrent' /\ GivenUpEnded'
  BY DEF SessInv, Apart, WipeDue, TokensCurrent, GivenUpEnded
<1> USE DEF SessInv, Held, TypeOK, FlightRead, BeginClear, Goto, Hold, FlightRest, server, secure,
       sqlite
<1>1. "overlap" \notin lapses
  OBVIOUS
<1>2. Quiet /\ RowsOwned /\ Clearing /\ Saving /\ Marked /\ InUse /\ GivenUpBy
  BY <1>1 DEF Apart, StoreStands
<1>3. PICK a \in Account \cup {Nil} : Owned(a)
  BY <1>1 DEF Apart
<1>5. /\ pc["flight"] = "read"
      /\ pc["ui"] \notin {"save", "read", "signedout", "ack", "me", "refresh", "bind", "rebind", "clear",
                          "sent", "denied", "resent", "relogin", "wipe", "revoke", "call"}
  <2>1. pc["flight"] = "read"
    OBVIOUS
  <2> QED  BY <1>2, <2>1, AtRest
<1>7. \/ /\ store.refresh = 0 /\ pc' = [pc EXCEPT !["flight"] = "clear"] /\ tok' = [tok EXCEPT !["flight"] = None]
         /\ left' = [left EXCEPT !["flight"] = Item]
      \/ /\ store.refresh # 0 /\ pc' = [pc EXCEPT !["flight"] = "refresh"]
         /\ tok' = [tok EXCEPT !["flight"] = store] /\ left' = left
  OBVIOUS
<1>8. UNCHANGED <<pairs, store, marker, data, edits, bound, carry, shown, goal, accepting, lapses>>
  OBVIOUS
<1>10. \A q \in Process : \/ q = "flight" /\ pc'[q] = "clear" /\ left'[q] = Item
                          \/ q = "flight" /\ pc'[q] = "refresh" /\ store.refresh # 0 /\ left'[q] = left[q]
                          \/ q # "flight" /\ pc'[q] = pc[q] /\ left'[q] = left[q]
  BY <1>7 DEF StepsTyped, MemoryTyped
<1>11. store.refresh # 0 => ~ Doomed
  BY <1>2, <1>5 DEF GivenUpBy
<1>18. UNCHANGED <<pairs, revoked, ended>>
  OBVIOUS
<1>19. /\ \A b : SessionsOf(b)' = SessionsOf(b)
       /\ \A m : Current(m)' <=> Current(m)
  BY <1>18, SameTokens
<1> HIDE DEF FlightRead
<1>21. Quiet'
  BY <1>2, <1>10, MobileSessionAssumption DEF Quiet, Process
<1>22. RowsOwned'
  BY <1>2, <1>3, MobileSessionAssumption, <1>5, <1>10, <1>8
     DEF RowsOwned, Quiet, Owned, StepsTyped, MemoryTyped, Process, Entered
<1>23. Clearing'
  <2>1. \A q \in Process : pc'[q] = "clear" => \/ pc[q] = "clear" /\ left'[q] = left[q]
                                               \/ q = "flight" /\ left'[q] = Item
    BY <1>10
  <2>2. \A w \in Work : pc'[w] = "clear" => pc[w] = "clear"
    BY <1>10, MobileSessionAssumption DEF Process
  <2> QED  BY <1>2, <1>8, <2>1, <2>2, RemainingApart DEF Clearing
<1>24. Saving'
  BY <1>5, <1>10 DEF Saving, Process
<1>25. Marked'
  BY <1>2, MobileSessionAssumption, NoneHeld, <1>5, <1>10, <1>8
     DEF Marked, StepsTyped, DeviceTyped, Process
<1>26. InUse'
  <2>1. CASE pc'["flight"] = "clear"
    BY <1>5, <1>10, <2>1 DEF InUse, Process
  <2>2. CASE pc'["flight"] # "clear"
    <3>1. Doomed' => Doomed
      BY <1>8, <1>10, <2>2 DEF Doomed
    <3> QED  BY <1>5, <1>10, <1>11, <3>1, <2>2 DEF InUse, Process
  <2> QED  BY <2>1, <2>2
<1>27. GivenUpBy'
  <2>1. CASE pc'["flight"] = "clear"
    BY <2>1 DEF GivenUpBy
  <2>2. CASE pc'["flight"] # "clear"
    <3>1. Doomed' => Doomed
      BY <1>8, <1>10, <2>2 DEF Doomed
    <3> QED  BY <1>5, <1>10, <1>11, <3>1, <2>2 DEF GivenUpBy, Process
  <2> QED  BY <2>1, <2>2
<1>28. Owned(a)'
  <2>1. Of(store, a)'
    BY <1>3, <1>8 DEF Owned, Of
  <2>2. \A q \in Process : Of(tok[q], a)'
    BY <1>3, <1>7, <1>8, NoneHeld DEF Owned, Of, MemoryTyped, Process
  <2>3. \A v \in Work : pc'[v] \in Entered => bound' = a
    BY <1>3, <1>5, <1>10, <1>8, MobileSessionAssumption DEF Owned, Entered, StepsTyped, Process
  <2>4. pc'["ui"] \in Inside \/ (pc'["ui"] = "save" /\ goal' = "password")
          => shown' = a /\ bound' = a
    BY <1>2, <1>3, <1>5, <1>10, <1>8, MobileSessionAssumption DEF Owned, Inside, UiStands, StepsTyped, Process
  <2>5. lapses' = {} => bound' \in {Nil, a}
    BY <1>3, <1>7, <1>8 DEF Owned
  <2>6. \A q \in Process : pc'[q] = "rebind" => bound' \in {Nil, a}
    BY <1>3, <1>5, <1>10, <1>8 DEF Owned, StepsTyped
  <2> QED  BY <2>1, <2>2, <2>3, <2>4, <2>5, <2>6 DEF Owned
<1>29. WipeDue'
  <2>0. \E q \in Process : pc[q] = "await"
    BY <1>5 DEF StepsHold, FlightAwaited
  <2>1. ~ Empty
    BY <1>5, <2>0, MobileSessionAssumption DEF Empty, Process
  <2>2. \A q \in Process : pc[q] = "clear" => pc'[q] = "clear" /\ left'[q] = left[q]
    BY <1>5, <1>10
  <2> QED  BY <1>8, <2>1, <2>2 DEF WipeDue
<1>30. TokensCurrent'
  <2>1. ~ Behind("ui") /\ ~ Behind("flight")
    BY <1>5 DEF Behind
  <2>2. pc'["flight"] = "refresh" => tok'["flight"] = store
    BY <1>7 DEF StepsTyped, MemoryTyped, Process
  <2>3. pc'["ui"] \notin {"me", "refresh", "save"} /\ pc'["flight"] \in {"refresh", "clear"}
    BY <1>5, <1>10 DEF Process
  <2> QED  BY <1>8, <1>18, <1>19, <2>1, <2>2, <2>3 DEF TokensCurrent
<1>31. GivenUpEnded'
  <2>1. Doomed' => Doomed
    <3>1. CASE store.refresh = 0
      BY <3>1 DEF Doomed, Full
    <3>2. CASE store.refresh # 0
      <4>1. \A q \in Process : pc'[q] = "clear" => pc[q] = "clear"
        BY <1>7, <1>10, <3>2 DEF StepsTyped, Process
      <4> QED  BY <1>8, <4>1 DEF Doomed
    <3> QED  BY <3>1, <3>2
  <2>2. pc'["ui"] = pc["ui"]
    BY <1>10 DEF Process
  <2> QED  BY <1>8, <1>18, <1>19, <2>1, <2>2 DEF GivenUpEnded
<1> QED
  BY <1>21, <1>22, <1>23, <1>24, <1>25, <1>26, <1>27, <1>28, <1>29, <1>30, <1>31 DEF StoreStands

LEMMA SessFlightRefresh ==
    ASSUME SessInv, Held', FlightRefresh PROVE SessInv'
<1> SUFFICES ASSUME "overlap" \notin lapses'
             PROVE  /\ Quiet' /\ RowsOwned' /\ StoreStands' /\ \E a \in Account \cup {Nil} : Owned(a)'
                    /\ WipeDue' /\ TokensCurrent' /\ GivenUpEnded'
  BY DEF SessInv, Apart, WipeDue, TokensCurrent, GivenUpEnded
<1> USE DEF SessInv, Held, TypeOK, FlightRefresh, BeginSave, BeginClear, FlightEnds, Waiting, Goto,
       Hold, NextIssued, Refuse, ServerUnchanged, LoseRotation, LoseAnswer, FlightRest, secure,
       sqlite
<1>1. "overlap" \notin lapses
  OBVIOUS
<1>2. Quiet /\ RowsOwned /\ Clearing /\ Saving /\ Marked /\ InUse /\ GivenUpBy
  BY <1>1 DEF Apart, StoreStands
<1>3. PICK a \in Account \cup {Nil} : Owned(a)
  BY <1>1 DEF Apart
<1>5. /\ pc["flight"] = "refresh"
      /\ pc["ui"] \notin {"save", "read", "signedout", "ack", "me", "refresh", "bind", "rebind", "clear",
                          "sent", "denied", "resent", "relogin", "wipe", "revoke", "call"}
  <2>1. pc["flight"] = "refresh"
    OBVIOUS
  <2> QED  BY <1>2, <2>1, AtRest
<1>16. PICK n, c : n = tok["flight"].refresh /\ c = NextIssued(pairs[n].acct)
  OBVIOUS
<1>6. /\ n \in 1..Len(pairs) /\ n # 0 /\ pairs[n].acct = a /\ ~ Doomed
      /\ Rotate(n) => Grown(pairs[n]) /\ c.access = Len(pairs) + 1 /\ c.refresh = Len(pairs) + 1 /\ c.user = a
  <2>1. Held /\ pc["flight"] = "refresh" /\ "flight" \in Process
    BY DEF Process
  <2>2. n \in 1..Len(pairs) /\ n # 0
    BY <1>16, <2>1, RefreshIs
  <2>3. pairs[n].acct = a /\ ~ Doomed
    BY <1>2, <1>3, <1>16, <2>1, <2>2 DEF Owned, Of, InUse
  <2> QED  BY <1>16, <2>1, <2>2, <2>3, RefreshIs
<1>7. /\ Rotate(n) \/ pairs' = pairs
      /\ \/ /\ Rotate(n) /\ pc' = [pc EXCEPT !["flight"] = "save"] /\ tok' = [tok EXCEPT !["flight"] = c]
            /\ left' = [left EXCEPT !["flight"] = Item] /\ UNCHANGED <<carry, goal, accepting>>
         \/ /\ pc' = [pc EXCEPT !["flight"] = "clear"] /\ tok' = [tok EXCEPT !["flight"] = None]
            /\ left' = [left EXCEPT !["flight"] = Item] /\ UNCHANGED <<carry, goal, accepting>>
         \/ FlightEnds(FALSE) /\ left' = left
  BY <1>16
<1>8. /\ UNCHANGED <<store, marker, data, edits, bound, shown>>
      /\ lapses \subseteq lapses'
  OBVIOUS
<1>15. c.refresh = Len(pairs) + 1
  BY <1>16 DEF NextIssued, Issued
<1>14. \/ /\ pc' = [pc EXCEPT !["flight"] = "save"] /\ tok' = [tok EXCEPT !["flight"] = c]
          /\ Rotate(n) /\ left' = [left EXCEPT !["flight"] = Item]
       \/ /\ pc' = [pc EXCEPT !["flight"] = "clear"] /\ Refuse(n) /\ lapses' = lapses
       \/ /\ FlightEnds(FALSE) /\ "unsaved" \in lapses'
       \/ /\ FlightEnds(FALSE) /\ UNCHANGED <<pairs, revoked, ended>>
  BY <1>16
<1> HIDE DEF FlightRefresh, FlightEnds
<1>10. /\ \A q \in Process : \/ q = "flight" /\ pc'[q] \in {"save", "clear"} /\ left'[q] = Item
                             \/ q = "flight" /\ pc'[q] = "idle" /\ left'[q] = left[q]
                             \/ pc[q] = "await" /\ pc'[q] = (IF q = "ui" THEN "in" ELSE "idle") /\ left'[q] = left[q]
                             \/ q # "flight" /\ pc'[q] = pc[q] /\ left'[q] = left[q]
       /\ \A q \in Process : tok'[q] \in {tok[q], None} \/ (q = "flight" /\ tok'[q] = c /\ Rotate(n))
       /\ \A w \in Work : carry'[w] \subseteq carry[w]
       /\ goal' \in {goal, Nil}
  <2>1. CASE pc' = [pc EXCEPT !["flight"] = "save"] /\ tok' = [tok EXCEPT !["flight"] = c] /\ Rotate(n)
             /\ left' = [left EXCEPT !["flight"] = Item] /\ UNCHANGED <<carry, goal, accepting>>
    BY <2>1 DEF StepsTyped, MemoryTyped
  <2>2. CASE pc' = [pc EXCEPT !["flight"] = "clear"] /\ tok' = [tok EXCEPT !["flight"] = None]
             /\ left' = [left EXCEPT !["flight"] = Item] /\ UNCHANGED <<carry, goal, accepting>>
    BY <2>2 DEF StepsTyped, MemoryTyped
  <2>3. CASE FlightEnds(FALSE) /\ left' = left
    <3>1. /\ \A q \in Process : EndsFor(q, FALSE)
          /\ \A w \in Work : carry'[w] = IF pc[w] = "await" THEN {} ELSE carry[w]
          /\ pc["ui"] = "await" => goal' = Nil
          /\ pc["ui"] # "await" => goal' = goal
      BY <2>3, FlightEndsIs
    <3> QED  BY <2>3, <3>1 DEF EndsFor
  <2> QED  BY <1>7, <2>1, <2>2, <2>3
<1>17. FlightEnds(FALSE) => pc'["flight"] = "idle"
  BY <1>5, FlightEndsIs DEF EndsFor, Process
<1>9. /\ \A m \in 1..Len(pairs) : pairs'[m] = pairs[m]
      /\ Rotate(n) => Of(c, a)'
  <2>1. \A m \in 1..Len(pairs) : pairs'[m] = pairs[m]
    BY <1>6, <1>7 DEF Grown
  <2>2. CASE Rotate(n)
    <3>2. pairs'[Len(pairs) + 1].acct = a
      BY <1>6, <2>2 DEF Grown
    <3> QED  BY <1>6, <2>1, <2>2, <3>2 DEF Of
  <2> QED  BY <2>1, <2>2
<1>21. Quiet'
  BY <1>2, <1>10, MobileSessionAssumption DEF Quiet, Process
<1>22. RowsOwned'
  BY <1>2, <1>8, <1>10 DEF RowsOwned
<1>23. Clearing'
  <2>1. \A q \in Process : pc'[q] = "clear" => q = "flight" /\ left'[q] = Item
    BY <1>6, <1>10 DEF Doomed
  <2>2. \A w \in Work : pc'[w] # "clear"
    BY <2>1, MobileSessionAssumption DEF Process
  <2> QED  BY <2>1, <2>2, RemainingApart DEF Clearing
<1>24. Saving'
  BY <1>5, <1>10 DEF Saving, Process
<1>25. Marked'
  BY <1>2, <1>5, <1>8, <1>10 DEF Marked, Process
<1>26. InUse'
  <2>1. CASE pc'["flight"] = "clear"
    BY <1>5, <1>10, <2>1 DEF InUse, Process
  <2>2. CASE pc'["flight"] # "clear"
    <3>1. ~ Doomed'
      BY <1>6, <1>8, <1>10, <2>2 DEF Doomed
    <3> QED  BY <3>1 DEF InUse
  <2> QED  BY <2>1, <2>2
<1>27. GivenUpBy'
  <2>1. CASE pc'["flight"] = "clear"
    BY <2>1 DEF GivenUpBy
  <2>2. CASE pc'["flight"] # "clear"
    <3>1. ~ Doomed'
      BY <1>6, <1>8, <1>10, <2>2 DEF Doomed
    <3> QED  BY <3>1 DEF GivenUpBy
  <2> QED  BY <2>1, <2>2
<1>28. Owned(a)'
  <2>1. Of(store, a)' /\ \A q \in Process : Of(tok[q], a)'
    <3>1. \A e \in Credentials : e.access <= Len(pairs) /\ e.refresh <= Len(pairs) /\ Of(e, a) => Of(e, a)'
      BY <1>9, PairsTyped, MobileSessionAssumption DEF Of, Credentials, Token
    <3>2. Of(store, a)'
      BY <1>3, <1>8, <3>1 DEF Owned, DeviceTyped, StepsHold, TokensIssued
    <3>3. Of(None, a)'
      BY NoneHeld DEF Of
    <3>4. \A q \in Process : tok'[q] = tok[q] => Of(tok[q], a)'
      BY <1>3, <3>1 DEF Owned, MemoryTyped, StepsHold, TokensIssued
    <3> QED  BY <1>9, <1>10, <3>2, <3>3, <3>4
  <2>3. \A v \in Work : pc'[v] \in Entered => bound' = a
    BY <1>3, <1>5, <1>10, <1>8, MobileSessionAssumption DEF Owned, Entered, StepsTyped, Process
  <2>4. pc'["ui"] \in Inside \/ (pc'["ui"] = "save" /\ goal' = "password")
          => shown' = a /\ bound' = a
    BY <1>2, <1>3, <1>5, <1>10, <1>8, MobileSessionAssumption DEF Owned, Inside, UiStands, StepsTyped, Process
  <2>5. lapses' = {} => bound' \in {Nil, a}
    BY <1>3, <1>8 DEF Owned
  <2>6. \A q \in Process : pc'[q] = "rebind" => bound' \in {Nil, a}
    BY <1>3, <1>5, <1>10, <1>8 DEF Owned, StepsTyped
  <2> QED  BY <2>1, <2>3, <2>4, <2>5, <2>6 DEF Owned
<1>29. WipeDue'
  <2>0. \E q \in Process : pc[q] = "await"
    BY <1>5 DEF StepsHold, FlightAwaited
  <2>1. ~ Empty
    BY <1>5, <2>0, MobileSessionAssumption DEF Empty, Process
  <2>2. \A q \in Process : pc[q] # "clear"
    BY <1>6 DEF Doomed
  <2> QED  BY <1>8, <2>1, <2>2 DEF WipeDue
<1>30. TokensCurrent'
  <2> SUFFICES ASSUME lapses' \cap {"unsaved", "overlap"} = {} PROVE TokensCurrent'
    BY DEF TokensCurrent
  <2>1. Current(n) /\ Current(store.refresh) /\ revoked \subseteq ended
    BY <1>5, <1>8, <1>16 DEF TokensCurrent, Behind
  <2>2. pc'["ui"] \notin {"me", "refresh", "save"}
    BY <1>5, <1>10 DEF Process
  <2>3. CASE /\ pc' = [pc EXCEPT !["flight"] = "save"] /\ tok' = [tok EXCEPT !["flight"] = c]
             /\ Rotate(n) /\ left' = [left EXCEPT !["flight"] = Item]
    <3>1. tok'["flight"] = c /\ Behind("flight")'
      BY <2>3 DEF Behind, StepsTyped, MemoryTyped, Process
    <3>2. Current(tok["flight"].refresh)' /\ revoked' \subseteq ended'
      BY <1>6, <1>15, <2>1, <2>3, <3>1, AfterRefresh
    <3> QED  BY <2>2, <3>1, <3>2 DEF TokensCurrent
  <2>4. CASE pc' = [pc EXCEPT !["flight"] = "clear"] /\ Refuse(n)
    <3>1. pc'["flight"] = "clear"
      BY <2>4 DEF StepsTyped, Process
    <3> QED  BY <1>6, <1>8, <1>15, <2>1, <2>2, <2>4, <3>1, AfterRefresh DEF TokensCurrent
  <2>5. CASE FlightEnds(FALSE) /\ UNCHANGED <<pairs, revoked, ended>>
    <3>2. \A m : Current(m)' <=> Current(m)
      BY <2>5, SameTokens
    <3> QED  BY <1>8, <1>17, <2>1, <2>2, <2>5, <3>2 DEF TokensCurrent
  <2> QED  BY <1>14, <2>3, <2>4, <2>5
<1>31. GivenUpEnded'
  <2>1. CASE pc' = [pc EXCEPT !["flight"] = "clear"] /\ Refuse(n) /\ lapses = {}
    <3>1. Current(n) /\ revoked \subseteq ended
      BY <1>5, <1>16, <2>1 DEF TokensCurrent
    <3>2. SessionsOf(a)' \subseteq ended'
      BY <1>6, <1>15, <2>1, <3>1, AfterRefresh
    <3>3. bound' \in {Nil, a}
      BY <1>3, <1>8, <2>1 DEF Owned
    <3> QED  BY <3>2, <3>3 DEF GivenUpEnded
  <2>2. CASE pc'["flight"] # "clear"
    <3>1. ~ Doomed'
      BY <1>6, <1>8, <1>10, <2>2 DEF Doomed
    <3> QED  BY <3>1 DEF GivenUpEnded
  <2>3. pc' = [pc EXCEPT !["flight"] = "save"] => pc'["flight"] # "clear"
    BY DEF StepsTyped, Process
  <2> QED  BY <1>8, <1>14, <1>17, <2>1, <2>2, <2>3 DEF GivenUpEnded
<1> QED
  BY <1>21, <1>22, <1>23, <1>24, <1>25, <1>26, <1>27, <1>28, <1>29, <1>30, <1>31 DEF StoreStands

LEMMA SessFlightSaved ==
    ASSUME SessInv, Held', FlightSaved PROVE SessInv'
<1> SUFFICES ASSUME "overlap" \notin lapses'
             PROVE  /\ Quiet' /\ RowsOwned' /\ StoreStands' /\ \E a \in Account \cup {Nil} : Owned(a)'
                    /\ WipeDue' /\ TokensCurrent' /\ GivenUpEnded'
  BY DEF SessInv, Apart, WipeDue, TokensCurrent, GivenUpEnded
<1> USE DEF SessInv, Held, TypeOK, FlightSaved, FlightEnds, Waiting, FlightRest, server, secure,
       sqlite
<1>1. "overlap" \notin lapses
  OBVIOUS
<1>2. Quiet /\ RowsOwned /\ Clearing /\ Saving /\ Marked /\ InUse /\ GivenUpBy
  BY <1>1 DEF Apart, StoreStands
<1>3. PICK a \in Account \cup {Nil} : Owned(a)
  BY <1>1 DEF Apart
<1>5. /\ pc["flight"] = "save"
      /\ pc["ui"] \notin {"save", "read", "signedout", "ack", "me", "refresh", "bind", "rebind", "clear",
                          "sent", "denied", "resent", "relogin", "wipe", "revoke", "call"}
  <2>1. pc["flight"] = "save"
    OBVIOUS
  <2> QED  BY <1>2, <2>1, AtRest
<1>6. ~ Doomed /\ Of(tok["flight"], a)
  BY <1>2, <1>3, <1>5 DEF InUse, Owned, Process
<1>7. FlightEnds(TRUE)
  OBVIOUS
<1>8. UNCHANGED <<pairs, store, marker, data, edits, bound, shown, lapses>>
  OBVIOUS
<1>9. left' = left /\ left["flight"] = <<>>
  OBVIOUS
<1>18. UNCHANGED <<pairs, revoked, ended>>
  OBVIOUS
<1>19. /\ \A b : SessionsOf(b)' = SessionsOf(b)
       /\ \A m : Current(m)' <=> Current(m)
  BY <1>18, SameTokens
<1> HIDE DEF FlightSaved, FlightEnds
<1>10. /\ \A q \in Process : \/ pc[q] = "await" /\ pc'[q] = "resent" /\ tok'[q] = tok["flight"]
                             \/ q = "flight" /\ pc'[q] = "idle" /\ tok'[q] = None
                             \/ q # "flight" /\ pc'[q] = pc[q] /\ tok'[q] = tok[q]
       /\ \A w \in Work : carry'[w] = carry[w]
       /\ goal' = goal
  <2>1. /\ \A q \in Process : EndsFor(q, TRUE)
        /\ \A w \in Work : carry'[w] = carry[w]
        /\ goal' = goal
    BY <1>7, FlightEndsIs
  <2> QED  BY <2>1 DEF EndsFor
<1>11. ~ Doomed'
  BY <1>6, <1>8, <1>10 DEF Doomed
<1>21. Quiet'
  BY <1>2, <1>10, MobileSessionAssumption DEF Quiet, Process
<1>22. RowsOwned'
  BY <1>2, <1>8, <1>10 DEF RowsOwned
<1>23. Clearing'
  BY <1>11, MobileSessionAssumption DEF Doomed, Clearing, Process
<1>24. Saving'
  BY <1>5, <1>10 DEF Saving, Process
<1>25. Marked'
  BY <1>2, <1>5, <1>8, <1>10 DEF Marked, Process
<1>26. InUse'
  BY <1>11 DEF InUse
<1>27. GivenUpBy'
  BY <1>11 DEF GivenUpBy
<1>28. Owned(a)'
  <2>1. Of(store, a)'
    BY <1>3, <1>8 DEF Owned, Of
  <2>2. \A q \in Process : Of(tok[q], a)'
    BY <1>3, <1>6, <1>8, <1>10, NoneHeld DEF Owned, Of, MemoryTyped, Process
  <2>3. \A v \in Work : pc'[v] \in Entered => bound' = a
    BY <1>3, <1>5, <1>10, <1>8, MobileSessionAssumption DEF Owned, Entered, StepsTyped, Process
  <2>4. pc'["ui"] \in Inside \/ (pc'["ui"] = "save" /\ goal' = "password")
          => shown' = a /\ bound' = a
    BY <1>2, <1>3, <1>5, <1>10, <1>8, MobileSessionAssumption DEF Owned, Inside, UiStands, StepsTyped, Process
  <2>5. lapses' = {} => bound' \in {Nil, a}
    BY <1>3, <1>6, <1>8, <1>10 DEF Owned
  <2>6. \A q \in Process : pc'[q] = "rebind" => bound' \in {Nil, a}
    BY <1>3, <1>5, <1>10, <1>8 DEF Owned, StepsTyped
  <2> QED  BY <2>1, <2>2, <2>3, <2>4, <2>5, <2>6 DEF Owned
<1>29. WipeDue'
  <2>0. \E q \in Process : pc[q] = "await"
    BY <1>5 DEF StepsHold, FlightAwaited
  <2>1. ~ Empty
    BY <1>5, <2>0, MobileSessionAssumption DEF Empty, Process
  <2>2. \A q \in Process : pc[q] # "clear"
    BY <1>6 DEF Doomed
  <2> QED  BY <1>8, <2>1, <2>2 DEF WipeDue
<1>30. TokensCurrent'
  <2>1. ~ Behind("ui") /\ ~ Behind("flight")
    BY <1>5, <1>9, RemainingApart DEF Behind
  <2>2. pc'["ui"] \notin {"me", "refresh", "save"} /\ pc'["flight"] \notin {"me", "refresh", "save"}
    BY <1>5, <1>10 DEF Process
  <2> QED  BY <1>8, <1>18, <1>19, <2>1, <2>2 DEF TokensCurrent
<1>31. GivenUpEnded'
  BY <1>11 DEF GivenUpEnded
<1> QED
  BY <1>21, <1>22, <1>23, <1>24, <1>25, <1>26, <1>27, <1>28, <1>29, <1>30, <1>31 DEF StoreStands

LEMMA SessStart ==
    ASSUME SessInv, Held', NEW w \in Work, Start(w) PROVE SessInv'
<1> SUFFICES ASSUME "overlap" \notin lapses'
             PROVE  /\ Quiet' /\ RowsOwned' /\ StoreStands' /\ \E a \in Account \cup {Nil} : Owned(a)'
                    /\ WipeDue' /\ TokensCurrent' /\ GivenUpEnded'
  BY DEF SessInv, Apart, WipeDue, TokensCurrent, GivenUpEnded
<1> USE DEF SessInv, Held, TypeOK, Start, BeginClear, Goto, Hold, server, secure, sqlite, bounds
<1>1. "overlap" \notin lapses
  OBVIOUS
<1>2. Quiet /\ RowsOwned /\ Clearing /\ Saving /\ Marked /\ InUse /\ GivenUpBy
  BY <1>1 DEF Apart, StoreStands
<1>3. PICK a \in Account \cup {Nil} : Owned(a)
  BY <1>1 DEF Apart
<1>5. /\ pc[w] = "idle" /\ carry[w] = {} /\ tok[w] = None /\ pc["ui"] \in {"launch", "in"} /\ w # "ui" /\ w # "flight"
  <2>1. pc["ui"] \notin {"read", "me", "refresh", "save", "clear", "wipe", "ack", "bind", "rebind"}
    OBVIOUS
  <2>2. pc["ui"] \notin (Inside \ {"in"})
    BY DEF UiStands
  <2>3. pc["ui"] # "signedout"
    <3>1. pc["ui"] = "signedout" => store.user = Nil
      BY <1>2, NoneHeld DEF Marked
    <3> QED  BY <3>1
  <2>4. w # "ui" /\ w # "flight" /\ pc["ui"] \in UiPC
    BY MobileSessionAssumption DEF StepsTyped
  <2> QED  BY <2>1, <2>2, <2>3, <2>4 DEF UiPC, Inside
<1>7. \/ /\ store.access = 0 \/ store.refresh = 0
         /\ pc' = [pc EXCEPT ![w] = "clear"] /\ tok' = [tok EXCEPT ![w] = None]
         /\ left' = [left EXCEPT ![w] = Item]
      \/ /\ Full(store) /\ pc' = [pc EXCEPT ![w] = "bind"] /\ tok' = [tok EXCEPT ![w] = store]
         /\ left' = left
      \/ /\ pc["ui"] = "in" /\ pc' = [pc EXCEPT ![w] = "claim"] /\ tok' = tok
         /\ left' = left
  BY DEF Full
<1>8. UNCHANGED <<pairs, store, marker, data, edits, bound, carry, shown, goal, accepting, lapses>>
  OBVIOUS
<1>10. \A q \in Process : \/ /\ q = w /\ pc'[q] = "clear" /\ left'[q] = Item
                             /\ store.access = 0 \/ store.refresh = 0
                          \/ q = w /\ pc'[q] = "bind" /\ Full(store) /\ left'[q] = left[q]
                          \/ q = w /\ pc'[q] = "claim" /\ pc["ui"] = "in" /\ left'[q] = left[q]
                          \/ q # w /\ pc'[q] = pc[q] /\ left'[q] = left[q]
  BY <1>7 DEF StepsTyped, MemoryTyped
<1>9. bound = a \/ pc["ui"] # "in"
  BY <1>3 DEF Owned, Inside
<1>11. pc'["ui"] = pc["ui"] /\ pc'["flight"] = pc["flight"]
  BY <1>5, <1>10 DEF Process
<1>12. Full(store) => ~ marker
  BY <1>2, NoneHeld DEF Marked, Full
<1>13. store.user # Nil \/ pc["ui"] = "in"
  OBVIOUS
<1>18. UNCHANGED <<pairs, revoked, ended>>
  OBVIOUS
<1>19. /\ \A b : SessionsOf(b)' = SessionsOf(b)
       /\ \A m : Current(m)' <=> Current(m)
  BY <1>18, SameTokens
<1> HIDE DEF Start
<1>21. Quiet'
  BY <1>2, <1>5, <1>11 DEF Quiet
<1>22. RowsOwned'
  BY <1>2, <1>8 DEF RowsOwned
<1>23. Clearing'
  <2>1. \A q \in Process : pc'[q] = "clear" => \/ pc[q] = "clear" /\ left'[q] = left[q]
                                               \/ left'[q] = Item
    BY <1>10
  <2>2. \A v \in Work : pc'[v] = "clear" => pc[v] = "clear" \/ store.access = 0 \/ store.refresh = 0
    BY <1>10 DEF Process
  <2> QED  BY <1>2, <1>8, <2>1, <2>2, RemainingApart DEF Clearing
<1>24. Saving'
  BY <1>5, <1>11 DEF Saving
<1>25. Marked'
  BY <1>2, <1>5, <1>8, <1>11 DEF Marked
<1>26. InUse'
  <2>1. Doomed' => Doomed
    BY <1>8, <1>10 DEF Doomed, Full
  <2> QED  BY <1>2, <1>11, <2>1 DEF InUse
<1>27. GivenUpBy'
  <2>1. Doomed' => Doomed
    BY <1>8, <1>10 DEF Doomed, Full
  <2>2. CASE pc'[w] = "clear"
    <3>1. \A v \in Work : pc'[v] = pc[v] \/ pc'[v] = "clear"
      BY <1>10, <2>2 DEF Process
    <3> QED  BY <1>2, <1>8, <1>11, <2>1, <3>1 DEF GivenUpBy
  <2>3. CASE pc'[w] = "bind"
    <3>1. Full(store)
      BY <1>10, <2>3 DEF Process
    <3>2. \A q \in Process : pc[q] = "clear" => q = "flight"
      BY <1>2, <1>5, <3>1, MobileSessionAssumption DEF Clearing, Process, Full
    <3>3. Doomed' => pc["flight"] = "clear"
      BY <1>12, <2>1, <3>1, <3>2 DEF Doomed
    <3> QED  BY <1>11, <3>3 DEF GivenUpBy
  <2>4. CASE pc'[w] = "claim"
    <3>1. pc["ui"] = "in"
      BY <1>10, <2>4 DEF Process
    <3> QED  BY <1>2, <1>8, <1>11, <2>1, <3>1 DEF GivenUpBy
  <2> QED  BY <1>10, <2>2, <2>3, <2>4 DEF Process
<1>28. Owned(a)'
  <2>1. Of(store, a)'
    BY <1>3, <1>8 DEF Owned, Of
  <2>2. \A q \in Process : Of(tok[q], a)'
    BY <1>3, <1>7, <1>8, NoneHeld DEF Owned, Of, MemoryTyped, Process
  <2>3. \A v \in Work : pc'[v] \in Entered => bound' = a
    BY <1>3, <1>5, <1>9, <1>10, <1>8, MobileSessionAssumption DEF Owned, Entered, StepsTyped, Process
  <2>4. pc'["ui"] \in Inside \/ (pc'["ui"] = "save" /\ goal' = "password")
          => shown' = a /\ bound' = a
    BY <1>2, <1>3, <1>5, <1>9, <1>10, <1>8, MobileSessionAssumption DEF Owned, Inside, UiStands, StepsTyped, Process
  <2>5. lapses' = {} => bound' \in {Nil, a}
    BY <1>3, <1>7, <1>8 DEF Owned
  <2>6. \A q \in Process : pc'[q] = "rebind" => bound' \in {Nil, a}
    BY <1>3, <1>5, <1>9, <1>10, <1>8 DEF Owned, StepsTyped
  <2> QED  BY <2>1, <2>2, <2>3, <2>4, <2>5, <2>6 DEF Owned
<1>29. WipeDue'
  <2>1. store.user # Nil \/ ~ Empty
    BY <1>13 DEF Empty
  <2>2. \A q \in Process : pc[q] = "clear" => pc'[q] = "clear" /\ left'[q] = left[q]
    BY <1>5, <1>10
  <2> QED  BY <1>8, <2>1, <2>2 DEF WipeDue
<1>30. TokensCurrent'
  <2>2. Behind("ui") \/ Behind("flight") => Behind("ui")' \/ Behind("flight")'
    BY <1>5, <1>10 DEF Behind, Process
  <2>3. \A q \in {"ui", "flight"} : pc'[q] = pc[q] /\ tok'[q] = tok[q]
    BY <1>5, <1>7, <1>11 DEF MemoryTyped, Process
  <2> QED  BY <1>8, <1>18, <1>19, <2>2, <2>3 DEF TokensCurrent
<1>31. GivenUpEnded'
  <2>1. Doomed' => Doomed
    BY <1>8, <1>10 DEF Doomed, Full
  <2> QED  BY <1>8, <1>11, <1>18, <1>19, <2>1 DEF GivenUpEnded
<1> QED
  BY <1>21, <1>22, <1>23, <1>24, <1>25, <1>26, <1>27, <1>28, <1>29, <1>30, <1>31 DEF StoreStands

LEMMA SessClaim ==
    ASSUME SessInv, Held', NEW w \in Work, Claim(w) PROVE SessInv'
<1> SUFFICES ASSUME "overlap" \notin lapses'
             PROVE  /\ Quiet' /\ RowsOwned' /\ StoreStands' /\ \E a \in Account \cup {Nil} : Owned(a)'
                    /\ WipeDue' /\ TokensCurrent' /\ GivenUpEnded'
  BY DEF SessInv, Apart, WipeDue, TokensCurrent, GivenUpEnded
<1> USE DEF SessInv, Held, TypeOK, Claim, Goto, WorkRest, server, secure, sqlite, bounds
<1>1. "overlap" \notin lapses
  OBVIOUS
<1>2. Quiet /\ RowsOwned /\ Clearing /\ Saving /\ Marked /\ InUse /\ GivenUpBy
  BY <1>1 DEF Apart, StoreStands
<1>3. PICK a \in Account \cup {Nil} : Owned(a)
  BY <1>1 DEF Apart
<1>18. UNCHANGED <<pairs, revoked, ended>>
  OBVIOUS
<1>19. /\ \A b : SessionsOf(b)' = SessionsOf(b)
       /\ \A m : Current(m)' <=> Current(m)
  BY <1>18, SameTokens
<1>21. Quiet'
  BY <1>2, MobileSessionAssumption DEF Quiet, StepsTyped, Process
<1>22. RowsOwned'
  BY <1>2, <1>3, MobileSessionAssumption
     DEF RowsOwned, Quiet, Owned, StepsTyped, MemoryTyped, Process, Entered
<1>23. Clearing'
  BY <1>2, MobileSessionAssumption, NoneHeld, RemainingApart
     DEF Clearing, StepsTyped, MemoryTyped, DeviceTyped, Process, Credentials
<1>24. Saving'
  BY <1>2, MobileSessionAssumption, NoneHeld, RemainingApart
     DEF Saving, StepsTyped, MemoryTyped, DeviceTyped, Process, Credentials
<1>25. Marked'
  BY <1>2, MobileSessionAssumption, NoneHeld DEF Marked, StepsTyped, DeviceTyped, Process
<1>26. InUse'
  BY <1>2, MobileSessionAssumption, NoneHeld
     DEF InUse, Doomed, Full, StepsTyped, DeviceTyped, Process
<1>27. GivenUpBy'
  BY <1>2, MobileSessionAssumption, NoneHeld
     DEF GivenUpBy, Doomed, Full, StepsTyped, DeviceTyped, Process
<1>28. Owned(a)'
  BY <1>2, <1>3, MobileSessionAssumption, NoneHeld
     DEF Owned, Of, StepsTyped, MemoryTyped, DeviceTyped, Process, Credentials, Entered, Inside
<1>29. WipeDue'
  BY <1>2, <1>18, <1>19 DEF WipeDue, Empty, StepsTyped, Process, Inside
<1>30. TokensCurrent'
  BY <1>2, MobileSessionAssumption, RemainingApart, <1>18, <1>19
     DEF TokensCurrent, Behind, StepsTyped, MemoryTyped, Process
<1>31. GivenUpEnded'
  BY <1>2, MobileSessionAssumption, <1>18, <1>19 DEF GivenUpEnded, Doomed, StepsTyped, Process
<1> QED
  BY <1>21, <1>22, <1>23, <1>24, <1>25, <1>26, <1>27, <1>28, <1>29, <1>30, <1>31 DEF StoreStands

LEMMA SessPersist ==
    ASSUME SessInv, Held', NEW w \in Work, Persist(w) PROVE SessInv'
<1> SUFFICES ASSUME "overlap" \notin lapses'
             PROVE  /\ Quiet' /\ RowsOwned' /\ StoreStands' /\ \E a \in Account \cup {Nil} : Owned(a)'
                    /\ WipeDue' /\ TokensCurrent' /\ GivenUpEnded'
  BY DEF SessInv, Apart, WipeDue, TokensCurrent, GivenUpEnded
<1> USE DEF SessInv, Held, TypeOK, Persist, Goto, Hold, WorkRest, server, secure, bounds
<1>1. "overlap" \notin lapses
  OBVIOUS
<1>2. Quiet /\ RowsOwned /\ Clearing /\ Saving /\ Marked /\ InUse /\ GivenUpBy
  BY <1>1 DEF Apart, StoreStands
<1>3. PICK a \in Account \cup {Nil} : Owned(a)
  BY <1>1 DEF Apart
<1>5. /\ pc[w] = "persist" /\ bound = a
      /\ pc["ui"] \notin {"save", "read", "signedout", "ack"}
  <2>1. pc[w] = "persist"
    OBVIOUS
  <2> QED  BY <1>2, <1>3, <2>1 DEF Owned, Entered, Quiet
<1>6. pairs[tok[w].access].acct = a
  <2>1. tok[w].access # 0
    BY <1>5 DEF StepsHold, StepHolds, Fits, Process
  <2> QED  BY <1>3, <2>1 DEF Owned, Of, Process
<1>7. /\ edits' \subseteq edits /\ data' = data \cup {a}
      /\ \A v \in Work : carry'[v] \subseteq carry[v]
  BY <1>6 DEF MemoryTyped
<1>9. pc' = [pc EXCEPT ![w] = "idle"]
  OBVIOUS
<1>8. UNCHANGED <<pairs, store, marker, bound, shown, goal, accepting, lapses>>
  OBVIOUS
<1>18. UNCHANGED <<pairs, revoked, ended>>
  OBVIOUS
<1>19. /\ \A b : SessionsOf(b)' = SessionsOf(b)
       /\ \A m : Current(m)' <=> Current(m)
  BY <1>18, SameTokens
<1>21. Quiet'
  BY <1>2, MobileSessionAssumption DEF Quiet, StepsTyped, Process
<1>22. RowsOwned'
  <2> HIDE DEF Persist
  <2> QED  BY <1>2, <1>5, <1>7, <1>8 DEF RowsOwned
<1>23. Clearing'
  BY <1>2, MobileSessionAssumption, NoneHeld, RemainingApart
     DEF Clearing, StepsTyped, MemoryTyped, DeviceTyped, Process, Credentials
<1>24. Saving'
  BY <1>2, MobileSessionAssumption, NoneHeld, RemainingApart
     DEF Saving, StepsTyped, MemoryTyped, DeviceTyped, Process, Credentials
<1>25. Marked'
  <2>1. pc'["ui"] = pc["ui"]
    BY <1>9, MobileSessionAssumption DEF StepsTyped, Process
  <2> HIDE DEF Persist
  <2> QED  BY <1>2, <1>5, <1>8, <2>1 DEF Marked
<1>26. InUse'
  BY <1>2, MobileSessionAssumption, NoneHeld
     DEF InUse, Doomed, Full, StepsTyped, DeviceTyped, Process
<1>27. GivenUpBy'
  BY <1>2, MobileSessionAssumption, NoneHeld
     DEF GivenUpBy, Doomed, Full, StepsTyped, DeviceTyped, Process
<1>28. Owned(a)'
  BY <1>2, <1>3, MobileSessionAssumption, NoneHeld
     DEF Owned, Of, StepsTyped, MemoryTyped, DeviceTyped, Process, Credentials, Entered, Inside
<1>29. WipeDue'
  BY <1>2, <1>18, <1>19 DEF WipeDue, Empty, StepsTyped, Process, Inside
<1>30. TokensCurrent'
  BY <1>2, MobileSessionAssumption, RemainingApart, <1>18, <1>19
     DEF TokensCurrent, Behind, StepsTyped, MemoryTyped, Process
<1>31. GivenUpEnded'
  BY <1>2, MobileSessionAssumption, <1>18, <1>19 DEF GivenUpEnded, Doomed, StepsTyped, Process
<1> QED
  BY <1>21, <1>22, <1>23, <1>24, <1>25, <1>26, <1>27, <1>28, <1>29, <1>30, <1>31 DEF StoreStands

LEMMA SessExpire ==
    ASSUME SessInv, Held', Expire PROVE SessInv'
<1> SUFFICES ASSUME "overlap" \notin lapses'
             PROVE  /\ Quiet' /\ RowsOwned' /\ StoreStands' /\ \E a \in Account \cup {Nil} : Owned(a)'
                    /\ WipeDue' /\ TokensCurrent' /\ GivenUpEnded'
  BY DEF SessInv, Apart, WipeDue, TokensCurrent, GivenUpEnded
<1> USE DEF SessInv, Held, TypeOK, Expire, secure, sqlite, memory, bounds, history
<1>1. "overlap" \notin lapses
  OBVIOUS
<1>2. Quiet /\ RowsOwned /\ Clearing /\ Saving /\ Marked /\ InUse /\ GivenUpBy
  BY <1>1 DEF Apart, StoreStands
<1>3. PICK a \in Account \cup {Nil} : Owned(a)
  BY <1>1 DEF Apart
<1>18. UNCHANGED <<pairs, revoked, ended>>
  OBVIOUS
<1>19. /\ \A b : SessionsOf(b)' = SessionsOf(b)
       /\ \A m : Current(m)' <=> Current(m)
  BY <1>18, SameTokens
<1>21. Quiet'
  BY <1>2, MobileSessionAssumption DEF Quiet, StepsTyped, Process
<1>22. RowsOwned'
  BY <1>2, <1>3, MobileSessionAssumption
     DEF RowsOwned, Quiet, Owned, StepsTyped, MemoryTyped, Process, Entered
<1>23. Clearing'
  BY <1>2, MobileSessionAssumption, NoneHeld, RemainingApart
     DEF Clearing, StepsTyped, MemoryTyped, DeviceTyped, Process, Credentials
<1>24. Saving'
  BY <1>2, MobileSessionAssumption, NoneHeld, RemainingApart
     DEF Saving, StepsTyped, MemoryTyped, DeviceTyped, Process, Credentials
<1>25. Marked'
  BY <1>2, MobileSessionAssumption, NoneHeld DEF Marked, StepsTyped, DeviceTyped, Process
<1>26. InUse'
  BY <1>2, MobileSessionAssumption, NoneHeld
     DEF InUse, Doomed, Full, StepsTyped, DeviceTyped, Process
<1>27. GivenUpBy'
  BY <1>2, MobileSessionAssumption, NoneHeld
     DEF GivenUpBy, Doomed, Full, StepsTyped, DeviceTyped, Process
<1>28. Owned(a)'
  BY <1>2, <1>3, MobileSessionAssumption, NoneHeld
     DEF Owned, Of, StepsTyped, MemoryTyped, DeviceTyped, Process, Credentials, Entered, Inside
<1>29. WipeDue'
  BY <1>2, <1>18, <1>19 DEF WipeDue, Empty, StepsTyped, Process, Inside
<1>30. TokensCurrent'
  BY <1>2, MobileSessionAssumption, RemainingApart, <1>18, <1>19
     DEF TokensCurrent, Behind, StepsTyped, MemoryTyped, Process
<1>31. GivenUpEnded'
  BY <1>2, MobileSessionAssumption, <1>18, <1>19 DEF GivenUpEnded, Doomed, StepsTyped, Process
<1> QED
  BY <1>21, <1>22, <1>23, <1>24, <1>25, <1>26, <1>27, <1>28, <1>29, <1>30, <1>31 DEF StoreStands

LEMMA SessCrash ==
    ASSUME SessInv, Held', Crash PROVE SessInv'
<1> SUFFICES ASSUME "overlap" \notin lapses'
             PROVE  /\ Quiet' /\ RowsOwned' /\ StoreStands' /\ \E a \in Account \cup {Nil} : Owned(a)'
                    /\ WipeDue' /\ TokensCurrent' /\ GivenUpEnded'
  BY DEF SessInv, Apart, WipeDue, TokensCurrent, GivenUpEnded
<1> USE DEF SessInv, Held, TypeOK, Crash, server, secure, sqlite
<1>1. "overlap" \notin lapses
  OBVIOUS
<1>2. Quiet /\ RowsOwned /\ Clearing /\ Saving /\ Marked /\ InUse /\ GivenUpBy
  BY <1>1 DEF Apart, StoreStands
<1>3. PICK a \in Account \cup {Nil} : Owned(a)
  BY <1>1 DEF Apart
<1>18. UNCHANGED <<pairs, revoked, ended>>
  OBVIOUS
<1>19. /\ \A b : SessionsOf(b)' = SessionsOf(b)
       /\ \A m : Current(m)' <=> Current(m)
  BY <1>18, SameTokens
<1>21. Quiet'
  BY <1>2, MobileSessionAssumption DEF Quiet, StepsTyped, Process
<1>22. RowsOwned'
  BY <1>2, <1>3, MobileSessionAssumption
     DEF RowsOwned, Quiet, Owned, StepsTyped, MemoryTyped, Process, Entered
<1>23. Clearing'
  BY <1>2, MobileSessionAssumption, NoneHeld, RemainingApart
     DEF Clearing, StepsTyped, MemoryTyped, DeviceTyped, Process, Credentials
<1>24. Saving'
  BY <1>2, MobileSessionAssumption, NoneHeld, RemainingApart
     DEF Saving, StepsTyped, MemoryTyped, DeviceTyped, Process, Credentials
<1>25. Marked'
  BY <1>2, MobileSessionAssumption, NoneHeld DEF Marked, StepsTyped, DeviceTyped, Process
<1>26. InUse'
  BY <1>2, MobileSessionAssumption, NoneHeld
     DEF InUse, Doomed, Full, StepsTyped, DeviceTyped, Process
<1>27. GivenUpBy'
  BY <1>2, MobileSessionAssumption, NoneHeld
     DEF GivenUpBy, Doomed, Full, StepsTyped, DeviceTyped, Process
<1>28. Owned(a)'
  BY <1>2, <1>3, MobileSessionAssumption, NoneHeld
     DEF Owned, Of, StepsTyped, MemoryTyped, DeviceTyped, Process, Credentials, Entered, Inside
<1>29. WipeDue'
  BY <1>2, <1>18, <1>19 DEF WipeDue, Empty, StepsTyped, Process, Inside
<1>30. TokensCurrent'
  BY <1>2, MobileSessionAssumption, RemainingApart, <1>18, <1>19
     DEF TokensCurrent, Behind, StepsTyped, MemoryTyped, Process
<1>31. GivenUpEnded'
  BY <1>2, MobileSessionAssumption, <1>18, <1>19 DEF GivenUpEnded, Doomed, StepsTyped, Process
<1> QED
  BY <1>21, <1>22, <1>23, <1>24, <1>25, <1>26, <1>27, <1>28, <1>29, <1>30, <1>31 DEF StoreStands

-----------------------------------------------------------------------------
(* Every step *)

LEMMA SessInit == Init => SessInv
<1> SUFFICES ASSUME Init PROVE SessInv
  OBVIOUS
<1>1. Held
  BY HeldInit
<1>2. \A p \in Process : /\ pc[p] = IF p = "ui" THEN "launch" ELSE "idle"
                         /\ tok[p] = None /\ left[p] = <<>>
  BY DEF Init
<1>3. pc["ui"] = "launch" /\ pc["flight"] = "idle" /\ \A w \in Work : pc[w] = "idle"
  BY <1>2, MobileSessionAssumption DEF Process
<1>4. store = None /\ marker = FALSE /\ data = {} /\ edits = {} /\ bound = Nil /\ goal = Nil
      /\ revoked = {} /\ pairs = <<>> /\ \A w \in Work : carry[w] = {}
  BY DEF Init
<1>5. \A p \in Process : pc[p] # "clear"
  BY <1>3 DEF Process
<1>6. Quiet /\ RowsOwned
  BY <1>3, <1>4 DEF Quiet, RowsOwned
<1>7. StoreStands
  BY <1>3, <1>4, <1>5, NoneHeld
     DEF StoreStands, Clearing, Saving, Marked, InUse, GivenUpBy, Process
<1>8. Owned(Nil)
  BY <1>2, <1>3, <1>4, NoneHeld DEF Owned, Of, Entered, Inside, Process
<1>9. WipeDue
  BY <1>3, <1>4 DEF WipeDue, Empty
<1>10. TokensCurrent
  BY <1>3, <1>4, NoneHeld DEF TokensCurrent, Current
<1>11. GivenUpEnded
  BY <1>4 DEF GivenUpEnded
<1> QED  BY <1>1, <1>6, <1>7, <1>8, <1>9, <1>10, <1>11 DEF SessInv, Apart

LEMMA SessUi == ASSUME SessInv, Held', UiStep PROVE SessInv'
BY SessMount, SessReadStored, SessMe, SessRestoreRefresh, SessSaved, SessDrained, SessRevokeStored,
   SessRelogin, SessWipe, SessAcknowledge
   DEF UiStep

LEMMA SessStepOf == ASSUME SessInv, Held', NEW p \in Process, StepOf(p) PROVE SessInv'
BY SessSaveItem, SessClearItem, SessMark, SessBind, SessRebind, SessSendCall, SessAnswered, SessDenied
   DEF StepOf

LEMMA SessNext == SessInv /\ [Next]_vars => SessInv'
<1> SUFFICES ASSUME SessInv, [Next]_vars PROVE SessInv'
  OBVIOUS
<1>0. Held'
  BY HeldNext DEF SessInv
<1>1. CASE \E a \in Account : Login(a) \/ EndElsewhere(a)
  BY <1>0, <1>1, SessLogin, SessEndElsewhere
<1>2. CASE \E g \in UserGoals : Leave(g)
  BY <1>0, <1>2, SessLeave
<1>3. CASE UiStep \/ EditLocally
  BY <1>0, <1>3, SessUi, SessEditLocally
<1>4. CASE \E p \in Process : StepOf(p)
  BY <1>0, <1>4, SessStepOf
<1>5. CASE FlightStep
  BY <1>0, <1>5, SessFlightRead, SessFlightRefresh, SessFlightSaved DEF FlightStep
<1>6. CASE \E w \in Work : Start(w) \/ Claim(w) \/ Persist(w)
  BY <1>0, <1>6, SessStart, SessClaim, SessPersist
<1>7. CASE Expire \/ Crash
  BY <1>0, <1>7, SessExpire, SessCrash
<1>8. CASE UNCHANGED vars
  <2>1. (\A b : SessionsOf(b)' = SessionsOf(b)) /\ \A m : Current(m)' <=> Current(m)
    BY <1>8, SameTokens DEF vars
  <2>2. Apart'
    BY <1>8 DEF vars, SessInv, Apart, Quiet, RowsOwned, StoreStands, Clearing, Saving, Marked, InUse,
                GivenUpBy, Doomed, Owned, Of
  <2>3. WipeDue'
    BY <1>8 DEF vars, SessInv, WipeDue, Empty
  <2>4. TokensCurrent'
    BY <1>8, <2>1 DEF vars, SessInv, TokensCurrent, Behind
  <2>5. GivenUpEnded'
    BY <1>8, <2>1 DEF vars, SessInv, GivenUpEnded, Doomed
  <2> QED  BY <1>0, <2>2, <2>3, <2>4, <2>5 DEF SessInv
<1> QED  BY <1>1, <1>2, <1>3, <1>4, <1>5, <1>6, <1>7, <1>8 DEF Next

LEMMA SessAlways == Spec => []SessInv
BY SessInit, SessNext, PTL DEF Spec

-----------------------------------------------------------------------------
(* The theorems *)

\* For any accounts and tasks: the interface, the rows, the unsynchronized edits, the
\* owner of the replica and the token of every call are of one account, as long as no
\* task ran next to restore or login; and the variables have their types.
THEOREM OneAccount == Spec => []DeviceConsistent
<1>1. SessInv => DeviceConsistent
  <2> SUFFICES ASSUME SessInv PROVE TypeOK /\ OneAccountAtATime
    BY DEF DeviceConsistent
  <2>1. TypeOK
    BY DEF SessInv, Held
  <2>2. ASSUME "overlap" \notin lapses
        PROVE  /\ pc["ui"] = "in" => /\ bound = shown
                                     /\ data \subseteq {shown} /\ \A e \in edits : e.acct = shown
               /\ \A w \in Work : pc[w] \in {"sent", "resent", "persist"} =>
                    \A e \in carry[w] : e.acct = pairs[tok[w].access].acct
    <3>1. RowsOwned
      BY <2>2 DEF SessInv, Apart
    <3>2. PICK a \in Account \cup {Nil} : Owned(a)
      BY <2>2 DEF SessInv, Apart
    <3>3. pc["ui"] = "in" => bound = shown
      BY <3>2 DEF Owned, Inside
    <3>4. ASSUME NEW w \in Work, pc[w] \in {"sent", "resent", "persist"}
          PROVE  bound = a /\ pairs[tok[w].access].acct = a
      BY <3>2, <3>4 DEF Owned, Of, Entered, SessInv, Held, StepsHold, StepHolds, Fits, Process
    <3> QED  BY <3>1, <3>3, <3>4 DEF RowsOwned
  <2> QED  BY <2>1, <2>2 DEF OneAccountAtATime
<1> QED  BY <1>1, SessAlways, PTL

\* The device holds nothing of the account that left once the login screen is shown,
\* unless the process died before the wipe was marked or a task ran next to a restore.
THEOREM CleanAfterLeaving == Spec => []SignedOutIsClean
<1>1. SessInv => SignedOutIsClean
  <2> SUFFICES ASSUME SessInv, pc["ui"] = "signedout", lapses \cap {"unmarked", "overlap"} = {}
               PROVE  data = {} /\ edits = {} /\ bound = Nil
    BY DEF SignedOutIsClean
  <2>1. Quiet /\ store = None /\ ~ marker
    BY DEF SessInv, Apart, StoreStands, Marked
  <2>2. \A p \in Process : pc[p] # "clear"
    BY <2>1, AtRest DEF SessInv, Process
  <2> QED  BY <2>1, <2>2, NoneHeld DEF SessInv, WipeDue, Empty
<1> QED  BY <1>1, SessAlways, PTL

\* A step that brings a lapse revokes nothing.
LEMMA LapsesApart == Next => UNCHANGED lapses \/ UNCHANGED revoked
<1> SUFFICES ASSUME Next PROVE UNCHANGED lapses \/ UNCHANGED revoked
  OBVIOUS
<1>1. ASSUME NEW b \in Account, Login(b) \/ EndElsewhere(b) PROVE UNCHANGED lapses
  BY <1>1 DEF Login, EndElsewhere
<1>2. ASSUME NEW g \in UserGoals, Leave(g) PROVE UNCHANGED lapses
  BY <1>2 DEF Leave, history
<1>3. ASSUME UiStep PROVE UNCHANGED lapses \/ UNCHANGED revoked
  <2>1. ASSUME ReadStored \/ Me \/ Saved \/ Drained \/ RevokeStored \/ Relogin \/ Wipe \/ Acknowledge
        PROVE  UNCHANGED lapses
    BY <2>1 DEF ReadStored, Me, Saved, Drained, RevokeStored, Relogin, Wipe, Acknowledge, history
  <2>2. ASSUME Mount PROVE UNCHANGED revoked
    BY <2>2 DEF Mount, server
  <2>3. ASSUME RestoreRefresh PROVE UNCHANGED lapses \/ UNCHANGED revoked
    BY <2>3 DEF RestoreRefresh, Rotate
  <2> QED  BY <1>3, <2>1, <2>2, <2>3 DEF UiStep
<1>4. ASSUME EditLocally PROVE UNCHANGED lapses
  BY <1>4 DEF EditLocally, history
<1>5. ASSUME NEW p \in Process, StepOf(p) PROVE UNCHANGED lapses
  BY <1>5 DEF StepOf, SaveItem, ClearItem, Mark, Bind, Rebind, SendCall, Answered, Denied, history
<1>6. ASSUME FlightStep PROVE UNCHANGED lapses \/ UNCHANGED revoked
  <2>1. ASSUME FlightRead \/ FlightSaved PROVE UNCHANGED lapses
    BY <2>1 DEF FlightRead, FlightSaved
  <2>2. ASSUME FlightRefresh PROVE UNCHANGED lapses \/ UNCHANGED revoked
    BY <2>2 DEF FlightRefresh, Rotate
  <2> QED  BY <1>6, <2>1, <2>2 DEF FlightStep
<1>7. ASSUME NEW w \in Work, Start(w) \/ Claim(w) \/ Persist(w) PROVE UNCHANGED revoked
  BY <1>7 DEF Start, Claim, Persist, WorkRest, server
<1>8. ASSUME Expire \/ Crash PROVE UNCHANGED revoked
  BY <1>8 DEF Expire, Crash, server
<1> QED  BY <1>1, <1>2, <1>3, <1>4, <1>5, <1>6, <1>7, <1>8 DEF Next

\* A session is revoked as replayed only after a rotation that was not stored, or
\* next to a restore: the single flight never presents a refresh token twice.
THEOREM ReplaysExplained == Spec => ReplayHasCause
<1>1. ASSUME SessInv, SessInv', [Next]_vars
      PROVE  [(revoked' \ revoked) \subseteq ended' \/ lapses \cap {"unsaved", "overlap"} # {}]_vars
  <2>1. CASE UNCHANGED vars
    BY <2>1
  <2>2. CASE UNCHANGED revoked
    BY <2>2
  <2>3. CASE UNCHANGED lapses
    BY <1>1, <2>3 DEF SessInv, TokensCurrent
  <2> QED  BY <1>1, <2>1, <2>2, <2>3, LapsesApart
<1> QED  BY <1>1, SessAlways, PTL DEF Spec, ReplayHasCause

\* Who may take an edit away.
LEMMA EditsTaken ==
    Next => \/ edits \subseteq edits' \/ Wipe
            \/ \E p \in Process : Bind(p)
            \/ \E w \in Work : Persist(w)
<1> SUFFICES ASSUME Next PROVE \/ edits \subseteq edits' \/ Wipe
                               \/ \E p \in Process : Bind(p)
                               \/ \E w \in Work : Persist(w)
  OBVIOUS
<1>1. ASSUME NEW b \in Account, Login(b) \/ EndElsewhere(b) PROVE UNCHANGED edits
  BY <1>1 DEF Login, EndElsewhere, sqlite
<1>2. ASSUME NEW g \in UserGoals, Leave(g) PROVE UNCHANGED edits
  BY <1>2 DEF Leave, sqlite
<1>3. ASSUME UiStep PROVE UNCHANGED edits \/ Wipe
  BY <1>3 DEF UiStep, Mount, ReadStored, Me, RestoreRefresh, Saved, Drained, RevokeStored, Relogin,
              Acknowledge, sqlite
<1>4. ASSUME EditLocally PROVE edits \subseteq edits'
  BY <1>4 DEF EditLocally
<1>5. ASSUME NEW p \in Process, StepOf(p) PROVE UNCHANGED edits \/ Bind(p)
  BY <1>5 DEF StepOf, SaveItem, ClearItem, Mark, Rebind, SendCall, Answered, Denied, sqlite
<1>6. ASSUME FlightStep PROVE UNCHANGED edits
  BY <1>6 DEF FlightStep, FlightRead, FlightRefresh, FlightSaved, FlightRest, sqlite
<1>7. ASSUME NEW w \in Work, Start(w) \/ Claim(w) PROVE UNCHANGED edits
  BY <1>7 DEF Start, Claim, sqlite
<1>8. ASSUME Expire \/ Crash PROVE UNCHANGED edits
  BY <1>8 DEF Expire, Crash, sqlite
<1> QED  BY <1>1, <1>2, <1>3, <1>4, <1>5, <1>6, <1>7, <1>8 DEF Next

\* An edit that was not pushed disappears only with its account, whose sessions were
\* all ended, or after one of the three lapses.
THEOREM EditsKept == Spec => EditsSurvive
<1>1. ASSUME SessInv, [Next]_vars
      PROVE  [\A e \in edits \ edits' :
                \/ \E w \in Work : pc[w] = "persist" /\ e \in carry[w]
                \/ SessionsOf(e.acct) \subseteq ended
                \/ lapses # {}]_vars
  <2> SUFFICES ASSUME Next, NEW e \in edits, e \notin edits', lapses = {}
               PROVE  \/ \E w \in Work : pc[w] = "persist" /\ e \in carry[w]
                      \/ SessionsOf(e.acct) \subseteq ended
    BY <1>1
  <2>1. /\ RowsOwned /\ e.acct = bound /\ bound # Nil
        /\ \E a \in Account \cup {Nil} : Owned(a)
    BY <1>1, MobileSessionAssumption
       DEF SessInv, Apart, RowsOwned, Held, TypeOK, DeviceTyped, Edit
  <2>2. ASSUME NEW w \in Work, Persist(w) PROVE pc[w] = "persist" /\ e \in carry[w]
    BY <2>2 DEF Persist
  <2>3. ASSUME NEW p \in Process, Bind(p) PROVE FALSE
    <3>1. PICK a \in Account \cup {Nil} : Owned(a)
      BY <2>1
    <3>2. tok[p].user = a
      BY <1>1, <2>3, <3>1 DEF Bind, Owned, Of, SessInv, Held, StepsHold, StepHolds, Fits, Full
    <3>3. bound = a
      BY <2>1, <3>1 DEF Owned
    <3> QED  BY <2>3, <3>2, <3>3 DEF Bind, sqlite
  <2>4. ASSUME Wipe PROVE SessionsOf(e.acct) \subseteq ended
    <3>1. Doomed
      BY <1>1, <2>4 DEF Wipe, SessInv, Held, UiStands, Doomed
    <3> QED  BY <1>1, <2>1, <3>1 DEF SessInv, GivenUpEnded
  <2> QED  BY <2>2, <2>3, <2>4, EditsTaken
<1> QED  BY <1>1, SessAlways, PTL DEF Spec, EditsSurvive

=============================================================================
