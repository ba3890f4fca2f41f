---------------------------- MODULE MobileSession ----------------------------
(***************************************************************************)
(* The life of a session on the Android client: restore at launch, login,  *)
(* logout, password change and account deletion, the single flight that    *)
(* rotates the refresh token, and the work of the account that runs next   *)
(* to them, with the server's half of the tokens.                          *)
(*                                                                         *)
(* mobile/src/auth, mobile/src/api/client.ts, backgroundSync.ts and        *)
(* backend/app/services/mobile_auth_service.py.                            *)
(*                                                                         *)
(* SecureStore holds three items and the wipe marker; each is written or   *)
(* deleted by a call of its own, carried out in the order of the calls.    *)
(* SQLite transactions and the server's handlers are atomic.               *)
(* A token pair is named by the order in which the server issued it.       *)
(***************************************************************************)
EXTENDS Naturals, Sequences, FiniteSets

CONSTANTS
    Account,
    Work,        \* tasks of the account registered with runSessionWork
    Headless,    \* those the system may start without the user interface
    UserGoals,   \* how the user leaves in an instance
    MaxPairs,    \* bound: token pairs issued
    MaxEdits,    \* bound: local edits
    MaxEnds,     \* bound: sessions revoked from elsewhere
    MaxFaults,   \* bound: process deaths, and answers lost after the server acted
    Nil

ASSUME MobileSessionAssumption ==
    /\ Headless \subseteq Work
    /\ UserGoals \subseteq {"logout", "password", "delete"}
    /\ {"ui", "flight"} \cap Work = {}
    /\ {MaxPairs, MaxEdits, MaxEnds, MaxFaults} \subseteq Nat
    /\ Nil \notin Account \cup {"logout", "password", "delete"}

Process == {"ui", "flight"} \cup Work

Token == 0..MaxPairs    \* 0 is "no token"

Pair == [acct : Account, sess : 1..MaxPairs]

Credentials == [access : Token, refresh : Token, user : Account \cup {Nil}]

Item == <<"access", "refresh", "user">>

\* The items a process has still to save or to clear.
Remaining == {Item, <<"refresh", "user">>, <<"user">>, <<>>}

None == [access |-> 0, refresh |-> 0, user |-> Nil]

Edit == [acct : Account, id : 1..MaxEdits]

UiPC == {"launch", "read", "me", "refresh", "save", "clear", "wipe", "ack",
         "bind", "rebind", "in", "signedout", "drain", "revoke", "call", "sent",
         "denied", "await", "resent", "relogin"}

FlightPC == {"idle", "read", "refresh", "save", "clear"}

WorkPC == {"idle", "bind", "rebind", "claim", "call", "sent", "denied", "await",
           "resent", "persist", "clear"}

VARIABLES
    pairs, revoked, expired, gone,   \* server: pairs issued, dead sessions, expiry
    store, marker,                   \* SecureStore
    data, edits, bound,              \* SQLite: accounts with rows, outbox, owner
    pc, tok, left, carry,            \* per process: step, tokens, items, batch
    shown, goal, accepting,          \* the user interface and acceptingWork
    made, ends, faults,              \* bounds
    ended,                           \* history: sessions ended on purpose, or never delivered
    lapses                           \* history: see Properties

server == <<pairs, revoked, expired, gone>>
secure == <<store, marker>>
sqlite == <<data, edits, bound>>
memory == <<pc, tok, left, carry, shown, goal, accepting>>
bounds == <<made, ends, faults>>
history == <<ended, lapses>>
vars == <<pairs, revoked, expired, gone, store, marker, data, edits, bound, pc, tok,
          left, carry, shown, goal, accepting, made, ends, faults, ended, lapses>>

Init ==
    /\ pairs = <<>> /\ revoked = {} /\ expired = 0 /\ gone = {}
    /\ store = None /\ marker = FALSE
    /\ data = {} /\ edits = {} /\ bound = Nil
    /\ pc = [p \in Process |-> IF p = "ui" THEN "launch" ELSE "idle"]
    /\ tok = [p \in Process |-> None]
    /\ left = [p \in Process |-> <<>>]
    /\ carry = [w \in Work |-> {}]
    /\ shown = Nil /\ goal = Nil /\ accepting = TRUE
    /\ made = 0 /\ ends = 0 /\ faults = 0
    /\ ended = {} /\ lapses = {}

Goto(p, label) == pc' = [pc EXCEPT ![p] = label]

Hold(p, c) == tok' = [tok EXCEPT ![p] = c]

-----------------------------------------------------------------------------
(* The server *)

SessionsOf(a) == {pairs[n].sess : n \in {m \in DOMAIN pairs : pairs[m].acct = a}}

Live(n) == pairs[n].sess \notin revoked

AccessValid(n) == n # 0 /\ Live(n) /\ n > expired

\* No later token of the session: neither used nor replaced.
Unused(n) == \A m \in DOMAIN pairs : pairs[m].sess = pairs[n].sess => m <= n

Issued(n, acct) == [access |-> n, refresh |-> n, user |-> acct]

\* The pair the next successful login or rotation brings.
NextIssued(acct) == Issued(Len(pairs) + 1, acct)

NextSession == Len(pairs) + 1

\* issue_mobile_session: the account's sessions on this device are revoked.
\* lost: the new session, when its tokens do not arrive.
Issue(a, lost) ==
    /\ a \notin gone
    /\ Len(pairs) < MaxPairs
    /\ pairs' = Append(pairs, [acct |-> a, sess |-> NextSession])
    /\ revoked' = revoked \cup SessionsOf(a)
    /\ ended' = ended \cup SessionsOf(a) \cup lost
    /\ UNCHANGED <<expired, gone>>

\* rotate_mobile_refresh_token
Rotate(n) ==
    /\ Unused(n) /\ Live(n)
    /\ Len(pairs) < MaxPairs
    /\ pairs' = Append(pairs, pairs[n])
    /\ UNCHANGED <<revoked, expired, gone, ended>>

\* A used token revokes its session; a revoked one is refused.
Refuse(n) ==
    /\ ~ (Unused(n) /\ Live(n))
    /\ revoked' = IF Unused(n) THEN revoked ELSE revoked \cup {pairs[n].sess}
    /\ UNCHANGED <<pairs, expired, gone, ended>>

EndSessions(sessions) ==
    /\ revoked' = revoked \cup sessions
    /\ ended' = ended \cup sessions

\* Another client changes or resets the password.
EndElsewhere(a) ==
    /\ ends < MaxEnds
    /\ ends' = ends + 1
    /\ SessionsOf(a) \ revoked # {}
    /\ EndSessions(SessionsOf(a))
    /\ UNCHANGED <<pairs, expired, gone, secure, sqlite, memory, made, faults,
                   lapses>>

\* The access tokens issued so far run out.
Expire ==
    /\ expired < Len(pairs)
    /\ expired' = Len(pairs)
    /\ UNCHANGED <<pairs, revoked, gone, secure, sqlite, memory, bounds, history>>

ServerUnchanged == UNCHANGED <<pairs, revoked, expired, gone, ended>>

\* The server has acted and its answer does not arrive.
LoseAnswer == faults < MaxFaults /\ faults' = faults + 1

LoseRotation == LoseAnswer /\ lapses' = lapses \cup {"unsaved"}

-----------------------------------------------------------------------------
(* SecureStore *)

\* saveMobileSession and clearMobileCredentials, item by item.
SaveItem(p) ==
    /\ pc[p] = "save" /\ left[p] # <<>>
    /\ store' = [store EXCEPT ![Head(left[p])] = tok[p][Head(left[p])]]
    /\ left' = [left EXCEPT ![p] = Tail(@)]
    /\ UNCHANGED <<server, marker, sqlite, pc, tok, carry, shown, goal, accepting,
                   bounds, history>>

ClearItem(p) ==
    /\ pc[p] = "clear" /\ left[p] # <<>>
    /\ store' = [store EXCEPT ![Head(left[p])] = None[Head(left[p])]]
    /\ left' = [left EXCEPT ![p] = Tail(@)]
    /\ UNCHANGED <<server, marker, sqlite, pc, tok, carry, shown, goal, accepting,
                   bounds, history>>

\* Where a process goes when it begins to save or to clear.
BeginSave(p, c) == Goto(p, "save") /\ Hold(p, c) /\ left' = [left EXCEPT ![p] = Item]

BeginClear(p) ==
    /\ Goto(p, "clear")
    /\ left' = [left EXCEPT ![p] = Item]
    /\ Hold(p, None)

Waiting == {p \in Process : pc[p] = "await"}

\* The shared rotation is over: everyone who waits gets the new token, or
\* the error, which ends a task and makes the interface go on.
FlightEnds(granted) ==
    LET uiGivesUp == ~ granted /\ "ui" \in Waiting IN
    /\ pc' = [p \in Process |->
                IF p \in Waiting
                THEN IF granted THEN "resent" ELSE IF p = "ui" THEN "in" ELSE "idle"
                ELSE IF p = "flight" THEN "idle" ELSE pc[p]]
    /\ tok' = [p \in Process |->
                 CASE p = "flight" -> None
                   [] p \in Waiting /\ granted -> tok["flight"]
                   [] OTHER -> tok[p]]
    /\ carry' = [w \in Work |-> IF w \in Waiting /\ ~ granted THEN {} ELSE carry[w]]
    /\ goal' = IF uiGivesUp THEN Nil ELSE goal
    /\ accepting' = (accepting \/ uiGivesUp)

\* invalidateMobileSessionAndRequireLocalWipe sets the marker after the
\* credentials are gone; restore with the marker set finds it set.
Mark(p) ==
    /\ pc[p] = "clear" /\ left[p] = <<>>
    /\ marker' = TRUE
    /\ IF p = "flight"
       THEN FlightEnds(FALSE)
       ELSE /\ Goto(p, IF p = "ui" THEN "wipe" ELSE "idle")
            /\ UNCHANGED <<tok, carry, goal, accepting>>
    /\ UNCHANGED <<server, store, sqlite, left, shown, bounds, history>>

-----------------------------------------------------------------------------
(* The user interface: AuthProvider and sessionManager *)

UiRest == UNCHANGED <<carry, made, ends>>

Working == \E w \in Work : pc[w] # "idle"

\* restoreMobileSession runs without pausing or draining the account's work.
Overlaps == IF Working THEN {"overlap"} ELSE {}

\* hasLocalWipeRequirement: the first step of restore.
Mount ==
    /\ pc["ui"] = "launch"
    /\ IF marker THEN BeginClear("ui") ELSE Goto("ui", "read") /\ UNCHANGED <<tok, left>>
    /\ lapses' = lapses \cup Overlaps
    /\ UNCHANGED <<server, secure, sqlite, shown, goal, accepting, faults, ended>>
    /\ UiRest

ReadStored ==
    /\ pc["ui"] = "read"
    /\ CASE store = None -> Goto("ui", "signedout") /\ UNCHANGED <<tok, left>>
         [] store # None /\ \E i \in DOMAIN None : store[i] = None[i] -> BeginClear("ui")
         [] \A i \in DOMAIN None : store[i] # None[i] ->
              Goto("ui", "me") /\ Hold("ui", store) /\ UNCHANGED left
    /\ UNCHANGED <<server, secure, sqlite, shown, goal, accepting, faults, history>>
    /\ UiRest

\* Mutant: an outage is taken for a refusal.
MeOutageSignsOut ==
    /\ pc["ui"] = "me"
    /\ LET n == tok["ui"].access IN
       \/ /\ AccessValid(n)
          /\ BeginSave("ui", [tok["ui"] EXCEPT !.user = pairs[n].acct])
       \/ BeginClear("ui")
    /\ UNCHANGED <<server, secure, sqlite, shown, goal, accepting, faults, history>>
    /\ UiRest

\* client.me with the captured token; the captured tokens are saved again.
\* No answer: the cached user works offline.
Me ==
    /\ pc["ui"] = "me"
    /\ LET n == tok["ui"].access IN
       \/ /\ AccessValid(n)
          /\ BeginSave("ui", [tok["ui"] EXCEPT !.user = pairs[n].acct])
       \/ /\ ~ AccessValid(n)
          /\ Goto("ui", "refresh")
          /\ UNCHANGED <<tok, left>>
       \/ /\ Goto("ui", "bind")
          /\ UNCHANGED <<tok, left>>
    /\ UNCHANGED <<server, secure, sqlite, shown, goal, accepting, faults, history>>
    /\ UiRest

\* client.refresh with the captured token, outside the shared flight.
RestoreRefresh ==
    LET n == tok["ui"].refresh IN
    /\ pc["ui"] = "refresh"
    /\ \/ /\ Rotate(n)
          /\ BeginSave("ui", NextIssued(pairs[n].acct))
          /\ UNCHANGED <<lapses, faults>>
       \/ /\ Refuse(n)
          /\ BeginClear("ui")
          /\ UNCHANGED <<lapses, faults>>
       \/ /\ Rotate(n) /\ LoseRotation
          /\ Goto("ui", "bind")
          /\ UNCHANGED <<tok, left>>
       \/ /\ ServerUnchanged
          /\ Goto("ui", "bind")
          /\ UNCHANGED <<tok, left, lapses, faults>>
    /\ UNCHANGED <<secure, sqlite, shown, goal, accepting>>
    /\ UiRest

\* loginMobileSession; a lost answer leaves a session nobody uses.
Login(a) ==
    /\ pc["ui"] = "signedout"
    /\ \/ Issue(a, {}) /\ BeginSave("ui", NextIssued(a)) /\ UNCHANGED faults
       \/ Issue(a, {NextSession}) /\ LoseAnswer /\ UNCHANGED <<pc, tok, left>>
    /\ UNCHANGED <<secure, sqlite, shown, goal, accepting, lapses>>
    /\ UiRest

\* The tokens are stored: a new session is bound to the replica; after a
\* password change the interface goes on.
Saved ==
    /\ pc["ui"] = "save" /\ left["ui"] = <<>>
    /\ IF goal = "password"
       THEN Goto("ui", "in") /\ Hold("ui", None) /\ goal' = Nil /\ accepting' = TRUE
       ELSE Goto("ui", "bind") /\ UNCHANGED <<tok, goal, accepting>>
    /\ UNCHANGED <<server, secure, sqlite, left, shown, faults, history>>
    /\ UiRest

\* bindLocalAccount: the rows of another account are deleted first, in a
\* transaction of their own.  The interface then resumes the session's work.
EnterBound(p) ==
    /\ Hold(p, None)
    /\ IF p = "ui"
       THEN Goto(p, "in") /\ shown' = tok[p].user /\ accepting' = TRUE
       ELSE Goto(p, "claim") /\ UNCHANGED <<shown, accepting>>

\* Mutant: the replica of the previous account is kept.
BindKeepingRows(p) ==
    /\ pc[p] = "bind"
    /\ bound' = tok[p].user
    /\ EnterBound(p)
    /\ UNCHANGED <<server, secure, data, edits, left, carry, goal, bounds, history>>

Bind(p) ==
    /\ pc[p] = "bind"
    /\ IF bound = tok[p].user
       THEN EnterBound(p) /\ UNCHANGED sqlite
       ELSE /\ data' = {} /\ edits' = {} /\ bound' = Nil
            /\ Goto(p, "rebind")
            /\ UNCHANGED <<tok, shown, accepting>>
    /\ UNCHANGED <<server, secure, left, carry, goal, bounds, history>>

Rebind(p) ==
    /\ pc[p] = "rebind"
    /\ bound' = tok[p].user
    /\ EnterBound(p)
    /\ UNCHANGED <<server, secure, data, edits, left, carry, goal, bounds, history>>

\* A local edit runs inside runSessionWork and is one SQLite transaction.
EditLocally ==
    /\ pc["ui"] = "in" /\ accepting
    /\ made < MaxEdits
    /\ made' = made + 1
    /\ edits' = edits \cup {[acct |-> shown, id |-> made + 1]}
    /\ data' = data \cup {shown}
    /\ UNCHANGED <<server, secure, bound, memory, ends, faults, history>>

\* logout, changePassword, deleteAccount: pauseAndDrainSessionWork first.
Leave(g) ==
    /\ pc["ui"] = "in"
    /\ goal' = g
    /\ accepting' = FALSE
    /\ Goto("ui", "drain")
    /\ UNCHANGED <<server, secure, sqlite, tok, left, shown, faults, history>>
    /\ UiRest

\* Mutant: nobody waits for the work in progress.
DrainedAtOnce ==
    /\ pc["ui"] = "drain"
    /\ Goto("ui", IF goal = "logout" THEN "revoke" ELSE "call")
    /\ UNCHANGED <<server, secure, sqlite, tok, left, goal, accepting, shown, faults, history>>
    /\ UiRest

\* Mutant: logout itself is registered with runSessionWork.
DrainedOfItself ==
    /\ pc["ui"] = "drain"
    /\ \A p \in Process : pc[p] = "idle"
    /\ Goto("ui", "revoke")
    /\ UNCHANGED <<server, secure, sqlite, tok, left, goal, accepting, shown, faults,
                   history>>
    /\ UiRest

\* Unsynchronized edits forbid a password change.
Drained ==
    /\ pc["ui"] = "drain"
    /\ ~ Working
    /\ CASE goal = "logout" -> Goto("ui", "revoke") /\ UNCHANGED <<goal, accepting>>
         [] goal = "password" /\ edits # {} ->
              Goto("ui", "in") /\ goal' = Nil /\ accepting' = TRUE
         [] OTHER -> Goto("ui", "call") /\ UNCHANGED <<goal, accepting>>
    /\ UNCHANGED <<server, secure, sqlite, tok, left, shown, faults, history>>
    /\ UiRest

\* logoutMobileSession: the server's revocation is best effort.
RevokeStored ==
    /\ pc["ui"] = "revoke"
    /\ IF store.refresh = 0
       THEN UNCHANGED <<revoked, ended>>
       ELSE \/ EndSessions({pairs[store.refresh].sess})
            \/ ended' = ended \cup {pairs[store.refresh].sess} /\ UNCHANGED revoked
    /\ BeginClear("ui")
    /\ UNCHANGED <<pairs, expired, gone, secure, sqlite, shown, goal, accepting, faults,
                   lapses>>
    /\ UiRest

\* changePasswordSession signs in again; without an answer it signs out.
Relogin ==
    /\ pc["ui"] = "relogin"
    /\ \/ Issue(shown, {}) /\ BeginSave("ui", NextIssued(shown)) /\ UNCHANGED faults
       \/ Issue(shown, {NextSession}) /\ LoseAnswer /\ BeginClear("ui")
       \/ ServerUnchanged /\ BeginClear("ui") /\ UNCHANGED faults
    /\ UNCHANGED <<secure, sqlite, shown, goal, accepting, lapses>>
    /\ UiRest

\* clearLocalAccountData, then acknowledgeLocalWipeRequirement.
Wipe ==
    /\ pc["ui"] = "wipe"
    /\ data' = {} /\ edits' = {} /\ bound' = Nil
    /\ Goto("ui", "ack")
    /\ UNCHANGED <<server, secure, tok, left, shown, goal, accepting, faults, history>>
    /\ UiRest

\* Mutant: the requirement stays.
AcknowledgeNothing ==
    /\ pc["ui"] = "ack"
    /\ shown' = Nil /\ goal' = Nil
    /\ Goto("ui", "signedout")
    /\ UNCHANGED <<server, secure, sqlite, tok, left, accepting, faults, history>>
    /\ UiRest

Acknowledge ==
    /\ pc["ui"] = "ack"
    /\ marker' = FALSE
    /\ shown' = Nil /\ goal' = Nil
    /\ Goto("ui", "signedout")
    /\ UNCHANGED <<server, store, sqlite, tok, left, accepting, faults, history>>
    /\ UiRest

-----------------------------------------------------------------------------
(* MobileApiClient: an authenticated call by a task or by the interface *)

CallRest == UNCHANGED <<left, made, ends>>

\* The call throws: a task ends, the interface resumes the session's work.
GiveUp(p) ==
    /\ Hold(p, None)
    /\ IF p = "ui"
       THEN Goto(p, "in") /\ goal' = Nil /\ accepting' = TRUE /\ UNCHANGED carry
       ELSE /\ Goto(p, "idle")
            /\ carry' = [carry EXCEPT ![p] = {}]
            /\ UNCHANGED <<goal, accepting>>

\* The token is read when the call is made.
SendCall(p) ==
    /\ pc[p] = "call"
    /\ IF store.access = 0
       THEN GiveUp(p)
       ELSE Goto(p, "sent") /\ Hold(p, store) /\ UNCHANGED <<carry, goal, accepting>>
    /\ UNCHANGED <<server, secure, sqlite, shown, faults, history>>
    /\ CallRest

\* What an authorized call does on the server: a task pushes its batch under
\* the account of its token.
Serve(p) ==
    LET acct == pairs[tok[p].access].acct IN
    IF p # "ui"
    THEN UNCHANGED <<revoked, ended, gone>>
    ELSE /\ EndSessions(SessionsOf(acct))
         /\ gone' = IF goal = "delete" THEN gone \cup {acct} ELSE gone

\* The call is answered, its answer is faults, or nobody is reached.
Answered(p) ==
    LET valid == AccessValid(tok[p].access) IN
    /\ pc[p] \in {"sent", "resent"}
    /\ \/ /\ valid
          /\ Serve(p)
          /\ IF p = "ui" /\ goal = "delete"
             THEN BeginClear(p)
             ELSE /\ Goto(p, IF p = "ui" THEN "relogin" ELSE "persist")
                  /\ IF p = "ui" THEN Hold(p, None) ELSE UNCHANGED tok
                  /\ UNCHANGED left
          /\ UNCHANGED <<carry, goal, accepting, faults>>
       \/ /\ valid
          /\ Serve(p) /\ LoseAnswer
          /\ GiveUp(p)
          /\ UNCHANGED left
       \/ /\ ~ valid /\ pc[p] = "sent"
          /\ Goto(p, "denied")
          /\ UNCHANGED <<revoked, ended, gone, tok, left, carry, goal, accepting, faults>>
       \/ /\ GiveUp(p)
          /\ UNCHANGED <<revoked, ended, gone, left, faults>>
    /\ UNCHANGED <<pairs, expired, secure, sqlite, shown, made, ends,
                   lapses>>

\* Mutant: every denied call starts a rotation with the token it has used.
DeniedRotatesAgain(p) ==
    /\ pc[p] = "denied"
    /\ \/ /\ pc["flight"] = "idle"
          /\ pc' = [pc EXCEPT ![p] = "await", !["flight"] = "refresh"]
          /\ tok' = [tok EXCEPT !["flight"] = tok[p], ![p] = None]
       \/ /\ pc["flight"] # "idle"
          /\ Goto(p, "await") /\ Hold(p, None)
    /\ UNCHANGED <<server, secure, sqlite, carry, shown, goal, accepting, faults, history>>
    /\ CallRest

\* After a 401: a token stored in the meantime is used, otherwise the call
\* waits for the shared rotation and starts it if there is none.
Denied(p) ==
    /\ pc[p] = "denied"
    /\ IF store.access \notin {0, tok[p].access}
       THEN Goto(p, "resent") /\ Hold(p, store)
       ELSE /\ pc' = [pc EXCEPT ![p] = "await",
                                !["flight"] = IF @ = "idle" THEN "read" ELSE @]
            /\ Hold(p, None)
    /\ UNCHANGED <<server, secure, sqlite, carry, shown, goal, accepting, faults, history>>
    /\ CallRest

FlightRest == UNCHANGED <<sqlite, shown, made, ends>>

FlightRead ==
    /\ pc["flight"] = "read"
    /\ IF store.refresh = 0
       THEN BeginClear("flight")
       ELSE Goto("flight", "refresh") /\ Hold("flight", store) /\ UNCHANGED left
    /\ UNCHANGED <<server, secure, carry, goal, accepting, faults, ended, lapses>>
    /\ FlightRest

FlightRefresh ==
    LET n == tok["flight"].refresh IN
    /\ pc["flight"] = "refresh"
    /\ \/ /\ Rotate(n)
          /\ BeginSave("flight", NextIssued(pairs[n].acct))
          /\ UNCHANGED <<carry, goal, accepting, lapses, faults>>
       \/ /\ Refuse(n)
          /\ BeginClear("flight")
          /\ UNCHANGED <<carry, goal, accepting, lapses, faults>>
       \/ /\ Rotate(n) /\ LoseRotation
          /\ FlightEnds(FALSE)
          /\ UNCHANGED left
       \/ /\ ServerUnchanged
          /\ FlightEnds(FALSE)
          /\ UNCHANGED <<left, lapses, faults>>
    /\ UNCHANGED secure
    /\ FlightRest

FlightSaved ==
    /\ pc["flight"] = "save" /\ left["flight"] = <<>>
    /\ FlightEnds(TRUE)
    /\ UNCHANGED <<server, secure, left, faults, ended, lapses>>
    /\ FlightRest

-----------------------------------------------------------------------------
(* The account's work *)

WorkRest == UNCHANGED <<server, secure, left, shown, goal, accepting, bounds, ended>>

\* runSessionWork.  A headless run first reads the stored session: without a
\* user it has nothing to do, with half a session it invalidates the rest.
Start(w) ==
    /\ pc[w] = "idle"
    /\ accepting
    /\ IF w \in Headless
       THEN /\ store.user # Nil
            /\ IF store.access = 0 \/ store.refresh = 0
               THEN BeginClear(w)
               ELSE Goto(w, "bind") /\ Hold(w, store) /\ UNCHANGED left
       ELSE /\ pc["ui"] = "in"
            /\ Goto(w, "claim")
            /\ UNCHANGED <<tok, left>>
    /\ lapses' = IF pc["ui"] \in {"read", "me", "refresh", "save", "clear",
                                  "wipe", "ack", "bind", "rebind"}
                 THEN lapses \cup {"overlap"} ELSE lapses
    /\ UNCHANGED <<server, secure, sqlite, carry, shown, goal, accepting, bounds, ended>>

\* The batch of a sync run; other tasks push nothing.
Claim(w) ==
    /\ pc[w] = "claim"
    /\ carry' = [carry EXCEPT ![w] = IF w \in Headless THEN edits ELSE {}]
    /\ Goto(w, "call")
    /\ UNCHANGED <<sqlite, tok, lapses>>
    /\ WorkRest

\* The answer's rows are written to the replica, whoever owns it by then.
Persist(w) ==
    /\ pc[w] = "persist"
    /\ edits' = edits \ carry[w]
    /\ data' = data \cup {pairs[tok[w].access].acct}
    /\ carry' = [carry EXCEPT ![w] = {}]
    /\ Goto(w, "idle") /\ Hold(w, None)
    /\ UNCHANGED <<bound, lapses>>
    /\ WorkRest

-----------------------------------------------------------------------------
\* The process dies; SecureStore, SQLite and the server stay.
Crash ==
    /\ faults < MaxFaults
    /\ pc["ui"] # "launch" \/ Working
    /\ faults' = faults + 1
    /\ pc' = [p \in Process |-> IF p = "ui" THEN "launch" ELSE "idle"]
    /\ tok' = [p \in Process |-> None]
    /\ left' = [p \in Process |-> <<>>]
    /\ carry' = [w \in Work |-> {}]
    /\ shown' = Nil /\ goal' = Nil /\ accepting' = TRUE
    /\ lapses' = lapses
         \cup (IF ~ marker /\ \E p \in Process : pc[p] = "clear" /\ left[p] = <<>>
               THEN {"unmarked"} ELSE {})
         \cup (IF \E p \in {"ui", "flight"} : pc[p] = "save" THEN {"unsaved"} ELSE {})
    /\ UNCHANGED <<server, secure, sqlite, made, ends, ended>>

UiStep ==
    \/ Mount \/ ReadStored \/ Me \/ RestoreRefresh \/ Saved \/ Drained
    \/ RevokeStored \/ Relogin \/ Wipe \/ Acknowledge

StepOf(p) ==
    \/ SaveItem(p) \/ ClearItem(p) \/ Mark(p) \/ Bind(p) \/ Rebind(p)
    \/ SendCall(p) \/ Answered(p) \/ Denied(p)

FlightStep == FlightRead \/ FlightRefresh \/ FlightSaved

Next ==
    \/ \E a \in Account : Login(a) \/ EndElsewhere(a)
    \/ \E g \in UserGoals : Leave(g)
    \/ UiStep \/ EditLocally
    \/ \E p \in Process : StepOf(p)
    \/ FlightStep
    \/ \E w \in Work : Start(w) \/ Claim(w) \/ Persist(w)
    \/ Expire \/ Crash

Spec == Init /\ [][Next]_vars

\* Started code runs on: every call ends, if only by its timeout.  Taps,
\* new tasks, expiry, crashes and other clients are free.
FairSpec ==
    /\ Spec
    /\ WF_vars(UiStep)
    /\ WF_vars(FlightStep)
    /\ \A p \in Process : WF_vars(StepOf(p))
    /\ \A w \in Work : WF_vars(Claim(w) \/ Persist(w))

-----------------------------------------------------------------------------
(* Properties *)

ServerTyped ==
    /\ pairs \in Seq(Pair) /\ Len(pairs) <= MaxPairs
    /\ revoked \subseteq 1..MaxPairs /\ ended \subseteq 1..MaxPairs
    /\ expired \in Token /\ gone \subseteq Account

DeviceTyped ==
    /\ store \in Credentials /\ marker \in BOOLEAN
    /\ data \subseteq Account /\ edits \subseteq Edit /\ bound \in Account \cup {Nil}

StepsTyped ==
    /\ pc \in [Process -> UiPC \cup FlightPC \cup WorkPC]
    /\ pc["ui"] \in UiPC /\ pc["flight"] \in FlightPC /\ \A w \in Work : pc[w] \in WorkPC

MemoryTyped ==
    /\ tok \in [Process -> Credentials] /\ left \in [Process -> Remaining]
    /\ carry \in [Work -> SUBSET Edit]

UiTyped ==
    /\ shown \in Account \cup {Nil} /\ goal \in UserGoals \cup {Nil} /\ accepting \in BOOLEAN
    /\ made \in 0..MaxEdits /\ ends \in 0..MaxEnds /\ faults \in 0..MaxFaults
    /\ lapses \subseteq {"unsaved", "unmarked", "overlap"}

TypeOK ==
    /\ ServerTyped /\ DeviceTyped /\ StepsTyped /\ MemoryTyped /\ UiTyped
    /\ \A w \in Work : pc[w] = "idle" => tok[w] = None /\ carry[w] = {}

\* The three causes a property may name:
\*   unsaved   a rotated pair was not stored: its answer was lost, or the
\*             process died while storing it;
\*   unmarked  the process died between the removal of the credentials and
\*             the marker that asks for the wipe;
\*   overlap   a task of the account ran next to restore or login.

\* At the login screen the device holds nothing of the account that left,
\* wherever the process died on the way and whatever was in flight when it
\* began.
SignedOutIsClean ==
    pc["ui"] = "signedout" /\ lapses \cap {"unmarked", "overlap"} = {}
        => data = {} /\ edits = {} /\ bound = Nil

\* One account at a time: the interface, the rows, the unsynchronized edits
\* and the owner of the replica are of one account, and a task pushes under
\* a token of the account that made the edits, although tokens, owner and
\* batch are read at different moments.
OneAccountAtATime ==
    "overlap" \notin lapses =>
        /\ pc["ui"] = "in" =>
             /\ bound = shown
             /\ data \subseteq {shown} /\ \A e \in edits : e.acct = shown
        /\ \A w \in Work : pc[w] \in {"sent", "resent", "persist"} =>
             \A e \in carry[w] : e.acct = pairs[tok[w].access].acct

\* Whatever the user, the tasks and the server do at once, the device is in one
\* piece and of one account.
DeviceConsistent == TypeOK /\ OneAccountAtATime

\* A session is revoked as replayed only after a rotation that was not
\* stored, or next to a restore: tasks that meet a 401 together never
\* present one refresh token twice.
ReplayHasCause ==
    [][(revoked' \ revoked) \subseteq ended' \/ lapses \cap {"unsaved", "overlap"} # {}]_vars

\* An edit that was not pushed disappears only with the account: its session
\* was ended on purpose, here or elsewhere, or one of the three causes had
\* occurred.  Outages, expired tokens and restarts alone never cost an edit.
EditsSurvive ==
    [][\A e \in edits \ edits' :
         \/ \E w \in Work : pc[w] = "persist" /\ e \in carry[w]
         \/ SessionsOf(e.acct) \subseteq ended
         \/ lapses # {}]_vars

\* A wipe that a task or an interrupted logout required is carried out after
\* the next launch.
WipeIsCarriedOut == pc["ui"] = "launch" /\ marker ~> ~ marker

\* The interface never waits for ever in a drain, a call or a rotation: it
\* comes back to the application or to the login screen.
UiComesBack ==
    pc["ui"] # "launch" ~> pc["ui"] \in {"in", "signedout", "launch"}

\* sessionManager.ts on logout: "a process death after credentials are
\* removed still retries the wipe on startup".
LogoutIsCrashSafe ==
    pc["ui"] = "signedout" /\ "overlap" \notin lapses => data = {} /\ edits = {}
=============================================================================
