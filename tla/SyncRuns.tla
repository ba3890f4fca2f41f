------------------------------- MODULE SyncRuns -------------------------------
(***************************************************************************)
(* When the application synchronizes: SyncCoordinator keeps one run under  *)
(* way and remembers that another was requested; OnlineSyncProvider asks   *)
(* on edits, navigation, reconnection and return to the foreground, and    *)
(* switches the coordinator off without a network or a user.  Requests are *)
(* numbered; a step is what JavaScript runs without giving way.            *)
(***************************************************************************)
EXTENDS Naturals, FiniteSets

CONSTANTS
    MaxRequests, \* bound: requests
    MaxSwitches  \* bound: times the coordinator or the session is switched

VARIABLES
    flight,    \* "none", "planned" (its microtask not run yet) or "running"
    requested, \* the flag
    canRun,    \* enabled by the provider, session open, in the foreground
    waiting,   \* requests whose promise is that of the flight
    settled,   \* requests whose promise has settled, and how
    covers,    \* history: requests made before the run under way started
    served,    \* history: requests that a finished run covered
    refused,   \* history: requests that met a coordinator switched off
    runCount   \* requests and switches so far

runVars == <<flight, requested, canRun, waiting, settled, covers, served, refused, runCount>>

Made == 1..runCount.requests

Init ==
    /\ flight = "none"
    /\ requested = FALSE
    /\ canRun = FALSE
    /\ waiting = {}
    /\ settled = [ok |-> {}, failed |-> {}]
    /\ covers = {}
    /\ served = {}
    /\ refused = {}
    /\ runCount = [requests |-> 0, switches |-> 0]

-----------------------------------------------------------------------------

\* Mutant: a request that joins a flight does not raise the flag.
RaisedIfAlone == flight = "none" \/ requested

\* The flag is raised before the flight is looked at.
Raised == TRUE

\* request(): the flag, and the flight under way or a new one.
Request ==
    LET r == runCount.requests + 1 IN
    /\ runCount.requests < MaxRequests
    /\ runCount' = [runCount EXCEPT !.requests = r]
    /\ requested' = Raised
    /\ refused' = IF canRun THEN refused ELSE refused \cup {r}
    /\ IF flight # "none" \/ canRun
       THEN /\ flight' = IF flight = "none" THEN "planned" ELSE flight
            /\ waiting' = waiting \cup {r}
            /\ UNCHANGED settled
       ELSE /\ settled' = [settled EXCEPT !.ok = @ \cup {r}]
            /\ UNCHANGED <<flight, waiting>>
    /\ UNCHANGED <<canRun, covers, served>>

\* The network, the session or the foreground comes or goes.
Switch ==
    /\ runCount.switches < MaxSwitches
    /\ runCount' = [runCount EXCEPT !.switches = @ + 1]
    /\ canRun' = ~ canRun
    /\ refused' = IF canRun THEN refused \cup waiting ELSE refused
    /\ UNCHANGED <<flight, requested, waiting, settled, covers, served>>

\* The loop's condition: another run starts, or the flight is over and its
\* promise resolves.
Loop(flag) ==
    IF flag /\ canRun
    THEN /\ flight' = "running"
         /\ covers' = Made
         /\ requested' = FALSE
         /\ UNCHANGED <<waiting, settled>>
    ELSE /\ flight' = "none"
         /\ covers' = {}
         /\ requested' = flag
         /\ waiting' = {}
         /\ settled' = [settled EXCEPT !.ok = @ \cup waiting]

Start ==
    /\ flight = "planned"
    /\ Loop(requested)
    /\ UNCHANGED <<canRun, served, refused, runCount>>

Succeed ==
    /\ flight = "running"
    /\ served' = served \cup covers
    /\ Loop(requested)
    /\ UNCHANGED <<canRun, refused, runCount>>

\* A run that fails ends the flight; the flag stays as it is.
Fail ==
    /\ flight = "running"
    /\ flight' = "none"
    /\ waiting' = {}
    /\ covers' = {}
    /\ settled' = [settled EXCEPT !.failed = @ \cup waiting]
    /\ UNCHANGED <<requested, canRun, served, refused, runCount>>

Next == Request \/ Switch \/ Start \/ Succeed \/ Fail

Spec == Init /\ [][Next]_runVars

-----------------------------------------------------------------------------
(* Properties *)

\* A request whose promise resolves was served by a run that started after it,
\* unless the coordinator was switched off meanwhile; an edit made while a run
\* reads the outbox is not taken for synchronized by that run.
ResolvedIsServed == settled.ok \subseteq served \cup refused

\* Nobody waits in vain: a promise that has not settled is that of a flight
\* which has a step to take.
WaitingIsServed ==
    /\ waiting = Made \ (settled.ok \cup settled.failed)
    /\ waiting # {} => flight \in {"planned", "running"}

\* Every request to synchronize is answered by a run that covers it or by the
\* failure it waited for, and by nothing less.
SyncRunsSafe == ResolvedIsServed /\ WaitingIsServed

=============================================================================
