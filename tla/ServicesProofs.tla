---------------------------- MODULE ServicesProofs ----------------------------
(***************************************************************************)
(* Safety of the services, for any number of requests, switches, deaths,   *)
(* scans and reviews: the invariant of each component is inductive for its *)
(* own steps and only that component of the composition moves.             *)
(***************************************************************************)
EXTENDS MCServices, NaturalSets, FiniteSetTheorems

-----------------------------------------------------------------------------
(* The scheduling of synchronization runs *)

RunType ==
    /\ flight \in {"none", "planned", "running"}
    /\ requested \in BOOLEAN /\ canRun \in BOOLEAN
    /\ runCount \in [requests : Nat, switches : Nat]
    /\ settled \in [ok : SUBSET Nat, failed : SUBSET Nat]
    /\ covers \subseteq Run!Made /\ waiting \subseteq Run!Made

\* A request that waits will be covered: by the run under way, or by the next
\* one, which the flag asks for, unless the coordinator was switched off.
WaitersCovered ==
    /\ flight # "running" => covers = {}
    /\ requested \/ waiting \subseteq covers \cup refused
    /\ canRun \/ waiting \subseteq refused
    /\ settled.ok \cup settled.failed \subseteq Run!Made

RunInv == RunType /\ WaitersCovered /\ Run!SyncRunsSafe

LEMMA RunInit == Run!Init => RunInv
<1> SUFFICES ASSUME Run!Init PROVE RunInv
  OBVIOUS
<1>1. /\ flight = "none" /\ ~ requested /\ ~ canRun /\ waiting = {} /\ covers = {}
      /\ settled.ok = {} /\ settled.failed = {} /\ served = {} /\ refused = {}
  BY DEF Run!Init
<1>2. Run!Made = {}
  BY DEF Run!Init, Run!Made
<1>3. RunType
  BY DEF Run!Init, RunType
<1> QED  BY <1>1, <1>2, <1>3 DEF RunInv, WaitersCovered, Run!SyncRunsSafe,
              Run!ResolvedIsServed, Run!WaitingIsServed

LEMMA MadeGrows ==
    ASSUME RunType, runCount'.requests = runCount.requests + 1
    PROVE  Run!Made' = Run!Made \cup {runCount.requests + 1}
BY DEF RunType, Run!Made

LEMMA RunRequest == RunInv /\ Run!Request => RunInv'
<1> SUFFICES ASSUME RunInv, Run!Request PROVE RunInv'
  OBVIOUS
<1> DEFINE r == runCount.requests + 1
<1>1. /\ runCount' \in [requests : Nat, switches : Nat]
      /\ runCount'.requests = r /\ r \in Nat /\ r \notin Run!Made
  BY DEF Run!Request, RunInv, RunType, Run!Made
<1>2. Run!Made' = Run!Made \cup {r}
  BY <1>1, MadeGrows DEF RunInv
<1>3. requested' = TRUE
  BY DEF Run!Request, Run!Raised
<1>4. CASE flight # "none" \/ canRun
  <2>1. /\ flight' = IF flight = "none" THEN "planned" ELSE flight
        /\ waiting' = waiting \cup {r} /\ settled' = settled
        /\ refused' = IF canRun THEN refused ELSE refused \cup {r}
        /\ UNCHANGED <<canRun, covers, served>>
    BY <1>4 DEF Run!Request
  <2>2. RunType'
    BY <1>1, <1>2, <1>3, <2>1 DEF RunInv, RunType
  <2>3. WaitersCovered'
    BY <1>2, <1>3, <2>1 DEF RunInv, WaitersCovered
  <2>4. Run!ResolvedIsServed'
    BY <2>1 DEF RunInv, Run!SyncRunsSafe, Run!ResolvedIsServed
  <2>5. Run!WaitingIsServed'
    BY <1>1, <1>2, <2>1 DEF RunInv, RunType, WaitersCovered, Run!SyncRunsSafe, Run!WaitingIsServed
  <2> QED  BY <2>2, <2>3, <2>4, <2>5 DEF RunInv, Run!SyncRunsSafe
<1>5. CASE ~ (flight # "none" \/ canRun)
  <2>1. /\ settled' = [settled EXCEPT !.ok = @ \cup {r}]
        /\ refused' = refused \cup {r}
        /\ UNCHANGED <<canRun, covers, served, flight, waiting>>
    BY <1>5 DEF Run!Request, RunInv, RunType
  <2>2. /\ settled' \in [ok : SUBSET Nat, failed : SUBSET Nat]
        /\ settled'.ok = settled.ok \cup {r} /\ settled'.failed = settled.failed
    BY <1>1, <2>1 DEF RunInv, RunType
  <2>3. RunType'
    BY <1>1, <1>2, <1>3, <2>1, <2>2 DEF RunInv, RunType
  <2>4. WaitersCovered'
    BY <1>2, <1>3, <2>1, <2>2 DEF RunInv, WaitersCovered
  <2>5. Run!ResolvedIsServed'
    BY <2>1, <2>2 DEF RunInv, Run!SyncRunsSafe, Run!ResolvedIsServed
  <2>6. Run!WaitingIsServed'
    BY <1>1, <1>2, <2>1, <2>2 DEF RunInv, RunType, WaitersCovered, Run!SyncRunsSafe, Run!WaitingIsServed
  <2> QED  BY <2>3, <2>4, <2>5, <2>6 DEF RunInv, Run!SyncRunsSafe
<1> QED  BY <1>4, <1>5

LEMMA RunSwitch == RunInv /\ Run!Switch => RunInv'
<1> SUFFICES ASSUME RunInv, Run!Switch PROVE RunInv'
  OBVIOUS
<1>1. /\ runCount' \in [requests : Nat, switches : Nat]
      /\ runCount'.requests = runCount.requests
      /\ canRun' = ~ canRun
      /\ refused' = IF canRun THEN refused \cup waiting ELSE refused
      /\ UNCHANGED <<flight, requested, waiting, settled, covers, served>>
  BY DEF Run!Switch, RunInv, RunType
<1>2. Run!Made' = Run!Made
  BY <1>1 DEF Run!Made
<1>3. RunType'
  BY <1>1, <1>2 DEF RunInv, RunType
<1>4. WaitersCovered'
  BY <1>1, <1>2 DEF RunInv, RunType, WaitersCovered
<1>5. Run!SyncRunsSafe'
  BY <1>1, <1>2 DEF RunInv, Run!SyncRunsSafe, Run!ResolvedIsServed, Run!WaitingIsServed
<1> QED  BY <1>3, <1>4, <1>5 DEF RunInv

\* The loop's condition, when the runs so far served all who wait and are not
\* covered by the flag.
LEMMA RunLoop ==
    ASSUME RunInv, Run!Loop(requested), flight # "none", UNCHANGED <<canRun, refused, runCount>>,
           served \subseteq served', covers \subseteq served'
    PROVE  RunInv'
<1>1. Run!Made' = Run!Made
  BY DEF Run!Made
<1>2. CASE requested /\ canRun
  <2>1. /\ flight' = "running" /\ covers' = Run!Made /\ requested' = FALSE
        /\ UNCHANGED <<waiting, settled>>
    BY <1>2 DEF Run!Loop
  <2>2. RunType'
    BY <1>1, <2>1 DEF RunInv, RunType
  <2>3. WaitersCovered'
    BY <1>1, <1>2, <2>1 DEF RunInv, RunType, WaitersCovered
  <2>4. Run!SyncRunsSafe'
    BY <1>1, <2>1 DEF RunInv, Run!SyncRunsSafe, Run!ResolvedIsServed, Run!WaitingIsServed
  <2> QED  BY <2>2, <2>3, <2>4 DEF RunInv
<1>3. CASE ~ (requested /\ canRun)
  <2>1. /\ flight' = "none" /\ covers' = {} /\ requested' = requested /\ waiting' = {}
        /\ settled' = [settled EXCEPT !.ok = @ \cup waiting]
    BY <1>3 DEF Run!Loop
  <2>2. /\ settled' \in [ok : SUBSET Nat, failed : SUBSET Nat]
        /\ settled'.ok = settled.ok \cup waiting /\ settled'.failed = settled.failed
    BY <2>1 DEF RunInv, RunType, Run!Made
  <2>3. RunType'
    BY <1>1, <2>1, <2>2 DEF RunInv, RunType
  <2>4. WaitersCovered'
    BY <1>1, <2>1, <2>2 DEF RunInv, RunType, WaitersCovered
  <2>5. Run!ResolvedIsServed'
    BY <1>3, <2>2 DEF RunInv, WaitersCovered, Run!SyncRunsSafe, Run!ResolvedIsServed
  <2>6. Run!WaitingIsServed'
    BY <1>1, <2>1, <2>2 DEF RunInv, WaitersCovered, Run!SyncRunsSafe, Run!WaitingIsServed
  <2> QED  BY <2>3, <2>4, <2>5, <2>6 DEF RunInv, Run!SyncRunsSafe
<1> QED  BY <1>2, <1>3

LEMMA RunFail == RunInv /\ Run!Fail => RunInv'
<1> SUFFICES ASSUME RunInv, Run!Fail PROVE RunInv'
  OBVIOUS
<1>1. /\ flight' = "none" /\ waiting' = {} /\ covers' = {}
      /\ settled' \in [ok : SUBSET Nat, failed : SUBSET Nat]
      /\ settled'.ok = settled.ok /\ settled'.failed = settled.failed \cup waiting
      /\ UNCHANGED <<requested, canRun, served, refused, runCount>>
  BY DEF Run!Fail, RunInv, RunType, Run!Made
<1>2. Run!Made' = Run!Made
  BY <1>1 DEF Run!Made
<1>3. RunType'
  BY <1>1, <1>2 DEF RunInv, RunType
<1>4. WaitersCovered'
  BY <1>1, <1>2 DEF RunInv, RunType, WaitersCovered
<1>5. Run!SyncRunsSafe'
  BY <1>1, <1>2 DEF RunInv, RunType, WaitersCovered, Run!SyncRunsSafe, Run!ResolvedIsServed,
       Run!WaitingIsServed
<1> QED  BY <1>3, <1>4, <1>5 DEF RunInv

LEMMA RunStep == RunInv /\ Run!Next => RunInv'
<1> SUFFICES ASSUME RunInv, Run!Next PROVE RunInv'
  OBVIOUS
<1>1. CASE Run!Start
  <2>1. /\ flight = "planned" /\ Run!Loop(requested)
        /\ UNCHANGED <<canRun, served, refused, runCount>>
    BY <1>1 DEF Run!Start
  <2>2. covers = {}
    BY <2>1 DEF RunInv, WaitersCovered
  <2> QED  BY <2>1, <2>2, RunLoop
<1>2. CASE Run!Succeed
  <2>1. /\ flight = "running" /\ Run!Loop(requested) /\ served' = served \cup covers
        /\ UNCHANGED <<canRun, refused, runCount>>
    BY <1>2 DEF Run!Succeed
  <2> QED  BY <2>1, RunLoop
<1> QED  BY <1>1, <1>2, RunRequest, RunSwitch, RunFail DEF Run!Next

-----------------------------------------------------------------------------
(* The start of the device's database *)

MigType ==
    /\ key \in BOOLEAN /\ marker \in BOOLEAN /\ had \in BOOLEAN
    /\ legacy \in {"absent", "empty", "data"}
    /\ main \in {"empty", "partial", "copied", "fresh"}
    /\ at \in {"stopped", "attached", "exporting", "checking", "deleting", "schema", "ready"}

\* Before the first start nothing has happened.
Untouched == ~ key => main = "empty" /\ ~ marker /\ (had => legacy = "data")

\* Where there was data, the plaintext file goes only after the marker, and the
\* marker stands for a complete copy.
MarkerIsCopy ==
    /\ marker => had /\ main = "copied"
    /\ had => (legacy = "data" \/ marker) /\ main # "fresh"
    /\ ~ had => legacy # "data" /\ main \in {"empty", "fresh"}

\* What the steps of a start have found.
StepsStand ==
    /\ at # "stopped" => key
    /\ at = "attached" => legacy # "absent"
    /\ at \in {"exporting", "checking"} => had /\ legacy = "data"
    /\ at = "exporting" => main = "empty"
    /\ at = "checking" => main = "copied"
    /\ at \in {"deleting", "schema"} /\ had => marker
    /\ at = "ready" => (had => marker) /\ main # "empty"

MigInv == MigType /\ Untouched /\ MarkerIsCopy /\ StepsStand

LEMMA MigInit == Mig!Init => MigInv
BY DEF Mig!Init, MigInv, MigType, Untouched, MarkerIsCopy, StepsStand

LEMMA MigStep == MigInv /\ Mig!Next => MigInv'
<1> SUFFICES ASSUME MigInv, Mig!Next PROVE MigInv'
  OBVIOUS
<1> USE DEF MigInv, MigType, Untouched, MarkerIsCopy, StepsStand
<1>1. CASE Mig!NewInstall
  BY <1>1 DEF Mig!NewInstall
<1>2. CASE Mig!Open
  BY <1>2 DEF Mig!Open
<1>3. CASE Mig!Decide
  BY <1>3 DEF Mig!Decide, Mig!Complete
<1>4. CASE Mig!Export
  BY <1>4 DEF Mig!Export
<1>5. CASE Mig!Mark
  BY <1>5 DEF Mig!Mark
<1>6. CASE Mig!DeleteLegacy
  BY <1>6 DEF Mig!DeleteLegacy
<1>7. CASE Mig!Schema
  BY <1>7 DEF Mig!Schema
<1>8. CASE Mig!Die
  BY <1>8 DEF Mig!Die
<1>9. CASE Mig!Restart
  BY <1>9 DEF Mig!Restart
<1> QED  BY <1>1, <1>2, <1>3, <1>4, <1>5, <1>6, <1>7, <1>8, <1>9 DEF Mig!Next

LEMMA MigSafe == MigInv => Mig!MigrationSafe
BY DEF MigInv, MigType, MarkerIsCopy, StepsStand, Mig!MigrationSafe, Mig!DataSurvives,
       Mig!ReadyIsComplete

-----------------------------------------------------------------------------
(* Scans and reviews of the findings *)

\* A scan that has read holds the lock, and what it read is what is there, but
\* for what was reviewed since.
ScanStands(s) ==
    LET t == scan[s] IN
    /\ t # Nil => t.age <= fndCount.writes
    /\ t # Nil /\ t.at \in {"read", "commit"} =>
         /\ lock = s
         /\ latest.at <= t.age
         /\ t.at = "commit" =>
              \A f \in Fp : /\ findings[f] = Nil <=> t.seen[f] = Nil
                            /\ f \notin t.since => findings[f] = t.seen[f]

\* What is reviewed is there, and a lock is held by a scan.
ActorsStand ==
    /\ lock # Nil => scan[lock] # Nil
    /\ \A r \in Reviewer : review[r] # Nil => findings[review[r].of] # Nil
    /\ latest.at <= fndCount.writes

FndInv ==
    /\ Fnd!TypeOK /\ ActorsStand
    /\ \A s \in Scanner : ScanStands(s)
    /\ Fnd!ScansNeverCollide /\ Fnd!LatestEvidenceStands

\* No record stands for Nil.
LEMMA FndApart ==
    /\ \A x \in Fnd!Finding : x # Nil
    /\ \A x \in Fnd!Review : x # Nil
    /\ \A x \in Fnd!Scan : x # Nil
    /\ Nil \notin Scanner
BY ServicesAssumption

\* Writing back a row that was not changed changes nothing.
LEMMA WrittenKeeps ==
    ASSUME NEW row \in Fnd!Finding, NEW old \in Fnd!Finding, NEW new \in Fnd!Finding
    PROVE  /\ Fnd!Written(row, old, new) \in Fnd!Finding
           /\ Fnd!Written(row, old, old) = row
           /\ row = old => Fnd!Written(row, old, new).status = new.status
BY DEF Fnd!Written, Fnd!Finding

LEMMA FndInit == Fnd!Init => FndInv
<1> SUFFICES ASSUME Fnd!Init PROVE FndInv
  OBVIOUS
<1>1. /\ evidence = {} /\ lock = Nil /\ reviewed = {} /\ ~ collided
      /\ latest.of = {} /\ latest.at = 0
      /\ \A f \in Fp : findings[f] = Nil
      /\ \A s \in Scanner : scan[s] = Nil
      /\ \A r \in Reviewer : review[r] = Nil
  BY DEF Fnd!Init
<1>2. Fnd!TypeOK
  BY DEF Fnd!Init, Fnd!TypeOK
<1>3. ActorsStand /\ \A s \in Scanner : ScanStands(s)
  BY <1>1, <1>2 DEF ActorsStand, ScanStands, Fnd!TypeOK
<1> QED  BY <1>1, <1>2, <1>3 DEF FndInv, Fnd!ScansNeverCollide, Fnd!LatestEvidenceStands

LEMMA FndRequest ==
    ASSUME FndInv, NEW s \in Scanner, Fnd!Request(s) PROVE FndInv'
<1>1. /\ scan[s] = Nil
      /\ fndCount' \in [scans : Nat, writes : Nat, reviews : Nat]
      /\ fndCount'.writes = fndCount.writes
      /\ UNCHANGED <<evidence, findings, lock, review, latest, reviewed, collided>>
  BY DEF Fnd!Request, FndInv, Fnd!TypeOK
<1>2. PICK t \in Fnd!Scan : scan' = [scan EXCEPT ![s] = t] /\ t.at = "load" /\ t.age = 0
  <2> DEFINE t == [at |-> "load", loaded |-> {}, age |-> 0, seen |-> findings, since |-> {}]
  <2>1. t \in Fnd!Scan /\ t.at = "load" /\ t.age = 0
    BY DEF FndInv, Fnd!TypeOK, Fnd!Scan
  <2>2. scan' = [scan EXCEPT ![s] = t]
    BY DEF Fnd!Request
  <2> HIDE DEF t
  <2> QED  BY <2>1, <2>2
<1>3. Fnd!TypeOK'
  BY <1>1, <1>2 DEF FndInv, Fnd!TypeOK
<1>4. ActorsStand'
  BY <1>1, <1>2, FndApart DEF FndInv, Fnd!TypeOK, ActorsStand
<1>5. ASSUME NEW o \in Scanner PROVE ScanStands(o)'
  BY <1>1, <1>2 DEF FndInv, Fnd!TypeOK, ScanStands
<1> QED  BY <1>1, <1>3, <1>4, <1>5 DEF FndInv, Fnd!ScansNeverCollide, Fnd!LatestEvidenceStands

LEMMA FndLock ==
    ASSUME FndInv, NEW s \in Scanner, Fnd!Lock(s) PROVE FndInv'
<1>1. /\ scan[s] # Nil /\ lock = Nil /\ lock' = s
      /\ UNCHANGED <<evidence, findings, scan, review, latest, reviewed, collided, fndCount>>
  BY DEF Fnd!Lock
<1>2. ASSUME NEW o \in Scanner PROVE ScanStands(o)'
  BY <1>1, FndApart DEF FndInv, ScanStands
<1>3. Fnd!TypeOK' /\ ActorsStand'
  BY <1>1 DEF FndInv, Fnd!TypeOK, ActorsStand
<1> QED  BY <1>1, <1>2, <1>3 DEF FndInv, Fnd!ScansNeverCollide, Fnd!LatestEvidenceStands

LEMMA FndLoad ==
    ASSUME FndInv, NEW s \in Scanner, Fnd!Load(s) PROVE FndInv'
<1>1. /\ scan[s] # Nil /\ lock = s
      /\ UNCHANGED <<evidence, findings, lock, review, latest, reviewed, collided, fndCount>>
  BY DEF Fnd!Load, Fnd!MayLoad, Fnd!Holds
<1>2. PICK t \in Fnd!Scan : scan' = [scan EXCEPT ![s] = t] /\ t.at = "read" /\ t.age = fndCount.writes
  <2> DEFINE t == [scan[s] EXCEPT !.at = "read", !.loaded = evidence, !.age = fndCount.writes]
  <2>1. scan[s] \in Fnd!Scan
    BY <1>1 DEF FndInv, Fnd!TypeOK
  <2>2. t \in Fnd!Scan /\ t.at = "read" /\ t.age = fndCount.writes
    BY <2>1 DEF FndInv, Fnd!TypeOK, Fnd!Scan
  <2>3. scan' = [scan EXCEPT ![s] = t]
    BY DEF Fnd!Load
  <2> HIDE DEF t
  <2> QED  BY <2>2, <2>3
<1>3. Fnd!TypeOK'
  BY <1>1, <1>2 DEF FndInv, Fnd!TypeOK
<1>4. ActorsStand'
  BY <1>1, <1>2, FndApart DEF FndInv, Fnd!TypeOK, ActorsStand
<1>5. ASSUME NEW o \in Scanner PROVE ScanStands(o)'
  BY <1>1, <1>2 DEF FndInv, Fnd!TypeOK, ActorsStand, ScanStands
<1> QED  BY <1>1, <1>3, <1>4, <1>5 DEF FndInv, Fnd!ScansNeverCollide, Fnd!LatestEvidenceStands

LEMMA FndRead ==
    ASSUME FndInv, NEW s \in Scanner, Fnd!ReadFindings(s) PROVE FndInv'
<1>1. /\ scan[s] # Nil /\ scan[s].at = "read" /\ lock = s
      /\ UNCHANGED <<evidence, findings, lock, review, latest, reviewed, collided, fndCount>>
  BY DEF Fnd!ReadFindings, Fnd!Holds
<1>2. PICK t \in Fnd!Scan : /\ scan' = [scan EXCEPT ![s] = t]
                        /\ t.age = scan[s].age /\ t.seen = findings
  <2> DEFINE t == [scan[s] EXCEPT !.at = "commit", !.seen = findings, !.since = {}]
  <2>1. scan[s] \in Fnd!Scan
    BY <1>1 DEF FndInv, Fnd!TypeOK
  <2>2. t \in Fnd!Scan /\ t.age = scan[s].age /\ t.seen = findings
    BY <2>1 DEF FndInv, Fnd!TypeOK, Fnd!Scan
  <2>3. scan' = [scan EXCEPT ![s] = t]
    BY DEF Fnd!ReadFindings
  <2> HIDE DEF t
  <2> QED  BY <2>2, <2>3
<1>3. Fnd!TypeOK'
  BY <1>1, <1>2 DEF FndInv, Fnd!TypeOK
<1>4. ActorsStand'
  BY <1>1, <1>2, FndApart DEF FndInv, Fnd!TypeOK, ActorsStand
<1>5. ASSUME NEW o \in Scanner PROVE ScanStands(o)'
  BY <1>1, <1>2 DEF FndInv, Fnd!TypeOK, ScanStands
<1> QED  BY <1>1, <1>3, <1>4, <1>5 DEF FndInv, Fnd!ScansNeverCollide, Fnd!LatestEvidenceStands

\* A scan that commits finds what it read, except for what was reviewed since.
LEMMA CommitMeets ==
    ASSUME FndInv, NEW s \in Scanner, Fnd!CommitScan(s)
    PROVE  /\ scan[s] \in Fnd!Scan /\ scan[s].at = "commit" /\ lock = s
           /\ latest.at <= scan[s].age
           /\ \A f \in Fp : /\ findings[f] = Nil <=> scan[s].seen[f] = Nil
                            /\ f \notin scan[s].since => findings[f] = scan[s].seen[f]
           /\ scan' = [scan EXCEPT ![s] = Nil] /\ lock' = Nil
           /\ findings' = [f \in Fp |-> Fnd!Reconciled(f, scan[s])]
           /\ latest' = [of |-> scan[s].loaded, at |-> scan[s].age]
           /\ reviewed' = scan[s].since
           /\ UNCHANGED <<evidence, review, fndCount, collided>>
<1>1. scan[s] # Nil /\ scan[s].at = "commit"
  BY DEF Fnd!CommitScan
<1>2. scan[s] \in Fnd!Scan
  BY <1>1 DEF FndInv, Fnd!TypeOK
<1>3. /\ lock = s /\ latest.at <= scan[s].age
      /\ \A f \in Fp : /\ findings[f] = Nil <=> scan[s].seen[f] = Nil
                       /\ f \notin scan[s].since => findings[f] = scan[s].seen[f]
  BY <1>1 DEF FndInv, ScanStands
<1>4. ~ \E f \in scan[s].loaded : scan[s].seen[f] = Nil /\ findings[f] # Nil
  BY <1>2, <1>3 DEF Fnd!Scan
<1>5. ~ (scan[s].age < latest.at)
  BY <1>2, <1>3 DEF Fnd!Scan, FndInv, Fnd!TypeOK
<1> QED  BY <1>1, <1>2, <1>3, <1>4, <1>5 DEF Fnd!CommitScan, Fnd!Released

\* What a committing scan makes of a finding.
LEMMA ReconciledIs ==
    ASSUME FndInv, NEW s \in Scanner, Fnd!CommitScan(s), NEW f \in Fp
    PROVE  /\ Fnd!Reconciled(f, scan[s]) \in Fnd!Finding \cup {Nil}
           /\ findings[f] # Nil => Fnd!Reconciled(f, scan[s]) # Nil
           /\ f \notin scan[s].since =>
                /\ f \in scan[s].loaded => /\ Fnd!Reconciled(f, scan[s]) # Nil
                                           /\ Fnd!Reconciled(f, scan[s]).status # "resolved"
                /\ f \notin scan[s].loaded => \/ Fnd!Reconciled(f, scan[s]) = Nil
                                              \/ Fnd!Reconciled(f, scan[s]).status # "open"
                /\ findings[f] # Nil /\ findings[f].status = "dismissed" =>
                     Fnd!Reconciled(f, scan[s]) = findings[f]
<1> DEFINE old == scan[s].seen[f]
           row == findings[f]
           opened == [status |-> "open", dated |-> FALSE]
           closed_ == [status |-> "resolved", dated |-> TRUE]
<1>1. /\ row \in Fnd!Finding \cup {Nil} /\ old \in Fnd!Finding \cup {Nil}
      /\ row = Nil <=> old = Nil
      /\ f \notin scan[s].since => row = old
  BY CommitMeets DEF FndInv, Fnd!TypeOK, Fnd!Scan
<1>2. /\ opened \in Fnd!Finding /\ opened.status = "open"
      /\ closed_ \in Fnd!Finding /\ closed_.status = "resolved"
  BY DEF Fnd!Finding, Fnd!Status
<1> HIDE DEF opened, closed_
<1>3. CASE old = Nil
  <2>1. Fnd!Reconciled(f, scan[s]) = IF f \in scan[s].loaded THEN opened ELSE Nil
    BY <1>1, <1>3 DEF Fnd!Reconciled, opened
  <2> QED  BY <1>1, <1>2, <1>3, <2>1, FndApart
<1>4. CASE old # Nil
  <2>1. old \in Fnd!Finding /\ row \in Fnd!Finding
    BY <1>1, <1>4
  <2>2. CASE f \in scan[s].loaded
    <3>1. Fnd!Reconciled(f, scan[s]) = Fnd!Written(row, old, Fnd!Apply(old))
      BY <1>4, <2>2 DEF Fnd!Reconciled
    <3>2. Fnd!Apply(old) = IF old.status = "resolved" THEN opened ELSE old
      BY DEF Fnd!Apply, opened
    <3>3. Fnd!Apply(old) \in Fnd!Finding
      BY <1>2, <2>1, <3>2
    <3>4. Fnd!Written(row, old, Fnd!Apply(old)) \in Fnd!Finding
      BY <2>1, <3>3, WrittenKeeps
    <3>5. row = old => Fnd!Written(row, old, Fnd!Apply(old)).status = Fnd!Apply(old).status
      BY <2>1, <3>3, WrittenKeeps
    <3>6. old.status # "resolved" => Fnd!Written(row, old, Fnd!Apply(old)) = row
      BY <2>1, <3>2, WrittenKeeps
    <3> QED  BY <1>1, <1>2, <2>2, <3>1, <3>2, <3>4, <3>5, <3>6, FndApart
  <2>3. CASE f \notin scan[s].loaded /\ old.status = "open"
    <3>1. Fnd!Reconciled(f, scan[s]) = Fnd!Written(row, old, closed_)
      BY <1>4, <2>3 DEF Fnd!Reconciled, closed_
    <3>2. Fnd!Written(row, old, closed_) \in Fnd!Finding
      BY <1>2, <2>1, WrittenKeeps
    <3>3. row = old => Fnd!Written(row, old, closed_).status = "resolved"
      BY <1>2, <2>1, WrittenKeeps
    <3> QED  BY <1>1, <2>3, <3>1, <3>2, <3>3, FndApart
  <2>4. CASE f \notin scan[s].loaded /\ old.status # "open"
    <3>1. Fnd!Reconciled(f, scan[s]) = row
      BY <1>4, <2>4 DEF Fnd!Reconciled
    <3> QED  BY <1>1, <2>1, <2>4, <3>1, FndApart
  <2> QED  BY <2>2, <2>3, <2>4
<1> QED  BY <1>3, <1>4

LEMMA FndCommit ==
    ASSUME FndInv, NEW s \in Scanner, Fnd!CommitScan(s) PROVE FndInv'
<1>1. /\ scan[s] \in Fnd!Scan /\ lock = s
      /\ scan' = [scan EXCEPT ![s] = Nil] /\ lock' = Nil
      /\ findings' = [f \in Fp |-> Fnd!Reconciled(f, scan[s])]
      /\ latest' = [of |-> scan[s].loaded, at |-> scan[s].age]
      /\ reviewed' = scan[s].since
      /\ UNCHANGED <<evidence, review, fndCount, collided>>
  BY CommitMeets
<1>2. \A f \in Fp : /\ findings'[f] \in Fnd!Finding \cup {Nil}
                    /\ findings[f] # Nil => findings'[f] # Nil
  BY <1>1, ReconciledIs
<1>3. latest'.of = scan[s].loaded /\ latest'.at = scan[s].age
  BY <1>1
<1>4. Fnd!TypeOK'
  BY <1>1, <1>2, <1>3 DEF FndInv, Fnd!TypeOK, Fnd!Scan
<1>5. ActorsStand'
  <2>1. scan[s].age <= fndCount.writes
    BY <1>1, FndApart DEF FndInv, ScanStands
  <2> QED  BY <1>1, <1>2, <1>3, <2>1 DEF FndInv, Fnd!TypeOK, ActorsStand, Fnd!Review
<1>6. ASSUME NEW o \in Scanner PROVE ScanStands(o)'
  <2>1. CASE o = s
    BY <1>1, <2>1 DEF FndInv, Fnd!TypeOK, ScanStands
  <2>2. CASE o # s
    <3>1. scan'[o] = scan[o] /\ (scan[o] # Nil => scan[o].at \notin {"read", "commit"})
      BY <1>1, <2>2 DEF FndInv, Fnd!TypeOK, ScanStands
    <3> QED  BY <1>1, <3>1 DEF FndInv, ScanStands
  <2> QED  BY <2>1, <2>2
<1>7. Fnd!LatestEvidenceStands'
  <2> SUFFICES ASSUME NEW f \in Fp, f \notin scan[s].since
               PROVE  /\ f \in scan[s].loaded => /\ findings'[f] # Nil
                                                 /\ findings'[f].status # "resolved"
                      /\ f \notin scan[s].loaded => \/ findings'[f] = Nil
                                                    \/ findings'[f].status # "open"
    BY <1>1, <1>3 DEF Fnd!LatestEvidenceStands
  <2> QED  BY <1>1, ReconciledIs
<1> QED  BY <1>1, <1>4, <1>5, <1>6, <1>7 DEF FndInv, Fnd!ScansNeverCollide

LEMMA FndTransact ==
    ASSUME FndInv, NEW f \in Fp, Fnd!Transact(f) PROVE FndInv'
<1>1. /\ evidence' \subseteq Fp
      /\ fndCount' \in [scans : Nat, writes : Nat, reviews : Nat]
      /\ fndCount'.writes = fndCount.writes + 1
      /\ UNCHANGED <<findings, lock, scan, review, latest, reviewed, collided>>
  BY DEF Fnd!Transact, FndInv, Fnd!TypeOK
<1>2. Fnd!TypeOK' /\ ActorsStand'
  BY <1>1 DEF FndInv, Fnd!TypeOK, ActorsStand
<1>3. ASSUME NEW o \in Scanner PROVE ScanStands(o)'
  <2>1. scan[o] # Nil => scan[o].age \in Nat
    BY DEF FndInv, Fnd!TypeOK, Fnd!Scan
  <2> QED  BY <1>1, <2>1 DEF FndInv, Fnd!TypeOK, ScanStands
<1> QED  BY <1>1, <1>2, <1>3 DEF FndInv, Fnd!ScansNeverCollide, Fnd!LatestEvidenceStands

LEMMA FndOpen ==
    ASSUME FndInv, NEW r \in Reviewer, NEW f \in Fp, NEW status \in Fnd!Status,
           Fnd!Open(r, f, status)
    PROVE  FndInv'
<1>1. /\ findings[f] # Nil
      /\ fndCount' \in [scans : Nat, writes : Nat, reviews : Nat]
      /\ fndCount'.writes = fndCount.writes
      /\ UNCHANGED <<evidence, findings, lock, scan, latest, reviewed, collided>>
  BY DEF Fnd!Open, FndInv, Fnd!TypeOK
<1>2. PICK v \in Fnd!Review : review' = [review EXCEPT ![r] = v] /\ v.of = f
  <2> DEFINE new == [status |-> status, dated |-> status = "resolved"]
             v == [of |-> f, old |-> findings[f], new |-> new]
  <2>1. new \in Fnd!Finding /\ findings[f] \in Fnd!Finding
    BY <1>1 DEF Fnd!Finding, FndInv, Fnd!TypeOK
  <2>2. review' = [review EXCEPT ![r] = v]
    BY DEF Fnd!Open
  <2> HIDE DEF new
  <2>3. v \in Fnd!Review /\ v.of = f
    BY <2>1 DEF Fnd!Review
  <2> HIDE DEF v
  <2> QED  BY <2>2, <2>3
<1>3. Fnd!TypeOK'
  BY <1>1, <1>2 DEF FndInv, Fnd!TypeOK
<1>4. ActorsStand'
  BY <1>1, <1>2 DEF FndInv, Fnd!TypeOK, ActorsStand
<1>5. ASSUME NEW o \in Scanner PROVE ScanStands(o)'
  BY <1>1 DEF FndInv, ScanStands
<1> QED  BY <1>1, <1>3, <1>4, <1>5 DEF FndInv, Fnd!ScansNeverCollide, Fnd!LatestEvidenceStands

LEMMA FndReview ==
    ASSUME FndInv, NEW r \in Reviewer, Fnd!CommitReview(r) PROVE FndInv'
<1> DEFINE v == review[r]
<1>1. /\ v \in Fnd!Review /\ findings[v.of] \in Fnd!Finding
      /\ findings' = [findings EXCEPT ![v.of] = Fnd!Written(findings[v.of], v.old, v.new)]
      /\ review' = [review EXCEPT ![r] = Nil]
      /\ reviewed' = reviewed \cup {v.of}
      /\ scan' = [s \in Scanner |-> IF scan[s] = Nil THEN Nil
                                    ELSE [scan[s] EXCEPT !.since = @ \cup {v.of}]]
      /\ UNCHANGED <<evidence, lock, latest, collided, fndCount>>
  <2>1. v \in Fnd!Review
    BY DEF Fnd!CommitReview, FndInv, Fnd!TypeOK
  <2>2. findings[v.of] \in Fnd!Finding
    BY <2>1, FndApart DEF FndInv, Fnd!TypeOK, ActorsStand, Fnd!Review
  <2> QED  BY <2>1, <2>2 DEF Fnd!CommitReview
<1>2. PICK new \in Fnd!Finding : findings' = [findings EXCEPT ![v.of] = new]
  BY <1>1, WrittenKeeps DEF Fnd!Review
<1>3. v.of \in Fp
  BY <1>1 DEF Fnd!Review
<1>4. \A s \in Scanner : scan[s] = Nil => scan'[s] = Nil
  BY <1>1
<1>5. ASSUME NEW s \in Scanner, scan[s] # Nil
      PROVE  /\ scan'[s] \in Fnd!Scan
             /\ scan'[s].at = scan[s].at /\ scan'[s].loaded = scan[s].loaded
             /\ scan'[s].age = scan[s].age /\ scan'[s].seen = scan[s].seen
             /\ scan'[s].since = scan[s].since \cup {v.of}
  <2>1. scan[s] \in Fnd!Scan
    BY <1>5 DEF FndInv, Fnd!TypeOK
  <2>2. scan'[s] = [scan[s] EXCEPT !.since = @ \cup {v.of}]
    BY <1>1, <1>5
  <2> QED  BY <1>3, <2>1, <2>2 DEF Fnd!Scan
<1> HIDE DEF v
<1>6. Fnd!TypeOK'
  <2>1. scan' \in [Scanner -> Fnd!Scan \cup {Nil}]
    BY <1>1, <1>4, <1>5
  <2> QED  BY <1>1, <1>2, <1>3, <2>1 DEF FndInv, Fnd!TypeOK
<1>7. ActorsStand'
  <2>1. lock' # Nil => scan'[lock'] # Nil
    BY <1>1, <1>5, FndApart DEF FndInv, Fnd!TypeOK, ActorsStand
  <2>2. \A f \in Fp : findings[f] # Nil => findings'[f] # Nil
    BY <1>2, FndApart DEF FndInv, Fnd!TypeOK
  <2>3. ASSUME NEW p \in Reviewer, review'[p] # Nil PROVE findings'[review'[p].of] # Nil
    <3>1. review'[p] = review[p] /\ review[p] \in Fnd!Review
      BY <1>1, <2>3 DEF FndInv, Fnd!TypeOK
    <3> QED  BY <2>2, <2>3, <3>1 DEF FndInv, ActorsStand, Fnd!Review
  <2> QED  BY <1>1, <2>1, <2>3 DEF FndInv, ActorsStand
<1>8. ASSUME NEW s \in Scanner PROVE ScanStands(s)'
  <2>1. CASE scan[s] = Nil
    BY <1>4, <2>1 DEF ScanStands
  <2>2. CASE scan[s] # Nil
    BY <1>1, <1>2, <1>3, <1>5, <2>2, FndApart DEF FndInv, Fnd!TypeOK, ScanStands
  <2> QED  BY <2>1, <2>2
<1>9. Fnd!LatestEvidenceStands'
  BY <1>1, <1>2 DEF FndInv, Fnd!TypeOK, Fnd!LatestEvidenceStands
<1> QED  BY <1>1, <1>6, <1>7, <1>8, <1>9 DEF FndInv, Fnd!ScansNeverCollide

LEMMA FndStep == FndInv /\ Fnd!Next => FndInv'
BY FndRequest, FndLock, FndLoad, FndRead, FndCommit, FndTransact, FndOpen, FndReview
   DEF Fnd!Next

\* Only a review, or a scan that read the finding before one, changes a
\* dismissed finding.
LEMMA DismissalKept ==
    ASSUME FndInv, Fnd!Next, NEW f \in Fp, findings[f] # Nil, findings[f].status = "dismissed",
           findings'[f] # findings[f]
    PROVE  \/ \E r \in Reviewer : review[r] # Nil /\ review[r].of = f /\ review'[r] = Nil
           \/ \E s \in Scanner : scan[s] # Nil /\ scan'[s] = Nil /\ f \in scan[s].since
<1>1. CASE \E s \in Scanner : Fnd!CommitScan(s)
  <2>1. PICK s \in Scanner : Fnd!CommitScan(s)
    BY <1>1
  <2>2. /\ scan[s] # Nil /\ scan' = [scan EXCEPT ![s] = Nil]
        /\ findings'[f] = Fnd!Reconciled(f, scan[s])
    BY <2>1, CommitMeets, FndApart
  <2>3. f \in scan[s].since
    BY <2>1, <2>2, ReconciledIs
  <2>4. scan'[s] = Nil
    BY <2>2 DEF FndInv, Fnd!TypeOK
  <2> QED  BY <2>2, <2>3, <2>4
<1>2. CASE \E r \in Reviewer : Fnd!CommitReview(r)
  <2>1. PICK r \in Reviewer : Fnd!CommitReview(r)
    BY <1>2
  <2>2. review[r] # Nil /\ review' = [review EXCEPT ![r] = Nil]
    BY <2>1 DEF Fnd!CommitReview
  <2>3. review'[r] = Nil
    BY <2>2 DEF FndInv, Fnd!TypeOK
  <2>4. review[r].of = f
    BY <2>1 DEF Fnd!CommitReview, FndInv, Fnd!TypeOK
  <2> QED  BY <2>2, <2>3, <2>4
<1>3. CASE UNCHANGED findings
  BY <1>3
<1> QED  BY <1>1, <1>2, <1>3 DEF Fnd!Next, Fnd!Request, Fnd!Lock, Fnd!Load, Fnd!ReadFindings,
              Fnd!Transact, Fnd!Open

-----------------------------------------------------------------------------
(* The categories suggested *)

SugType ==
    /\ feedback \in [Txn -> Sug!Decision \cup {Nil}]
    /\ suggClock \in Nat
    /\ chosen \in [Purchase -> Sug!Choice \cup {Nil}]
    /\ \A t \in Txn : feedback[t] # Nil =>
         /\ feedback[t].updated <= suggClock /\ feedback[t].created <= suggClock
         /\ feedback[t].selected \in Fitting[feedback[t].purchase] \cup {Nil}

\* The choice that stands is the newest decision for its purchase, and can be
\* suggested.
ChoiceStands(p) ==
    LET c == chosen[p] IN
    c # Nil =>
        /\ feedback[c.by] # Nil
        /\ feedback[c.by].purchase = p /\ feedback[c.by].selected = c.cat
        /\ c.cat \in Fitting[p] \ archived
        /\ \A u \in Txn \ {c.by} :
             feedback[u] # Nil /\ feedback[u].purchase = p =>
                 feedback[u].updated < feedback[c.by].updated

SugInv == SugType /\ \A p \in Purchase : ChoiceStands(p)

LEMMA SugApart ==
    /\ \A x \in Sug!Decision : x # Nil
    /\ \A x \in Sug!Choice : x # Nil
    /\ \A x \in Label : x # Nil
BY ServicesAssumption

LEMMA SugInit == Sug!Init => SugInv
<1> SUFFICES ASSUME Sug!Init PROVE SugInv
  OBVIOUS
<1>1. SugType
  BY DEF Sug!Init, SugType
<1>2. \A p \in Purchase : chosen[p] = Nil
  BY DEF Sug!Init
<1> QED  BY <1>1, <1>2 DEF SugInv, ChoiceStands

\* Decisions that the clock bounds have a newest one.
LEMMA NewestDecision ==
    ASSUME NEW S \in SUBSET Sug!Decision, S # {}, NEW n \in Nat,
           \A f \in S : f.updated <= n /\ f.created <= n
    PROVE  \E f \in S : \A g \in S : ~ Sug!Newer(g, f)
<1>1. \A f \in S : f.updated \in Nat /\ f.created \in Nat
  BY DEF Sug!Decision
<1>2. PICK m \in {f.updated : f \in S} : \A x \in {f.updated : f \in S} : x <= m
  <2> DEFINE U == {f.updated : f \in S}
  <2>1. U \in SUBSET Nat /\ U # {} /\ \A x \in U : x <= n
    BY <1>1
  <2> HIDE DEF U
  <2>2. \E m \in U : \A x \in U : x <= m
    BY <2>1, GreatestElement
  <2> QED  BY <2>2 DEF U
<1> DEFINE L == {f \in S : f.updated = m}
           C == {f.created : f \in L}
<1>3. C \in SUBSET Nat /\ C # {} /\ \A x \in C : x <= n
  BY <1>1, <1>2
<1>4. PICK k \in C : \A x \in C : x <= k
  <2> HIDE DEF C
  <2> QED  BY <1>3, GreatestElement
<1>5. PICK f \in L : f.created = k
  BY <1>4
<1>6. ASSUME NEW g \in S, Sug!Newer(g, f) PROVE FALSE
  <2>1. f.updated = m /\ g.updated <= m /\ m \in Nat
    BY <1>1, <1>2, <1>5
  <2>2. g.updated = m /\ g.created > f.created
    BY <1>1, <1>6, <2>1 DEF Sug!Newer
  <2>3. g.created \in C
    BY <2>2
  <2>4. g.created <= k /\ k = f.created
    BY <1>4, <1>5, <2>3
  <2>5. g.created \in Nat /\ f.created \in Nat
    BY <1>1, <1>5
  <2> QED  BY <2>2, <2>4, <2>5
<1> QED  BY <1>5, <1>6

\* The suggestion from the history is a decision for the purchase that one of
\* the transactions asked for holds.
LEMMA HistoryIsDecision ==
    ASSUME SugInv, NEW p \in Purchase, NEW ids \in SUBSET Txn, Sug!History(p, ids) # Nil
    PROVE  \E u \in ids : /\ feedback[u] # Nil /\ feedback[u].purchase = p
                          /\ feedback[u].selected = Sug!History(p, ids)
                          /\ Sug!History(p, ids) \in Fitting[p] \ archived
<1> DEFINE usable == Sug!Usable(p, ids)
<1>1. /\ usable # {}
      /\ Sug!History(p, ids) = (CHOOSE f \in usable : \A g \in usable : ~ Sug!Newer(g, f)).selected
  BY DEF Sug!History
<1>2. \A f \in usable : /\ f.selected \in Fitting[p] \ archived
                        /\ \E u \in ids : feedback[u] # Nil /\ feedback[u].purchase = p /\ f = feedback[u]
  BY DEF Sug!Usable, Sug!Decisions
<1>3. /\ usable \in SUBSET Sug!Decision /\ suggClock \in Nat
      /\ \A f \in usable : f.updated <= suggClock /\ f.created <= suggClock
  BY <1>2 DEF SugInv, SugType
<1> HIDE DEF usable
<1>4. \E f \in usable : \A g \in usable : ~ Sug!Newer(g, f)
  BY <1>1, <1>3, NewestDecision
<1>5. (CHOOSE f \in usable : \A g \in usable : ~ Sug!Newer(g, f)) \in usable
  BY <1>4
<1> QED  BY <1>1, <1>2, <1>5

\* What stands is what is suggested.
LEMMA StandingIsOffered ==
    ASSUME SugInv, NEW p \in Purchase, chosen[p] # Nil
    PROVE  Sug!Candidate(p, Txn).category = chosen[p].cat
<1> DEFINE c == chosen[p]
           all == Sug!Decisions(p, Txn)
           usable == Sug!Usable(p, Txn)
           top == feedback[c.by]
<1>1. c \in Sug!Choice /\ c.by \in Txn /\ c.cat \in Label
  BY DEF SugInv, SugType, Sug!Choice
<1>2. /\ top # Nil /\ top.purchase = p /\ top.selected = c.cat /\ c.cat \in Fitting[p] \ archived
      /\ \A u \in Txn \ {c.by} : feedback[u] # Nil /\ feedback[u].purchase = p =>
            feedback[u].updated < top.updated
  BY DEF SugInv, ChoiceStands
<1>3. \A f \in all : f.updated \in Nat /\ f.created \in Nat
  BY DEF SugInv, SugType, Sug!Decision, Sug!Decisions
<1>4. top \in all
  BY <1>1, <1>2 DEF Sug!Decisions
<1>5. \A g \in all : g = top \/ g.updated < top.updated
  BY <1>2 DEF Sug!Decisions
<1>6. \A f : f \in usable <=> /\ f \in all /\ Sug!Cardinality(Sug!Ahead(p, Txn, f)) < Recent
                              /\ f.selected \in Fitting[p] \ archived
  BY DEF Sug!Usable
<1>10. Sug!History(p, Txn) = IF usable = {} THEN Nil
         ELSE (CHOOSE f \in usable : \A g \in usable : ~ Sug!Newer(g, f)).selected
  BY DEF Sug!History
<1> HIDE DEF all, top, usable
<1>7. Sug!Cardinality(Sug!Ahead(p, Txn, top)) < Recent
  <2>1. Sug!Ahead(p, Txn, top) = {}
    BY <1>3, <1>4, <1>5 DEF Sug!Newer, Sug!Ahead, all
  <2>2. Sug!Cardinality({}) = Cardinality({})
    BY DEF Sug!Cardinality, Cardinality
  <2> QED  BY <2>1, <2>2, FS_EmptySet, ServicesAssumption
<1>8. top \in usable
  BY <1>2, <1>4, <1>6, <1>7 DEF top
<1>9. \A f \in usable : (\A g \in usable : ~ Sug!Newer(g, f)) <=> f = top
  <2>1. \A f \in usable : f \in all
    BY <1>6
  <2> QED  BY <1>3, <1>4, <1>5, <1>8, <2>1 DEF Sug!Newer
<1>11. (CHOOSE f \in usable : \A g \in usable : ~ Sug!Newer(g, f)) = top
  BY <1>8, <1>9
<1>12. Sug!History(p, Txn) = c.cat
  BY <1>2, <1>8, <1>10, <1>11 DEF top
<1>13. Sug!History(p, Txn) # Nil
  BY <1>1, <1>12, SugApart
<1> QED  BY <1>12, <1>13 DEF Sug!Candidate

\* What Save writes: the decision that is there, or a new one.
NewDecision(d, t, p, cat) ==
    /\ d.purchase = p /\ d.selected = cat
    /\ d.updated = suggClock + 1 /\ d.created <= suggClock + 1
    /\ d.suggested = Sug!Candidate(p, Txn \ {t}).category
    /\ d.source = Sug!Candidate(p, Txn \ {t}).source

LEMMA SavedDecision ==
    ASSUME SugInv, NEW t \in Txn, NEW p \in Purchase, NEW cat \in Label, Sug!Save(t, p, cat)
    PROVE  \E d \in Sug!Decision : /\ feedback' = [feedback EXCEPT ![t] = d]
                                   /\ d = feedback[t] \/ NewDecision(d, t, p, cat)
<1> DEFINE candidate == Sug!Candidate(p, Txn \ {t})
           new == [purchase |-> p, source |-> candidate.source, suggested |-> candidate.category,
                   selected |-> cat, updated |-> suggClock + 1,
                   created |-> IF feedback[t] = Nil THEN suggClock + 1 ELSE feedback[t].created]
<1>1. feedback[t] \in Sug!Decision \cup {Nil} /\ suggClock \in Nat
  BY DEF SugInv, SugType
<1>2. candidate.source \in {"user_history", "global_model"} /\ candidate.category \in Label
  <2>1. Global[p] \in Label
    BY ServicesAssumption
  <2>2. Sug!History(p, Txn \ {t}) # Nil => Sug!History(p, Txn \ {t}) \in Label
    BY HistoryIsDecision, ServicesAssumption
  <2> QED  BY <2>1, <2>2 DEF Sug!Candidate
<1>3. feedback' = [feedback EXCEPT ![t] = Sug!Feedback(t, p, candidate, cat)]
  BY DEF Sug!Save, Sug!Others
<1> HIDE DEF candidate
<1>4. Sug!Feedback(t, p, candidate, cat) =
        IF /\ feedback[t] # Nil /\ cat = candidate.category
           /\ [new EXCEPT !.updated = feedback[t].updated] = feedback[t]
        THEN feedback[t] ELSE new
  BY DEF Sug!Feedback
<1>5. /\ new \in Sug!Decision
      /\ new.purchase = p /\ new.selected = cat /\ new.updated = suggClock + 1
      /\ new.created <= suggClock + 1
      /\ new.suggested = candidate.category /\ new.source = candidate.source
  <2>1. feedback[t] # Nil => feedback[t].created \in Nat /\ feedback[t].created <= suggClock
    BY <1>1 DEF SugInv, SugType, Sug!Decision
  <2>2. new.created \in Nat /\ new.created <= suggClock + 1
    BY <1>1, <2>1
  <2> QED  BY <1>1, <1>2, <2>2 DEF Sug!Decision
<1> HIDE DEF new
<1>6. NewDecision(new, t, p, cat)
  BY <1>5 DEF NewDecision, candidate
<1> QED  BY <1>1, <1>3, <1>4, <1>5, <1>6

LEMMA SugSave ==
    ASSUME SugInv, NEW t \in Txn, NEW p \in Purchase, NEW cat \in Label, Sug!Save(t, p, cat)
    PROVE  SugInv'
<1>1. /\ suggClock' = suggClock + 1 /\ suggClock \in Nat
      /\ cat \in Fitting[p] \ archived /\ archived' = archived
      /\ chosen' = IF feedback' = feedback THEN chosen
                   ELSE [Sug!Without(t) EXCEPT ![p] = [cat |-> cat, by |-> t]]
  BY DEF Sug!Save, Sug!Tick, SugInv, SugType
<1>2. CASE feedback' = feedback
  <2>1. SugType'
    BY <1>1, <1>2 DEF SugInv, SugType, Sug!Decision
  <2>2. ASSUME NEW q \in Purchase PROVE ChoiceStands(q)'
    BY <1>1, <1>2 DEF SugInv, ChoiceStands
  <2> QED  BY <2>1, <2>2 DEF SugInv
<1>3. CASE feedback' # feedback
  <2>1. PICK d \in Sug!Decision :
             /\ feedback' = [feedback EXCEPT ![t] = d]
             /\ d.purchase = p /\ d.selected = cat
             /\ d.updated = suggClock + 1 /\ d.created <= suggClock + 1
    <3>1. PICK d \in Sug!Decision : /\ feedback' = [feedback EXCEPT ![t] = d]
                                    /\ d = feedback[t] \/ NewDecision(d, t, p, cat)
      BY SavedDecision
    <3>2. d # feedback[t]
      BY <1>3, <3>1 DEF SugInv, SugType
    <3> QED  BY <3>1, <3>2 DEF NewDecision
  <2>2. PICK c \in Sug!Choice : c.cat = cat /\ c.by = t /\
          chosen' = [q \in Purchase |-> IF q = p THEN c
                       ELSE IF chosen[q] # Nil /\ chosen[q].by = t THEN Nil ELSE chosen[q]]
    <3> DEFINE c == [cat |-> cat, by |-> t]
    <3>1. c \in Sug!Choice /\ c.cat = cat /\ c.by = t
      BY DEF Sug!Choice
    <3>2. chosen' = [Sug!Without(t) EXCEPT ![p] = c]
      BY <1>1, <1>3
    <3> HIDE DEF c
    <3> QED  BY <3>1, <3>2 DEF Sug!Without
  <2>3. SugType'
    <3>1. feedback' \in [Txn -> Sug!Decision \cup {Nil}] /\ chosen' \in [Purchase -> Sug!Choice \cup {Nil}]
      BY <2>1, <2>2 DEF SugInv, SugType
    <3>2. ASSUME NEW u \in Txn, feedback'[u] # Nil
          PROVE  /\ feedback'[u].updated <= suggClock' /\ feedback'[u].created <= suggClock'
                 /\ feedback'[u].selected \in Fitting[feedback'[u].purchase] \cup {Nil}
      <4>1. CASE u = t
        BY <1>1, <2>1, <4>1 DEF SugInv, SugType
      <4>2. CASE u # t
        BY <1>1, <2>1, <3>2, <4>2 DEF SugInv, SugType, Sug!Decision
      <4> QED  BY <4>1, <4>2
    <3> QED  BY <1>1, <3>1, <3>2 DEF SugType
  <2>4. ASSUME NEW q \in Purchase PROVE ChoiceStands(q)'
    <3>1. CASE q = p
      <4>1. chosen'[q] = c /\ feedback'[c.by] = d /\ d # Nil
        BY <2>1, <2>2, <3>1, SugApart DEF SugInv, SugType
      <4>2. \A u \in Txn \ {t} : feedback[u] # Nil => feedback'[u] = feedback[u] /\ feedback[u].updated < d.updated
        BY <1>1, <2>1 DEF SugInv, SugType, Sug!Decision
      <4>3. \A u \in Txn \ {t} : feedback'[u] # Nil => feedback'[u].updated < d.updated
        BY <2>1, <4>2 DEF SugInv, SugType
      <4> QED  BY <1>1, <2>1, <2>2, <3>1, <4>1, <4>3 DEF ChoiceStands
    <3>2. CASE q # p
      <4> SUFFICES ASSUME chosen'[q] # Nil PROVE ChoiceStands(q)'
        BY DEF ChoiceStands
      <4>1. chosen'[q] = chosen[q] /\ chosen[q] # Nil /\ chosen[q].by # t /\ chosen[q].by \in Txn
        BY <2>2, <3>2 DEF SugInv, SugType, Sug!Choice
      <4>2. feedback'[chosen[q].by] = feedback[chosen[q].by]
        BY <2>1, <4>1 DEF SugInv, SugType
      <4>3. \A u \in Txn : feedback'[u] = feedback[u] \/ feedback'[u].purchase = p
        BY <2>1 DEF SugInv, SugType
      <4> QED  BY <1>1, <3>2, <4>1, <4>2, <4>3 DEF SugInv, ChoiceStands
    <3> QED  BY <3>1, <3>2
  <2> QED  BY <2>3, <2>4 DEF SugInv
<1> QED  BY <1>2, <1>3

LEMMA SugDelete ==
    ASSUME SugInv, NEW t \in Txn, Sug!Delete(t) PROVE SugInv'
<1>1. /\ suggClock' = suggClock + 1 /\ suggClock \in Nat
      /\ feedback' = [feedback EXCEPT ![t] = Nil] /\ archived' = archived
      /\ chosen' = [q \in Purchase |-> IF chosen[q] # Nil /\ chosen[q].by = t THEN Nil ELSE chosen[q]]
  BY DEF Sug!Delete, Sug!Tick, Sug!Without, SugInv, SugType
<1>2. SugType'
  BY <1>1 DEF SugInv, SugType, Sug!Decision
<1>3. ASSUME NEW q \in Purchase PROVE ChoiceStands(q)'
  <2> SUFFICES ASSUME chosen'[q] # Nil PROVE ChoiceStands(q)'
    BY DEF ChoiceStands
  <2>1. chosen'[q] = chosen[q] /\ chosen[q].by # t /\ chosen[q].by \in Txn
    BY <1>1 DEF SugInv, SugType, Sug!Choice
  <2>2. feedback'[chosen[q].by] = feedback[chosen[q].by]
    BY <1>1, <2>1 DEF SugInv, SugType
  <2>3. \A u \in Txn : feedback'[u] = feedback[u] \/ feedback'[u] = Nil
    BY <1>1 DEF SugInv, SugType
  <2> QED  BY <1>1, <2>1, <2>2, <2>3 DEF SugInv, ChoiceStands
<1> QED  BY <1>2, <1>3 DEF SugInv

LEMMA SugArchive ==
    ASSUME SugInv, NEW cat \in Label, Sug!Archive(cat) PROVE SugInv'
<1>1. /\ suggClock' = suggClock + 1 /\ suggClock \in Nat
      /\ feedback' = feedback /\ archived' = archived \cup {cat}
      /\ chosen' = [q \in Purchase |-> IF chosen[q] # Nil /\ chosen[q].cat = cat THEN Nil ELSE chosen[q]]
  BY DEF Sug!Archive, Sug!Tick, SugInv, SugType
<1>2. SugType'
  BY <1>1 DEF SugInv, SugType, Sug!Decision
<1>3. ASSUME NEW q \in Purchase PROVE ChoiceStands(q)'
  BY <1>1 DEF SugInv, ChoiceStands
<1> QED  BY <1>2, <1>3 DEF SugInv

LEMMA SugRemove ==
    ASSUME SugInv, NEW cat \in Label, Sug!Remove(cat) PROVE SugInv'
<1> DEFINE freed(c) == IF c = cat THEN Nil ELSE c
<1>1. /\ suggClock' = suggClock + 1 /\ suggClock \in Nat
      /\ archived' = archived \cup {cat}
      /\ chosen' = [q \in Purchase |-> IF chosen[q] # Nil /\ chosen[q].cat = cat THEN Nil ELSE chosen[q]]
  BY DEF Sug!Remove, Sug!Tick, SugInv, SugType
<1>2. ASSUME NEW t \in Txn
      PROVE  /\ feedback[t] = Nil => feedback'[t] = Nil
             /\ feedback[t] # Nil =>
                  feedback'[t] = [feedback[t] EXCEPT !.suggested = freed(@), !.selected = freed(@)]
  BY DEF Sug!Remove
<1>3. ASSUME NEW t \in Txn, feedback[t] # Nil
      PROVE  /\ feedback'[t] \in Sug!Decision
             /\ feedback'[t].purchase = feedback[t].purchase
             /\ feedback'[t].updated = feedback[t].updated /\ feedback'[t].created = feedback[t].created
             /\ feedback'[t].selected \in {feedback[t].selected, Nil}
             /\ feedback[t].selected # cat => feedback'[t].selected = feedback[t].selected
  <2> DEFINE a == freed(feedback[t].suggested)
             b == freed(feedback[t].selected)
  <2>1. /\ feedback[t] \in Sug!Decision /\ feedback[t].suggested \in Label \cup {Nil}
        /\ feedback[t].selected \in Label \cup {Nil}
    BY <1>3 DEF SugInv, SugType, Sug!Decision
  <2>2. a \in Label \cup {Nil} /\ b \in Label \cup {Nil}
    BY <2>1
  <2>3. feedback'[t] = [feedback[t] EXCEPT !.suggested = a, !.selected = b]
    BY <1>2, <1>3
  <2>4. /\ b \in {feedback[t].selected, Nil}
        /\ feedback[t].selected # cat => b = feedback[t].selected
    OBVIOUS
  <2> HIDE DEF a, b, freed
  <2>5. /\ feedback'[t] \in Sug!Decision
        /\ feedback'[t].purchase = feedback[t].purchase /\ feedback'[t].selected = b
        /\ feedback'[t].updated = feedback[t].updated /\ feedback'[t].created = feedback[t].created
    BY <2>1, <2>2, <2>3 DEF Sug!Decision
  <2> QED  BY <2>4, <2>5
<1>4. SugType'
  <2>1. feedback' \in [Txn -> Sug!Decision \cup {Nil}]
    <3>1. DOMAIN feedback' = Txn /\ feedback' = [t \in Txn |-> feedback'[t]]
      BY DEF Sug!Remove
    <3> QED  BY <1>2, <1>3, <3>1
  <2>2. chosen' \in [Purchase -> Sug!Choice \cup {Nil}]
    BY <1>1 DEF SugInv, SugType
  <2>3. ASSUME NEW t \in Txn, feedback'[t] # Nil
        PROVE  /\ feedback'[t].updated <= suggClock' /\ feedback'[t].created <= suggClock'
               /\ feedback'[t].selected \in Fitting[feedback'[t].purchase] \cup {Nil}
    <3>1. /\ feedback[t] # Nil /\ feedback'[t].purchase = feedback[t].purchase
          /\ feedback'[t].updated = feedback[t].updated /\ feedback'[t].created = feedback[t].created
          /\ feedback'[t].selected \in {feedback[t].selected, Nil}
      BY <1>2, <1>3, <2>3
    <3>2. /\ feedback[t].updated <= suggClock /\ feedback[t].created <= suggClock
          /\ feedback[t].updated \in Nat /\ feedback[t].created \in Nat
          /\ feedback[t].selected \in Fitting[feedback[t].purchase] \cup {Nil}
      BY <3>1 DEF SugInv, SugType, Sug!Decision
    <3> QED  BY <1>1, <3>1, <3>2
  <2> QED  BY <1>1, <2>1, <2>2, <2>3 DEF SugType
<1>5. ASSUME NEW q \in Purchase PROVE ChoiceStands(q)'
  <2> SUFFICES ASSUME chosen'[q] # Nil PROVE ChoiceStands(q)'
    BY DEF ChoiceStands
  <2>1. chosen'[q] = chosen[q] /\ chosen[q] # Nil /\ chosen[q].cat # cat /\ chosen[q].by \in Txn
    BY <1>1 DEF SugInv, SugType, Sug!Choice
  <2>2. /\ feedback'[chosen[q].by] # Nil /\ feedback'[chosen[q].by].purchase = q
        /\ feedback'[chosen[q].by].selected = chosen[q].cat
        /\ feedback'[chosen[q].by].updated = feedback[chosen[q].by].updated
    BY <1>3, <2>1, SugApart DEF SugInv, ChoiceStands
  <2>3. \A u \in Txn : feedback'[u] # Nil =>
            /\ feedback[u] # Nil /\ feedback'[u].purchase = feedback[u].purchase
            /\ feedback'[u].updated = feedback[u].updated
    BY <1>2, <1>3
  <2> QED  BY <1>1, <2>1, <2>2, <2>3 DEF SugInv, ChoiceStands
<1> QED  BY <1>4, <1>5 DEF SugInv

LEMMA SugRestore ==
    ASSUME SugInv, NEW cat \in Label, Sug!Restore(cat) PROVE SugInv'
<1>1. /\ suggClock' = suggClock + 1 /\ suggClock \in Nat
      /\ feedback' = feedback /\ archived' = archived \ {cat}
      /\ chosen' = [q \in Purchase |-> IF cat \in Fitting[q] THEN Nil ELSE chosen[q]]
  BY DEF Sug!Restore, Sug!Tick, SugInv, SugType
<1>2. SugType'
  BY <1>1 DEF SugInv, SugType, Sug!Decision
<1>3. ASSUME NEW q \in Purchase PROVE ChoiceStands(q)'
  BY <1>1 DEF SugInv, ChoiceStands
<1> QED  BY <1>2, <1>3 DEF SugInv

LEMMA SugStep == SugInv /\ Sug!Next => SugInv'
BY SugSave, SugDelete, SugArchive, SugRemove, SugRestore DEF Sug!Next

\* A decision that a step credits to the history had been taught by another
\* transaction.
LEMMA TaughtByOther ==
    ASSUME SugInv, Sug!Next, NEW t \in Txn, Sug!Decided(t),
           feedback'[t].source = "user_history"
    PROVE  \E u \in Txn \ {t} : feedback[u] # Nil /\ feedback[u].selected = feedback'[t].suggested
<1>1. PICK p \in Purchase, cat \in Label : Sug!Save(t, p, cat)
  <2>1. ASSUME NEW u \in Txn, Sug!Delete(u) PROVE FALSE
    BY <2>1 DEF Sug!Delete, Sug!Decided, SugInv, SugType
  <2>2. ASSUME NEW cat \in Label, Sug!Archive(cat) \/ Sug!Restore(cat) PROVE FALSE
    BY <2>2 DEF Sug!Archive, Sug!Restore, Sug!Decided
  <2>3. ASSUME NEW cat \in Label, Sug!Remove(cat) PROVE FALSE
    <3>1. feedback[t] # Nil
      BY <2>3 DEF Sug!Remove, Sug!Decided
    <3>2. feedback'[t].updated = feedback[t].updated
      BY <2>3, <3>1 DEF Sug!Remove, SugInv, SugType, Sug!Decision
    <3> QED  BY <3>1, <3>2 DEF Sug!Decided
  <2>4. ASSUME NEW u \in Txn, NEW q \in Purchase, NEW cat \in Label, Sug!Save(u, q, cat)
        PROVE  u = t
    <3>1. PICK d \in Sug!Decision : feedback' = [feedback EXCEPT ![u] = d]
      BY <2>4, SavedDecision
    <3> QED  BY <3>1 DEF Sug!Decided, SugInv, SugType
  <2> QED  BY <2>1, <2>2, <2>3, <2>4 DEF Sug!Next
<1>2. PICK d \in Sug!Decision : /\ feedback' = [feedback EXCEPT ![t] = d]
                                /\ d = feedback[t] \/ NewDecision(d, t, p, cat)
  BY <1>1, SavedDecision
<1>3. feedback'[t] = d
  BY <1>2 DEF SugInv, SugType
<1>4. /\ d.suggested = Sug!Candidate(p, Txn \ {t}).category
      /\ Sug!Candidate(p, Txn \ {t}).source = "user_history"
  BY <1>2, <1>3, SugApart DEF NewDecision, Sug!Decided
<1>5. Sug!History(p, Txn \ {t}) # Nil /\ d.suggested = Sug!History(p, Txn \ {t})
  BY <1>4 DEF Sug!Candidate
<1> QED  BY <1>3, <1>5, HistoryIsDecision

-----------------------------------------------------------------------------
(* Categories under concurrent requests and pushes *)

\* What the decision of a push has seen stays true until its commit: the row
\* it names, its name and the transactions that use it.
PushStands(w) ==
    LET r == catTask[w].req  row == catRows[r.cat]  new == catTask[w].row IN
    Cat!Doing(w, "holding") =>
        /\ row # Nil => row.ver = r.base
        /\ new = Nil => Cat!UsersOf(r.cat) = {}
        /\ new # Nil /\ row # Nil /\ (new.type # row.type \/ (new.archived /\ ~ row.archived))
             => Cat!UsersOf(r.cat) = {}
        /\ new # Nil => Cat!IndexFree(r.cat, new.name, new.type)

\* Two pushes hold two rows, and bring them two names.
PushesApart(w, v) ==
    Cat!Doing(w, "holding") /\ Cat!Doing(v, "holding") /\ w # v =>
        /\ catTask[w].req.cat # catTask[v].req.cat
        /\ catTask[w].row # Nil =>
             ~ Cat!SameName(catTask[v].row, catTask[w].row.name, catTask[w].row.type)

\* The target of a reassignment is there and no push holds it; the
\* transactions it moves are there.
MoveStands(w) ==
    LET r == catTask[w].req IN
    Cat!Doing(w, "moved") =>
        /\ r.op = "reassign" /\ catRows[r.to] # Nil
        /\ \A t \in catTask[w].moved : catUse[t] # Nil
        /\ Cat!Unlocked(r.to)

ChecksStand(w) ==
    Cat!Doing(w, "checked") => catTask[w].req.op \notin Cat!Pushes \cup {"reassign"}

CatInv ==
    /\ Cat!TypeOK /\ Cat!NameHeldOnce /\ Cat!NoOrphanedUse
    /\ \A w \in CatWorker : PushStands(w) /\ MoveStands(w) /\ ChecksStand(w)
    /\ \A w, v \in CatWorker : PushesApart(w, v)

LEMMA CatApart ==
    (\A x \in Cat!Row : x # Nil) /\ (\A x \in Cat!Use : x # Nil) /\ (\A x \in Cat!Task : x # Nil)
BY ServicesAssumption

LEMMA CatInit == Cat!Init => CatInv
<1> SUFFICES ASSUME Cat!Init PROVE CatInv
  OBVIOUS
<1>1. Cat!TypeOK
  BY ServicesAssumption DEF Cat!Init, Cat!TypeOK
<1>2. \A w \in CatWorker : \A s : ~ Cat!Doing(w, s)
  BY DEF Cat!Init, Cat!Doing
<1> QED
  BY <1>1, <1>2 DEF CatInv, Cat!Init, Cat!NameHeldOnce, Cat!NoOrphanedUse, PushStands, PushesApart,
     MoveStands, ChecksStand

\* A step of a worker that leaves the tables alone, and its task at a step that
\* holds nothing.
LEMMA CatSteps ==
    ASSUME CatInv, NEW w \in CatWorker,
           catTask' \in [CatWorker -> Cat!Task \cup {Nil}],
           \A v \in CatWorker \ {w} : catTask'[v] = catTask[v],
           \/ catTask'[w] = Nil
           \/ catTask'[w].at = "read"
           \/ catTask'[w].at = "checked" /\ catTask'[w].req.op \notin Cat!Pushes \cup {"reassign"},
           UNCHANGED <<catRows, catUse>>, catServed' \in 0..MaxCatRequests
    PROVE  CatInv'
<1>1. Cat!TypeOK'
  BY DEF CatInv, Cat!TypeOK
<1>2. \A v \in CatWorker \ {w} : catTask'[v] = catTask[v]
  OBVIOUS
<1>3. /\ \A c : Cat!UsersOf(c)' = Cat!UsersOf(c)
      /\ \A c, n, k : Cat!IndexFree(c, n, k)' <=> Cat!IndexFree(c, n, k)
  BY DEF Cat!UsersOf, Cat!IndexFree, Cat!SameName
<1>4. /\ \A v \in CatWorker \ {w} : \A s : Cat!Doing(v, s)' <=> Cat!Doing(v, s)
      /\ ~ Cat!Doing(w, "holding")' /\ ~ Cat!Doing(w, "moved")'
  BY <1>2 DEF Cat!Doing
<1>5. \A c : Cat!Unlocked(c) => Cat!Unlocked(c)'
  BY <1>2, <1>4 DEF Cat!Unlocked
<1>6. \A v \in CatWorker : PushStands(v)' /\ MoveStands(v)' /\ ChecksStand(v)'
  <2> TAKE v \in CatWorker
  <2>1. CASE v = w
    BY <1>2, <1>4, <2>1 DEF PushStands, MoveStands, ChecksStand, Cat!Doing
  <2>2. CASE v # w
    BY <1>2, <1>3, <1>4, <1>5, <2>2 DEF CatInv, PushStands, MoveStands, ChecksStand
  <2> QED  BY <2>1, <2>2
<1>7. \A v, u \in CatWorker : PushesApart(v, u)'
  BY <1>2, <1>4 DEF CatInv, PushesApart, Cat!SameName
<1> QED  BY <1>1, <1>6, <1>7 DEF CatInv, Cat!NameHeldOnce, Cat!NoOrphanedUse, Cat!SameName

LEMMA CatBegin == ASSUME CatInv, NEW w \in CatWorker, Cat!Begin(w) PROVE CatInv'
<1>1. PICK r \in CatRequest : catTask' = [catTask EXCEPT ![w] = [at |-> "read", req |-> r]]
  BY DEF Cat!Begin
<1>2. [at |-> "read", req |-> r] \in Cat!Task
  BY DEF Cat!Task
<1>3. UNCHANGED <<catRows, catUse>> /\ catServed' \in 0..MaxCatRequests
  BY ServicesAssumption DEF Cat!Begin, CatInv, Cat!TypeOK
<1>4. /\ catTask' \in [CatWorker -> Cat!Task \cup {Nil}]
      /\ \A v \in CatWorker \ {w} : catTask'[v] = catTask[v]
      /\ catTask'[w].at = "read"
  BY <1>1, <1>2 DEF CatInv, Cat!TypeOK
<1> QED  BY <1>3, <1>4, CatSteps

LEMMA CatLeave ==
    ASSUME CatInv, NEW w \in CatWorker, Cat!Refuse(w) \/ Cat!Check(w) \/ Cat!Fail(w) PROVE CatInv'
<1>1. UNCHANGED <<catRows, catUse>> /\ catServed' \in 0..MaxCatRequests
  BY DEF Cat!Refuse, Cat!Check, Cat!Fail, CatInv, Cat!TypeOK
<1>2. CASE Cat!Refuse(w) \/ Cat!Fail(w)
  <2>1. catTask' = [catTask EXCEPT ![w] = Nil]
    BY <1>2 DEF Cat!Refuse, Cat!Fail
  <2>2. /\ catTask' \in [CatWorker -> Cat!Task \cup {Nil}]
        /\ \A v \in CatWorker \ {w} : catTask'[v] = catTask[v]
        /\ catTask'[w] = Nil
    BY <2>1 DEF CatInv, Cat!TypeOK
  <2> QED  BY <1>1, <2>2, CatSteps
<1>3. CASE Cat!Check(w)
  <2> DEFINE x == [at |-> "checked", req |-> catTask[w].req]
  <2>1. /\ catTask[w] \in Cat!Task /\ catTask[w].at = "read"
        /\ catTask[w].req.op \notin Cat!Pushes \cup {"reassign"}
    BY <1>3 DEF Cat!Check, Cat!Doing, CatInv, Cat!TypeOK
  <2>2. x \in Cat!Task /\ x.at = "checked" /\ x.req = catTask[w].req /\ [catTask[w] EXCEPT !.at = "checked"] = x
    BY <2>1 DEF Cat!Task
  <2>3. catTask' = [catTask EXCEPT ![w] = x]
    BY <1>3, <2>2 DEF Cat!Check
  <2> HIDE DEF x
  <2>4. /\ catTask' \in [CatWorker -> Cat!Task \cup {Nil}]
        /\ \A v \in CatWorker \ {w} : catTask'[v] = catTask[v]
        /\ catTask'[w] = x
    BY <2>2, <2>3 DEF CatInv, Cat!TypeOK
  <2> QED  BY <1>1, <2>1, <2>2, <2>4, CatSteps
<1> QED  BY <1>2, <1>3

LEMMA CatMove == ASSUME CatInv, NEW w \in CatWorker, Cat!Move(w) PROVE CatInv'
<1> DEFINE r == catTask[w].req
           x == [at |-> "moved", req |-> r, moved |-> Cat!UsersOf(r.cat)]
<1>1. /\ catTask[w] # Nil /\ catTask[w].at = "read" /\ r.op = "reassign"
      /\ catRows[r.to] # Nil /\ Cat!Unlocked(r.to)
      /\ catTask' = [catTask EXCEPT ![w] = x] /\ UNCHANGED <<catRows, catUse, catServed>>
  BY DEF Cat!Move, Cat!Doing, Cat!Accepts, Cat!Active
<1>2. x \in Cat!Task /\ x.at = "moved" /\ x.req = r /\ \A t \in x.moved : catUse[t] # Nil
  BY <1>1 DEF CatInv, Cat!TypeOK, Cat!Task, Cat!UsersOf
<1>3. Cat!TypeOK'
  BY <1>1, <1>2 DEF CatInv, Cat!TypeOK
<1> HIDE DEF x
<1>4. /\ catTask'[w] = x
      /\ \A v \in CatWorker \ {w} : catTask'[v] = catTask[v]
  BY <1>1 DEF CatInv, Cat!TypeOK
<1>5. /\ \A c : Cat!UsersOf(c)' = Cat!UsersOf(c)
      /\ \A c, n, k : Cat!IndexFree(c, n, k)' <=> Cat!IndexFree(c, n, k)
  BY <1>1 DEF Cat!UsersOf, Cat!IndexFree, Cat!SameName
<1>6. /\ \A v \in CatWorker \ {w} : \A s : Cat!Doing(v, s)' <=> Cat!Doing(v, s)
      /\ ~ Cat!Doing(w, "holding")' /\ ~ Cat!Doing(w, "checked")'
  BY <1>2, <1>4 DEF Cat!Doing
<1>7. \A c : Cat!Unlocked(c) => Cat!Unlocked(c)'
  BY <1>4, <1>6 DEF Cat!Unlocked
<1>8. \A v \in CatWorker : PushStands(v)' /\ MoveStands(v)' /\ ChecksStand(v)'
  <2> TAKE v \in CatWorker
  <2>1. CASE v = w
    BY <1>1, <1>2, <1>4, <1>6, <1>7, <2>1 DEF PushStands, MoveStands, ChecksStand
  <2>2. CASE v # w
    BY <1>1, <1>4, <1>5, <1>6, <1>7, <2>2 DEF CatInv, PushStands, MoveStands, ChecksStand
  <2> QED  BY <2>1, <2>2
<1>9. \A v, u \in CatWorker : PushesApart(v, u)'
  BY <1>4, <1>6 DEF CatInv, PushesApart, Cat!SameName
<1> QED  BY <1>1, <1>3, <1>8, <1>9 DEF CatInv, Cat!NameHeldOnce, Cat!NoOrphanedUse, Cat!SameName

\* The request of a worker, by what it does.
LEMMA CatRequestIs ==
    ASSUME CatInv, NEW w \in CatWorker, catTask[w] # Nil
    PROVE  /\ catTask[w] \in Cat!Task /\ catTask[w].req \in Cat!Request
           /\ catTask[w].req.cat \in OwnCategory
           /\ catTask[w].req.op = "reassign" => catTask[w].req.to \in OwnCategory
           /\ catTask[w].req.op = "use" =>
                catTask[w].req.tx \in Spending /\ catTask[w].req.type \in Cat!Kind
<1>1. catTask[w] \in Cat!Task
  BY DEF CatInv, Cat!TypeOK
<1>2. catTask[w].req \in Cat!Request
  BY <1>1, ServicesAssumption DEF Cat!Task
<1> QED  BY <1>1, <1>2 DEF Cat!Request

LEMMA WebRowIs ==
    ASSUME CatInv, NEW r \in Cat!Request, r.op \notin Cat!Pushes \cup {"use"},
           (catRows[r.cat] = Nil) = (r.op = "create")
    PROVE  Cat!WebRow(r) \in Cat!Row
<1>1. catRows[r.cat] \in Cat!Row \cup {Nil}
  BY DEF CatInv, Cat!TypeOK, Cat!Request
<1>2. CASE r.op = "create"
  <2>1. r.name \in STRING /\ r.type \in Cat!Kind
    BY <1>2 DEF Cat!Request
  <2> QED  BY <1>2, <2>1 DEF Cat!WebRow, Cat!NewRow, Cat!Row
<1>3. CASE r.op # "create"
  <2>1. PICK row \in Cat!Row : row = catRows[r.cat]
    BY <1>1, <1>3
  <2>2. PICK named \in Cat!Row : r.op = "rename" => named = [row EXCEPT !.name = r.name]
    <3>1. r.op = "rename" => r.name \in STRING
      BY DEF Cat!Request
    <3> QED  BY <3>1 DEF Cat!Row
  <2>3. PICK open \in Cat!Row : open = [row EXCEPT !.archived = FALSE]
    BY DEF Cat!Row
  <2>4. PICK shut \in Cat!Row : shut = [row EXCEPT !.archived = TRUE]
    BY DEF Cat!Row
  <2>5. \A x \in Cat!Row : Cat!Changed(row, x) \in Cat!Row
    BY DEF Cat!Changed, Cat!Row
  <2>6. r.op = "rename" => Cat!WebRow(r) = Cat!Changed(row, named)
    BY <2>1, <2>2 DEF Cat!WebRow
  <2>7. r.op = "restore" => Cat!WebRow(r) = Cat!Changed(row, open)
    BY <2>1, <2>3 DEF Cat!WebRow
  <2>8. r.op \notin {"create", "rename", "restore"} => Cat!WebRow(r) = Cat!Changed(row, shut)
    BY <2>1, <2>4 DEF Cat!WebRow
  <2> QED  BY <1>3, <2>5, <2>6, <2>7, <2>8
<1> QED  BY <1>2, <1>3

\* A write of the web: its row is held by no push, its name is no push's, and
\* what it moves goes to a category that no push holds.
LEMMA CatWrite ==
    ASSUME CatInv, NEW w \in CatWorker, NEW c \in OwnCategory,
           ~ Cat!Doing(w, "holding"), Cat!Unlocked(c),
           catTask' \in [CatWorker -> Cat!Task \cup {Nil}], catServed' \in 0..MaxCatRequests,
           catTask'[w] = Nil, \A v \in CatWorker \ {w} : catTask'[v] = catTask[v],
           catRows' \in [OwnCategory -> Cat!Row \cup {Nil}], catRows'[c] # Nil,
           \A d \in OwnCategory \ {c} : catRows'[d] = catRows[d],
           \/ catRows'[c] = catRows[c]
           \/ /\ Cat!IndexFree(c, catRows'[c].name, catRows'[c].type)
              /\ Cat!IndexSettled(c, catRows'[c].name, catRows'[c].type),
           catUse' \in [Spending -> Cat!Use \cup {Nil}],
           \A t \in Spending : \/ catUse'[t] = catUse[t]
                              \/ /\ catUse'[t] # Nil /\ catRows[catUse'[t].cat] # Nil
                                 /\ Cat!Unlocked(catUse'[t].cat)
    PROVE  CatInv'
<1>1. Cat!TypeOK'
  BY DEF Cat!TypeOK
<1>2. /\ \A s : ~ Cat!Doing(w, s)'
      /\ \A v \in CatWorker \ {w} : \A s : Cat!Doing(v, s)' <=> Cat!Doing(v, s)
  BY DEF Cat!Doing
<1>3. \A d : Cat!Unlocked(d) => Cat!Unlocked(d)'
  BY <1>2 DEF Cat!Unlocked
<1>4. \A t \in Spending : catUse'[t] # Nil => catUse'[t].cat \in OwnCategory
  BY DEF Cat!Use
<1>5. \A d \in OwnCategory : catRows[d] # Nil => catRows'[d] # Nil
  OBVIOUS
<1>6. Cat!NameHeldOnce'
  <2>1. CASE catRows'[c] = catRows[c]
    BY <2>1 DEF CatInv, Cat!NameHeldOnce, Cat!SameName
  <2>2. CASE Cat!IndexFree(c, catRows'[c].name, catRows'[c].type)
    BY <2>2 DEF CatInv, Cat!NameHeldOnce, Cat!IndexFree, Cat!SameName
  <2> QED  BY <2>1, <2>2
<1>7. Cat!NoOrphanedUse'
  <2> SUFFICES ASSUME NEW t \in Spending, catUse'[t] # Nil PROVE catRows'[catUse'[t].cat] # Nil
    BY DEF Cat!NoOrphanedUse
  <2>1. catRows[catUse'[t].cat] # Nil
    BY DEF CatInv, Cat!NoOrphanedUse
  <2> QED  BY <1>4, <1>5, <2>1
<1>8. ASSUME NEW v \in CatWorker PROVE PushStands(v)'
  <2> SUFFICES ASSUME v # w, Cat!Doing(v, "holding") PROVE PushStands(v)'
    BY <1>2 DEF PushStands
  <2>1. PICK d \in OwnCategory : d = catTask[v].req.cat
    BY CatRequestIs DEF Cat!Doing
  <2>2. d # c /\ catRows'[d] = catRows[d]
    BY <2>1 DEF Cat!Unlocked
  <2>3. Cat!UsersOf(d)' \subseteq Cat!UsersOf(d)
    <3>1. ~ Cat!Unlocked(d)
      BY <2>1 DEF Cat!Unlocked
    <3> QED  BY <3>1 DEF Cat!UsersOf
  <2>4. catTask[v].row # Nil => Cat!IndexFree(d, catTask[v].row.name, catTask[v].row.type)'
    <3>1. catTask[v].row # Nil => Cat!IndexFree(d, catTask[v].row.name, catTask[v].row.type)
      BY <2>1 DEF CatInv, PushStands
    <3>2. CASE catRows'[c] = catRows[c]
      BY <3>1, <3>2 DEF Cat!IndexFree, Cat!SameName
    <3>3. CASE Cat!IndexSettled(c, catRows'[c].name, catRows'[c].type)
      <4>1. ~ Cat!SameName(catTask[v].row, catRows'[c].name, catRows'[c].type)
        BY <2>1, <2>2, <3>3 DEF Cat!IndexSettled
      <4> QED  BY <3>1, <4>1 DEF Cat!IndexFree, Cat!SameName
    <3> QED  BY <3>2, <3>3
  <2>5. /\ catRows[d] # Nil => catRows[d].ver = catTask[v].req.base
        /\ catTask[v].row = Nil => Cat!UsersOf(d) = {}
        /\ catTask[v].row # Nil /\ catRows[d] # Nil
             /\ (catTask[v].row.type # catRows[d].type
                  \/ (catTask[v].row.archived /\ ~ catRows[d].archived))
             => Cat!UsersOf(d) = {}
    BY <2>1 DEF CatInv, PushStands
  <2>6. catTask'[v] = catTask[v] /\ catRows'[d] = catRows[d]
    BY <2>2
  <2> HIDE DEF CatInv
  <2>7. Cat!UsersOf(d) = {} => Cat!UsersOf(d)' = {}
    BY <2>3
  <2> QED  BY <2>1, <2>4, <2>5, <2>6, <2>7 DEF PushStands
<1>9. ASSUME NEW v \in CatWorker PROVE MoveStands(v)'
  <2> SUFFICES ASSUME v # w, Cat!Doing(v, "moved") PROVE MoveStands(v)'
    BY <1>2 DEF MoveStands
  <2>1. MoveStands(v) /\ catTask'[v] = catTask[v]
    BY DEF CatInv
  <2>2. catTask[v].req.to \in OwnCategory /\ catTask[v].moved \subseteq Spending
    BY <2>1, CatRequestIs DEF MoveStands, Cat!Doing, Cat!Task
  <2>3. \A t \in Spending : catUse[t] # Nil => catUse'[t] # Nil
    OBVIOUS
  <2> QED  BY <1>3, <1>5, <2>1, <2>2, <2>3 DEF MoveStands
<1>10. ASSUME NEW v \in CatWorker PROVE ChecksStand(v)'
  BY <1>2 DEF CatInv, ChecksStand
<1>11. ASSUME NEW v \in CatWorker, NEW u \in CatWorker PROVE PushesApart(v, u)'
  BY <1>2 DEF CatInv, PushesApart, Cat!SameName
<1> QED  BY <1>1, <1>6, <1>7, <1>8, <1>9, <1>10, <1>11 DEF CatInv

LEMMA CatWriteCategory == ASSUME CatInv, NEW w \in CatWorker, Cat!WriteCategory(w) PROVE CatInv'
<1>1. PICK r \in Cat!Request : r = catTask[w].req
  BY CatRequestIs DEF Cat!WriteCategory, Cat!Doing
<1>2. /\ catTask[w] # Nil /\ ~ Cat!Doing(w, "holding") /\ r.op # "use" /\ Cat!Unlocked(r.cat)
      /\ catTask' = [catTask EXCEPT ![w] = Nil] /\ catServed' = catServed
  BY <1>1 DEF Cat!WriteCategory, Cat!Doing
<1>3. r.cat \in OwnCategory /\ r.op \notin Cat!Pushes \cup {"use"}
  BY <1>1, <1>2, CatRequestIs DEF Cat!WriteCategory, CatInv, ChecksStand, MoveStands, Cat!Pushes
<1>4. /\ catTask' \in [CatWorker -> Cat!Task \cup {Nil}] /\ catServed' \in 0..MaxCatRequests
      /\ \A v \in CatWorker \ {w} : catTask'[v] = catTask[v]
      /\ catTask'[w] = Nil
  BY <1>2 DEF CatInv, Cat!TypeOK
<1>5. CASE UNCHANGED <<catRows, catUse>>
  BY <1>4, <1>5, CatSteps
<1>6. CASE ~ UNCHANGED <<catRows, catUse>>
  <2>1. (catRows[r.cat] = Nil) = (r.op = "create")
    BY <1>1, <1>6 DEF Cat!WriteCategory
  <2>2. PICK new \in Cat!Row : new = Cat!WebRow(r)
    BY <1>3, <2>1, WebRowIs
  <2>3. /\ Cat!IndexSettled(r.cat, new.name, new.type) /\ Cat!IndexFree(r.cat, new.name, new.type)
        /\ catRows' = [catRows EXCEPT ![r.cat] = new]
        /\ catUse' = [t \in Spending |-> IF Cat!Doing(w, "moved") /\ t \in catTask[w].moved
                                         THEN [catUse[t] EXCEPT !.cat = r.to] ELSE catUse[t]]
    BY <1>1, <1>6, <2>2 DEF Cat!WriteCategory
  <2>4. /\ catRows' \in [OwnCategory -> Cat!Row \cup {Nil}] /\ catRows'[r.cat] = new /\ new # Nil
        /\ \A d \in OwnCategory \ {r.cat} : catRows'[d] = catRows[d]
    BY <1>3, <2>3, CatApart DEF CatInv, Cat!TypeOK
  <2>5. \A t \in Spending :
          \/ catUse'[t] = catUse[t] /\ catUse[t] \in Cat!Use \cup {Nil}
          \/ /\ catUse'[t] \in Cat!Use /\ catUse'[t] # Nil
             /\ catRows[catUse'[t].cat] # Nil /\ Cat!Unlocked(catUse'[t].cat)
    <3> TAKE t \in Spending
    <3>1. catUse[t] \in Cat!Use \cup {Nil}
      BY DEF CatInv, Cat!TypeOK
    <3>2. CASE ~ (Cat!Doing(w, "moved") /\ t \in catTask[w].moved)
      BY <2>3, <3>1, <3>2
    <3>3. CASE Cat!Doing(w, "moved") /\ t \in catTask[w].moved
      <4>1. r.op = "reassign" /\ catRows[r.to] # Nil /\ Cat!Unlocked(r.to) /\ catUse[t] # Nil
        BY <1>1, <3>3 DEF CatInv, MoveStands
      <4>2. r.to \in OwnCategory
        BY <1>1, <1>2, <4>1, CatRequestIs
      <4>3. catUse'[t] = [catUse[t] EXCEPT !.cat = r.to]
        BY <2>3, <3>3
      <4>4. catUse'[t] \in Cat!Use /\ catUse'[t].cat = r.to
        BY <3>1, <4>1, <4>2, <4>3 DEF Cat!Use
      <4> QED  BY <4>1, <4>4, CatApart
    <3> QED  BY <3>2, <3>3
  <2>6. catUse' \in [Spending -> Cat!Use \cup {Nil}]
    BY <2>3, <2>5
  <2> QED  BY <1>2, <1>3, <1>4, <2>3, <2>4, <2>5, <2>6, CatWrite
<1> QED  BY <1>5, <1>6

LEMMA CatWriteUse == ASSUME CatInv, NEW w \in CatWorker, Cat!WriteUse(w) PROVE CatInv'
<1>1. PICK r \in Cat!Request : r = catTask[w].req
  BY CatRequestIs DEF Cat!WriteUse, Cat!Doing
<1>2. /\ catTask[w] # Nil /\ ~ Cat!Doing(w, "holding") /\ r.op = "use" /\ Cat!Unlocked(r.cat)
      /\ catTask' = [catTask EXCEPT ![w] = Nil] /\ catServed' = catServed /\ catRows' = catRows
      /\ catUse' = IF catRows[r.cat] = Nil THEN catUse
                   ELSE [catUse EXCEPT ![r.tx] = [cat |-> r.cat, type |-> r.type]]
  BY <1>1 DEF Cat!WriteUse, Cat!Doing
<1>3. r.cat \in OwnCategory /\ r.tx \in Spending /\ r.type \in Cat!Kind
  BY <1>1, <1>2, CatRequestIs
<1>4. /\ catTask' \in [CatWorker -> Cat!Task \cup {Nil}] /\ catServed' \in 0..MaxCatRequests
      /\ \A v \in CatWorker \ {w} : catTask'[v] = catTask[v]
      /\ catTask'[w] = Nil
  BY <1>2 DEF CatInv, Cat!TypeOK
<1>5. CASE catRows[r.cat] = Nil
  BY <1>2, <1>4, <1>5, CatSteps
<1>6. CASE catRows[r.cat] # Nil
  <2>1. PICK use \in Cat!Use : use = [cat |-> r.cat, type |-> r.type] /\ use.cat = r.cat
    <3>1. [cat |-> r.cat, type |-> r.type] \in Cat!Use
      BY <1>3 DEF Cat!Use
    <3> QED  BY <3>1
  <2>2. catUse' = [catUse EXCEPT ![r.tx] = use]
    BY <1>2, <1>6, <2>1
  <2>3. /\ catUse' \in [Spending -> Cat!Use \cup {Nil}]
        /\ \A t \in Spending : catUse'[t] = catUse[t] \/ (catUse'[t] = use /\ use # Nil)
    BY <1>3, <2>2, CatApart DEF CatInv, Cat!TypeOK
  <2>4. catRows' \in [OwnCategory -> Cat!Row \cup {Nil}]
    BY <1>2 DEF CatInv, Cat!TypeOK
  <2> QED  BY <1>2, <1>3, <1>4, <1>6, <2>1, <2>3, <2>4, CatWrite
<1> QED  BY <1>5, <1>6


\* The decision of a push that is not refused.
LEMMA PushedIs ==
    ASSUME CatInv, NEW r \in Cat!Request, r.op \in Cat!Pushes, ~ Cat!PushRefused(r)
    PROVE  LET row == catRows[r.cat]  new == Cat!PushedRow(r) IN
           /\ new \in Cat!Row \cup {Nil}
           /\ row # Nil => row.ver = r.base
           /\ new = Nil => Cat!UsersOf(r.cat) = {}
           /\ new # Nil /\ row # Nil /\ (new.type # row.type \/ (new.archived /\ ~ row.archived))
                => Cat!UsersOf(r.cat) = {}
           /\ new # Nil => /\ r.op = "push" /\ new.name = r.name /\ new.type = r.type
                           /\ Cat!IndexFree(r.cat, new.name, new.type)
<1> DEFINE row == catRows[r.cat]
           fresh == [name |-> r.name, type |-> r.type, archived |-> r.archived, ver |-> 1]
           new == Cat!PushedRow(r)
<1>1. row \in Cat!Row \cup {Nil} /\ r.cat \in OwnCategory
  BY DEF CatInv, Cat!TypeOK, Cat!Request
<1>2. CASE r.op = "pushDelete"
  BY <1>2 DEF Cat!PushRefused, Cat!PushedRow
<1>3. CASE r.op = "push"
  <2>1. fresh \in Cat!Row
    BY <1>3 DEF Cat!Request, Cat!Row
  <2>2. new = IF row = Nil THEN fresh ELSE Cat!Changed(row, [fresh EXCEPT !.ver = row.ver])
    BY <1>3 DEF Cat!PushedRow
  <2>3. new \in Cat!Row /\ new.name = r.name /\ new.type = r.type /\ new.archived = r.archived
    <3>1. CASE row = Nil
      BY <2>1, <2>2, <3>1
    <3>2. CASE row # Nil
      <4>1. row \in Cat!Row
        BY <1>1, <3>2
      <4>2. PICK x \in Cat!Row : /\ x = [fresh EXCEPT !.ver = row.ver]
                              /\ x.name = r.name /\ x.type = r.type /\ x.archived = r.archived
        <5>1. [fresh EXCEPT !.ver = row.ver] \in Cat!Row
          BY <2>1, <4>1 DEF Cat!Row
        <5> QED  BY <5>1
      <4>3. new = Cat!Changed(row, x)
        BY <2>2, <3>2, <4>2
      <4>4. CASE row = x
        BY <4>1, <4>2, <4>3, <4>4 DEF Cat!Changed
      <4>5. CASE row # x
        <5>1. new = [x EXCEPT !.ver = x.ver + 1]
          BY <4>3, <4>5 DEF Cat!Changed
        <5>2. x.ver + 1 \in Nat \ {0} /\ x.name \in STRING /\ x.type \in Cat!Kind /\ x.archived \in BOOLEAN
          BY <4>2 DEF Cat!Row
        <5>3. new = [name |-> x.name, type |-> x.type, archived |-> x.archived, ver |-> x.ver + 1]
          BY <4>2, <5>1 DEF Cat!Row
        <5> HIDE DEF new
        <5> QED  BY <4>2, <5>2, <5>3 DEF Cat!Row
      <4> QED  BY <4>4, <4>5
    <3> QED  BY <3>1, <3>2
  <2>4. /\ Cat!IndexFree(r.cat, r.name, r.type)
        /\ row # Nil => row.ver = r.base
        /\ row # Nil /\ (r.type # row.type \/ (r.archived /\ ~ row.archived)) => Cat!UsersOf(r.cat) = {}
    BY <1>3 DEF Cat!PushRefused
  <2> QED  BY <1>3, <2>3, <2>4, CatApart
<1> QED  BY <1>2, <1>3 DEF Cat!Pushes

LEMMA CatPush == ASSUME CatInv, NEW w \in CatWorker, Cat!Push(w) PROVE CatInv'
<1> DEFINE r == catTask[w].req
<1>1. /\ catTask[w] # Nil /\ catTask[w].at = "read" /\ r.op \in Cat!Pushes
      /\ Cat!Unlocked(r.cat) /\ ~ Cat!KeyShared(r.cat)
      /\ r.op = "push" => Cat!IndexSettled(r.cat, r.name, r.type)
      /\ catTask' = [catTask EXCEPT ![w] = IF Cat!PushRefused(r) THEN Nil
                       ELSE [at |-> "holding", req |-> r, row |-> Cat!PushedRow(r)]]
      /\ UNCHANGED <<catRows, catUse, catServed>>
  BY DEF Cat!Push, Cat!Doing
<1>2. r \in Cat!Request /\ r \in CatRequest /\ r.cat \in OwnCategory
  BY <1>1, CatRequestIs DEF Cat!Task
<1>3. CASE Cat!PushRefused(r)
  <2>1. /\ catTask' \in [CatWorker -> Cat!Task \cup {Nil}] /\ catServed' \in 0..MaxCatRequests
        /\ \A v \in CatWorker \ {w} : catTask'[v] = catTask[v]
        /\ catTask'[w] = Nil
    BY <1>1, <1>3 DEF CatInv, Cat!TypeOK
  <2> QED  BY <1>1, <2>1, CatSteps
<1>4. CASE ~ Cat!PushRefused(r)
  <2> DEFINE new == Cat!PushedRow(r)
             x == [at |-> "holding", req |-> r, row |-> new]
             row == catRows[r.cat]
  <2>1. /\ new \in Cat!Row \cup {Nil}
        /\ row # Nil => row.ver = r.base
        /\ new = Nil => Cat!UsersOf(r.cat) = {}
        /\ new # Nil /\ row # Nil /\ (new.type # row.type \/ (new.archived /\ ~ row.archived))
             => Cat!UsersOf(r.cat) = {}
        /\ new # Nil => /\ r.op = "push" /\ new.name = r.name /\ new.type = r.type
                        /\ Cat!IndexFree(r.cat, new.name, new.type)
    BY <1>1, <1>2, <1>4, PushedIs
  <2> HIDE DEF new
  <2>2. x \in Cat!Task /\ x.at = "holding" /\ x.req = r /\ x.row = new
    BY <1>2, <2>1 DEF Cat!Task
  <2>3. catTask' = [catTask EXCEPT ![w] = x]
    BY <1>1, <1>4 DEF new
  <2> HIDE DEF x
  <2>4. /\ Cat!TypeOK' /\ catTask'[w] = x
        /\ \A v \in CatWorker \ {w} : catTask'[v] = catTask[v]
    BY <1>1, <2>2, <2>3 DEF CatInv, Cat!TypeOK
  <2>5. /\ \A c : Cat!UsersOf(c)' = Cat!UsersOf(c)
        /\ \A c, n, k : Cat!IndexFree(c, n, k)' <=> Cat!IndexFree(c, n, k)
    BY <1>1 DEF Cat!UsersOf, Cat!IndexFree, Cat!SameName
  <2>6. /\ ~ Cat!Doing(w, "moved")' /\ ~ Cat!Doing(w, "checked")' /\ Cat!Doing(w, "holding")'
        /\ \A v \in CatWorker \ {w} : \A s : Cat!Doing(v, s)' <=> Cat!Doing(v, s)
    BY <2>2, <2>4, CatApart DEF Cat!Doing
  <2>7. \A c : Cat!Unlocked(c) /\ c # r.cat => Cat!Unlocked(c)'
    BY <2>2, <2>4, <2>6 DEF Cat!Unlocked
  <2>8. ASSUME NEW v \in CatWorker PROVE PushStands(v)'
    <3>1. CASE v = w
      <4>1. catTask'[v].req = r /\ catTask'[v].row = new
        BY <2>2, <2>4, <3>1
      <4> QED  BY <1>1, <2>1, <2>5, <4>1 DEF PushStands
    <3>2. CASE v # w
      BY <1>1, <2>4, <2>5, <2>6, <3>2 DEF CatInv, PushStands
    <3> QED  BY <3>1, <3>2
  <2>9. ASSUME NEW v \in CatWorker PROVE MoveStands(v)'
    <3> SUFFICES ASSUME v # w, Cat!Doing(v, "moved") PROVE MoveStands(v)'
      BY <2>6 DEF MoveStands
    <3>1. catTask[v].req.to # r.cat
      BY <1>1 DEF Cat!KeyShared
    <3> QED  BY <1>1, <2>4, <2>7, <3>1 DEF CatInv, MoveStands
  <2>10. ASSUME NEW v \in CatWorker PROVE ChecksStand(v)'
    BY <2>4, <2>6 DEF CatInv, ChecksStand
  <2>11. ASSUME NEW v \in CatWorker, NEW u \in CatWorker, v # u PROVE PushesApart(v, u)'
    <3>1. CASE v # w /\ u # w
      BY <2>4, <2>6, <3>1 DEF CatInv, PushesApart, Cat!SameName
    <3>2. ASSUME NEW o \in CatWorker, o # w, Cat!Doing(o, "holding")
          PROVE  /\ catTask[o].req.cat # r.cat
                 /\ new # Nil => ~ Cat!SameName(catTask[o].row, new.name, new.type)
      <4>1. catTask[o].req.cat # r.cat
        BY <1>1, <3>2 DEF Cat!Unlocked
      <4> QED  BY <1>1, <2>1, <3>2, <4>1 DEF Cat!IndexSettled
    <3>3. CASE v = w
      BY <2>2, <2>4, <2>6, <3>2, <3>3 DEF PushesApart, Cat!SameName
    <3>4. CASE u = w
      BY <2>2, <2>4, <2>6, <3>2, <3>4 DEF PushesApart, Cat!SameName
    <3> QED  BY <3>1, <3>3, <3>4
  <2> QED
    BY <1>1, <2>4, <2>8, <2>9, <2>10, <2>11
       DEF CatInv, Cat!NameHeldOnce, Cat!NoOrphanedUse, Cat!SameName, PushesApart
<1> QED  BY <1>3, <1>4

LEMMA CatPushCommit == ASSUME CatInv, NEW w \in CatWorker, Cat!PushCommit(w) PROVE CatInv'
<1> DEFINE c == catTask[w].req.cat
           new == catTask[w].row
<1>1. /\ catTask[w] # Nil /\ catTask[w].at = "holding" /\ Cat!Doing(w, "holding")
      /\ catRows' = [catRows EXCEPT ![c] = new] /\ catTask' = [catTask EXCEPT ![w] = Nil]
      /\ UNCHANGED <<catUse, catServed>>
  BY DEF Cat!PushCommit, Cat!Doing
<1>2. c \in OwnCategory /\ new \in Cat!Row \cup {Nil}
  BY <1>1, CatRequestIs DEF Cat!Task
<1>3. /\ Cat!TypeOK' /\ catTask'[w] = Nil
      /\ \A v \in CatWorker \ {w} : catTask'[v] = catTask[v]
      /\ catRows'[c] = new /\ \A d \in OwnCategory \ {c} : catRows'[d] = catRows[d]
  BY <1>1, <1>2 DEF CatInv, Cat!TypeOK
<1>4. /\ new = Nil => Cat!UsersOf(c) = {}
      /\ new # Nil => Cat!IndexFree(c, new.name, new.type)
  BY <1>1 DEF CatInv, PushStands
<1>5. /\ \A s : ~ Cat!Doing(w, s)'
      /\ \A v \in CatWorker \ {w} : \A s : Cat!Doing(v, s)' <=> Cat!Doing(v, s)
  BY <1>3 DEF Cat!Doing
<1>6. \A d : Cat!Unlocked(d) => Cat!Unlocked(d)'
  BY <1>3, <1>5 DEF Cat!Unlocked
<1>7. \A d : Cat!UsersOf(d)' = Cat!UsersOf(d)
  BY <1>1 DEF Cat!UsersOf
<1>8. Cat!NameHeldOnce'
  BY <1>3, <1>4 DEF CatInv, Cat!NameHeldOnce, Cat!IndexFree, Cat!SameName
<1>9. Cat!NoOrphanedUse'
  <2> SUFFICES ASSUME NEW t \in Spending, catUse[t] # Nil PROVE catRows'[catUse[t].cat] # Nil
    BY <1>1 DEF Cat!NoOrphanedUse
  <2>1. catUse[t].cat \in OwnCategory /\ catRows[catUse[t].cat] # Nil
    BY DEF CatInv, Cat!TypeOK, Cat!Use, Cat!NoOrphanedUse
  <2>2. catUse[t].cat = c => new # Nil
    BY <1>4 DEF Cat!UsersOf
  <2> QED  BY <1>3, <2>1, <2>2
<1>10. ASSUME NEW v \in CatWorker PROVE PushStands(v)'
  <2> SUFFICES ASSUME v # w, Cat!Doing(v, "holding") PROVE PushStands(v)'
    BY <1>5 DEF PushStands
  <2> DEFINE d == catTask[v].req.cat
             mine == catTask[v].row
  <2>1. d \in OwnCategory /\ d # c /\ (mine # Nil => ~ Cat!SameName(new, mine.name, mine.type))
    BY <1>1, CatRequestIs DEF CatInv, PushesApart, Cat!Doing
  <2>2. mine # Nil => Cat!IndexFree(d, mine.name, mine.type)'
    BY <1>3, <2>1 DEF CatInv, PushStands, Cat!IndexFree, Cat!SameName
  <2> QED  BY <1>3, <1>7, <2>1, <2>2 DEF CatInv, PushStands
<1>11. ASSUME NEW v \in CatWorker PROVE MoveStands(v)'
  <2> SUFFICES ASSUME v # w, Cat!Doing(v, "moved") PROVE MoveStands(v)'
    BY <1>5 DEF MoveStands
  <2>1. MoveStands(v)
    BY DEF CatInv
  <2>2. catTask[v].req.to \in OwnCategory /\ catTask[v].req.to # c
    BY <1>1, <2>1, CatRequestIs DEF MoveStands, Cat!Doing, Cat!Unlocked
  <2> QED  BY <1>1, <1>3, <1>6, <2>1, <2>2 DEF MoveStands
<1>12. ASSUME NEW v \in CatWorker PROVE ChecksStand(v)'
  BY <1>3, <1>5 DEF CatInv, ChecksStand
<1>13. ASSUME NEW v \in CatWorker, NEW u \in CatWorker PROVE PushesApart(v, u)'
  BY <1>3, <1>5 DEF CatInv, PushesApart, Cat!SameName
<1> QED  BY <1>3, <1>8, <1>9, <1>10, <1>11, <1>12, <1>13 DEF CatInv

LEMMA CatStep == CatInv /\ [Cat!Next]_(Cat!catVars) => CatInv'
<1> SUFFICES ASSUME CatInv, [Cat!Next]_(Cat!catVars) PROVE CatInv'
  OBVIOUS
<1>1. CASE Cat!Next
  <2>1. PICK w \in CatWorker :
          \/ Cat!Begin(w) \/ Cat!Refuse(w) \/ Cat!Check(w) \/ Cat!Move(w)
          \/ Cat!WriteCategory(w) \/ Cat!WriteUse(w)
          \/ Cat!Push(w) \/ Cat!PushCommit(w) \/ Cat!Fail(w)
    BY <1>1 DEF Cat!Next
  <2>2. CASE Cat!Begin(w)
    BY <2>2, CatBegin
  <2>3. CASE Cat!Refuse(w) \/ Cat!Check(w) \/ Cat!Fail(w)
    BY <2>3, CatLeave
  <2>4. CASE Cat!Move(w)
    BY <2>4, CatMove
  <2>5. CASE Cat!WriteCategory(w)
    BY <2>5, CatWriteCategory
  <2>6. CASE Cat!WriteUse(w)
    BY <2>6, CatWriteUse
  <2>7. CASE Cat!Push(w)
    BY <2>7, CatPush
  <2>8. CASE Cat!PushCommit(w)
    BY <2>8, CatPushCommit
  <2> QED  BY <2>1, <2>2, <2>3, <2>4, <2>5, <2>6, <2>7, <2>8
<1>2. CASE UNCHANGED Cat!catVars
  BY <1>2 DEF Cat!catVars, CatInv, Cat!TypeOK, Cat!NameHeldOnce, Cat!NoOrphanedUse, PushStands,
     PushesApart, MoveStands, ChecksStand, Cat!Doing, Cat!Unlocked, Cat!UsersOf, Cat!IndexFree,
     Cat!SameName
<1> QED  BY <1>1, <1>2

-----------------------------------------------------------------------------
(* Imports, edits and deletions that overlap *)

\* Ids are drawn once; a batch bears the id of the request that made it.
IdsApart ==
    /\ \A i \in DOMAIN txs : i < impCount.id
    /\ \A b \in DOMAIN batches : b < impCount.id
    /\ \A w \in Importer : task[w] # Nil =>
         task[w].id < impCount.id /\ task[w].id \notin DOMAIN batches
    /\ \A w, v \in Importer : w # v /\ task[w] # Nil /\ task[v] # Nil => task[w].id # task[v].id

\* The rows a request takes for new differ from each other.  Until a commit, an
\* edit or a deletion overtakes it, they differ from every import that has its
\* fields still, and the categories of the rows it keeps exist.
FreshStands(w) ==
    LET file == task[w].file  fresh == task[w].fresh IN
    task[w] # Nil =>
        /\ task[w].at = "candidates" => fresh = {}
        /\ \A n, k \in fresh : n # k => Imp!Fingerprint(file[n]) # Imp!Fingerprint(file[k])
        /\ ~ task[w].overtaken => \A i \in DOMAIN txs, n \in fresh :
             /\ txs[i].stored # Nil
             /\ txs[i].stored = Imp!Fingerprint(txs[i])
             => txs[i].stored # Imp!Fingerprint(file[n])
        /\ ~ task[w].overtaken =>
             \A n \in Imp!Kept(task[w]) : Imp!Named(file[n]) \notin gone

ImpInv ==
    /\ Imp!TypeOK /\ IdsApart
    /\ \A w \in Importer : FreshStands(w)
    /\ Imp!ImportedOnce /\ Imp!BatchAccounts /\ Imp!CategoriesExist /\ Imp!ConflictHasCause

LEMMA ImpApart ==
    /\ \A x \in Nat : x # Nil
    /\ \A x \in Imp!Task : x # Nil
    /\ \A d \in Date, x \in What : <<d, x>> # Nil
BY ServicesAssumption

\* The instance counts as the library does.
LEMMA SameCount == \A S : Imp!Cardinality(S) = Cardinality(S)
BY DEF Imp!Cardinality, Cardinality

\* The rows of a file.
LEMMA FileIs ==
    ASSUME NEW f \in File
    PROVE  /\ DOMAIN f = 1..Len(f) /\ Len(f) \in Nat /\ 1 \in DOMAIN f
           /\ \A n \in DOMAIN f : /\ f[n].day \in Date /\ f[n].what \in What
                                  /\ Imp!Fingerprint(f[n]) \in Date \X What
                                  /\ Imp!Named(f[n]) \in STRING
<1>1. f \in Seq(Imp!Row) /\ f # <<>>
  BY ServicesAssumption
<1>2. DOMAIN f = 1..Len(f) /\ Len(f) \in Nat /\ 1 \in DOMAIN f
  BY <1>1
<1>3. ASSUME NEW n \in DOMAIN f
      PROVE  /\ f[n].day \in Date /\ f[n].what \in What
             /\ Imp!Fingerprint(f[n]) \in Date \X What
             /\ Imp!Named(f[n]) \in STRING
  <2>1. f[n] \in Imp!Row
    BY <1>1
  <2>2. PICK type \in DOMAIN CategoryOf : type = f[n].type
    BY <2>1 DEF Imp!Row
  <2>3. CategoryOf[type] \in Seq(STRING) /\ CategoryOf[type] # <<>>
    BY ServicesAssumption
  <2>4. CategoryOf[type][1] \in STRING
    BY <2>3
  <2> QED  BY <2>1, <2>2, <2>4 DEF Imp!Row, Imp!Fingerprint, Imp!Named, Imp!Default
<1> QED  BY <1>2, <1>3

\* The task of a worker, and its counts.
LEMMA TaskIs ==
    ASSUME Imp!TypeOK, NEW w \in Importer, task[w] # Nil
    PROVE  LET t == task[w] IN
           /\ t \in Imp!Task /\ t.file \in File
           /\ t.bad \subseteq DOMAIN t.file /\ t.fresh \subseteq DOMAIN t.file
           /\ IsFiniteSet(t.fresh) /\ Cardinality(t.fresh) \in Nat
           /\ Imp!Counts(t) \in Imp!Count
           /\ Imp!Counts(t).new = Cardinality(t.fresh)
           /\ t.bad = {} => Imp!Counts(t).total = Imp!Counts(t).new + Imp!Counts(t).dup
<1>1. PICK t \in Imp!Task : t = task[w]
  BY DEF Imp!TypeOK
<1>2. /\ t.file \in File /\ t.bad \subseteq DOMAIN t.file /\ t.fresh \subseteq DOMAIN t.file
      /\ t.bad \cap t.fresh = {}
  BY <1>1 DEF Imp!TypeOK, Imp!Task
<1>3. DOMAIN t.file = 1..Len(t.file) /\ Len(t.file) \in Nat
  BY <1>2, FileIs
<1>4. IsFiniteSet(1..Len(t.file)) /\ Cardinality(1..Len(t.file)) = Len(t.file)
  <2>1. \A n \in Nat : IsFiniteSet(1..n) /\ Cardinality(1..n) = n
    BY FS_Interval
  <2> QED  BY <1>3, <2>1
<1>5. IsFiniteSet(t.fresh) /\ IsFiniteSet(t.bad)
  BY <1>2, <1>3, <1>4, FS_Subset
<1>6. Cardinality(t.fresh) \in Nat /\ Cardinality(t.bad) \in Nat
  BY <1>5, FS_CardinalityType
<1>7. Cardinality(t.fresh \cup t.bad) = Cardinality(t.fresh) + Cardinality(t.bad)
  <2>1. Cardinality(t.fresh \cup t.bad)
          = Cardinality(t.fresh) + Cardinality(t.bad) - Cardinality(t.fresh \cap t.bad)
    BY <1>5, FS_Union
  <2>2. t.fresh \cap t.bad = {}
    BY <1>2
  <2>3. Cardinality(t.fresh \cap t.bad) = 0
    BY <2>2, FS_EmptySet
  <2> QED  BY <1>6, <2>1, <2>3
<1>8. Cardinality(t.fresh \cup t.bad) <= Len(t.file)
  <2>1. t.fresh \cup t.bad \in SUBSET (1..Len(t.file))
    BY <1>2, <1>3
  <2> QED  BY <1>4, <2>1, FS_Subset
<1>9. Len(t.file) - Cardinality(t.fresh) - Cardinality(t.bad) \in Nat
  BY <1>3, <1>6, <1>7, <1>8
<1>10. t.bad = {} => Cardinality(t.bad) = 0
  BY FS_EmptySet
<1>11. Imp!Counts(t) \in Imp!Count
  BY <1>3, <1>6, <1>9, SameCount DEF Imp!Counts, Imp!Count
<1>12. /\ Imp!Counts(t).new = Cardinality(t.fresh)
       /\ t.bad = {} => Imp!Counts(t).total = Imp!Counts(t).new + Imp!Counts(t).dup
  BY <1>3, <1>6, <1>10, SameCount DEF Imp!Counts
<1> QED  BY <1>1, <1>2, <1>5, <1>6, <1>11, <1>12

LEMMA ImpInit == Imp!Init => ImpInv
<1> SUFFICES ASSUME Imp!Init PROVE ImpInv
  OBVIOUS
<1>1. DOMAIN txs = {} /\ DOMAIN batches = {}
  BY DEF Imp!Init
<1>2. \A w \in Importer : task[w] = Nil
  BY DEF Imp!Init
<1>3. Imp!TypeOK
  <2>1. txs \in [DOMAIN txs -> Imp!Tx] /\ batches \in [DOMAIN batches -> Imp!Count]
    BY <1>1 DEF Imp!Init
  <2>2. impCount \in [imports : 0..MaxImports, edits : 0..MaxImpEdits, id : Nat]
    BY ServicesAssumption DEF Imp!Init
  <2> QED  BY <1>1, <1>2, <2>1, <2>2 DEF Imp!Init, Imp!TypeOK
<1> QED
  BY <1>1, <1>2, <1>3
     DEF ImpInv, IdsApart, FreshStands, Imp!ImportedOnce, Imp!BatchAccounts, Imp!CategoriesExist,
         Imp!ConflictHasCause, Imp!Init

\* A batch of which nothing is deleted stays accounted for.
LEMMA BatchesStand ==
    ASSUME ImpInv, UNCHANGED batches, impCount'.edits \in Nat, impCount.edits <= impCount'.edits,
           \A b \in DOMAIN batches :
             {i \in DOMAIN txs' : txs'[i].batch = b} = {i \in DOMAIN txs : txs[i].batch = b}
    PROVE  Imp!BatchAccounts'
<1>1. ASSUME NEW b \in DOMAIN batches
      PROVE  LET own == Cardinality({i \in DOMAIN txs : txs[i].batch = b}) IN
             /\ batches[b].total = batches[b].new + batches[b].dup
             /\ own <= batches[b].new /\ batches[b].new - own <= impCount'.edits
  <2> DEFINE Owned == {i \in DOMAIN txs : txs[i].batch = b}
  <2>1. IsFiniteSet(Owned)
    <3>1. Owned \in SUBSET Nat /\ impCount.id \in Nat /\ \A i \in Owned : i <= impCount.id
      BY DEF ImpInv, IdsApart, Imp!TypeOK
    <3> QED  BY <3>1, FS_BoundedSetOfNaturals
  <2>2. Cardinality(Owned) \in Nat
    BY <2>1, FS_CardinalityType
  <2>3. batches[b].new \in Nat /\ impCount.edits \in Nat
    BY DEF ImpInv, Imp!TypeOK, Imp!Count
  <2>4. /\ batches[b].total = batches[b].new + batches[b].dup
        /\ Cardinality(Owned) <= batches[b].new /\ batches[b].new - Cardinality(Owned) <= impCount.edits
    BY SameCount DEF ImpInv, Imp!BatchAccounts
  <2> QED  BY <2>2, <2>3, <2>4
<1> QED  BY <1>1, SameCount DEF Imp!BatchAccounts

\* What a task that goes on keeps.
Goes(v) ==
    task'[v] # Nil =>
        /\ task[v] # Nil
        /\ task'[v].id = task[v].id /\ task'[v].at = task[v].at
        /\ task'[v].file = task[v].file
        /\ task'[v].bad = task[v].bad /\ task'[v].fresh = task[v].fresh
        /\ task[v].overtaken => task'[v].overtaken

Late(v) == task'[v] # Nil => task'[v].overtaken

\* A change marks these requests.
LEMMA OvertakenIs ==
    ASSUME Imp!TypeOK, NEW ws
    PROVE  LET next == Imp!Overtaken(ws) IN
           /\ next \in [Importer -> Imp!Task \cup {Nil}]
           /\ \A v \in Importer : next[v] # Nil =>
                /\ task[v] # Nil
                /\ next[v].id = task[v].id /\ next[v].at = task[v].at
                /\ next[v].file = task[v].file
                /\ next[v].bad = task[v].bad /\ next[v].fresh = task[v].fresh
                /\ task[v].overtaken \/ v \in ws => next[v].overtaken
                /\ v \notin ws => next[v] = task[v]
<1>1. ASSUME NEW t \in Imp!Task
      PROVE  LET s == [t EXCEPT !.overtaken = TRUE] IN
        /\ s \in Imp!Task /\ s.overtaken
        /\ s.id = t.id /\ s.at = t.at /\ s.file = t.file /\ s.bad = t.bad /\ s.fresh = t.fresh
  BY DEF Imp!Task
<1>2. task \in [Importer -> Imp!Task \cup {Nil}]
  BY DEF Imp!TypeOK
<1>3. PICK next : next = Imp!Overtaken(ws)
  OBVIOUS
<1>4. \A v \in Importer :
        next[v] = IF task[v] # Nil /\ v \in ws THEN [task[v] EXCEPT !.overtaken = TRUE] ELSE task[v]
  BY <1>3 DEF Imp!Overtaken
<1>5. next \in [Importer -> Imp!Task \cup {Nil}]
  BY <1>1, <1>2, <1>3 DEF Imp!Overtaken
<1>6. ASSUME NEW v \in Importer, next[v] # Nil
      PROVE  /\ task[v] # Nil
             /\ next[v].id = task[v].id /\ next[v].at = task[v].at
             /\ next[v].file = task[v].file
             /\ next[v].bad = task[v].bad /\ next[v].fresh = task[v].fresh
             /\ task[v].overtaken \/ v \in ws => next[v].overtaken
             /\ v \notin ws => next[v] = task[v]
  <2>1. task[v] # Nil /\ task[v] \in Imp!Task
    BY <1>2, <1>4, <1>6
  <2>2. CASE v \in ws
    BY <1>1, <1>4, <2>1, <2>2
  <2>3. CASE v \notin ws
    BY <1>4, <2>1, <2>3
  <2> QED  BY <2>2, <2>3
<1> QED  BY <1>3, <1>5, <1>6

\* A task that goes on keeps the rows it takes for new, and its id.
LEMMA TasksStand ==
    ASSUME ImpInv, \A v \in Importer : Goes(v), UNCHANGED gone,
           impCount'.id \in Nat, impCount.id <= impCount'.id,
           \/ \A v \in Importer : Late(v)
           \/ \A i \in DOMAIN txs' :
                /\ txs'[i].stored # Nil
                /\ txs'[i].stored = Imp!Fingerprint(txs'[i])
                => i \in DOMAIN txs /\ txs'[i] = txs[i]
    PROVE  /\ \A v \in Importer : FreshStands(v)'
           /\ \A v \in Importer : task'[v] # Nil => task'[v].id < impCount'.id
           /\ \A w, v \in Importer :
                w # v /\ task'[w] # Nil /\ task'[v] # Nil => task'[w].id # task'[v].id
<1>1. ASSUME NEW v \in Importer PROVE FreshStands(v)'
  <2> SUFFICES ASSUME task'[v] # Nil PROVE FreshStands(v)'
    BY DEF FreshStands
  <2>1. FreshStands(v)
    BY DEF ImpInv
  <2> QED  BY <2>1 DEF FreshStands, Imp!Fingerprint, Imp!Kept, Goes, Late
<1>2. ASSUME NEW v \in Importer, task'[v] # Nil PROVE task'[v].id < impCount'.id
  <2>1. task[v].id \in Nat /\ task[v].id < impCount.id /\ impCount.id \in Nat /\ task'[v].id = task[v].id
    BY <1>2 DEF Goes, ImpInv, IdsApart, Imp!TypeOK, Imp!Task
  <2> QED  BY <2>1
<1>3. ASSUME NEW w \in Importer, NEW v \in Importer, w # v, task'[w] # Nil, task'[v] # Nil
      PROVE  task'[w].id # task'[v].id
  BY <1>3 DEF Goes, ImpInv, IdsApart
<1> QED  BY <1>1, <1>2, <1>3

\* A step that writes no table.
LEMMA TablesAlone ==
    ASSUME ImpInv, Imp!TypeOK', UNCHANGED <<txs, batches>>,
           \A v \in Importer : FreshStands(v)',
           \A v \in Importer : task'[v] # Nil =>
             task'[v].id < impCount'.id /\ task'[v].id \notin DOMAIN batches,
           \A w, v \in Importer :
             w # v /\ task'[w] # Nil /\ task'[v] # Nil => task'[w].id # task'[v].id,
           impCount.id <= impCount'.id, impCount.edits <= impCount'.edits,
           Imp!ConflictHasCause', UNCHANGED gone \/ Imp!CategoriesExist'
    PROVE  ImpInv'
<1>1. /\ impCount.id \in Nat /\ impCount'.id \in Nat /\ impCount'.edits \in Nat
      /\ DOMAIN txs \subseteq Nat /\ DOMAIN batches \subseteq Nat
  BY DEF ImpInv, Imp!TypeOK
<1>2. IdsApart'
  BY <1>1 DEF ImpInv, IdsApart
<1>3. Imp!ImportedOnce'
  BY DEF ImpInv, Imp!ImportedOnce
<1>4. Imp!BatchAccounts'
  BY <1>1, BatchesStand
<1>5. Imp!CategoriesExist'
  BY DEF ImpInv, Imp!CategoriesExist
<1> QED  BY <1>2, <1>3, <1>4, <1>5 DEF ImpInv

LEMMA ImpReadCategories ==
    ASSUME ImpInv, NEW w \in Importer, NEW op \in {"preview", "commit"}, NEW f \in File,
           Imp!ReadCategories(w, op, f)
    PROVE  ImpInv'
<1> DEFINE x == [id |-> impCount.id, op |-> op, file |-> f, at |-> "candidates",
                 bad |-> {n \in DOMAIN f : ~ Imp!Candidate(f[n])}, fresh |-> {}, overtaken |-> FALSE]
<1>1. /\ impCount.id \in Nat /\ impCount.imports \in 0..MaxImports /\ impCount.imports < MaxImports
      /\ task' = [task EXCEPT ![w] = x]
      /\ impCount' = [impCount EXCEPT !.imports = @ + 1, !.id = @ + 1]
      /\ UNCHANGED <<txs, batches, closed, gone, replies>> /\ MaxImports \in Nat
  BY ServicesAssumption DEF Imp!ReadCategories, ImpInv, Imp!TypeOK
<1>2. DOMAIN f \subseteq Nat
  BY FileIs
<1>3. /\ x \in Imp!Task /\ x.id = impCount.id /\ x.file = f /\ x.at = "candidates"
      /\ x.bad \subseteq DOMAIN f /\ x.fresh = {}
      /\ \A n \in Imp!Kept(x) : Imp!Named(f[n]) \notin gone
  BY <1>1, <1>2 DEF Imp!Task, Imp!Kept, Imp!Candidate, ImpInv, Imp!TypeOK
<1> HIDE DEF x
<1>4. /\ task' \in [Importer -> Imp!Task \cup {Nil}] /\ task'[w] = x
      /\ \A v \in Importer \ {w} : task'[v] = task[v]
  BY <1>1, <1>3 DEF ImpInv, Imp!TypeOK
<1>5. /\ impCount' \in [imports : 0..MaxImports, edits : 0..MaxImpEdits, id : Nat]
      /\ impCount'.id = impCount.id + 1 /\ impCount'.edits = impCount.edits
  <2>1. impCount.imports + 1 \in 0..MaxImports /\ impCount.id + 1 \in Nat
    BY <1>1
  <2>2. impCount \in [imports : 0..MaxImports, edits : 0..MaxImpEdits, id : Nat]
    BY DEF ImpInv, Imp!TypeOK
  <2> QED  BY <1>1, <2>1, <2>2
<1>6. Imp!TypeOK'
  BY <1>1, <1>3, <1>4, <1>5 DEF ImpInv, Imp!TypeOK
<1>7. ASSUME NEW v \in Importer PROVE FreshStands(v)'
  <2>1. CASE v = w
    BY <1>1, <1>3, <1>4, <2>1 DEF FreshStands
  <2>2. CASE v # w
    BY <1>1, <1>4, <2>2 DEF ImpInv, FreshStands, Imp!Fingerprint, Imp!Kept
  <2> QED  BY <2>1, <2>2
<1>8. \A v \in Importer : task'[v] # Nil => task'[v].id < impCount'.id /\ task'[v].id \notin DOMAIN batches
  <2> TAKE v \in Importer
  <2>1. CASE v = w
    BY <1>1, <1>3, <1>4, <1>5, <2>1 DEF ImpInv, IdsApart, Imp!TypeOK
  <2>2. CASE v # w
    <3>1. task'[v] = task[v] /\ (task[v] # Nil => task[v].id \in Nat)
      BY <1>4, <2>2 DEF ImpInv, Imp!TypeOK, Imp!Task
    <3> QED  BY <1>1, <1>5, <3>1 DEF ImpInv, IdsApart
  <2> QED  BY <2>1, <2>2
<1>9. \A u, v \in Importer : u # v /\ task'[u] # Nil /\ task'[v] # Nil => task'[u].id # task'[v].id
  <2>1. \A v \in Importer : v # w /\ task[v] # Nil => task[v].id # x.id
    BY <1>1, <1>3 DEF ImpInv, IdsApart, Imp!TypeOK, Imp!Task
  <2> QED  BY <1>4, <2>1 DEF ImpInv, IdsApart
<1>10. impCount.edits \in Nat
  BY DEF ImpInv, Imp!TypeOK
<1>11. Imp!ConflictHasCause'
  BY <1>1 DEF ImpInv, Imp!ConflictHasCause
<1> QED  BY <1>1, <1>5, <1>6, <1>7, <1>8, <1>9, <1>10, <1>11, TablesAlone

Taken(t) == Imp!Fresh(t.file, Imp!Kept(t), Imp!Existing({t.file[n] : n \in Imp!Kept(t)}))

\* What a request takes for new is in no transaction of the account.
LEMMA FreshIsUnknown ==
    ASSUME ImpInv, NEW w \in Importer, task[w] # Nil
    PROVE  LET file == task[w].file  fresh == Taken(task[w]) IN
           /\ fresh \subseteq DOMAIN file \ task[w].bad
           /\ \A n \in fresh, i \in DOMAIN txs :
                /\ Imp!Fingerprint(txs[i]) # Imp!Fingerprint(file[n])
                /\ txs[i].stored = Imp!Fingerprint(txs[i]) => txs[i].stored # Imp!Fingerprint(file[n])
           /\ \A n, k \in fresh : n # k => Imp!Fingerprint(file[n]) # Imp!Fingerprint(file[k])
<1> DEFINE fresh == Taken(task[w])
<1>1. PICK file \in File : file = task[w].file
  BY TaskIs DEF ImpInv
<1>2. PICK kept : kept = Imp!Kept(task[w]) /\ kept \subseteq DOMAIN file /\ kept \cap task[w].bad = {}
  <2>1. Imp!Kept(task[w]) = DOMAIN file \ task[w].bad
    BY <1>1 DEF Imp!Kept
  <2> QED  BY <2>1
<1>3. PICK seen : seen = Imp!Existing({file[n] : n \in kept})
  OBVIOUS
<1>4. /\ fresh \subseteq kept
      /\ \A n \in fresh : Imp!Fingerprint(file[n]) \notin seen
      /\ \A n \in fresh, k \in kept : k < n => Imp!Fingerprint(file[k]) # Imp!Fingerprint(file[n])
  <2>1. fresh = Imp!Fresh(file, kept, seen)
    BY <1>1, <1>2, <1>3 DEF Taken
  <2> HIDE DEF fresh
  <2> QED  BY <2>1 DEF Imp!Fresh
<1> HIDE DEF fresh
<1>5. ASSUME NEW n \in fresh, NEW i \in DOMAIN txs
      PROVE  Imp!Fingerprint(txs[i]) # Imp!Fingerprint(file[n])
  <2> SUFFICES ASSUME Imp!Fingerprint(txs[i]) = Imp!Fingerprint(file[n]) PROVE FALSE
    OBVIOUS
  <2>1. n \in kept /\ n \in DOMAIN file
    BY <1>2, <1>4
  <2>2. txs[i].day = file[n].day
    BY DEF Imp!Fingerprint
  <2>3. file[n].day \in Nat
    BY <2>1, FileIs, ServicesAssumption
  <2>4. txs[i].day \in file[n].day..file[n].day
    BY <2>2, <2>3
  <2>5. Imp!Fingerprint(txs[i]) \in seen
    BY <1>3, <2>1, <2>4 DEF Imp!Existing
  <2> QED  BY <1>4, <2>5
<1>6. ASSUME NEW n \in fresh, NEW k \in fresh, n # k
      PROVE  Imp!Fingerprint(file[n]) # Imp!Fingerprint(file[k])
  <2>1. n \in Nat /\ k \in Nat
    BY <1>2, <1>4, FileIs
  <2>2. n < k \/ k < n
    BY <1>6, <2>1
  <2> QED  BY <1>4, <2>2
<1>7. \A i \in DOMAIN txs, n \in fresh :
        txs[i].stored = Imp!Fingerprint(txs[i]) => txs[i].stored # Imp!Fingerprint(file[n])
  BY <1>5
<1> QED  BY <1>1, <1>2, <1>4, <1>5, <1>6, <1>7 DEF fresh

LEMMA ImpReadTransactions ==
    ASSUME ImpInv, NEW w \in Importer, Imp!ReadTransactions(w) PROVE ImpInv'
<1> DEFINE t == task[w]
<1>1. PICK fresh : fresh = Taken(t)
  OBVIOUS
<1>2. /\ t # Nil /\ task' = [task EXCEPT ![w].at = "prepared", ![w].fresh = fresh]
      /\ UNCHANGED <<txs, batches, closed, gone, replies, impCount>>
  BY <1>1 DEF Imp!ReadTransactions, Taken
<1>3. /\ fresh \subseteq DOMAIN t.file \ t.bad
      /\ \A n \in fresh, i \in DOMAIN txs :
           txs[i].stored = Imp!Fingerprint(txs[i]) => txs[i].stored # Imp!Fingerprint(t.file[n])
      /\ \A n, k \in fresh : n # k => Imp!Fingerprint(t.file[n]) # Imp!Fingerprint(t.file[k])
  BY <1>1, <1>2, FreshIsUnknown
<1>4. t \in Imp!Task /\ t.file \in File /\ t.bad \subseteq DOMAIN t.file
  BY <1>2, TaskIs DEF ImpInv
<1>5. DOMAIN t.file \subseteq Nat
  BY <1>4, FileIs
<1>6. PICK x \in Imp!Task : /\ x = [t EXCEPT !.at = "prepared", !.fresh = fresh]
                            /\ x.id = t.id /\ x.file = t.file /\ x.bad = t.bad /\ x.fresh = fresh
                            /\ x.at = "prepared" /\ x.overtaken = t.overtaken
  <2>1. fresh \in SUBSET Nat
    BY <1>3, <1>5
  <2>2. [t EXCEPT !.at = "prepared", !.fresh = fresh] \in Imp!Task
    BY <1>4, <2>1 DEF Imp!Task
  <2> QED  BY <1>4, <2>2 DEF Imp!Task
<1>7. task' = [task EXCEPT ![w] = x]
  BY <1>2, <1>6 DEF ImpInv, Imp!TypeOK
<1>8. /\ task' \in [Importer -> Imp!Task \cup {Nil}] /\ task'[w] = x
      /\ \A v \in Importer \ {w} : task'[v] = task[v]
  BY <1>7 DEF ImpInv, Imp!TypeOK
<1>9. Imp!TypeOK'
  BY <1>2, <1>3, <1>4, <1>6, <1>8 DEF ImpInv, Imp!TypeOK
<1>10. ASSUME NEW v \in Importer PROVE FreshStands(v)'
  <2>1. CASE v = w
    <3>1. ~ x.overtaken => \A n \in Imp!Kept(x) : Imp!Named(x.file[n]) \notin gone
      BY <1>2, <1>6 DEF ImpInv, FreshStands, Imp!Kept
    <3> QED  BY <1>2, <1>3, <1>6, <1>8, <2>1, <3>1 DEF FreshStands, Imp!Fingerprint
  <2>2. CASE v # w
    BY <1>2, <1>8, <2>2 DEF ImpInv, FreshStands, Imp!Fingerprint, Imp!Kept
  <2> QED  BY <2>1, <2>2
<1>11. \A v \in Importer : task'[v] # Nil => task[v] # Nil /\ task'[v].id = task[v].id
  BY <1>2, <1>6, <1>8
<1>12. impCount.id \in Nat /\ impCount.edits \in Nat /\ impCount' = impCount
  BY <1>2 DEF ImpInv, Imp!TypeOK
<1>13. /\ \A v \in Importer : task'[v] # Nil => task'[v].id < impCount'.id /\ task'[v].id \notin DOMAIN batches
       /\ \A u, v \in Importer : u # v /\ task'[u] # Nil /\ task'[v] # Nil => task'[u].id # task'[v].id
  BY <1>11, <1>12 DEF ImpInv, IdsApart
<1>14. Imp!ConflictHasCause'
  BY <1>2 DEF ImpInv, Imp!ConflictHasCause
<1>15. impCount.id <= impCount'.id /\ impCount.edits <= impCount'.edits /\ UNCHANGED <<txs, batches, gone>>
  BY <1>2, <1>12
<1> QED  BY <1>9, <1>10, <1>13, <1>14, <1>15, TablesAlone

\* A reply: the worker is free again, and a commit overtakes the others.
LEMMA ReplyIs ==
    ASSUME ImpInv, NEW w \in Importer, task[w] # Nil,
           NEW outcome \in {"previewed", "blocked", "committed", "conflict"}, Imp!Reply(w, outcome)
    PROVE  /\ task' \in [Importer -> Imp!Task \cup {Nil}] /\ task'[w] = Nil
           /\ \A v \in Importer : Goes(v) /\ (outcome = "committed" => Late(v))
           /\ replies' \subseteq Imp!Answer
           /\ (outcome = "conflict" => Imp!Caused(task[w])) => Imp!ConflictHasCause'
<1> DEFINE answer == [id |-> task[w].id, op |-> task[w].op, outcome |-> outcome,
                      counts |-> Imp!Counts(task[w]), caused |-> Imp!Caused(task[w])]
           ws == IF outcome = "committed" THEN Importer ELSE {}
           seen == Imp!Overtaken(ws)
<1>1. replies' = replies \cup {answer} /\ task' = [seen EXCEPT ![w] = Nil]
  BY DEF Imp!Reply
<1>2. answer \in Imp!Answer
  <2>1. task[w] \in Imp!Task /\ Imp!Counts(task[w]) \in Imp!Count
    BY TaskIs DEF ImpInv
  <2>2. task[w].id \in Nat /\ task[w].op \in {"preview", "commit"} /\ task[w].overtaken \in BOOLEAN
    BY <2>1 DEF Imp!Task
  <2>3. Imp!Caused(task[w]) \in BOOLEAN
    BY <2>2 DEF Imp!Caused
  <2> QED  BY <2>1, <2>2, <2>3 DEF Imp!Answer
<1>3. /\ seen \in [Importer -> Imp!Task \cup {Nil}]
      /\ \A v \in Importer : seen[v] # Nil =>
           /\ task[v] # Nil
           /\ seen[v].id = task[v].id /\ seen[v].at = task[v].at
           /\ seen[v].file = task[v].file
           /\ seen[v].bad = task[v].bad /\ seen[v].fresh = task[v].fresh
           /\ task[v].overtaken \/ v \in ws => seen[v].overtaken
  BY OvertakenIs DEF ImpInv
<1> HIDE DEF seen
<1>4. ASSUME NEW v \in Importer
      PROVE  Goes(v) /\ (outcome = "committed" => Late(v))
  <2>1. CASE v = w
    BY <1>1, <1>3, <2>1 DEF Goes, Late
  <2>2. CASE v # w
    BY <1>1, <1>3, <2>2 DEF Goes, Late
  <2> QED  BY <2>1, <2>2
<1>5. ASSUME outcome = "conflict" => Imp!Caused(task[w]) PROVE Imp!ConflictHasCause'
  <2>1. answer.outcome = outcome /\ answer.caused = Imp!Caused(task[w])
    OBVIOUS
  <2> HIDE DEF answer
  <2> QED  BY <1>1, <1>5, <2>1 DEF ImpInv, Imp!ConflictHasCause
<1> HIDE DEF answer
<1>6. replies' \subseteq Imp!Answer
  BY <1>1, <1>2 DEF ImpInv, Imp!TypeOK
<1>7. task' \in [Importer -> Imp!Task \cup {Nil}] /\ task'[w] = Nil
  BY <1>1, <1>3
<1> QED  BY <1>4, <1>5, <1>6, <1>7

\* A reply that commits nothing.
LEMMA ImpReply ==
    ASSUME ImpInv, NEW w \in Importer, task[w] # Nil,
           NEW outcome \in {"previewed", "blocked", "conflict"}, Imp!Reply(w, outcome),
           outcome = "conflict" => Imp!Caused(task[w]),
           UNCHANGED <<txs, batches, closed, gone, impCount>>
    PROVE  ImpInv'
<1>1. /\ task' \in [Importer -> Imp!Task \cup {Nil}]
      /\ \A v \in Importer : Goes(v)
      /\ replies' \subseteq Imp!Answer /\ Imp!ConflictHasCause'
  <2>1. outcome # "committed" /\ outcome \in {"previewed", "blocked", "committed", "conflict"}
    OBVIOUS
  <2> QED  BY <2>1, ReplyIs
<1>2. Imp!TypeOK'
  BY <1>1 DEF ImpInv, Imp!TypeOK, Goes
<1>3. impCount.id \in Nat /\ impCount.edits \in Nat /\ impCount'.id = impCount.id /\ impCount'.edits = impCount.edits
  BY DEF ImpInv, Imp!TypeOK
<1>4. /\ \A v \in Importer : FreshStands(v)'
      /\ \A v \in Importer : task'[v] # Nil => task'[v].id < impCount'.id
      /\ \A u, v \in Importer : u # v /\ task'[u] # Nil /\ task'[v] # Nil => task'[u].id # task'[v].id
  BY <1>1, <1>3, TasksStand
<1>5. \A v \in Importer : task'[v] # Nil => task'[v].id \notin DOMAIN batches
  BY <1>1 DEF ImpInv, IdsApart, Goes
<1> QED  BY <1>1, <1>2, <1>3, <1>4, <1>5, TablesAlone

LEMMA ImpPreview == ASSUME ImpInv, NEW w \in Importer, Imp!Preview(w) \/ Imp!Block(w) PROVE ImpInv'
<1>1. /\ task[w] # Nil /\ UNCHANGED <<txs, batches, closed, gone, impCount>>
      /\ \E outcome \in {"previewed", "blocked"} : Imp!Reply(w, outcome)
  BY DEF Imp!Preview, Imp!Block
<1>2. PICK outcome \in {"previewed", "blocked"} : Imp!Reply(w, outcome)
  BY <1>1
<1> QED  BY <1>1, <1>2, ImpReply

\* A conflict is with an import that came between or that was edited, or with
\* the deletion of a category.
LEMMA ImpConflict ==
    ASSUME ImpInv, NEW w \in Importer, Imp!Commit(w),
           \/ ~ Imp!IndexHolds({Imp!Fingerprint(task[w].file[n]) : n \in task[w].fresh})
           \/ ~ Imp!CategoriesHold({task[w].file[n] : n \in task[w].fresh})
    PROVE  ImpInv'
<1>1. /\ task[w] # Nil /\ Imp!Reply(w, "conflict") /\ UNCHANGED <<txs, batches, closed, gone, impCount>>
  BY DEF Imp!Commit
<1>2. Imp!Caused(task[w])
  <2>1. CASE ~ Imp!IndexHolds({Imp!Fingerprint(task[w].file[n]) : n \in task[w].fresh})
    <3>1. PICK i \in DOMAIN txs, n \in task[w].fresh : txs[i].stored = Imp!Fingerprint(task[w].file[n])
      BY <2>1 DEF Imp!IndexHolds
    <3>2. txs[i].stored # Nil
      <4>1. task[w].file \in File /\ n \in DOMAIN task[w].file
        BY <1>1, TaskIs DEF ImpInv
      <4>2. Imp!Fingerprint(task[w].file[n]) \in Date \X What
        BY <4>1, FileIs
      <4> QED  BY <3>1, <4>2, ServicesAssumption
    <3> QED  BY <1>1, <3>1, <3>2 DEF Imp!Caused, ImpInv, FreshStands
  <2>2. CASE ~ Imp!CategoriesHold({task[w].file[n] : n \in task[w].fresh})
    <3>1. PICK n \in task[w].fresh : Imp!Named(task[w].file[n]) \in gone
      BY <2>2 DEF Imp!CategoriesHold
    <3>2. n \in Imp!Kept(task[w])
      BY <1>1 DEF ImpInv, Imp!TypeOK, Imp!Kept
    <3> QED  BY <1>1, <3>1, <3>2 DEF Imp!Caused, ImpInv, FreshStands
  <2> QED  BY <2>1, <2>2
<1> QED  BY <1>1, <1>2, ImpReply

-----------------------------------------------------------------------------
(* What changes the transactions *)

\* A step that writes the transactions and commits no batch.
LEMMA TxsWritten ==
    ASSUME ImpInv, Imp!TypeOK', UNCHANGED <<batches, gone, replies>>,
           \A v \in Importer : Goes(v),
           \/ \A v \in Importer : Late(v)
           \/ \A i \in DOMAIN txs' :
                /\ txs'[i].stored # Nil
                /\ txs'[i].stored = Imp!Fingerprint(txs'[i])
                => i \in DOMAIN txs /\ txs'[i] = txs[i],
           impCount'.id = impCount.id + 1,
           \A i \in DOMAIN txs' : i < impCount'.id,
           Imp!ImportedOnce', Imp!BatchAccounts', Imp!CategoriesExist'
    PROVE  ImpInv'
<1>1. impCount.id \in Nat /\ impCount'.id \in Nat /\ impCount.id <= impCount'.id
  BY DEF ImpInv, Imp!TypeOK
<1>2. /\ \A v \in Importer : FreshStands(v)'
      /\ \A v \in Importer : task'[v] # Nil => task'[v].id < impCount'.id
      /\ \A u, v \in Importer : u # v /\ task'[u] # Nil /\ task'[v] # Nil => task'[u].id # task'[v].id
  BY <1>1, TasksStand
<1>3. IdsApart'
  <2>1. \A b \in DOMAIN batches : b \in Nat /\ b < impCount.id
    BY DEF ImpInv, Imp!TypeOK, IdsApart
  <2>2. \A v \in Importer : task'[v] # Nil => task'[v].id \notin DOMAIN batches
    BY DEF ImpInv, IdsApart, Goes
  <2> QED  BY <1>1, <1>2, <2>1, <2>2 DEF IdsApart
<1>4. Imp!ConflictHasCause'
  BY DEF ImpInv, Imp!ConflictHasCause
<1> QED  BY <1>2, <1>3, <1>4 DEF ImpInv

\* The count of an edit.
LEMMA EditedIs ==
    ASSUME Imp!TypeOK, Imp!Edited
    PROVE  /\ impCount' \in [imports : 0..MaxImports, edits : 0..MaxImpEdits, id : Nat]
           /\ impCount.id \in Nat /\ impCount.edits \in Nat
           /\ impCount'.id = impCount.id + 1 /\ impCount'.edits = impCount.edits + 1
<1>1. /\ impCount \in [imports : 0..MaxImports, edits : 0..MaxImpEdits, id : Nat]
      /\ impCount.edits < MaxImpEdits /\ MaxImpEdits \in Nat
      /\ impCount' = [impCount EXCEPT !.edits = @ + 1, !.id = @ + 1]
  BY ServicesAssumption DEF Imp!TypeOK, Imp!Edited
<1>2. /\ impCount.edits \in Nat /\ impCount.edits + 1 \in 0..MaxImpEdits
      /\ impCount.id \in Nat /\ impCount.id + 1 \in Nat
  BY <1>1
<1>3. impCount' = [impCount EXCEPT !.edits = impCount.edits + 1, !.id = impCount.id + 1]
  BY <1>1
<1>4. impCount' \in [imports : 0..MaxImports, edits : 0..MaxImpEdits, id : Nat]
  BY <1>1, <1>2, <1>3
<1>5. impCount'.id = impCount.id + 1 /\ impCount'.edits = impCount.edits + 1
  BY <1>1, <1>3
<1> QED  BY <1>2, <1>4, <1>5

LEMMA ImpArchive ==
    ASSUME ImpInv, NEW c \in STRING, Imp!Archive(c) PROVE ImpInv'
<1>1. /\ impCount' \in [imports : 0..MaxImports, edits : 0..MaxImpEdits, id : Nat]
      /\ impCount.id \in Nat /\ impCount.edits \in Nat
      /\ impCount'.id = impCount.id + 1 /\ impCount'.edits = impCount.edits + 1
  BY EditedIs DEF Imp!Archive, ImpInv
<1>2. closed' = closed \cup {c} /\ UNCHANGED <<txs, batches, gone, task, replies>>
  BY DEF Imp!Archive
<1>3. Imp!TypeOK'
  BY <1>1, <1>2 DEF ImpInv, Imp!TypeOK
<1>4. \A v \in Importer : FreshStands(v)'
  BY <1>2 DEF ImpInv, FreshStands, Imp!Fingerprint, Imp!Kept
<1>5. \A v \in Importer : task[v] # Nil => task[v].id \in Nat
  BY DEF ImpInv, Imp!TypeOK, Imp!Task
<1>6. /\ \A v \in Importer : task'[v] # Nil => task'[v].id < impCount'.id /\ task'[v].id \notin DOMAIN batches
      /\ \A u, v \in Importer : u # v /\ task'[u] # Nil /\ task'[v] # Nil => task'[u].id # task'[v].id
  BY <1>1, <1>2, <1>5 DEF ImpInv, IdsApart
<1>7. Imp!ConflictHasCause'
  BY <1>2 DEF ImpInv, Imp!ConflictHasCause
<1>8. impCount.id <= impCount'.id /\ impCount.edits <= impCount'.edits /\ UNCHANGED <<txs, batches, gone>>
  BY <1>1, <1>2
<1> QED  BY <1>3, <1>4, <1>6, <1>7, <1>8, TablesAlone

\* The requests whose rows name the deleted category are overtaken.
LEMMA ImpDeleteCategory ==
    ASSUME ImpInv, NEW c \in STRING, Imp!DeleteCategory(c) PROVE ImpInv'
<1> DEFINE ws == {v \in Importer : task[v] # Nil
                    /\ \E n \in Imp!Kept(task[v]) : Imp!Named(task[v].file[n]) = c}
<1>1. /\ impCount' \in [imports : 0..MaxImports, edits : 0..MaxImpEdits, id : Nat]
      /\ impCount.id \in Nat /\ impCount.edits \in Nat
      /\ impCount'.id = impCount.id + 1 /\ impCount'.edits = impCount.edits + 1
  BY EditedIs DEF Imp!DeleteCategory, ImpInv
<1>2. /\ closed' = closed \cup {c} /\ gone' = gone \cup {c} /\ task' = Imp!Overtaken(ws)
      /\ \A i \in DOMAIN txs : txs[i].cat # c
      /\ UNCHANGED <<txs, batches, replies>>
  BY DEF Imp!DeleteCategory
<1>3. /\ task' \in [Importer -> Imp!Task \cup {Nil}]
      /\ \A v \in Importer : Goes(v) /\ (v \in ws => Late(v))
  BY <1>2, OvertakenIs DEF ImpInv, Goes, Late
<1>4. Imp!TypeOK'
  BY <1>1, <1>2, <1>3 DEF ImpInv, Imp!TypeOK, Goes
<1>5. ASSUME NEW v \in Importer PROVE FreshStands(v)'
  <2> SUFFICES ASSUME task'[v] # Nil PROVE FreshStands(v)'
    BY DEF FreshStands
  <2>1. task[v] # Nil /\ FreshStands(v) /\ Goes(v) /\ (v \in ws => task'[v].overtaken)
    BY <1>3 DEF ImpInv, Goes, Late
  <2>2. ASSUME ~ task'[v].overtaken, NEW n \in Imp!Kept(task[v])
        PROVE  Imp!Named(task[v].file[n]) \notin gone'
    BY <1>2, <2>1, <2>2 DEF FreshStands, Goes
  <2>3. Imp!Kept(task'[v]) = Imp!Kept(task[v])
    BY <2>1 DEF Goes, Imp!Kept
  <2> HIDE DEF ws
  <2> QED  BY <1>2, <2>1, <2>2, <2>3 DEF FreshStands, Goes, Imp!Fingerprint
<1> HIDE DEF ws
<1>6. \A v \in Importer : task[v] # Nil => task[v].id \in Nat
  BY DEF ImpInv, Imp!TypeOK, Imp!Task
<1>7. /\ \A v \in Importer : task'[v] # Nil => task'[v].id < impCount'.id /\ task'[v].id \notin DOMAIN batches
      /\ \A u, v \in Importer : u # v /\ task'[u] # Nil /\ task'[v] # Nil => task'[u].id # task'[v].id
  BY <1>1, <1>3, <1>6 DEF ImpInv, IdsApart, Goes
<1>8. Imp!ConflictHasCause' /\ Imp!CategoriesExist'
  BY <1>2 DEF ImpInv, Imp!ConflictHasCause, Imp!CategoriesExist
<1>9. impCount.id <= impCount'.id /\ impCount.edits <= impCount'.edits /\ UNCHANGED <<txs, batches>>
  BY <1>1, <1>2
<1> QED  BY <1>4, <1>5, <1>7, <1>8, <1>9, TablesAlone

LEMMA ImpEnter ==
    ASSUME ImpInv, NEW f \in File, Imp!Enter(f[1]) PROVE ImpInv'
<1> DEFINE x == [day |-> f[1].day, what |-> f[1].what, cat |-> Imp!Named(f[1]),
                 stored |-> Nil, batch |-> Nil]
<1>1. /\ impCount' \in [imports : 0..MaxImports, edits : 0..MaxImpEdits, id : Nat]
      /\ impCount.id \in Nat /\ impCount.edits \in Nat
      /\ impCount'.id = impCount.id + 1 /\ impCount'.edits = impCount.edits + 1
  BY EditedIs DEF Imp!Enter, ImpInv
<1>2. /\ txs' = [i \in DOMAIN txs \cup {impCount.id} |-> IF i \in DOMAIN txs THEN txs[i] ELSE x]
      /\ UNCHANGED <<batches, closed, gone, task, replies>>
  BY DEF Imp!Enter
<1>3. x \in Imp!Tx /\ x.stored = Nil /\ x.batch = Nil /\ x.cat \notin gone
  <2>1. Imp!Named(f[1]) \notin closed
    BY DEF Imp!Enter
  <2> QED  BY <2>1, FileIs DEF Imp!Tx, ImpInv, Imp!TypeOK
<1> HIDE DEF x
<1>4. impCount.id \notin DOMAIN txs
  BY <1>1 DEF ImpInv, IdsApart
<1>5. /\ DOMAIN txs' = DOMAIN txs \cup {impCount.id} /\ txs'[impCount.id] = x
      /\ \A i \in DOMAIN txs : txs'[i] = txs[i]
  BY <1>2, <1>4
<1>6. Imp!TypeOK'
  <2>1. txs' \in [DOMAIN txs' -> Imp!Tx]
    BY <1>2, <1>3, <1>5 DEF ImpInv, Imp!TypeOK
  <2>2. DOMAIN txs' \subseteq Nat
    BY <1>1, <1>5 DEF ImpInv, Imp!TypeOK
  <2>3. \A i \in DOMAIN txs' : txs'[i].batch \in DOMAIN batches \cup {Nil}
    BY <1>3, <1>5 DEF ImpInv, Imp!TypeOK
  <2> QED  BY <1>1, <1>2, <2>1, <2>2, <2>3 DEF ImpInv, Imp!TypeOK
<1>7. Imp!BatchAccounts'
  <2>1. ASSUME NEW b \in DOMAIN batches
        PROVE  {i \in DOMAIN txs' : txs'[i].batch = b} = {i \in DOMAIN txs : txs[i].batch = b}
    <3>1. b # Nil
      BY ServicesAssumption DEF ImpInv, Imp!TypeOK
    <3> QED  BY <1>3, <1>5, <3>1
  <2>2. impCount'.edits \in Nat /\ impCount.edits <= impCount'.edits /\ UNCHANGED batches
    BY <1>1, <1>2
  <2> QED  BY <2>1, <2>2, BatchesStand
<1>8. Imp!ImportedOnce'
  BY <1>3, <1>5 DEF ImpInv, Imp!ImportedOnce
<1>9. \A i \in DOMAIN txs' : i < impCount'.id
  BY <1>1, <1>5 DEF ImpInv, IdsApart, Imp!TypeOK
<1>10. \A v \in Importer : Goes(v)
  BY <1>2 DEF Goes
<1>11. \A i \in DOMAIN txs' : txs'[i].stored # Nil => i \in DOMAIN txs /\ txs'[i] = txs[i]
  BY <1>3, <1>5
<1>12. Imp!CategoriesExist'
  BY <1>2, <1>3, <1>5 DEF ImpInv, Imp!CategoriesExist
<1> QED  BY <1>1, <1>2, <1>6, <1>7, <1>8, <1>9, <1>10, <1>11, <1>12, TxsWritten

LEMMA ImpEdit ==
    ASSUME ImpInv, NEW k \in DOMAIN txs, NEW day \in Date, Imp!Edit(k, day) PROVE ImpInv'
<1>1. /\ impCount' \in [imports : 0..MaxImports, edits : 0..MaxImpEdits, id : Nat]
      /\ impCount.id \in Nat /\ impCount.edits \in Nat
      /\ impCount'.id = impCount.id + 1 /\ impCount'.edits = impCount.edits + 1
  BY EditedIs DEF Imp!Edit, ImpInv
<1>2. /\ txs' = [txs EXCEPT ![k] = [txs[k] EXCEPT !.day = day]]
      /\ task' = Imp!Overtaken(IF txs[k].stored # Nil THEN Importer ELSE {})
      /\ UNCHANGED <<batches, closed, gone, replies>>
  BY DEF Imp!Edit
<1>3. PICK x \in Imp!Tx : /\ x = [txs[k] EXCEPT !.day = day]
                          /\ x.stored = txs[k].stored /\ x.batch = txs[k].batch
                          /\ x.cat = txs[k].cat
  <2>1. txs[k] \in Imp!Tx
    BY DEF ImpInv, Imp!TypeOK
  <2>2. [txs[k] EXCEPT !.day = day] \in Imp!Tx
    BY <2>1 DEF Imp!Tx
  <2> QED  BY <2>1, <2>2 DEF Imp!Tx
<1>4. /\ DOMAIN txs' = DOMAIN txs /\ txs'[k] = x
      /\ \A i \in DOMAIN txs : i # k => txs'[i] = txs[i]
  BY <1>2, <1>3
<1>5. /\ task' \in [Importer -> Imp!Task \cup {Nil}]
      /\ \A v \in Importer : Goes(v)
      /\ txs[k].stored # Nil => \A v \in Importer : Late(v)
  BY <1>2, OvertakenIs DEF Goes, Late, ImpInv
<1>6. Imp!TypeOK'
  <2>1. txs' \in [DOMAIN txs' -> Imp!Tx] /\ DOMAIN txs' \subseteq Nat
    BY <1>2, <1>3, <1>4 DEF ImpInv, Imp!TypeOK
  <2>2. \A i \in DOMAIN txs' : txs'[i].batch \in DOMAIN batches \cup {Nil}
    BY <1>3, <1>4 DEF ImpInv, Imp!TypeOK
  <2>3. \A v \in Importer : task'[v] # Nil =>
          /\ task'[v].bad \cup task'[v].fresh \subseteq DOMAIN task'[v].file
          /\ task'[v].bad \cap task'[v].fresh = {}
    BY <1>5 DEF ImpInv, Imp!TypeOK, Goes
  <2> QED  BY <1>1, <1>2, <1>5, <2>1, <2>2, <2>3 DEF ImpInv, Imp!TypeOK
<1>7. Imp!BatchAccounts'
  <2>1. ASSUME NEW b \in DOMAIN batches
        PROVE  {i \in DOMAIN txs' : txs'[i].batch = b} = {i \in DOMAIN txs : txs[i].batch = b}
    BY <1>3, <1>4
  <2> QED  BY <1>1, <1>2, <2>1, BatchesStand
<1>8. Imp!ImportedOnce'
  BY <1>3, <1>4 DEF ImpInv, Imp!ImportedOnce
<1>9. \A i \in DOMAIN txs' : i < impCount'.id
  BY <1>1, <1>4 DEF ImpInv, IdsApart, Imp!TypeOK
<1>10. txs[k].stored = Nil =>
         \A i \in DOMAIN txs' : txs'[i].stored # Nil => i \in DOMAIN txs /\ txs'[i] = txs[i]
  BY <1>3, <1>4
<1>11. Imp!CategoriesExist'
  BY <1>2, <1>3, <1>4 DEF ImpInv, Imp!CategoriesExist
<1> QED  BY <1>1, <1>2, <1>5, <1>6, <1>7, <1>8, <1>9, <1>10, <1>11, TxsWritten

LEMMA ImpDelete ==
    ASSUME ImpInv, NEW k \in DOMAIN txs, Imp!Delete(k) PROVE ImpInv'
<1>1. /\ impCount' \in [imports : 0..MaxImports, edits : 0..MaxImpEdits, id : Nat]
      /\ impCount.id \in Nat /\ impCount.edits \in Nat
      /\ impCount'.id = impCount.id + 1 /\ impCount'.edits = impCount.edits + 1
  BY EditedIs DEF Imp!Delete, ImpInv
<1>2. txs' = [i \in DOMAIN txs \ {k} |-> txs[i]] /\ UNCHANGED <<batches, closed, gone, task, replies>>
  BY DEF Imp!Delete
<1>3. DOMAIN txs' = DOMAIN txs \ {k} /\ \A i \in DOMAIN txs' : txs'[i] = txs[i]
  BY <1>2
<1>4. Imp!TypeOK'
  <2>1. txs' \in [DOMAIN txs' -> Imp!Tx] /\ DOMAIN txs' \subseteq Nat
    BY <1>2, <1>3 DEF ImpInv, Imp!TypeOK
  <2> QED  BY <1>1, <1>2, <1>3, <2>1 DEF ImpInv, Imp!TypeOK
<1>5. Imp!BatchAccounts'
  <2>1. ASSUME NEW b \in DOMAIN batches
        PROVE  LET own == Cardinality({i \in DOMAIN txs' : txs'[i].batch = b}) IN
               /\ batches[b].total = batches[b].new + batches[b].dup
               /\ own <= batches[b].new /\ batches[b].new - own <= impCount'.edits
    <3> DEFINE Owned == {i \in DOMAIN txs : txs[i].batch = b}
               Left == {i \in DOMAIN txs' : txs'[i].batch = b}
    <3>1. IsFiniteSet(Owned)
      <4>1. Owned \in SUBSET Nat /\ \A i \in Owned : i <= impCount.id
        BY <1>1 DEF ImpInv, IdsApart, Imp!TypeOK
      <4> QED  BY <1>1, <4>1, FS_BoundedSetOfNaturals
    <3>2. Left = Owned \ {k}
      BY <1>3
    <3>3. batches[b].new \in Nat
      BY DEF ImpInv, Imp!TypeOK, Imp!Count
    <3>4. /\ batches[b].total = batches[b].new + batches[b].dup
          /\ Cardinality(Owned) <= batches[b].new
          /\ batches[b].new - Cardinality(Owned) <= impCount.edits
      BY SameCount DEF ImpInv, Imp!BatchAccounts
    <3> HIDE DEF Owned, Left
    <3>5. Cardinality(Owned) \in Nat
      BY <3>1, FS_CardinalityType
    <3>6. Cardinality(Left) = IF k \in Owned THEN Cardinality(Owned) - 1 ELSE Cardinality(Owned)
      BY <3>1, <3>2, FS_RemoveElement
    <3>7. /\ Cardinality(Left) <= batches[b].new
          /\ batches[b].new - Cardinality(Left) <= impCount'.edits
      BY <1>1, <3>3, <3>4, <3>5, <3>6
    <3> QED  BY <3>4, <3>7 DEF Left
  <2> QED  BY <1>2, <2>1, SameCount DEF Imp!BatchAccounts
<1>6. Imp!ImportedOnce'
  BY <1>3 DEF ImpInv, Imp!ImportedOnce
<1>7. \A i \in DOMAIN txs' : i < impCount'.id
  BY <1>1, <1>3 DEF ImpInv, IdsApart, Imp!TypeOK
<1>8. \A v \in Importer : Goes(v)
  BY <1>2 DEF Goes
<1>9. \A i \in DOMAIN txs' : i \in DOMAIN txs /\ txs'[i] = txs[i]
  BY <1>3
<1>10. Imp!CategoriesExist'
  BY <1>2, <1>3 DEF ImpInv, Imp!CategoriesExist
<1> QED  BY <1>1, <1>2, <1>4, <1>5, <1>6, <1>7, <1>8, <1>9, <1>10, TxsWritten

-----------------------------------------------------------------------------
(* A commit *)

\* The ids a commit draws are new, one for each row it inserts.
LEMMA NewIds ==
    ASSUME NEW id \in Nat, NEW m \in Nat, NEW fresh \in SUBSET (1..m)
    PROVE  LET ids == {id + n : n \in fresh} IN
           /\ IsFiniteSet(ids) /\ Cardinality(ids) = Cardinality(fresh)
           /\ \A i \in ids : i \in Nat /\ i > id /\ i < id + m + 1 /\ i - id \in fresh
<1> DEFINE ids == {id + n : n \in fresh}
           f == [n \in fresh |-> id + n]
<1>1. IsFiniteSet(fresh)
  <2>1. IsFiniteSet(1..m)
    BY FS_Interval
  <2> QED  BY <2>1, FS_Subset
<1>2. \A n \in fresh : n \in Nat /\ n >= 1 /\ n <= m
  OBVIOUS
<1>3. f \in Bijection(fresh, ids)
  <2>1. f \in [fresh -> ids]
    OBVIOUS
  <2>2. \A n, k \in fresh : f[n] = f[k] => n = k
    BY <1>2
  <2>3. \A i \in ids : \E n \in fresh : f[n] = i
    OBVIOUS
  <2> HIDE DEF f, ids
  <2>4. f \in Injection(fresh, ids)
    BY <2>1, <2>2 DEF Injection, IsInjective
  <2>5. f \in Surjection(fresh, ids)
    BY <2>1, <2>3 DEF Surjection
  <2> QED  BY <2>4, <2>5 DEF Bijection
<1>4. IsFiniteSet(ids) /\ Cardinality(ids) = Cardinality(fresh)
  <2>1. ExistsBijection(fresh, ids)
    BY <1>3 DEF ExistsBijection
  <2> HIDE DEF f, ids
  <2> QED  BY <1>1, <2>1, FS_Bijection
<1>5. \A i \in ids : i \in Nat /\ i > id /\ i < id + m + 1 /\ i - id \in fresh
  <2> TAKE i \in ids
  <2>1. PICK n \in fresh : i = id + n
    OBVIOUS
  <2>2. i - id = n
    BY <1>2, <2>1
  <2> QED  BY <1>2, <2>1, <2>2
<1> QED  BY <1>4, <1>5

LEMMA ImpCommitted ==
    ASSUME ImpInv, NEW w \in Importer, Imp!Commit(w),
           Imp!IndexHolds({Imp!Fingerprint(task[w].file[n]) : n \in task[w].fresh}),
           Imp!CategoriesHold({task[w].file[n] : n \in task[w].fresh})
    PROVE  ImpInv'
<1>1. PICK t \in Imp!Task : t = task[w] /\ t # Nil
  <2>1. task[w] # Nil
    BY DEF Imp!Commit
  <2> QED  BY <2>1, TaskIs DEF ImpInv
<1>2. /\ t.file \in File /\ t.bad = {} /\ t.fresh \subseteq DOMAIN t.file
      /\ IsFiniteSet(t.fresh) /\ Cardinality(t.fresh) \in Nat
      /\ Imp!Counts(t) \in Imp!Count /\ Imp!Counts(t).new = Cardinality(t.fresh)
      /\ Imp!Counts(t).total = Imp!Counts(t).new + Imp!Counts(t).dup
  <2>1. t.bad = {}
    BY <1>1 DEF Imp!Commit
  <2> QED  BY <1>1, <2>1, TaskIs DEF ImpInv
<1>3. DOMAIN t.file = 1..Len(t.file) /\ Len(t.file) \in Nat
  BY <1>2, FileIs
<1>4. /\ impCount \in [imports : 0..MaxImports, edits : 0..MaxImpEdits, id : Nat]
      /\ impCount.id \in Nat /\ impCount.edits \in Nat
  BY DEF ImpInv, Imp!TypeOK
<1>5. PICK ids : ids = {impCount.id + n : n \in t.fresh}
  OBVIOUS
<1>6. /\ IsFiniteSet(ids) /\ Cardinality(ids) = Cardinality(t.fresh)
      /\ \A i \in ids : /\ i \in Nat /\ i > impCount.id /\ i < impCount.id + Len(t.file) + 1
                        /\ i - impCount.id \in t.fresh
  <2>1. t.fresh \in SUBSET (1..Len(t.file))
    BY <1>2, <1>3
  <2> QED  BY <1>3, <1>4, <1>5, <2>1, NewIds
<1> DEFINE row(n) == [day |-> t.file[n].day, what |-> t.file[n].what, cat |-> Imp!Named(t.file[n]),
                      stored |-> Imp!Fingerprint(t.file[n]), batch |-> t.id]
<1>7. /\ batches' = [b \in DOMAIN batches \cup {t.id} |-> IF b = t.id THEN Imp!Counts(t) ELSE batches[b]]
      /\ txs' = [i \in DOMAIN txs \cup ids |->
                   IF i \in DOMAIN txs THEN txs[i] ELSE row(i - impCount.id)]
      /\ impCount' = [impCount EXCEPT !.id = impCount.id + Len(t.file) + 1]
      /\ Imp!Reply(w, "committed") /\ UNCHANGED <<closed, gone>>
  BY <1>1, <1>5 DEF Imp!Commit, Imp!BatchOf
<1>8. ASSUME NEW n \in t.fresh
      PROVE  /\ row(n) \in Imp!Tx /\ row(n).batch = t.id /\ row(n).stored # Nil
             /\ row(n).stored = Imp!Fingerprint(t.file[n])
             /\ \A i \in DOMAIN txs : txs[i].stored # row(n).stored
             /\ row(n).cat \notin gone
  <2>1. n \in DOMAIN t.file /\ t.id \in Nat
    BY <1>1, <1>2 DEF Imp!Task
  <2>2. /\ t.file[n].day \in Date /\ t.file[n].what \in What
        /\ Imp!Fingerprint(t.file[n]) \in Date \X What /\ Imp!Named(t.file[n]) \in STRING
    BY <1>2, <2>1, FileIs
  <2>3. Imp!Fingerprint(t.file[n]) # Nil
    BY <2>2, ServicesAssumption
  <2>4. row(n) \in Imp!Tx
    BY <2>1, <2>2 DEF Imp!Tx
  <2>5. \A i \in DOMAIN txs : txs[i].stored # Imp!Fingerprint(t.file[n])
    BY <1>1 DEF Imp!IndexHolds
  <2>6. Imp!Named(t.file[n]) \notin gone
    BY <1>1 DEF Imp!CategoriesHold
  <2> QED  BY <2>3, <2>4, <2>5, <2>6
<1> HIDE DEF row
<1>9. \A i \in ids : i \notin DOMAIN txs
  BY <1>4, <1>6 DEF ImpInv, IdsApart, Imp!TypeOK
<1>10. /\ DOMAIN txs' = DOMAIN txs \cup ids
       /\ \A i \in DOMAIN txs : txs'[i] = txs[i]
       /\ \A i \in ids : txs'[i] = row(i - impCount.id)
  BY <1>7, <1>9
<1>11. t.id \in Nat /\ t.id \notin DOMAIN batches /\ t.id # Nil /\ t.id < impCount.id
  BY <1>1, ServicesAssumption DEF ImpInv, IdsApart, Imp!Task
<1>12. /\ DOMAIN batches' = DOMAIN batches \cup {t.id} /\ batches'[t.id] = Imp!Counts(t)
       /\ \A b \in DOMAIN batches : batches'[b] = batches[b]
  BY <1>7, <1>11
<1>13. /\ impCount' \in [imports : 0..MaxImports, edits : 0..MaxImpEdits, id : Nat]
       /\ impCount'.id = impCount.id + Len(t.file) + 1 /\ impCount'.id \in Nat
       /\ impCount.id <= impCount'.id /\ impCount'.edits = impCount.edits
  <2>1. impCount.id + Len(t.file) + 1 \in Nat
    BY <1>3, <1>4
  <2>2. impCount' \in [imports : 0..MaxImports, edits : 0..MaxImpEdits, id : Nat]
    BY <1>4, <1>7, <2>1
  <2>3. impCount'.id = impCount.id + Len(t.file) + 1 /\ impCount'.edits = impCount.edits
    BY <1>4, <1>7
  <2> QED  BY <1>3, <1>4, <2>1, <2>2, <2>3
<1>14. /\ task' \in [Importer -> Imp!Task \cup {Nil}] /\ task'[w] = Nil
       /\ \A v \in Importer : Goes(v) /\ Late(v)
       /\ replies' \subseteq Imp!Answer /\ Imp!ConflictHasCause'
  <2>1. task[w] # Nil /\ "committed" \in {"previewed", "blocked", "committed", "conflict"}
    BY <1>1
  <2>2. "committed" # "conflict"
    OBVIOUS
  <2> QED  BY <1>7, <2>1, <2>2, ReplyIs
<1>15. Imp!TypeOK'
  <2>1. DOMAIN txs' \subseteq Nat
    BY <1>6, <1>10 DEF ImpInv, Imp!TypeOK
  <2>2. \A i \in DOMAIN txs' : txs'[i] \in Imp!Tx /\ txs'[i].batch \in DOMAIN batches' \cup {Nil}
    <3> TAKE i \in DOMAIN txs'
    <3>1. CASE i \in DOMAIN txs
      BY <1>10, <1>12, <3>1 DEF ImpInv, Imp!TypeOK
    <3>2. CASE i \in ids
      BY <1>6, <1>8, <1>10, <1>12, <3>2
    <3> QED  BY <1>10, <3>1, <3>2
  <2>3. txs' \in [DOMAIN txs' -> Imp!Tx]
    BY <1>7, <2>2
  <2>4. \A b \in DOMAIN batches' : batches'[b] \in Imp!Count
    BY <1>2, <1>12 DEF ImpInv, Imp!TypeOK
  <2>5. batches' \in [DOMAIN batches' -> Imp!Count] /\ DOMAIN batches' \subseteq Nat
    BY <1>7, <1>11, <1>12, <2>4 DEF ImpInv, Imp!TypeOK
  <2>6. \A v \in Importer : task'[v] # Nil =>
          /\ task'[v].bad \cup task'[v].fresh \subseteq DOMAIN task'[v].file
          /\ task'[v].bad \cap task'[v].fresh = {}
    BY <1>14 DEF ImpInv, Imp!TypeOK, Goes
  <2> QED  BY <1>7, <1>13, <1>14, <2>1, <2>2, <2>3, <2>5, <2>6 DEF ImpInv, Imp!TypeOK
<1>16. Imp!ImportedOnce'
  <2> SUFFICES ASSUME NEW i \in DOMAIN txs', NEW k \in DOMAIN txs',
                      txs'[i].stored # Nil, txs'[i].stored = txs'[k].stored
               PROVE  i = k
    BY DEF Imp!ImportedOnce
  <2>1. CASE i \in DOMAIN txs /\ k \in DOMAIN txs
    BY <1>10, <2>1 DEF ImpInv, Imp!ImportedOnce
  <2>2. CASE i \in DOMAIN txs /\ k \in ids
    BY <1>6, <1>8, <1>10, <2>2
  <2>3. CASE i \in ids /\ k \in DOMAIN txs
    BY <1>6, <1>8, <1>10, <2>3
  <2>4. CASE i \in ids /\ k \in ids
    <3>1. PICK n \in t.fresh, m \in t.fresh : n = i - impCount.id /\ m = k - impCount.id
      BY <1>6, <2>4
    <3>2. Imp!Fingerprint(t.file[n]) = Imp!Fingerprint(t.file[m])
      BY <1>8, <1>10, <2>4, <3>1
    <3>3. n = m
      BY <1>1, <3>2 DEF ImpInv, FreshStands
    <3> QED  BY <1>4, <1>6, <2>4, <3>1, <3>3
  <2> QED  BY <1>10, <2>1, <2>2, <2>3, <2>4
<1>17. Imp!BatchAccounts'
  <2> SUFFICES ASSUME NEW b \in DOMAIN batches'
               PROVE  LET own == Cardinality({i \in DOMAIN txs' : txs'[i].batch = b}) IN
                      /\ batches'[b].total = batches'[b].new + batches'[b].dup
                      /\ own <= batches'[b].new /\ batches'[b].new - own <= impCount'.edits
    BY SameCount DEF Imp!BatchAccounts
  <2>1. ASSUME b = t.id
        PROVE  {i \in DOMAIN txs' : txs'[i].batch = b} = ids
    <3>1. \A i \in DOMAIN txs : txs'[i].batch # b
      BY <1>10, <1>11, <2>1 DEF ImpInv, Imp!TypeOK
    <3>2. \A i \in ids : txs'[i].batch = b
      BY <1>6, <1>8, <1>10, <2>1
    <3> QED  BY <1>10, <3>1, <3>2
  <2>2. ASSUME b # t.id
        PROVE  {i \in DOMAIN txs' : txs'[i].batch = b} = {i \in DOMAIN txs : txs[i].batch = b}
    <3>1. \A i \in ids : txs'[i].batch # b
      BY <1>6, <1>8, <1>10, <2>2
    <3> QED  BY <1>10, <3>1
  <2>3. CASE b = t.id
    <3>1. PICK count \in Imp!Count : count = Imp!Counts(t) /\ batches'[b] = count
      BY <1>2, <1>12, <2>3
    <3>2. PICK own \in Nat : /\ own = Cardinality({i \in DOMAIN txs' : txs'[i].batch = b})
                             /\ own = count.new
      BY <1>2, <1>6, <2>1, <2>3, <3>1
    <3>3. count.total = count.new + count.dup
      BY <1>2, <3>1
    <3> QED  BY <1>4, <1>13, <3>1, <3>2, <3>3
  <2>4. CASE b # t.id
    <3>1. b \in DOMAIN batches /\ batches'[b] = batches[b]
      BY <1>12, <2>4
    <3>2. PICK own : own = Cardinality({i \in DOMAIN txs : txs[i].batch = b})
      OBVIOUS
    <3>3. /\ batches[b].total = batches[b].new + batches[b].dup
          /\ own <= batches[b].new /\ batches[b].new - own <= impCount.edits
      BY <3>1, <3>2, SameCount DEF ImpInv, Imp!BatchAccounts
    <3>4. own = Cardinality({i \in DOMAIN txs' : txs'[i].batch = b})
      BY <2>2, <2>4, <3>2
    <3> QED  BY <1>13, <3>1, <3>3, <3>4
  <2> QED  BY <2>3, <2>4
<1>18. IdsApart' /\ \A v \in Importer : FreshStands(v)'
  <2>1. /\ \A v \in Importer : FreshStands(v)'
        /\ \A v \in Importer : task'[v] # Nil => task'[v].id < impCount'.id
        /\ \A u, v \in Importer : u # v /\ task'[u] # Nil /\ task'[v] # Nil => task'[u].id # task'[v].id
    BY <1>4, <1>7, <1>13, <1>14, TasksStand
  <2>2. \A i \in DOMAIN txs' : i < impCount'.id
    BY <1>3, <1>4, <1>6, <1>10, <1>13 DEF ImpInv, IdsApart, Imp!TypeOK
  <2>3. \A b \in DOMAIN batches' : b < impCount'.id
    BY <1>4, <1>11, <1>12, <1>13 DEF ImpInv, IdsApart, Imp!TypeOK
  <2>4. \A v \in Importer : task'[v] # Nil => task'[v].id \notin DOMAIN batches'
    <3> TAKE v \in Importer
    <3>1. task'[v] # Nil => v # w /\ task[v] # Nil /\ task'[v].id = task[v].id
      BY <1>14 DEF Goes
    <3> QED  BY <1>1, <1>12, <3>1 DEF ImpInv, IdsApart
  <2> QED  BY <2>1, <2>2, <2>3, <2>4 DEF IdsApart
<1>19. Imp!CategoriesExist'
  BY <1>6, <1>7, <1>8, <1>10 DEF ImpInv, Imp!CategoriesExist
<1> QED  BY <1>14, <1>15, <1>16, <1>17, <1>18, <1>19 DEF ImpInv

-----------------------------------------------------------------------------

LEMMA ImpStep == ImpInv /\ (Imp!Next \/ UNCHANGED Imp!impVars) => ImpInv'
<1> SUFFICES ASSUME ImpInv, Imp!Next \/ UNCHANGED Imp!impVars PROVE ImpInv'
  OBVIOUS
<1>1. ASSUME NEW w \in Importer, NEW op \in {"preview", "commit"}, NEW f \in File,
             Imp!ReadCategories(w, op, f)
      PROVE  ImpInv'
  BY <1>1, ImpReadCategories
<1>2. ASSUME NEW w \in Importer, Imp!ReadTransactions(w) PROVE ImpInv'
  BY <1>2, ImpReadTransactions
<1>3. ASSUME NEW w \in Importer, Imp!Preview(w) \/ Imp!Block(w) PROVE ImpInv'
  BY <1>3, ImpPreview
<1>4. ASSUME NEW w \in Importer, Imp!Commit(w) PROVE ImpInv'
  BY <1>4, ImpConflict, ImpCommitted
<1>5. ASSUME NEW i \in DOMAIN txs, Imp!Delete(i) PROVE ImpInv'
  BY <1>5, ImpDelete
<1>6. ASSUME NEW i \in DOMAIN txs, NEW day \in Date, Imp!Edit(i, day) PROVE ImpInv'
  BY <1>6, ImpEdit
<1>7. ASSUME NEW f \in File, Imp!Enter(f[1]) PROVE ImpInv'
  BY <1>7, ImpEnter
<1>8. ASSUME NEW f \in File, Imp!Archive(Imp!Named(f[1])) PROVE ImpInv'
  <2>1. Imp!Named(f[1]) \in STRING
    BY FileIs
  <2> QED  BY <1>8, <2>1, ImpArchive
<1>9. ASSUME NEW f \in File, Imp!DeleteCategory(Imp!Named(f[1])) PROVE ImpInv'
  <2>1. Imp!Named(f[1]) \in STRING
    BY FileIs
  <2> QED  BY <1>9, <2>1, ImpDeleteCategory
<1>10. CASE UNCHANGED Imp!impVars
  <2>1. Imp!TypeOK'
    BY <1>10 DEF Imp!impVars, ImpInv, Imp!TypeOK
  <2>2. IdsApart' /\ \A w \in Importer : FreshStands(w)'
    BY <1>10 DEF Imp!impVars, ImpInv, IdsApart, FreshStands, Imp!Fingerprint, Imp!Kept
  <2>3. Imp!ImportedOnce' /\ Imp!BatchAccounts' /\ Imp!CategoriesExist' /\ Imp!ConflictHasCause'
    BY <1>10 DEF Imp!impVars, ImpInv, Imp!ImportedOnce, Imp!BatchAccounts, Imp!CategoriesExist,
                 Imp!ConflictHasCause
  <2> QED  BY <2>1, <2>2, <2>3 DEF ImpInv
<1> QED  BY <1>1, <1>2, <1>3, <1>4, <1>5, <1>6, <1>7, <1>8, <1>9, <1>10 DEF Imp!Next


\* A reply or an edit moves no other request on.
LEMMA OvertakenAt ==
    ASSUME Imp!TypeOK, NEW w \in Importer, task[w] # Nil, NEW v \in Importer, NEW ws,
           task' = Imp!Overtaken(ws) \/ (v # w /\ task' = [Imp!Overtaken(ws) EXCEPT ![v] = Nil])
    PROVE  task'[w].at = task[w].at
<1>1. PICK t \in Imp!Task : t = task[w]
  BY DEF Imp!TypeOK
<1>2. Imp!Overtaken(ws)[w] = t \/ Imp!Overtaken(ws)[w] = [t EXCEPT !.overtaken = TRUE]
  BY <1>1 DEF Imp!Overtaken
<1>3. [t EXCEPT !.overtaken = TRUE].at = t.at
  BY DEF Imp!Task
<1>4. DOMAIN Imp!Overtaken(ws) = Importer
  BY DEF Imp!Overtaken
<1>5. task'[w] = Imp!Overtaken(ws)[w]
  BY <1>4
<1> QED  BY <1>1, <1>2, <1>3, <1>5

\* What a request takes for new is in no transaction at the step it is taken.
LEMMA NewAreUnknown ==
    ASSUME ImpInv, Imp!Next \/ UNCHANGED Imp!impVars,
           NEW w \in Importer, task[w] # Nil, task[w].at = "candidates", task'[w].at = "prepared",
           NEW n \in task'[w].fresh, NEW i \in DOMAIN txs
    PROVE  Imp!Fingerprint(txs[i]) # Imp!Fingerprint(task[w].file[n])
<1>1. task \in [Importer -> Imp!Task \cup {Nil}] /\ Imp!TypeOK /\ "candidates" # "prepared"
  BY DEF ImpInv, Imp!TypeOK
<1>2. task' # task
  BY <1>1
<1>3. ASSUME NEW v \in Importer, NEW op \in {"preview", "commit"}, NEW f \in File,
             Imp!ReadCategories(v, op, f)
      PROVE  FALSE
  <2>1. v # w
    BY <1>3 DEF Imp!ReadCategories
  <2>2. task'[w] = task[w]
    BY <1>1, <1>3, <2>1 DEF Imp!ReadCategories
  <2> QED  BY <1>1, <2>2
<1>4. ASSUME NEW v \in Importer, NEW outcome \in {"previewed", "blocked", "committed", "conflict"},
             task[v].at = "prepared", Imp!Reply(v, outcome)
      PROVE  FALSE
  <2>1. v # w
    BY <1>1, <1>4
  <2>2. PICK ws : ws = IF outcome = "committed" THEN Importer ELSE {}
    OBVIOUS
  <2>3. task' = [Imp!Overtaken(ws) EXCEPT ![v] = Nil]
    BY <1>4, <2>2 DEF Imp!Reply
  <2> QED  BY <1>1, <2>1, <2>3, OvertakenAt
<1>5. ASSUME NEW v \in Importer, Imp!Preview(v) \/ Imp!Block(v) \/ Imp!Commit(v) PROVE FALSE
  <2>1. task[v].at = "prepared"
    BY <1>5 DEF Imp!Preview, Imp!Block, Imp!Commit
  <2>2. \E outcome \in {"previewed", "blocked", "committed", "conflict"} : Imp!Reply(v, outcome)
    BY <1>5 DEF Imp!Preview, Imp!Block, Imp!Commit
  <2> QED  BY <1>4, <2>1, <2>2
<1>6. ASSUME NEW k \in DOMAIN txs, NEW day \in Date, Imp!Edit(k, day) PROVE FALSE
  <2>1. PICK ws : ws = IF txs[k].stored # Nil THEN Importer ELSE {}
    OBVIOUS
  <2>2. task' = Imp!Overtaken(ws)
    BY <1>6, <2>1 DEF Imp!Edit
  <2> QED  BY <1>1, <2>2, OvertakenAt
<1>10. ASSUME NEW c, Imp!DeleteCategory(c) PROVE FALSE
  <2>1. PICK ws : task' = Imp!Overtaken(ws)
    BY <1>10 DEF Imp!DeleteCategory
  <2> QED  BY <1>1, <2>1, OvertakenAt
<1>7. PICK v \in Importer : Imp!ReadTransactions(v)
  BY <1>2, <1>3, <1>5, <1>6, <1>10
     DEF Imp!Next, Imp!impVars, Imp!Delete, Imp!Enter, Imp!Archive
<1>8. v = w
  BY <1>1, <1>7 DEF Imp!ReadTransactions
<1>9. task'[w].fresh = Taken(task[w])
  <2>1. PICK fresh : fresh = Taken(task[w])
    OBVIOUS
  <2>2. task' = [task EXCEPT ![w].at = "prepared", ![w].fresh = fresh]
    BY <1>7, <1>8, <2>1 DEF Imp!ReadTransactions, Taken
  <2>3. PICK t \in Imp!Task : t = task[w]
    BY <1>1
  <2>4. task'[w] = [t EXCEPT !.at = "prepared", !.fresh = fresh]
    BY <1>1, <2>2, <2>3
  <2>5. [t EXCEPT !.at = "prepared", !.fresh = fresh].fresh = fresh
    BY DEF Imp!Task
  <2> QED  BY <2>1, <2>4, <2>5
<1> QED  BY <1>9, FreshIsUnknown

-----------------------------------------------------------------------------
(* The composition *)

\* Every request to synchronize that was answered well was served by a run that
\* started after it, and nobody waits for a run that will not come
\* (syncCoordinator.ts): for any number of requests and switches.
THEOREM RequestsAnswered == Spec => []SyncRunsSafe
<1> DEFINE I == component = "runs" => RunInv
<1>1. Init => I
  BY RunInit DEF Init
<1>2. I /\ [Next]_vars => I'
  <2> SUFFICES ASSUME I, [Next]_vars, component' = "runs" PROVE RunInv'
    OBVIOUS
  <2>1. CASE component = "runs" /\ Run!Next
    BY <2>1, RunStep
  <2>2. CASE UNCHANGED <<component, runsVars>>
    BY <2>2 DEF runsVars, RunInv, RunType, WaitersCovered, Run!Made, Run!SyncRunsSafe,
         Run!ResolvedIsServed, Run!WaitingIsServed
  <2>3. (component = "runs" /\ Run!Next) \/ UNCHANGED <<component, runsVars>>
    BY DEF Next, vars
  <2> QED  BY <2>1, <2>2, <2>3
<1>3. I => SyncRunsSafe
  BY DEF RunInv, SyncRunsSafe
<1> QED  BY <1>1, <1>2, <1>3, PTL DEF Spec

\* Wherever the process dies during the start of the database, the data of the
\* earlier version is in one of the two files, and the application opens on all
\* of it or not at all (database.ts): for any number of deaths.
THEOREM DataKept == Spec => []MigrationSafe
<1> DEFINE I == component = "migration" => MigInv
<1>1. Init => I
  BY MigInit DEF Init
<1>2. I /\ [Next]_vars => I'
  <2> SUFFICES ASSUME I, [Next]_vars, component' = "migration" PROVE MigInv'
    OBVIOUS
  <2>1. CASE component = "migration" /\ Mig!Next
    BY <2>1, MigStep
  <2>2. CASE UNCHANGED <<component, migrationVars>>
    BY <2>2 DEF migrationVars, MigInv, MigType, Untouched, MarkerIsCopy, StepsStand
  <2>3. (component = "migration" /\ Mig!Next) \/ UNCHANGED <<component, migrationVars>>
    BY DEF Next, vars
  <2> QED  BY <2>1, <2>2, <2>3
<1>3. I => MigrationSafe
  BY MigSafe DEF MigrationSafe
<1> QED  BY <1>1, <1>2, <1>3, PTL DEF Spec
\* Whatever scans overlap, with each other and with reviews, none fails on
\* another's finding, the newest evidence stands but for what was reviewed since,
\* and a dismissal stays until a review or a scan that had read before it
\* (financial_intelligence.py): for any number of fingerprints, scans and reviews.
THEOREM FindingsStand == Spec => FindingsSafe
<1> DEFINE Kept ==
      \A f \in Fp :
        findings[f] # Nil /\ findings[f].status = "dismissed" /\ findings'[f] # findings[f] =>
           \/ \E r \in Reviewer : review[r] # Nil /\ review[r].of = f /\ review'[r] = Nil
           \/ \E s \in Scanner : scan[s] # Nil /\ scan'[s] = Nil /\ f \in scan[s].since
<1>1. Init => FndInv
  BY FndInit DEF Init
<1>2. [Next]_vars => Fnd!Next \/ UNCHANGED findingsVars
  BY DEF Next, vars
<1>3. FndInv /\ [Next]_vars => FndInv'
  <2>1. FndInv /\ UNCHANGED findingsVars => FndInv'
    BY DEF findingsVars, FndInv, Fnd!TypeOK, ActorsStand, ScanStands, Fnd!ScansNeverCollide,
       Fnd!LatestEvidenceStands
  <2> QED  BY <1>2, <2>1, FndStep
<1>4. FndInv /\ [Next]_vars => [Kept]_(Fnd!fndVars)
  <2>1. FndInv /\ Fnd!Next => Kept
    BY DismissalKept
  <2>2. UNCHANGED findingsVars => UNCHANGED Fnd!fndVars
    BY DEF findingsVars, Fnd!fndVars
  <2> QED  BY <1>2, <2>1, <2>2
<1>5. FndInv => Fnd!TypeOK /\ Fnd!ScansNeverCollide /\ Fnd!LatestEvidenceStands
  BY DEF FndInv
<1> QED  BY <1>1, <1>3, <1>4, <1>5, PTL DEF Spec, FindingsSafe, Fnd!FindingsSafe, Fnd!DismissalStands

\* What the user last chose for a merchant is suggested as long as it stands, and
\* a decision is credited to the history only if another transaction had taught
\* it (category_suggestion_service.py): for any number of transactions, merchants,
\* categories and decisions looked at.
THEOREM SuggestionsStand == Spec => SuggestionsSafe
<1> DEFINE Taught ==
      \A t \in Txn :
        Sug!Decided(t) /\ feedback'[t].source = "user_history" =>
            \E u \in Txn \ {t} : feedback[u] # Nil /\ feedback[u].selected = feedback'[t].suggested
<1>1. Init => SugInv
  BY SugInit DEF Init
<1>2. [Next]_vars => Sug!Next \/ UNCHANGED suggestionsVars
  BY DEF Next, vars
<1>3. SugInv /\ [Next]_vars => SugInv'
  <2>1. SugInv /\ UNCHANGED suggestionsVars => SugInv'
    BY DEF suggestionsVars, SugInv, SugType, ChoiceStands
  <2> QED  BY <1>2, <2>1, SugStep
<1>4. SugInv /\ [Next]_vars => [Taught]_(Sug!suggVars)
  <2>1. SugInv /\ Sug!Next => Taught
    BY TaughtByOther
  <2>2. UNCHANGED suggestionsVars => UNCHANGED Sug!suggVars
    BY DEF suggestionsVars, Sug!suggVars
  <2> QED  BY <1>2, <2>1, <2>2
<1>5. SugInv => Sug!LatestChoiceOffered
  BY StandingIsOffered DEF Sug!LatestChoiceOffered
<1> QED  BY <1>1, <1>3, <1>4, <1>5, PTL DEF Spec, SuggestionsSafe, Sug!SuggestionsSafe, Sug!HistoryIsOthers

\* Categories are safe under every interleaving of the web's requests and the
\* push workers: names are held once, no transaction is left in a deleted
\* category, and a push commits over the version it declared and over no use
\* it did not see.
THEOREM CategoriesStand == Spec => CategoriesSafe
<1> DEFINE Declared ==
      \A w \in CatWorker : Cat!PushCommit(w) =>
        LET r == catTask[w].req IN
        catRows[r.cat] # Nil => catRows[r.cat].ver = r.base
    Spared ==
      \A w \in CatWorker : Cat!PushCommit(w) =>
        LET r == catTask[w].req  new == catTask[w].row IN
        catRows[r.cat] # Nil /\ (\/ new = Nil
                                 \/ new.type # catRows[r.cat].type
                                 \/ new.archived /\ ~ catRows[r.cat].archived)
        => Cat!UsersOf(r.cat) = {}
<1>1. Init => CatInv
  BY CatInit DEF Init
<1>2. [Next]_vars => Cat!Next \/ UNCHANGED Cat!catVars
  BY DEF Next, vars, categoriesVars, Cat!catVars
<1>3. CatInv /\ [Next]_vars => CatInv'
  BY <1>2, CatStep
<1>4. CatInv => Cat!TypeOK /\ Cat!NameHeldOnce /\ Cat!NoOrphanedUse
  BY DEF CatInv
<1>5. CatInv /\ [Next]_vars => [Declared]_(Cat!catVars)
  BY DEF CatInv, PushStands, Cat!PushCommit
<1>6. CatInv /\ [Next]_vars => [Spared]_(Cat!catVars)
  BY DEF CatInv, PushStands, Cat!PushCommit
<1> QED
  BY <1>1, <1>3, <1>4, <1>5, <1>6, PTL
     DEF Spec, CategoriesSafe, Cat!CategoriesSafe, Cat!PushReplacesDeclared, Cat!PushSparesUsed

\* Imports that overlap each other, the user's edits and the deletion of categories:
\* no movement is imported twice, every batch accounts for its rows, no
\* transaction is left without its category, a conflict has a cause, and no row
\* is taken for new whose fields a transaction of the account has.
THEOREM ImportsStand == Spec => ImportsSafe
<1> DEFINE Unknown ==
      \A w \in Importer :
         task[w] # Nil /\ task[w].at = "candidates" /\ task'[w].at = "prepared" =>
           \A n \in task'[w].fresh, i \in DOMAIN txs :
              Imp!Fingerprint(txs[i]) # Imp!Fingerprint(task[w].file[n])
<1>1. Init => ImpInv
  BY ImpInit DEF Init
<1>2. [Next]_vars => Imp!Next \/ UNCHANGED Imp!impVars
  BY DEF Next, vars, importsVars, Imp!impVars
<1>3. ImpInv /\ [Next]_vars => ImpInv'
  BY <1>2, ImpStep
<1>4. ImpInv => /\ Imp!TypeOK /\ Imp!ImportedOnce /\ Imp!BatchAccounts
                /\ Imp!CategoriesExist /\ Imp!ConflictHasCause
  BY DEF ImpInv
<1>5. ImpInv /\ [Next]_vars => [Unknown]_(Imp!impVars)
  BY <1>2, NewAreUnknown
<1> QED
  BY <1>1, <1>3, <1>4, <1>5, PTL DEF Spec, ImportsSafe, Imp!ImportsSafe, Imp!NewRowsAreUnknown

=============================================================================
