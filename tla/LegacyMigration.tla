---------------------------- MODULE LegacyMigration ----------------------------
(***************************************************************************)
(* The start of the application's database: the key, the migration of the  *)
(* plaintext database of an earlier version into the encrypted one, the    *)
(* schema migrations.  The process may die between any two steps and an    *)
(* export may stop half way.                                               *)
(***************************************************************************)
EXTENDS Naturals

CONSTANT MaxDeaths \* bound: process deaths and failed calls

VARIABLES
    key,    \* whether the key is in the secure store
    legacy, \* the plaintext file: "absent", "empty" or "data"
    main,   \* the encrypted file: "empty", "partial", "copied" or "fresh"
    marker, \* whether the completion marker is in the encrypted file
    at,     \* the step of initializeDatabase, or "stopped"
    had,    \* history: whether the device had an old database
    deaths  \* deaths and failures so far

migVars == <<key, legacy, main, marker, at, had, deaths>>

Init ==
    /\ key = FALSE
    /\ legacy = "data"
    /\ main = "empty"
    /\ marker = FALSE
    /\ at = "stopped"
    /\ had = TRUE
    /\ deaths = 0

-----------------------------------------------------------------------------

\* The device of this history is a new installation instead.
NewInstall ==
    /\ had /\ ~ key /\ at = "stopped" /\ deaths = 0
    /\ legacy' = "absent" /\ had' = FALSE
    /\ UNCHANGED <<key, main, marker, at, deaths>>

\* The key is stored before it is used; attaching makes an empty file if there
\* is none.
Open ==
    /\ at = "stopped"
    /\ key' = TRUE
    /\ legacy' = IF legacy = "absent" THEN "empty" ELSE legacy
    /\ at' = "attached"
    /\ UNCHANGED <<main, marker, had, deaths>>

\* Mutant: tables in the encrypted file are taken for a complete copy.
CompleteBySchema == main # "empty"

Complete == marker

\* The plaintext file has nothing to keep, or is copied for certain, or the
\* encrypted one has tables of unknown origin: then the start fails.
Decide ==
    /\ at = "attached"
    /\ at' = CASE legacy = "empty" \/ Complete -> "deleting"
               [] main # "empty" -> "stopped"
               [] OTHER -> "exporting"
    /\ UNCHANGED <<key, legacy, main, marker, had, deaths>>

Export ==
    /\ at = "exporting"
    /\ main' = "copied" /\ at' = "checking"
    /\ UNCHANGED <<key, legacy, marker, had, deaths>>

\* The integrity check passes and the marker is written.
Mark ==
    /\ at = "checking"
    /\ marker' = TRUE /\ at' = "deleting"
    /\ UNCHANGED <<key, legacy, main, had, deaths>>

\* Deletion is best effort: a failure is swallowed.
DeleteLegacy ==
    /\ at = "deleting"
    /\ \/ legacy' = "absent" /\ UNCHANGED deaths
       \/ deaths < MaxDeaths /\ deaths' = deaths + 1 /\ UNCHANGED legacy
    /\ at' = "schema"
    /\ UNCHANGED <<key, main, marker, had>>

\* migrateDatabase
Schema ==
    /\ at = "schema"
    /\ main' = IF main = "empty" THEN "fresh" ELSE main
    /\ at' = "ready"
    /\ UNCHANGED <<key, legacy, marker, had, deaths>>

\* The process dies or a call fails; an export under way leaves some tables.
Die ==
    /\ at # "stopped" /\ deaths < MaxDeaths
    /\ deaths' = deaths + 1
    /\ at' = "stopped"
    /\ main' \in IF at = "exporting" THEN {"empty", "partial"} ELSE {main}
    /\ UNCHANGED <<key, legacy, marker, had>>

Restart ==
    /\ at = "ready" /\ at' = "stopped"
    /\ UNCHANGED <<key, legacy, main, marker, had, deaths>>

Next ==
    \/ NewInstall \/ Open \/ Decide \/ Export \/ Mark \/ DeleteLegacy \/ Schema
    \/ Die \/ Restart

Spec == Init /\ [][Next]_migVars

-----------------------------------------------------------------------------
(* Properties *)

\* The data of the earlier version is never lost: the plaintext file is there
\* until a complete copy of it is in the encrypted one.
DataSurvives == had => legacy = "data" \/ main = "copied"

\* The application never opens on a partial copy or next to its old data.
ReadyIsComplete == at = "ready" => main = (IF had THEN "copied" ELSE "fresh")

\* Whenever the process dies, the user's data is in one of the files and the
\* application opens on all of it or not at all.
MigrationSafe == DataSurvives /\ ReadyIsComplete

=============================================================================
