-------------------------- MODULE SqliteLifecycle --------------------------
(***************************************************************************)
(* Opening, migrating, backing up and restoring the canonical database     *)
(* (packages/storage/src/database.ts, backup-service.ts) under the lock    *)
(* file of sqlite-lifecycle-lock.ts.                                       *)
(*                                                                         *)
(* The files are the state; a process does one file operation a step and   *)
(* may be killed before any of them.  A database is named by what it holds:*)
(* the user's data, the backup that is being restored, or nothing.  A pid  *)
(* is used once.                                                           *)
(***************************************************************************)
EXTENDS FiniteSets, Naturals

CONSTANT Pids

VARIABLES lockFile,   \* sqlite-lifecycle.lock: who wrote it
          pc,         \* pc[p]: where a process stands
          errand,       \* errand[p]: what it wants the lock for
          conn,       \* conn[p]: the file its connection has open
          canonical,  \* the database file
          aside,      \* its .pre-restore file
          archive,    \* what the backups with a manifest hold
          pending,    \* restore-pending.json exists
          claims,     \* the restore-pending.json.claim-* files
          migrated,   \* the databases at the current schema
          overlap     \* two processes were inside the lock at once (history)

dbVars == <<lockFile, pc, errand, conn, canonical, aside, archive, pending, claims, migrated, overlap>>

NoFile == "none"
Data == {"user", "backup", "blank"}
NoLock == "none"
Errands == {"restore", "open", "refresh"}
UnderLock == {"start", "claimed", "copied", "saved", "aside", "swapped", "opening", "opened", "schema", "done"}

LifecycleTypeOK ==
    /\ lockFile \in Pids \cup {NoLock}
    /\ pc \in [Pids -> {"new", "wait", "stale", "use", "dead"} \cup UnderLock]
    /\ errand \in [Pids -> Errands]
    /\ conn \in [Pids -> Data \cup {NoFile}]
    /\ canonical \in Data \cup {NoFile} /\ aside \in Data \cup {NoFile}
    /\ archive \subseteq Data /\ claims \subseteq Pids /\ migrated \subseteq Data
    /\ pending \in BOOLEAN /\ overlap \in BOOLEAN

\* The backup to restore exists; both databases are of an older schema.
LifecycleInit ==
    /\ lockFile = NoLock
    /\ pc = [p \in Pids |-> "new"]
    /\ errand = [p \in Pids |-> "restore"]
    /\ conn = [p \in Pids |-> NoFile]
    /\ canonical = "user" /\ aside = NoFile
    /\ archive = {"backup"}
    /\ pending \in BOOLEAN /\ claims = {}
    /\ migrated = {} /\ overlap = FALSE

OwnerLives(p) == pc[p] \notin {"new", "dead"}
Proceed(p, from, to) == pc[p] = from /\ pc' = [pc EXCEPT ![p] = to]

-----------------------------------------------------------------------------
\* withSqliteLifecycleLockSync.  A process applies a pending restore, then
\* opens the database.
Begins(p) == Proceed(p, "new", "wait") /\ UNCHANGED <<lockFile, errand, conn, canonical, aside, archive, pending, claims, migrated, overlap>>

CreateLock(p) ==
    /\ Proceed(p, "wait", "start") /\ lockFile = NoLock
    /\ lockFile' = p
    /\ overlap' = (overlap \/ \E q \in Pids : pc[q] \in UnderLock)
    /\ UNCHANGED <<errand, conn, canonical, aside, archive, pending, claims, migrated>>

\* reclaimStaleLock: the pid in the file is gone, or the file is over
\* MAX_LOCK_AGE_MS old (no operation takes that long) ...
JudgeLock(p) ==
    /\ Proceed(p, "wait", "stale") /\ lockFile # NoLock /\ ~OwnerLives(lockFile)
    /\ UNCHANGED <<lockFile, errand, conn, canonical, aside, archive, pending, claims, migrated, overlap>>
\* ... and the path is removed, whatever file is there by now.
ReclaimLock(p) ==
    /\ Proceed(p, "stale", "wait")
    /\ lockFile' = NoLock
    /\ UNCHANGED <<errand, conn, canonical, aside, archive, pending, claims, migrated, overlap>>

\* The finally clause: the restore is followed by opening; a failed opening
\* ends the process; a refresh returns to use.
DropLock(p, next) ==
    /\ pc[p] = "done" /\ lockFile' = NoLock
    /\ \/ errand[p] = "restore" /\ next = "wait" /\ errand' = [errand EXCEPT ![p] = "open"]
       \/ errand[p] # "restore" /\ next = (IF conn[p] = NoFile THEN "dead" ELSE "use") /\ UNCHANGED errand
    /\ pc' = [pc EXCEPT ![p] = next]
    /\ UNCHANGED <<conn, canonical, aside, archive, pending, claims, migrated, overlap>>

-----------------------------------------------------------------------------
\* applyPendingSqliteRestoreUnlocked, one file operation a step.
RestoreNothing(p) ==
    /\ errand[p] = "restore" /\ ~pending /\ Proceed(p, "start", "done")
    /\ UNCHANGED <<lockFile, errand, conn, canonical, aside, archive, pending, claims, migrated, overlap>>
\* Mutant of RestoreClaim: the request is deleted, no claim file says who has it.
RestoreUnclaimed(p) ==
    /\ errand[p] = "restore" /\ pending /\ Proceed(p, "start", "claimed")
    /\ pending' = FALSE
    /\ UNCHANGED <<lockFile, errand, conn, canonical, aside, archive, claims, migrated, overlap>>
RestoreClaim(p) ==
    /\ errand[p] = "restore" /\ pending /\ Proceed(p, "start", "claimed")
    /\ pending' = FALSE /\ claims' = claims \cup {p}
    /\ UNCHANGED <<lockFile, errand, conn, canonical, aside, archive, migrated, overlap>>
\* The backup is checked, copied to a temporary file and, from another host,
\* stripped of its leases, tasks and fences.
RestoreCopy(p) ==
    /\ "backup" \in archive /\ Proceed(p, "claimed", "copied")
    /\ UNCHANGED <<lockFile, errand, conn, canonical, aside, archive, pending, claims, migrated, overlap>>
RestoreSave(p) ==
    /\ Proceed(p, "copied", "saved")
    /\ archive' = archive \cup ({canonical} \ {NoFile})
    /\ UNCHANGED <<lockFile, errand, conn, canonical, aside, pending, claims, migrated, overlap>>
RestoreAside(p) ==
    /\ Proceed(p, "saved", "aside")
    /\ aside' = canonical /\ canonical' = NoFile
    /\ UNCHANGED <<lockFile, errand, conn, archive, pending, claims, migrated, overlap>>
RestoreSwap(p) ==
    /\ Proceed(p, "aside", "swapped")
    /\ canonical' = "backup" /\ migrated' = migrated \ {"backup"}
    /\ UNCHANGED <<lockFile, errand, conn, aside, archive, pending, claims, overlap>>
RestoreFinish(p) ==
    /\ Proceed(p, "swapped", "done")
    /\ aside' = NoFile /\ claims' = claims \ {p}
    /\ UNCHANGED <<lockFile, errand, conn, canonical, archive, pending, migrated, overlap>>
\* A step before the swap throws: the old database is put back, unless there
\* is another by now, and the claim renamed to .failed-.
RestoreFails(p) ==
    /\ pc[p] \in {"claimed", "copied", "saved", "aside"}
    /\ pc' = [pc EXCEPT ![p] = "done"]
    /\ claims' = claims \ {p}
    /\ IF pc[p] = "aside" /\ aside # NoFile /\ canonical = NoFile
       THEN canonical' = aside /\ aside' = NoFile
       ELSE UNCHANGED <<canonical, aside>>
    /\ UNCHANGED <<lockFile, errand, conn, archive, pending, migrated, overlap>>

-----------------------------------------------------------------------------
\* The constructor of SqliteDatabase: assertNoConcurrentRestore, connect (which
\* creates a missing file), assert again, migrate.
OpenRefused(p) ==
    /\ errand[p] = "open" /\ claims # {} /\ pc[p] \in {"start", "opened"}
    /\ pc' = [pc EXCEPT ![p] = "done"] /\ conn' = [conn EXCEPT ![p] = NoFile]
    /\ UNCHANGED <<lockFile, errand, canonical, aside, archive, pending, claims, migrated, overlap>>
OpenChecked(p) ==
    /\ errand[p] = "open" /\ claims = {} /\ Proceed(p, "start", "opening")
    /\ UNCHANGED <<lockFile, errand, conn, canonical, aside, archive, pending, claims, migrated, overlap>>
OpenConnect(p) ==
    /\ Proceed(p, "opening", "opened")
    /\ canonical' = IF canonical = NoFile THEN "blank" ELSE canonical
    /\ conn' = [conn EXCEPT ![p] = canonical']
    /\ UNCHANGED <<lockFile, errand, aside, archive, pending, claims, migrated, overlap>>
OpenVerified(p) ==
    /\ claims = {} /\ Proceed(p, "opened", "schema")
    /\ UNCHANGED <<lockFile, errand, conn, canonical, aside, archive, pending, claims, migrated, overlap>>
\* createPreMigrationBackupSync, then the pending migrations; a database that
\* was not there before is migrated without one.
Migrate(p) ==
    /\ Proceed(p, "schema", "done")
    /\ archive' = archive \cup ({conn[p]} \ (migrated \cup {"blank"}))
    /\ migrated' = migrated \cup {conn[p]}
    /\ UNCHANGED <<lockFile, errand, conn, canonical, aside, pending, claims, overlap>>
\* A migration throws: the connection is closed and the error raised.
MigrateFails(p) ==
    /\ Proceed(p, "schema", "done")
    /\ conn' = [conn EXCEPT ![p] = NoFile]
    /\ UNCHANGED <<lockFile, errand, canonical, aside, archive, pending, claims, migrated, overlap>>

-----------------------------------------------------------------------------
\* A process that uses the database schedules a restore, backs up, or notices
\* that the canonical file is another one and takes the lock to reconnect.
ScheduleRestore(p) ==
    /\ pc[p] = "use" /\ "backup" \in archive /\ ~pending
    /\ pending' = TRUE
    /\ UNCHANGED <<lockFile, pc, errand, conn, canonical, aside, archive, claims, migrated, overlap>>
BackUp(p) ==
    /\ pc[p] = "use" /\ conn[p] \notin archive
    /\ archive' = archive \cup {conn[p]}
    /\ UNCHANGED <<lockFile, pc, errand, conn, canonical, aside, pending, claims, migrated, overlap>>
NoticeReplaced(p) ==
    /\ conn[p] # canonical /\ Proceed(p, "use", "wait")
    /\ errand' = [errand EXCEPT ![p] = "refresh"]
    /\ UNCHANGED <<lockFile, conn, canonical, aside, archive, pending, claims, migrated, overlap>>
\* "temporarily unavailable" when there is no file: the old connection stays.
Refresh(p) ==
    /\ errand[p] = "refresh"
    /\ IF canonical = NoFile THEN Proceed(p, "start", "done") ELSE Proceed(p, "start", "schema")
    /\ conn' = [conn EXCEPT ![p] = IF canonical = NoFile THEN @ ELSE canonical]
    /\ UNCHANGED <<lockFile, errand, canonical, aside, archive, pending, claims, migrated, overlap>>

Kill(p) ==
    /\ OwnerLives(p)
    /\ pc' = [pc EXCEPT ![p] = "dead"] /\ conn' = [conn EXCEPT ![p] = NoFile]
    /\ UNCHANGED <<lockFile, errand, canonical, aside, archive, pending, claims, migrated, overlap>>

RestoreStep(p) ==
    \/ RestoreNothing(p) \/ RestoreClaim(p) \/ RestoreCopy(p) \/ RestoreSave(p)
    \/ RestoreAside(p) \/ RestoreSwap(p) \/ RestoreFinish(p) \/ RestoreFails(p)
OpenStep(p) ==
    \/ OpenRefused(p) \/ OpenChecked(p) \/ OpenConnect(p) \/ OpenVerified(p) \/ Migrate(p) \/ MigrateFails(p)
UseStep(p) == ScheduleRestore(p) \/ BackUp(p) \/ NoticeReplaced(p) \/ Refresh(p)
LockStep(p) ==
    \/ Begins(p) \/ CreateLock(p) \/ JudgeLock(p) \/ ReclaimLock(p)
    \/ \E next \in {"wait", "use", "dead"} : DropLock(p, next)

LifecycleNext == \E p \in Pids : LockStep(p) \/ RestoreStep(p) \/ OpenStep(p) \/ UseStep(p) \/ Kill(p)

LifecycleSpec == LifecycleInit /\ [][LifecycleNext]_dbVars

-----------------------------------------------------------------------------
\* One process at a time is inside the lock, now and before.
LockIsExclusive == ~overlap

\* At every step of a restore, killed there or not, the user's data is in the
\* database, beside it, or in a backup with a manifest, even after the lock let
\* two processes in.  As long as it did not, nobody works on a blank database:
\* where there was one before, a process that finds it moved away refuses to
\* open instead of creating another.
DataKept ==
    /\ "user" \in {canonical, aside} \cup archive
    /\ LockIsExclusive => \A p \in Pids : pc[p] = "use" => conn[p] # "blank"

\* A claim file means that a restore is in progress.
ClaimIsRestore == \A p \in claims : OwnerLives(p)
=============================================================================
