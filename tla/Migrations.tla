----------------------------- MODULE Migrations -----------------------------
(***************************************************************************)
(* A deployment: scripts/run_migrations.sh brings the database up to the   *)
(* files of a release, in filename order, and only when it has exited with *)
(* 0 are the backends replaced by that release.  A runner may stop between *)
(* any two of its psql commands, and two may run at the same time: one     *)
(* whose workflow was cancelled, or one started by hand.                   *)
(*                                                                         *)
(* A psql command is one action.  Release n ships the files 1..n.  What a  *)
(* migration changes is left out; it is not applied, applied in part, or   *)
(* applied.                                                                *)
(***************************************************************************)
EXTENDS Integers, FiniteSets

CONSTANTS
    Runners,
    Backends,
    Latest,         \* the newest release, and the number of its files
    NoTransaction,  \* the files marked "migrate: no-transaction"
    Repeatable,     \* those of them that may run again over what they have left,
                    \* as with IF NOT EXISTS; nothing asks for it
    MaxStops        \* bound: runners that stop half way

ASSUME MigrationsAssumption ==
    /\ Latest \in Nat \ {0}
    /\ NoTransaction \subseteq 1..Latest
    /\ Repeatable \subseteq NoTransaction
    /\ MaxStops \in Nat

VARIABLES
    schema_migrations,  \* the versions the tracking table holds
    applied,            \* "no", "partly" or "yes" for each file
    runnerPc,           \* "idle", "check", "apply", "record", or "migrated"
    release,            \* the release each runner deploys
    file,               \* the file each runner is at
    stops,
    desired,            \* the release the service is to run, 0 before the first
    version             \* the release each backend runs, 0 when it is down

dbVars        == <<schema_migrations, applied>>
serviceVars   == <<desired, version>>
migrationVars == <<dbVars, runnerPc, release, file, stops, serviceVars>>

Files == 1..Latest

\* A database nobody has migrated yet.
MigrationsInit ==
    /\ schema_migrations = {}
    /\ applied = [f \in Files |-> "no"]
    /\ runnerPc = [r \in Runners |-> "idle"]
    /\ release = [r \in Runners |-> Latest]
    /\ file = [r \in Runners |-> 1]
    /\ stops = 0
    /\ desired = 0
    /\ version = [b \in Backends |-> 0]

RunnerGoto(r, label) == runnerPc' = [runnerPc EXCEPT ![r] = label]

\* set -e: the script exits with an error and the deployment ends there.
RunnerExits(r) ==
    /\ runnerPc' = [runnerPc EXCEPT ![r] = "idle"]
    /\ file' = [file EXCEPT ![r] = 1]
    /\ UNCHANGED release

NextFile(r) ==
    /\ runnerPc' = [runnerPc EXCEPT ![r] = "check"]
    /\ file' = [file EXCEPT ![r] = @ + 1]
    /\ UNCHANGED release

Applied(f)  == applied' = [applied EXCEPT ![f] = "yes"]
Recorded(f) == schema_migrations' = schema_migrations \cup {f}

-----------------------------------------------------------------------------
(* The runner *)

\* Someone deploys release n: an old one again, or the newest.
StartRunner(r, n) ==
    /\ runnerPc[r] = "idle"
    /\ RunnerGoto(r, "check")
    /\ release' = [release EXCEPT ![r] = n]
    /\ UNCHANGED <<dbVars, file, stops, serviceVars>>

\* Mutant: the tracking table is not asked.
CheckIgnored(r) ==
    /\ runnerPc[r] = "check"
    /\ file[r] <= release[r]
    /\ RunnerGoto(r, "apply")
    /\ UNCHANGED <<dbVars, release, file, stops, serviceVars>>

\* SELECT 1 FROM schema_migrations: skip the file, or go on to apply it.
Check(r) ==
    /\ runnerPc[r] = "check"
    /\ file[r] <= release[r]
    /\ \/ file[r] \in schema_migrations /\ NextFile(r)
       \/ file[r] \notin schema_migrations /\ RunnerGoto(r, "apply") /\ UNCHANGED <<release, file>>
    /\ UNCHANGED <<dbVars, stops, serviceVars>>

\* The loop has come to its end and the script exits with 0.
Complete(r) ==
    /\ runnerPc[r] = "check"
    /\ file[r] > release[r]
    /\ RunnerGoto(r, "migrated")
    /\ UNCHANGED <<dbVars, release, file, stops, serviceVars>>

\* psql --single-transaction: the file and its record, both or neither.  The
\* primary key refuses the record when another runner was first.
ApplyInTransaction(r) ==
    /\ runnerPc[r] = "apply"
    /\ file[r] \notin NoTransaction
    /\ \/ /\ file[r] \notin schema_migrations
          /\ Applied(file[r]) /\ Recorded(file[r])
          /\ NextFile(r)
       \/ /\ file[r] \in schema_migrations
          /\ RunnerExits(r)
          /\ UNCHANGED dbVars
    /\ UNCHANGED <<stops, serviceVars>>

\* No earlier try has left what the file would make, or the file does not mind.
Runnable(f) == applied[f] = "no" \/ f \in Repeatable

\* psql runs a file that must not be in a transaction.
ApplyAlone(r) ==
    /\ runnerPc[r] = "apply"
    /\ file[r] \in NoTransaction
    /\ Runnable(file[r])
    /\ Applied(file[r])
    /\ RunnerGoto(r, "record")
    /\ UNCHANGED <<schema_migrations, release, file, stops, serviceVars>>

\* ON_ERROR_STOP: what the file would make "already exists", and psql fails.
ApplyAloneRefused(r) ==
    /\ runnerPc[r] = "apply"
    /\ file[r] \in NoTransaction
    /\ ~Runnable(file[r])
    /\ RunnerExits(r)
    /\ UNCHANGED <<dbVars, stops, serviceVars>>

\* The INSERT of the psql that follows.
Record(r) ==
    /\ runnerPc[r] = "record"
    /\ \/ /\ file[r] \notin schema_migrations
          /\ Recorded(file[r])
          /\ NextFile(r)
       \/ /\ file[r] \in schema_migrations
          /\ RunnerExits(r)
          /\ UNCHANGED schema_migrations
    /\ UNCHANGED <<applied, stops, serviceVars>>

-----------------------------------------------------------------------------
(* What may go wrong *)

Stopped == stops < MaxStops /\ stops' = stops + 1

\* Mutant: the workflow does not look at the exit code of the task.
RunnerStopsUnnoticed(r) ==
    /\ Stopped
    /\ runnerPc[r] \notin {"idle", "migrated"}
    /\ RunnerGoto(r, "migrated")
    /\ UNCHANGED <<dbVars, release, file, serviceVars>>

\* The task is killed, or a psql fails without an effect.
RunnerStops(r) ==
    /\ Stopped
    /\ runnerPc[r] # "idle"
    /\ RunnerExits(r)
    /\ UNCHANGED <<dbVars, serviceVars>>

\* The transaction commits, and the runner does not live to see it.
CommitUnheard(r) ==
    /\ Stopped
    /\ runnerPc[r] = "apply"
    /\ file[r] \notin NoTransaction \cup schema_migrations
    /\ Applied(file[r]) /\ Recorded(file[r])
    /\ RunnerExits(r)
    /\ UNCHANGED serviceVars

PartlyApplied(f) == applied' = [applied EXCEPT ![f] = IF @ = "yes" THEN @ ELSE "partly"]

\* Mutant: psql without ON_ERROR_STOP goes on, and exits with 0.
ApplyAloneFailsUnnoticed(r) ==
    /\ Stopped
    /\ runnerPc[r] = "apply"
    /\ file[r] \in NoTransaction
    /\ PartlyApplied(file[r])
    /\ RunnerGoto(r, "record")
    /\ UNCHANGED <<schema_migrations, release, file, serviceVars>>

\* A statement in the middle of the file fails, or the task is killed there.
ApplyAloneFails(r) ==
    /\ Stopped
    /\ runnerPc[r] = "apply"
    /\ file[r] \in NoTransaction
    /\ PartlyApplied(file[r])
    /\ RunnerExits(r)
    /\ UNCHANGED <<schema_migrations, serviceVars>>

-----------------------------------------------------------------------------
(* The backends *)

\* The deployment has the service updated; its work is done.
UpdateService(r) ==
    /\ runnerPc[r] = "migrated"
    /\ desired' = release[r]
    /\ RunnerExits(r)
    /\ UNCHANGED <<dbVars, stops, version>>

\* One backend after the other is replaced by the release asked for last.
Replace(b) ==
    /\ version[b] # desired
    /\ version' = [version EXCEPT ![b] = desired]
    /\ UNCHANGED <<dbVars, runnerPc, release, file, stops, desired>>

-----------------------------------------------------------------------------
RunnerSteps(r) ==
    \/ Check(r) \/ Complete(r) \/ ApplyInTransaction(r)
    \/ ApplyAlone(r) \/ ApplyAloneRefused(r) \/ Record(r)
    \/ UpdateService(r)

RunnerFails(r) == RunnerStops(r) \/ CommitUnheard(r) \/ ApplyAloneFails(r)

MigrationsNext ==
    \/ \E r \in Runners :
          \/ \E n \in 1..Latest : StartRunner(r, n)
          \/ RunnerSteps(r)
          \/ RunnerFails(r)
    \/ \E b \in Backends : Replace(b)

\* A runner that is not stopped goes on, and the team deploys the newest
\* release again when a deployment has failed.
MigrationsFairness ==
    \A r \in Runners :
        /\ WF_migrationVars(RunnerSteps(r))
        /\ SF_migrationVars(StartRunner(r, Latest))

MigrationsSpec == MigrationsInit /\ [][MigrationsNext]_migrationVars /\ MigrationsFairness

-----------------------------------------------------------------------------
(* Properties *)

\* What the tracking table says is true, whichever runner stopped where: a
\* recorded file is applied completely, and before a file is touched all the
\* files before it are recorded ("in filename order", db/migrations/README.md).
TableIsTrue ==
    \A f \in Files :
        /\ f \in schema_migrations => applied[f] = "yes"
        /\ applied[f] # "no" => 1..(f - 1) \subseteq schema_migrations

\* No backend runs against a schema older than its release, also when two
\* deployments overlap and one of them fails.
BackendHasSchema ==
    \A b \in Backends : \A f \in 1..version[b] : applied[f] = "yes"

\* A file that cannot run again has been begun and is not recorded: a runner was
\* stopped inside it, or between its psql and the INSERT.
Wedged ==
    stops > 0 /\ \E f \in NoTransaction \ Repeatable :
                     applied[f] # "no" /\ f \notin schema_migrations

\* A deployment that is repeated after failures gets through: no file half applied
\* or unrecorded and no quarrel of two runners stands in its way for ever.  The one
\* exception is the file the script gives no second chance, marked no-transaction
\* and not repeatable, and only when a runner was stopped: then every later
\* deployment fails at it until someone repairs the database by hand.
DeploymentCompletes ==
    \/ <>(Files \subseteq schema_migrations) /\ []<>(desired = Latest)
    \/ <>[]Wedged
=============================================================================
