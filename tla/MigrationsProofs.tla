-------------------------- MODULE MigrationsProofs --------------------------
(***************************************************************************)
(* The safety properties of Migrations, proved for every number of files,  *)
(* releases, runners, backends and stops.                                  *)
(***************************************************************************)
EXTENDS Migrations, TLAPS

RunnerStates == {"idle", "check", "apply", "record", "migrated"}

\* The types the run script, the tracking table and the service give their state.
MigrationsTypeOK ==
    /\ schema_migrations \subseteq Files
    /\ applied \in [Files -> {"no", "partly", "yes"}]
    /\ runnerPc \in [Runners -> RunnerStates]
    /\ release \in [Runners -> Files]
    /\ file \in [Runners -> Nat \ {0}]
    /\ desired \in 0..Latest
    /\ version \in [Backends -> 0..Latest]

\* A runner has passed over a file only when it is in the tracking table, where
\* it stays whatever another runner does.
PassedIsRecorded == \A r \in Runners : 1..(file[r] - 1) \subseteq schema_migrations

\* A runner works on a file of its release, and leaves the loop behind the last.
RunnerInRelease ==
    \A r \in Runners :
        /\ runnerPc[r] \in {"apply", "record"} => file[r] <= release[r]
        /\ runnerPc[r] = "migrated" => file[r] > release[r]

\* The INSERT follows a psql that has run to the end of the file.
RecordFollowsApply ==
    \A r \in Runners : runnerPc[r] = "record" => applied[file[r]] = "yes"

\* BackendHasSchema is not inductive: a backend takes the release the service is
\* to run, which is one some runner has completed, by the tracking table.
ServiceIsRecorded ==
    /\ 1..desired \subseteq schema_migrations
    /\ \A b \in Backends : 1..version[b] \subseteq schema_migrations

\* The inductive invariant.
MigrationsInv ==
    /\ MigrationsTypeOK
    /\ TableIsTrue
    /\ PassedIsRecorded
    /\ RunnerInRelease
    /\ RecordFollowsApply
    /\ ServiceIsRecorded

-----------------------------------------------------------------------------
\* The invariant holds of a database nobody has migrated yet.
LEMMA MigrationsInitInv == MigrationsInit => MigrationsInv
<1> SUFFICES ASSUME MigrationsInit PROVE MigrationsInv
  OBVIOUS
<1> USE MigrationsAssumption DEF MigrationsInit, Files
<1>1. MigrationsTypeOK
  BY DEF MigrationsTypeOK, RunnerStates
<1>2. TableIsTrue
  BY DEF TableIsTrue
<1>3. PassedIsRecorded /\ RunnerInRelease /\ RecordFollowsApply
  BY DEF PassedIsRecorded, RunnerInRelease, RecordFollowsApply
<1>4. ServiceIsRecorded
  BY DEF ServiceIsRecorded
<1> QED
  BY <1>1, <1>2, <1>3, <1>4 DEF MigrationsInv

\* A step that leaves the database alone keeps what is said of it.
LEMMA DatabaseUntouched ==
    ASSUME MigrationsInv, UNCHANGED dbVars
    PROVE  TableIsTrue'
BY DEF MigrationsInv, TableIsTrue, dbVars, Files

\* A step that leaves the service alone, while the tracking table only grows.
LEMMA ServiceUntouched ==
    ASSUME MigrationsInv, UNCHANGED serviceVars, schema_migrations \subseteq schema_migrations'
    PROVE  ServiceIsRecorded'
BY DEF MigrationsInv, ServiceIsRecorded, serviceVars

\* A runner that exits starts again at the first file, and the others are where
\* they were.
LEMMA ExitKeepsOrder ==
    ASSUME MigrationsInv, NEW r \in Runners, RunnerExits(r),
           schema_migrations \subseteq schema_migrations',
           \A f \in Files : applied[f] = "yes" => applied'[f] = "yes"
    PROVE  /\ runnerPc' \in [Runners -> RunnerStates]
           /\ release' \in [Runners -> Files]
           /\ file' \in [Runners -> Nat \ {0}]
           /\ PassedIsRecorded' /\ RunnerInRelease' /\ RecordFollowsApply'
<1> USE MigrationsAssumption
<1>1. /\ runnerPc' \in [Runners -> RunnerStates]
      /\ release' \in [Runners -> Files]
      /\ file' \in [Runners -> Nat \ {0}]
  BY DEF MigrationsInv, MigrationsTypeOK, RunnerExits, RunnerStates
<1>2. PassedIsRecorded'
  <2> SUFFICES ASSUME NEW q \in Runners PROVE 1..(file'[q] - 1) \subseteq schema_migrations'
    BY DEF PassedIsRecorded
  <2>1. CASE q = r
    BY <2>1 DEF MigrationsInv, MigrationsTypeOK, RunnerExits
  <2>2. CASE q # r
    BY <2>2 DEF MigrationsInv, MigrationsTypeOK, PassedIsRecorded, RunnerExits
  <2> QED
    BY <2>1, <2>2
<1>3. RunnerInRelease'
  BY DEF MigrationsInv, MigrationsTypeOK, RunnerInRelease, RunnerExits
<1>4. RecordFollowsApply'
  <2> SUFFICES ASSUME NEW q \in Runners, runnerPc'[q] = "record" PROVE applied'[file'[q]] = "yes"
    BY DEF RecordFollowsApply
  <2>1. runnerPc[q] = "record" /\ file'[q] = file[q]
    BY DEF MigrationsInv, MigrationsTypeOK, RunnerExits
  <2>2. file[q] \in Files /\ applied[file[q]] = "yes"
    BY <2>1 DEF MigrationsInv, MigrationsTypeOK, RunnerInRelease, RecordFollowsApply, Files
  <2> QED
    BY <2>1, <2>2
<1> QED
  BY <1>1, <1>2, <1>3, <1>4

\* A runner goes on to the next file once this one is in the tracking table.
LEMMA NextFileKeepsOrder ==
    ASSUME MigrationsInv, NEW r \in Runners, NextFile(r),
           schema_migrations \subseteq schema_migrations', file[r] \in schema_migrations',
           \A f \in Files : applied[f] = "yes" => applied'[f] = "yes"
    PROVE  /\ runnerPc' \in [Runners -> RunnerStates]
           /\ release' \in [Runners -> Files]
           /\ file' \in [Runners -> Nat \ {0}]
           /\ PassedIsRecorded' /\ RunnerInRelease' /\ RecordFollowsApply'
<1> USE MigrationsAssumption
<1>1. /\ runnerPc' \in [Runners -> RunnerStates]
      /\ release' \in [Runners -> Files]
      /\ file' \in [Runners -> Nat \ {0}]
  BY DEF MigrationsInv, MigrationsTypeOK, NextFile, RunnerStates
<1>2. PassedIsRecorded'
  <2> SUFFICES ASSUME NEW q \in Runners PROVE 1..(file'[q] - 1) \subseteq schema_migrations'
    BY DEF PassedIsRecorded
  <2>1. CASE q = r
    <3>1. file'[q] - 1 = file[r] /\ file[r] \in Nat \ {0}
      BY <2>1 DEF MigrationsInv, MigrationsTypeOK, NextFile
    <3>2. 1..(file[r] - 1) \subseteq schema_migrations
      BY DEF MigrationsInv, PassedIsRecorded
    <3> QED
      BY <3>1, <3>2
  <2>2. CASE q # r
    BY <2>2 DEF MigrationsInv, MigrationsTypeOK, PassedIsRecorded, NextFile
  <2> QED
    BY <2>1, <2>2
<1>3. RunnerInRelease'
  BY DEF MigrationsInv, MigrationsTypeOK, RunnerInRelease, NextFile
<1>4. RecordFollowsApply'
  <2> SUFFICES ASSUME NEW q \in Runners, runnerPc'[q] = "record" PROVE applied'[file'[q]] = "yes"
    BY DEF RecordFollowsApply
  <2>1. runnerPc[q] = "record" /\ file'[q] = file[q]
    BY DEF MigrationsInv, MigrationsTypeOK, NextFile
  <2>2. file[q] \in Files /\ applied[file[q]] = "yes"
    BY <2>1 DEF MigrationsInv, MigrationsTypeOK, RunnerInRelease, RecordFollowsApply, Files
  <2> QED
    BY <2>1, <2>2
<1> QED
  BY <1>1, <1>2, <1>3, <1>4

\* A file whose predecessors are recorded may be applied, in part or completely,
\* and recorded when it is applied completely.
LEMMA ApplyKeepsTable ==
    ASSUME MigrationsInv, NEW f \in Files, 1..(f - 1) \subseteq schema_migrations,
           NEW level \in {"partly", "yes"}, f \in schema_migrations' => level = "yes",
           applied' = [applied EXCEPT ![f] = level],
           schema_migrations' \in {schema_migrations, schema_migrations \cup {f}}
    PROVE  /\ schema_migrations' \subseteq Files
           /\ schema_migrations \subseteq schema_migrations'
           /\ applied' \in [Files -> {"no", "partly", "yes"}]
           /\ TableIsTrue'
<1>1. /\ schema_migrations' \subseteq Files
      /\ schema_migrations \subseteq schema_migrations'
      /\ applied' \in [Files -> {"no", "partly", "yes"}]
  BY DEF MigrationsInv, MigrationsTypeOK
<1>2. TableIsTrue'
  <2> SUFFICES ASSUME NEW g \in Files
               PROVE  /\ g \in schema_migrations' => applied'[g] = "yes"
                      /\ applied'[g] # "no" => 1..(g - 1) \subseteq schema_migrations'
    BY DEF TableIsTrue, Files
  <2>1. CASE g = f
    BY <2>1, <1>1 DEF MigrationsInv, MigrationsTypeOK
  <2>2. CASE g # f
    BY <2>2, <1>1 DEF MigrationsInv, MigrationsTypeOK, TableIsTrue
  <2> QED
    BY <2>1, <2>2
<1> QED
  BY <1>1, <1>2

-----------------------------------------------------------------------------
\* Starting, checking and completing keep the invariant: they only read the
\* tracking table.
LEMMA ReadingInv ==
    ASSUME MigrationsInv, NEW r \in Runners,
           (\E n \in 1..Latest : StartRunner(r, n)) \/ Check(r) \/ Complete(r)
    PROVE  MigrationsInv'
<1> USE MigrationsAssumption
<1>1. TableIsTrue' /\ ServiceIsRecorded'
  <2>1. UNCHANGED dbVars /\ UNCHANGED serviceVars
    BY DEF StartRunner, Check, Complete
  <2>2. schema_migrations \subseteq schema_migrations'
    BY <2>1 DEF dbVars
  <2> QED
    BY <2>1, <2>2, DatabaseUntouched, ServiceUntouched
<1>2. CASE \E n \in 1..Latest : StartRunner(r, n)
  BY <1>1, <1>2 DEF StartRunner, RunnerGoto, MigrationsInv, MigrationsTypeOK, RunnerStates, Files,
        dbVars, serviceVars, PassedIsRecorded, RunnerInRelease, RecordFollowsApply
<1>3. CASE Check(r)
  <2>1. CASE file[r] \in schema_migrations /\ NextFile(r)
    <3>1. UNCHANGED dbVars /\ UNCHANGED serviceVars
      BY <1>3 DEF Check
    <3>2. /\ schema_migrations \subseteq schema_migrations'
          /\ file[r] \in schema_migrations'
          /\ \A f \in Files : applied[f] = "yes" => applied'[f] = "yes"
      BY <2>1, <3>1 DEF dbVars
    <3> QED
      BY <1>1, <2>1, <3>1, <3>2, NextFileKeepsOrder
         DEF MigrationsInv, MigrationsTypeOK, dbVars, serviceVars
  <2>2. CASE RunnerGoto(r, "apply") /\ UNCHANGED <<release, file>>
    BY <1>1, <1>3, <2>2 DEF Check, RunnerGoto, MigrationsInv, MigrationsTypeOK, RunnerStates,
          dbVars, serviceVars, PassedIsRecorded, RunnerInRelease, RecordFollowsApply
  <2> QED
    BY <1>3, <2>1, <2>2 DEF Check
<1>4. CASE Complete(r)
  BY <1>1, <1>4 DEF Complete, RunnerGoto, MigrationsInv, MigrationsTypeOK, RunnerStates,
        dbVars, serviceVars, PassedIsRecorded, RunnerInRelease, RecordFollowsApply
<1> QED
  BY <1>2, <1>3, <1>4

\* A file and its record in one transaction, seen to commit or not, or refused.
LEMMA TransactionInv ==
    ASSUME MigrationsInv, NEW r \in Runners, ApplyInTransaction(r) \/ CommitUnheard(r)
    PROVE  MigrationsInv'
<1> USE MigrationsAssumption
<1>1. file[r] \in Files /\ 1..(file[r] - 1) \subseteq schema_migrations
  BY DEF MigrationsInv, MigrationsTypeOK, PassedIsRecorded, RunnerInRelease,
         ApplyInTransaction, CommitUnheard, Files
<1>2. UNCHANGED serviceVars
  BY DEF ApplyInTransaction, CommitUnheard
<1>3. CASE Applied(file[r]) /\ Recorded(file[r])
  <2>1. /\ schema_migrations' \subseteq Files
        /\ schema_migrations \subseteq schema_migrations'
        /\ applied' \in [Files -> {"no", "partly", "yes"}]
        /\ TableIsTrue'
    BY <1>1, <1>3, ApplyKeepsTable DEF Applied, Recorded
  <2>2. \A f \in Files : applied[f] = "yes" => applied'[f] = "yes"
    BY <1>3 DEF Applied, MigrationsInv, MigrationsTypeOK
  <2>3. file[r] \in schema_migrations'
    BY <1>3 DEF Recorded
  <2>4. NextFile(r) \/ RunnerExits(r)
    BY DEF ApplyInTransaction, CommitUnheard
  <2>5. /\ runnerPc' \in [Runners -> RunnerStates]
        /\ release' \in [Runners -> Files]
        /\ file' \in [Runners -> Nat \ {0}]
        /\ PassedIsRecorded' /\ RunnerInRelease' /\ RecordFollowsApply'
    BY <2>1, <2>2, <2>3, <2>4, NextFileKeepsOrder, ExitKeepsOrder
  <2>6. ServiceIsRecorded'
    BY <1>2, <2>1, ServiceUntouched
  <2> QED
    BY <1>2, <2>1, <2>5, <2>6 DEF MigrationsInv, MigrationsTypeOK, serviceVars
<1>4. CASE RunnerExits(r) /\ UNCHANGED dbVars
  <2>1. schema_migrations \subseteq schema_migrations'
    BY <1>4 DEF dbVars
  <2>2. \A f \in Files : applied[f] = "yes" => applied'[f] = "yes"
    BY <1>4 DEF dbVars
  <2> QED
    BY <1>2, <1>4, <2>1, <2>2, ExitKeepsOrder, DatabaseUntouched, ServiceUntouched
       DEF MigrationsInv, MigrationsTypeOK, dbVars, serviceVars
<1> QED
  BY <1>3, <1>4 DEF ApplyInTransaction, CommitUnheard

\* A file outside a transaction, run to its end or stopped in the middle: it is
\* not in the tracking table, or it was applied before.
LEMMA ApplyAloneInv ==
    ASSUME MigrationsInv, NEW r \in Runners, ApplyAlone(r) \/ ApplyAloneFails(r)
    PROVE  MigrationsInv'
<1> USE MigrationsAssumption
<1> DEFINE level == IF ApplyAlone(r) \/ applied[file[r]] = "yes" THEN "yes" ELSE "partly"
<1>1. /\ file[r] \in Files /\ 1..(file[r] - 1) \subseteq schema_migrations
      /\ runnerPc[r] = "apply"
  BY DEF MigrationsInv, MigrationsTypeOK, PassedIsRecorded, RunnerInRelease,
         ApplyAlone, ApplyAloneFails, Files
<1>2. UNCHANGED serviceVars /\ UNCHANGED schema_migrations
  BY DEF ApplyAlone, ApplyAloneFails
<1>3. applied' = [applied EXCEPT ![file[r]] = level]
  BY <1>1 DEF ApplyAlone, ApplyAloneFails, Applied, PartlyApplied, MigrationsInv, MigrationsTypeOK
<1>4. level \in {"partly", "yes"} /\ (file[r] \in schema_migrations' => level = "yes")
  BY <1>1, <1>2 DEF MigrationsInv, TableIsTrue
<1> HIDE DEF level
<1>5. /\ schema_migrations' \subseteq Files
      /\ schema_migrations \subseteq schema_migrations'
      /\ applied' \in [Files -> {"no", "partly", "yes"}]
      /\ TableIsTrue'
  BY <1>1, <1>2, <1>3, <1>4, ApplyKeepsTable
<1>6. \A f \in Files : applied[f] = "yes" => applied'[f] = "yes"
  BY <1>1, <1>3 DEF MigrationsInv, MigrationsTypeOK, level
<1>7. ServiceIsRecorded'
  BY <1>2, <1>5, ServiceUntouched
<1>8. CASE ApplyAlone(r)
  <2>1. applied'[file[r]] = "yes"
    BY <1>1, <1>3, <1>8 DEF level, MigrationsInv, MigrationsTypeOK
  <2>2. /\ runnerPc' \in [Runners -> RunnerStates]
        /\ UNCHANGED <<release, file>>
        /\ \A q \in Runners : runnerPc'[q] = IF q = r THEN "record" ELSE runnerPc[q]
    BY <1>8 DEF ApplyAlone, RunnerGoto, MigrationsInv, MigrationsTypeOK, RunnerStates
  <2>3. PassedIsRecorded'
    BY <1>2, <2>2 DEF MigrationsInv, PassedIsRecorded
  <2>4. RunnerInRelease'
    BY <1>1, <2>2 DEF MigrationsInv, RunnerInRelease
  <2>5. RecordFollowsApply'
    <3> SUFFICES ASSUME NEW q \in Runners, runnerPc'[q] = "record"
                 PROVE  applied'[file'[q]] = "yes"
      BY DEF RecordFollowsApply
    <3>1. CASE q = r
      BY <2>1, <2>2, <3>1
    <3>2. CASE q # r
      <4>1. runnerPc[q] = "record" /\ file'[q] = file[q]
        BY <2>2, <3>2
      <4>2. file[q] \in Files
        BY <4>1 DEF MigrationsInv, MigrationsTypeOK, RunnerInRelease, Files
      <4> QED
        BY <1>6, <4>1, <4>2 DEF MigrationsInv, RecordFollowsApply
    <3> QED
      BY <3>1, <3>2
  <2> QED
    BY <1>2, <1>5, <1>7, <2>2, <2>3, <2>4, <2>5 DEF MigrationsInv, MigrationsTypeOK, serviceVars
<1>9. CASE ApplyAloneFails(r)
  <2>1. RunnerExits(r)
    BY <1>9 DEF ApplyAloneFails
  <2> QED
    BY <1>2, <1>5, <1>6, <1>7, <2>1, ExitKeepsOrder DEF MigrationsInv, MigrationsTypeOK, serviceVars
<1> QED
  BY <1>8, <1>9

\* The record of a file that was applied alone.
LEMMA RecordInv ==
    ASSUME MigrationsInv, NEW r \in Runners, Record(r)
    PROVE  MigrationsInv'
<1> USE MigrationsAssumption
<1>1. /\ file[r] \in Files /\ 1..(file[r] - 1) \subseteq schema_migrations
      /\ applied[file[r]] = "yes"
  BY DEF MigrationsInv, MigrationsTypeOK, PassedIsRecorded, RunnerInRelease, RecordFollowsApply,
         Record, Files
<1>2. UNCHANGED serviceVars /\ UNCHANGED applied
  BY DEF Record
<1>3. schema_migrations' \in {schema_migrations, schema_migrations \cup {file[r]}}
  BY DEF Record, Recorded
<1>4. applied' = [applied EXCEPT ![file[r]] = "yes"]
  BY <1>1, <1>2 DEF MigrationsInv, MigrationsTypeOK
<1>5. /\ schema_migrations' \subseteq Files
      /\ schema_migrations \subseteq schema_migrations'
      /\ applied' \in [Files -> {"no", "partly", "yes"}]
      /\ TableIsTrue'
  BY <1>1, <1>3, <1>4, ApplyKeepsTable
<1>6. /\ runnerPc' \in [Runners -> RunnerStates]
      /\ release' \in [Runners -> Files]
      /\ file' \in [Runners -> Nat \ {0}]
      /\ PassedIsRecorded' /\ RunnerInRelease' /\ RecordFollowsApply'
  <2>1. \A f \in Files : applied[f] = "yes" => applied'[f] = "yes"
    BY <1>2
  <2>2. CASE Recorded(file[r]) /\ NextFile(r)
    <3>1. file[r] \in schema_migrations'
      BY <2>2 DEF Recorded
    <3> QED
      BY <1>5, <2>1, <2>2, <3>1, NextFileKeepsOrder
  <2>3. CASE RunnerExits(r)
    BY <1>5, <2>1, <2>3, ExitKeepsOrder
  <2> QED
    BY <2>2, <2>3 DEF Record
<1> QED
  BY <1>2, <1>5, <1>6, ServiceUntouched DEF MigrationsInv, MigrationsTypeOK, serviceVars

\* A runner that stops or is refused, the end of a deployment, and a backend that is
\* replaced.
LEMMA ServiceInv ==
    ASSUME MigrationsInv,
           \/ \E r \in Runners : RunnerStops(r) \/ ApplyAloneRefused(r) \/ UpdateService(r)
           \/ \E b \in Backends : Replace(b)
    PROVE  MigrationsInv'
<1> USE MigrationsAssumption
<1>0. UNCHANGED dbVars
  BY DEF RunnerStops, ApplyAloneRefused, UpdateService, Replace
<1>1. /\ TableIsTrue'
      /\ schema_migrations \subseteq schema_migrations'
      /\ \A f \in Files : applied[f] = "yes" => applied'[f] = "yes"
  BY <1>0, DatabaseUntouched DEF dbVars
<1>2. ASSUME NEW r \in Runners, RunnerStops(r) \/ ApplyAloneRefused(r)
      PROVE  MigrationsInv'
  <2>1. RunnerExits(r) /\ UNCHANGED serviceVars
    BY <1>2 DEF RunnerStops, ApplyAloneRefused
  <2> QED
    BY <1>0, <1>1, <2>1, ExitKeepsOrder, ServiceUntouched
       DEF MigrationsInv, MigrationsTypeOK, dbVars, serviceVars
<1>3. ASSUME NEW r \in Runners, UpdateService(r)
      PROVE  MigrationsInv'
  <2>1. RunnerExits(r) /\ desired' = release[r] /\ UNCHANGED version
    BY <1>3 DEF UpdateService
  <2>2. desired' \in 0..Latest /\ 1..desired' \subseteq schema_migrations'
    <3>1. file[r] > release[r] /\ file[r] \in Nat /\ release[r] \in Files
      BY <1>3 DEF UpdateService, MigrationsInv, MigrationsTypeOK, RunnerInRelease
    <3>2. 1..release[r] \subseteq 1..(file[r] - 1)
      BY <3>1 DEF Files
    <3> QED
      BY <1>1, <2>1, <3>1, <3>2 DEF MigrationsInv, PassedIsRecorded, Files
  <2>3. ServiceIsRecorded'
    BY <1>1, <2>1, <2>2 DEF MigrationsInv, ServiceIsRecorded
  <2> QED
    BY <1>0, <1>1, <2>1, <2>2, <2>3, ExitKeepsOrder DEF MigrationsInv, MigrationsTypeOK, dbVars
<1>4. ASSUME NEW b \in Backends, Replace(b)
      PROVE  MigrationsInv'
  <2>1. version' = [version EXCEPT ![b] = desired] /\ UNCHANGED <<runnerPc, release, file, desired>>
    BY <1>4 DEF Replace
  <2>2. version' \in [Backends -> 0..Latest] /\ ServiceIsRecorded'
    BY <1>1, <2>1 DEF MigrationsInv, MigrationsTypeOK, ServiceIsRecorded
  <2> QED
    BY <1>0, <1>1, <2>1, <2>2 DEF MigrationsInv, MigrationsTypeOK, dbVars, PassedIsRecorded,
                                  RunnerInRelease, RecordFollowsApply
<1> QED
  BY <1>2, <1>3, <1>4

\* Every step keeps the invariant.
LEMMA MigrationsNextInv ==
    ASSUME MigrationsInv, [MigrationsNext]_migrationVars
    PROVE  MigrationsInv'
<1>1. CASE UNCHANGED migrationVars
  BY <1>1 DEF migrationVars, dbVars, serviceVars, MigrationsInv, MigrationsTypeOK, TableIsTrue,
        PassedIsRecorded, RunnerInRelease, RecordFollowsApply, ServiceIsRecorded, Files
<1>2. CASE \E b \in Backends : Replace(b)
  BY <1>2, ServiceInv
<1>3. ASSUME NEW r \in Runners,
             (\E n \in 1..Latest : StartRunner(r, n)) \/ RunnerSteps(r) \/ RunnerFails(r)
      PROVE  MigrationsInv'
  BY <1>3, ReadingInv, TransactionInv, ApplyAloneInv, RecordInv, ServiceInv
     DEF RunnerSteps, RunnerFails
<1> QED
  BY <1>1, <1>2, <1>3 DEF MigrationsNext

\* The invariant always holds.
THEOREM MigrationsInvariant == MigrationsSpec => []MigrationsInv
<1> QED
  BY MigrationsInitInv, MigrationsNextInv, PTL DEF MigrationsSpec

\* What schema_migrations says is true, however many runners overlap and wherever
\* they stop: the script's order of psql commands is enough.
THEOREM TableIsAlwaysTrue == MigrationsSpec => []TableIsTrue
<1>1. MigrationsInv => TableIsTrue
  BY DEF MigrationsInv
<1> QED
  BY <1>1, MigrationsInvariant, PTL

\* No backend ever runs against a schema older than its release.
THEOREM BackendsHaveSchema == MigrationsSpec => []BackendHasSchema
<1>1. MigrationsInv => BackendHasSchema
  <2> SUFFICES ASSUME MigrationsInv, NEW b \in Backends, NEW f \in 1..version[b]
               PROVE  applied[f] = "yes"
    BY DEF BackendHasSchema
  <2>1. f \in schema_migrations /\ f \in Files
    BY DEF MigrationsInv, ServiceIsRecorded, MigrationsTypeOK
  <2> QED
    BY <2>1 DEF MigrationsInv, TableIsTrue
<1> QED
  BY <1>1, MigrationsInvariant, PTL
=============================================================================
