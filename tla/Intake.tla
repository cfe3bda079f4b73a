------------------------------- MODULE Intake -------------------------------
(***************************************************************************)
(* The two ways a revision enters the queue: the scheduler's polls         *)
(* (refreshAUR, refreshLocal) and the command line's add and update.  Both *)
(* preview a revision, snapshot it (AcceptAUR, AcceptLocal) and record it  *)
(* in one transaction (CreatePackage), in processes of their own that      *)
(* share the preview directory, the snapshots and the database.            *)
(***************************************************************************)
EXTENDS Store

CONSTANT SelfUpdating   \* the local packages that carry update-pkgbuild.sh

ASSUME SelfUpdatingAssumption == SelfUpdating \subseteq LocalPackages

VARIABLES
    intake,     \* creator -> where it is, and what it remembers
    round       \* the scheduler's refresh: the kind it lists next, the rows left

intakeVars == <<intake, round>>

Creators == {"scheduler", "cli"}

NoRow == 0
Preview(pc, n, r) == [pc |-> pc, name |-> n, row |-> NoRow, rev |-> r, eligible |-> 0]
IdleCreator == Preview("idle", NoPackage, NoRevision)

IntakeInit ==
    /\ intake = [c \in Creators |-> IdleCreator]
    /\ round = [kind |-> "aur", todo |-> {}]

\* What an import of a package starts with: PreviewAUR, or PreviewLocal at once.
Previewed(n) ==
    IF Kind(n) = "aur" THEN Preview("clear", n, NoRevision) ELSE Preview("accept", n, head[n])

At(c, pc) == intake[c].pc = pc
Goto(c, state) == intake' = [intake EXCEPT ![c] = state]

\* An error leaves the refresh with the rest of its packages not polled
\* (refreshAUR and refreshLocal return), or ends the command (fatal).
Abandon(c) ==
    /\ Goto(c, IdleCreator)
    /\ round' = IF c = "scheduler" THEN [round EXCEPT !.todo = {}] ELSE round

-----------------------------------------------------------------------------
(* The scheduler.                                                          *)

\* refreshAUR and refreshLocal in turn: list the managed packages of a kind.
PollList ==
    /\ At("scheduler", "idle") /\ round.todo = {}
    /\ LET listed == {k \in DOMAIN pkgs : Kind(pkgs[k].name) = round.kind}
       IN  round' = [kind |-> IF round.kind = "aur" THEN "local" ELSE "aur",
                     todo |-> {[row |-> k, name |-> pkgs[k].name] : k \in listed}]
    /\ UNCHANGED <<intake, tables, locks, disk, published, env, budget>>

\* One package of the list: ls-remote (or update-pkgbuild.sh and PreviewLocal),
\* and nothing to do when the listed row already has that revision.
PollCheck ==
    /\ At("scheduler", "idle")
    /\ \E p \in round.todo :
        /\ round' = [round EXCEPT !.todo = @ \ {p}]
        /\ IF \/ Recorded(p.row, head[p.name])
              \/ p.name \in LocalPackages \ SelfUpdating
           THEN UNCHANGED intake
           ELSE Goto("scheduler", Previewed(p.name))
    /\ UNCHANGED <<tables, locks, disk, published, env, budget>>

-----------------------------------------------------------------------------
(* The command line.                                                       *)

\* add and update: PreviewAUR or PreviewLocal, then the question.
CliPreview(n) ==
    /\ budget.adds > 0 /\ At("cli", "idle")
    /\ budget' = [budget EXCEPT !.adds = @ - 1]
    /\ Goto("cli", Previewed(n))
    /\ UNCHANGED <<round, tables, locks, disk, published, env>>

\* The answer is no.
CliDecline ==
    /\ At("cli", "accept")
    /\ Abandon("cli")
    /\ UNCHANGED <<tables, locks, disk, published, env, budget>>

-----------------------------------------------------------------------------
(* PreviewAUR, the same for both, in a directory that both use.            *)

PreviewStep(c, content, state) ==
    /\ preview' = [preview EXCEPT ![intake[c].name] = content]
    /\ Goto(c, state)
    /\ UNCHANGED <<round, tables, locks, sources, staging, published, env, budget>>

\* RemoveAll.
PreviewClear(c) ==
    /\ At(c, "clear")
    /\ PreviewStep(c, NoRevision, Preview("clone", intake[c].name, NoRevision))

\* git clone, which refuses a directory that is there again.
PreviewClone(c) ==
    LET n == intake[c].name
    IN  /\ At(c, "clone") /\ preview[n] = NoRevision
        /\ PreviewStep(c, head[n], Preview("read", n, NoRevision))

\* git rev-parse, in whichever clone is there by now.
PreviewRead(c) ==
    LET n == intake[c].name
    IN  /\ At(c, "read") /\ preview[n] # NoRevision
        /\ PreviewStep(c, preview[n], Preview("inspect", n, preview[n]))

\* ParsePackage, HashTree and AuditPackage need the clone once more.
PreviewInspect(c) ==
    LET n == intake[c].name
    IN  /\ At(c, "inspect") /\ preview[n] # NoRevision
        /\ PreviewStep(c, preview[n], [intake[c] EXCEPT !.pc = "accept"])

\* The other process has cloned, deleted or moved the directory meanwhile: the
\* scheduler goes on to the next package, the command ends.
PreviewError(c) ==
    LET content == preview[intake[c].name]
    IN  /\ IF At(c, "clone") THEN content # NoRevision
           ELSE (At(c, "read") \/ At(c, "inspect")) /\ content = NoRevision
        /\ PreviewStep(c, content, IdleCreator)

PreviewAUR(c) ==
    \/ PreviewClear(c) \/ PreviewClone(c) \/ PreviewRead(c) \/ PreviewInspect(c)
    \/ PreviewError(c)

-----------------------------------------------------------------------------
(* AcceptAUR, AcceptLocal and CreatePackage, the same for both.            *)

\* What a snapshot taken now would hold: the shared clone, which AcceptAUR
\* moves away, or the import directory, which AcceptLocal copies.
Offered(n) == IF Kind(n) = "aur" THEN preview[n] ELSE head[n]

\* Snapshot unless the target exists, and read the commit time of what is there.
Accept(c) ==
    LET n == intake[c].name
        target == <<n, intake[c].rev>>
        present == target \in DOMAIN sources
        content == IF present THEN sources[target] ELSE Offered(n)
    IN  /\ At(c, "accept")
        /\ IF content = NoRevision
           THEN Abandon(c) /\ UNCHANGED <<sources, preview>>
           ELSE /\ sources' = IF present THEN sources ELSE Insert(sources, target, content)
                /\ preview' = IF present \/ Kind(n) = "local" THEN preview
                              ELSE [preview EXCEPT ![n] = NoRevision]
                /\ Goto(c, [intake[c] EXCEPT
                      !.pc = "find",
                      !.eligible = IF Kind(n) = "local" THEN now
                                   ELSE EligibleAtFromCommit(CommitTime[content])])
                /\ UNCHANGED round
        /\ UNCHANGED <<tables, locks, staging, published, env, budget>>

\* The transaction of CreatePackage opens with the SELECT of the managed row.
TxFind(c) ==
    LET n == intake[c].name
    IN  /\ At(c, "find")
        /\ \E row \in IF Managed(n) THEN RowOf(n) ELSE {NoRow} :
             Goto(c, [intake[c] EXCEPT !.pc = "save", !.row = row])
        /\ UNCHANGED <<round, tables, locks, disk, published, env, budget>>

\* UPDATE the row that was found (NotFound when it is gone), or INSERT one (a
\* unique violation when the name is taken).  Either waits for the name.
TxSave(c) ==
    LET n == intake[c].name
        row == intake[c].row
    IN  /\ At(c, "save") /\ n \notin nameLocks
        /\ IF (row # NoRow /\ row \in DOMAIN pkgs) \/ (row = NoRow /\ ~Managed(n))
           THEN /\ nameLocks' = nameLocks \cup {n}
                /\ Goto(c, [intake[c] EXCEPT !.pc = "commit"])
                /\ UNCHANGED round
           ELSE Abandon(c) /\ UNCHANGED nameLocks
        /\ UNCHANGED <<tables, jobLocks, disk, published, env, budget>>

\* Faulty variants: nothing is skipped; the job that is being built is, too.
NothingSuperseded(row) == {}
UnfinishedJobs(row) ==
    {j \in JobsOf(VersionsOf(row)) : jobs[j].status \in {"pending", "running"}}

\* skipPendingJobsForPackage: the jobs it sets to skipped.
Superseded(row) == {j \in JobsOf(VersionsOf(row)) : jobs[j].status = "pending"}

\* A new version makes the transaction wait for a job the remover has deleted.
IsNew(c) == ~Recorded(intake[c].row, intake[c].rev)
WaitsForJobs(c) ==
    At(c, "commit") /\ IsNew(c) /\ Superseded(intake[c].row) \cap jobLocks # {}

\* The rest of CreatePackage: the managed row, the version unless the revision
\* is recorded, the skipping of what it supersedes, its job, COMMIT.
TxCommit(c) ==
    LET n == intake[c].name
        r == intake[c].rev
        found == intake[c].row # NoRow
        row == IF found THEN intake[c].row ELSE ids.pkg
        version == ids.version
    IN  /\ At(c, "commit") /\ ~WaitsForJobs(c)
        /\ pkgs' = Insert(pkgs, row, [name |-> n, path |-> r])
        /\ IF IsNew(c)
           THEN /\ versions' = Insert(versions, version, [pkg |-> row, rev |-> r])
                /\ jobs' = Insert(WithStatus(Superseded(row), "skipped"), ids.job,
                                  [version |-> version, status |-> "pending",
                                   eligible |-> intake[c].eligible])
                /\ ids' = [pkg |-> IF found THEN ids.pkg ELSE ids.pkg + 1,
                           version |-> ids.version + 1, job |-> ids.job + 1]
           ELSE UNCHANGED <<versions, jobs, ids>>
        /\ nameLocks' = nameLocks \ {n}
        /\ Goto(c, IdleCreator)
        /\ UNCHANGED <<round, artifacts, jobLocks, disk, published, env, budget>>

\* Faulty variant: without the deferred Rollback.
AbortWithoutRollback(c) ==
    /\ WaitsForJobs(c)
    /\ Abandon(c)
    /\ UNCHANGED <<tables, locks, disk, published, env, budget>>

\* PostgreSQL ends a deadlock by aborting one of the transactions.
AbortCreate(c) ==
    /\ WaitsForJobs(c)
    /\ nameLocks' = nameLocks \ {intake[c].name}
    /\ Abandon(c)
    /\ UNCHANGED <<tables, jobLocks, disk, published, env, budget>>

\* A failing git command or query, or a crash: the transaction rolls back.
IntakeFails(c) ==
    /\ ~At(c, "idle")
    /\ Fault
    /\ nameLocks' = IF At(c, "commit") THEN nameLocks \ {intake[c].name} ELSE nameLocks
    /\ Abandon(c)
    /\ UNCHANGED <<tables, jobLocks, disk, published, env>>

\* Where a process may be in PreviewAUR.
Previewing(c) == \E pc \in {"clear", "clone", "read", "inspect"} : At(c, pc)

\* ls-remote, the updater or PreviewAUR fails: on to the next package.  The
\* query for the revision fails: the rest of the list is dropped.
PollFails ==
    /\ Fault
    /\ \/ /\ At("scheduler", "idle")
          /\ \E p \in round.todo : round' = [round EXCEPT !.todo = @ \ {p}]
          /\ UNCHANGED intake
       \/ At("scheduler", "idle") /\ round.todo # {} /\ Abandon("scheduler")
       \/ Previewing("scheduler") /\ Goto("scheduler", IdleCreator) /\ UNCHANGED round
    /\ UNCHANGED <<tables, locks, disk, published, env>>

-----------------------------------------------------------------------------
Create(c) == Accept(c) \/ TxFind(c) \/ TxSave(c) \/ TxCommit(c)

SchedulerStep == PollList \/ PollCheck \/ PreviewAUR("scheduler") \/ Create("scheduler")
CliStep ==
    (\E n \in Packages : CliPreview(n)) \/ PreviewAUR("cli") \/ CliDecline \/ Create("cli")

\* Before and after rev-parse.
Cloning ==
    [pc : {"clear", "clone", "read"}, name : Packages, row : {NoRow}, rev : {NoRevision},
     eligible : {0}]
BusyCreator ==
    [pc : {"inspect", "accept", "find", "save", "commit"}, name : Packages, row : Nat,
     rev : Revisions, eligible : Int]

IntakeTypeOK ==
    /\ intake \in [Creators -> Cloning \cup BusyCreator \cup {IdleCreator}]
    /\ round \in [kind : {"aur", "local"}, todo : SUBSET [row : Nat, name : Packages]]
=============================================================================
