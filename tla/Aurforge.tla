------------------------------ MODULE Aurforge ------------------------------
(***************************************************************************)
(* The whole system: scheduler, command line, worker, publisher and        *)
(* remover interleave over the shared store, one step of one of them at a  *)
(* time, with upstream and the clock.                                      *)
(***************************************************************************)
EXTENDS Intake, Worker, Publisher, Remover

store == <<tables, locks, disk, published, env, budget>>
vars == <<store, intakeVars, worker, publisher, remover>>

Init == StoreInit /\ IntakeInit /\ WorkerInit /\ PublisherInit /\ RemoverInit

\* The two transactions that wait for each other's rows: PostgreSQL aborts one.
DeadlockedWith(c) == WaitsForJobs(c) /\ WaitsForName /\ intake[c].name = remover.name

Scheduling == SchedulerStep /\ UNCHANGED <<worker, publisher, remover>>
Commanding == CliStep /\ UNCHANGED <<worker, publisher, remover>>
Working == WorkerStep /\ UNCHANGED <<intakeVars, publisher, remover>>
Publishing == PublisherStep /\ UNCHANGED <<intakeVars, worker, remover>>
Removing == RemoverStep /\ UNCHANGED <<intakeVars, worker, publisher>>

Deadlock ==
    \E c \in Creators :
        /\ DeadlockedWith(c)
        /\ \/ AbortCreate(c) /\ UNCHANGED <<worker, publisher, remover>>
           \/ AbortRemove /\ UNCHANGED <<intakeVars, worker, publisher>>

Faults ==
    \/ /\ \/ \E c \in Creators : IntakeFails(c)
          \/ PollFails
       /\ UNCHANGED <<worker, publisher, remover>>
    \/ WorkerCrash /\ UNCHANGED <<intakeVars, publisher, remover>>
    \/ (PubFails \/ PubMarkFails \/ PubCrash) /\ UNCHANGED <<intakeVars, worker, remover>>
    \/ (RmRepoFails \/ RmCrash) /\ UNCHANGED <<intakeVars, worker, publisher>>

Environment ==
    /\ Tick \/ \E n \in Packages : Push(n)
    /\ UNCHANGED <<intakeVars, worker, publisher, remover>>

Next ==
    \/ Scheduling \/ Commanding \/ Working \/ Publishing \/ Removing
    \/ Deadlock \/ Faults \/ Environment

Spec == Init /\ [][Next]_vars

(***************************************************************************)
(* Fairness: compose restarts every service, so each of their loops goes   *)
(* on; a command goes on once it is past its question; the clock runs;     *)
(* PostgreSQL detects deadlocks, and hands a row lock to the statement     *)
(* that waits for it when its holder ends (strong fairness of RmCommit: a  *)
(* later transaction does not overtake it for ever).  Nobody has to give a *)
(* command, and no fault has to happen.                                    *)
(***************************************************************************)
FairSpec ==
    /\ Spec
    /\ WF_vars(Scheduling) /\ WF_vars(Working) /\ WF_vars(Publishing)
    /\ WF_vars((PreviewAUR("cli") \/ Create("cli")) /\ UNCHANGED <<worker, publisher, remover>>)
    /\ WF_vars(RemoveGoesOn /\ UNCHANGED <<intakeVars, worker, publisher>>)
    /\ SF_vars(RmCommit /\ UNCHANGED <<intakeVars, worker, publisher>>)
    /\ WF_vars(Deadlock)
    /\ WF_vars(Tick /\ UNCHANGED <<intakeVars, worker, publisher, remover>>)

\* What following upstream needs of it: scheduler and command go on.
FairIntake ==
    /\ Spec
    /\ WF_vars(Scheduling)
    /\ WF_vars((PreviewAUR("cli") \/ Create("cli")) /\ UNCHANGED <<worker, publisher, remover>>)

-----------------------------------------------------------------------------
(* Types.                                                                  *)

TypeOK ==
    /\ TablesTypeOK /\ DiskTypeOK /\ EnvTypeOK
    /\ IntakeTypeOK /\ WorkerTypeOK /\ PublisherTypeOK /\ RemoverTypeOK

-----------------------------------------------------------------------------
(* Safety.                                                                 *)

\* CreatePackage and skipPendingJobsForPackage (db.go): whatever scheduler,
\* commands, worker and remover do at once, a job that waits to be built is
\* the job of the newest version of its package; a package has one such job
\* at most.
PendingIsNewest ==
    \A j \in DOMAIN jobs : jobs[j].status = "pending" =>
        jobs[j].version \in DOMAIN versions /\ IsLatest(jobs[j].version)

\* CreatePackage and RemovePackage: a version and its job come and go
\* together, so no version is ever without a job that decides its status, and
\* none has two.
VersionsAndJobsPaired ==
    /\ \A j \in DOMAIN jobs : jobs[j].version \in DOMAIN versions
    /\ \A v \in DOMAIN versions : \E j \in DOMAIN jobs : JobsOf({v}) = {j}

\* ClaimJob and RunWorker: a job is running while the worker builds it, and
\* every other one cost a crash of the worker.
Abandoned ==
    {j \in DOMAIN jobs : jobs[j].status = "running" /\ ~(Building /\ j = worker.job)}
RunningIsOwned == Cardinality(Abandoned) <= MaxFaults - budget.faults

\* ClaimJob, skipPendingJobsForPackage, MarkJob: while the worker builds a job,
\* nobody else decides its status (its package may be removed all the same).
BuildHoldsItsJob ==
    Building /\ worker.job \in DOMAIN jobs => jobs[worker.job].status = "running"

\* publishJob and RemovePackage: a published job has an artifact row, the only
\* trace from which remove finds the file it must delete.
PublishedIsRecorded ==
    \A j \in DOMAIN jobs : jobs[j].status = "published" =>
        \E a \in artifacts : a.job = j

\* ClaimJob, MarkJob and publishJob: a job that has been published or has
\* failed keeps that status until its package is removed, whatever the worker
\* and the publisher still hold in their lists.
FinishedStaysFinished ==
    [][\A j \in DOMAIN jobs \cap DOMAIN jobs' :
        jobs[j].status \in {"published", "failed"} => jobs'[j].status = jobs[j].status]_vars

\* RunPublisher ignores an error of its last MarkJob: the job stays built while
\* the jobs after it are published, and is published after them.
PublishedLate(j) == j \in publisher.unmarked

\* ClaimJob's order, one worker and publishJob's order together: clients are
\* offered an older build in place of a newer one only when it is published
\* late, after a failure that could not be marked.
RepoNeverRollsBack ==
    [][\A n \in DOMAIN repo \cap DOMAIN repo' :
        repo'[n].job >= repo[n].job \/ PublishedLate(repo'[n].job)]_vars

\* publishJob: while nothing is removed, the repository offers what a
\* published job has built, or something newer, or a job published late.
JobPkg(j) == versions[jobs[j].version].pkg
NameOf(j) == pkgs[JobPkg(j)].name
PublishedIsServed ==
    \A j \in DOMAIN jobs : jobs[j].status = "published" =>
        /\ NameOf(j) \in DOMAIN repo
        /\ repo[NameOf(j)].job >= j \/ PublishedLate(repo[NameOf(j)].job)

\* publishJob overwrites the file before repo-add knows its checksum: a client
\* sees a file that is not the one of the entry only while its job is built but
\* not published (a crash: the publisher tries again), or has failed.
MismatchIsUnpublished ==
    \A n \in DOMAIN repo :
        LET f == repo[n].file
        IN  /\ f \in DOMAIN files
            /\ files[f] = repo[n].job \/ jobs[files[f]].status \in {"built", "failed"}

-----------------------------------------------------------------------------
(* What makes the safety invariants inductive.                             *)

IdsAreFresh ==
    /\ \A v \in DOMAIN versions : v < ids.version
    /\ \A j \in DOMAIN jobs : j < ids.job

\* RemovePackage: what a remove has read stays whole, a version with its job,
\* though the rows are deleted much later.
RemoverReadsWhole ==
    /\ \A v \in remover.vers : v < ids.version
    /\ \A j \in remover.jbs : j < ids.job
    /\ ~RemoverAt("jobs") =>
        \A j \in DOMAIN jobs : j \in remover.jbs <=> jobs[j].version \in remover.vers
    /\ RemoverAt("jobs") => remover.jbs = {}

\* The part that is about versions and jobs alone.
QueueInv == IdsAreFresh /\ RemoverReadsWhole /\ VersionsAndJobsPaired /\ PendingIsNewest

\* ClaimJob: only CreatePackage touches the job a claim has read.
ClaimHoldsItsJob ==
    /\ worker.pc # "idle" => worker.job < ids.job
    /\ (worker.pc \in {"check", "skip", "claim"} /\ worker.job \in DOMAIN jobs) =>
        jobs[worker.job].status \in {"pending", "skipped"}

\* RunPublisher: nobody else touches a job of its list.
InHand == publisher.queue \cup (IF publisher.pc = "idle" THEN {} ELSE {publisher.job})
PublisherHoldsItsJobs ==
    /\ \A j \in InHand : j < ids.job /\ (j \in DOMAIN jobs => jobs[j].status = "built")
    /\ publisher.pc # "idle" => publisher.job \notin publisher.queue
    /\ (publisher.pc \in {"add", "mark"} /\ publisher.job \in DOMAIN jobs) =>
        \E a \in artifacts : a.job = publisher.job

\* RemovePackage: the artifact rows a remove deletes belong to jobs it deletes.
RemoverArtifacts == \A a \in remover.arts : a.job \in remover.jbs

\* The part that is about the jobs the worker and the publisher hold.
HoldersInv ==
    /\ ClaimHoldsItsJob /\ BuildHoldsItsJob /\ PublisherHoldsItsJobs
    /\ RemoverArtifacts /\ PublishedIsRecorded

IInv == TypeOK /\ QueueInv /\ HoldersInv

\* A cardinality says something of finite sets only.
OwnersInv == IsFiniteSet(Abandoned) /\ RunningIsOwned

\* CreatePackage: rows are numbered upwards, and a creator has read an older one.
RowsAreFresh ==
    /\ \A k \in DOMAIN pkgs : k < ids.pkg
    /\ \A v \in DOMAIN versions : versions[v].pkg \in 1 .. (ids.pkg - 1)
    /\ \A c \in Creators : intake[c].row < ids.pkg

\* RemovePackage: what a remove deletes is of the row it has read.
RemoverOwns == \A v \in remover.vers \cap DOMAIN versions : versions[v].pkg = remover.row

\* The part that the refinement needs besides IInv.
RowsInv == RowsAreFresh /\ RemoverOwns

\* CreatePackage: a name has one row, and a transaction that is about to insert
\* it holds the name, which only it may take.
NamesInv ==
    /\ \A k, l \in DOMAIN pkgs : pkgs[k].name = pkgs[l].name => k = l
    /\ \A v \in DOMAIN versions : versions[v].pkg \in DOMAIN pkgs
    /\ \A c \in Creators :
        /\ intake[c].row # NoRow =>
            intake[c].row \in DOMAIN pkgs /\ pkgs[intake[c].row].name = intake[c].name
        /\ At(c, "commit") =>
            /\ intake[c].name \in nameLocks
            /\ intake[c].row = NoRow => ~Managed(intake[c].name)
            /\ \A d \in Creators \ {c} : At(d, "commit") => intake[d].name # intake[c].name

\* ClaimJob: the jobs of a package are claimed in the order of its versions.
BuildsInOrder ==
    /\ \A j, k \in DOMAIN jobs :
        j < k /\ JobPkg(j) = JobPkg(k) => jobs[j].version < jobs[k].version
    /\ worker.pc # "idle" =>
        /\ worker.job \in DOMAIN jobs /\ worker.version = jobs[worker.job].version
        /\ worker.pc # "check" => worker.row = JobPkg(worker.job)
        /\ Building => worker.name = NameOf(worker.job)
        /\ \A k \in DOMAIN jobs : k > worker.job /\ JobPkg(k) = JobPkg(worker.job) =>
            jobs[k].status \in {"pending", "skipped"}
    /\ \A j \in DOMAIN staging : j \in DOMAIN jobs /\ staging[j][1] = NameOf(j)

\* RunPublisher and publishJob: a built job of a package that is older than one
\* in hand is in hand too and comes first, and one that is older than a
\* published one has been passed over, unless it is published late.
PublishesInOrder ==
    /\ \A k \in InHand : \A j \in DOMAIN jobs :
        j < k /\ JobPkg(j) = JobPkg(k) /\ jobs[j].status = "built" =>
            j \in InHand \/ PublishedLate(j)
    /\ \A j, k \in DOMAIN jobs :
        /\ j < k /\ JobPkg(j) = JobPkg(k)
        /\ jobs[j].status = "built" /\ jobs[k].status = "published"
        => PublishedLate(j)
    /\ InHand \subseteq DOMAIN jobs
    /\ publisher.pc # "idle" => \A j \in publisher.queue : publisher.job < j
    /\ publisher.pc \in {"record", "add", "mark"} => publisher.file[1] = NameOf(publisher.job)
    /\ publisher.pc \in {"record", "add"} =>
        publisher.file \in DOMAIN files /\ files[publisher.file] = publisher.job
    /\ publisher.pc = "mark" =>
        publisher.file[1] \in DOMAIN repo /\ repo[publisher.file[1]].job = publisher.job

\* What the repository holds is of the package it is named for, and no older
\* job of that package waits to be published, but those published late.
RepoInOrder ==
    /\ \A f \in DOMAIN files : files[f] \in DOMAIN jobs /\ f[1] = NameOf(files[f])
    /\ \A n \in DOMAIN repo :
        LET k == repo[n].job
        IN  /\ repo[n].file[1] = n /\ k \in DOMAIN jobs /\ NameOf(k) = n
            /\ jobs[k].status \in {"built", "published", "failed"}
            /\ \A j \in DOMAIN jobs :
                jobs[j].status = "built" /\ NameOf(j) = n => k <= j \/ PublishedLate(j)

\* The part that the properties of the repository need besides IInv and
\* RowsInv, while nothing is removed.
ServedInv ==
    /\ RemoverAt("idle") /\ budget.removals = 0
    /\ NamesInv /\ BuildsInOrder /\ PublishesInOrder /\ RepoInOrder
    /\ PublishedIsServed /\ MismatchIsUnpublished

-----------------------------------------------------------------------------
(* Liveness.                                                               *)

Status(j, s) == j \in DOMAIN jobs /\ jobs[j].status = s
\* A row orders a revision once, and a removal makes way for one more row.
JobIds == 1 .. ((Cardinality(Packages) + MaxRemovals) * Cardinality(Revisions))

\* ClaimJob: a pending job is claimed in the end, unless a newer version of its
\* package supersedes it.
HasNewer(v) == \E w \in VersionsOf(versions[v].pkg) : w > v
PendingIsClaimed ==
    \A j \in JobIds :
        Status(j, "pending") ~>
            (Status(j, "running") \/ (j \in DOMAIN jobs /\ HasNewer(jobs[j].version)))

\* RunPublisher: a built job is published, fails, or is removed in the end,
\* though the publisher crashes.
BuiltIsPublished ==
    \A j \in JobIds : Status(j, "built") ~> ~Status(j, "built")

\* refreshAUR and refreshLocal: the revision upstream settles on gets a
\* version, and with it a job.
Followed == Packages \ (LocalPackages \ SelfUpdating)
UpstreamIsRecorded ==
    \A n \in Followed :
        Managed(n) ~> (Managed(n) =>
            \E v \in DOMAIN versions : versions[v].pkg \in RowOf(n) /\ versions[v].rev = head[n])

\* RemovePackage: the command ends, whoever holds the rows it wants.
RemoveEnds == ~RemoverAt("idle") ~> RemoverAt("idle")

-----------------------------------------------------------------------------
(* Refinement.                                                             *)

\* What BuildQueue calls an order is a job with the row and the revision of
\* its version.
Orders ==
    [j \in DOMAIN jobs |->
        [pkg |-> versions[jobs[j].version].pkg, rev |-> versions[jobs[j].version].rev,
         status |-> jobs[j].status]]

Queue == INSTANCE BuildQueue WITH
    Rows <- Nat, Revisions <- Revisions, orders <- Orders, next <- ids.job

\* CreatePackage, ClaimJob, MarkJob, JobArtifacts and RemovePackage together:
\* whatever order their statements interleave in, the jobs they leave are a
\* queue in which revisions are ordered once and orders only move forward.
ImplementsQueue == Queue!Spec
=============================================================================
