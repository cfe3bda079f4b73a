------------------------------- MODULE Records -------------------------------
(***************************************************************************)
(* The functions of db.go, and what publishJob and RemovePackage ask of    *)
(* the database, transaction by transaction and column by column through   *)
(* the generated client: one import or removal at a time, with worker and  *)
(* publisher beside it, and failures of any statement.  A query and the    *)
(* write that it decides are one step.  Two transactions beside each other,*)
(* and a package that is published while it is removed, are left to        *)
(* Aurforge, which has all callers at once and leaves columns out.         *)
(***************************************************************************)
EXTENDS Ent

CONSTANTS
    Names, Revisions,   \* packages, and what their sources may be at
    Deps,               \* revision -> sequence of [name, aur], without repetition
    Delay,              \* revision -> what is left of its delay when it is recorded
    Files,              \* what a build leaves in the staging directory
    MaxCalls, MaxFaults

\* A revision names a dependency once.
ASSUME RecordsAssumption ==
    /\ Names \subseteq STRING /\ Revisions \subseteq STRING /\ Files \subseteq STRING
    /\ Delay \in [Revisions -> Nat]
    /\ \A r \in Revisions :
        /\ Deps[r] \in Seq([name : STRING, aur : BOOLEAN])
        /\ \A i, j \in DOMAIN Deps[r] : Deps[r][i].name = Deps[r][j].name => i = j

\* The texts that the program itself writes.  (TLC knows that they are strings,
\* and so not Null; the provers have to be told.)
Written ==
    {"pending", "running", "built", "published", "failed", "skipped", "build", "aur", "repo",
     "1", "job.log", "superseded", "build_failed", "publish_failed"}
ASSUME WrittenAssumption == Written \subseteq STRING

Artifacts == INSTANCE EntArtifact
Dependencies == INSTANCE EntDependency
Jobs == INSTANCE EntJob
ManagedPackages == INSTANCE EntManagedPackage
PackageVersions == INSTANCE EntPackageVersion

VARIABLES
    db,         \* the committed tables
    tx,         \* what the open transaction sees, or NoTransaction
    next,       \* table -> the id its next row gets
    call,       \* what scheduler or command runs: statement, locals
    worker,     \* the next statement of the worker, and the job it has chosen
    publisher,  \* the next statement of publishJob, its job and remaining files
    now,        \* every call comes later than the one before it
    faults      \* statements that have failed

recordVars == <<db, tx, next, call, worker, publisher, now, faults>>

Tables == {"artifacts", "dependencies", "jobs", "packages", "versions"}
NoTransaction == << >>
Idle == [fn |-> "none", err |-> "none"]
Resting == [pc |-> "rest", job |-> Null]
NotPublishing == [pc |-> "rest", job |-> Null, todo |-> {}, err |-> "none"]

RecordsInit ==
    /\ db = [t \in Tables |-> << >>] /\ tx = NoTransaction
    /\ next = [t \in Tables |-> 1]
    /\ call = Idle /\ worker = Resting /\ publisher = NotPublishing
    /\ now = 0 /\ faults = 0

\* A builder's changes: SetX for every field of r.
Setting(r) == [NoChange EXCEPT !.set = r]

\* An import or a removal, when no other one runs: this is what the module
\* leaves out of the program, where scheduler and commands are not kept apart.
Begins(c) ==
    /\ call.fn = "none" /\ now < MaxCalls
    /\ now' = now + 1 /\ call' = c
    /\ UNCHANGED <<db, next, worker, publisher, faults>>

At(fn, pc) == call.fn = fn /\ call.pc = pc

\* A read: the call goes on with what it found.
Continues(c) == call' = c /\ UNCHANGED <<db, tx, next, worker, publisher, now, faults>>

\* A write inside the transaction; an error ends the call, and with it the
\* transaction.
Writes(t, outcome, c) ==
    IF outcome.err = "none"
    THEN /\ tx' = [tx EXCEPT ![t] = outcome.table]
         /\ next' = [next EXCEPT ![t] = IF @ \in DOMAIN outcome.table THEN @ + 1 ELSE @]
         /\ call' = c
         /\ UNCHANGED <<db, worker, publisher, now, faults>>
    ELSE /\ tx' = NoTransaction /\ call' = [Idle EXCEPT !.err = outcome.err]
         /\ UNCHANGED <<db, next, worker, publisher, now, faults>>

Ends(err) ==
    /\ call' = [Idle EXCEPT !.err = err] /\ tx' = NoTransaction
    /\ UNCHANGED <<db, next, worker, publisher, now, faults>>

Commits ==
    /\ db' = tx /\ tx' = NoTransaction /\ call' = Idle
    /\ UNCHANGED <<next, worker, publisher, now, faults>>

\* Worker and publisher commit one row at a time, which the open transaction
\* then sees.  A job that is changed must not be locked by that transaction.
LockedByTx(j) ==
    tx # NoTransaction /\ j \in DOMAIN db.jobs /\ (j \notin DOMAIN tx.jobs \/ tx.jobs[j] # db.jobs[j])
CommitsRow(t, i, row) ==
    /\ db' = [db EXCEPT ![t] = Assigned(@, i, row)]
    /\ tx' = IF tx = NoTransaction THEN tx ELSE [tx EXCEPT ![t] = Assigned(@, i, row)]

WorkerWrites(j, row, w) ==
    /\ CommitsRow("jobs", j, row) /\ worker' = w
    /\ UNCHANGED <<next, call, publisher, now, faults>>
WorkerContinues(w) == worker' = w /\ UNCHANGED <<db, tx, next, call, publisher, now, faults>>
\* From its UPDATE to its COMMIT the worker holds the row of its job.
LockedByWorker(j) == worker.pc = "commit" /\ worker.job = j

-----------------------------------------------------------------------------
(* CreatePackage.                                                          *)

CreateBegin(name, rev, eligible) ==
    /\ Begins([fn |-> "create", pc |-> "managed", name |-> name, rev |-> rev,
               eligible |-> eligible, version |-> Null, todo |-> << >>])
    /\ tx' = db

CreateManaged ==
    /\ At("create", "managed")
    /\ LET found == Only(Matching(tx.packages,
                        {Where("name", "EQ", call.name)}, ManagedPackages!Predicates))
           set == [source_kind |-> "aur", source_ref |-> call.name, source_path |-> call.rev]
       IN  IF found.err = "not_found"
           THEN Writes("packages",
                    ManagedPackages!Create(tx.packages, next.packages,
                        Setting([c \in DOMAIN set \cup {"name", "created_at"} |->
                            CASE c = "name" -> call.name [] c = "created_at" -> now
                              [] OTHER -> set[c]]), now),
                    [call EXCEPT !.pc = "version"])
           ELSE Writes("packages",
                    ManagedPackages!UpdateOne(tx.packages, found.id, Setting(set), now),
                    [call EXCEPT !.pc = "version"])

PackageId == CHOOSE k \in DOMAIN tx.packages : tx.packages[k].name = call.name

CreateVersion ==
    /\ At("create", "version")
    /\ LET found == Only(Matching(tx.versions,
                        {Where("package_id", "EQ", PackageId), Where("revision", "EQ", call.rev)},
                        PackageVersions!Predicates))
       IN  IF found.err = "not_found"
           THEN Writes("versions",
                    PackageVersions!Create(tx.versions, next.versions,
                        Setting([package_id |-> PackageId, revision |-> call.rev,
                                 source_digest |-> call.rev, pkgver |-> call.rev, pkgrel |-> "1",
                                 metadata |-> {call.name}, first_seen_at |-> now])),
                    [call EXCEPT !.pc = "dependencies", !.version = next.versions,
                                 !.todo = Deps[call.rev]])
           ELSE Continues([call EXCEPT !.pc = "commit"])

depKind(aur) == IF aur THEN "aur" ELSE "repo"

CreateDependency ==
    /\ At("create", "dependencies")
    /\ IF call.todo = << >> THEN Continues([call EXCEPT !.pc = "skip"])
       ELSE Writes("dependencies",
                Dependencies!Create(tx.dependencies, next.dependencies,
                    Setting([package_version_id |-> call.version,
                             dependency_name |-> Head(call.todo).name,
                             dependency_kind |-> depKind(Head(call.todo).aur)])),
                [call EXCEPT !.todo = Tail(@)])

Skipping == Setting([status |-> "skipped", finished_at |-> now, error |-> "superseded"])

skipPendingJobsForPackage ==
    /\ At("create", "skip")
    /\ LET others == Matching(tx.versions,
                        {Where("package_id", "EQ", PackageId), Where("id", "NEQ", call.version)},
                        PackageVersions!Predicates)
           pending == {Where("status", "EQ", "pending"), Where("package_version_id", "In", others)}
       IN  /\ ~\E j \in Matching(tx.jobs, pending, Jobs!Predicates) : LockedByWorker(j)
           /\ IF others = {} THEN Continues([call EXCEPT !.pc = "job"])
              ELSE Writes("jobs", Jobs!Update(tx.jobs, pending, Skipping),
                       [call EXCEPT !.pc = "job"])

CreateJob ==
    /\ At("create", "job")
    /\ Writes("jobs",
           Jobs!Create(tx.jobs, next.jobs,
               Setting([package_version_id |-> call.version, eligible_at |-> call.eligible,
                        created_at |-> now])),
           [call EXCEPT !.pc = "commit"])

CreateCommit == At("create", "commit") /\ Commits

CreatePackage ==
    \/ CreateManaged \/ CreateVersion \/ CreateDependency
    \/ skipPendingJobsForPackage \/ CreateJob \/ CreateCommit

-----------------------------------------------------------------------------
(* ClaimJob, MarkJob, JobArtifacts.                                        *)

ClaimBegin ==
    /\ worker = Resting /\ now < MaxCalls
    /\ now' = now + 1 /\ worker' = [worker EXCEPT !.pc = "select"]
    /\ UNCHANGED <<db, tx, next, call, publisher, faults>>

ClaimSelect ==
    /\ worker.pc = "select"
    /\ LET found == First(db.jobs,
                        Matching(db.jobs,
                            {Where("status", "EQ", "pending"), Where("eligible_at", "LTE", now)},
                            Jobs!Predicates),
                        <<Asc("eligible_at"), Asc("id")>>)
       IN  WorkerContinues(IF found.err = "not_found" THEN Resting
                           ELSE [pc |-> "latest", job |-> found.id])

\* Get of the version and the query for the latest one of its package.
ClaimLatest ==
    /\ worker.pc = "latest"
    /\ LET job == Get(db.jobs, worker.job)
           version == IF job.err = "none"
                      THEN Get(db.versions, db.jobs[worker.job].package_version_id) ELSE job
           siblings == Matching(db.versions,
                {Where("package_id", "EQ", db.versions[version.id].package_id)},
                PackageVersions!Predicates)
           latest == First(db.versions, siblings, <<Desc("first_seen_at"), Desc("id")>>)
       IN  WorkerContinues(
               IF version.err # "none" THEN Resting
               ELSE [worker EXCEPT !.pc = IF latest.id = version.id THEN "take" ELSE "skip"])

\* UpdateOne and COMMIT of the skip, and the next round of the loop.
ClaimSkip ==
    /\ worker.pc = "skip" /\ ~LockedByTx(worker.job)
    /\ LET outcome == Jobs!UpdateOne(db.jobs, worker.job, Skipping)
       IN  IF outcome.err # "none" THEN WorkerContinues(Resting)
           ELSE WorkerWrites(worker.job, outcome.table[worker.job],
                    [pc |-> "select", job |-> Null])

ClaimTake ==
    /\ worker.pc = "take" /\ ~LockedByTx(worker.job)
    /\ WorkerContinues(IF worker.job \in DOMAIN db.jobs
                       THEN [worker EXCEPT !.pc = "commit"] ELSE Resting)

\* Faulty variant: the attempt is counted and its time is not kept.
ClaimedWithoutTime(j) ==
    Jobs!UpdateOne(db.jobs, j,
        Setting([status |-> "running", attempts |-> db.jobs[j].attempts + 1]))

\* The row as it is committed; no other attempt counts in between, since only
\* a pending job is chosen.
Claimed(j) ==
    Jobs!UpdateOne(db.jobs, j,
        Setting([status |-> "running", claimed_at |-> now, attempts |-> db.jobs[j].attempts + 1]))

\* Get of the package, then COMMIT, or a rollback without it.
ClaimCommit ==
    /\ worker.pc = "commit"
    /\ LET version == Get(db.versions, db.jobs[worker.job].package_version_id)
           pkg == IF version.err = "none"
                  THEN Get(db.packages, db.versions[version.id].package_id) ELSE version
       IN  IF pkg.err # "none" THEN WorkerContinues(Resting)
           ELSE WorkerWrites(worker.job, Claimed(worker.job).table[worker.job],
                    [worker EXCEPT !.pc = "build"])

ClaimJob == ClaimSelect \/ ClaimLatest \/ ClaimSkip \/ ClaimTake \/ ClaimCommit

\* SetLogPath and SetError are called for what is not empty.
MarkJob(t, id, time, status, logPath, failure) ==
    Jobs!UpdateOne(t, id,
        Setting([c \in {"status", "finished_at"} \cup (IF logPath # "" THEN {"log_path"} ELSE {})
                        \cup (IF failure # "" THEN {"error"} ELSE {}) |->
            CASE c = "status" -> status [] c = "finished_at" -> time
              [] c = "log_path" -> logPath [] c = "error" -> failure]))

WorkerMark(failure) ==
    /\ worker.pc = "build" /\ now < MaxCalls /\ ~LockedByTx(worker.job)
    /\ LET outcome == MarkJob(db.jobs, worker.job, now + 1,
                    IF failure = "" THEN "built" ELSE "failed", "job.log", failure)
       IN  IF outcome.err # "none" THEN UNCHANGED <<db, tx>>
           ELSE CommitsRow("jobs", worker.job, outcome.table[worker.job])
    /\ worker' = Resting /\ now' = now + 1
    /\ UNCHANGED <<next, call, publisher, faults>>

-----------------------------------------------------------------------------
(* The statements of publishJob and RunPublisher, none in a transaction.   *)

\* The package of a job.
NameOf(j) == db.packages[db.versions[db.jobs[j].package_version_id].package_id].name

PublisherContinues(p) == publisher' = p /\ UNCHANGED <<db, tx, next, call, worker, now, faults>>

\* (The guard on the removed package is the module's own: see its head.)
PublishBegin(id) ==
    /\ publisher.pc = "rest" /\ now < MaxCalls
    /\ id \in Matching(db.jobs, {Where("status", "EQ", "built")}, Jobs!Predicates)
    /\ call.fn = "remove" => NameOf(id) # call.name
    /\ now' = now + 1
    /\ publisher' = [pc |-> "artifact", job |-> id, todo |-> Files, err |-> "none"]
    /\ UNCHANGED <<db, tx, next, call, worker, faults>>

Published(f) ==
    Artifacts!Create(db.artifacts, next.artifacts,
        Setting([job_id |-> publisher.job, filename |-> f, sha256 |-> f,
                 size_bytes |-> 1, published_at |-> now]))

RecordsArtifact(f) ==
    IF Published(f).err # "none"
    THEN PublisherContinues([NotPublishing EXCEPT !.err = Published(f).err])
    ELSE /\ CommitsRow("artifacts", next.artifacts, Published(f).table[next.artifacts])
         /\ next' = [next EXCEPT !.artifacts = @ + 1]
         /\ publisher' = [publisher EXCEPT !.todo = @ \ {f}]
         /\ UNCHANGED <<call, worker, now, faults>>

\* Faulty variant: the row is created whether it is there or not.
PublishArtifactAlways ==
    /\ publisher.pc = "artifact"
    /\ IF publisher.todo = {} THEN PublisherContinues([publisher EXCEPT !.pc = "published"])
       ELSE RecordsArtifact(CHOOSE f \in publisher.todo : TRUE)

PublishArtifact ==
    /\ publisher.pc = "artifact"
    /\ IF publisher.todo = {} THEN PublisherContinues([publisher EXCEPT !.pc = "published"])
       ELSE LET f == CHOOSE f \in publisher.todo : TRUE
            IN  IF Exist(Matching(db.artifacts,
                        {Where("job_id", "EQ", publisher.job), Where("filename", "EQ", f)},
                        Artifacts!Predicates))
                THEN PublisherContinues([publisher EXCEPT !.todo = @ \ {f}])
                ELSE RecordsArtifact(f)

\* The statement that ends the publication.
PublicationEnds(outcome) ==
    /\ ~LockedByTx(publisher.job)
    /\ IF outcome.err # "none" THEN UNCHANGED <<db, tx>>
       ELSE CommitsRow("jobs", publisher.job, outcome.table[publisher.job])
    /\ publisher' = [NotPublishing EXCEPT !.err = outcome.err]
    /\ UNCHANGED <<next, call, worker, now>>

JobArtifacts ==
    /\ publisher.pc = "published"
    /\ PublicationEnds(
            Jobs!UpdateOne(db.jobs, publisher.job,
                Setting([status |-> "published", finished_at |-> now])))
    /\ UNCHANGED faults

\* RunPublisher marks the job failed after an error.
PublishFails ==
    /\ publisher.pc # "rest" /\ faults < MaxFaults
    /\ faults' = faults + 1
    /\ PublicationEnds(MarkJob(db.jobs, publisher.job, now, "failed", "", "publish_failed"))

\* It ignores an error of that, or its process stops: what has been written stays.
PublisherStops ==
    /\ publisher.pc # "rest" /\ faults < MaxFaults
    /\ faults' = faults + 1 /\ publisher' = NotPublishing
    /\ UNCHANGED <<db, tx, next, call, worker, now>>

-----------------------------------------------------------------------------
(* RemovePackage.                                                          *)

\* (So is the guard here.)
RemoveBegin(name) ==
    /\ publisher.pc # "rest" => NameOf(publisher.job) # name
    /\ Begins([fn |-> "remove", pc |-> "read", name |-> name, pkg |-> Null,
               versions |-> {}, jobs |-> {}])
    /\ tx' = tx

RemoveRead ==
    /\ At("remove", "read")
    /\ LET pkg == Only(Matching(db.packages,
                        {Where("name", "EQ", call.name)}, ManagedPackages!Predicates))
           versions == Matching(db.versions,
                        {Where("package_id", "EQ", pkg.id)}, PackageVersions!Predicates)
           jobs == Matching(db.jobs,
                        {Where("package_version_id", "In", versions)}, Jobs!Predicates)
       IN  IF pkg.err # "none" THEN Ends(pkg.err)
           ELSE IF \E j \in jobs : db.jobs[j].status = "running" THEN Ends("running")
           ELSE /\ call' = [call EXCEPT !.pc = "artifacts", !.pkg = pkg.id,
                                         !.versions = versions, !.jobs = jobs]
                /\ tx' = db
                /\ UNCHANGED <<db, next, worker, publisher, now, faults>>

RemoveArtifacts ==
    /\ At("remove", "artifacts")
    /\ Writes("artifacts", Artifacts!Delete(tx.artifacts, {Where("job_id", "In", call.jobs)}),
           [call EXCEPT !.pc = "jobs"])
RemoveJobs ==
    /\ At("remove", "jobs") /\ ~\E j \in call.jobs : LockedByWorker(j)
    /\ Writes("jobs", Jobs!Delete(tx.jobs, {Where("id", "In", call.jobs)}),
           [call EXCEPT !.pc = "dependencies"])
\* Faulty variant: the ids of the jobs in place of those of the versions.
RemoveDependenciesOfJobs ==
    /\ At("remove", "dependencies")
    /\ Writes("dependencies",
           Dependencies!Delete(tx.dependencies, {Where("package_version_id", "In", call.jobs)}),
           [call EXCEPT !.pc = "versions"])

RemoveDependencies ==
    /\ At("remove", "dependencies")
    /\ Writes("dependencies",
           Dependencies!Delete(tx.dependencies,
               {Where("package_version_id", "In", call.versions)}),
           [call EXCEPT !.pc = "versions"])
RemoveVersions ==
    /\ At("remove", "versions")
    /\ Writes("versions", PackageVersions!Delete(tx.versions, {Where("id", "In", call.versions)}),
           [call EXCEPT !.pc = "package"])
RemoveManaged ==
    /\ At("remove", "package")
    /\ Writes("packages", DeleteOne(tx.packages, call.pkg), [call EXCEPT !.pc = "commit"])
RemoveCommit == At("remove", "commit") /\ Commits

RemovePackage ==
    \/ RemoveRead \/ RemoveArtifacts \/ RemoveJobs \/ RemoveDependencies
    \/ RemoveVersions \/ RemoveManaged \/ RemoveCommit

-----------------------------------------------------------------------------
\* A statement fails, or the process that runs the call stops.
StatementFails ==
    /\ call.fn # "none" /\ faults < MaxFaults
    /\ faults' = faults + 1 /\ tx' = NoTransaction /\ call' = Idle
    /\ UNCHANGED <<db, next, worker, publisher, now>>

\* The worker's claim fails or its process stops: before the commit nothing is
\* left of it, after it the job stays running.
WorkerStops ==
    /\ worker # Resting /\ faults < MaxFaults
    /\ faults' = faults + 1 /\ worker' = Resting
    /\ UNCHANGED <<db, tx, next, call, publisher, now>>

RecordsNext ==
    \/ \E name \in Names, rev \in Revisions : CreateBegin(name, rev, now + 1 + Delay[rev])
    \/ CreatePackage
    \/ ClaimBegin \/ ClaimJob
    \/ \E failure \in {"", "build_failed"} : WorkerMark(failure)
    \/ \E id \in DOMAIN db.jobs : PublishBegin(id)
    \/ PublishArtifact \/ JobArtifacts \/ PublishFails \/ PublisherStops
    \/ \E name \in Names : RemoveBegin(name)
    \/ RemovePackage
    \/ StatementFails \/ WorkerStops

RecordsSpec == RecordsInit /\ [][RecordsNext]_recordVars

-----------------------------------------------------------------------------
RowsOf(t) == {db[t][i] : i \in DOMAIN db[t]}

\* Whatever the calls do and wherever they fail, a committed row has an id of
\* its own and every column, and what a column does not allow is not in it.
RowsFit ==
    /\ \A t \in Tables : \A i \in DOMAIN db[t] : i < next[t] /\ db[t][i].id = i
    /\ \A r \in RowsOf("artifacts") : Artifacts!Fits(r)
    /\ \A r \in RowsOf("dependencies") : Dependencies!Fits(r) /\ r.dependency_kind \in Dependencies!Kinds
    /\ \A r \in RowsOf("jobs") : Jobs!Fits(r) /\ r.status \in Jobs!Statuses
    /\ \A r \in RowsOf("packages") : ManagedPackages!Fits(r) /\ r.source_kind \in ManagedPackages!Kinds
    /\ \A r \in RowsOf("versions") : PackageVersions!Fits(r)

\* There is no foreign key in the schema: CreatePackage, publishJob and
\* RemovePackage, wherever a statement of theirs fails and whatever worker and
\* publisher do meanwhile, keep every reference, and a version with exactly its
\* dependencies and one job.  This is as long as no import runs beside a
\* removal, and nobody publishes the package that is removed: those leave rows
\* whose parent is gone (README.md:78-80, RemoveIsComplete of Claims).
NothingDangles ==
    /\ \A r \in RowsOf("artifacts") : r.job_id \in DOMAIN db.jobs
    /\ \A r \in RowsOf("versions") : r.package_id \in DOMAIN db.packages
    /\ \A r \in RowsOf("jobs") \cup RowsOf("dependencies") :
        r.package_version_id \in DOMAIN db.versions
    /\ \A k \in DOMAIN db.packages : \E r \in RowsOf("versions") : r.package_id = k
    /\ \A v \in DOMAIN db.versions :
        /\ \E j \in DOMAIN db.jobs :
            {i \in DOMAIN db.jobs : db.jobs[i].package_version_id = v} = {j}
        /\ {<<r.dependency_name, r.dependency_kind>> :
                r \in {d \in RowsOf("dependencies") : d.package_version_id = v}}
           = {<<d.name, depKind(d.aur)>> : d \in ToSet(Deps[db.versions[v].revision])}

\* The columns of a job tell the story of its status: it was not claimed
\* before it was eligible, nor finished before it was claimed; a log exists
\* from the end of its build on, and a failure has its error.  (A claim that
\* overlaps with the superseding import leaves the mark of both: the error
\* stays though the job runs.)
JobColumnsAgree ==
    \A r \in RowsOf("jobs") :
        /\ r.attempts = (IF r.claimed_at = Null THEN 0 ELSE 1)
        /\ r.claimed_at = Null <=> r.status \in {"pending", "skipped"}
        /\ r.claimed_at # Null => r.eligible_at <= r.claimed_at
        /\ r.status = "pending" => r.finished_at = Null /\ r.error = Null
        /\ r.status = "running" => (r.finished_at = Null <=> r.error = Null)
        /\ r.log_path # Null <=> r.status \in {"built", "published", "failed"}
        /\ r.log_path # Null => r.finished_at > r.claimed_at
        /\ r.status \in {"built", "published"} => r.error \in {Null, "superseded"}
        /\ r.status \in {"failed", "skipped"} => r.error # Null

\* Imports and removals one after the other, with publications, also repeated
\* ones, beside them, never run into an index or a validator, and publishJob
\* always finds its job.  (What an import or removal may end with is a row that
\* is not there, or a running job.  Of two imports at once that both record a
\* package for the first time the index of names refuses one: TxSave of Intake.)
NoClientError ==
    /\ call.fn = "none" => call.err \in {"none", "not_found", "running"}
    /\ publisher.err = "none"

\* When a package was first seen never changes, and a change of its source is
\* stamped, though CreatePackage sets no updated_at itself.
TimesAreKept ==
    [][/\ \A k \in DOMAIN db.packages \cap DOMAIN db'.packages :
            LET old == db.packages[k] new == db'.packages[k]
            IN  /\ new.created_at = old.created_at /\ new.name = old.name
                /\ new.source_path # old.source_path => new.updated_at > old.updated_at
       /\ \A v \in DOMAIN db.versions \cap DOMAIN db'.versions : db'.versions[v] = db.versions[v]
       /\ \A j \in DOMAIN db.jobs \cap DOMAIN db'.jobs :
            /\ db'.jobs[j].created_at = db.jobs[j].created_at
            /\ db'.jobs[j].attempts >= db.jobs[j].attempts]_recordVars
=============================================================================
