------------------------------ MODULE Remover ------------------------------
(***************************************************************************)
(* The remove command (RemovePackage): it reads what belongs to a package, *)
(* takes the package out of the pacman repository, deletes the rows it has *)
(* read in one transaction, and then the directories.  The repository and  *)
(* the files are gone before the transaction starts.                       *)
(***************************************************************************)
EXTENDS Store

VARIABLE remover    \* where RemovePackage is, and what it has read

IdleRemover ==
    [pc |-> "idle", name |-> NoPackage, row |-> 0, vers |-> {}, jbs |-> {}, arts |-> {}]

RemoverInit == remover = IdleRemover

RemoverAt(pc) == remover.pc = pc

\* The managed row and its versions, in queries of their own, outside of any
\* transaction.
RmRead(n) ==
    /\ RemoverAt("idle") /\ budget.removals > 0
    /\ budget' = [budget EXCEPT !.removals = @ - 1]
    /\ \E k \in RowOf(n) :
        remover' = [pc |-> "jobs", name |-> n, row |-> k,
                    vers |-> VersionsOf(k), jbs |-> {}, arts |-> {}]
    /\ UNCHANGED <<tables, locks, disk, published, env>>

\* The jobs of those versions; nothing is done while one of them runs.
RmJobs ==
    /\ RemoverAt("jobs")
    /\ LET jbs == JobsOf(remover.vers)
       IN  remover' = IF \E j \in jbs : jobs[j].status = "running"
                      THEN IdleRemover
                      ELSE [remover EXCEPT !.pc = "artifacts", !.jbs = jbs]
    /\ UNCHANGED <<tables, locks, disk, published, env, budget>>

\* The artifacts of those jobs: the files to delete.
RmArtifacts ==
    /\ RemoverAt("artifacts")
    /\ remover' = [remover EXCEPT !.pc = "repo",
                     !.arts = {a \in artifacts : a.job \in remover.jbs}]
    /\ UNCHANGED <<tables, locks, disk, published, env, budget>>

\* repo-remove; a package it does not hold is not an error.
RmRepo ==
    /\ RemoverAt("repo")
    /\ repo' = Without(repo, {remover.name})
    /\ remover' = [remover EXCEPT !.pc = "files"]
    /\ UNCHANGED <<tables, locks, disk, files, env, budget>>

\* repo-remove fails, for the lock of a repo-add say: ignored.
RmRepoFails ==
    /\ RemoverAt("repo")
    /\ Fault
    /\ remover' = [remover EXCEPT !.pc = "files"]
    /\ UNCHANGED <<tables, locks, disk, published, env>>

RmFiles ==
    /\ RemoverAt("files")
    /\ files' = Without(files, {a.file : a \in remover.arts})
    /\ remover' = [remover EXCEPT !.pc = "delete"]
    /\ UNCHANGED <<tables, locks, disk, repo, env, budget>>

\* Faulty variant: the artifacts are deleted outside the transaction.
RmDeleteAtOnce ==
    /\ RemoverAt("delete")
    /\ jobLocks' = remover.jbs \cap DOMAIN jobs
    /\ artifacts' = {a \in artifacts : a.job \notin remover.jbs}
    /\ remover' = [remover EXCEPT !.pc = "commit"]
    /\ UNCHANGED <<pkgs, versions, jobs, ids, nameLocks, disk, published, env, budget>>

\* The transaction deletes artifacts and jobs: the rows are locked, and the
\* artifact rows it sees are the ones that go.
RmDelete ==
    /\ RemoverAt("delete")
    /\ jobLocks' = remover.jbs \cap DOMAIN jobs
    /\ remover' = [remover EXCEPT !.pc = "commit",
                     !.arts = {a \in artifacts : a.job \in remover.jbs}]
    /\ UNCHANGED <<tables, nameLocks, disk, published, env, budget>>

WaitsForName == RemoverAt("commit") /\ remover.name \in nameLocks

\* Faulty variant: only the jobs that wait are deleted.
RmCommitPending ==
    /\ RemoverAt("commit") /\ ~WaitsForName
    /\ artifacts' = artifacts \ remover.arts
    /\ jobs' = Without(jobs, {j \in remover.jbs \cap DOMAIN jobs : jobs[j].status = "pending"})
    /\ versions' = Without(versions, remover.vers)
    /\ pkgs' = Without(pkgs, {remover.row})
    /\ jobLocks' = {}
    /\ remover' = [remover EXCEPT !.pc = "cleanup"]
    /\ UNCHANGED <<ids, nameLocks, disk, published, env, budget>>

\* It deletes the versions and the managed row, which waits for a transaction
\* that has written that row, and commits.
RmCommit ==
    /\ RemoverAt("commit") /\ ~WaitsForName
    /\ artifacts' = artifacts \ remover.arts
    /\ jobs' = Without(jobs, remover.jbs)
    /\ versions' = Without(versions, remover.vers)
    /\ pkgs' = Without(pkgs, {remover.row})
    /\ jobLocks' = {}
    /\ remover' = [remover EXCEPT !.pc = "cleanup"]
    /\ UNCHANGED <<ids, nameLocks, disk, published, env, budget>>

\* The staging directories of the jobs, and SourceRoot/<kind>/<name>.
RmCleanup ==
    /\ RemoverAt("cleanup")
    /\ staging' = Without(staging, remover.jbs)
    /\ sources' = Without(sources, {remover.name} \X Revisions)
    /\ preview' = [preview EXCEPT ![remover.name] = NoRevision]
    /\ remover' = IdleRemover
    /\ UNCHANGED <<tables, locks, published, env, budget>>

\* The transaction is the victim of a deadlock: the command ends with an error.
AbortRemove ==
    /\ WaitsForName
    /\ jobLocks' = {}
    /\ remover' = IdleRemover
    /\ UNCHANGED <<tables, nameLocks, disk, published, env, budget>>

\* The command is interrupted, or a query fails.
RmCrash ==
    /\ ~RemoverAt("idle")
    /\ Fault
    /\ jobLocks' = {}
    /\ remover' = IdleRemover
    /\ UNCHANGED <<tables, nameLocks, disk, published, env>>

-----------------------------------------------------------------------------
RemoveGoesOn == RmJobs \/ RmArtifacts \/ RmRepo \/ RmFiles \/ RmDelete \/ RmCommit \/ RmCleanup
RemoverStep == (\E n \in Packages : RmRead(n)) \/ RemoveGoesOn

RemoverTypeOK ==
    /\ remover \in [pc : {"idle", "jobs", "artifacts", "repo", "files", "delete",
                           "commit", "cleanup"},
                    name : Packages \cup {NoPackage}, row : Nat,
                    vers : SUBSET Nat, jbs : SUBSET Nat, arts : SUBSET [job : Nat, file : File]]
    /\ ~RemoverAt("idle") => remover.name \in Packages
=============================================================================
