------------------------------- MODULE Worker -------------------------------
(***************************************************************************)
(* The worker: ClaimJob's transaction, the build, and the mark that ends   *)
(* it.  ClaimJob reads first and updates later, and nothing in it locks    *)
(* what it has read.  An error that RunWorker returns ends the process,    *)
(* which compose starts again: it is back at its loop, and so is this      *)
(* model.                                                                  *)
(***************************************************************************)
EXTENDS Store

VARIABLE worker     \* where RunWorker is, and the Job ClaimJob returned

NoJob == 0
IdleWorker ==
    [pc |-> "idle", job |-> NoJob, version |-> 0, row |-> 0, name |-> NoPackage,
     path |-> NoRevision, content |-> NoRevision]

WorkerInit == worker = IdleWorker

\* The order ClaimJob asks for: eligible_at, then id.
Before(j, k) ==
    \/ jobs[j].eligible < jobs[k].eligible
    \/ jobs[j].eligible = jobs[k].eligible /\ j <= k

Due == {j \in DOMAIN jobs : jobs[j].status = "pending" /\ jobs[j].eligible <= now}

\* The SELECT that picks a job; while none is due the worker sleeps.
ClaimSelect ==
    /\ worker.pc = "idle"
    /\ \E j \in Due :
        /\ \A k \in Due : Before(j, k)
        /\ worker' = [worker EXCEPT !.pc = "check", !.job = j, !.version = jobs[j].version]
    /\ UNCHANGED <<tables, locks, disk, published, env, budget>>

\* Its version, which may be gone by now, and the latest of the same package.
ClaimCheck ==
    /\ worker.pc = "check"
    /\ worker' =
        IF worker.version \notin DOMAIN versions
        THEN IdleWorker
        ELSE [worker EXCEPT !.pc = IF IsLatest(worker.version) THEN "claim" ELSE "skip",
                            !.row = versions[worker.version].pkg]
    /\ UNCHANGED <<tables, locks, disk, published, env, budget>>

\* The job is superseded: UPDATE it, COMMIT, and look for another.
ClaimSkip ==
    /\ worker.pc = "skip"
    /\ MarkJob(worker.job, "skipped")
    /\ worker' = IdleWorker
    /\ UNCHANGED <<pkgs, versions, artifacts, ids, locks, disk, published, env, budget>>

\* UPDATE the job, read the managed row, COMMIT.  Without either row the
\* transaction rolls back and the worker exits.
ClaimTake ==
    /\ worker.pc = "claim" /\ worker.job \notin jobLocks
    /\ IF worker.job \in DOMAIN jobs /\ worker.row \in DOMAIN pkgs
       THEN /\ jobs' = WithStatus({worker.job}, "running")
            /\ worker' = [worker EXCEPT !.pc = "start",
                            !.name = pkgs[worker.row].name, !.path = pkgs[worker.row].path]
       ELSE UNCHANGED jobs /\ worker' = IdleWorker
    /\ UNCHANGED <<pkgs, versions, artifacts, ids, locks, disk, published, env, budget>>

\* Faulty variant: a snapshot that is not there is not an error.
BuildStartUnchecked ==
    /\ worker.pc = "start"
    /\ worker' = [worker EXCEPT !.pc = "build"]
    /\ UNCHANGED <<tables, locks, disk, published, env, budget>>

\* buildJob up to docker run: the container copies its input when it starts.
BuildStart ==
    LET snapshot == <<worker.name, worker.path>>
    IN  /\ worker.pc = "start"
        /\ worker' = IF snapshot \in DOMAIN sources
                     THEN [worker EXCEPT !.pc = "build", !.content = sources[snapshot]]
                     ELSE [worker EXCEPT !.pc = "failed"]
        /\ UNCHANGED <<tables, locks, disk, published, env, budget>>

\* makepkg leaves one file in the job's staging directory.
BuildSucceeds ==
    /\ worker.pc = "build"
    /\ staging' = Insert(staging, worker.job, <<worker.name, FileVersion[worker.content]>>)
    /\ worker' = [worker EXCEPT !.pc = "built"]
    /\ UNCHANGED <<tables, locks, sources, preview, published, env, budget>>

\* makepkg fails, or BuildTimeout ends it.
BuildFails ==
    /\ worker.pc = "build"
    /\ worker' = [worker EXCEPT !.pc = "failed"]
    /\ UNCHANGED <<tables, locks, disk, published, env, budget>>

\* Faulty variant: a failed build is logged and not marked.
MarkBuildIfBuilt ==
    /\ worker.pc \in {"built", "failed"}
    /\ IF worker.pc = "built" THEN MarkJob(worker.job, "built") ELSE UNCHANGED jobs
    /\ worker' = IdleWorker
    /\ UNCHANGED <<pkgs, versions, artifacts, ids, locks, disk, published, env, budget>>

\* MarkJob, with the status the build ended in.
MarkBuild ==
    /\ worker.pc \in {"built", "failed"}
    /\ MarkJob(worker.job, worker.pc)
    /\ worker' = IdleWorker
    /\ UNCHANGED <<pkgs, versions, artifacts, ids, locks, disk, published, env, budget>>

\* A crash; or SIGTERM, which cancels the context MarkJob needs as well.  In an
\* open transaction it changes nothing, so it is left out there.
Building == worker.pc \in {"start", "build", "built", "failed"}

WorkerCrash ==
    /\ Building
    /\ Fault
    /\ worker' = IdleWorker
    /\ UNCHANGED <<tables, locks, disk, published, env>>

-----------------------------------------------------------------------------
WorkerStep ==
    \/ ClaimSelect \/ ClaimCheck \/ ClaimSkip \/ ClaimTake
    \/ BuildStart \/ BuildSucceeds \/ BuildFails \/ MarkBuild

WorkerTypeOK ==
    /\ worker \in [pc : {"idle", "check", "skip", "claim", "start", "build", "built", "failed"},
                   job : Nat, version : Nat, row : Nat, name : Packages \cup {NoPackage},
                   path : Revisions \cup {NoRevision}, content : Revisions \cup {NoRevision}]
    /\ Building => worker.name \in Packages /\ worker.path \in Revisions
    /\ worker.pc \in {"build", "built"} => worker.content \in Revisions
=============================================================================
