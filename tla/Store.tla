------------------------------- MODULE Store -------------------------------
(***************************************************************************)
(* What the processes of aurforge share: the tables of the PostgreSQL      *)
(* database (ent/schema), the directories below the data root, the AUR and *)
(* the import directory they read, and the clock.  There is no action      *)
(* here: every process module extends this one and writes these variables. *)
(*                                                                         *)
(* A table is a function from the ids of its rows to the rows.  An id is   *)
(* never used twice, and ids grow in the order of first_seen_at, because   *)
(* the transactions that create versions of one package hold its row lock. *)
(* A transaction runs at PostgreSQL's default isolation (READ COMMITTED),  *)
(* the level client.Tx asks for: a read sees what is committed, and only   *)
(* row locks make one transaction wait for another.                        *)
(***************************************************************************)
EXTENDS Integers, FiniteSets, Functions

CONSTANTS
    Packages,        \* package names
    LocalPackages,   \* those imported from LocalImportRoot; the others are AUR packages
    Revisions,       \* Git commits of an AUR package, tree digests of a local one
    Versions,        \* pkgver-pkgrel: what the name of a built file tells apart
    NoRevision,      \* the absence of a revision
    CommitTime,      \* [Revisions -> Int], what GitCommitTime reads from a snapshot
    FileVersion,     \* [Revisions -> Versions], what makepkg names its file after
    Successors,      \* [Revisions -> SUBSET Revisions], the commits pushed on top of one
    UpdateDelay,     \* cfg.UpdateDelay
    MaxTime,         \* bound: the clock stops here
    MaxAdds,         \* bound: add commands
    MaxRemovals,     \* bound: remove commands
    MaxFaults,       \* bound: crashes and failing external commands
    MaxPushes        \* bound: changes of an upstream

ASSUME PackagesAssumption ==
    /\ LocalPackages \subseteq Packages
    /\ NoRevision \notin Revisions
ASSUME RevisionsAssumption ==
    /\ CommitTime \in [Revisions -> Int]
    /\ FileVersion \in [Revisions -> Versions]
    /\ Successors \in [Revisions -> SUBSET Revisions]
ASSUME BoundsAssumption ==
    /\ UpdateDelay \in Nat /\ MaxTime \in Nat
    /\ MaxAdds \in Nat /\ MaxRemovals \in Nat
    /\ MaxFaults \in Nat /\ MaxPushes \in Nat

VARIABLES
    pkgs,       \* managed_packages: id -> [name, path]; path is the revision SourcePath ends in
    versions,   \* package_versions: id -> [pkg, rev]
    jobs,       \* jobs: id -> [version, status, eligible]
    artifacts,  \* artifacts: the set of [job, file]
    ids,        \* the next id of each table
    jobLocks,   \* job rows an open remove transaction has deleted
    nameLocks,  \* package names whose row an open create transaction has written
    sources,    \* SourceRoot: <<name, revision>> -> the revision whose files are there
    preview,    \* SourceRoot/aur/<name>/preview: the revision cloned there
    staging,    \* StagingRoot: job -> the file makepkg left
    files,      \* RepoRoot: file -> the job whose build wrote it
    repo,       \* the pacman database: package name -> [file, job]
    head,       \* the revision an upstream offers now
    now,        \* the clock all processes read
    budget      \* what is left of the bounds

tables == <<pkgs, versions, jobs, artifacts, ids>>
locks == <<jobLocks, nameLocks>>
disk == <<sources, preview, staging>>
published == <<files, repo>>
env == <<head, now>>

Statuses == {"pending", "running", "built", "published", "failed", "skipped"}
File == Packages \X Versions
PackageRow == [name : Packages, path : Revisions]
VersionRow == [pkg : Nat, rev : Revisions]
JobRow == [version : Nat, status : Statuses, eligible : Int]

NoPackage == "none"   \* the absence of a package name

Kind(n) == IF n \in LocalPackages THEN "local" ELSE "aur"

-----------------------------------------------------------------------------
(* Queries and updates.                                                    *)

Insert(table, id, row) ==
    [k \in DOMAIN table \cup {id} |-> IF k = id THEN row ELSE table[k]]

Without(table, keys) == Restrict(table, DOMAIN table \ keys)

\* ManagedPackage.Query().Where(NameEQ(n)): one row at most, the name is unique.
RowOf(n) == {k \in DOMAIN pkgs : pkgs[k].name = n}
Managed(n) == RowOf(n) # {}

VersionsOf(k) == {v \in DOMAIN versions : versions[v].pkg = k}
\* Faulty variant, for the runs' sensitivity: the filter on the package is lost.
RecordedAnywhere(k, r) == \E v \in DOMAIN versions : versions[v].rev = r
Recorded(k, r) == \E v \in VersionsOf(k) : versions[v].rev = r
JobsOf(vers) == {j \in DOMAIN jobs : jobs[j].version \in vers}

\* latest.ID = version.ID in ClaimJob.
\* Faulty variant: Asc in place of Desc.
IsFirst(v) == \A w \in VersionsOf(versions[v].pkg) : v <= w
IsLatest(v) == \A w \in VersionsOf(versions[v].pkg) : w <= v

WithStatus(js, s) ==
    [j \in DOMAIN jobs |-> IF j \in js THEN [jobs[j] EXCEPT !.status = s] ELSE jobs[j]]

\* One UPDATE of one job row: it waits for a transaction that has deleted the
\* row, and without the row (NotFound) it changes nothing.
MarkJob(j, s) ==
    /\ j \notin jobLocks
    /\ jobs' = IF j \in DOMAIN jobs THEN WithStatus({j}, s) ELSE jobs

EligibleAtFromCommit(t) ==
    IF t + UpdateDelay > now THEN t + UpdateDelay ELSE now

Fault ==
    /\ budget.faults > 0
    /\ budget' = [budget EXCEPT !.faults = @ - 1]

-----------------------------------------------------------------------------
StoreInit ==
    /\ pkgs = << >> /\ versions = << >> /\ jobs = << >> /\ artifacts = {}
    /\ ids = [pkg |-> 1, version |-> 1, job |-> 1]
    /\ jobLocks = {} /\ nameLocks = {}
    /\ sources = << >> /\ staging = << >>
    /\ preview = [n \in Packages |-> NoRevision]
    /\ files = << >> /\ repo = << >>
    /\ head \in [Packages -> Revisions]
    /\ now = 0
    /\ budget = [adds |-> MaxAdds, removals |-> MaxRemovals,
                 faults |-> MaxFaults, pushes |-> MaxPushes]

\* Upstream: the AUR takes fast-forward pushes only, an import directory may
\* be edited at will (by update-pkgbuild.sh too), back to a former content.
NextRevisions(n) == IF Kind(n) = "aur" THEN Successors[head[n]] ELSE Revisions \ {head[n]}

Push(n) ==
    /\ budget.pushes > 0
    /\ budget' = [budget EXCEPT !.pushes = @ - 1]
    /\ \E r \in NextRevisions(n) : head' = [head EXCEPT ![n] = r]
    /\ UNCHANGED <<tables, locks, disk, published, now>>

Tick ==
    /\ now < MaxTime
    /\ now' = now + 1
    /\ UNCHANGED <<tables, locks, disk, published, head, budget>>

IsTable(t, keys, rows) == DOMAIN t \subseteq keys /\ t \in [DOMAIN t -> rows]

TablesTypeOK ==
    /\ IsTable(pkgs, Nat \ {0}, PackageRow)
    /\ IsTable(versions, Nat, VersionRow)
    /\ IsTable(jobs, Nat, JobRow)
    /\ artifacts \subseteq [job : Nat, file : File]
    /\ ids \in [pkg : Nat \ {0}, version : Nat, job : Nat]
    /\ jobLocks \subseteq Nat /\ nameLocks \subseteq Packages

DiskTypeOK ==
    /\ IsTable(sources, Packages \X Revisions, Revisions)
    /\ preview \in [Packages -> Revisions \cup {NoRevision}]
    /\ IsTable(staging, Nat, File)
    /\ IsTable(files, File, Nat)
    /\ IsTable(repo, Packages, [file : File, job : Nat])

EnvTypeOK ==
    /\ head \in [Packages -> Revisions]
    /\ now \in Nat
    /\ budget \in [adds : Nat, removals : Nat, faults : Nat, pushes : Nat]
=============================================================================
