# Verification of aurforge

aurforge follows packages of the AUR and of a local import directory, builds
their new revisions in containers and publishes the results in a pacman
repository.  It is a handful of processes that share a PostgreSQL database and a
data root, with no other channel between them.  These TLA+ modules model that
system; TLC checks them on small instances and TLAPS proves the central
properties for all of them.

## Inventory

| component | code | state it keeps | operations |
|---|---|---|---|
| scheduler | `RunScheduler`, `refreshAUR`, `refreshLocal` (internal/roles.go) | the list of a refresh | poll, preview, accept |
| add, update | `add` (cmd/aurforge/main.go), internal/import.go | the preview the user is asked about | preview, accept, decline |
| intake of a revision | `AcceptAUR`, `AcceptLocal`, `CreatePackage` (internal/import.go, db.go) | snapshots, tables | snapshot, transaction |
| worker | `RunWorker`, `buildJob`, `ClaimJob`, `MarkJob` | the claimed job | claim, build, mark |
| publisher | `RunPublisher`, `publishJob` | the list of built jobs | copy, record, repo-add, mark |
| remove | `RemovePackage` (internal/remove.go) | the ids it has read | read, repo-remove, delete, clean up |
| status | `ListPackages`, `RunController` | none | list |
| database client | ent/ | a builder's pending changes, an open transaction | create, bulk create, update, delete, query, commit, roll back |
| tree digest and copy | `HashTree`, `CopyTree` (internal/package.go) | the walk | digest, copy |
| AUR graph | `ResolveAURGraph` (internal/import.go) | the packages seen | walk |
| package parsing | `ParsePackage` and below (internal/package.go) | none | parse |
| paths | `HostPath`, `localImportPath`, `runLocalUpdater` (internal/hostpath.go, import.go, updater.go) | none | map, confine, hand over |
| command line | arguments, selection, confirmation, CPU limit, entry names | none | |
| configuration, notifications | internal/config.go, roles.go | none | |

How they interact.  The scheduler and the commands insert a *version* of a
package and its *job* in one transaction, and set the package's older waiting
jobs to `skipped`.  The worker claims the waiting job that is due first
(`pending` → `running`), builds the snapshot the package's row points to, and
marks the job `built` or `failed`.  The publisher takes the built jobs in the
order of their ids and marks them `published` or `failed`.  Remove deletes all
of it.  Snapshots, staged files and the repository are directories of the data
root that several of these write without any lock.

What is hard here: every decision is made in one statement and acted on in a
later one (claim, remove, refresh); transactions run at READ COMMITTED, so only
row locks order them, and two of them take their locks in opposite order; each
process may stop anywhere and compose starts it again; directories and tables
change in separate steps; no table has a foreign key.  `hazards` in PROJECT.json
lists these places, line by line, with the properties that watch them.

What makes it correct: one waiting job per package, for its newest version; a
version never without its job; a build whose status nobody else decides; a
finished job stays finished; what is published is recorded, served, whole, and
not replaced by something older, unless a failed publication could not be
marked; a snapshot holds what its digest says; what upstream offers is queued,
what is queued is claimed, what is built is published, and a remove ends.

## Modules

There are five groups; the last two share a run.

*The system*, with a snapshot, a build and a file as one thing each:

| module | models |
|---|---|
| `Store` | the tables, row locks, directories, upstreams, clock; queries and updates on them.  No actions except `Push` and `Tick` |
| `Intake` | scheduler and add command, from the poll through each step of `PreviewAUR` to the COMMIT of `CreatePackage` |
| `Worker` | `ClaimJob` statement by statement, the build, `MarkJob` |
| `Publisher` | `RunPublisher` and `publishJob` |
| `Remover` | `RemovePackage` |
| `Aurforge` | the composition, fairness, and the properties |
| `BuildQueue` | the abstract specification: the queue that all of them leave in the database |
| `Claims` | sentences of the README that the code does not keep |
| `MCAurforge`, `MCClaims` | the constants for TLC |

*The tables*, with every column, through the generated client:

| module | models |
|---|---|
| `Ent` | what the client does with any table: mutations, validation, defaults, inserts, updates, deletes, predicates, order, paging |
| `EntJob`, `EntArtifact`, `EntDependency`, `EntManagedPackage`, `EntPackageVersion`, `EntAuditEvent` | the columns, indexes, defaults, required fields and predicates of an entity |
| `Records` | the statements of `CreatePackage`, `ClaimJob`, `MarkJob`, `publishJob` and `RemovePackage`, in their order, through `Ent` |
| `Client` | the client used freely: any calls on a builder, then a statement |
| `MCRecords` | constants |

*The files*, one by one:

| module | models |
|---|---|
| `SourceTree` | `HashTree` and `CopyTree`, entry by entry |
| `Snapshots` | `PreviewLocal` and `AcceptLocal` by several importers of a directory that is edited |
| `Builds` | containers, staging, `RunPublisher`'s list and `publishJob` file by file for a split package |
| `Files`, `FilesClaims` | the composition, its properties; sentences it breaks |
| `MCFiles`, `MCFilesClaims` | constants |

*An addition* of an AUR package with all it needs:

| module | models |
|---|---|
| `AurGraph` | `ResolveAURGraph` with its stack of calls (a call is where its loop is), the question, and the loop of accepts after it; what is needed, as the smallest closed set |

*The functions*, which keep no state:

| module | models |
|---|---|
| `Parsing` | `ParsePackage`, `.SRCINFO`, PKGBUILD, `depName`, over tokens |
| `Paths` | mounts and host paths, import paths, ownership for the updater |
| `CommandLine` | arguments, selection, confirmation, CPU limit, repository entries |
| `Library` | a call of any of the others, and what each promises, stated without its algorithm |
| `MCFunctions` | constants; one call of `Library` or `Client`, or one addition of `AurGraph`, in one run |

*The proofs* are in `AurforgeProofs` (types, versions and jobs, jobs in hand,
running jobs), `RefinementProofs` (`BuildQueue`) and `ServedProofs` (the
repository) about the system, in `RecordsProofs` about the tables, in
`FilesProofs` about the files, in `AurGraphProofs` about additions, and in
`LibraryProofs` and `ParsingProofs` (the parsers) about the functions.

Definitions called a "faulty variant" are not part of any specification: each
is a plausible error in the definition it stands before, and shows that a
property notices it.

How the system's state corresponds to the code.  Each process is one variable
(`intake[c]`, `worker`, `publisher`, `remover`): its place in the code (`pc`)
and the local variables that matter later.  A table is a function from ids to
rows.  `jobLocks` are the job rows that an open remove transaction has deleted,
`nameLocks` the names an open `CreatePackage` has written; a statement on a
locked row waits.  A revision is a Git commit of an AUR package or the tree
digest of a local one; a snapshot is the revision whose files a directory holds,
which need not be the one in its name.  A file is a package name and a version;
the repository remembers which job wrote each file and which file (and job) each
entry names.

Steps.  A step of the system is one statement, or several of which at most one
can be seen or disturbed by another process.  Merged are: the UPDATE of a claim,
the read of the package row and COMMIT (`ClaimTake`: the job row is locked, so
nothing can happen to it in between, and the read decides the path); in
`CreatePackage`, everything after the write of the managed row (`TxCommit`: that
row is locked, so no other transaction inserts versions of the package; what it
waits for is a guard); in remove, the last DELETEs and COMMIT (`RmCommit`);
snapshot and commit time (`Accept`); package row and versions at the start of
remove (`RmRead`: the row does not go away in between, there is one remove at a
time).  Versions, jobs and artifacts are separate reads of remove, as are the
SELECT and the write of `CreatePackage`.  In `PreviewAUR` the removal of the
shared directory, the clone, `rev-parse` and what reads the clone afterwards are
steps of their own; a `git clone` is one step, and so is the reading.  In
`Records` a write is a step together with the query that decides it (the managed
row, the version, the artifact), reads that only lead to other reads are merged
(`ClaimLatest`, `RemoveRead`), and a fault may come between any two steps.  In
`Files` every file that is digested, copied, built or published is a step, and
every directory that is walked.

Abstractions.  In the system a job builds one file, a snapshot is whole or
absent, and a row has the columns that decide something; the other groups take
these apart.  There an add command accepts one package; several are `AurGraph`'s
subject, where a walk sees one graph from start to end (it clones a package
once, so there is no second answer to compare).  One worker, publisher,
scheduler and remove command: compose starts one service of each.  An add
command and the scheduler run at once.  `Records` has the worker and the
publisher beside one import or removal at a time: two transactions beside each
other are left to the system, which has all processes at once and fewer columns.
Nor does its publisher take a job of the package that is being removed.  Both
restrictions matter, since the program has neither: an import or a publication
beside a removal leaves rows whose parent is gone (`remove_is_complete`), and of
two first imports of a package one runs into the index of names (`TxSave` of
`Intake`).  In `Parsing` a word is a sequence of tokens, names and the signs
that `quotedRE` and `depName` look for.

Faults.  `budget.faults` bounds them: a process stops (SIGTERM cancels the
context `MarkJob` needs too, so a build that ends then leaves its job running);
ls-remote, clone, repo-add, repo-remove or a query fails.  A fault of the
scheduler ends what the code ends there: the package for `ls-remote` and the
preview, the round for the query and the import.  When a publication has failed,
the `MarkJob` after it may fail as well (`PubMarkFails`), which `RunPublisher`
ignores: the job stays `built` and the loop goes on with the next one.  A
failing build needs no fault.  Deadlock: remove holds job rows and waits for the
package row, while `CreatePackage` holds that and waits for a job row;
PostgreSQL aborts either. In `Records` a fault is a statement that fails or a
process that stops; in `Files`, a digest, a copy or a publication that stops
half way, or a build that runs into its deadline while its container goes on.

## Runs

Constants of the system: `CommitTime` makes revision 1 old and the others new;
revision 3 is built under the file name of revision 2, so that a build
overwrites a published file; pushes go upward for the AUR and anywhere for a
local directory.

| run | instance | shows |
|---|---|---|
| `queue` | one AUR package, 3 revisions, 2 pushes, 1 add, 2 faults, clock to 1, delay 1; 292 000 states | types; a build keeps its job; `running` is the worker's or cost a crash; published is served; a file and its entry disagree only while its job is not published; finished stays finished; the repository goes back only to a job that is published late, after a failure whose mark failed (two faults) |
| `remove` | one AUR package, 2 revisions, add and scheduler, 1 remove, 1 push, 1 fault, `FairSpec`; 447 000 states | with row locks and deadlocks: one waiting job, of the newest version; version and job come and go together; a published job keeps its artifact row; a remove ends; the tables implement `BuildQueue` |
| `poll` | an AUR package and a self-updating local one, 2 revisions, 1 push, 1 fault, 2 adds, `FairIntake`; 443 000 states | the scheduler records what each upstream settles on, though one package's error ends a round.  The clock stands and the delay is 3, so nothing new is built: only the intake matters here |
| `restart` | one package, 1 push, 2 faults, `FairSpec`; 24 000 states | a waiting job is claimed or superseded by a newer version; a built job leaves `built` |
| `records` | 5 calls, 1 fault, 1 package, 2 revisions (due at once and later), dependencies, 2 files to a build; 451 000 states | rows fit their schema; status, times, attempts and errors of a job agree; times stay; and, for one import or removal at a time and no publication of what is being removed: no artifact, job, dependency or version refers to a row that is gone, each version has its dependencies and one job, and no statement is refused by a validator or an index |
| `files` | 2 importers, 4 trees (with a link, a `.git` file, a package file), 2 adds, 1 edit, 2 faults, 2 parts; 983 000 states | a snapshot nobody copies to has the content of its digest unless its digest or copy was disturbed by an edit or broken off; a published split package is whole; what a given-up container writes is not served; what is served was built from its digest, unless that was disturbed or the build began before another import's copy ended |
| `functions` | one call of any function or client statement, over all inputs of small sets, and additions over every graph of 3 packages with 5 lists of dependencies to choose from (none, a single one, several, one twice, one of the distribution), any of them missing; 241 000 states, `WalkFairness` | `.SRCINFO` and PKGBUILD of a package give previews that differ in its name, when it has a pkgbase of its own, and in the versions of constraints, and in nothing else; host paths, import paths, ownership, CPU limit, confirmation, repository entries; an addition accepts what the root needs, each package once and the root first, around circles too, nothing when one cannot be cloned, and its walk ends; a save writes what the builder was told, last word first; nothing invalid is stored; queries agree with their definition |

The bounds.  Two revisions make one supersede the other, three make a job that
runs, one that is skipped and one that waits; one add beside the scheduler is
the two concurrent writers; two faults are a crash and a second one during the
recovery.  A clock of two values separates due from not due.  Five calls of
`records` are a claim, the mark of its build, a publication and an import or
removal on either side; a fault ends one of them.  Two importers are one that
copies and one that finds the directory there.  The run of `records` has one
package, so that removals of one package beside a publication of another are
covered by the proofs alone.  The functions get every input up to a size at
which each of their branches, and each pair of branches in sequence, is taken
(two dependencies, two mounts, three path elements, four arguments).  Three
packages make a diamond, a circle and a circle behind another package.  More of
any of them repeats these cases; the proofs do away with the bounds where they
exist.

Deadlock is checked in every run of the system: the scheduler always has a next
poll.  It is off in `records`, `files` and `functions`, whose bounded
calls come to an end.

Fairness.  `FairSpec` has weak fairness of each service's loop: they sleep for
seconds or minutes and go on, and compose restarts them (`restart:
unless-stopped`).  Of an add past its question (`Create("cli")`) and of a remove
past its start, not of giving commands or answering yes.  Of the clock and of
PostgreSQL's deadlock detection.  Strong fairness of `RmCommit` alone: PostgreSQL
queues the waiters of a row lock, so a DELETE that waits for the package row is
not passed for ever by later transactions.  No fairness of faults or upstream.
`FairIntake` is the part of it that following upstream needs: scheduler and add.
`WalkFairness` is weak fairness of the walk alone, which is one goroutine's
loop: a clone or a question to the AUR comes back, with an error at the latest
when its context is cancelled.  Nothing is assumed of the answer to the question.

## What the code does not promise

Five runs show a sentence of the documentation that the code breaks; each is a
finding in PROJECT.json with the line of code and the quotation.

| run | sentence | behaviour |
|---|---|---|
| `skipped_runs` | a superseded job is never built | the claim reads, `CreatePackage` skips the job, the claim updates it by id |
| `builds_its_commit` | the exact commit is tracked | the job of the old revision builds the path of the new one |
| `remove_is_complete` | remove cancels jobs and takes packages out of the repository | a version recorded after its reads, or a job in the publisher's hands, stays |
| `snapshot_whole` | containers receive an immutable snapshot of the import | the next import takes what a failed copy has left for the snapshot |
| `snapshot_immutable` | the same | an import takes a directory that another one still copies to for the snapshot, and records it; the copy goes on into it, also during the build |

More was met on the way and has no run:

- A publication that fails and cannot be marked failed leaves its job `built`;
  newer builds of the package are published after it, and the next list
  publishes the old one over them.  `RepoNeverRollsBack` and `PublishedIsServed`
  allow this (`PublishedLate`) and nothing else out of order.
- Rows whose parent is gone: an import beside a removal, or a publication of the
  package that is removed, leaves them.  `NothingDangles` is about the rest.
- An edit of an import directory between the beginning of its digest and the end
  of its copy gives a snapshot whose name is the digest of something else.
- A package file (`.pkg.tar.`) in an import directory is neither digested nor
  copied, though two tests (package_test.go:52-71, 73-91) want both; a change of
  it alone is never imported.
- A job whose worker stops during the build stays `running` for ever, and remove
  refuses its package for ever (`RunningIsOwned` counts these).
- A scheduler that has listed a package inserts it again after a remove.
- A job left behind by a remove, when due, is first each time, makes `ClaimJob`
  fail, and no other job is ever built; this is why `PendingIsClaimed` is
  checked without remove commands.
- add prints that a build is queued (main.go:116) also when the revision is
  recorded already and gets no job.
- A job that is skipped and then claimed all the same keeps `finished_at` and
  the error of the skip, while it runs and after it is published;
  `JobColumnsAgree` allows exactly that.
- A `.git` that is a file at the top of an import is digested and not copied.
- A PKGBUILD read without a `.SRCINFO` makes another dependency of the version
  in a constraint, since the signs of the constraint separate words, and names a
  package with a pkgbase of its own after its first pkgname.  `ParsersAgree` says
  that these are all the differences.
- status lists versions and jobs in statements of their own, and so may show a
  version beside the job of another moment.
- A mount at `/` covers no path (`pathHasPrefix`), and a CPU limit above 0 may
  round to `0.00`, which docker takes for no limit (`CapLimits` excludes it from
  one percent on).
- A builder forgets what was set when a count is added after it, and PostgreSQL
  refuses an update that names a column twice, cleared and then set; the program
  does neither.
- `AURFORGE_POLL_INTERVAL` of 0 or below passes `LoadConfig` and panics in the
  ticker.  `ParseIntEnv` has no caller.

## Proofs

Every invariant and action property of `queue`, `remove`, `records`, and `files`
is proved for all values of the constants, and so are eight of the eleven
invariants of `functions`.

Assumptions.  Of the system: those of `Store` and `Intake` on the constants
(local packages are packages, commit times are integers, bounds are natural
numbers), and for `ServedProofs` that no remove command is given
(`MaxRemovals = 0`).  Of the files: `TreesAssumption`, that a tree is one (the
parent of a path is a directory of it).  Of the tables: `NullAssumption` and
`WrittenAssumption`, that NULL is neither a number nor a text, and a text of the
program is one; `RecordsAssumption`, that names and files are texts, delays
natural numbers, and that a revision names a dependency once.  That last part
is what `seen` sees to in both parsers (package.go:68, 99), of which
`ParsePackage` asks one; the name twice would run into the unique index.  Of the
functions: `MountsAssumption`, that docker's mounts and the data root are
absolute paths without dots and the data root is not `/`; `ImportsAssumption`,
`ArgumentsAssumption` and `FilesAssumption`, that paths, arguments and files are
what their types say; `PackagesAssumption`, that a package has a name and a
version, a dependency has a name, and that in each stands what PKGBUILD(5)
allows (no constraint, and in a name no `:`, which `depName` would cut at);
`LimitsAssumption`, that limits are integers;
`EntriesAssumption`, that a repository has finitely many entries, none with an
empty name.  Of a graph: `GraphsAssumption`, that a package has a list of
dependencies; nothing is assumed about what they lead to.

- `TypeCorrect`: `Spec => []TypeOK`, one lemma per process.
- `PendingNewest` and `Paired`: by the invariant `QueueInv`.
  `PendingIsNewest` is not inductive alone: an insert keeps it only if the new id
  is above all others (`IdsAreFresh`) and each older waiting job has a version
  that is there (`VersionsAndJobsPaired`); a remove keeps that only if the ids it
  read long ago are a set of versions with exactly their jobs
  (`RemoverReadsWhole`), which no insert in between disturbs since ids are
  fresh.  Three kinds of step write these tables, with a lemma each
  (`QueueCreate`, `QueueRemove`, `QueueMark`); all others leave them alone
  (`QueueUntouched`).
- `Inductive`, `BuildHolds`, `PublishedRecorded` and `FinishedStays`: by `IInv`,
  which is `TypeOK`, `QueueInv` and `HoldersInv`.  `BuildHoldsItsJob` needs more
  than itself: the claim marks a job that it read two statements ago, so that
  job must not have become anything but `skipped` in between (`ClaimHoldsItsJob`),
  and no insert may reuse its id; the publisher must never mark the job of a
  build, so all the jobs in its hand are `built` (`PublisherHoldsItsJobs`), and
  their artifact row is there before they are marked, which a remove disturbs
  only together with the job (`RemoverArtifacts`).  `HoldersFrame` says once what
  all the other processes may do to the table of jobs (insert a fresh one, skip
  one that waits, delete some with their artifact rows).  `FinishedStays` is an
  action property from the same invariant: every UPDATE of a status is about a
  job that its process still holds.
- `RunningOwned`: every running job but the worker's is one the worker let go of,
  and it lets go only by marking it or by a crash, which is a fault spent
  (`FaultsGoDown`, `BuildLetsGo`); the cardinalities need the set to be finite,
  which is in the invariant (`OwnersInv`).  A claim makes a job run only while
  nothing else is built (`ClaimStarts`).
- `Implements`: `Spec => ImplementsQueue`, the refinement of `BuildQueue`.  An
  order is a job with the row and revision of its version (`Orders`).  Each
  UPDATE of a status is a move of the queue because of `HoldersInv`; a commit is
  an `Enqueue`, since a row that is inserted has no versions yet
  (`RowsAreFresh`); a remove empties exactly one row, since all it has read is
  of that row (`RemoverOwns`).  `Start` of the abstract queue takes a skipped
  order too: a claim may win over the skip, which is the first of the findings.
- `Served`, `MismatchUnpublished` and `NeverRollsBack`: by `ServedInv`, added to
  `IInv` and `RowsInv`.  A name has one row (`NamesInv`: a transaction about to
  insert it holds the name, and nobody else is past that point), so the jobs
  under a name are those of one package, in the order of its versions.  A claim
  takes the newest job there is, and until it is marked every later job only
  waits (`BuildsInOrder`): builds end in order.  An older built job of a package
  is in the publisher's list with the newer one and comes first
  (`PublishesInOrder`), also after a crash, since the list is read anew.  So
  when repo-add runs nothing older waits, and what the repository has is no
  newer (`RepoInOrder`, `ServedAdd`).  The exception, in each of these, is a job
  whose publication failed and could not be marked (`PublishedLate`): it waits
  although newer ones are published.  All three properties are false with
  removes: a remove takes out what is published, and the package that is added
  again starts over.

- The tables (`RecordsProofs`), by `RecordsInv`.  Each property is about what is
  committed, but a commit makes that of what a transaction has seen and done over
  many statements, so the invariant says the same of both views.  A *view* fits
  (`View`: types, indexes, and for jobs the columns that agree), and it is whole
  but for the rows its transaction is at work on (`WholeBut`).  What these are,
  and what is done already, depends on the statement that comes next: `CreateIs`
  follows `CreatePackage` from the managed row to the job, with the dependencies
  still to insert; `RemoveIs` follows the DELETEs, whose ids are those of exactly
  one package.  At COMMIT nothing is left out.  That a commit disturbs nobody
  else is `Sees`: what the transaction and the committed tables share agrees
  except for jobs that it skips (`Follows`), and times only grow (`Keeps`, which
  is also the action property).  Worker and publisher write beside it, a row at a
  time.  The publisher's job is built and not of the package that is removed
  (`PublisherIs`), and what a transaction sees of artifacts and of jobs that it
  does not delete is what is committed (`SeesRest`), so that an artifact finds
  its job in both views.  The job the worker has chosen was due and may be
  skipped, deleted or still wait (`ChoiceIs`), and between UPDATE and COMMIT of
  a claim its row lock keeps everybody off it (`HeldIs`): no COMMIT overwrites a
  claim with what it saw before. The lemmas come in layers: what each query
  finds (`VersionQueries`, `JobQueries`), what each builder writes, what a view
  keeps under an insert, an update and a delete, then one lemma per statement.
- The files (`FilesProofs`), by `FilesInv`, in two halves.  Of imports: a digest
  that no edit met has what is hashed of the tree, but for what lies behind a
  path it has yet to walk or to read (`OnItsWay`); a
  directory holds nothing but what its digest names (`CopiesAreSound`), and what
  is missing lies at or below a path that the copy has yet to visit
  (`CopyIsOnItsWay`), which `CopyEntryReaches` shows of each call of the walk:
  a directory is taken off the list when its children, which `IsTree` says are
  all there, are put on.  So a directory nobody copies to is whole
  (`CopiesAreWhole`).  An importer that found the directory there relies on the
  same digest (`ReliedIsSeen`).  Of builds: a container has a tree with the
  digest of its revision (`BuiltFromDigest`), only what a container had finished
  before its job was given up gets further (`ServedIsEnded`), and the files the
  publisher goes through are all of a staging directory that no longer changes
  (`PublisherInv`).

- An addition (`AurGraphProofs`): `GraphAdded`, by `GraphInv`.  While the walk is
  under way it knows some packages whose dependencies it has not looked at, so
  what it has visited is not closed.  The invariant says what makes up for it: a
  dependency that is not visited is ahead of a call on the stack
  (`NothingIsMissed`, `PendingDependency`), since a package is marked before its
  loop begins and the loop goes through all of its list.  When the last call
  returns nothing is ahead of any, so the set is closed; it has the root, hence
  all that is needed (`ClosedHasNeeded`), and nothing else was ever visited
  (`NeededCloses`).  After that the accepts follow `nodes` in its order.

- The functions (`LibraryProofs`), each from what one call computes.
  `HostRootSeen`: of the mounts over a path there is a longest, and of those a
  first, so the choice of the code is one (`FirstLongest`), and what is cut off
  behind the mount's destination is put behind its source (`CutOff`).
  `UpdaterNotRoot` and `CapIsALimit` by cases and arithmetic.  `ImportsBelow`,
  `CommandConfirmed` and `EntriesRemoved` are about loops, which are folds here.
  `FoldExists` and `FoldIsChain` replace a fold by the chain of its results, one
  for each prefix of the input, once and for all; what holds along a chain is
  then an ordinary induction over numbers: that a cleaned path has no dots
  (`CleanedIsPlain`) and a path without dots stays as it is (`PlainIsClean`);
  that an argument which set a field is there (`ArgumentsSay`); that removing
  names one by one removes their set (`OneByOne`).

- The parsers (`ParsingProofs`): `ParsersAgreed`.  Both are loops over lines with
  loops over words in them, and the words of a PKGBUILD come out of one more
  loop, over its characters; each is brought to a chain of steps (`Run`), which
  can be cut in two (`RunConcat`) and carried over to another state
  (`RunsAlike`).  So the quoted words of an array are, in order, the names that
  were written into it, each perhaps followed by the version of its constraint
  (`WordsOfArray`); `depName` gives the name back, with a constraint
  (`NameOfConstrained`) and without (`NameOfName`); and the list that
  `addDependency` fills has every such name once and nothing else (`ListedIs`).
  What remains of the two files is the same but for the name (`SRCINFOIsRead`,
  `PKGBUILDIsRead`).

TLC checked each invariant (`IInv`, `OwnersInv`, `RowsInv`, `ServedInv`,
`RecordsInv`, `FilesInv`, `GraphInv`) on the instances above before it was
proved.

Only model-checked: liveness (`UpstreamIsRecorded`, `PendingIsClaimed`,
`BuiltIsPublished`, `RemoveEnds`, `WalkEnds`), which is out of the prover's reach
with everything about fairness, and three properties of `functions`.
`SaveIsExact`, `StoredIsValid` and `QueriesAgree` are about tables of three rows
and builders of a few calls that `Client` itself lays down, so that a proof
would hold for little more than what TLC has seen (and their texts are made by
TLC's `ToString`, of which the provers know nothing); what the program's own
statements do to any table is proved in `RecordsProofs`.

## Not modelled

- Configuration: environment variables with defaults, read once.  What depends
  on them is a constant (`UpdateDelay`) or a fault (the deadline of a build).
- Notifications: `NotifyFailure` sends and ignores the outcome.
- `RunController`: one health answer over HTTP, no state.
- nginx and the host scripts: they serve a directory and install the command.
- `AuditPackage`: searches a PKGBUILD for four strings and prints; nothing
  depends on it.
- Reading the container's id out of cgroup text and `docker inspect`: its result
  is an input of `Paths`.
- The updater's script: an edit of the directory in `Store` and `Snapshots`.
- Of ent: hooks, interceptors, `GroupBy`, `Select`, `Modify` and the upsert
  path, none of which the program uses, and how SQL is written.  Statements are
  modelled by what PostgreSQL makes of them.
- Signatures, logs and the contents of messages.
- A second worker: compose starts one.

## What is left

- Several claims at once.  `ClaimJob` excludes nobody, so a second worker would
  build the same job; worth a model when compose scales the service.
- The system with a partial snapshot: `Files` has it, without tables; joining
  them would show what a broken copy does to a published package.
- `Client` over any table, as `Records` is: its calls would then be worth a proof.
