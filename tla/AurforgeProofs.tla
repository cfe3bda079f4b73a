--------------------------- MODULE AurforgeProofs ---------------------------
(***************************************************************************)
(* Theorems of Aurforge, for every set of packages and revisions and every *)
(* value of the bounds.                                                    *)
(***************************************************************************)
EXTENDS Aurforge, FiniteSetTheorems, TLAPS

-----------------------------------------------------------------------------
(* Tables.                                                                 *)

\* Inserting a row of the right type at a key of the right type keeps a table.
LEMMA InsertTable ==
    ASSUME NEW t, NEW keys, NEW rows, IsTable(t, keys, rows),
           NEW id \in keys, NEW row \in rows
    PROVE  IsTable(Insert(t, id, row), keys, rows)
  BY DEF IsTable, Insert

\* Deleting rows keeps a table.
LEMMA WithoutTable ==
    ASSUME NEW t, NEW keys, NEW rows, IsTable(t, keys, rows), NEW deleted
    PROVE  IsTable(Without(t, deleted), keys, rows)
  BY DEF IsTable, Without, Restrict

\* Setting a status keeps the table of jobs, and its ids.
LEMMA WithStatusTable ==
    ASSUME IsTable(jobs, Nat, JobRow), NEW js, NEW s \in Statuses
    PROVE  /\ IsTable(WithStatus(js, s), Nat, JobRow)
           /\ DOMAIN WithStatus(js, s) = DOMAIN jobs
  BY DEF IsTable, WithStatus, JobRow

-----------------------------------------------------------------------------
(* Types.                                                                  *)

\* Everything starts empty.
LEMMA TypeInit == Init => TypeOK
  BY PackagesAssumption, RevisionsAssumption, BoundsAssumption
  DEF Init, StoreInit, IntakeInit, WorkerInit, PublisherInit, RemoverInit, TypeOK,
      TablesTypeOK, DiskTypeOK, EnvTypeOK, IntakeTypeOK, WorkerTypeOK, PublisherTypeOK,
      RemoverTypeOK, IsTable, IdleWorker, IdlePublisher, IdleRemover, Creators,
      NoJob, NoFile, Building, RemoverAt

\* A creator that has read a revision remembers a package and the revision.
LEMMA BusyType ==
    ASSUME IntakeTypeOK, NEW c \in Creators,
           intake[c].pc \notin {"idle", "clear", "clone", "read"}
    PROVE  intake[c] \in BusyCreator
  BY DEF IntakeTypeOK, Cloning, IdleCreator, Preview

\* Moving a creator on, or back to idle.
LEMMA GotoType ==
    ASSUME IntakeTypeOK, NEW c \in Creators, NEW state \in Cloning \cup BusyCreator \cup {IdleCreator},
           Goto(c, state), round' = round
    PROVE  IntakeTypeOK'
  BY DEF IntakeTypeOK, Goto

\* Giving up is going back to idle.
LEMMA AbandonType ==
    ASSUME IntakeTypeOK, NEW c \in Creators, Abandon(c)
    PROVE  IntakeTypeOK'
  BY DEF IntakeTypeOK, Abandon, Goto

\* An import starts with a preview, or with the revision of a local package.
LEMMA PreviewedType ==
    ASSUME EnvTypeOK, NEW n \in Packages
    PROVE  Previewed(n) \in Cloning \cup BusyCreator
  BY DEF EnvTypeOK, Previewed, Preview, Cloning, BusyCreator, NoRow

\* The scheduler remembers packages it has listed.
LEMMA PollType == TypeOK /\ (PollList \/ PollCheck) => IntakeTypeOK'
<1> SUFFICES ASSUME TypeOK, PollList \/ PollCheck PROVE IntakeTypeOK'
  OBVIOUS
<1> USE DEF TypeOK
<1>1. CASE PollList
  BY <1>1 DEF PollList, TablesTypeOK, IsTable, PackageRow, IntakeTypeOK
<1>2. CASE PollCheck
  <2>1. PICK p \in round.todo :
          /\ round' = [round EXCEPT !.todo = @ \ {p}]
          /\ UNCHANGED intake \/ Goto("scheduler", Previewed(p.name))
    BY <1>2 DEF PollCheck
  <2>2. Previewed(p.name) \in Cloning \cup BusyCreator
    BY PreviewedType DEF IntakeTypeOK
  <2>3. intake' \in [Creators -> Cloning \cup BusyCreator \cup {IdleCreator}]
    BY <2>1, <2>2 DEF IntakeTypeOK, Goto
  <2> QED
    BY <2>1, <2>3 DEF IntakeTypeOK
<1> QED
  BY <1>1, <1>2

StoreTypeOK == TablesTypeOK /\ DiskTypeOK /\ EnvTypeOK

\* A fault uses up one of the budget, and nothing else of the store.
LEMMA FaultType ==
    ASSUME StoreTypeOK, Fault, UNCHANGED <<disk, published, env>>
    PROVE  DiskTypeOK' /\ EnvTypeOK'
  BY DEF StoreTypeOK, DiskTypeOK, EnvTypeOK, Fault, disk, published, env

\* A poll that fails changes nothing but the scheduler.
LEMMA PollFailsType ==
    ASSUME StoreTypeOK, IntakeTypeOK, PollFails
    PROVE  StoreTypeOK' /\ IntakeTypeOK'
<1>1. TablesTypeOK' /\ DiskTypeOK' /\ EnvTypeOK'
  BY FaultType DEF PollFails, StoreTypeOK, TablesTypeOK, tables, locks
<1>2. IntakeTypeOK'
  <2>1. CASE Abandon("scheduler")
    BY <2>1, AbandonType DEF Creators
  <2>2. CASE ~Abandon("scheduler")
    BY <2>2, GotoType DEF PollFails, IntakeTypeOK, Creators
  <2> QED
    BY <2>1, <2>2
<1> QED
  BY <1>1, <1>2 DEF StoreTypeOK

\* A poll changes nothing of the store.
LEMMA ListType ==
    ASSUME StoreTypeOK, PollList \/ PollCheck
    PROVE  StoreTypeOK'
  BY DEF PollList, PollCheck, StoreTypeOK, TablesTypeOK, DiskTypeOK, EnvTypeOK, tables,
    locks, disk, published, env

\* A preview writes its directory, and the creator comes to know a revision.
LEMMA PreviewStepType ==
    ASSUME StoreTypeOK, IntakeTypeOK, NEW c \in Creators,
           NEW content \in Revisions \cup {NoRevision},
           NEW state \in Cloning \cup BusyCreator \cup {IdleCreator},
           PreviewStep(c, content, state)
    PROVE  StoreTypeOK' /\ IntakeTypeOK'
<1>1. IntakeTypeOK'
  BY GotoType DEF PreviewStep
<1>2. preview' \in [Packages -> Revisions \cup {NoRevision}]
  BY DEF PreviewStep, StoreTypeOK, DiskTypeOK
<1>3. StoreTypeOK'
  BY <1>2 DEF PreviewStep, StoreTypeOK, TablesTypeOK, DiskTypeOK, EnvTypeOK, tables, locks,
    published, env
<1> QED
  BY <1>1, <1>3

\* Each step of a preview is about a package.
LEMMA PreviewType ==
    ASSUME StoreTypeOK, IntakeTypeOK, NEW c \in Creators, PreviewAUR(c)
    PROVE  StoreTypeOK' /\ IntakeTypeOK'
<1> DEFINE n == intake[c].name
<1>1. intake[c] \in Cloning \cup BusyCreator
  BY DEF PreviewAUR, PreviewClear, PreviewClone, PreviewRead, PreviewInspect, PreviewError,
    At, IntakeTypeOK, IdleCreator, Preview
<1>2. n \in Packages /\ preview[n] \in Revisions \cup {NoRevision} /\ head[n] \in Revisions
  BY <1>1 DEF Cloning, BusyCreator, StoreTypeOK, DiskTypeOK, EnvTypeOK
<1>3. ASSUME NEW pc \in {"clone", "read"} PROVE Preview(pc, n, NoRevision) \in Cloning
  BY <1>2 DEF Preview, Cloning, NoRow
<1>4. ASSUME NEW rev \in Revisions PROVE Preview("inspect", n, rev) \in BusyCreator
  BY <1>2 DEF Preview, BusyCreator, NoRow
<1>5. CASE PreviewClear(c)
  BY <1>3, <1>5, PreviewStepType DEF PreviewClear
<1>6. CASE PreviewClone(c)
  BY <1>2, <1>3, <1>6, PreviewStepType DEF PreviewClone
<1>7. CASE PreviewRead(c)
  BY <1>2, <1>4, <1>7, PreviewStepType DEF PreviewRead
<1>8. CASE PreviewInspect(c)
  <2>1. intake[c] \in BusyCreator
    BY <1>8, BusyType DEF PreviewInspect, At
  <2>2. [intake[c] EXCEPT !.pc = "accept"] \in BusyCreator
    BY <2>1 DEF BusyCreator
  <2> QED
    BY <1>2, <1>8, <2>2, PreviewStepType DEF PreviewInspect
<1>9. CASE PreviewError(c)
  BY <1>2, <1>9, PreviewStepType DEF PreviewError
<1> QED
  BY <1>5, <1>6, <1>7, <1>8, <1>9 DEF PreviewAUR

\* The command line before PreviewAUR and CreatePackage.
LEMMA CliType ==
    ASSUME StoreTypeOK, IntakeTypeOK, CliDecline \/ \E n \in Packages : CliPreview(n)
    PROVE  StoreTypeOK' /\ IntakeTypeOK'
<1>1. CASE CliDecline
  BY <1>1, AbandonType DEF CliDecline, Creators, StoreTypeOK, TablesTypeOK, DiskTypeOK,
    EnvTypeOK, tables, locks, disk, published, env
<1>2. ASSUME NEW n \in Packages, CliPreview(n) PROVE StoreTypeOK' /\ IntakeTypeOK'
  <2>1. Previewed(n) \in Cloning \cup BusyCreator
    BY PreviewedType DEF StoreTypeOK
  <2>2. IntakeTypeOK'
    BY <1>2, <2>1, GotoType DEF CliPreview, Creators
  <2>3. StoreTypeOK'
    BY <1>2 DEF CliPreview, StoreTypeOK, TablesTypeOK, DiskTypeOK, EnvTypeOK,
      tables, locks, disk, published, env
  <2> QED
    BY <2>2, <2>3
<1> QED
  BY <1>1, <1>2

\* A snapshot holds a revision, and its commit has a time.
LEMMA AcceptType ==
    ASSUME StoreTypeOK, IntakeTypeOK, NEW c \in Creators, Accept(c)
    PROVE  StoreTypeOK' /\ IntakeTypeOK'
<1> DEFINE n == intake[c].name
           target == <<n, intake[c].rev>>
           content == IF target \in DOMAIN sources THEN sources[target] ELSE Offered(n)
<1>1. intake[c] \in BusyCreator
  BY BusyType DEF Accept, At
<1>2. TablesTypeOK' /\ EnvTypeOK'
  BY DEF Accept, StoreTypeOK, TablesTypeOK, EnvTypeOK, tables, locks, env
<1>3. content \in Revisions \cup {NoRevision}
  BY <1>1 DEF StoreTypeOK, DiskTypeOK, EnvTypeOK, IsTable, Offered, BusyCreator
<1>4. CASE content = NoRevision
  BY <1>2, <1>4, AbandonType
  DEF Accept, StoreTypeOK, DiskTypeOK, published
<1>5. CASE content # NoRevision
  <2>1. content \in Revisions /\ CommitTime[content] \in Int
    BY <1>3, <1>5, RevisionsAssumption
  <2>2. IsTable(sources', Packages \X Revisions, Revisions)
    <3>1. sources' = sources \/ sources' = Insert(sources, target, content)
      BY <1>5 DEF Accept
    <3>2. target \in Packages \X Revisions
      BY <1>1 DEF BusyCreator
    <3> QED
      BY <2>1, <3>1, <3>2, InsertTable DEF StoreTypeOK, DiskTypeOK
  <2>3. preview' \in [Packages -> Revisions \cup {NoRevision}]
    BY <1>5 DEF Accept, StoreTypeOK, DiskTypeOK
  <2>4. DiskTypeOK'
    BY <2>2, <2>3 DEF Accept, StoreTypeOK, DiskTypeOK, published
  <2>5. now \in Int /\ EligibleAtFromCommit(CommitTime[content]) \in Int
    BY <2>1, BoundsAssumption DEF EligibleAtFromCommit, StoreTypeOK, EnvTypeOK
  <2>6. PICK eligible \in Int :
          Goto(c, [intake[c] EXCEPT !.pc = "find", !.eligible = eligible])
    BY <1>5, <2>5 DEF Accept
  <2>7. IntakeTypeOK'
    BY <1>1, <1>5, <2>6, GotoType DEF Accept, BusyCreator
  <2> QED
    BY <1>2, <2>4, <2>7 DEF StoreTypeOK
<1> QED
  BY <1>4, <1>5

\* The row that is found has an id; NoRow stands for none.
LEMMA TxFindType ==
    ASSUME StoreTypeOK, IntakeTypeOK, NEW c \in Creators, TxFind(c)
    PROVE  StoreTypeOK' /\ IntakeTypeOK'
<1>1. intake[c] \in BusyCreator
  BY BusyType DEF TxFind, At
<1>2. PICK row \in RowOf(intake[c].name) \cup {NoRow} :
        Goto(c, [intake[c] EXCEPT !.pc = "save", !.row = row])
  BY DEF TxFind
<1>3. row \in Nat
  BY DEF RowOf, NoRow, StoreTypeOK, TablesTypeOK, IsTable
<1>4. IntakeTypeOK'
  BY <1>1, <1>2, <1>3, GotoType DEF TxFind, BusyCreator
<1>5. StoreTypeOK'
  BY DEF TxFind, StoreTypeOK, TablesTypeOK, DiskTypeOK, EnvTypeOK, tables, locks, disk,
    published, env
<1> QED
  BY <1>4, <1>5

\* TxSave writes a name of a package, or gives up.
LEMMA TxSaveType ==
    ASSUME StoreTypeOK, IntakeTypeOK, NEW c \in Creators, TxSave(c)
    PROVE  StoreTypeOK' /\ IntakeTypeOK'
<1>1. intake[c] \in BusyCreator
  BY BusyType DEF TxSave, At
<1>2. nameLocks' \subseteq Packages
  BY <1>1 DEF TxSave, BusyCreator, StoreTypeOK, TablesTypeOK
<1>3. StoreTypeOK'
  BY <1>2 DEF TxSave, StoreTypeOK, TablesTypeOK, DiskTypeOK, EnvTypeOK,
    tables, disk, published, env
<1>4. IntakeTypeOK'
  BY <1>1, GotoType, AbandonType DEF TxSave, BusyCreator
<1> QED
  BY <1>3, <1>4

\* The rows that CreatePackage inserts have the right types.
LEMMA TxCommitType ==
    ASSUME StoreTypeOK, IntakeTypeOK, NEW c \in Creators, TxCommit(c)
    PROVE  StoreTypeOK' /\ IntakeTypeOK'
<1> DEFINE row == IF intake[c].row # NoRow THEN intake[c].row ELSE ids.pkg
           version == [pkg |-> row, rev |-> intake[c].rev]
           job == [version |-> ids.version, status |-> "pending",
                   eligible |-> intake[c].eligible]
           skipped == WithStatus(Superseded(row), "skipped")
<1>1. intake[c] \in BusyCreator
  BY BusyType DEF TxCommit, At
<1>2. row \in Nat \ {0} /\ ids.version \in Nat /\ ids.job \in Nat
  BY <1>1 DEF BusyCreator, NoRow, StoreTypeOK, TablesTypeOK
<1>3. IsTable(pkgs', Nat \ {0}, PackageRow)
  <2>1. [name |-> intake[c].name, path |-> intake[c].rev] \in PackageRow
    BY <1>1 DEF BusyCreator, PackageRow
  <2> QED
    BY <1>2, <2>1, InsertTable DEF TxCommit, StoreTypeOK, TablesTypeOK
<1>4. IsTable(versions', Nat, VersionRow)
  <2>1. version \in VersionRow
    BY <1>1, <1>2 DEF BusyCreator, VersionRow
  <2>2. versions' = versions \/ versions' = Insert(versions, ids.version, version)
    BY DEF TxCommit
  <2>3. IsTable(versions, Nat, VersionRow)
    BY DEF StoreTypeOK, TablesTypeOK
  <2>4. IsTable(Insert(versions, ids.version, version), Nat, VersionRow)
    BY <1>2, <2>1, <2>3, InsertTable
  <2> QED
    BY <2>2, <2>3, <2>4
<1>5. IsTable(jobs', Nat, JobRow)
  <2>1. job \in JobRow
    BY <1>1, <1>2 DEF BusyCreator, JobRow, Statuses
  <2>2. IsTable(skipped, Nat, JobRow)
    BY WithStatusTable DEF StoreTypeOK, TablesTypeOK, Statuses
  <2>3. IsTable(Insert(skipped, ids.job, job), Nat, JobRow)
    BY <1>2, <2>1, <2>2, InsertTable
  <2>4. jobs' = jobs \/ jobs' = Insert(skipped, ids.job, job)
    BY DEF TxCommit
  <2> QED
    BY <2>3, <2>4 DEF StoreTypeOK, TablesTypeOK
<1>6. ids' \in [pkg : Nat \ {0}, version : Nat, job : Nat]
  BY DEF TxCommit, StoreTypeOK, TablesTypeOK
<1>7. StoreTypeOK'
  BY <1>3, <1>4, <1>5, <1>6 DEF TxCommit, StoreTypeOK, TablesTypeOK, DiskTypeOK, EnvTypeOK,
    disk, published, env
<1>8. IntakeTypeOK'
  BY GotoType DEF TxCommit
<1> QED
  BY <1>7, <1>8

\* A transaction that ends without COMMIT.
LEMMA AbortCreateType ==
    ASSUME StoreTypeOK, IntakeTypeOK, NEW c \in Creators, AbortCreate(c) \/ IntakeFails(c)
    PROVE  StoreTypeOK' /\ IntakeTypeOK'
<1>1. IntakeTypeOK'
  BY AbandonType DEF AbortCreate, IntakeFails
<1>2. CASE AbortCreate(c)
  BY <1>1, <1>2 DEF AbortCreate, StoreTypeOK, TablesTypeOK, DiskTypeOK, EnvTypeOK,
    tables, disk, published, env
<1>3. CASE IntakeFails(c)
  <2>1. DiskTypeOK' /\ EnvTypeOK'
    BY <1>3, FaultType DEF IntakeFails
  <2> QED
    BY <1>1, <1>3, <2>1 DEF IntakeFails, StoreTypeOK, TablesTypeOK, tables
<1> QED
  BY <1>2, <1>3

-----------------------------------------------------------------------------
\* One UPDATE of a job row keeps the table.
LEMMA MarkJobType ==
    ASSUME IsTable(jobs, Nat, JobRow), NEW j, NEW s \in Statuses, MarkJob(j, s)
    PROVE  IsTable(jobs', Nat, JobRow) /\ DOMAIN jobs' = DOMAIN jobs
  BY WithStatusTable DEF MarkJob

\* The worker.
LEMMA WorkerType ==
    ASSUME StoreTypeOK, WorkerTypeOK, WorkerStep \/ WorkerCrash
    PROVE  StoreTypeOK' /\ WorkerTypeOK'
<1> USE DEF IdleWorker, NoJob
<1>1. CASE ClaimSelect
  <2>1. StoreTypeOK'
    BY <1>1 DEF ClaimSelect, StoreTypeOK, TablesTypeOK, DiskTypeOK, EnvTypeOK,
      tables, locks, disk, published, env
  <2>2. WorkerTypeOK'
    <3>1. PICK j \in Due :
            worker' = [worker EXCEPT !.pc = "check", !.job = j, !.version = jobs[j].version]
      BY <1>1 DEF ClaimSelect
    <3>2. j \in Nat /\ jobs[j].version \in Nat
      BY DEF Due, StoreTypeOK, TablesTypeOK, IsTable, JobRow
    <3> QED
      BY <3>1, <3>2 DEF WorkerTypeOK, Building
  <2> QED
    BY <2>1, <2>2
<1>2. CASE ClaimCheck
  <2>1. StoreTypeOK'
    BY <1>2 DEF ClaimCheck, StoreTypeOK, TablesTypeOK, DiskTypeOK, EnvTypeOK,
      tables, locks, disk, published, env
  <2>2. WorkerTypeOK'
    BY <1>2 DEF ClaimCheck, WorkerTypeOK, Building, StoreTypeOK, TablesTypeOK,
      IsTable, VersionRow
  <2> QED
    BY <2>1, <2>2
<1>3. CASE ClaimSkip
  <2>1. IsTable(jobs', Nat, JobRow)
    BY <1>3, MarkJobType DEF ClaimSkip, Statuses, StoreTypeOK, TablesTypeOK
  <2> QED
    BY <1>3, <2>1 DEF ClaimSkip, StoreTypeOK, TablesTypeOK, DiskTypeOK, EnvTypeOK,
      locks, disk, published, env, WorkerTypeOK, Building
<1>4. CASE ClaimTake
  <2>1. IsTable(jobs', Nat, JobRow)
    BY <1>4, WithStatusTable DEF ClaimTake, Statuses, StoreTypeOK, TablesTypeOK
  <2>2. WorkerTypeOK'
    <3>1. CASE worker' = IdleWorker
      BY <3>1 DEF WorkerTypeOK, Building
    <3>2. CASE worker.row \in DOMAIN pkgs /\ worker' = [worker EXCEPT !.pc = "start",
                 !.name = pkgs[worker.row].name, !.path = pkgs[worker.row].path]
      <4>1. pkgs[worker.row].name \in Packages /\ pkgs[worker.row].path \in Revisions
        BY <3>2 DEF StoreTypeOK, TablesTypeOK, IsTable, PackageRow
      <4> QED
        BY <3>2, <4>1 DEF WorkerTypeOK, Building
    <3> QED
      BY <1>4, <3>1, <3>2 DEF ClaimTake
  <2> QED
    BY <1>4, <2>1, <2>2 DEF ClaimTake, StoreTypeOK, TablesTypeOK, DiskTypeOK, EnvTypeOK,
      locks, disk, published, env
<1>5. CASE BuildStart
  <2>1. StoreTypeOK'
    BY <1>5 DEF BuildStart, StoreTypeOK, TablesTypeOK, DiskTypeOK, EnvTypeOK,
      tables, locks, disk, published, env
  <2>2. WorkerTypeOK'
    BY <1>5 DEF BuildStart, WorkerTypeOK, Building, StoreTypeOK, DiskTypeOK, IsTable
  <2> QED
    BY <2>1, <2>2
<1>6. CASE BuildSucceeds
  <2>1. <<worker.name, FileVersion[worker.content]>> \in File
    BY <1>6, RevisionsAssumption DEF BuildSucceeds, WorkerTypeOK, Building, File
  <2>2. IsTable(staging', Nat, File)
    BY <1>6, <2>1, InsertTable DEF BuildSucceeds, StoreTypeOK, DiskTypeOK, WorkerTypeOK
  <2>3. StoreTypeOK'
    BY <1>6, <2>2 DEF BuildSucceeds, StoreTypeOK, TablesTypeOK, DiskTypeOK, EnvTypeOK,
      tables, locks, published, env
  <2>4. WorkerTypeOK'
    BY <1>6 DEF BuildSucceeds, WorkerTypeOK, Building
  <2> QED
    BY <2>3, <2>4
<1>7. CASE BuildFails
  BY <1>7 DEF BuildFails, StoreTypeOK, TablesTypeOK, DiskTypeOK, EnvTypeOK,
    tables, locks, disk, published, env, WorkerTypeOK, Building
<1>8. CASE MarkBuild
  <2>1. IsTable(jobs', Nat, JobRow)
    BY <1>8, MarkJobType DEF MarkBuild, Statuses, StoreTypeOK, TablesTypeOK
  <2> QED
    BY <1>8, <2>1 DEF MarkBuild, StoreTypeOK, TablesTypeOK, DiskTypeOK, EnvTypeOK,
      locks, disk, published, env, WorkerTypeOK, Building
<1>9. CASE WorkerCrash
  <2>1. DiskTypeOK' /\ EnvTypeOK'
    BY <1>9, FaultType DEF WorkerCrash
  <2> QED
    BY <1>9, <2>1 DEF WorkerCrash, StoreTypeOK, TablesTypeOK, tables, locks,
      WorkerTypeOK, Building
<1> QED
  BY <1>1, <1>2, <1>3, <1>4, <1>5, <1>6, <1>7, <1>8, <1>9 DEF WorkerStep

\* The publisher.
LEMMA PublisherType ==
    ASSUME StoreTypeOK, PublisherTypeOK, PublisherStep \/ PubFails \/ PubMarkFails \/ PubCrash
    PROVE  StoreTypeOK' /\ PublisherTypeOK'
<1> USE DEF IdlePublisher
<1>1. CASE PubList
  <2>1. BuiltJobs \subseteq Nat
    BY DEF BuiltJobs, StoreTypeOK, TablesTypeOK, IsTable
  <2> QED
    BY <1>1, <2>1 DEF PubList, StoreTypeOK, TablesTypeOK, DiskTypeOK, EnvTypeOK,
      tables, locks, disk, published, env, PublisherTypeOK
<1>2. CASE PubCopy
  <2>1. PICK j \in publisher.queue :
          \/ /\ j \in DOMAIN staging
             /\ files' = Insert(files, staging[j], j)
             /\ publisher' = [publisher EXCEPT !.pc = "record", !.queue = @ \ {j},
                                               !.job = j, !.file = staging[j]]
          \/ /\ publisher' = [publisher EXCEPT !.pc = "fail", !.queue = @ \ {j}, !.job = j]
             /\ UNCHANGED files
    BY <1>2 DEF PubCopy
  <2>2. j \in Nat /\ (j \in DOMAIN staging => staging[j] \in File)
    BY DEF PublisherTypeOK, StoreTypeOK, DiskTypeOK, IsTable
  <2>3. IsTable(files', File, Nat)
    BY <2>1, <2>2, InsertTable DEF StoreTypeOK, DiskTypeOK
  <2>4. PublisherTypeOK'
    BY <2>1, <2>2 DEF PublisherTypeOK
  <2> QED
    BY <1>2, <2>3, <2>4 DEF PubCopy, StoreTypeOK, TablesTypeOK, DiskTypeOK, EnvTypeOK,
      tables, locks, disk, env
<1>3. CASE PubRecord
  <2>1. artifacts' \subseteq [job : Nat, file : File]
    BY <1>3 DEF PubRecord, PublisherTypeOK, StoreTypeOK, TablesTypeOK
  <2> QED
    BY <1>3, <2>1 DEF PubRecord, StoreTypeOK, TablesTypeOK, DiskTypeOK, EnvTypeOK,
      locks, disk, published, env, PublisherTypeOK
<1>4. CASE PubAdd
  <2>1. publisher.file \in File
    BY <1>4 DEF PubAdd, PublisherTypeOK
  <2>2. PublisherTypeOK'
    BY <1>4 DEF PubAdd, PublisherTypeOK
  <2>3. CASE publisher.file \in DOMAIN files
    <3>1. PICK stale : files' = Without(files, stale)
      BY <1>4, <2>3 DEF PubAdd
    <3>2. IsTable(files', File, Nat)
      BY <3>1, WithoutTable DEF StoreTypeOK, DiskTypeOK
    <3>3. publisher.file[1] \in Packages /\ files[publisher.file] \in Nat
      BY <2>1, <2>3 DEF File, StoreTypeOK, DiskTypeOK, IsTable
    <3>4. [file |-> publisher.file, job |-> files[publisher.file]] \in [file : File, job : Nat]
      BY <2>1, <3>3
    <3>5. repo' = Insert(repo, publisher.file[1],
                         [file |-> publisher.file, job |-> files[publisher.file]])
      BY <1>4, <2>3 DEF PubAdd
    <3>6. IsTable(repo', Packages, [file : File, job : Nat])
      BY <3>3, <3>4, <3>5, InsertTable DEF StoreTypeOK, DiskTypeOK
    <3> QED
      BY <1>4, <2>2, <3>2, <3>6 DEF PubAdd, StoreTypeOK, TablesTypeOK, DiskTypeOK,
        EnvTypeOK, tables, locks, disk, env
  <2>4. CASE publisher.file \notin DOMAIN files
    BY <1>4, <2>2, <2>4 DEF PubAdd, StoreTypeOK, TablesTypeOK, DiskTypeOK, EnvTypeOK,
      tables, locks, disk, env
  <2> QED
    BY <2>3, <2>4
<1>5. CASE PubMark
  <2>1. IsTable(jobs', Nat, JobRow)
    BY <1>5, MarkJobType DEF PubMark, Statuses, StoreTypeOK, TablesTypeOK
  <2> QED
    BY <1>5, <2>1 DEF PubMark, NextInList, StoreTypeOK, TablesTypeOK, DiskTypeOK, EnvTypeOK,
      locks, disk, published, env, PublisherTypeOK
<1>6. CASE PubFails \/ PubMarkFails \/ PubCrash
  <2>1. DiskTypeOK' /\ EnvTypeOK'
    BY <1>6, FaultType DEF PubFails, PubMarkFails, PubCrash
  <2>2. PublisherTypeOK'
    <3>1. CASE PubFails BY <3>1 DEF PubFails, PublisherTypeOK
    <3>2. CASE PubMarkFails BY <3>2 DEF PubMarkFails, NextInList, PublisherTypeOK
    <3>3. CASE PubCrash BY <3>3 DEF PubCrash, NextInList, PublisherTypeOK
    <3> QED BY <1>6, <3>1, <3>2, <3>3
  <2> QED
    BY <1>6, <2>1, <2>2 DEF PubFails, PubMarkFails, PubCrash, StoreTypeOK, TablesTypeOK,
      tables, locks
<1> QED
  BY <1>1, <1>2, <1>3, <1>4, <1>5, <1>6 DEF PublisherStep

\* The remover.
LEMMA RemoverType ==
    ASSUME StoreTypeOK, RemoverTypeOK,
           RemoverStep \/ RmRepoFails \/ RmCrash \/ AbortRemove
    PROVE  StoreTypeOK' /\ RemoverTypeOK'
<1> USE DEF IdleRemover, RemoverAt
<1>1. ASSUME NEW n \in Packages, RmRead(n) PROVE StoreTypeOK' /\ RemoverTypeOK'
  <2>1. PICK k \in RowOf(n) :
          remover' = [pc |-> "jobs", name |-> n, row |-> k,
                      vers |-> VersionsOf(k), jbs |-> {}, arts |-> {}]
    BY <1>1 DEF RmRead
  <2>2. k \in Nat /\ VersionsOf(k) \subseteq Nat
    BY DEF RowOf, VersionsOf, StoreTypeOK, TablesTypeOK, IsTable
  <2>3. RemoverTypeOK'
    BY <2>1, <2>2 DEF RemoverTypeOK
  <2> QED
    BY <1>1, <2>3 DEF RmRead, StoreTypeOK, TablesTypeOK, DiskTypeOK, EnvTypeOK,
      tables, locks, disk, published, env
<1>10. CASE RmJobs
  <2>1. JobsOf(remover.vers) \subseteq Nat
    BY DEF JobsOf, StoreTypeOK, TablesTypeOK, IsTable
  <2>2. RemoverTypeOK'
    BY <1>10, <2>1 DEF RmJobs, RemoverTypeOK
  <2> QED
    BY <1>10, <2>2 DEF RmJobs, StoreTypeOK, TablesTypeOK, DiskTypeOK, EnvTypeOK,
      tables, locks, disk, published, env
<1>2. CASE RmArtifacts
  BY <1>2 DEF RmArtifacts, StoreTypeOK, TablesTypeOK, DiskTypeOK, EnvTypeOK,
    tables, locks, disk, published, env, RemoverTypeOK
<1>3. CASE RmRepo
  <2>1. IsTable(repo', Packages, [file : File, job : Nat])
    BY <1>3, WithoutTable DEF RmRepo, StoreTypeOK, DiskTypeOK
  <2> QED
    BY <1>3, <2>1 DEF RmRepo, StoreTypeOK, TablesTypeOK, DiskTypeOK, EnvTypeOK,
      tables, locks, disk, env, RemoverTypeOK
<1>4. CASE RmFiles
  <2>1. IsTable(files', File, Nat)
    BY <1>4, WithoutTable DEF RmFiles, StoreTypeOK, DiskTypeOK
  <2> QED
    BY <1>4, <2>1 DEF RmFiles, StoreTypeOK, TablesTypeOK, DiskTypeOK, EnvTypeOK,
      tables, locks, disk, env, RemoverTypeOK
<1>5. CASE RmDelete
  BY <1>5 DEF RmDelete, StoreTypeOK, TablesTypeOK, DiskTypeOK, EnvTypeOK,
    tables, disk, published, env, RemoverTypeOK
<1>6. CASE RmCommit
  <2>1. /\ IsTable(jobs', Nat, JobRow)
        /\ IsTable(versions', Nat, VersionRow)
        /\ IsTable(pkgs', Nat \ {0}, PackageRow)
    BY <1>6, WithoutTable DEF RmCommit, StoreTypeOK, TablesTypeOK
  <2> QED
    BY <1>6, <2>1 DEF RmCommit, StoreTypeOK, TablesTypeOK, DiskTypeOK, EnvTypeOK,
      disk, published, env, RemoverTypeOK
<1>7. CASE RmCleanup
  <2>1. /\ IsTable(staging', Nat, File)
        /\ IsTable(sources', Packages \X Revisions, Revisions)
    BY <1>7, WithoutTable DEF RmCleanup, StoreTypeOK, DiskTypeOK
  <2>2. preview' \in [Packages -> Revisions \cup {NoRevision}]
    BY <1>7 DEF RmCleanup, StoreTypeOK, DiskTypeOK
  <2> QED
    BY <1>7, <2>1, <2>2 DEF RmCleanup, StoreTypeOK, TablesTypeOK, DiskTypeOK, EnvTypeOK,
      tables, locks, published, env, RemoverTypeOK
<1>8. CASE AbortRemove
  BY <1>8 DEF AbortRemove, StoreTypeOK, TablesTypeOK, DiskTypeOK, EnvTypeOK,
    tables, disk, published, env, RemoverTypeOK
<1>9. CASE RmRepoFails \/ RmCrash
  <2>1. DiskTypeOK' /\ EnvTypeOK'
    BY <1>9, FaultType DEF RmRepoFails, RmCrash
  <2> QED
    BY <1>9, <2>1 DEF RmRepoFails, RmCrash, StoreTypeOK, TablesTypeOK, tables, locks,
      RemoverTypeOK
<1> QED
  BY <1>1, <1>2, <1>3, <1>4, <1>5, <1>6, <1>7, <1>8, <1>9, <1>10
  DEF RemoverStep, RemoveGoesOn

\* Upstream and the clock.
LEMMA EnvironmentType ==
    ASSUME StoreTypeOK, Tick \/ \E n \in Packages : Push(n)
    PROVE  StoreTypeOK'
<1>1. CASE Tick
  BY <1>1 DEF Tick, StoreTypeOK, TablesTypeOK, DiskTypeOK, EnvTypeOK,
    tables, locks, disk, published
<1>2. ASSUME NEW n \in Packages, Push(n) PROVE StoreTypeOK'
  <2>1. NextRevisions(n) \subseteq Revisions
    BY RevisionsAssumption DEF NextRevisions, StoreTypeOK, EnvTypeOK
  <2> QED
    BY <1>2, <2>1 DEF Push, StoreTypeOK, TablesTypeOK, DiskTypeOK, EnvTypeOK,
      tables, locks, disk, published
<1> QED
  BY <1>1, <1>2

\* Each step keeps the types.
LEMMA TypeNext == TypeOK /\ [Next]_vars => TypeOK'
<1> SUFFICES ASSUME TypeOK, [Next]_vars PROVE TypeOK'
  OBVIOUS
<1>0. StoreTypeOK /\ IntakeTypeOK /\ WorkerTypeOK /\ PublisherTypeOK /\ RemoverTypeOK
  BY DEF TypeOK, StoreTypeOK
<1>1. UNCHANGED intakeVars => IntakeTypeOK'
  BY <1>0 DEF intakeVars, IntakeTypeOK
<1>2. UNCHANGED worker => WorkerTypeOK'
  BY <1>0 DEF WorkerTypeOK, Building
<1>3. UNCHANGED publisher => PublisherTypeOK'
  BY <1>0 DEF PublisherTypeOK
<1>4. UNCHANGED remover => RemoverTypeOK'
  BY <1>0 DEF RemoverTypeOK, RemoverAt
<1>5. SUFFICES /\ StoreTypeOK' /\ IntakeTypeOK' /\ WorkerTypeOK'
               /\ PublisherTypeOK' /\ RemoverTypeOK'
  BY DEF TypeOK, StoreTypeOK
<1>6. ASSUME NEW c \in Creators, Create(c) PROVE StoreTypeOK' /\ IntakeTypeOK'
  BY <1>0, <1>6, AcceptType, TxFindType, TxSaveType, TxCommitType DEF Create
<1>7. CASE Scheduling
  <2>1. StoreTypeOK' /\ IntakeTypeOK'
    BY <1>0, <1>6, <1>7, ListType, PollType, PreviewType DEF Scheduling, SchedulerStep, Creators
  <2> QED
    BY <1>2, <1>3, <1>4, <1>7, <2>1 DEF Scheduling
<1>8. CASE Commanding
  <2>1. StoreTypeOK' /\ IntakeTypeOK'
    BY <1>0, <1>6, <1>8, CliType, PreviewType DEF Commanding, CliStep, Creators
  <2> QED
    BY <1>2, <1>3, <1>4, <1>8, <2>1 DEF Commanding
<1>9. CASE Working
  BY <1>0, <1>1, <1>3, <1>4, <1>9, WorkerType DEF Working
<1>10. CASE Publishing
  BY <1>0, <1>1, <1>2, <1>4, <1>10, PublisherType DEF Publishing
<1>11. CASE Removing
  BY <1>0, <1>1, <1>2, <1>3, <1>11, RemoverType DEF Removing
<1>12. CASE Deadlock
  BY <1>0, <1>1, <1>2, <1>3, <1>4, <1>12, AbortCreateType, RemoverType DEF Deadlock
<1>13. CASE Faults
  BY <1>0, <1>1, <1>2, <1>3, <1>4, <1>13, AbortCreateType, PollFailsType, WorkerType, PublisherType,
    RemoverType DEF Faults
<1>14. CASE Environment
  BY <1>0, <1>1, <1>2, <1>3, <1>4, <1>14, EnvironmentType DEF Environment
<1>15. CASE UNCHANGED vars
  BY <1>0, <1>1, <1>2, <1>3, <1>4, <1>15 DEF vars, store, StoreTypeOK, TablesTypeOK,
    DiskTypeOK, EnvTypeOK, tables, locks, disk, published, env
<1> QED
  BY <1>7, <1>8, <1>9, <1>10, <1>11, <1>12, <1>13, <1>14, <1>15 DEF Next

\* Every table, directory and process state keeps its type, whatever the
\* processes do and wherever they fail.
THEOREM TypeCorrect == Spec => []TypeOK
<1>1. TypeOK /\ [Next]_vars => TypeOK'
  BY TypeNext
<1> QED
  BY <1>1, TypeInit, PTL DEF Spec

-----------------------------------------------------------------------------
(* The queue: versions and their jobs, and which job may wait to be built. *)
(* Only three kinds of step write these tables: the commit of              *)
(* CreatePackage, the commit of RemovePackage, and an UPDATE of one job's  *)
(* status.                                                                 *)

Jobs == IsTable(jobs, Nat, JobRow)

\* WithStatus changes the status of the jobs it is given, and no other column.
LEMMA WithStatusRows ==
    ASSUME Jobs, NEW js, NEW s \in Statuses
    PROVE  \A j \in DOMAIN jobs :
             /\ WithStatus(js, s)[j].version = jobs[j].version
             /\ WithStatus(js, s)[j].status = IF j \in js THEN s ELSE jobs[j].status
  BY DEF Jobs, IsTable, WithStatus, JobRow

\* Everything starts empty.
LEMMA QueueInit == Init => QueueInv
  BY DEF Init, StoreInit, RemoverInit, IdleRemover, QueueInv, IdsAreFresh, RemoverReadsWhole,
    VersionsAndJobsPaired, PendingIsNewest

\* A step that leaves versions, jobs and what the remover has read alone.
LEMMA QueueUntouched ==
    ASSUME QueueInv, UNCHANGED <<versions, jobs, ids>>,
           \/ UNCHANGED remover
           \/ /\ remover'.vers = remover.vers /\ remover'.jbs = remover.jbs
              /\ RemoverAt("jobs")' = RemoverAt("jobs")
           \/ remover'.vers = {} /\ remover'.jbs = {}
    PROVE  QueueInv'
<1>1. IdsAreFresh' /\ RemoverReadsWhole'
  BY DEF QueueInv, IdsAreFresh, RemoverReadsWhole, RemoverAt
<1>2. VersionsAndJobsPaired'
  BY DEF QueueInv, VersionsAndJobsPaired, JobsOf
<1>3. PendingIsNewest'
  BY DEF QueueInv, PendingIsNewest, IsLatest, VersionsOf
<1> QED
  BY <1>1, <1>2, <1>3 DEF QueueInv

\* An UPDATE that sets a status other than pending.
LEMMA QueueMark ==
    ASSUME QueueInv, Jobs, UNCHANGED <<versions, ids, remover>>,
           NEW js, NEW s \in Statuses \ {"pending"}, jobs' = WithStatus(js, s)
    PROVE  QueueInv'
<1>1. DOMAIN jobs' = DOMAIN jobs
  BY DEF WithStatus
<1>2. \A j \in DOMAIN jobs : /\ jobs'[j].version = jobs[j].version
                             /\ jobs'[j].status = "pending" => jobs[j].status = "pending"
  BY WithStatusRows
<1>3. IdsAreFresh' /\ RemoverReadsWhole'
  BY <1>1, <1>2 DEF QueueInv, IdsAreFresh, RemoverReadsWhole, RemoverAt
<1>4. ASSUME NEW vers PROVE JobsOf(vers)' = JobsOf(vers)
  BY <1>1, <1>2 DEF JobsOf
<1>5. VersionsAndJobsPaired'
  BY <1>1, <1>2, <1>4 DEF QueueInv, VersionsAndJobsPaired
<1>6. PendingIsNewest'
  BY <1>1, <1>2 DEF QueueInv, PendingIsNewest, IsLatest, VersionsOf
<1> QED
  BY <1>3, <1>5, <1>6 DEF QueueInv

\* CreatePackage: a new version is newer than all others, its job is the only
\* one that has it, and no older version of the package keeps a pending job.
LEMMA QueueCreate ==
    ASSUME TablesTypeOK, RemoverTypeOK, QueueInv,
           NEW c \in Creators, TxCommit(c), UNCHANGED remover
    PROVE  QueueInv'
<1>1. CASE ~IsNew(c)
  <2>1. UNCHANGED <<versions, jobs, ids>>
    BY <1>1 DEF TxCommit
  <2> QED
    BY <2>1, QueueUntouched
<1>2. CASE IsNew(c)
  <2>1. PICK v0, j0, row, eligible :
          /\ v0 \in Nat /\ v0 = ids.version /\ j0 \in Nat /\ j0 = ids.job
          /\ versions' = Insert(versions, v0, [pkg |-> row, rev |-> intake[c].rev])
          /\ jobs' = Insert(WithStatus(Superseded(row), "skipped"), j0,
                            [version |-> v0, status |-> "pending", eligible |-> eligible])
          /\ ids'.version = v0 + 1 /\ ids'.job = j0 + 1
    <3> DEFINE saved == IF intake[c].row # NoRow THEN intake[c].row ELSE ids.pkg
    <3>1. /\ versions' = Insert(versions, ids.version, [pkg |-> saved, rev |-> intake[c].rev])
          /\ jobs' = Insert(WithStatus(Superseded(saved), "skipped"), ids.job,
                            [version |-> ids.version, status |-> "pending",
                             eligible |-> intake[c].eligible])
      BY <1>2, Zenon DEF TxCommit
    <3>2. ids'.version = ids.version + 1 /\ ids'.job = ids.job + 1
      BY <1>2 DEF TxCommit
    <3>3. ids.version \in Nat /\ ids.job \in Nat
      BY DEF TablesTypeOK
    <3> HIDE DEF saved
    <3> QED
      BY <3>1, <3>2, <3>3, Zenon
  <2>2. /\ \A v \in DOMAIN versions : v \in Nat /\ v < v0
        /\ \A j \in DOMAIN jobs : j \in Nat /\ j < j0
    BY <2>1 DEF QueueInv, IdsAreFresh, TablesTypeOK, IsTable
  <2>3. /\ DOMAIN versions' = DOMAIN versions \cup {v0}
        /\ \A v \in DOMAIN versions : versions'[v] = versions[v]
        /\ versions'[v0].pkg = row
    BY <2>1, <2>2 DEF Insert
  <2>4. /\ DOMAIN jobs' = DOMAIN jobs \cup {j0}
        /\ jobs'[j0].version = v0
        /\ \A j \in DOMAIN jobs : jobs'[j] = WithStatus(Superseded(row), "skipped")[j]
    BY <2>1, <2>2 DEF Insert, WithStatus
  <2>5. \A j \in DOMAIN jobs :
          /\ jobs'[j].version = jobs[j].version
          /\ jobs'[j].status = "pending" =>
               jobs[j].status = "pending" /\ j \notin Superseded(row)
    <3>1. "skipped" \in Statuses /\ Jobs
      BY DEF Statuses, TablesTypeOK, Jobs
    <3>2. \A j \in DOMAIN jobs :
            /\ jobs'[j].version = jobs[j].version
            /\ jobs'[j].status = IF j \in Superseded(row) THEN "skipped" ELSE jobs[j].status
      BY <2>4, <3>1, WithStatusRows
    <3> QED
      BY <3>2
  <2>6. \A j \in DOMAIN jobs : jobs[j].version \in DOMAIN versions
    BY DEF QueueInv, VersionsAndJobsPaired
  <2>7. IdsAreFresh'
    BY <2>1, <2>2, <2>3, <2>4 DEF IdsAreFresh
  <2>8. RemoverReadsWhole'
    <3>1. /\ \A v \in remover.vers : v \in Nat /\ v < v0
          /\ \A j \in remover.jbs : j \in Nat /\ j < j0
      BY <2>1 DEF RemoverTypeOK, QueueInv, RemoverReadsWhole
    <3>2. /\ \A v \in remover.vers : v < v0 + 1 /\ v # v0
          /\ \A j \in remover.jbs : j < j0 + 1 /\ j # j0
      BY <2>1, <3>1
    <3>3. ~RemoverAt("jobs") =>
            \A j \in DOMAIN jobs' : j \in remover.jbs <=> jobs'[j].version \in remover.vers
      BY <2>4, <2>5, <3>2 DEF QueueInv, RemoverReadsWhole
    <3> QED
      BY <2>1, <3>2, <3>3 DEF QueueInv, RemoverReadsWhole, RemoverAt
  <2>9. VersionsAndJobsPaired'
    <3>1. \A j \in DOMAIN jobs' : jobs'[j].version \in DOMAIN versions'
      BY <2>3, <2>4, <2>5, <2>6
    <3>2. v0 \notin DOMAIN versions /\ j0 \notin DOMAIN jobs
      BY <2>2
    <3>3. JobsOf({v0})' = {j0}
      BY <2>4, <2>5, <2>6, <3>2 DEF JobsOf
    <3>4. ASSUME NEW v \in DOMAIN versions PROVE JobsOf({v})' = JobsOf({v})
      BY <2>4, <2>5, <3>2 DEF JobsOf
    <3>5. \A v \in DOMAIN versions : \E j \in DOMAIN jobs' : JobsOf({v})' = {j}
      BY <2>4, <3>4 DEF QueueInv, VersionsAndJobsPaired
    <3> QED
      BY <2>3, <2>4, <3>1, <3>3, <3>5 DEF VersionsAndJobsPaired
  <2>10. PendingIsNewest'
    <3> SUFFICES ASSUME NEW j \in DOMAIN jobs', jobs'[j].status = "pending",
                        NEW w \in DOMAIN versions',
                        versions'[w].pkg = versions'[jobs'[j].version].pkg
                 PROVE  jobs'[j].version \in DOMAIN versions' /\ w <= jobs'[j].version
      BY <2>3, <2>4, <2>5, <2>6 DEF PendingIsNewest, IsLatest, VersionsOf
    <3>1. CASE j = j0
      BY <2>1, <2>2, <2>3, <2>4, <3>1
    <3>2. CASE j \in DOMAIN jobs
      <4> DEFINE v == jobs[j].version
      <4>1. v \in DOMAIN versions /\ v # v0 /\ jobs'[j].version = v
        BY <2>2, <2>5, <2>6, <3>2
      <4>2. versions[v].pkg # row
        BY <2>5, <2>6, <3>2 DEF Superseded, JobsOf, VersionsOf
      <4>3. w \in DOMAIN versions /\ versions[w].pkg = versions[v].pkg
        BY <2>3, <4>1, <4>2
      <4>4. w <= v
        BY <2>5, <3>2, <4>3 DEF QueueInv, PendingIsNewest, IsLatest, VersionsOf
      <4> QED
        BY <2>3, <4>1, <4>4
    <3> QED
      BY <2>4, <3>1, <3>2
  <2> QED
    BY <2>7, <2>8, <2>9, <2>10 DEF QueueInv
<1> QED
  BY <1>1, <1>2

\* RemovePackage reads the versions of the package, and then every job of those
\* versions and no other.
LEMMA QueueRead ==
    ASSUME TypeOK, QueueInv, RmJobs \/ \E n \in Packages : RmRead(n)
    PROVE  QueueInv'
<1>1. UNCHANGED <<versions, jobs, ids>>
  BY DEF RmRead, RmJobs, tables
<1>2. CASE \E n \in Packages : RmRead(n)
  <2>1. PICK k : /\ remover'.vers = VersionsOf(k) /\ remover'.jbs = {}
                 /\ RemoverAt("jobs")'
    BY <1>2 DEF RmRead, RemoverAt
  <2>2. \A v \in remover'.vers : v \in DOMAIN versions
    BY <2>1 DEF VersionsOf
  <2> QED
    BY <1>1, <2>1, <2>2 DEF QueueInv, RemoverReadsWhole, IdsAreFresh,
      VersionsAndJobsPaired, JobsOf, PendingIsNewest, IsLatest, VersionsOf
<1>3. CASE RmJobs /\ remover'.vers = {} /\ remover'.jbs = {}
  BY <1>1, <1>3, QueueUntouched
<1>4. CASE RmJobs /\ ~(remover'.vers = {} /\ remover'.jbs = {})
  <2>1. /\ remover'.vers = remover.vers /\ remover'.jbs = JobsOf(remover.vers)
        /\ ~RemoverAt("jobs")'
    BY <1>4 DEF RmJobs, RemoverAt, IdleRemover, TypeOK, RemoverTypeOK
  <2>2. /\ \A j \in remover'.jbs : j \in DOMAIN jobs
        /\ \A j \in DOMAIN jobs : j \in remover'.jbs <=> jobs[j].version \in remover'.vers
    BY <2>1 DEF JobsOf
  <2>3. IdsAreFresh' /\ RemoverReadsWhole'
    BY <1>1, <2>1, <2>2 DEF QueueInv, RemoverReadsWhole, IdsAreFresh
  <2>4. VersionsAndJobsPaired' /\ PendingIsNewest'
    BY <1>1 DEF QueueInv, VersionsAndJobsPaired, JobsOf, PendingIsNewest, IsLatest, VersionsOf
  <2> QED
    BY <2>3, <2>4 DEF QueueInv
<1> QED
  BY <1>2, <1>3, <1>4

\* RemovePackage deletes the jobs of exactly the versions it deletes.
LEMMA QueueRemove ==
    ASSUME RemoverTypeOK, QueueInv, RmCommit
    PROVE  QueueInv'
<1> DEFINE vers == remover.vers
           jbs == remover.jbs
<1>1. /\ DOMAIN versions' = DOMAIN versions \ vers
      /\ \A v \in DOMAIN versions' : versions'[v] = versions[v]
      /\ DOMAIN jobs' = DOMAIN jobs \ jbs
      /\ \A j \in DOMAIN jobs' : jobs'[j] = jobs[j]
  BY DEF RmCommit, Without, Restrict
<1>2. ids' = ids /\ remover'.vers = remover.vers /\ remover'.jbs = remover.jbs
  BY DEF RmCommit, RemoverTypeOK
<1>7. ~RemoverAt("jobs") /\ ~RemoverAt("jobs")'
  BY DEF RmCommit, RemoverAt, RemoverTypeOK
<1>3. \A j \in DOMAIN jobs : j \in remover.jbs <=> jobs[j].version \in remover.vers
  BY <1>7 DEF QueueInv, RemoverReadsWhole
<1>4. IdsAreFresh' /\ RemoverReadsWhole'
  BY <1>1, <1>2, <1>7 DEF QueueInv, IdsAreFresh, RemoverReadsWhole
<1>5. VersionsAndJobsPaired'
  <2>1. \A j \in DOMAIN jobs' : jobs'[j].version \in DOMAIN versions'
    BY <1>1, <1>3 DEF QueueInv, VersionsAndJobsPaired
  <2>2. ASSUME NEW v \in DOMAIN versions' PROVE \E j \in DOMAIN jobs' : JobsOf({v})' = {j}
    <3>1. PICK j \in DOMAIN jobs : JobsOf({v}) = {j}
      BY <1>1 DEF QueueInv, VersionsAndJobsPaired
    <3>2. j \in DOMAIN jobs' /\ JobsOf({v})' = {j}
      BY <1>1, <1>3, <3>1 DEF JobsOf
    <3> QED
      BY <3>2
  <2> QED
    BY <2>1, <2>2 DEF VersionsAndJobsPaired
<1>6. PendingIsNewest'
  BY <1>1, <1>5 DEF QueueInv, PendingIsNewest, VersionsAndJobsPaired, IsLatest, VersionsOf
<1> QED
  BY <1>4, <1>5, <1>6 DEF QueueInv

\* The steps of the worker: ClaimSkip, ClaimTake and MarkBuild update one job.
LEMMA QueueWorker ==
    ASSUME TypeOK, QueueInv, WorkerStep \/ WorkerCrash, UNCHANGED remover
    PROVE  QueueInv'
<1>1. Jobs
  BY DEF TypeOK, TablesTypeOK, Jobs
<1>2. UNCHANGED <<versions, ids>>
  BY DEF WorkerStep, WorkerCrash, ClaimSelect, ClaimCheck, ClaimSkip, ClaimTake, BuildStart,
    BuildSucceeds, BuildFails, MarkBuild, tables
<1>3. \/ UNCHANGED jobs
      \/ \E s \in Statuses \ {"pending"} : jobs' = WithStatus({worker.job}, s)
  BY DEF WorkerStep, WorkerCrash, ClaimSelect, ClaimCheck, ClaimSkip, ClaimTake, BuildStart,
    BuildSucceeds, BuildFails, MarkBuild, tables, MarkJob, Statuses
<1>4. CASE UNCHANGED jobs
  BY <1>2, <1>4, QueueUntouched
<1>5. CASE \E s \in Statuses \ {"pending"} : jobs' = WithStatus({worker.job}, s)
  BY <1>1, <1>2, <1>5, QueueMark
<1> QED
  BY <1>3, <1>4, <1>5

\* The steps of the publisher: PubMark updates one job.
LEMMA QueuePublisher ==
    ASSUME TypeOK, QueueInv, PublisherStep \/ PubFails \/ PubMarkFails \/ PubCrash, UNCHANGED remover
    PROVE  QueueInv'
<1>1. Jobs
  BY DEF TypeOK, TablesTypeOK, Jobs
<1>2. UNCHANGED <<versions, ids>>
  BY DEF PublisherStep, PubFails, PubMarkFails, PubCrash, PubList, PubCopy, PubRecord,
    PubAdd, PubMark, tables
<1>3. \/ UNCHANGED jobs
      \/ \E s \in Statuses \ {"pending"} : jobs' = WithStatus({publisher.job}, s)
  BY DEF PublisherStep, PubFails, PubMarkFails, PubCrash, PubList, PubCopy, PubRecord,
    PubAdd, PubMark, tables, MarkJob, Statuses
<1>4. CASE UNCHANGED jobs
  BY <1>2, <1>4, QueueUntouched
<1>5. CASE \E s \in Statuses \ {"pending"} : jobs' = WithStatus({publisher.job}, s)
  BY <1>1, <1>2, <1>5, QueueMark
<1> QED
  BY <1>3, <1>4, <1>5

\* The steps of the scheduler and of the add command: only TxCommit writes.
LEMMA QueueIntake ==
    ASSUME TypeOK, QueueInv, UNCHANGED remover,
           \/ SchedulerStep \/ CliStep
           \/ \E c \in Creators : AbortCreate(c) \/ IntakeFails(c)
           \/ PollFails
    PROVE  QueueInv'
<1>1. CASE \E c \in Creators : TxCommit(c)
  BY <1>1, QueueCreate DEF TypeOK
<1>2. CASE ~ \E c \in Creators : TxCommit(c)
  <2>1. UNCHANGED <<versions, jobs, ids>>
    BY <1>2 DEF SchedulerStep, CliStep, Create, Creators, PollList, PollCheck,
      PreviewAUR, PreviewClear, PreviewClone, PreviewRead, PreviewInspect, PreviewError,
      PreviewStep, CliPreview, CliDecline, Accept, TxFind, TxSave, AbortCreate,
      IntakeFails, PollFails, tables
  <2> QED
    BY <2>1, QueueUntouched
<1> QED
  BY <1>1, <1>2

\* The steps of the remover.
LEMMA QueueRemover ==
    ASSUME TypeOK, QueueInv, RemoverStep \/ AbortRemove \/ RmRepoFails \/ RmCrash
    PROVE  QueueInv'
<1>1. CASE RmJobs \/ \E n \in Packages : RmRead(n)
  BY <1>1, QueueRead
<1>2. CASE RmCommit
  BY <1>2, QueueRemove DEF TypeOK
<1>3. CASE \/ RmArtifacts \/ RmRepo \/ RmFiles \/ RmDelete \/ RmCleanup
           \/ AbortRemove \/ RmRepoFails \/ RmCrash
  <2>1. UNCHANGED <<versions, jobs, ids>>
    BY <1>3 DEF RmArtifacts, RmRepo, RmFiles, RmDelete, RmCleanup, AbortRemove, RmRepoFails,
      RmCrash, tables
  <2>2. \/ /\ remover'.vers = remover.vers /\ remover'.jbs = remover.jbs
           /\ RemoverAt("jobs")' = RemoverAt("jobs")
        \/ remover'.vers = {} /\ remover'.jbs = {}
    <3>1. CASE RmArtifacts \/ RmRepo \/ RmFiles
      BY <3>1 DEF TypeOK, RemoverTypeOK, RemoverAt, RmArtifacts, RmRepo, RmFiles
    <3>2. CASE RmDelete \/ RmRepoFails
      BY <3>2 DEF TypeOK, RemoverTypeOK, RemoverAt, RmDelete, RmRepoFails
    <3>3. CASE RmCleanup \/ AbortRemove \/ RmCrash
      BY <3>3 DEF RmCleanup, AbortRemove, RmCrash, IdleRemover
    <3> QED
      BY <1>3, <3>1, <3>2, <3>3
  <2> QED
    BY <2>1, <2>2, QueueUntouched
<1> QED
  BY <1>1, <1>2, <1>3 DEF RemoverStep, RemoveGoesOn

\* Each step keeps the queue.
LEMMA QueueNext == TypeOK /\ QueueInv /\ [Next]_vars => QueueInv'
<1> SUFFICES ASSUME TypeOK, QueueInv, [Next]_vars PROVE QueueInv'
  OBVIOUS
<1>1. CASE Scheduling \/ Commanding
  BY <1>1, QueueIntake DEF Scheduling, Commanding
<1>2. CASE Working
  BY <1>2, QueueWorker DEF Working
<1>3. CASE Publishing
  BY <1>3, QueuePublisher DEF Publishing
<1>4. CASE Removing
  BY <1>4, QueueRemover DEF Removing
<1>5. CASE Deadlock
  BY <1>5, QueueIntake, QueueRemover DEF Deadlock
<1>6. CASE Faults
  BY <1>6, QueueIntake, QueueWorker, QueuePublisher, QueueRemover DEF Faults
<1>7. CASE Environment
  <2>1. UNCHANGED <<versions, jobs, ids, remover>>
    BY <1>7 DEF Environment, Tick, Push, tables
  <2> QED
    BY <2>1, QueueUntouched
<1>8. CASE UNCHANGED vars
  <2>1. UNCHANGED <<versions, jobs, ids, remover>>
    BY <1>8 DEF vars, store, tables
  <2> QED
    BY <2>1, QueueUntouched
<1> QED
  BY <1>1, <1>2, <1>3, <1>4, <1>5, <1>6, <1>7, <1>8 DEF Next

\* The queue stays as QueueInv says.
LEMMA QueueCorrect == Spec => []QueueInv
<1>1. TypeOK /\ QueueInv /\ [Next]_vars => QueueInv'
  BY QueueNext
<1> QED
  BY <1>1, QueueInit, TypeCorrect, PTL DEF Spec

\* A job that waits to be built belongs to the newest version of its package,
\* however many packages, revisions, commands and faults there are.
THEOREM PendingNewest == Spec => []PendingIsNewest
<1>1. QueueInv => PendingIsNewest
  BY DEF QueueInv
<1> QED
  BY <1>1, QueueCorrect, PTL

\* Every version has exactly one job and every job a version, whatever a remove
\* deletes between the steps of the others.
THEOREM Paired == Spec => []VersionsAndJobsPaired
<1>1. QueueInv => VersionsAndJobsPaired
  BY DEF QueueInv
<1> QED
  BY <1>1, QueueCorrect, PTL

-----------------------------------------------------------------------------
(* The jobs that the worker and the publisher hold, from the statement     *)
(* that reads a job to the one that marks it: no transaction spans these   *)
(* steps, and yet nobody else decides the job's status.                    *)


\* A status is the only thing WithStatus changes, and of these jobs alone.
LEMMA MarkedStatus ==
    ASSUME Jobs, NEW js, NEW s \in Statuses, jobs' = WithStatus(js, s)
    PROVE  /\ DOMAIN jobs' = DOMAIN jobs
           /\ \A j \in DOMAIN jobs :
                jobs'[j].status = IF j \in js THEN s ELSE jobs[j].status
  BY WithStatusRows DEF WithStatus

\* Nobody holds a job and nothing is recorded at the start.
LEMMA HoldersInit == Init => HoldersInv
  BY DEF Init, StoreInit, WorkerInit, IdleWorker, PublisherInit, IdlePublisher, RemoverInit,
    IdleRemover, HoldersInv, ClaimHoldsItsJob, BuildHoldsItsJob, Building, InHand,
    PublisherHoldsItsJobs, RemoverArtifacts, PublishedIsRecorded

\* What the others may do to the table of jobs: insert one, skip one that
\* waits, delete some with their artifacts.
LEMMA HoldersFrame ==
    ASSUME TypeOK, HoldersInv, RemoverArtifacts', UNCHANGED <<worker, publisher>>,
           ids'.job \in Nat, ids.job <= ids'.job,
           \A j \in DOMAIN jobs' :
             \/ /\ j \in DOMAIN jobs
                /\ \/ jobs'[j].status = jobs[j].status
                   \/ jobs[j].status = "pending" /\ jobs'[j].status = "skipped"
             \/ j \in Nat /\ ids.job <= j /\ jobs'[j].status = "pending",
           \A j \in DOMAIN jobs' : \A a \in artifacts : a.job = j => a \in artifacts'
    PROVE  HoldersInv'
<1>1. /\ worker.job \in Nat /\ ids.job \in Nat /\ publisher.job \in Nat
      /\ publisher.queue \subseteq Nat
  BY DEF TypeOK, WorkerTypeOK, TablesTypeOK, PublisherTypeOK
<1>2. ClaimHoldsItsJob'
  BY <1>1 DEF HoldersInv, ClaimHoldsItsJob
<1>3. BuildHoldsItsJob'
  BY <1>1 DEF HoldersInv, ClaimHoldsItsJob, BuildHoldsItsJob, Building
<1>4. PublisherHoldsItsJobs'
  <2>1. InHand' = InHand /\ InHand \subseteq Nat
    BY <1>1 DEF InHand
  <2>2. ASSUME NEW j \in InHand
        PROVE  j < ids'.job /\ (j \in DOMAIN jobs' => j \in DOMAIN jobs /\ jobs'[j].status = "built")
    BY <1>1, <2>1 DEF HoldersInv, PublisherHoldsItsJobs
  <2>3. (publisher.pc \in {"add", "mark"} /\ publisher.job \in DOMAIN jobs') =>
          \E a \in artifacts' : a.job = publisher.job
    <3>1. publisher.pc \in {"add", "mark"} => publisher.job \in InHand
      BY DEF InHand
    <3> QED
      BY <2>2, <3>1 DEF HoldersInv, PublisherHoldsItsJobs
  <2> QED
    BY <2>1, <2>2, <2>3 DEF HoldersInv, PublisherHoldsItsJobs
<1>5. PublishedIsRecorded'
  BY DEF HoldersInv, PublishedIsRecorded
<1> QED
  BY <1>2, <1>3, <1>4, <1>5 DEF HoldersInv

\* The worker reads a job that waits, and from there on is the only one that
\* makes it run.
LEMMA HoldersWorker ==
    ASSUME TypeOK, QueueInv, HoldersInv, WorkerStep \/ WorkerCrash,
           UNCHANGED <<publisher, remover>>
    PROVE  HoldersInv'
<1>1. Jobs /\ worker.job \in Nat /\ ids.job \in Nat
  BY DEF TypeOK, TablesTypeOK, WorkerTypeOK, Jobs
<1>2. UNCHANGED <<artifacts, ids>>
  BY DEF WorkerStep, WorkerCrash, ClaimSelect, ClaimCheck, ClaimSkip, ClaimTake, BuildStart,
    BuildSucceeds, BuildFails, MarkBuild, tables
<1>3. RemoverArtifacts'
  BY DEF HoldersInv, RemoverArtifacts
<1>4. CASE UNCHANGED jobs
  <2>1. ClaimHoldsItsJob' /\ BuildHoldsItsJob'
    <3>1. CASE ClaimSelect
      BY <1>1, <1>2, <1>4, <3>1 DEF ClaimSelect, Due, TypeOK, WorkerTypeOK, QueueInv,
        IdsAreFresh, HoldersInv, ClaimHoldsItsJob, BuildHoldsItsJob, Building
    <3>2. CASE WorkerCrash \/ ClaimSkip \/ MarkBuild
      BY <3>2 DEF WorkerCrash, ClaimSkip, MarkBuild, IdleWorker, ClaimHoldsItsJob,
        BuildHoldsItsJob, Building
    <3>5. CASE ClaimCheck
      <4>1. \/ worker' = IdleWorker
            \/ /\ worker'.job = worker.job /\ worker'.pc \in {"claim", "skip"}
               /\ worker.pc = "check"
        BY <3>5 DEF ClaimCheck, TypeOK, WorkerTypeOK
      <4> QED
        BY <1>2, <1>4, <4>1 DEF IdleWorker, HoldersInv, ClaimHoldsItsJob, BuildHoldsItsJob,
          Building
    <3>3. CASE BuildStart \/ BuildSucceeds \/ BuildFails
      BY <1>1, <1>2, <1>4, <3>3 DEF BuildStart, BuildSucceeds, BuildFails,
        TypeOK, WorkerTypeOK, HoldersInv, ClaimHoldsItsJob, BuildHoldsItsJob, Building
    <3>4. CASE ClaimTake
      <4>1. CASE worker.job \in DOMAIN jobs /\ worker.row \in DOMAIN pkgs
        <5>1. /\ worker'.job = worker.job /\ worker'.pc = "start"
              /\ jobs' = WithStatus({worker.job}, "running")
          BY <3>4, <4>1 DEF ClaimTake, TypeOK, WorkerTypeOK
        <5>2. jobs'[worker.job].status = "running"
          BY <1>1, <4>1, <5>1, MarkedStatus DEF Statuses
        <5> QED
          BY <1>2, <3>4, <5>1, <5>2 DEF ClaimTake, HoldersInv, ClaimHoldsItsJob,
            BuildHoldsItsJob, Building
      <4>2. CASE ~(worker.job \in DOMAIN jobs /\ worker.row \in DOMAIN pkgs)
        BY <3>4, <4>2 DEF ClaimTake, IdleWorker, ClaimHoldsItsJob, BuildHoldsItsJob, Building
      <4> QED
        BY <4>1, <4>2
    <3> QED
      BY <3>1, <3>2, <3>3, <3>4, <3>5 DEF WorkerStep
  <2>2. PublisherHoldsItsJobs' /\ PublishedIsRecorded'
    BY <1>2, <1>4 DEF HoldersInv, PublisherHoldsItsJobs, PublishedIsRecorded, InHand
  <2> QED
    BY <1>3, <2>1, <2>2 DEF HoldersInv
<1>5. CASE jobs' # jobs
  <2>1. PICK s \in {"skipped", "running", "built", "failed"} :
          /\ jobs' = WithStatus({worker.job}, s)
          /\ worker.job \in DOMAIN jobs
          /\ jobs[worker.job].status \in {"pending", "skipped", "running"}
          /\ worker' = IdleWorker \/ (s = "running" /\ worker'.pc = "start"
                                        /\ worker'.job = worker.job /\ worker.pc = "claim")
    <3>1. CASE ClaimSkip
      BY <1>5, <3>1 DEF ClaimSkip, MarkJob, HoldersInv, ClaimHoldsItsJob
    <3>2. CASE ClaimTake
      BY <1>5, <3>2 DEF ClaimTake, HoldersInv, ClaimHoldsItsJob, TypeOK, WorkerTypeOK
    <3>3. CASE MarkBuild
      BY <1>5, <3>3 DEF MarkBuild, MarkJob, HoldersInv, BuildHoldsItsJob, Building
    <3> QED
      BY <1>5, <3>1, <3>2, <3>3 DEF WorkerStep, WorkerCrash, ClaimSelect, ClaimCheck,
        BuildStart, BuildSucceeds, BuildFails, tables
  <2>2. /\ DOMAIN jobs' = DOMAIN jobs
        /\ \A j \in DOMAIN jobs :
             jobs'[j].status = IF j = worker.job THEN s ELSE jobs[j].status
    <3>1. s \in Statuses
      BY DEF Statuses
    <3>2. /\ DOMAIN jobs' = DOMAIN jobs
          /\ \A j \in DOMAIN jobs :
               jobs'[j].status = IF j \in {worker.job} THEN s ELSE jobs[j].status
      BY <1>1, <2>1, <3>1, MarkedStatus, Zenon
    <3> QED
      BY <3>2
  <2>3. ClaimHoldsItsJob' /\ BuildHoldsItsJob'
    BY <1>2, <2>1, <2>2 DEF IdleWorker, HoldersInv, ClaimHoldsItsJob, BuildHoldsItsJob, Building
  <2>4. \A j \in InHand : j # worker.job
    BY <2>1 DEF HoldersInv, PublisherHoldsItsJobs
  <2>5. PublisherHoldsItsJobs'
    BY <1>2, <2>2, <2>4 DEF HoldersInv, PublisherHoldsItsJobs, InHand
  <2>6. PublishedIsRecorded'
    BY <1>2, <2>2 DEF HoldersInv, PublishedIsRecorded
  <2> QED
    BY <1>3, <2>3, <2>5, <2>6 DEF HoldersInv
<1> QED
  BY <1>4, <1>5

\* The publisher holds built jobs, and marks the one it has recorded.
LEMMA HoldersPublisher ==
    ASSUME TypeOK, QueueInv, HoldersInv, PublisherStep \/ PubFails \/ PubMarkFails \/ PubCrash,
           UNCHANGED <<worker, remover>>
    PROVE  HoldersInv'
<1>1. Jobs /\ ids.job \in Nat /\ PublisherTypeOK
  BY DEF TypeOK, TablesTypeOK, Jobs
<1>2. UNCHANGED ids /\ artifacts \subseteq artifacts'
  BY DEF PublisherStep, PubFails, PubMarkFails, PubCrash, PubList, PubCopy, PubRecord,
    PubAdd, PubMark, tables
<1>3. RemoverArtifacts'
  BY DEF HoldersInv, RemoverArtifacts
<1>4. CASE PubMark
  <2>1. PICK s \in {"published", "failed"} :
          /\ MarkJob(publisher.job, s)
          /\ s = "published" => publisher.pc = "mark"
    BY <1>4 DEF PubMark
  <2>2. /\ publisher'.queue = publisher.queue /\ publisher'.pc = "idle"
        /\ publisher.pc \in {"mark", "fail"} /\ artifacts' = artifacts
    BY <1>1, <1>4 DEF PubMark, NextInList, PublisherTypeOK
  <2>3. /\ DOMAIN jobs' = DOMAIN jobs
        /\ \A j \in DOMAIN jobs :
             jobs'[j].status = IF j = publisher.job THEN s ELSE jobs[j].status
    <3>1. CASE publisher.job \in DOMAIN jobs
      <4>1. s \in Statuses /\ jobs' = WithStatus({publisher.job}, s)
        BY <2>1, <3>1 DEF MarkJob, Statuses
      <4>2. /\ DOMAIN jobs' = DOMAIN jobs
            /\ \A j \in DOMAIN jobs :
                 jobs'[j].status = IF j \in {publisher.job} THEN s ELSE jobs[j].status
        BY <1>1, <4>1, MarkedStatus, Zenon
      <4> QED
        BY <4>2
    <3>2. CASE publisher.job \notin DOMAIN jobs
      BY <2>1, <3>2 DEF MarkJob
    <3> QED
      BY <3>1, <3>2
  <2>4. publisher.job \in DOMAIN jobs => jobs[publisher.job].status = "built"
    BY <2>2 DEF HoldersInv, PublisherHoldsItsJobs, InHand
  <2>5. ClaimHoldsItsJob' /\ BuildHoldsItsJob'
    BY <1>2, <2>3, <2>4 DEF HoldersInv, ClaimHoldsItsJob, BuildHoldsItsJob, Building
  <2>6. PublisherHoldsItsJobs'
    BY <1>2, <2>2, <2>3 DEF HoldersInv, PublisherHoldsItsJobs, InHand
  <2>7. PublishedIsRecorded'
    BY <2>1, <2>2, <2>3 DEF HoldersInv, PublishedIsRecorded, PublisherHoldsItsJobs
  <2> QED
    BY <1>3, <2>5, <2>6, <2>7 DEF HoldersInv
<1>5. CASE ~PubMark
  <2>1. UNCHANGED jobs
    BY <1>5 DEF PublisherStep, PubFails, PubMarkFails, PubCrash, PubList, PubCopy,
      PubRecord, PubAdd, tables
  <2>2. ClaimHoldsItsJob' /\ BuildHoldsItsJob' /\ PublishedIsRecorded'
    BY <1>2, <2>1 DEF HoldersInv, ClaimHoldsItsJob, BuildHoldsItsJob, Building,
      PublishedIsRecorded
  <2>3. PublisherHoldsItsJobs'
    <3>1. CASE PubList
      <4>1. publisher'.pc = "idle" /\ publisher'.queue = BuiltJobs
        BY <1>1, <3>1 DEF PubList, PublisherTypeOK
      <4> QED
        BY <1>2, <2>1, <4>1 DEF QueueInv, IdsAreFresh, BuiltJobs, PublisherHoldsItsJobs, InHand
    <3>2. CASE PubCopy
      <4>1. PICK j \in publisher.queue :
              /\ publisher'.queue = publisher.queue \ {j} /\ publisher'.job = j
              /\ publisher'.pc \in {"record", "fail"} /\ publisher.pc = "idle"
        BY <1>1, <3>2 DEF PubCopy, PublisherTypeOK
      <4> QED
        BY <1>2, <2>1, <4>1 DEF HoldersInv, PublisherHoldsItsJobs, InHand
    <3>3. CASE PubRecord
      <4>1. /\ publisher'.queue = publisher.queue /\ publisher'.job = publisher.job
            /\ publisher'.pc = "add" /\ publisher.pc = "record"
            /\ [job |-> publisher.job, file |-> publisher.file] \in artifacts'
        BY <1>1, <3>3 DEF PubRecord, PublisherTypeOK
      <4>2. \E a \in artifacts' : a.job = publisher.job
        BY <4>1
      <4> QED
        BY <1>2, <2>1, <4>1, <4>2 DEF HoldersInv, PublisherHoldsItsJobs, InHand
    <3>4. CASE PubAdd \/ PubFails
      <4>1. /\ publisher'.queue = publisher.queue /\ publisher'.job = publisher.job
            /\ publisher.pc # "idle" /\ artifacts' = artifacts
            /\ \/ publisher'.pc = "fail"
               \/ publisher'.pc = "mark" /\ publisher.pc = "add"
        BY <1>1, <3>4 DEF PubAdd, PubFails, PublisherTypeOK, tables
      <4> QED
        BY <1>2, <2>1, <4>1 DEF HoldersInv, PublisherHoldsItsJobs, InHand
    <3>5. CASE PubMarkFails \/ PubCrash
      <4>1. publisher'.pc = "idle" /\ publisher'.queue \subseteq publisher.queue
        BY <1>1, <3>5 DEF PubMarkFails, PubCrash, NextInList, PublisherTypeOK
      <4> QED
        BY <1>2, <2>1, <4>1 DEF HoldersInv, PublisherHoldsItsJobs, InHand
    <3> QED
      BY <1>5, <3>1, <3>2, <3>3, <3>4, <3>5 DEF PublisherStep
  <2> QED
    BY <1>3, <2>2, <2>3 DEF HoldersInv
<1> QED
  BY <1>4, <1>5

\* CreatePackage adds a job under a fresh id, and skips jobs that wait.
LEMMA HoldersIntake ==
    ASSUME TypeOK, QueueInv, HoldersInv, UNCHANGED <<worker, publisher, remover>>,
           \/ SchedulerStep \/ CliStep
           \/ \E c \in Creators : AbortCreate(c) \/ IntakeFails(c)
           \/ PollFails
    PROVE  HoldersInv'
<1>1. UNCHANGED artifacts
  BY DEF SchedulerStep, CliStep, Create, Creators, PollList, PollCheck, PreviewAUR,
    PreviewClear, PreviewClone, PreviewRead, PreviewInspect, PreviewError, PreviewStep,
    CliPreview, CliDecline, Accept, TxFind, TxSave, TxCommit, AbortCreate, IntakeFails,
    PollFails, tables
<1>2. RemoverArtifacts'
  BY DEF HoldersInv, RemoverArtifacts
<1>3. ids.job \in Nat /\ Jobs
  BY DEF TypeOK, TablesTypeOK, Jobs
<1>4. CASE UNCHANGED <<jobs, ids>>
  BY <1>1, <1>2, <1>3, <1>4, HoldersFrame
<1>5. CASE ~UNCHANGED <<jobs, ids>>
  <2>1. PICK c \in Creators : TxCommit(c)
    BY <1>5 DEF SchedulerStep, CliStep, Create, Creators, PollList, PollCheck,
      PreviewAUR, PreviewClear, PreviewClone, PreviewRead, PreviewInspect, PreviewError,
      PreviewStep, CliPreview, CliDecline, Accept, TxFind, TxSave, AbortCreate,
      IntakeFails, PollFails, tables
  <2>2. PICK row, version, eligible :
          /\ jobs' = Insert(WithStatus(Superseded(row), "skipped"), ids.job,
                       [version |-> version, status |-> "pending", eligible |-> eligible])
          /\ ids'.job = ids.job + 1
    <3> DEFINE saved == IF intake[c].row # NoRow THEN intake[c].row ELSE ids.pkg
    <3>1. IsNew(c)
      BY <1>5, <2>1 DEF TxCommit
    <3>2. jobs' = Insert(WithStatus(Superseded(saved), "skipped"), ids.job,
                    [version |-> ids.version, status |-> "pending",
                     eligible |-> intake[c].eligible])
      BY <2>1, <3>1, Zenon DEF TxCommit
    <3>3. ids'.job = ids.job + 1
      BY <2>1, <3>1 DEF TxCommit
    <3> HIDE DEF saved
    <3> QED
      BY <3>2, <3>3, Zenon
  <2>3. /\ DOMAIN jobs' = DOMAIN jobs \cup {ids.job}
        /\ jobs'[ids.job].status = "pending"
        /\ \A j \in DOMAIN jobs : j # ids.job =>
             jobs'[j] = WithStatus(Superseded(row), "skipped")[j]
    BY <2>2 DEF Insert, WithStatus
  <2>4. \A j \in DOMAIN jobs :
          WithStatus(Superseded(row), "skipped")[j].status =
            IF j \in Superseded(row) THEN "skipped" ELSE jobs[j].status
    <3>1. "skipped" \in Statuses
      BY DEF Statuses
    <3> QED
      BY <1>3, <3>1, WithStatusRows
  <2>5. \A j \in Superseded(row) : jobs[j].status = "pending"
    BY DEF Superseded
  <2>6. \A j \in DOMAIN jobs :
          \/ jobs'[j].status = jobs[j].status
          \/ jobs[j].status = "pending" /\ jobs'[j].status = "skipped"
    <3>1. \A j \in DOMAIN jobs : j # ids.job
      BY <1>3 DEF Jobs, IsTable, QueueInv, IdsAreFresh
    <3> QED
      BY <2>3, <2>4, <2>5, <3>1
  <2>7. \A j \in DOMAIN jobs' :
          \/ /\ j \in DOMAIN jobs
             /\ \/ jobs'[j].status = jobs[j].status
                \/ jobs[j].status = "pending" /\ jobs'[j].status = "skipped"
          \/ j \in Nat /\ ids.job <= j /\ jobs'[j].status = "pending"
    BY <1>3, <2>3, <2>6
  <2>8. ids'.job \in Nat /\ ids.job <= ids'.job
    BY <1>3, <2>2
  <2> QED
    BY <1>1, <1>2, <2>7, <2>8, HoldersFrame
<1> QED
  BY <1>4, <1>5

\* Remove deletes jobs, and artifact rows of no other job.
LEMMA HoldersRemover ==
    ASSUME TypeOK, QueueInv, HoldersInv, UNCHANGED <<worker, publisher>>,
           RemoverStep \/ AbortRemove \/ RmRepoFails \/ RmCrash
    PROVE  HoldersInv'
<1>1. ids.job \in Nat /\ RemoverTypeOK /\ UNCHANGED ids
  BY DEF TypeOK, TablesTypeOK, RemoverStep, RemoveGoesOn, RmRead, RmJobs, RmArtifacts, RmRepo,
    RmFiles, RmDelete, RmCommit, RmCleanup, AbortRemove, RmRepoFails, RmCrash, tables
<1>2. RemoverArtifacts'
  <2>1. CASE \/ \E n \in Packages : RmRead(n)
             \/ RmCleanup \/ AbortRemove \/ RmCrash
    BY <2>1 DEF RmRead, RmCleanup, AbortRemove, RmCrash, IdleRemover, RemoverArtifacts
  <2>2. CASE RmJobs
    <3>1. remover.arts = {}
      BY <2>2 DEF RmJobs, HoldersInv, RemoverArtifacts, QueueInv, RemoverReadsWhole
    <3>2. remover'.arts = {}
      BY <1>1, <2>2, <3>1 DEF RmJobs, IdleRemover, RemoverTypeOK
    <3> QED
      BY <3>2 DEF RemoverArtifacts
  <2>3. CASE RmArtifacts \/ RmDelete
    <3>1. /\ remover'.jbs = remover.jbs
          /\ remover'.arts = {a \in artifacts : a.job \in remover.jbs}
      BY <1>1, <2>3 DEF RmArtifacts, RmDelete, RemoverTypeOK
    <3> QED
      BY <3>1 DEF RemoverArtifacts
  <2>4. CASE RmRepo \/ RmRepoFails \/ RmFiles \/ RmCommit
    <3>1. remover'.jbs = remover.jbs /\ remover'.arts = remover.arts
      BY <1>1, <2>4 DEF RmRepo, RmRepoFails, RmFiles, RmCommit, RemoverTypeOK
    <3> QED
      BY <3>1 DEF HoldersInv, RemoverArtifacts
  <2> QED
    BY <2>1, <2>2, <2>3, <2>4 DEF RemoverStep, RemoveGoesOn
<1>3. CASE RmCommit
  <2>1. /\ DOMAIN jobs' = DOMAIN jobs \ remover.jbs
        /\ \A j \in DOMAIN jobs' : jobs'[j] = jobs[j]
        /\ artifacts' = artifacts \ remover.arts
    BY <1>3 DEF RmCommit, Without, Restrict
  <2>2. \A j \in DOMAIN jobs' : \A a \in artifacts : a.job = j => a \in artifacts'
    BY <2>1 DEF HoldersInv, RemoverArtifacts
  <2> QED
    BY <1>1, <1>2, <2>1, <2>2, HoldersFrame
<1>4. CASE ~RmCommit
  <2>1. UNCHANGED <<jobs, artifacts>>
    BY <1>4 DEF RemoverStep, RemoveGoesOn, RmRead, RmJobs, RmArtifacts, RmRepo, RmFiles,
      RmDelete, RmCleanup, AbortRemove, RmRepoFails, RmCrash, tables
  <2> QED
    BY <1>1, <1>2, <2>1, HoldersFrame
<1> QED
  BY <1>3, <1>4

\* Each step leaves the jobs in hand alone.
LEMMA HoldersNext == TypeOK /\ QueueInv /\ HoldersInv /\ [Next]_vars => HoldersInv'
<1> SUFFICES ASSUME TypeOK, QueueInv, HoldersInv, [Next]_vars PROVE HoldersInv'
  OBVIOUS
<1>1. CASE Scheduling \/ Commanding
  BY <1>1, HoldersIntake DEF Scheduling, Commanding
<1>2. CASE Working
  BY <1>2, HoldersWorker DEF Working
<1>3. CASE Publishing
  BY <1>3, HoldersPublisher DEF Publishing
<1>4. CASE Removing
  BY <1>4, HoldersRemover DEF Removing
<1>5. CASE Deadlock
  BY <1>5, HoldersIntake, HoldersRemover DEF Deadlock
<1>6. CASE Faults
  BY <1>6, HoldersIntake, HoldersWorker, HoldersPublisher, HoldersRemover DEF Faults
<1>7. CASE Environment \/ UNCHANGED vars
  <2>1. UNCHANGED <<jobs, artifacts, ids, worker, publisher, remover>>
    BY <1>7 DEF Environment, Tick, Push, vars, store, tables
  <2>2. RemoverArtifacts'
    BY <2>1 DEF HoldersInv, RemoverArtifacts
  <2>3. ids.job \in Nat
    BY DEF TypeOK, TablesTypeOK
  <2> QED
    BY <2>1, <2>2, <2>3, HoldersFrame
<1> QED
  BY <1>1, <1>2, <1>3, <1>4, <1>5, <1>6, <1>7 DEF Next

\* IInv is the inductive invariant of Aurforge.
THEOREM Inductive == Spec => []IInv
<1>1. Init => IInv
  BY TypeInit, QueueInit, HoldersInit DEF IInv
<1>2. IInv /\ [Next]_vars => IInv'
  BY TypeNext, QueueNext, HoldersNext DEF IInv
<1> QED
  BY <1>1, <1>2, PTL DEF Spec

\* While the worker builds a job, nobody else decides its status, though the
\* claim that started it locked nothing it had read.
THEOREM BuildHolds == Spec => []BuildHoldsItsJob
<1>1. IInv => BuildHoldsItsJob
  BY DEF IInv, HoldersInv
<1> QED
  BY <1>1, Inductive, PTL

\* A published job has an artifact row, whenever a remove starts or fails.
THEOREM PublishedRecorded == Spec => []PublishedIsRecorded
<1>1. IInv => PublishedIsRecorded
  BY DEF IInv, HoldersInv
<1> QED
  BY <1>1, Inductive, PTL

\* Who writes the table of jobs.
LEMMA JobWriters ==
    ASSUME [Next]_vars
    PROVE  \/ UNCHANGED jobs \/ \E c \in Creators : TxCommit(c)
           \/ ClaimSkip \/ ClaimTake \/ MarkBuild \/ PubMark \/ RmCommit
<1>1. Scheduling \/ Commanding => UNCHANGED jobs \/ \E c \in Creators : TxCommit(c)
  BY DEF Scheduling, Commanding, SchedulerStep, CliStep, Create, Creators, PollList,
    PollCheck, PreviewAUR, PreviewClear, PreviewClone, PreviewRead, PreviewInspect,
    PreviewError, PreviewStep, CliPreview, CliDecline, Accept, TxFind, TxSave, tables
<1>2. Working => UNCHANGED jobs \/ ClaimSkip \/ ClaimTake \/ MarkBuild
  BY DEF Working, WorkerStep, ClaimSelect, ClaimCheck, BuildStart, BuildSucceeds,
    BuildFails, tables
<1>3. Publishing => UNCHANGED jobs \/ PubMark
  BY DEF Publishing, PublisherStep, PubList, PubCopy, PubRecord, PubAdd, tables
<1>4. Removing => UNCHANGED jobs \/ RmCommit
  BY DEF Removing, RemoverStep, RemoveGoesOn, RmRead, RmJobs, RmArtifacts, RmRepo, RmFiles,
    RmDelete, RmCleanup, tables
<1>5. Deadlock \/ Faults \/ Environment \/ UNCHANGED vars => UNCHANGED jobs
  BY DEF Deadlock, Faults, Environment, AbortCreate, AbortRemove, IntakeFails,
    PollFails, WorkerCrash, PubFails, PubMarkFails, PubCrash, RmRepoFails, RmCrash,
    Tick, Push, vars, store, tables
<1> QED
  BY <1>1, <1>2, <1>3, <1>4, <1>5 DEF Next

\* A step changes the status of a job that is neither published nor failed, if
\* of any: each UPDATE is about a job that its process still holds.
LEMMA FinishedStep ==
    ASSUME IInv, [Next]_vars,
           NEW j \in DOMAIN jobs \cap DOMAIN jobs', jobs[j].status \in {"published", "failed"}
    PROVE  jobs'[j].status = jobs[j].status
<1>1. Jobs /\ ids.job \in Nat /\ j # ids.job /\ ClaimHoldsItsJob /\ BuildHoldsItsJob
      /\ PublisherHoldsItsJobs
  BY DEF IInv, TypeOK, TablesTypeOK, Jobs, IsTable, QueueInv, IdsAreFresh, HoldersInv
<1>2. ASSUME NEW i, NEW s \in Statuses, MarkJob(i, s), i # j
      PROVE  jobs'[j].status = jobs[j].status
  BY <1>2 DEF MarkJob, WithStatus
<1>3. ASSUME NEW c \in Creators, TxCommit(c)
      PROVE  jobs'[j].status = jobs[j].status
  <2>1. CASE ~IsNew(c)
    BY <1>3, <2>1 DEF TxCommit
  <2>2. CASE IsNew(c)
    <3> DEFINE saved == IF intake[c].row # NoRow THEN intake[c].row ELSE ids.pkg
    <3>1. jobs' = Insert(WithStatus(Superseded(saved), "skipped"), ids.job,
                    [version |-> ids.version, status |-> "pending",
                     eligible |-> intake[c].eligible])
      BY <1>3, <2>2, Zenon DEF TxCommit
    <3>2. j \notin Superseded(saved)
      BY DEF Superseded
    <3> HIDE DEF saved
    <3>3. jobs'[j] = jobs[j]
      BY <1>1, <3>1, <3>2 DEF Insert, WithStatus
    <3> QED
      BY <3>3
  <2> QED
    BY <2>1, <2>2
<1>4. CASE ClaimSkip \/ MarkBuild
  <2>1. worker.job # j
    BY <1>1, <1>4 DEF ClaimSkip, MarkBuild, ClaimHoldsItsJob, BuildHoldsItsJob, Building
  <2>2. \E s \in Statuses : MarkJob(worker.job, s)
    BY <1>4 DEF ClaimSkip, MarkBuild, Statuses
  <2> QED
    BY <1>2, <2>1, <2>2
<1>5. CASE ClaimTake
  <2>1. worker.job \in DOMAIN jobs => worker.job # j
    BY <1>1, <1>5 DEF ClaimTake, ClaimHoldsItsJob
  <2> QED
    BY <1>5, <2>1 DEF ClaimTake, WithStatus
<1>6. CASE PubMark
  <2>1. publisher.job # j
    BY <1>1, <1>6 DEF PubMark, PublisherHoldsItsJobs, InHand
  <2>2. \E s \in Statuses : MarkJob(publisher.job, s)
    BY <1>6 DEF PubMark, Statuses
  <2> QED
    BY <1>2, <2>1, <2>2
<1>7. CASE RmCommit
  BY <1>7 DEF RmCommit, Without, Restrict
<1> QED
  BY <1>3, <1>4, <1>5, <1>6, <1>7, JobWriters

\* A job that is published or has failed keeps that status until its package
\* is removed: neither a late claim nor a stale list of the publisher takes it
\* back.
THEOREM FinishedStays == Spec => FinishedStaysFinished
<1>1. IInv /\ [Next]_vars =>
        [\A j \in DOMAIN jobs \cap DOMAIN jobs' :
          jobs[j].status \in {"published", "failed"} => jobs'[j].status = jobs[j].status]_vars
  BY FinishedStep
<1> QED
  BY <1>1, Inductive, PTL DEF Spec, FinishedStaysFinished

-----------------------------------------------------------------------------
(* Who lets jobs run: the worker alone starts them, and lets go of one that *)
(* runs only by stopping.                                                  *)

\* Nothing runs at the start.
LEMMA OwnersInit == Init => OwnersInv
<1> SUFFICES ASSUME Init PROVE OwnersInv
  OBVIOUS
<1>1. Abandoned = {}
  BY DEF Init, StoreInit, Abandoned
<1>2. MaxFaults \in Nat /\ budget.faults = MaxFaults
  BY BoundsAssumption DEF Init, StoreInit
<1> QED
  BY <1>1, <1>2, FS_EmptySet DEF OwnersInv, RunningIsOwned

\* Faults are used up, never given back.
LEMMA FaultsGoDown ==
    ASSUME TypeOK, [Next]_vars
    PROVE  /\ budget.faults \in Nat /\ budget'.faults \in Nat
           /\ budget'.faults <= budget.faults
           /\ WorkerCrash => budget'.faults = budget.faults - 1
<1>1. TypeOK'
  BY TypeNext
<1>2. budget \in [adds : Nat, removals : Nat, faults : Nat, pushes : Nat]
      /\ budget'.faults \in Nat
  BY <1>1 DEF TypeOK, EnvTypeOK
<1>3. WorkerCrash => budget'.faults = budget.faults - 1
  BY <1>2 DEF WorkerCrash, Fault
<1>4. budget'.faults \in {budget.faults, budget.faults - 1}
  <2>1. Scheduling \/ Commanding => budget'.faults = budget.faults
    BY <1>2 DEF Scheduling, Commanding, SchedulerStep, CliStep, Create, Creators,
      PollList, PollCheck, PreviewAUR, PreviewClear, PreviewClone, PreviewRead,
      PreviewInspect, PreviewError, PreviewStep, CliPreview, CliDecline, Accept, TxFind,
      TxSave, TxCommit
  <2>2. Working \/ Publishing => budget'.faults = budget.faults
    BY DEF Working, WorkerStep, ClaimSelect, ClaimCheck, ClaimSkip, ClaimTake, BuildStart,
      BuildSucceeds, BuildFails, MarkBuild, Publishing, PublisherStep, PubList, PubCopy,
      PubRecord, PubAdd, PubMark
  <2>3. Removing => budget'.faults = budget.faults
    BY <1>2 DEF Removing, RemoverStep, RemoveGoesOn, RmRead, RmJobs, RmArtifacts, RmRepo,
      RmFiles, RmDelete, RmCommit, RmCleanup
  <2>4. Deadlock => budget'.faults = budget.faults
    BY DEF Deadlock, AbortCreate, AbortRemove
  <2>5. Faults => budget'.faults = budget.faults - 1
    BY <1>2 DEF Faults, IntakeFails, PollFails, WorkerCrash, PubFails, PubMarkFails,
      PubCrash, RmRepoFails, RmCrash, Fault
  <2>6. Environment \/ UNCHANGED vars => budget'.faults = budget.faults
    BY <1>2 DEF Environment, Tick, Push, vars, store
  <2> QED
    BY <2>1, <2>2, <2>3, <2>4, <2>5, <2>6 DEF Next
<1> QED
  BY <1>2, <1>3, <1>4

\* Only a claim makes a job run, and then it is the worker's.
LEMMA ClaimStarts ==
    ASSUME IInv, [Next]_vars,
           NEW j \in DOMAIN jobs', jobs'[j].status = "running"
    PROVE  \/ j \in DOMAIN jobs /\ jobs[j].status = "running"
           \/ ClaimTake /\ j = worker.job /\ worker'.job = j /\ worker'.pc = "start"
<1>1. Jobs /\ ids.job \in Nat /\ worker.job \in Nat
      /\ worker \in [pc : {"idle", "check", "skip", "claim", "start", "build", "built", "failed"},
                     job : Nat, version : Nat, row : Nat, name : Packages \cup {NoPackage},
                     path : Revisions \cup {NoRevision}, content : Revisions \cup {NoRevision}]
  BY DEF IInv, TypeOK, TablesTypeOK, WorkerTypeOK, Jobs
<1>2. ASSUME NEW i, NEW s \in Statuses \ {"running"}, MarkJob(i, s)
      PROVE  j \in DOMAIN jobs /\ jobs[j].status = "running"
  <2>1. CASE i \in DOMAIN jobs
    <3>1. jobs' = WithStatus({i}, s) /\ s \in Statuses
      BY <1>2, <2>1 DEF MarkJob
    <3>2. j \in DOMAIN jobs /\ jobs'[j].status = IF j \in {i} THEN s ELSE jobs[j].status
      BY <1>1, <3>1, MarkedStatus, Zenon
    <3> QED
      BY <1>2, <3>2
  <2>2. CASE i \notin DOMAIN jobs
    BY <1>2, <2>2 DEF MarkJob
  <2> QED
    BY <2>1, <2>2
<1>3. ASSUME NEW c \in Creators, TxCommit(c), ~UNCHANGED jobs
      PROVE  j \in DOMAIN jobs /\ jobs[j].status = "running"
  <2> DEFINE saved == IF intake[c].row # NoRow THEN intake[c].row ELSE ids.pkg
  <2>1. jobs' = Insert(WithStatus(Superseded(saved), "skipped"), ids.job,
                  [version |-> ids.version, status |-> "pending",
                   eligible |-> intake[c].eligible])
    BY <1>3, Zenon DEF TxCommit
  <2> HIDE DEF saved
  <2>2. j # ids.job /\ j \in DOMAIN jobs
        /\ jobs'[j] = WithStatus(Superseded(saved), "skipped")[j]
    BY <2>1 DEF Insert, WithStatus
  <2>3. WithStatus(Superseded(saved), "skipped")[j].status =
          IF j \in Superseded(saved) THEN "skipped" ELSE jobs[j].status
    <3>1. "skipped" \in Statuses
      BY DEF Statuses
    <3> QED
      BY <1>1, <2>2, <3>1, WithStatusRows
  <2> QED
    BY <2>2, <2>3
<1>4. CASE ClaimSkip \/ MarkBuild \/ PubMark
  <2>1. \E i : \E s \in Statuses \ {"running"} : MarkJob(i, s)
    BY <1>4 DEF ClaimSkip, MarkBuild, PubMark, Statuses
  <2> QED
    BY <1>2, <2>1
<1>5. CASE ClaimTake
  <2>1. CASE worker.job \in DOMAIN jobs /\ worker.row \in DOMAIN pkgs
    <3>1. jobs' = WithStatus({worker.job}, "running") /\ "running" \in Statuses
      BY <1>5, <2>1 DEF ClaimTake, Statuses
    <3>2. j \in DOMAIN jobs
          /\ jobs'[j].status = IF j \in {worker.job} THEN "running" ELSE jobs[j].status
      BY <1>1, <3>1, MarkedStatus, Zenon
    <3>3. worker'.job = worker.job /\ worker'.pc = "start"
      BY <1>1, <1>5, <2>1 DEF ClaimTake
    <3> QED
      BY <1>5, <3>2, <3>3
  <2>2. CASE ~(worker.job \in DOMAIN jobs /\ worker.row \in DOMAIN pkgs)
    BY <1>5, <2>2 DEF ClaimTake
  <2> QED
    BY <2>1, <2>2
<1>6. CASE RmCommit
  BY <1>6 DEF RmCommit, Without, Restrict
<1> QED
  BY <1>3, <1>4, <1>5, <1>6, JobWriters

\* The worker lets go of a job that it builds by marking it or by stopping.
LEMMA BuildLetsGo ==
    ASSUME IInv, [Next]_vars, Building, ~WorkerCrash
    PROVE  \/ Building' /\ worker'.job = worker.job
           \/ worker.job \in DOMAIN jobs' => jobs'[worker.job].status # "running"
<1>1. Jobs
      /\ worker \in [pc : {"idle", "check", "skip", "claim", "start", "build", "built", "failed"},
                     job : Nat, version : Nat, row : Nat, name : Packages \cup {NoPackage},
                     path : Revisions \cup {NoRevision}, content : Revisions \cup {NoRevision}]
  BY DEF IInv, TypeOK, TablesTypeOK, WorkerTypeOK, Jobs
<1>2. CASE UNCHANGED worker
  BY <1>2 DEF Building
<1>3. CASE BuildStart \/ BuildSucceeds \/ BuildFails
  BY <1>1, <1>3 DEF BuildStart, BuildSucceeds, BuildFails, Building
<1>4. CASE MarkBuild
  <2>1. CASE worker.job \in DOMAIN jobs
    <3>1. jobs' = WithStatus({worker.job}, worker.pc) /\ worker.pc \in Statuses
          /\ worker.pc # "running"
      BY <1>4, <2>1 DEF MarkBuild, MarkJob, Statuses
    <3>2. jobs'[worker.job].status =
            IF worker.job \in {worker.job} THEN worker.pc ELSE jobs[worker.job].status
      BY <1>1, <2>1, <3>1, MarkedStatus, Zenon
    <3> QED
      BY <3>1, <3>2
  <2>2. CASE worker.job \notin DOMAIN jobs
    BY <1>4, <2>2 DEF MarkBuild, MarkJob
  <2> QED
    BY <2>1, <2>2
<1>5. UNCHANGED worker \/ BuildStart \/ BuildSucceeds \/ BuildFails \/ MarkBuild
  BY DEF Building, Next, Scheduling, Commanding, Working, Publishing, Removing, Deadlock, Faults,
    Environment, vars, WorkerStep, ClaimSelect, ClaimCheck, ClaimSkip, ClaimTake
<1> QED
  BY <1>2, <1>3, <1>4, <1>5

\* A job becomes abandoned only when the worker stops, and then it is the one
\* it was building.
LEMMA OwnersNext == IInv /\ OwnersInv /\ [Next]_vars => OwnersInv'
<1> SUFFICES ASSUME IInv, OwnersInv, [Next]_vars PROVE OwnersInv'
  OBVIOUS
<1>1. /\ budget.faults \in Nat /\ budget'.faults \in Nat /\ budget'.faults <= budget.faults
      /\ WorkerCrash => budget'.faults = budget.faults - 1
  BY FaultsGoDown DEF IInv
<1>2. MaxFaults \in Nat
  BY BoundsAssumption
<1>3. IsFiniteSet(Abandoned) /\ Cardinality(Abandoned) \in Nat
      /\ Cardinality(Abandoned) <= MaxFaults - budget.faults
  BY FS_CardinalityType DEF OwnersInv, RunningIsOwned
<1>4. CASE WorkerCrash
  <2>1. UNCHANGED jobs
    BY <1>4 DEF WorkerCrash, tables
  <2>2. Abandoned' \subseteq Abandoned \cup {worker.job}
    BY <2>1 DEF Abandoned
  <2>3. IsFiniteSet(Abandoned \cup {worker.job})
        /\ Cardinality(Abandoned \cup {worker.job}) \in Nat
        /\ Cardinality(Abandoned \cup {worker.job}) <= Cardinality(Abandoned) + 1
    <3>1. /\ IsFiniteSet(Abandoned \cup {worker.job})
          /\ Cardinality(Abandoned \cup {worker.job}) =
               IF worker.job \in Abandoned THEN Cardinality(Abandoned)
               ELSE Cardinality(Abandoned) + 1
      BY <1>3, FS_AddElement
    <3> QED
      BY <1>3, <3>1
  <2>4. IsFiniteSet(Abandoned')
        /\ Cardinality(Abandoned') <= Cardinality(Abandoned \cup {worker.job})
    BY <2>2, <2>3, FS_Subset
  <2>5. Cardinality(Abandoned') \in Nat
    BY <2>4, FS_CardinalityType
  <2> QED
    BY <1>1, <1>2, <1>3, <1>4, <2>3, <2>4, <2>5 DEF OwnersInv, RunningIsOwned
<1>5. CASE ~WorkerCrash
  <2>1. ASSUME NEW j \in Abandoned' PROVE j \in Abandoned
    <3>1. j \in DOMAIN jobs' /\ jobs'[j].status = "running"
          /\ ~(Building' /\ j = worker'.job)
      BY DEF Abandoned
    <3>2. ~(worker'.job = j /\ worker'.pc = "start")
      BY <3>1 DEF Building
    <3>3. j \in DOMAIN jobs /\ jobs[j].status = "running"
      BY <3>1, <3>2, ClaimStarts
    <3>4. ~(Building /\ j = worker.job)
      BY <1>5, <3>1, BuildLetsGo
    <3> QED
      BY <3>3, <3>4 DEF Abandoned
  <2>2. IsFiniteSet(Abandoned') /\ Cardinality(Abandoned') <= Cardinality(Abandoned)
    BY <1>3, <2>1, FS_Subset
  <2>3. Cardinality(Abandoned') \in Nat
    BY <2>2, FS_CardinalityType
  <2> QED
    BY <1>1, <1>2, <1>3, <2>2, <2>3 DEF OwnersInv, RunningIsOwned
<1> QED
  BY <1>4, <1>5

\* Every job that runs is the one the worker builds, or was abandoned at the
\* cost of a crash of the worker: no claim, timeout, skip or remove leaves one.
THEOREM RunningOwned == Spec => []RunningIsOwned
<1>1. OwnersInv => RunningIsOwned
  BY DEF OwnersInv
<1> QED
  BY <1>1, OwnersInit, OwnersNext, Inductive, PTL DEF Spec
=============================================================================
