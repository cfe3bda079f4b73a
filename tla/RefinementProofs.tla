-------------------------- MODULE RefinementProofs --------------------------
(***************************************************************************)
(* Aurforge implements BuildQueue: its tables, mapped by Orders, start as  *)
(* the empty queue, and every step is a step of the queue or leaves it     *)
(* alone.  Besides the inductive invariant of AurforgeProofs this needs to *)
(* know whose rows the creators and the remover hold.                      *)
(***************************************************************************)
EXTENDS AurforgeProofs

\* Everything starts empty.
LEMMA RowsInit == Init => RowsInv
  BY DEF Init, StoreInit, IntakeInit, IdleCreator, Preview, NoRow, RemoverInit, IdleRemover,
    RowsInv, RowsAreFresh, RemoverOwns

\* A step that leaves the tables of packages and versions alone, and neither
\* creator nor remover takes up a row.
LEMMA RowsUntouched ==
    ASSUME TypeOK, RowsInv, UNCHANGED <<pkgs, versions, ids>>,
           \A c \in Creators : intake'[c].row \in {intake[c].row, NoRow},
           \/ remover'.vers = remover.vers /\ remover'.row = remover.row
           \/ remover'.vers = {}
    PROVE  RowsInv'
<1>1. ids.pkg > NoRow
  BY DEF TypeOK, TablesTypeOK, NoRow
<1>2. RowsAreFresh'
  BY <1>1 DEF RowsInv, RowsAreFresh
<1>3. RemoverOwns'
  BY DEF RowsInv, RemoverOwns
<1> QED
  BY <1>2, <1>3 DEF RowsInv

\* CreatePackage inserts a row under the next id, or a version of the row that
\* it has found.
LEMMA RowsCreate ==
    ASSUME TypeOK, QueueInv, RowsInv, NEW c \in Creators, TxCommit(c), UNCHANGED remover
    PROVE  RowsInv'
<1> DEFINE saved == IF intake[c].row # NoRow THEN intake[c].row ELSE ids.pkg
<1>1. /\ intake[c].row \in Nat /\ ids.pkg \in Nat \ {0} /\ ids'.pkg \in Nat
      /\ ids'.pkg >= ids.pkg
      /\ IsNew(c) => saved < ids'.pkg
      /\ ~IsNew(c) => ids' = ids
  <2>1. intake[c].row \in Nat /\ ids \in [pkg : Nat \ {0}, version : Nat, job : Nat]
    BY DEF TypeOK, IntakeTypeOK, TablesTypeOK, Cloning, BusyCreator, IdleCreator, Preview, NoRow
  <2>2. IsNew(c) => ids'.pkg = IF intake[c].row # NoRow THEN ids.pkg ELSE ids.pkg + 1
    BY DEF TxCommit
  <2>3. ~IsNew(c) => ids' = ids
    BY DEF TxCommit
  <2>4. intake[c].row < ids.pkg
    BY DEF RowsInv, RowsAreFresh
  <2> QED
    BY <2>1, <2>2, <2>3, <2>4
<1>2. \A d \in Creators : intake'[d].row < ids'.pkg
  <2>1. intake' = [intake EXCEPT ![c] = IdleCreator]
    BY DEF TxCommit, Goto
  <2>2. intake \in [Creators -> Cloning \cup BusyCreator \cup {IdleCreator}]
    BY DEF TypeOK, IntakeTypeOK
  <2>3. \A d \in Creators : intake[d].row < ids.pkg /\ intake[d].row \in Nat
    BY <2>2 DEF RowsInv, RowsAreFresh, Cloning, BusyCreator, IdleCreator, Preview, NoRow
  <2>4. \A d \in Creators : intake'[d].row = IF d = c THEN 0 ELSE intake[d].row
    BY <2>1, <2>2 DEF IdleCreator, Preview, NoRow
  <2> QED
    BY <1>1, <2>3, <2>4
<1>3. pkgs' = Insert(pkgs, saved, [name |-> intake[c].name, path |-> intake[c].rev])
  BY Zenon DEF TxCommit
<1>4. CASE IsNew(c)
  <2>1. versions' = Insert(versions, ids.version, [pkg |-> saved, rev |-> intake[c].rev])
    BY <1>4, Zenon DEF TxCommit
  <2>2. /\ \A v \in DOMAIN versions : versions[v] \in VersionRow /\ v < ids.version
        /\ \A k \in DOMAIN pkgs : k \in Nat
        /\ ids.version \in Nat /\ saved \in Nat \ {0}
    BY <1>1 DEF TypeOK, TablesTypeOK, IsTable, QueueInv, IdsAreFresh, NoRow
  <2> HIDE DEF saved
  <2>3. DOMAIN versions' = DOMAIN versions \cup {ids.version}
        /\ \A v \in DOMAIN versions' :
             versions'[v].pkg = IF v = ids.version THEN saved ELSE versions[v].pkg
    BY <2>1, <2>2 DEF Insert
  <2>4. DOMAIN pkgs' = DOMAIN pkgs \cup {saved}
    BY <1>3 DEF Insert
  <2>5. RowsAreFresh'
    BY <1>1, <1>2, <1>4, <2>2, <2>3, <2>4 DEF RowsInv, RowsAreFresh, VersionRow
  <2>6. RemoverOwns'
    <3>1. \A v \in remover.vers : v # ids.version
      BY <2>2 DEF QueueInv, RemoverReadsWhole
    <3> QED
      BY <2>3, <3>1 DEF RowsInv, RemoverOwns
  <2> QED
    BY <2>5, <2>6 DEF RowsInv
<1>5. CASE ~IsNew(c)
  <2>1. UNCHANGED <<versions, ids>>
    BY <1>1, <1>5 DEF TxCommit
  <2>2. PICK v \in DOMAIN versions : versions[v].pkg = intake[c].row
    BY <1>5 DEF IsNew, Recorded, VersionsOf
  <2>3. saved \in Nat /\ saved < ids.pkg
    BY <1>1, <2>2 DEF RowsInv, RowsAreFresh, NoRow
  <2> HIDE DEF saved
  <2>4. DOMAIN pkgs' = DOMAIN pkgs \cup {saved}
    BY <1>3 DEF Insert
  <2>5. RowsAreFresh'
    BY <1>2, <2>1, <2>3, <2>4 DEF RowsInv, RowsAreFresh
  <2>6. RemoverOwns'
    BY <2>1 DEF RowsInv, RemoverOwns
  <2> QED
    BY <2>5, <2>6 DEF RowsInv
<1> QED
  BY <1>4, <1>5

\* RemovePackage deletes rows of both tables, after it has read some of one
\* package.
LEMMA RowsRemover ==
    ASSUME TypeOK, RowsInv, UNCHANGED intake,
           RmCommit \/ \E n \in Packages : RmRead(n)
    PROVE  RowsInv'
<1>1. CASE RmCommit
  <2>1. /\ DOMAIN pkgs' \subseteq DOMAIN pkgs /\ ids' = ids
        /\ DOMAIN versions' \subseteq DOMAIN versions
        /\ \A v \in DOMAIN versions' : versions'[v] = versions[v]
        /\ remover'.vers = remover.vers /\ remover'.row = remover.row
    BY <1>1 DEF RmCommit, Without, Restrict, TypeOK, RemoverTypeOK
  <2> QED
    BY <2>1 DEF RowsInv, RowsAreFresh, RemoverOwns
<1>2. CASE \E n \in Packages : RmRead(n)
  <2>1. UNCHANGED <<pkgs, versions, ids>>
    BY <1>2 DEF RmRead, tables
  <2>2. \A v \in remover'.vers : versions[v].pkg = remover'.row
    BY <1>2 DEF RmRead, VersionsOf
  <2> QED
    BY <2>1, <2>2 DEF RowsInv, RowsAreFresh, RemoverOwns
<1> QED
  BY <1>1, <1>2

\* A creator takes up a row of the table, or none.
LEMMA RowsIntake ==
    ASSUME TypeOK, QueueInv, RowsInv, UNCHANGED remover,
           \/ SchedulerStep \/ CliStep \/ PollFails
           \/ \E c \in Creators : AbortCreate(c) \/ IntakeFails(c)
    PROVE  RowsInv'
<1>1. intake \in [Creators -> Cloning \cup BusyCreator \cup {IdleCreator}]
      /\ IdleCreator.row = NoRow
  BY DEF TypeOK, IntakeTypeOK, IdleCreator, Preview
<1>2. ASSUME NEW c \in Creators, TxCommit(c) PROVE RowsInv'
  BY <1>2, RowsCreate
<1>3. ASSUME NEW c \in Creators, TxFind(c) PROVE RowsInv'
  <2>1. UNCHANGED <<pkgs, versions, ids>>
    BY <1>3 DEF TxFind, tables
  <2>2. PICK row \in DOMAIN pkgs \cup {NoRow} :
          intake' = [intake EXCEPT ![c] = [intake[c] EXCEPT !.pc = "save", !.row = row]]
    BY <1>3 DEF TxFind, RowOf, Goto
  <2>3. \A d \in Creators : intake'[d].row \in {intake[d].row, row}
    BY <1>1, <2>2 DEF Cloning, BusyCreator, IdleCreator, Preview
  <2>4. row < ids.pkg
    BY <2>2 DEF TypeOK, TablesTypeOK, RowsInv, RowsAreFresh, NoRow
  <2> QED
    BY <2>1, <2>3, <2>4 DEF RowsInv, RowsAreFresh, RemoverOwns
<1>4. ASSUME NEW c \in Creators, Accept(c) \/ TxSave(c) \/ AbortCreate(c) \/ IntakeFails(c)
      PROVE  RowsInv'
  <2>1. UNCHANGED <<pkgs, versions, ids>>
    BY <1>4 DEF Accept, TxSave, AbortCreate, IntakeFails, tables
  <2>2. \/ intake' = intake
        \/ \E s : intake' = [intake EXCEPT ![c] = s] /\ s.row \in {intake[c].row, NoRow}
    <3>1. CASE Abandon(c)
      BY <1>1, <3>1 DEF Abandon, Goto
    <3>2. CASE Accept(c) /\ ~Abandon(c)
      <4> DEFINE e == IF Kind(intake[c].name) = "local" THEN now
                      ELSE EligibleAtFromCommit(CommitTime[
                        IF <<intake[c].name, intake[c].rev>> \in DOMAIN sources
                        THEN sources[<<intake[c].name, intake[c].rev>>]
                        ELSE Offered(intake[c].name)])
      <4>1. intake' = [intake EXCEPT ![c] = [intake[c] EXCEPT !.pc = "find", !.eligible = e]]
        BY <3>2 DEF Accept, Goto
      <4>2. [intake[c] EXCEPT !.pc = "find", !.eligible = e].row = intake[c].row
        BY <1>1 DEF Cloning, BusyCreator, IdleCreator, Preview
      <4> QED
        BY <4>1, <4>2
    <3>3. CASE TxSave(c) /\ ~Abandon(c)
      <4>1. intake' = [intake EXCEPT ![c] = [intake[c] EXCEPT !.pc = "commit"]]
        BY <3>3 DEF TxSave, Goto
      <4>2. [intake[c] EXCEPT !.pc = "commit"].row = intake[c].row
        BY <1>1 DEF Cloning, BusyCreator, IdleCreator, Preview
      <4> QED
        BY <4>1, <4>2
    <3> QED
      BY <1>4, <3>1, <3>2, <3>3 DEF AbortCreate, IntakeFails
  <2>3. \A d \in Creators : intake'[d].row \in {intake[d].row, NoRow}
    BY <1>1, <2>2
  <2> QED
    BY <2>1, <2>3, RowsUntouched
<1>5. ASSUME \/ PollList \/ PollCheck \/ PollFails \/ CliDecline
             \/ \E n \in Packages : CliPreview(n)
      PROVE  RowsInv'
  <2>1. UNCHANGED <<pkgs, versions, ids>>
    BY <1>5 DEF PollList, PollCheck, PollFails, CliDecline, CliPreview, tables
  <2>2. \/ intake' = intake
        \/ \E c \in Creators : \E pc, n, r : intake' = [intake EXCEPT ![c] = Preview(pc, n, r)]
    BY <1>5, Zenon DEF PollList, PollCheck, PollFails, CliDecline, CliPreview, Previewed,
      Abandon, Goto, IdleCreator, Creators
  <2>3. \A d \in Creators : intake'[d].row \in {intake[d].row, NoRow}
    BY <1>1, <2>2 DEF Preview
  <2> QED
    BY <2>1, <2>3, RowsUntouched
<1>6. ASSUME NEW c \in Creators, PreviewAUR(c) PROVE RowsInv'
  <2>1. UNCHANGED <<pkgs, versions, ids>>
    BY <1>6 DEF PreviewAUR, PreviewClear, PreviewClone, PreviewRead, PreviewInspect,
      PreviewError, PreviewStep, tables
  <2>2. \E s : intake' = [intake EXCEPT ![c] = s] /\ s.row \in {intake[c].row, NoRow}
    <3>1. CASE PreviewInspect(c)
      <4>1. intake' = [intake EXCEPT ![c] = [intake[c] EXCEPT !.pc = "accept"]]
        BY <3>1 DEF PreviewInspect, PreviewStep, Goto
      <4>2. [intake[c] EXCEPT !.pc = "accept"].row = intake[c].row
        BY <1>1 DEF Cloning, BusyCreator, IdleCreator, Preview
      <4> QED
        BY <4>1, <4>2
    <3>2. CASE ~PreviewInspect(c)
      <4>1. \E pc, n, r : intake' = [intake EXCEPT ![c] = Preview(pc, n, r)]
        BY <1>6, <3>2, Zenon DEF PreviewAUR, PreviewClear, PreviewClone, PreviewRead,
          PreviewError, PreviewStep, Goto, IdleCreator
      <4> QED
        BY <4>1 DEF Preview
    <3> QED
      BY <3>1, <3>2
  <2>3. \A d \in Creators : intake'[d].row \in {intake[d].row, NoRow}
    BY <1>1, <2>2
  <2> QED
    BY <2>1, <2>3, RowsUntouched
<1> QED
  BY <1>2, <1>3, <1>4, <1>5, <1>6 DEF SchedulerStep, CliStep, Create, Creators

\* Each step keeps the rows.
LEMMA RowsNext == TypeOK /\ QueueInv /\ RowsInv /\ [Next]_vars => RowsInv'
<1> SUFFICES ASSUME TypeOK, QueueInv, RowsInv, [Next]_vars PROVE RowsInv'
  OBVIOUS
<1>1. CASE Scheduling \/ Commanding
  BY <1>1, RowsIntake DEF Scheduling, Commanding
<1>2. CASE Working \/ Publishing \/ Environment \/ UNCHANGED vars
  <2>1. UNCHANGED <<pkgs, versions, ids, intake, remover>>
    BY <1>2 DEF Working, Publishing, Environment, vars, store, tables, intakeVars, WorkerStep,
      ClaimSelect, ClaimCheck, ClaimSkip, ClaimTake, BuildStart, BuildSucceeds, BuildFails,
      MarkBuild, PublisherStep, PubList, PubCopy, PubRecord, PubAdd, PubMark, Tick, Push
  <2> QED
    BY <2>1, RowsUntouched
<1>3. CASE Removing \/ (AbortRemove /\ UNCHANGED intakeVars)
  <2>1. CASE RmCommit \/ \E n \in Packages : RmRead(n)
    BY <1>3, <2>1, RowsRemover DEF Removing, intakeVars
  <2>2. CASE RmJobs \/ RmArtifacts \/ RmRepo \/ RmFiles \/ RmDelete \/ RmCleanup \/ AbortRemove
    <3>1. UNCHANGED <<pkgs, versions, ids>>
      BY <2>2 DEF RmJobs, RmArtifacts, RmRepo, RmFiles, RmDelete, RmCleanup, AbortRemove, tables
    <3>2. UNCHANGED intake
      BY <1>3 DEF Removing, intakeVars
    <3>3. (remover'.vers = remover.vers /\ remover'.row = remover.row) \/ remover'.vers = {}
      <4>1. CASE RmCleanup \/ AbortRemove \/ (RmJobs /\ remover' = IdleRemover)
        BY <4>1 DEF RmCleanup, AbortRemove, IdleRemover
      <4>2. CASE RmJobs /\ remover' # IdleRemover
        BY <4>2 DEF TypeOK, RemoverTypeOK, RmJobs
      <4>3. CASE RmArtifacts \/ RmRepo \/ RmFiles \/ RmDelete
        BY <4>3 DEF TypeOK, RemoverTypeOK, RmArtifacts, RmRepo, RmFiles, RmDelete
      <4> QED
        BY <2>2, <4>1, <4>2, <4>3
    <3> QED
      BY <3>1, <3>2, <3>3, RowsUntouched
  <2> QED
    BY <1>3, <2>1, <2>2 DEF Removing, RemoverStep, RemoveGoesOn
<1>4. CASE \E c \in Creators : AbortCreate(c) /\ UNCHANGED remover
  BY <1>4, RowsIntake
<1>5. CASE Faults
  <2>1. CASE UNCHANGED remover /\ ~UNCHANGED intakeVars
    BY <1>5, <2>1, RowsIntake DEF Faults
  <2>2. CASE UNCHANGED intakeVars
    <3>1. UNCHANGED <<pkgs, versions, ids, intake>>
      BY <1>5, <2>2 DEF Faults, IntakeFails, PollFails, WorkerCrash, PubFails,
        PubMarkFails, PubCrash, RmRepoFails, RmCrash, tables, intakeVars
    <3>2. (remover'.vers = remover.vers /\ remover'.row = remover.row) \/ remover'.vers = {}
      BY <1>5 DEF Faults, TypeOK, RemoverTypeOK, RmRepoFails, RmCrash, IdleRemover
    <3> QED
      BY <3>1, <3>2, RowsUntouched
  <2> QED
    BY <1>5, <2>1, <2>2 DEF Faults
<1> QED
  BY <1>1, <1>2, <1>3, <1>4, <1>5 DEF Next, Deadlock

\* The rows stay as RowsInv says.
LEMMA RowsCorrect == Spec => []RowsInv
<1>1. TypeOK /\ QueueInv /\ RowsInv /\ [Next]_vars => RowsInv'
  BY RowsNext
<1> QED
  BY <1>1, RowsInit, TypeCorrect, QueueCorrect, PTL DEF Spec

-----------------------------------------------------------------------------
(* The mapping.                                                            *)

\* A step that writes neither versions nor jobs leaves the orders alone.
LEMMA OrdersUntouched ==
    ASSUME UNCHANGED <<versions, jobs, ids>>
    PROVE  UNCHANGED Queue!queueVars
  BY DEF Queue!queueVars, Orders

\* An UPDATE of one job's status moves its order, or finds no job.
LEMMA OrdersMarked ==
    ASSUME Jobs, UNCHANGED <<versions, ids>>, NEW j, NEW s \in Statuses, NEW S,
           j \in DOMAIN jobs => jobs[j].status \in S,
           \/ j \in DOMAIN jobs /\ jobs' = WithStatus({j}, s)
           \/ UNCHANGED jobs
    PROVE  UNCHANGED Queue!queueVars \/ (j \in DOMAIN Orders /\ Queue!Move(j, S, s))
<1>1. CASE UNCHANGED jobs
  BY <1>1, OrdersUntouched
<1>2. CASE j \in DOMAIN jobs /\ jobs' = WithStatus({j}, s)
  <2>1. DOMAIN jobs' = DOMAIN jobs
    BY <1>2 DEF WithStatus
  <2>2. \A i \in DOMAIN jobs : /\ jobs'[i].version = jobs[i].version
                               /\ jobs'[i].status = IF i = j THEN s ELSE jobs[i].status
    BY <1>2, WithStatusRows
  <2>3. Orders' = [i \in DOMAIN Orders |->
                     IF i = j THEN [Orders[i] EXCEPT !.status = s] ELSE Orders[i]]
    BY <2>1, <2>2 DEF Orders
  <2> QED
    BY <1>2, <2>3 DEF Orders, Queue!Move, Queue!HasStatus
<1> QED
  BY <1>1, <1>2

\* CreatePackage enqueues the revision under the next id, and what it skips are
\* the orders of the same row that wait.
LEMMA OrdersCreate ==
    ASSUME TypeOK, QueueInv, RowsInv, NEW c \in Creators, TxCommit(c)
    PROVE  UNCHANGED Queue!queueVars \/ Queue!Enqueue
<1>1. CASE ~IsNew(c)
  <2>1. UNCHANGED <<versions, jobs, ids>>
    BY <1>1 DEF TxCommit
  <2> QED
    BY <2>1, OrdersUntouched
<1>2. CASE IsNew(c)
  <2> DEFINE saved == IF intake[c].row # NoRow THEN intake[c].row ELSE ids.pkg
             r == intake[c].rev
             new == [pkg |-> saved, rev |-> r, status |-> "pending"]
  <2>1. /\ versions' = Insert(versions, ids.version, [pkg |-> saved, rev |-> r])
        /\ jobs' = Insert(WithStatus(Superseded(saved), "skipped"), ids.job,
                          [version |-> ids.version, status |-> "pending",
                           eligible |-> intake[c].eligible])
    BY <1>2, Zenon DEF TxCommit
  <2>2. ids'.job = ids.job + 1 /\ saved \in Nat /\ r \in Revisions
    <3>1. intake[c] \in BusyCreator
      BY BusyType DEF TypeOK, TxCommit, At
    <3> QED
      BY <1>2, <3>1 DEF TxCommit, TypeOK, TablesTypeOK, BusyCreator
  <2>3. \A v \in DOMAIN versions : versions[v].pkg = saved => versions[v].rev # r
    BY <1>2 DEF IsNew, Recorded, VersionsOf, RowsInv, RowsAreFresh, TypeOK, TablesTypeOK
  <2>4. /\ \A v \in DOMAIN versions : v # ids.version /\ versions[v] \in VersionRow
        /\ \A j \in DOMAIN jobs : j # ids.job /\ jobs[j].version \in DOMAIN versions
    BY DEF QueueInv, IdsAreFresh, VersionsAndJobsPaired, TypeOK, TablesTypeOK, IsTable
  <2> HIDE DEF saved, r
  <2>5. /\ versions'[ids.version] = [pkg |-> saved, rev |-> r]
        /\ \A v \in DOMAIN versions : versions'[v] = versions[v]
    BY <2>1, <2>4 DEF Insert
  <2>6. /\ DOMAIN jobs' = DOMAIN jobs \cup {ids.job}
        /\ jobs'[ids.job] = [version |-> ids.version, status |-> "pending",
                             eligible |-> intake[c].eligible]
        /\ \A j \in DOMAIN jobs : jobs'[j] = WithStatus(Superseded(saved), "skipped")[j]
    BY <2>1, <2>4 DEF Insert, WithStatus
  <2>7. \A j \in DOMAIN jobs :
          /\ jobs'[j].version = jobs[j].version
          /\ jobs'[j].status = IF j \in Superseded(saved) THEN "skipped" ELSE jobs[j].status
    <3>1. Jobs /\ "skipped" \in Statuses
      BY DEF Jobs, TypeOK, TablesTypeOK, Statuses
    <3> QED
      BY <2>6, <3>1, WithStatusRows
  <2>8. \A j \in DOMAIN jobs :
          j \in Superseded(saved) <=> Orders[j].pkg = saved /\ Orders[j].status = "pending"
    BY <2>4 DEF Superseded, JobsOf, VersionsOf, Orders
  <2>9. Orders'[ids.job] = new
    BY <2>5, <2>6 DEF Orders
  <2>10. \A j \in DOMAIN jobs :
           Orders'[j] = IF Orders[j].pkg = saved /\ Orders[j].status = "pending"
                        THEN [Orders[j] EXCEPT !.status = "skipped"] ELSE Orders[j]
    <3> TAKE j \in DOMAIN jobs
    <3>1. Orders'[j] = [pkg |-> versions[jobs[j].version].pkg,
                        rev |-> versions[jobs[j].version].rev,
                        status |-> IF j \in Superseded(saved) THEN "skipped"
                                   ELSE jobs[j].status]
      BY <2>4, <2>5, <2>6, <2>7 DEF Orders
    <3>2. Orders[j] = [pkg |-> versions[jobs[j].version].pkg,
                       rev |-> versions[jobs[j].version].rev, status |-> jobs[j].status]
      BY DEF Orders
    <3> QED
      BY <2>8, <3>1, <3>2
  <2>11. Orders' = [j \in DOMAIN Orders \cup {ids.job} |->
               IF j = ids.job THEN new
               ELSE IF j \in Queue!OrdersOf(saved) /\ Orders[j].status = "pending"
               THEN [Orders[j] EXCEPT !.status = "skipped"]
               ELSE Orders[j]]
    <3>1. DOMAIN Orders = DOMAIN jobs /\ DOMAIN Orders' = DOMAIN jobs \cup {ids.job}
      BY <2>6 DEF Orders
    <3>2. Orders' = [j \in DOMAIN Orders' |-> Orders'[j]]
      BY DEF Orders
    <3> QED
      BY <2>4, <2>9, <2>10, <3>1, <3>2 DEF Queue!OrdersOf
  <2>12. \A j \in Queue!OrdersOf(saved) : Orders[j].rev # r
    BY <2>3, <2>4 DEF Queue!OrdersOf, Orders
  <2> QED
    BY <2>2, <2>9, <2>11, <2>12 DEF Queue!Enqueue
<1> QED
  BY <1>1, <1>2

\* RemovePackage cancels orders of the one row it has read.
LEMMA OrdersRemove ==
    ASSUME TypeOK, QueueInv, RowsInv, RmCommit
    PROVE  Queue!Cancel
<1> DEFINE S == remover.jbs \cap DOMAIN jobs
<1>1. /\ jobs' = [j \in DOMAIN jobs \ remover.jbs |-> jobs[j]]
      /\ versions' = [v \in DOMAIN versions \ remover.vers |-> versions[v]]
      /\ ids' = ids
  BY DEF RmCommit, Without, Restrict
<1>2. \A j \in DOMAIN jobs : /\ jobs[j].version \in DOMAIN versions
                             /\ j \in remover.jbs <=> jobs[j].version \in remover.vers
  BY DEF QueueInv, VersionsAndJobsPaired, RemoverReadsWhole, RmCommit, RemoverAt
<1>3. \A j \in S : Orders[j].pkg = remover.row
  BY <1>2 DEF Orders, RowsInv, RemoverOwns
<1>4. DOMAIN Orders = DOMAIN jobs /\ DOMAIN jobs' = DOMAIN jobs \ S
  BY <1>1 DEF Orders
<1>5. \A j \in DOMAIN jobs \ S : Orders'[j] = Orders[j]
  <2> TAKE j \in DOMAIN jobs \ S
  <2>1. jobs'[j] = jobs[j] /\ versions'[jobs[j].version] = versions[jobs[j].version]
    BY <1>1, <1>2
  <2> QED
    BY <1>4, <2>1 DEF Orders
<1>6. Orders' = [j \in DOMAIN Orders \ S |-> Orders[j]]
  <2>1. Orders' = [j \in DOMAIN jobs' |-> Orders'[j]]
    BY DEF Orders
  <2> QED
    BY <1>4, <1>5, <2>1
<1>7. S \in SUBSET DOMAIN Orders /\ \A i, j \in S : Orders[i].pkg = Orders[j].pkg
  BY <1>3, <1>4
<1> HIDE DEF S
<1> QED
  BY <1>1, <1>6, <1>7 DEF Queue!Cancel

\* Every step is a step of the queue or leaves it alone.
LEMMA QueueStep == IInv /\ RowsInv /\ [Next]_vars => [Queue!Next]_(Queue!queueVars)
<1> SUFFICES ASSUME IInv, RowsInv, [Next]_vars PROVE [Queue!Next]_(Queue!queueVars)
  OBVIOUS
<1>1. /\ TypeOK /\ QueueInv /\ Jobs /\ ClaimHoldsItsJob /\ BuildHoldsItsJob
      /\ PublisherHoldsItsJobs
  BY DEF IInv, TypeOK, TablesTypeOK, Jobs, HoldersInv
<1>2. ASSUME NEW c \in Creators, TxCommit(c) PROVE [Queue!Next]_(Queue!queueVars)
  BY <1>1, <1>2, OrdersCreate DEF Queue!Next
<1>3. CASE RmCommit
  BY <1>1, <1>3, OrdersRemove DEF IInv, Queue!Next
<1>4. ASSUME NEW j, NEW s \in Statuses, NEW S, MarkJob(j, s),
             UNCHANGED <<versions, ids>>, j \in DOMAIN jobs => jobs[j].status \in S
      PROVE  UNCHANGED Queue!queueVars \/ (j \in DOMAIN Orders /\ Queue!Move(j, S, s))
  <2>1. (j \in DOMAIN jobs /\ jobs' = WithStatus({j}, s)) \/ UNCHANGED jobs
    BY <1>4 DEF MarkJob
  <2> QED
    BY <1>1, <1>4, <2>1, OrdersMarked
<1>5. CASE ClaimSkip
  <2>1. CASE worker.job \in DOMAIN jobs /\ jobs[worker.job].status = "pending"
    <3>1. UNCHANGED Queue!queueVars
          \/ (worker.job \in DOMAIN Orders /\ Queue!Move(worker.job, {"pending"}, "skipped"))
      BY <1>4, <1>5, <2>1 DEF ClaimSkip, Statuses
    <3> QED
      BY <3>1 DEF Queue!Next, Queue!Skip
  <2>2. CASE ~(worker.job \in DOMAIN jobs /\ jobs[worker.job].status = "pending")
    <3>1. UNCHANGED jobs
      <4>1. worker.job \in DOMAIN jobs => jobs[worker.job].status = "skipped"
        BY <1>1, <1>5, <2>2 DEF ClaimHoldsItsJob, ClaimSkip
      <4>2. CASE worker.job \in DOMAIN jobs
        <5>1. jobs' = WithStatus({worker.job}, "skipped")
          BY <1>5, <4>2 DEF ClaimSkip, MarkJob
        <5>2. \A j \in DOMAIN jobs : jobs[j] \in JobRow
          BY <1>1 DEF Jobs, IsTable
        <5>3. jobs = [j \in DOMAIN jobs |-> jobs[j]]
          BY <1>1 DEF Jobs, IsTable
        <5> QED
          BY <4>1, <4>2, <5>1, <5>2, <5>3 DEF WithStatus, JobRow
      <4>3. CASE worker.job \notin DOMAIN jobs
        BY <1>5, <4>3 DEF ClaimSkip, MarkJob
      <4> QED
        BY <4>2, <4>3
    <3> QED
      BY <1>5, <3>1, OrdersUntouched DEF ClaimSkip
  <2> QED
    BY <2>1, <2>2
<1>6. CASE ClaimTake
  <2>1. worker.job \in DOMAIN jobs => jobs[worker.job].status \in {"pending", "skipped"}
    BY <1>1, <1>6 DEF ClaimHoldsItsJob, ClaimTake
  <2>2. UNCHANGED Queue!queueVars \/ (worker.job \in DOMAIN Orders
          /\ Queue!Move(worker.job, {"pending", "skipped"}, "running"))
    <3>1. UNCHANGED <<versions, ids>> /\ "running" \in Statuses
      BY <1>6 DEF ClaimTake, Statuses
    <3>2. (worker.job \in DOMAIN jobs /\ jobs' = WithStatus({worker.job}, "running"))
          \/ UNCHANGED jobs
      BY <1>6 DEF ClaimTake
    <3> QED
      BY <1>1, <2>1, <3>1, <3>2, OrdersMarked
  <2> QED
    BY <2>2 DEF Queue!Next, Queue!Start
<1>7. CASE MarkBuild
  <2>1. worker.job \in DOMAIN jobs => jobs[worker.job].status \in {"running"}
    BY <1>1, <1>7 DEF BuildHoldsItsJob, MarkBuild, Building
  <2>2. worker.pc \in {"built", "failed"} /\ MarkJob(worker.job, worker.pc)
        /\ UNCHANGED <<versions, ids>> /\ worker.pc \in Statuses
    BY <1>7 DEF MarkBuild, Statuses
  <2>3. UNCHANGED Queue!queueVars \/ (worker.job \in DOMAIN Orders
          /\ Queue!Move(worker.job, {"running"}, worker.pc))
    BY <1>4, <2>1, <2>2
  <2> QED
    BY <2>2, <2>3 DEF Queue!Next, Queue!Finish
<1>8. CASE PubMark
  <2> DEFINE s == IF publisher.pc = "mark" THEN "published" ELSE "failed"
  <2>1. publisher.job \in DOMAIN jobs => jobs[publisher.job].status \in {"built"}
    BY <1>1, <1>8 DEF PublisherHoldsItsJobs, InHand, PubMark
  <2>2. MarkJob(publisher.job, s) /\ UNCHANGED <<versions, ids>> /\ s \in Statuses
        /\ s \in {"published", "failed"}
    BY <1>8 DEF PubMark, Statuses
  <2> HIDE DEF s
  <2>3. UNCHANGED Queue!queueVars \/ (publisher.job \in DOMAIN Orders
          /\ Queue!Move(publisher.job, {"built"}, s))
    BY <1>4, <2>1, <2>2
  <2> QED
    BY <2>2, <2>3 DEF Queue!Next, Queue!Publish
<1>9. \/ UNCHANGED <<versions, jobs, ids>> \/ \E c \in Creators : TxCommit(c)
      \/ ClaimSkip \/ ClaimTake \/ MarkBuild \/ PubMark \/ RmCommit
  <2>1. Scheduling \/ Commanding =>
          UNCHANGED <<versions, jobs, ids>> \/ \E c \in Creators : TxCommit(c)
    BY DEF Scheduling, Commanding, SchedulerStep, CliStep, Create, Creators, PollList,
      PollCheck, PreviewAUR, PreviewClear, PreviewClone, PreviewRead, PreviewInspect,
      PreviewError, PreviewStep, CliPreview, CliDecline, Accept, TxFind, TxSave, tables
  <2>2. Working => UNCHANGED <<versions, jobs, ids>> \/ ClaimSkip \/ ClaimTake \/ MarkBuild
    BY DEF Working, WorkerStep, ClaimSelect, ClaimCheck, BuildStart, BuildSucceeds,
      BuildFails, tables
  <2>3. Publishing => UNCHANGED <<versions, jobs, ids>> \/ PubMark
    BY DEF Publishing, PublisherStep, PubList, PubCopy, PubRecord, PubAdd, tables
  <2>4. Removing => UNCHANGED <<versions, jobs, ids>> \/ RmCommit
    BY DEF Removing, RemoverStep, RemoveGoesOn, RmRead, RmJobs, RmArtifacts, RmRepo, RmFiles,
      RmDelete, RmCleanup, tables
  <2>5. Deadlock \/ Faults \/ Environment \/ UNCHANGED vars => UNCHANGED <<versions, jobs, ids>>
    BY DEF Deadlock, Faults, Environment, AbortCreate, AbortRemove, IntakeFails,
      PollFails, WorkerCrash, PubFails, PubMarkFails, PubCrash, RmRepoFails, RmCrash,
      Tick, Push, vars, store, tables
  <2> QED
    BY <2>1, <2>2, <2>3, <2>4, <2>5 DEF Next
<1> QED
  BY <1>2, <1>3, <1>5, <1>6, <1>7, <1>8, <1>9, OrdersUntouched

\* The statements of scheduler, commands, worker, publisher and remover, in
\* every interleaving and with every fault, leave the jobs that BuildQueue
\* promises: a revision of a row is ordered once, an order waits only while it
\* is the newest, and it never moves backward.
THEOREM Implements == Spec => ImplementsQueue
<1>1. Init => Queue!Init
  BY DEF Init, StoreInit, Orders, Queue!Init
<1>2. IInv /\ RowsInv /\ [Next]_vars => [Queue!Next]_(Queue!queueVars)
  BY QueueStep
<1> QED
  BY <1>1, <1>2, Inductive, RowsCorrect, PTL DEF Spec, ImplementsQueue, Queue!Spec
=============================================================================
