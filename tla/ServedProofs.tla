---------------------------- MODULE ServedProofs ----------------------------
(***************************************************************************)
(* What the repository of Aurforge offers while nothing is removed: the    *)
(* worker claims the jobs of a package in the order of its versions, the   *)
(* publisher takes what is built in that order, and so what clients get    *)
(* never goes back.                                                        *)
(***************************************************************************)
EXTENDS RefinementProofs

\* Everything starts empty, and without removals it stays at that.
LEMMA ServedInit == ASSUME MaxRemovals = 0 PROVE Init => ServedInv
<1> SUFFICES ASSUME Init PROVE ServedInv
  OBVIOUS
<1>1. RemoverAt("idle") /\ budget.removals = 0
  BY DEF Init, StoreInit, RemoverInit, IdleRemover, RemoverAt
<1>2. NamesInv
  BY DEF Init, StoreInit, IntakeInit, IdleCreator, Preview, NoRow, At, NamesInv
<1>3. BuildsInOrder
  BY DEF Init, StoreInit, WorkerInit, IdleWorker, BuildsInOrder, Building
<1>4. PublishesInOrder
  BY DEF Init, StoreInit, PublisherInit, IdlePublisher, PublishesInOrder, InHand
<1>5. RepoInOrder /\ PublishedIsServed /\ MismatchIsUnpublished
  BY DEF Init, StoreInit, RepoInOrder, PublishedIsServed, MismatchIsUnpublished
<1> QED
  BY <1>1, <1>2, <1>3, <1>4, <1>5 DEF ServedInv

\* A remove must be allowed to start.
LEMMA NothingRemoved ==
    ASSUME TypeOK, ServedInv, [Next]_vars
    PROVE  /\ UNCHANGED remover /\ budget'.removals = 0
           /\ ~RmCommit /\ ~Removing /\ ~RmRepoFails /\ ~RmCrash /\ ~AbortRemove
<1>1. RemoverAt("idle") /\ budget.removals = 0
      /\ budget \in [adds : Nat, removals : Nat, faults : Nat, pushes : Nat]
  BY DEF ServedInv, TypeOK, EnvTypeOK
<1>2. ~RmCommit /\ ~Removing /\ ~RmRepoFails /\ ~RmCrash /\ ~AbortRemove
  BY <1>1 DEF RmCommit, Removing, RemoverStep, RmRead, RemoveGoesOn, RmJobs, RmArtifacts, RmRepo,
    RmFiles, RmDelete, RmCleanup, RmRepoFails, RmCrash, AbortRemove, WaitsForName, RemoverAt
<1>3. UNCHANGED remover
  BY <1>2 DEF Next, Scheduling, Commanding, Working, Publishing, Deadlock, Faults, Environment, vars
<1>4. budget'.removals = 0
  <2>1. Scheduling \/ Commanding => budget'.removals = budget.removals
    BY <1>1 DEF Scheduling, Commanding, SchedulerStep, CliStep, Create, Creators,
      PollList, PollCheck, PreviewAUR, PreviewClear, PreviewClone, PreviewRead,
      PreviewInspect, PreviewError, PreviewStep, CliPreview, CliDecline, Accept, TxFind,
      TxSave, TxCommit
  <2>2. Working \/ Publishing => budget'.removals = budget.removals
    BY DEF Working, WorkerStep, ClaimSelect, ClaimCheck, ClaimSkip, ClaimTake, BuildStart,
      BuildSucceeds, BuildFails, MarkBuild, Publishing, PublisherStep, PubList, PubCopy,
      PubRecord, PubAdd, PubMark
  <2>3. Deadlock \/ Faults => budget'.removals = budget.removals
    BY <1>1 DEF Deadlock, AbortCreate, AbortRemove, Faults, IntakeFails, PollFails,
      WorkerCrash, PubFails, PubMarkFails, PubCrash, RmRepoFails, RmCrash, Fault
  <2>4. Environment \/ UNCHANGED vars => budget'.removals = budget.removals
    BY <1>1 DEF Environment, Tick, Push, vars, store
  <2> QED
    BY <1>1, <1>2, <2>1, <2>2, <2>3, <2>4 DEF Next
<1> QED
  BY <1>2, <1>3, <1>4

-----------------------------------------------------------------------------
(* Names.                                                                  *)

\* A creator goes on without taking its name, or gives it back.
LEMMA NamesGoto ==
    ASSUME TypeOK, NamesInv, UNCHANGED <<pkgs, versions>>, NEW c \in Creators, NEW new,
           Goto(c, new), new.pc # "commit",
           new.row # NoRow => new.row \in DOMAIN pkgs /\ pkgs[new.row].name = new.name,
           \/ UNCHANGED nameLocks
           \/ At(c, "commit") /\ nameLocks' = nameLocks \ {intake[c].name}
    PROVE  NamesInv'
<1>1. DOMAIN intake = Creators
  BY DEF TypeOK, IntakeTypeOK
<1>2. intake'[c] = new /\ \A d \in Creators \ {c} : intake'[d] = intake[d]
  BY <1>1 DEF Goto
<1>3. \A d \in Creators : At(d, "commit")' => d # c /\ At(d, "commit")
  BY <1>2 DEF At
<1>4. ASSUME NEW d \in Creators
      PROVE  /\ intake'[d].row # NoRow =>
                 intake'[d].row \in DOMAIN pkgs /\ pkgs[intake'[d].row].name = intake'[d].name
             /\ At(d, "commit")' =>
                 /\ intake'[d].name \in nameLocks'
                 /\ intake'[d].row = NoRow => ~Managed(intake[d].name)
                 /\ \A e \in Creators \ {d} : At(e, "commit")' => intake'[e].name # intake'[d].name
  BY <1>2, <1>3 DEF NamesInv
<1>5. \A d \in Creators : d # c => intake'[d].name = intake[d].name
  BY <1>2
<1> QED
  BY <1>3, <1>4, <1>5 DEF NamesInv, Managed, RowOf

\* A creator takes the name, which nobody holds.
LEMMA NamesSave ==
    ASSUME TypeOK, NamesInv, NEW c \in Creators, TxSave(c)
    PROVE  NamesInv'
<1> DEFINE ok == (intake[c].row # NoRow /\ intake[c].row \in DOMAIN pkgs)
                 \/ (intake[c].row = NoRow /\ ~Managed(intake[c].name))
<1>1. intake[c] \in BusyCreator /\ DOMAIN intake = Creators /\ UNCHANGED <<pkgs, versions>>
  BY BusyType DEF TxSave, At, TypeOK, IntakeTypeOK, tables
<1>2. CASE ~ok
  <2>1. Goto(c, IdleCreator) /\ UNCHANGED nameLocks
    BY <1>2 DEF TxSave, Abandon
  <2>2. IdleCreator.pc # "commit" /\ IdleCreator.row = NoRow
    BY DEF IdleCreator, Preview
  <2> QED
    BY <1>1, <2>1, <2>2, NamesGoto
<1>3. CASE ok
  <2>1. /\ intake' = [intake EXCEPT ![c] = [intake[c] EXCEPT !.pc = "commit"]]
        /\ nameLocks' = nameLocks \cup {intake[c].name} /\ intake[c].name \notin nameLocks
    BY <1>3 DEF TxSave, Goto
  <2>2. /\ intake'[c].pc = "commit" /\ intake'[c].row = intake[c].row
        /\ intake'[c].name = intake[c].name
        /\ \A d \in Creators \ {c} : intake'[d] = intake[d]
    BY <1>1, <2>1 DEF BusyCreator
  <2>3. \A d \in Creators : intake'[d].row = intake[d].row /\ intake'[d].name = intake[d].name
    BY <2>2
  <2>4. \A d \in Creators : At(d, "commit")' <=> d = c \/ At(d, "commit")
    BY <2>2 DEF At
  <2>5. \A d \in Creators \ {c} : At(d, "commit") => intake[d].name # intake[c].name
    BY <2>1 DEF NamesInv
  <2>6. \A n : Managed(n)' <=> Managed(n)
    BY <1>1 DEF Managed, RowOf
  <2>7. ASSUME NEW d \in Creators, At(d, "commit")'
        PROVE  /\ intake'[d].name \in nameLocks'
               /\ intake'[d].row = NoRow => ~Managed(intake[d].name)
               /\ \A e \in Creators \ {d} : At(e, "commit")' => intake'[e].name # intake'[d].name
    BY <1>3, <2>1, <2>3, <2>4, <2>5, <2>7 DEF NamesInv
  <2>8. \A d \in Creators : intake'[d].row # NoRow =>
          intake'[d].row \in DOMAIN pkgs /\ pkgs[intake'[d].row].name = intake'[d].name
    BY <2>3 DEF NamesInv
  <2> QED
    BY <1>1, <2>3, <2>7, <2>8 DEF NamesInv, Managed, RowOf
<1> QED
  BY <1>2, <1>3

\* CreatePackage writes a row of its own name, and no other row loses its name.
LEMMA NamesCommit ==
    ASSUME TypeOK, RowsInv, NamesInv, NEW c \in Creators, TxCommit(c)
    PROVE  NamesInv' /\ \A k \in DOMAIN pkgs : k \in DOMAIN pkgs' /\ pkgs'[k].name = pkgs[k].name
<1> DEFINE saved == IF intake[c].row # NoRow THEN intake[c].row ELSE ids.pkg
           n == intake[c].name
<1>1. pkgs' = Insert(pkgs, saved, [name |-> n, path |-> intake[c].rev])
  BY Zenon DEF TxCommit
<1>2. /\ intake[c].row # NoRow => saved \in DOMAIN pkgs /\ pkgs[saved].name = n
      /\ intake[c].row = NoRow => saved \notin DOMAIN pkgs /\ ~Managed(n)
  <2>1. intake[c].row = NoRow => ids.pkg \notin DOMAIN pkgs
    BY DEF RowsInv, RowsAreFresh, TypeOK, TablesTypeOK, IsTable
  <2>2. At(c, "commit")
    BY DEF TxCommit
  <2> QED
    BY <2>1, <2>2 DEF NamesInv
<1>3. versions' = versions \/ versions' = Insert(versions, ids.version, [pkg |-> saved, rev |-> intake[c].rev])
  BY Zenon DEF TxCommit
<1>4. intake' = [intake EXCEPT ![c] = IdleCreator] /\ nameLocks' = nameLocks \ {n} /\ At(c, "commit")
  BY DEF TxCommit, Goto
<1> HIDE DEF saved, n
<1>5. /\ DOMAIN pkgs' = DOMAIN pkgs \cup {saved}
      /\ pkgs'[saved].name = n
      /\ \A k \in DOMAIN pkgs : pkgs'[k].name = pkgs[k].name
  BY <1>1, <1>2 DEF Insert
<1>6. \A m : Managed(m)' => Managed(m) \/ m = n
  BY <1>5 DEF Managed, RowOf
<1>7. \A k, l \in DOMAIN pkgs' : pkgs'[k].name = pkgs'[l].name => k = l
  BY <1>2, <1>5 DEF NamesInv, Managed, RowOf
<1>8. \A v \in DOMAIN versions' : versions'[v].pkg \in DOMAIN pkgs'
  BY <1>3, <1>5 DEF NamesInv, Insert
<1>9. DOMAIN intake = Creators
  BY DEF TypeOK, IntakeTypeOK
<1>10. /\ intake'[c].pc = "idle" /\ intake'[c].row = NoRow
       /\ \A d \in Creators \ {c} : intake'[d] = intake[d]
  BY <1>4, <1>9 DEF IdleCreator, Preview
<1>11. ASSUME NEW d \in Creators
       PROVE  /\ intake'[d].row # NoRow =>
                  intake'[d].row \in DOMAIN pkgs' /\ pkgs'[intake'[d].row].name = intake'[d].name
              /\ At(d, "commit")' =>
                  /\ intake'[d].name \in nameLocks'
                  /\ intake'[d].row = NoRow => ~Managed(intake[d].name)'
                  /\ \A e \in Creators \ {d} : At(e, "commit")' => intake'[e].name # intake'[d].name
  <2>1. CASE d = c
    BY <1>10, <2>1 DEF At
  <2>2. CASE d # c
    <3>1. intake'[d] = intake[d]
      BY <1>10, <2>2
    <3>2. intake[d].row # NoRow =>
            intake[d].row \in DOMAIN pkgs' /\ pkgs'[intake[d].row].name = intake[d].name
      BY <1>5 DEF NamesInv
    <3>3. At(d, "commit") => intake[d].name \in nameLocks /\ intake[d].name # n
          /\ (intake[d].row = NoRow => ~Managed(intake[d].name))
          /\ \A e \in Creators \ {d} : At(e, "commit") => intake[e].name # intake[d].name
      BY <1>4, <2>2 DEF NamesInv, n
    <3>4. \A e \in Creators : At(e, "commit")' => e # c /\ intake'[e] = intake[e] /\ At(e, "commit")
      BY <1>10 DEF At
    <3>5. At(d, "commit") /\ intake[d].row = NoRow => ~Managed(intake[d].name)'
      BY <1>5, <3>1, <3>3 DEF Managed, RowOf
    <3> QED
      BY <1>4, <3>1, <3>2, <3>3, <3>4, <3>5
  <2> QED
    BY <2>1, <2>2
<1> QED
  BY <1>5, <1>7, <1>8, <1>11 DEF NamesInv

\* A step that leaves the rows and what the creators hold alone.
LEMMA NamesSame == NamesInv /\ UNCHANGED <<pkgs, versions, intake, nameLocks>> => NamesInv'
  BY DEF NamesInv, At, Managed, RowOf

\* What the creators do before and after they write.
LEMMA NamesIntake ==
    ASSUME TypeOK, RowsInv, NamesInv,
           \/ SchedulerStep \/ CliStep
           \/ \E c \in Creators : AbortCreate(c) \/ IntakeFails(c)
           \/ PollFails
    PROVE  NamesInv'
<1> USE DEF tables, locks
<1>1. IdleCreator.pc # "commit" /\ IdleCreator.row = NoRow
      /\ \A pc, n, r : Preview(pc, n, r).pc = pc /\ Preview(pc, n, r).row = NoRow
  BY DEF IdleCreator, Preview
<1>2. "scheduler" \in Creators /\ "cli" \in Creators
  BY DEF Creators
<1>3. CASE PollList
  BY <1>3, NamesSame DEF PollList
<1>4. CASE PollCheck
  <2>1. /\ UNCHANGED <<pkgs, versions, nameLocks>>
        /\ \/ UNCHANGED intake
           \/ \E new : Goto("scheduler", new) /\ new.pc # "commit" /\ new.row = NoRow
    BY <1>1, <1>4 DEF PollCheck, Previewed
  <2>2. CASE UNCHANGED intake
    BY <2>1, <2>2, NamesSame
  <2>3. CASE ~UNCHANGED intake
    <3>1. PICK new : Goto("scheduler", new) /\ new.pc # "commit" /\ new.row = NoRow
      BY <2>1, <2>3
    <3> QED
      BY <1>1, <1>2, <2>1, <3>1, NamesGoto
  <2> QED
    BY <2>2, <2>3
<1>5. ASSUME NEW n \in Packages, CliPreview(n) PROVE NamesInv'
  <2>1. UNCHANGED <<pkgs, versions, nameLocks>> /\ Goto("cli", Previewed(n))
    BY <1>5 DEF CliPreview
  <2>2. Previewed(n).pc # "commit" /\ Previewed(n).row = NoRow
    BY <1>1 DEF Previewed
  <2> QED
    BY <1>2, <2>1, <2>2, NamesGoto
<1>10. ASSUME NEW c \in Creators, PreviewAUR(c) PROVE NamesInv'
  <2>1. UNCHANGED <<pkgs, versions, nameLocks>>
    BY <1>10 DEF PreviewAUR, PreviewClear, PreviewClone, PreviewRead, PreviewInspect,
      PreviewError, PreviewStep
  <2>2. CASE PreviewInspect(c)
    <3> DEFINE new == [intake[c] EXCEPT !.pc = "accept"]
    <3>1. intake[c] \in BusyCreator
      BY <2>2, BusyType DEF PreviewInspect, At, TypeOK
    <3>2. new.pc = "accept" /\ new.row = intake[c].row /\ new.name = intake[c].name
      BY <3>1 DEF BusyCreator
    <3>3. new.row # NoRow => new.row \in DOMAIN pkgs /\ pkgs[new.row].name = new.name
      BY <3>2 DEF NamesInv
    <3>4. Goto(c, new)
      BY <2>2 DEF PreviewInspect, PreviewStep
    <3> HIDE DEF new
    <3> QED
      BY <2>1, <3>2, <3>3, <3>4, NamesGoto
  <2>3. CASE ~PreviewInspect(c)
    <3>1. PICK new : Goto(c, new) /\ new.pc # "commit" /\ new.row = NoRow
      <4>1. CASE PreviewClear(c)
        BY <4>1, <1>1 DEF PreviewClear, PreviewStep, Preview
      <4>2. CASE PreviewClone(c)
        BY <4>2, <1>1 DEF PreviewClone, PreviewStep, Preview
      <4>3. CASE PreviewRead(c)
        BY <4>3, <1>1 DEF PreviewRead, PreviewStep, Preview
      <4>4. CASE PreviewError(c)
        BY <4>4, <1>1 DEF PreviewError, PreviewStep
      <4> QED
        BY <1>10, <2>3, <4>1, <4>2, <4>3, <4>4 DEF PreviewAUR
    <3> QED
      BY <2>1, <3>1, NamesGoto
  <2> QED
    BY <2>2, <2>3
<1>6. CASE CliDecline \/ \E c \in Creators : AbortCreate(c) \/ IntakeFails(c)
  <2>1. PICK c \in Creators :
          /\ Goto(c, IdleCreator)
          /\ \/ UNCHANGED nameLocks
             \/ At(c, "commit") /\ nameLocks' = nameLocks \ {intake[c].name}
    BY <1>2, <1>6 DEF CliDecline, AbortCreate, WaitsForJobs, IntakeFails, Abandon
  <2>2. UNCHANGED <<pkgs, versions>>
    BY <1>6 DEF CliDecline, AbortCreate, IntakeFails
  <2> QED
    BY <1>1, <2>1, <2>2, NamesGoto
<1>7. CASE PollFails
  <2>1. UNCHANGED <<pkgs, versions, nameLocks>>
        /\ (UNCHANGED intake \/ Goto("scheduler", IdleCreator))
    BY <1>7 DEF PollFails, Abandon
  <2>2. CASE UNCHANGED intake
    BY <2>1, <2>2, NamesSame
  <2>3. CASE Goto("scheduler", IdleCreator)
    BY <1>1, <1>2, <2>1, <2>3, NamesGoto
  <2> QED
    BY <2>1, <2>2, <2>3
<1>8. ASSUME NEW c \in Creators, Accept(c) PROVE NamesInv'
  <2>1. UNCHANGED <<pkgs, versions, nameLocks>>
    BY <1>8 DEF Accept
  <2>2. intake[c] \in BusyCreator
    BY <1>8, BusyType DEF Accept, At, TypeOK
  <2>3. \/ Goto(c, IdleCreator)
        \/ \E t : Goto(c, [intake[c] EXCEPT !.pc = "find", !.eligible = t])
    BY <1>8 DEF Accept, Abandon
  <2>4. CASE Goto(c, IdleCreator)
    BY <1>1, <2>1, <2>4, NamesGoto
  <2>5. CASE ~Goto(c, IdleCreator)
    <3>1. PICK t : Goto(c, [intake[c] EXCEPT !.pc = "find", !.eligible = t])
      BY <2>3, <2>5
    <3> DEFINE new == [intake[c] EXCEPT !.pc = "find", !.eligible = t]
    <3>2. new.pc = "find" /\ new.row = intake[c].row /\ new.name = intake[c].name
      BY <2>2 DEF BusyCreator
    <3>3. new.row # NoRow => new.row \in DOMAIN pkgs /\ pkgs[new.row].name = new.name
      BY <3>2 DEF NamesInv
    <3>4. Goto(c, new)
      BY <3>1
    <3> HIDE DEF new
    <3> QED
      BY <2>1, <3>2, <3>3, <3>4, NamesGoto
  <2> QED
    BY <2>4, <2>5
<1>9. ASSUME NEW c \in Creators, TxFind(c) PROVE NamesInv'
  <2>1. UNCHANGED <<pkgs, versions, nameLocks>>
    BY <1>9 DEF TxFind
  <2>2. intake[c] \in BusyCreator
    BY <1>9, BusyType DEF TxFind, At, TypeOK
  <2>3. PICK row \in IF Managed(intake[c].name) THEN RowOf(intake[c].name) ELSE {NoRow} :
          Goto(c, [intake[c] EXCEPT !.pc = "save", !.row = row])
    BY <1>9 DEF TxFind
  <2> DEFINE new == [intake[c] EXCEPT !.pc = "save", !.row = row]
  <2>4. new.pc = "save" /\ new.row = row /\ new.name = intake[c].name
    BY <2>2 DEF BusyCreator
  <2>5. new.row # NoRow => new.row \in DOMAIN pkgs /\ pkgs[new.row].name = new.name
    BY <2>3, <2>4 DEF RowOf
  <2>6. Goto(c, new)
    BY <2>3
  <2> HIDE DEF new
  <2> QED
    BY <2>1, <2>4, <2>5, <2>6, NamesGoto
<1> QED
  BY <1>2, <1>3, <1>4, <1>5, <1>6, <1>7, <1>8, <1>9, <1>10, NamesSave, NamesCommit
    DEF SchedulerStep, CliStep, Create

-----------------------------------------------------------------------------
(* Jobs.                                                                   *)

\* CreatePackage leaves the jobs there were with their package, and at most
\* skips them; the job it adds comes last.
LEMMA JobsKept ==
    ASSUME TypeOK, QueueInv, RowsInv, NamesInv, NEW c \in Creators, TxCommit(c)
    PROVE  /\ \A j \in DOMAIN jobs :
                /\ j \in DOMAIN jobs' /\ jobs'[j].version = jobs[j].version
                /\ JobPkg(j)' = JobPkg(j) /\ NameOf(j)' = NameOf(j)
                /\ \/ jobs'[j].status = jobs[j].status
                   \/ jobs[j].status = "pending" /\ jobs'[j].status = "skipped"
           /\ \A k \in DOMAIN jobs' \ DOMAIN jobs :
                /\ k \in Nat /\ jobs'[k].status = "pending"
                /\ \A j \in DOMAIN jobs : j < k /\ jobs[j].version < jobs'[k].version
           /\ \A k, l \in DOMAIN jobs' \ DOMAIN jobs : k = l
<1>1. NamesInv' /\ \A k \in DOMAIN pkgs : k \in DOMAIN pkgs' /\ pkgs'[k].name = pkgs[k].name
  BY NamesCommit
<1>2. /\ Jobs
      /\ \A j \in DOMAIN jobs : j \in Nat /\ j < ids.job /\ jobs[j].version \in DOMAIN versions
      /\ \A v \in DOMAIN versions : v \in Nat /\ v < ids.version /\ versions[v].pkg \in DOMAIN pkgs
      /\ ids.version \in Nat /\ ids.job \in Nat
  BY DEF TypeOK, TablesTypeOK, IsTable, Jobs, QueueInv, IdsAreFresh, VersionsAndJobsPaired, NamesInv
<1>3. CASE ~IsNew(c)
  <2>1. UNCHANGED <<versions, jobs>>
    BY <1>3 DEF TxCommit
  <2> QED
    BY <1>1, <1>2, <2>1 DEF JobPkg, NameOf
<1>4. CASE IsNew(c)
  <2> DEFINE saved == IF intake[c].row # NoRow THEN intake[c].row ELSE ids.pkg
             skipped == WithStatus(Superseded(saved), "skipped")
  <2>1. /\ versions' = Insert(versions, ids.version, [pkg |-> saved, rev |-> intake[c].rev])
        /\ jobs' = Insert(skipped, ids.job,
                     [version |-> ids.version, status |-> "pending",
                      eligible |-> intake[c].eligible])
    BY <1>4, Zenon DEF TxCommit
  <2>2. /\ DOMAIN skipped = DOMAIN jobs
        /\ \A j \in DOMAIN jobs :
             /\ skipped[j].version = jobs[j].version
             /\ \/ skipped[j].status = jobs[j].status
                \/ jobs[j].status = "pending" /\ skipped[j].status = "skipped"
    <3>1. "skipped" \in Statuses
      BY DEF Statuses
    <3>2. \A j \in DOMAIN jobs :
            /\ skipped[j].version = jobs[j].version
            /\ skipped[j].status = IF j \in Superseded(saved) THEN "skipped" ELSE jobs[j].status
      BY <1>2, <3>1, WithStatusRows
    <3>3. \A j \in Superseded(saved) : jobs[j].status = "pending"
      BY DEF Superseded
    <3>4. DOMAIN skipped = DOMAIN jobs
      BY DEF WithStatus
    <3> QED
      BY <3>2, <3>3, <3>4
  <2> HIDE DEF saved, skipped
  <2>3. /\ DOMAIN jobs' = DOMAIN jobs \cup {ids.job}
        /\ jobs'[ids.job].status = "pending" /\ jobs'[ids.job].version = ids.version
        /\ \A j \in DOMAIN jobs : jobs'[j] = skipped[j]
    BY <1>2, <2>1, <2>2 DEF Insert
  <2>4. \A v \in DOMAIN versions : v \in DOMAIN versions' /\ versions'[v] = versions[v]
    BY <1>2, <2>1 DEF Insert
  <2>5. ASSUME NEW j \in DOMAIN jobs
        PROVE  JobPkg(j)' = JobPkg(j) /\ NameOf(j)' = NameOf(j)
    BY <1>1, <1>2, <2>2, <2>3, <2>4 DEF JobPkg, NameOf
  <2>6. \A k \in DOMAIN jobs' \ DOMAIN jobs : k = ids.job
    BY <2>3
  <2> QED
    BY <1>2, <2>2, <2>3, <2>5, <2>6
<1> QED
  BY <1>3, <1>4

\* What the creators do to jobs disturbs neither worker nor publisher.
LEMMA ServedFrame ==
    ASSUME TypeOK, ServedInv, HoldersInv, UNCHANGED <<worker, publisher, staging, files, repo>>,
           \A j \in DOMAIN jobs :
                /\ j \in DOMAIN jobs' /\ jobs'[j].version = jobs[j].version
                /\ JobPkg(j)' = JobPkg(j) /\ NameOf(j)' = NameOf(j)
                /\ \/ jobs'[j].status = jobs[j].status
                   \/ jobs[j].status = "pending" /\ jobs'[j].status = "skipped",
           \A k \in DOMAIN jobs' \ DOMAIN jobs :
                /\ k \in Nat /\ jobs'[k].status = "pending"
                /\ \A j \in DOMAIN jobs : j < k /\ jobs[j].version < jobs'[k].version,
           \A j, k \in DOMAIN jobs' \ DOMAIN jobs : j = k
    PROVE  /\ BuildsInOrder' /\ PublishesInOrder' /\ RepoInOrder'
           /\ PublishedIsServed' /\ MismatchIsUnpublished'
<1>1. /\ \A j \in DOMAIN jobs : j \in Nat
      /\ BuildsInOrder /\ PublishesInOrder /\ RepoInOrder /\ PublishedIsServed
      /\ MismatchIsUnpublished
  BY DEF ServedInv, TypeOK, TablesTypeOK, IsTable
<1>2. BuildsInOrder'
  <2>1. \A j, k \in DOMAIN jobs' :
          j < k /\ JobPkg(j)' = JobPkg(k)' => jobs'[j].version < jobs'[k].version
    BY <1>1 DEF BuildsInOrder
  <2>2. worker.pc # "idle" =>
          \A k \in DOMAIN jobs' : k > worker.job /\ JobPkg(k)' = JobPkg(worker.job) =>
            jobs'[k].status \in {"pending", "skipped"}
    BY <1>1 DEF BuildsInOrder
  <2>3. worker.pc # "idle" => worker.job \in DOMAIN jobs
    BY <1>1 DEF BuildsInOrder
  <2> QED
    BY <1>1, <2>1, <2>2, <2>3 DEF BuildsInOrder, Building
<1>3. PublishesInOrder'
  <2>1. InHand' = InHand /\ (publisher.pc # "idle" => publisher.job \in InHand)
    BY DEF InHand
  <2>2. ASSUME NEW k \in InHand, NEW j \in DOMAIN jobs', j < k, JobPkg(j)' = JobPkg(k)',
               jobs'[j].status = "built"
        PROVE  j \in InHand \/ PublishedLate(j)
    <3>1. k \in DOMAIN jobs /\ k \in Nat
      BY <1>1 DEF PublishesInOrder
    <3>2. j \in DOMAIN jobs
      BY <2>2
    <3> QED
      BY <1>1, <2>2, <3>1, <3>2 DEF PublishesInOrder
  <2>3. publisher.pc \in {"record", "add", "mark"} =>
          publisher.file[1] = NameOf(publisher.job) /\ publisher.job \in DOMAIN jobs
    BY <1>1, <2>1 DEF PublishesInOrder
  <2>4. InHand \subseteq DOMAIN jobs'
    BY <1>1 DEF PublishesInOrder
  <2>5. ASSUME NEW j \in DOMAIN jobs', NEW k \in DOMAIN jobs', j < k,
               JobPkg(j)' = JobPkg(k)',
               jobs'[j].status = "built", jobs'[k].status = "published"
        PROVE  PublishedLate(j)
    <3>1. j \in DOMAIN jobs /\ k \in DOMAIN jobs
      BY <2>5
    <3> QED
      BY <1>1, <2>5, <3>1 DEF PublishesInOrder
  <2> QED
    BY <1>1, <2>1, <2>2, <2>3, <2>4, <2>5 DEF PublishesInOrder, PublishedLate
<1>4. RepoInOrder'
  BY <1>1 DEF RepoInOrder, PublishedLate
<1>5. PublishedIsServed'
  BY <1>1 DEF PublishedIsServed, PublishedLate
<1>6. MismatchIsUnpublished'
  BY <1>1 DEF MismatchIsUnpublished, RepoInOrder
<1> QED
  BY <1>2, <1>3, <1>4, <1>5, <1>6

\* The worker starts the newest job of a package, and marks it before it
\* starts another.
LEMMA ServedWorker ==
    ASSUME TypeOK, QueueInv, HoldersInv, ServedInv, WorkerStep \/ WorkerCrash,
           UNCHANGED <<pkgs, versions, publisher, files, repo>>
    PROVE  /\ BuildsInOrder' /\ PublishesInOrder' /\ RepoInOrder'
           /\ PublishedIsServed' /\ MismatchIsUnpublished'
<1>1. /\ Jobs
      /\ \A j \in DOMAIN jobs : j \in Nat /\ jobs[j].version \in DOMAIN versions
      /\ \A v \in DOMAIN versions : v \in Nat /\ versions[v].pkg \in DOMAIN pkgs
      /\ \A k, l \in DOMAIN pkgs : pkgs[k].name = pkgs[l].name => k = l
  BY DEF TypeOK, TablesTypeOK, IsTable, Jobs, QueueInv, VersionsAndJobsPaired, ServedInv, NamesInv
<1>2. /\ BuildsInOrder /\ PublishesInOrder /\ RepoInOrder /\ PublishedIsServed
      /\ MismatchIsUnpublished /\ PendingIsNewest /\ PublisherHoldsItsJobs /\ ClaimHoldsItsJob
      /\ BuildHoldsItsJob
  BY DEF ServedInv, QueueInv, HoldersInv
<1>3. /\ DOMAIN jobs' = DOMAIN jobs
      /\ \A j \in DOMAIN jobs :
           /\ jobs'[j].version = jobs[j].version
           /\ \/ jobs'[j].status = jobs[j].status
              \/ /\ j = worker.job /\ worker.pc # "idle"
                 /\ jobs[j].status \in {"pending", "skipped", "running"}
                 /\ jobs'[j].status \in {"skipped", "running", "built", "failed"}
  <2>1. CASE UNCHANGED jobs
    BY <2>1
  <2>2. CASE ~UNCHANGED jobs
    <3>1. PICK s \in {"skipped", "running", "built", "failed"} :
            /\ jobs' = WithStatus({worker.job}, s) /\ worker.job \in DOMAIN jobs
            /\ worker.pc # "idle" /\ jobs[worker.job].status \in {"pending", "skipped", "running"}
      <4>1. CASE ClaimSkip
        BY <1>2, <2>2, <4>1 DEF ClaimSkip, MarkJob, ClaimHoldsItsJob
      <4>2. CASE ClaimTake
        BY <1>2, <2>2, <4>2 DEF ClaimTake, ClaimHoldsItsJob
      <4>3. CASE MarkBuild
        BY <1>2, <2>2, <4>3 DEF MarkBuild, MarkJob, BuildHoldsItsJob, Building
      <4>4. ClaimSkip \/ ClaimTake \/ MarkBuild
        <5>1. ClaimSelect \/ ClaimCheck => UNCHANGED jobs
          BY Zenon DEF ClaimSelect, ClaimCheck, tables
        <5>2. BuildStart \/ BuildSucceeds \/ BuildFails \/ WorkerCrash => UNCHANGED jobs
          BY Zenon DEF BuildStart, BuildSucceeds, BuildFails, WorkerCrash, tables
        <5> QED
          BY <2>2, <5>1, <5>2 DEF WorkerStep
      <4> QED
        BY <4>1, <4>2, <4>3, <4>4
    <3>2. s \in Statuses /\ DOMAIN jobs' = DOMAIN jobs
      BY <3>1 DEF Statuses, WithStatus
    <3>3. \A j \in DOMAIN jobs :
            /\ jobs'[j].version = jobs[j].version
            /\ jobs'[j].status = IF j \in {worker.job} THEN s ELSE jobs[j].status
      BY <1>1, <3>1, <3>2, WithStatusRows
    <3> QED
      BY <3>1, <3>2, <3>3
  <2> QED
    BY <2>1, <2>2
<1>4. \A j \in DOMAIN jobs : JobPkg(j)' = JobPkg(j) /\ NameOf(j)' = NameOf(j)
  BY <1>3 DEF JobPkg, NameOf
<1>5. BuildsInOrder'
  <2>1. \A j, k \in DOMAIN jobs' :
          j < k /\ JobPkg(j)' = JobPkg(k)' => jobs'[j].version < jobs'[k].version
    BY <1>2, <1>3, <1>4 DEF BuildsInOrder
  <2>2. worker'.pc # "idle" =>
          /\ worker'.job \in DOMAIN jobs /\ worker'.version = jobs[worker'.job].version
          /\ worker'.pc # "check" => worker'.row = JobPkg(worker'.job)
          /\ Building' => worker'.name = NameOf(worker'.job)
          /\ \A k \in DOMAIN jobs : k > worker'.job /\ JobPkg(k) = JobPkg(worker'.job) =>
              jobs'[k].status \in {"pending", "skipped"}
    <3>0. WorkerTypeOK
      BY DEF TypeOK
    <3>1. CASE ClaimSelect
      <4>1. PICK j \in Due : worker' = [worker EXCEPT !.pc = "check", !.job = j,
                                          !.version = jobs[j].version]
        BY <3>1, Zenon DEF ClaimSelect
      <4>2. worker'.pc = "check" /\ worker'.job = j /\ worker'.version = jobs[j].version
        BY <3>0, <4>1 DEF WorkerTypeOK
      <4>3. j \in DOMAIN jobs /\ IsLatest(jobs[j].version)
        BY <1>2 DEF Due, PendingIsNewest
      <4>4. ASSUME NEW k \in DOMAIN jobs, k > j, JobPkg(k) = JobPkg(j) PROVE FALSE
        <5>1. jobs[j].version < jobs[k].version
          BY <1>1, <1>2, <4>3, <4>4 DEF BuildsInOrder
        <5>2. jobs[k].version <= jobs[j].version
          BY <1>1, <4>3, <4>4 DEF IsLatest, VersionsOf, JobPkg
        <5> QED
          BY <1>1, <4>3, <5>1, <5>2
      <4> QED
        BY <4>2, <4>3, <4>4 DEF Building
    <3>2. CASE worker' = IdleWorker
      BY <3>2 DEF IdleWorker
    <3>3. CASE /\ worker'.job = worker.job /\ worker'.version = worker.version
               /\ worker.pc # "idle" /\ worker'.row = JobPkg(worker.job)
               /\ Building' => worker'.name = NameOf(worker.job)
               /\ jobs'[worker.job].status = jobs[worker.job].status
                  \/ jobs'[worker.job].status \in {"running", "skipped"}
      <4>1. \A k \in DOMAIN jobs : k > worker.job => jobs'[k].status = jobs[k].status
        BY <1>1, <1>2, <1>3, <3>3 DEF BuildsInOrder
      <4> QED
        BY <1>2, <3>3, <4>1 DEF BuildsInOrder
    <3>4. CASE ClaimCheck
      <4>1. worker' = IdleWorker
            \/ /\ worker.pc = "check" /\ worker'.pc \in {"claim", "skip"}
               /\ worker'.job = worker.job /\ worker'.version = worker.version
               /\ worker'.row = versions[worker.version].pkg /\ jobs' = jobs
        BY <3>0, <3>4 DEF ClaimCheck, WorkerTypeOK, tables
      <4> QED
        BY <1>2, <3>2, <3>3, <4>1 DEF Building, BuildsInOrder, JobPkg
    <3>5. CASE ClaimTake
      <4>1. CASE worker' = IdleWorker
        BY <3>2, <4>1
      <4>2. CASE worker' # IdleWorker
        <5>1. /\ worker.pc = "claim" /\ worker.job \in DOMAIN jobs
              /\ jobs' = WithStatus({worker.job}, "running")
              /\ worker'.job = worker.job /\ worker'.version = worker.version
              /\ worker'.row = worker.row /\ worker'.name = pkgs[worker.row].name
          BY <3>0, <3>5, <4>2 DEF ClaimTake, WorkerTypeOK
        <5>2. worker.row = JobPkg(worker.job)
          BY <1>2, <5>1 DEF BuildsInOrder
        <5>3. jobs'[worker.job].status = "running"
          BY <1>1, <5>1, MarkedStatus DEF Statuses
        <5> QED
          BY <3>3, <5>1, <5>2, <5>3 DEF NameOf
      <4> QED
        BY <4>1, <4>2
    <3>6. CASE BuildStart \/ BuildSucceeds \/ BuildFails
      <4>1. /\ Building /\ worker'.job = worker.job /\ worker'.version = worker.version
            /\ worker'.row = worker.row /\ worker'.name = worker.name /\ jobs' = jobs
        BY <3>0, <3>6 DEF BuildStart, BuildSucceeds, BuildFails, WorkerTypeOK, Building, tables
      <4> QED
        BY <1>2, <3>3, <4>1 DEF BuildsInOrder, Building
    <3> QED
      BY <3>1, <3>2, <3>4, <3>5, <3>6
        DEF WorkerStep, WorkerCrash, ClaimSkip, MarkBuild
  <2>3. \A j \in DOMAIN staging' : j \in DOMAIN jobs /\ staging'[j][1] = NameOf(j)
    <3>1. CASE UNCHANGED staging
      BY <1>2, <3>1 DEF BuildsInOrder
    <3>2. CASE ~UNCHANGED staging
      <4>0. BuildSucceeds
        <5>1. ClaimSelect \/ ClaimCheck \/ ClaimSkip \/ ClaimTake => UNCHANGED staging
          BY Zenon DEF ClaimSelect, ClaimCheck, ClaimSkip, ClaimTake, disk
        <5>2. BuildStart \/ BuildFails \/ MarkBuild \/ WorkerCrash => UNCHANGED staging
          BY Zenon DEF BuildStart, BuildFails, MarkBuild, WorkerCrash, disk
        <5> QED
          BY <3>2, <5>1, <5>2 DEF WorkerStep
      <4>1. /\ worker.pc = "build"
            /\ staging' = Insert(staging, worker.job, <<worker.name, FileVersion[worker.content]>>)
        BY <4>0 DEF BuildSucceeds
      <4>2. worker.job \in DOMAIN jobs /\ worker.name = NameOf(worker.job)
        BY <1>2, <4>1 DEF BuildsInOrder, Building
      <4> QED
        BY <1>2, <4>1, <4>2 DEF BuildsInOrder, Insert
    <3> QED
      BY <3>1, <3>2
  <2>4. worker'.pc # "idle" =>
          /\ worker'.version = jobs'[worker'.job].version
          /\ worker'.pc # "check" => worker'.row = versions'[jobs'[worker'.job].version].pkg
          /\ Building' => worker'.name = pkgs'[versions'[jobs'[worker'.job].version].pkg].name
          /\ \A k \in DOMAIN jobs' :
              k > worker'.job
              /\ versions'[jobs'[k].version].pkg = versions'[jobs'[worker'.job].version].pkg =>
                jobs'[k].status \in {"pending", "skipped"}
    BY <1>3, <2>2 DEF JobPkg, NameOf
  <2>5. \A j \in DOMAIN staging' : j \in DOMAIN jobs' /\ staging'[j][1] = NameOf(j)'
    BY <1>3, <1>4, <2>3
  <2> QED
    BY <1>3, <2>1, <2>2, <2>4, <2>5 DEF BuildsInOrder, JobPkg, NameOf
<1>6. ASSUME NEW j \in DOMAIN jobs, jobs'[j].status = "built", jobs[j].status # "built",
             NEW k \in DOMAIN jobs, j < k, NameOf(j) = NameOf(k)
      PROVE  jobs[k].status \in {"pending", "skipped"}
  <2>1. j = worker.job /\ worker.pc # "idle"
    BY <1>3, <1>6
  <2>2. JobPkg(k) = JobPkg(j)
    BY <1>1, <1>6 DEF NameOf, JobPkg
  <2> QED
    BY <1>1, <1>2, <1>6, <2>1, <2>2 DEF BuildsInOrder
<1>7. PublishesInOrder'
  <2>1. InHand' = InHand /\ (publisher.pc # "idle" => publisher.job \in InHand)
    BY DEF InHand
  <2>2. \A k \in InHand : k \in DOMAIN jobs /\ jobs[k].status = "built"
    BY <1>2 DEF PublishesInOrder, PublisherHoldsItsJobs
  <2>3. ASSUME NEW k \in InHand, NEW j \in DOMAIN jobs, j < k, JobPkg(j) = JobPkg(k),
               jobs'[j].status = "built"
        PROVE  j \in InHand \/ PublishedLate(j)
    <3>1. jobs[j].status = "built"
      BY <1>6, <2>2, <2>3 DEF NameOf
    <3> QED
      BY <1>2, <2>3, <3>1 DEF PublishesInOrder
  <2>4. publisher.pc # "idle" => NameOf(publisher.job)' = NameOf(publisher.job)
    BY <1>4, <2>1, <2>2
  <2>5. ASSUME NEW j \in DOMAIN jobs, NEW k \in DOMAIN jobs, j < k, JobPkg(j) = JobPkg(k),
               jobs'[j].status = "built", jobs'[k].status = "published"
        PROVE  PublishedLate(j)
    <3>1. jobs[k].status = "published"
      BY <1>3, <2>5
    <3>2. jobs[j].status = "built"
      BY <1>6, <2>5, <3>1 DEF NameOf
    <3> QED
      BY <1>2, <2>5, <3>1, <3>2 DEF PublishesInOrder
  <2> QED
    BY <1>2, <1>3, <1>4, <2>1, <2>2, <2>3, <2>4, <2>5 DEF PublishesInOrder, PublishedLate
<1>8. RepoInOrder'
  <2>1. ASSUME NEW n \in DOMAIN repo, NEW j \in DOMAIN jobs, jobs'[j].status = "built",
               NameOf(j) = n
        PROVE  repo[n].job <= j \/ PublishedLate(j)
    <3>1. /\ repo[n].job \in DOMAIN jobs /\ NameOf(repo[n].job) = n
          /\ jobs[repo[n].job].status \in {"built", "published", "failed"}
      BY <1>2 DEF RepoInOrder
    <3>2. CASE jobs[j].status = "built"
      BY <1>2, <2>1, <3>2 DEF RepoInOrder
    <3>3. CASE jobs[j].status # "built"
      BY <1>1, <1>6, <2>1, <3>1, <3>3
    <3> QED
      BY <3>2, <3>3
  <2> QED
    BY <1>2, <1>3, <1>4, <2>1 DEF RepoInOrder, PublishedLate
<1>9. PublishedIsServed'
  BY <1>2, <1>3, <1>4 DEF PublishedIsServed, PublishedLate
<1>10. MismatchIsUnpublished'
  BY <1>2, <1>3 DEF MismatchIsUnpublished, RepoInOrder
<1> QED
  BY <1>5, <1>7, <1>8, <1>9, <1>10

\* The publisher takes what is built in order, and repo-add names the file it
\* has just copied: the entry is of the oldest built job of its package.
LEMMA ServedAdd ==
    ASSUME TypeOK, QueueInv, HoldersInv, ServedInv, PubAdd
    PROVE  LET n == publisher.file[1]
               k == publisher.job
           IN  /\ publisher.file \in DOMAIN files /\ n = NameOf(k) /\ k \in DOMAIN jobs
               /\ jobs[k].status = "built" /\ n \in Packages
               /\ repo' = Insert(repo, n, [file |-> publisher.file, job |-> k])
               /\ \E stale : /\ files' = Without(files, stale) /\ publisher.file \notin stale
                             /\ \A f \in stale : f[1] = n
               /\ \A j \in DOMAIN jobs : jobs[j].status = "built" /\ NameOf(j) = n =>
                    k <= j \/ PublishedLate(j)
               /\ \A j \in DOMAIN jobs : jobs[j].status = "published" /\ NameOf(j) = n =>
                    j <= k \/ PublishedLate(k)
               /\ n \in DOMAIN repo => repo[n].job <= k \/ PublishedLate(k)
               /\ publisher' = [publisher EXCEPT !.pc = "mark"]
<1> DEFINE n == publisher.file[1]
           k == publisher.job
           stale == IF n \in DOMAIN repo THEN {repo[n].file} \ {publisher.file} ELSE {}
<1>1. /\ PublishesInOrder /\ RepoInOrder /\ PublisherHoldsItsJobs /\ PublisherTypeOK
      /\ \A j \in DOMAIN jobs : j \in Nat /\ jobs[j].version \in DOMAIN versions
      /\ \A v \in DOMAIN versions : versions[v].pkg \in DOMAIN pkgs
      /\ \A i, l \in DOMAIN pkgs : pkgs[i].name = pkgs[l].name => i = l
  BY DEF ServedInv, HoldersInv, TypeOK, TablesTypeOK, IsTable, QueueInv, VersionsAndJobsPaired,
    NamesInv
<1>2. publisher.pc = "add" /\ k \in InHand
  BY DEF PubAdd, InHand
<1>3. /\ publisher.file \in DOMAIN files /\ files[publisher.file] = k /\ n = NameOf(k)
      /\ k \in DOMAIN jobs /\ jobs[k].status = "built"
  BY <1>1, <1>2 DEF PublishesInOrder, PublisherHoldsItsJobs
<1>4. n \in Packages
  BY <1>1, <1>2 DEF PublisherTypeOK, File
<1>5. /\ repo' = Insert(repo, n, [file |-> publisher.file, job |-> files[publisher.file]])
      /\ files' = Without(files, stale) /\ publisher' = [publisher EXCEPT !.pc = "mark"]
  BY <1>3, Zenon DEF PubAdd
<1>6. publisher.file \notin stale /\ \A f \in stale : f[1] = n
  BY <1>1 DEF RepoInOrder
<1>7. ASSUME NEW j \in DOMAIN jobs, jobs[j].status = "built", NameOf(j) = n
      PROVE  k <= j \/ PublishedLate(j)
  <2>1. JobPkg(j) = JobPkg(k)
    BY <1>1, <1>3, <1>7 DEF NameOf, JobPkg
  <2>2. j < k => j \in publisher.queue \/ PublishedLate(j)
    BY <1>1, <1>2, <1>7, <2>1 DEF PublishesInOrder, InHand
  <2>3. \A q \in publisher.queue : k < q
    BY <1>1, <1>2 DEF PublishesInOrder
  <2> QED
    BY <1>1, <1>3, <2>2, <2>3
<1>8. n \in DOMAIN repo => repo[n].job <= k \/ PublishedLate(k)
  BY <1>1, <1>3 DEF RepoInOrder
<1>9. ASSUME NEW j \in DOMAIN jobs, jobs[j].status = "published", NameOf(j) = n
      PROVE  j <= k \/ PublishedLate(k)
  <2>1. JobPkg(j) = JobPkg(k)
    BY <1>1, <1>3, <1>9 DEF NameOf, JobPkg
  <2> QED
    BY <1>1, <1>3, <1>9, <2>1 DEF PublishesInOrder
<1> HIDE DEF stale
<1> QED
  BY <1>3, <1>4, <1>5, <1>6, <1>7, <1>8, <1>9

\* What is in hand is built, and no other job is marked.
LEMMA ServedPublisher ==
    ASSUME TypeOK, QueueInv, HoldersInv, ServedInv, PublisherStep \/ PubFails \/ PubMarkFails \/ PubCrash,
           UNCHANGED <<pkgs, versions, worker, staging>>
    PROVE  /\ BuildsInOrder' /\ PublishesInOrder' /\ RepoInOrder'
           /\ PublishedIsServed' /\ MismatchIsUnpublished'
<1>1. /\ Jobs /\ PublisherTypeOK
      /\ \A j \in DOMAIN jobs : j \in Nat
      /\ BuildsInOrder /\ PublishesInOrder /\ RepoInOrder /\ PublishedIsServed
      /\ MismatchIsUnpublished /\ PublisherHoldsItsJobs
  BY DEF TypeOK, TablesTypeOK, IsTable, Jobs, ServedInv, HoldersInv
<1>2. publisher.pc # "idle" => publisher.job \in InHand
  BY DEF InHand
<1>3. \A k \in InHand : k \in DOMAIN jobs /\ jobs[k].status = "built"
  BY <1>1 DEF PublishesInOrder, PublisherHoldsItsJobs
<1>4. CASE PubMark
  <2> DEFINE s == IF publisher.pc = "mark" THEN "published" ELSE "failed"
  <2>1. /\ publisher.job \in InHand /\ s \in Statuses /\ UNCHANGED <<files, repo>>
        /\ jobs' = WithStatus({publisher.job}, s)
    BY <1>2, <1>3, <1>4 DEF PubMark, MarkJob, Statuses, published
  <2>0. UNCHANGED <<files, repo>>
    BY <2>1
  <2>2. publisher'.queue = publisher.queue /\ publisher'.pc = "idle"
        /\ publisher.job \notin publisher.queue /\ publisher'.unmarked = publisher.unmarked
    BY <1>1, <1>4 DEF PubMark, NextInList, PublisherTypeOK, PublisherHoldsItsJobs
  <2>3. /\ DOMAIN jobs' = DOMAIN jobs
        /\ \A j \in DOMAIN jobs :
             /\ jobs'[j].version = jobs[j].version
             /\ jobs'[j].status = IF j = publisher.job THEN s ELSE jobs[j].status
    <3>1. \A j \in DOMAIN jobs :
            /\ jobs'[j].version = jobs[j].version
            /\ jobs'[j].status = IF j \in {publisher.job} THEN s ELSE jobs[j].status
      BY <1>1, <2>1, WithStatusRows
    <3> QED
      BY <2>1, <3>1 DEF WithStatus
  <2>4. \A j \in DOMAIN jobs : JobPkg(j)' = JobPkg(j) /\ NameOf(j)' = NameOf(j)
    BY <2>3 DEF JobPkg, NameOf
  <2>5. s # "built" /\ s \in {"published", "failed"}
        /\ (s = "published" => publisher.pc = "mark")
    OBVIOUS
  <2> HIDE DEF s
  <2>6. BuildsInOrder'
    <3>1. worker.pc # "idle" => worker.job \in DOMAIN jobs
          /\ \A k \in DOMAIN jobs : k > worker.job /\ JobPkg(k) = JobPkg(worker.job) =>
              jobs[k].status \in {"pending", "skipped"} /\ k # publisher.job
      BY <1>1, <1>3, <2>1 DEF BuildsInOrder
    <3> QED
      BY <1>1, <2>3, <2>4, <3>1 DEF BuildsInOrder, Building
  <2>7. PublishesInOrder'
    <3>1. InHand' = InHand \ {publisher.job}
      BY <1>4, <2>2 DEF InHand, PubMark
    <3>2. ASSUME NEW k \in InHand, NEW j \in DOMAIN jobs, j < k, JobPkg(j) = JobPkg(k),
                 jobs'[j].status = "built"
          PROVE  j \in InHand \ {publisher.job} \/ PublishedLate(j)
      BY <1>1, <2>3, <2>5, <3>2 DEF PublishesInOrder
    <3>3. ASSUME NEW j \in DOMAIN jobs, NEW k \in DOMAIN jobs, j < k, JobPkg(j) = JobPkg(k),
                 jobs'[j].status = "built", jobs'[k].status = "published"
          PROVE  PublishedLate(j)
      <4>1. j # publisher.job /\ jobs[j].status = "built"
        BY <2>3, <2>5, <3>3
      <4>2. CASE k # publisher.job
        BY <1>1, <2>3, <3>3, <4>1, <4>2 DEF PublishesInOrder
      <4>3. CASE k = publisher.job
        <5>1. j \in publisher.queue \/ PublishedLate(j)
          BY <1>1, <2>1, <3>3, <4>1, <4>3 DEF PublishesInOrder, InHand
        <5>2. \A q \in publisher.queue : publisher.job < q
          BY <1>1, <1>4 DEF PublishesInOrder, PubMark
        <5> QED
          BY <1>1, <3>3, <4>3, <5>1, <5>2
      <4> QED
        BY <4>2, <4>3
    <3> QED
      BY <1>3, <2>2, <2>3, <2>4, <3>1, <3>2, <3>3 DEF PublishesInOrder, PublishedLate
  <2>8. RepoInOrder'
    <3>1. \A f \in DOMAIN files : files[f] \in DOMAIN jobs /\ f[1] = NameOf(files[f])
      BY <1>1 DEF RepoInOrder
    <3>2. ASSUME NEW n \in DOMAIN repo
          PROVE  /\ repo[n].file[1] = n /\ repo[n].job \in DOMAIN jobs
                 /\ NameOf(repo[n].job) = n
                 /\ jobs'[repo[n].job].status \in {"built", "published", "failed"}
                 /\ \A j \in DOMAIN jobs :
                      jobs'[j].status = "built" /\ NameOf(j) = n =>
                        repo[n].job <= j \/ PublishedLate(j)
      BY <1>1, <2>3, <2>5 DEF RepoInOrder
    <3> QED
      BY <2>0, <2>2, <2>3, <2>4, <3>1, <3>2 DEF RepoInOrder, PublishedLate
  <2>9. s = "published" => NameOf(publisher.job) \in DOMAIN repo
                           /\ repo[NameOf(publisher.job)].job = publisher.job
    BY <1>1, <2>5 DEF PublishesInOrder
  <2>10. PublishedIsServed'
    <3>1. ASSUME NEW j \in DOMAIN jobs, jobs'[j].status = "published"
          PROVE  /\ NameOf(j) \in DOMAIN repo
                 /\ repo[NameOf(j)].job >= j \/ PublishedLate(repo[NameOf(j)].job)
      BY <1>1, <2>3, <2>9, <3>1 DEF PublishedIsServed
    <3> QED
      BY <2>0, <2>2, <2>3, <2>4, <3>1 DEF PublishedIsServed, PublishedLate
  <2>11. MismatchIsUnpublished'
    <3>1. ASSUME NEW n \in DOMAIN repo
          PROVE  /\ repo[n].file \in DOMAIN files
                 /\ \/ files[repo[n].file] = repo[n].job
                    \/ jobs'[files[repo[n].file]].status \in {"built", "failed"}
      <4> DEFINE f == repo[n].file
      <4>1. /\ f \in DOMAIN files /\ f[1] = n /\ files[f] \in DOMAIN jobs
            /\ n = NameOf(files[f])
            /\ files[f] = repo[n].job \/ jobs[files[f]].status \in {"built", "failed"}
        BY <1>1 DEF MismatchIsUnpublished, RepoInOrder
      <4> QED
        BY <2>3, <2>5, <2>9, <4>1
    <3> QED
      BY <2>0, <3>1 DEF MismatchIsUnpublished
  <2> QED
    BY <2>6, <2>7, <2>8, <2>10, <2>11
<1>5. CASE ~PubMark
  <2>1. UNCHANGED jobs
    BY <1>5 DEF PublisherStep, PubFails, PubMarkFails, PubCrash, PubList, PubCopy,
      PubRecord, PubAdd, tables
  <2>2. \A j \in DOMAIN jobs : JobPkg(j)' = JobPkg(j) /\ NameOf(j)' = NameOf(j)
    BY <2>1 DEF JobPkg, NameOf
  <2>3. BuildsInOrder'
    BY <1>1, <2>1, <2>2 DEF BuildsInOrder, Building, JobPkg, NameOf
  <2>4. CASE PubList \/ PubRecord \/ PubFails \/ PubMarkFails \/ PubCrash
    <3>1. UNCHANGED <<files, repo>>
      BY <2>4 DEF PubList, PubRecord, PubFails, PubMarkFails, PubCrash, published
    <3>0. publisher.unmarked \subseteq publisher'.unmarked
      <4>1. PubList \/ PubRecord \/ PubFails => publisher'.unmarked = publisher.unmarked
        BY <1>1 DEF PubList, PubRecord, PubFails, PublisherTypeOK
      <4>2. PubCrash => publisher'.unmarked = publisher.unmarked
        BY <1>1 DEF PubCrash, NextInList, PublisherTypeOK
      <4>3. PubMarkFails => publisher'.unmarked = publisher.unmarked \cup {publisher.job}
        BY <1>1 DEF PubMarkFails, NextInList, PublisherTypeOK
      <4> QED
        BY <2>4, <4>1, <4>2, <4>3
    <3>2. RepoInOrder' /\ PublishedIsServed' /\ MismatchIsUnpublished'
      <4>1. \A j : PublishedLate(j) => PublishedLate(j)'
        BY <3>0 DEF PublishedLate
      <4>2. RepoInOrder'
        BY <1>1, <2>1, <2>2, <3>1, <4>1 DEF RepoInOrder
      <4>3. PublishedIsServed'
        BY <1>1, <2>1, <2>2, <3>1, <4>1 DEF PublishedIsServed
      <4>4. MismatchIsUnpublished'
        BY <1>1, <2>1, <3>1 DEF MismatchIsUnpublished
      <4> QED
        BY <4>2, <4>3, <4>4
    <3>3. PublishesInOrder'
      <4>0. \A j, k \in DOMAIN jobs' :
              /\ j < k /\ JobPkg(j)' = JobPkg(k)'
              /\ jobs'[j].status = "built" /\ jobs'[k].status = "published"
              => PublishedLate(j)'
        BY <1>1, <2>1, <2>2, <3>0 DEF PublishesInOrder, PublishedLate
      <4>1. CASE PubList
        <5>1. publisher'.pc = "idle" /\ InHand' = BuiltJobs
          BY <1>1, <4>1 DEF PubList, PublisherTypeOK, InHand
        <5> QED
          BY <2>1, <4>0, <5>1 DEF PublishesInOrder, BuiltJobs
      <4>2. CASE PubRecord \/ PubFails
        <5>1. /\ publisher'.queue = publisher.queue /\ publisher'.job = publisher.job
              /\ publisher'.file = publisher.file /\ publisher.pc # "idle"
              /\ publisher'.unmarked = publisher.unmarked
              /\ \/ publisher.pc = "record" /\ publisher'.pc = "add"
                 \/ publisher'.pc = "fail"
          BY <1>1, <4>2 DEF PubRecord, PubFails, PublisherTypeOK
        <5>2. InHand' = InHand
          BY <5>1 DEF InHand
        <5> QED
          BY <1>1, <1>2, <1>3, <2>1, <2>2, <3>1, <4>0, <5>1, <5>2
            DEF PublishesInOrder, PublishedLate
      <4>3. CASE PubCrash
        <5>1. publisher'.pc = "idle" /\ InHand' = {}
          BY <1>1, <4>3 DEF PubCrash, NextInList, PublisherTypeOK, InHand
        <5> QED
          BY <4>0, <5>1 DEF PublishesInOrder
      <4>4. CASE PubMarkFails
        <5>1. /\ publisher'.pc = "idle" /\ publisher'.queue = publisher.queue
              /\ publisher'.unmarked = publisher.unmarked \cup {publisher.job}
              /\ publisher.pc # "idle"
          BY <1>1, <4>4 DEF PubMarkFails, NextInList, PublisherTypeOK
        <5>2. InHand' = publisher.queue /\ InHand = publisher.queue \cup {publisher.job}
          BY <5>1 DEF InHand
        <5>3. ASSUME NEW k \in InHand', NEW j \in DOMAIN jobs, j < k, JobPkg(j) = JobPkg(k),
                     jobs[j].status = "built"
              PROVE  j \in InHand' \/ PublishedLate(j)'
          <6>1. j \in InHand \/ PublishedLate(j)
            BY <1>1, <5>2, <5>3 DEF PublishesInOrder
          <6> QED
            BY <5>1, <5>2, <6>1 DEF PublishedLate
        <5> QED
          BY <1>3, <2>1, <2>2, <4>0, <5>1, <5>2, <5>3 DEF PublishesInOrder
      <4> QED
        BY <2>4, <4>1, <4>2, <4>3, <4>4
    <3> QED
      BY <2>3, <3>2, <3>3
  <2>5. CASE PubCopy
    <3>1. PICK j \in publisher.queue :
            /\ IsLowest(j) /\ publisher.pc = "idle" /\ repo' = repo
            /\ publisher'.queue = publisher.queue \ {j} /\ publisher'.job = j
            /\ publisher'.unmarked = publisher.unmarked
            /\ \/ /\ j \in DOMAIN staging /\ files' = Insert(files, staging[j], j)
                  /\ publisher'.pc = "record" /\ publisher'.file = staging[j]
               \/ publisher'.pc = "fail" /\ files' = files
      BY <1>1, <2>5 DEF PubCopy, PublisherTypeOK, published
    <3>2. InHand' = InHand /\ j \in InHand
      BY <3>1 DEF InHand
    <3>3. j \in DOMAIN jobs /\ jobs[j].status = "built"
          /\ (j \in DOMAIN staging => staging[j][1] = NameOf(j))
      BY <1>1, <1>3, <3>2 DEF BuildsInOrder
    <3>4. PublishesInOrder'
      <4>1. \A q \in publisher'.queue : j < q
        BY <1>1, <1>3, <3>1, <3>2 DEF IsLowest, InHand
      <4>2. publisher'.pc = "record" =>
              publisher'.file \in DOMAIN files' /\ files'[publisher'.file] = j
        BY <3>1 DEF Insert
      <4> QED
        BY <1>1, <1>3, <2>1, <2>2, <3>1, <3>2, <3>3, <4>1, <4>2
          DEF PublishesInOrder, PublishedLate
    <3>5. \A f \in DOMAIN files' :
            \/ f \in DOMAIN files /\ files'[f] = files[f]
            \/ files'[f] = j /\ f[1] = NameOf(j)
      BY <3>1, <3>3 DEF Insert
    <3>6. RepoInOrder'
      BY <1>1, <2>1, <2>2, <3>1, <3>3, <3>5 DEF RepoInOrder, PublishedLate
    <3>7. PublishedIsServed'
      BY <1>1, <2>1, <2>2, <3>1 DEF PublishedIsServed, PublishedLate
    <3>8. MismatchIsUnpublished'
      <4>1. DOMAIN files \subseteq DOMAIN files'
        BY <3>1 DEF Insert
      <4> QED
        BY <1>1, <2>1, <3>1, <3>3, <3>5, <4>1 DEF MismatchIsUnpublished
    <3> QED
      BY <2>3, <3>4, <3>6, <3>7, <3>8
  <2>6. CASE PubAdd
    <3> DEFINE n == publisher.file[1]
               k == publisher.job
    <3>1. /\ publisher.file \in DOMAIN files /\ n = NameOf(k) /\ k \in DOMAIN jobs
          /\ jobs[k].status = "built"
          /\ repo' = Insert(repo, n, [file |-> publisher.file, job |-> k])
          /\ \A j \in DOMAIN jobs : jobs[j].status = "built" /\ NameOf(j) = n =>
               k <= j \/ PublishedLate(j)
          /\ \A j \in DOMAIN jobs : jobs[j].status = "published" /\ NameOf(j) = n =>
               j <= k \/ PublishedLate(k)
          /\ publisher' = [publisher EXCEPT !.pc = "mark"]
      BY <2>6, ServedAdd
    <3>2. PICK stale : /\ files' = Without(files, stale) /\ publisher.file \notin stale
                       /\ \A f \in stale : f[1] = n
      BY <2>6, ServedAdd
    <3>3. files[publisher.file] = k /\ publisher.pc = "add"
      BY <1>1, <2>6 DEF PublishesInOrder, PubAdd
    <3>4. /\ publisher'.queue = publisher.queue /\ publisher'.job = k /\ publisher'.pc = "mark"
          /\ publisher'.file = publisher.file /\ publisher'.unmarked = publisher.unmarked
      BY <1>1, <3>1 DEF PublisherTypeOK
    <3>5. /\ DOMAIN repo' = DOMAIN repo \cup {n}
          /\ repo'[n].file = publisher.file /\ repo'[n].job = k
          /\ \A m \in DOMAIN repo \ {n} : repo'[m] = repo[m]
      BY <3>1 DEF Insert
    <3>6. /\ DOMAIN files' = DOMAIN files \ stale
          /\ \A f \in DOMAIN files' : files'[f] = files[f]
      BY <3>2 DEF Without, Restrict
    <3> HIDE DEF n, k
    <3>7. PublishesInOrder'
      <4>1. InHand' = InHand
        BY <3>3, <3>4 DEF InHand, k
      <4> QED
        BY <1>1, <1>2, <1>3, <2>1, <2>2, <3>1, <3>3, <3>4, <3>5, <4>1
          DEF PublishesInOrder, PublishedLate, n, k
    <3>8. RepoInOrder'
      <4>1. \A f \in DOMAIN files' : files'[f] \in DOMAIN jobs /\ f[1] = NameOf(files'[f])
        BY <1>1, <3>6 DEF RepoInOrder
      <4>2. repo'[n].file[1] = n
        BY <3>5 DEF n
      <4>3. ASSUME NEW m \in DOMAIN repo'
            PROVE  /\ repo'[m].file[1] = m /\ repo'[m].job \in DOMAIN jobs
                   /\ NameOf(repo'[m].job) = m
                   /\ jobs[repo'[m].job].status \in {"built", "published", "failed"}
                   /\ \A j \in DOMAIN jobs :
                        jobs[j].status = "built" /\ NameOf(j) = m =>
                          repo'[m].job <= j \/ PublishedLate(j)
        BY <1>1, <3>1, <3>5, <4>2 DEF RepoInOrder
      <4> QED
        BY <2>1, <2>2, <3>4, <4>1, <4>3 DEF RepoInOrder, PublishedLate
    <3>9. PublishedIsServed'
      <4>1. ASSUME NEW j \in DOMAIN jobs, jobs[j].status = "published"
            PROVE  /\ NameOf(j) \in DOMAIN repo'
                   /\ repo'[NameOf(j)].job >= j \/ PublishedLate(repo'[NameOf(j)].job)
        <5>1. /\ NameOf(j) \in DOMAIN repo
              /\ repo[NameOf(j)].job >= j \/ PublishedLate(repo[NameOf(j)].job)
          BY <1>1, <4>1 DEF PublishedIsServed
        <5>2. NameOf(j) = n => k >= j \/ PublishedLate(k)
          BY <1>1, <3>1, <4>1
        <5> QED
          BY <3>5, <5>1, <5>2
      <4> QED
        BY <2>1, <2>2, <3>4, <4>1 DEF PublishedIsServed, PublishedLate
    <3>10. MismatchIsUnpublished'
      <4>1. ASSUME NEW m \in DOMAIN repo'
            PROVE  /\ repo'[m].file \in DOMAIN files'
                   /\ \/ files'[repo'[m].file] = repo'[m].job
                      \/ jobs[files'[repo'[m].file]].status \in {"built", "failed"}
        <5>1. CASE m = n
          BY <3>1, <3>2, <3>3, <3>5, <3>6, <5>1
        <5>2. CASE m # n
          <6>1. m \in DOMAIN repo /\ repo'[m] = repo[m] /\ repo[m].file \notin stale
            BY <1>1, <3>2, <3>5, <5>2 DEF RepoInOrder
          <6> QED
            BY <1>1, <3>6, <6>1 DEF MismatchIsUnpublished
        <5> QED
          BY <5>1, <5>2
      <4> QED
        BY <2>1, <4>1 DEF MismatchIsUnpublished
    <3> QED
      BY <2>3, <3>7, <3>8, <3>9, <3>10
  <2> QED
    BY <1>5, <2>4, <2>5, <2>6 DEF PublisherStep
<1> QED
  BY <1>4, <1>5

\* The creators, with whatever ends them early.
LEMMA ServedIntake ==
    ASSUME TypeOK, QueueInv, RowsInv, HoldersInv, ServedInv, UNCHANGED <<worker, publisher>>,
           \/ SchedulerStep \/ CliStep
           \/ \E c \in Creators : AbortCreate(c) \/ IntakeFails(c)
           \/ PollFails
    PROVE  /\ NamesInv' /\ BuildsInOrder' /\ PublishesInOrder' /\ RepoInOrder'
           /\ PublishedIsServed' /\ MismatchIsUnpublished'
<1>1. NamesInv
  BY DEF ServedInv
<1>2. NamesInv'
  BY <1>1, NamesIntake
<1>3. UNCHANGED <<staging, files, repo>>
  BY DEF SchedulerStep, CliStep, Create, PollList, PollCheck, PreviewAUR, PreviewClear,
    PreviewClone, PreviewRead, PreviewInspect, PreviewError, PreviewStep, CliPreview,
    CliDecline, Accept, TxFind, TxSave, TxCommit, AbortCreate, IntakeFails, PollFails,
    disk, published
<1>4. CASE UNCHANGED <<pkgs, versions, jobs>>
  BY <1>2, <1>3, <1>4, ServedFrame DEF JobPkg, NameOf
<1>5. CASE ~UNCHANGED <<pkgs, versions, jobs>>
  <2>1. PICK c \in Creators : TxCommit(c)
    BY <1>5 DEF SchedulerStep, CliStep, Create, Creators, PollList, PollCheck,
      PreviewAUR, PreviewClear, PreviewClone, PreviewRead, PreviewInspect, PreviewError,
      PreviewStep, CliPreview, CliDecline, Accept, TxFind, TxSave, AbortCreate,
      IntakeFails, PollFails, tables
  <2>2. /\ \A j \in DOMAIN jobs :
             /\ j \in DOMAIN jobs' /\ jobs'[j].version = jobs[j].version
             /\ JobPkg(j)' = JobPkg(j) /\ NameOf(j)' = NameOf(j)
             /\ \/ jobs'[j].status = jobs[j].status
                \/ jobs[j].status = "pending" /\ jobs'[j].status = "skipped"
        /\ \A k \in DOMAIN jobs' \ DOMAIN jobs :
             /\ k \in Nat /\ jobs'[k].status = "pending"
             /\ \A j \in DOMAIN jobs : j < k /\ jobs[j].version < jobs'[k].version
        /\ \A k, l \in DOMAIN jobs' \ DOMAIN jobs : k = l
    BY <1>1, <2>1, JobsKept
  <2> QED
    BY <1>2, <1>3, <2>2, ServedFrame
<1> QED
  BY <1>4, <1>5

\* The invariant is inductive while no remove command may start.
LEMMA ServedNext == IInv /\ RowsInv /\ ServedInv /\ [Next]_vars => ServedInv'
<1> SUFFICES ASSUME IInv, RowsInv, ServedInv, [Next]_vars PROVE ServedInv'
  OBVIOUS
<1> USE DEF IInv
<1>1. UNCHANGED remover /\ budget'.removals = 0
      /\ ~Removing /\ ~RmRepoFails /\ ~RmCrash /\ ~AbortRemove
  BY NothingRemoved
<1>2. RemoverAt("idle")' /\ NamesInv
  BY <1>1 DEF ServedInv, RemoverAt
<1> SUFFICES NamesInv' /\ BuildsInOrder' /\ PublishesInOrder' /\ RepoInOrder'
             /\ PublishedIsServed' /\ MismatchIsUnpublished'
  BY <1>1, <1>2 DEF ServedInv
<1>3. CASE /\ UNCHANGED <<worker, publisher>>
           /\ \/ SchedulerStep \/ CliStep
              \/ \E c \in Creators : AbortCreate(c) \/ IntakeFails(c)
              \/ PollFails
  BY <1>3, ServedIntake
<1>4. CASE Working \/ (WorkerCrash /\ UNCHANGED <<intakeVars, publisher, remover>>)
  <2>1. UNCHANGED <<pkgs, versions, nameLocks, publisher, files, repo, intake>>
    <3>1. Working => UNCHANGED <<pkgs, versions, nameLocks, files, repo>>
      BY DEF Working, WorkerStep, ClaimSelect, ClaimCheck, ClaimSkip, ClaimTake, BuildStart,
        BuildSucceeds, BuildFails, MarkBuild, tables, locks, published
    <3>2. WorkerCrash => UNCHANGED <<pkgs, versions, nameLocks, files, repo>>
      BY DEF WorkerCrash, tables, locks, published
    <3> QED
      BY <1>4, <3>1, <3>2 DEF Working, intakeVars
  <2>2. NamesInv'
    BY <1>2, <2>1, NamesSame
  <2> QED
    BY <1>4, <2>1, <2>2, ServedWorker DEF Working
<1>5. CASE Publishing \/ ((PubFails \/ PubMarkFails \/ PubCrash) /\ UNCHANGED <<intakeVars, worker, remover>>)
  <2>1. UNCHANGED <<pkgs, versions, nameLocks, worker, staging, intake>>
    <3>1. Publishing => UNCHANGED <<pkgs, versions, nameLocks, staging>>
      BY DEF Publishing, PublisherStep, PubList, PubCopy, PubRecord, PubAdd, PubMark, tables,
        locks, disk
    <3>2. PubFails \/ PubMarkFails \/ PubCrash => UNCHANGED <<pkgs, versions, nameLocks, staging>>
      BY DEF PubFails, PubMarkFails, PubCrash, tables, locks, disk
    <3> QED
      BY <1>5, <3>1, <3>2 DEF Publishing, intakeVars
  <2>2. NamesInv'
    BY <1>2, <2>1, NamesSame
  <2> QED
    BY <1>5, <2>1, <2>2, ServedPublisher DEF Publishing
<1>6. CASE Environment \/ UNCHANGED vars
  <2>1. UNCHANGED <<tables, locks, disk, published, intakeVars, worker, publisher>>
    BY <1>6 DEF Environment, Tick, Push, vars, store
  <2>2. NamesInv'
    BY <1>2, <2>1, NamesSame DEF tables, locks, intakeVars
  <2> QED
    BY <2>1, <2>2, ServedFrame DEF tables, disk, published, JobPkg, NameOf
<1> QED
  BY <1>1, <1>3, <1>4, <1>5, <1>6
    DEF Next, Scheduling, Commanding, Deadlock, Faults

\* The steps of ServedInit and ServedNext, put together.
LEMMA ServedCorrect == ASSUME MaxRemovals = 0 PROVE Spec => []ServedInv
<1>1. Init => ServedInv
  BY ServedInit
<1> QED
  BY <1>1, ServedNext, Inductive, RowsCorrect, PTL DEF Spec

\* While no remove command is given, what a published job has built is in the
\* repository until something newer of its package takes its place, or
\* something that is published late.
THEOREM Served == ASSUME MaxRemovals = 0 PROVE Spec => []PublishedIsServed
<1>1. ServedInv => PublishedIsServed
  BY DEF ServedInv
<1> QED
  BY <1>1, ServedCorrect, PTL

\* While no remove command is given, a file that is not the one its entry was
\* made for is of a job that is not published.
THEOREM MismatchUnpublished == ASSUME MaxRemovals = 0 PROVE Spec => []MismatchIsUnpublished
<1>1. ServedInv => MismatchIsUnpublished
  BY DEF ServedInv
<1> QED
  BY <1>1, ServedCorrect, PTL

\* An entry changes when repo-add runs, and then for a job that is no older, or
\* is published late.
LEMMA EntriesGoForward ==
    ASSUME IInv, ServedInv, [Next]_vars, NEW n \in DOMAIN repo \cap DOMAIN repo'
    PROVE  repo'[n].job >= repo[n].job \/ PublishedLate(repo'[n].job)
<1> USE DEF IInv
<1>1. repo[n].job \in Nat
  BY DEF TypeOK, DiskTypeOK, IsTable
<1>2. CASE PubAdd
  <2>1. /\ publisher.file[1] \in DOMAIN repo =>
             repo[publisher.file[1]].job <= publisher.job \/ PublishedLate(publisher.job)
        /\ repo' = Insert(repo, publisher.file[1], [file |-> publisher.file, job |-> publisher.job])
    BY <1>2, ServedAdd
  <2> QED
    BY <1>1, <2>1 DEF Insert
<1>3. CASE ~PubAdd
  <2>1. ~Removing /\ ~RmRepoFails /\ ~RmCrash /\ ~AbortRemove
    BY NothingRemoved
  <2>2. UNCHANGED repo
    <3>1. Scheduling \/ Commanding => UNCHANGED repo
      BY DEF Scheduling, Commanding, SchedulerStep, CliStep, Create, PollList,
        PollCheck, PreviewAUR, PreviewClear, PreviewClone, PreviewRead, PreviewInspect,
        PreviewError, PreviewStep, CliPreview, CliDecline, Accept, TxFind, TxSave,
        TxCommit, published
    <3>2. Working => UNCHANGED repo
      BY DEF Working, WorkerStep, ClaimSelect, ClaimCheck, ClaimSkip, ClaimTake, BuildStart,
        BuildSucceeds, BuildFails, MarkBuild, published
    <3>3. Publishing => UNCHANGED repo
      BY <1>3 DEF Publishing, PublisherStep, PubList, PubCopy, PubRecord, PubMark, published
    <3>4. Deadlock \/ Faults \/ Environment \/ UNCHANGED vars => UNCHANGED repo
      BY <2>1 DEF Deadlock, Faults, Environment, AbortCreate, IntakeFails, PollFails,
        WorkerCrash, PubFails, PubMarkFails, PubCrash, Tick, Push, vars, store,
        published
    <3> QED
      BY <2>1, <3>1, <3>2, <3>3, <3>4 DEF Next
  <2> QED
    BY <1>1, <2>2
<1> QED
  BY <1>2, <1>3

\* While no remove command is given, clients are offered an older build in
\* place of a newer one only when the older one is published late: after a
\* failure that RunPublisher could not mark and did not look at.
THEOREM NeverRollsBack == ASSUME MaxRemovals = 0 PROVE Spec => RepoNeverRollsBack
<1>1. IInv /\ ServedInv /\ [Next]_vars =>
        [\A n \in DOMAIN repo \cap DOMAIN repo' :
            repo'[n].job >= repo[n].job \/ PublishedLate(repo'[n].job)]_vars
  BY EntriesGoForward
<1> QED
  BY <1>1, ServedCorrect, Inductive, PTL DEF Spec, RepoNeverRollsBack
=============================================================================
