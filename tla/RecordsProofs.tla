---------------------------- MODULE RecordsProofs ----------------------------
(***************************************************************************)
(* What Records promises of the database, for every set of packages,       *)
(* revisions and files, any dependencies and delays, and any number of     *)
(* calls and faults.                                                       *)
(***************************************************************************)
EXTENDS Records, FiniteSetTheorems, SequenceTheorems, NaturalsInduction,
        WellFoundedInduction, TLAPS

-----------------------------------------------------------------------------
(* The inductive invariant.  Its parts are about a view d of the tables,   *)
(* which is db or tx, when n are the next ids and t is the time.           *)

\* Each row of a table has an id of its own that was given out.
IdsOK(table, n) == \A i \in DOMAIN table : i \in Nat /\ i < n /\ table[i].id = i

ArtifactsOK(table, n) ==
    /\ IdsOK(table, n)
    /\ \A i \in DOMAIN table : Artifacts!Fits(table[i])
    /\ \A i, k \in DOMAIN table :
        table[i].job_id = table[k].job_id /\ table[i].filename = table[k].filename => i = k

DependenciesOK(table, n) ==
    /\ IdsOK(table, n)
    /\ \A i \in DOMAIN table :
        Dependencies!Fits(table[i]) /\ table[i].dependency_kind \in Dependencies!Kinds
    /\ \A i, k \in DOMAIN table :
        /\ table[i].package_version_id = table[k].package_version_id
        /\ table[i].dependency_name = table[k].dependency_name
        => i = k

PackagesOK(table, n, t) ==
    /\ IdsOK(table, n)
    /\ \A i \in DOMAIN table :
        /\ ManagedPackages!Fits(table[i]) /\ table[i].source_kind \in ManagedPackages!Kinds
        /\ table[i].updated_at <= t
    /\ \A i, k \in DOMAIN table : table[i].name = table[k].name => i = k

\* Versions are seen one after the other, in the order of their ids.
VersionsOK(table, n, t) ==
    /\ IdsOK(table, n)
    /\ \A i \in DOMAIN table : PackageVersions!Fits(table[i]) /\ table[i].first_seen_at <= t
    /\ \A i, k \in DOMAIN table :
        /\ i < k => table[i].first_seen_at < table[k].first_seen_at
        /\ table[i].package_id = table[k].package_id /\ table[i].revision = table[k].revision
           => i = k

\* The columns of one job agree, and nothing of it happened after t.
ColumnsAgree(r) ==
    /\ r.attempts = (IF r.claimed_at = Null THEN 0 ELSE 1)
    /\ r.claimed_at = Null <=> r.status \in {"pending", "skipped"}
    /\ r.claimed_at # Null => r.eligible_at <= r.claimed_at
    /\ r.status = "pending" => r.finished_at = Null /\ r.error = Null
    /\ r.status = "running" => (r.finished_at = Null <=> r.error = Null)
    /\ r.log_path # Null <=> r.status \in {"built", "published", "failed"}
    /\ r.log_path # Null => r.finished_at > r.claimed_at
    /\ r.status \in {"built", "published"} => r.error \in {Null, "superseded"}
    /\ r.status \in {"failed", "skipped"} => r.error # Null

JobOK(r, t) ==
    /\ Jobs!Fits(r) /\ r.status \in Jobs!Statuses
    /\ ColumnsAgree(r)
    /\ r.eligible_at # Null
    /\ r.claimed_at # Null => r.claimed_at <= t
    /\ r.finished_at # Null => r.finished_at <= t
    /\ r.log_path # Null \/ r.status = "skipped" => r.finished_at # Null
    /\ r.status # "failed" => r.error \in {Null, "superseded"}

JobsOK(table, n, t) == IdsOK(table, n) /\ \A i \in DOMAIN table : JobOK(table[i], t)

View(d, n, t) ==
    /\ DOMAIN d = Tables
    /\ ArtifactsOK(d.artifacts, n.artifacts)
    /\ DependenciesOK(d.dependencies, n.dependencies)
    /\ JobsOK(d.jobs, n.jobs, t)
    /\ PackagesOK(d.packages, n.packages, t)
    /\ VersionsOK(d.versions, n.versions, t)

\* What a row refers to is there.
RefersWithin(d) ==
    /\ \A i \in DOMAIN d.artifacts : d.artifacts[i].job_id \in DOMAIN d.jobs
    /\ \A i \in DOMAIN d.dependencies : d.dependencies[i].package_version_id \in DOMAIN d.versions
    /\ \A i \in DOMAIN d.jobs : d.jobs[i].package_version_id \in DOMAIN d.versions
    /\ \A i \in DOMAIN d.versions : d.versions[i].package_id \in DOMAIN d.packages

JobsOf(table, v) == {i \in DOMAIN table : table[i].package_version_id = v}
Needed(table, v) ==
    {<<table[i].dependency_name, table[i].dependency_kind>> :
        i \in {k \in DOMAIN table : table[k].package_version_id = v}}
Pairs(s) == {<<d.name, depKind(d.aur)>> : d \in ToSet(s)}

\* A version has one job and its dependencies, a package has a version; but
\* those that a transaction is at work on may not.
VersionIsWhole(d, v) ==
    /\ \E j \in DOMAIN d.jobs : JobsOf(d.jobs, v) = {j}
    /\ Needed(d.dependencies, v) = Pairs(Deps[d.versions[v].revision])
WholeBut(d, versions, packages) ==
    /\ RefersWithin(d)
    /\ \A v \in DOMAIN d.versions \ versions : VersionIsWhole(d, v)
    /\ \A k \in DOMAIN d.packages \ packages : \E v \in DOMAIN d.versions : d.versions[v].package_id = k

\* What the rows that two views share have in common, when e comes after d.
Keeps(d, e) ==
    /\ \A k \in DOMAIN d.packages \cap DOMAIN e.packages :
        LET old == d.packages[k] new == e.packages[k]
        IN  /\ new.created_at = old.created_at /\ new.name = old.name
            /\ new.source_path # old.source_path => new.updated_at > old.updated_at
    /\ \A v \in DOMAIN d.versions \cap DOMAIN e.versions : e.versions[v] = d.versions[v]
    /\ \A j \in DOMAIN d.jobs \cap DOMAIN e.jobs :
        /\ e.jobs[j].created_at = d.jobs[j].created_at
        /\ e.jobs[j].attempts >= d.jobs[j].attempts

\* What a transaction may see differently, in a job that is there as well: that
\* it is superseded.
Follows(d, e) ==
    \A j \in DOMAIN d.jobs \cap DOMAIN e.jobs :
        /\ e.jobs[j].eligible_at = d.jobs[j].eligible_at
        /\ \/ e.jobs[j].status = d.jobs[j].status
           \/ d.jobs[j].status = "pending" /\ e.jobs[j].status = "skipped"
Sees(d, e) == Keeps(d, e) /\ Follows(d, e)

\* The locals of the calls.
Dependency == [name : STRING, aur : BOOLEAN]
Idles == [fn : {"none"}, err : {"none", "not_found", "running"}]
Creations ==
    [fn : {"create"}, pc : {"managed", "version", "dependencies", "skip", "job", "commit"},
     name : Names, rev : Revisions, eligible : Nat, version : Nat \cup {Null},
     todo : Seq(Dependency)]
Removals ==
    [fn : {"remove"},
     pc : {"read", "artifacts", "jobs", "dependencies", "versions", "package", "commit"},
     name : Names, pkg : Nat \cup {Null}, versions : SUBSET Nat, jobs : SUBSET Nat]
Publications ==
    [pc : {"artifact", "published"}, job : Nat, todo : SUBSET Files, err : {"none"}]
Claimings ==
    [pc : {"rest", "select", "latest", "skip", "take", "commit", "build"}, job : Nat \cup {Null}]

\* What CreatePackage has done so far in its transaction.  Until it records a
\* version, everything it sees is older than now.
Named(d, name) == {k \in DOMAIN d.packages : d.packages[k].name = name}
CreateIs(c, d, e, t) ==
    /\ c.pc = "managed" =>
        /\ WholeBut(e, {}, {})
        /\ \A k \in DOMAIN d.packages : d.packages[k].updated_at < t
    /\ c.pc \in {"managed", "version"} =>
        \A v \in DOMAIN e.versions : e.versions[v].first_seen_at < t
    /\ c.pc = "version" =>
        WholeBut(e, {}, Named(e, c.name)) /\ Named(e, c.name) # {}
    /\ c.pc \in {"dependencies", "skip", "job"} =>
        /\ WholeBut(e, {c.version}, {})
        /\ c.version \in DOMAIN e.versions /\ e.versions[c.version].revision = c.rev
        /\ JobsOf(e.jobs, c.version) = {}
        /\ Needed(e.dependencies, c.version) \cup Pairs(c.todo) = Pairs(Deps[c.rev])
        /\ \A i, k \in DOMAIN c.todo : c.todo[i].name = c.todo[k].name => i = k
        /\ \A i \in DOMAIN e.dependencies : \A k \in DOMAIN c.todo :
            e.dependencies[i].package_version_id = c.version
                => e.dependencies[i].dependency_name # c.todo[k].name
    /\ c.pc \in {"skip", "job"} => c.todo = << >>
    /\ c.pc = "commit" => WholeBut(e, {}, {})

\* What RemovePackage has deleted so far in its transaction.
RemoveIs(c, e) ==
    /\ WholeBut(e, c.versions, {c.pkg})
    /\ c.pkg \in Nat
    /\ \A v \in DOMAIN e.versions : e.versions[v].package_id = c.pkg <=> v \in c.versions
    /\ \A j \in DOMAIN e.jobs : e.jobs[j].package_version_id \in c.versions <=> j \in c.jobs
    /\ c.pc # "commit" => c.pkg \in DOMAIN e.packages
    /\ c.pc # "artifacts" => \A i \in DOMAIN e.artifacts : e.artifacts[i].job_id \notin c.jobs
    /\ c.pc \notin {"artifacts", "jobs"} => DOMAIN e.jobs \cap c.jobs = {}
    /\ c.pc \notin {"artifacts", "jobs", "dependencies"} =>
        \A i \in DOMAIN e.dependencies : e.dependencies[i].package_version_id \notin c.versions
    /\ c.pc \in {"package", "commit"} => DOMAIN e.versions \cap c.versions = {}
    /\ c.pc = "commit" => c.pkg \notin DOMAIN e.packages

\* What a transaction sees of artifacts and jobs is what is committed, except
\* what RemovePackage takes away, all of one package.
PackageName(d, j) == d.packages[d.versions[d.jobs[j].package_version_id].package_id].name
SeesRest(c, d, e) ==
    /\ \A i \in DOMAIN e.artifacts : i \in DOMAIN d.artifacts /\ e.artifacts[i] = d.artifacts[i]
    /\ \A j \in DOMAIN d.jobs :
        /\ j \in DOMAIN e.jobs \/ (c.fn = "remove" /\ j \in c.jobs)
        /\ c.fn = "remove" /\ j \in c.jobs => PackageName(d, j) = c.name

\* The job that is published is a built one, of a package that is not removed.
PublisherIs(p, c, d) ==
    p.pc # "rest" =>
        /\ p.job \in DOMAIN d.jobs /\ d.jobs[p.job].status = "built"
        /\ c.fn = "remove" => PackageName(d, p.job) # c.name

\* What the worker has chosen, if it is still there: until the claim is
\* committed it is a job that was due, and then it runs.
ChoiceIs(w, d, t) ==
    w.job \in DOMAIN d.jobs =>
        /\ w.pc \in {"latest", "skip", "take", "commit"} =>
            d.jobs[w.job].status \in {"pending", "skipped"} /\ d.jobs[w.job].eligible_at <= t
        /\ w.pc = "build" => d.jobs[w.job].status = "running"

\* Between the UPDATE and the COMMIT of the claim nobody else has touched it.
HeldIs(w, d, e) ==
    w.pc = "commit" =>
        /\ w.job \in DOMAIN d.jobs
        /\ e # NoTransaction => w.job \in DOMAIN e.jobs /\ e.jobs[w.job] = d.jobs[w.job]

InTransaction(c) == c.fn = "create" \/ (c.fn = "remove" /\ c.pc # "read")

RecordsTypeOK ==
    /\ now \in Nat /\ next \in [Tables -> Nat]
    /\ call \in Idles \cup Creations \cup Removals
    /\ publisher \in Publications \cup {NotPublishing}
    /\ worker \in Claimings
    /\ worker.pc \in {"latest", "skip", "take", "commit", "build"} =>
        worker.job \in Nat /\ worker.job < next.jobs

CommittedInv == View(db, next, now) /\ WholeBut(db, {}, {})

OpenInv ==
    /\ tx # NoTransaction <=> InTransaction(call)
    /\ tx # NoTransaction => View(tx, next, now) /\ Sees(db, tx) /\ SeesRest(call, db, tx)
    /\ call.fn = "create" => CreateIs(call, db, tx, now)
    /\ call.fn = "remove" /\ call.pc # "read" => RemoveIs(call, tx)

WorkerInv ==
    /\ ChoiceIs(worker, db, now)
    /\ tx # NoTransaction => ChoiceIs(worker, tx, now)
    /\ HeldIs(worker, db, tx)

RecordsInv ==
    RecordsTypeOK /\ CommittedInv /\ OpenInv /\ WorkerInv /\ PublisherIs(publisher, call, db)

-----------------------------------------------------------------------------
(* Queries. *)

\* What the program writes is a text, and not NULL.
LEMMA WrittenTexts == \A s \in Written : s \in STRING /\ s # Null
BY NullAssumption, WrittenAssumption

\* A query with one predicate that the entity offers.
LEMMA MatchingOne ==
    ASSUME NEW table, NEW predicates, NEW c, NEW op, NEW v,
           c \in DOMAIN predicates, op \in predicates[c]
    PROVE  Matching(table, {Where(c, op, v)}, predicates)
           = {i \in DOMAIN table : Holds(Where(c, op, v), table[i][c])}
BY DEF Matching, Where

\* A query with two.
LEMMA MatchingTwo ==
    ASSUME NEW table, NEW predicates, NEW c, NEW op, NEW v, NEW c2, NEW op2, NEW v2,
           c \in DOMAIN predicates, op \in predicates[c],
           c2 \in DOMAIN predicates, op2 \in predicates[c2]
    PROVE  Matching(table, {Where(c, op, v), Where(c2, op2, v2)}, predicates)
           = {i \in DOMAIN table :
                Holds(Where(c, op, v), table[i][c]) /\ Holds(Where(c2, op2, v2), table[i][c2])}
BY DEF Matching, Where

\* What the comparisons that this program uses mean.
LEMMA Comparisons ==
    ASSUME NEW c, NEW v, NEW x
    PROVE  /\ Holds(Where(c, "EQ", v), x) <=> x # Null /\ x = v
           /\ Holds(Where(c, "NEQ", v), x) <=> x # Null /\ x # v
           /\ Holds(Where(c, "In", v), x) <=> x # Null /\ x \in v
           /\ Holds(Where(c, "LTE", v), x) <=> x # Null /\ x <= v
BY DEF Holds, Where

\* What a query for one column of an entity finds.
LEMMA PackagesByName ==
    ASSUME NEW table, NEW n, NEW t, PackagesOK(table, n, t), NEW name
    PROVE  Matching(table, {Where("name", "EQ", name)}, ManagedPackages!Predicates)
           = {i \in DOMAIN table : table[i].name = name}
<1>1. "name" \in DOMAIN ManagedPackages!Predicates /\ "EQ" \in ManagedPackages!Predicates["name"]
  BY DEF ManagedPackages!Predicates, ManagedPackages!Columns, ManagedPackages!Texts,
         ManagedPackages!Searched, ManagedPackages!Ordered, ManagedPackages!Listed,
         ManagedPackages!Flags
<1>2. \A i \in DOMAIN table : table[i].name # Null
  BY NullAssumption DEF PackagesOK, ManagedPackages!Fits, ManagedPackages!Texts
<1> QED BY <1>1, <1>2, MatchingOne, Comparisons

\* What queries find: versions,
VersionsOf(table, k) == {i \in DOMAIN table : table[i].package_id = k}
VersionsAt(table, k, rev) == {i \in DOMAIN table : table[i].package_id = k /\ table[i].revision = rev}
OtherVersions(table, k, v) == {i \in DOMAIN table : table[i].package_id = k /\ table[i].id # v}
\* jobs,
JobsWith(table, s) == {i \in DOMAIN table : table[i].status = s}
JobsOfAll(table, versions) == {i \in DOMAIN table : table[i].package_version_id \in versions}
JobsWithOfAll(table, s, versions) ==
    {i \in DOMAIN table : table[i].status = s /\ table[i].package_version_id \in versions}
JobsDue(table, s, t) == {i \in DOMAIN table : table[i].status = s /\ table[i].eligible_at <= t}
\* artifacts and dependencies.
ArtifactsAt(table, j, f) == {i \in DOMAIN table : table[i].job_id = j /\ table[i].filename = f}
ArtifactsOfAll(table, jobs) == {i \in DOMAIN table : table[i].job_id \in jobs}
DependenciesOfAll(table, versions) ==
    {i \in DOMAIN table : table[i].package_version_id \in versions}

\* What a query of the versions of a package finds.
LEMMA VersionQueries ==
    ASSUME NEW table, NEW n, NEW t, VersionsOK(table, n, t)
    PROVE  /\ \A k : Matching(table, {Where("package_id", "EQ", k)}, PackageVersions!Predicates)
              = VersionsOf(table, k)
           /\ \A k, x :
                Matching(table, {Where("package_id", "EQ", k), Where("revision", "EQ", x)},
                   PackageVersions!Predicates)
              = VersionsAt(table, k, x)
           /\ \A k, x : Matching(table, {Where("package_id", "EQ", k), Where("id", "NEQ", x)},
                   PackageVersions!Predicates)
              = OtherVersions(table, k, x)
           /\ \A x : Matching(table, {Where("id", "In", x)}, PackageVersions!Predicates)
              = DOMAIN table \cap x
<1> DEFINE predicates == PackageVersions!Predicates
<1>1. /\ {"package_id", "revision", "id"} \subseteq DOMAIN predicates
      /\ "EQ" \in predicates["package_id"] /\ "EQ" \in predicates["revision"]
      /\ {"NEQ", "In"} \subseteq predicates["id"]
  BY DEF PackageVersions!Predicates, PackageVersions!Columns, PackageVersions!Texts,
         PackageVersions!Searched, PackageVersions!Ordered, PackageVersions!Listed,
         PackageVersions!Flags
<1>2. \A i \in DOMAIN table :
        table[i].package_id # Null /\ table[i].revision # Null /\ table[i].id # Null
        /\ table[i].id = i
  BY NullAssumption DEF VersionsOK, IdsOK, PackageVersions!Fits, PackageVersions!Texts
<1> HIDE DEF predicates
<1>3. \A k : Matching(table, {Where("package_id", "EQ", k)}, predicates)
      = VersionsOf(table, k)
  BY <1>1, <1>2, MatchingOne, Comparisons DEF VersionsOf
<1>4. \A k, x :
        Matching(table, {Where("package_id", "EQ", k), Where("revision", "EQ", x)}, predicates)
      = VersionsAt(table, k, x)
  BY <1>1, <1>2, MatchingTwo, Comparisons DEF VersionsAt
<1>5. \A k, x :
        Matching(table, {Where("package_id", "EQ", k), Where("id", "NEQ", x)}, predicates)
      = OtherVersions(table, k, x)
  BY <1>1, <1>2, MatchingTwo, Comparisons DEF OtherVersions
<1>6. \A x : Matching(table, {Where("id", "In", x)}, predicates) = DOMAIN table \cap x
  <2> TAKE x
  <2>1. Matching(table, {Where("id", "In", x)}, predicates)
        = {i \in DOMAIN table : Holds(Where("id", "In", x), table[i]["id"])}
    BY <1>1, MatchingOne
  <2>2. \A i \in DOMAIN table : Holds(Where("id", "In", x), table[i]["id"]) <=> i \in x
    <3>1. \A i \in DOMAIN table : Holds(Where("id", "In", x), table[i].id) <=> table[i].id \in x
      BY <1>2, Comparisons
    <3> QED BY <3>1, <1>2
  <2> QED BY <2>1, <2>2
<1> QED BY <1>3, <1>4, <1>5, <1>6 DEF predicates

\* What a query of the jobs finds.
LEMMA JobQueries ==
    ASSUME NEW table, NEW n, NEW t, JobsOK(table, n, t)
    PROVE  /\ \A s : Matching(table, {Where("status", "EQ", s)}, Jobs!Predicates)
              = JobsWith(table, s)
           /\ \A x : Matching(table, {Where("package_version_id", "In", x)}, Jobs!Predicates)
              = JobsOfAll(table, x)
           /\ \A x : Matching(table, {Where("id", "In", x)}, Jobs!Predicates)
              = DOMAIN table \cap x
           /\ \A s, x :
                Matching(table, {Where("status", "EQ", s), Where("package_version_id", "In", x)},
                   Jobs!Predicates)
              = JobsWithOfAll(table, s, x)
           /\ \A s, x :
                Matching(table, {Where("status", "EQ", s), Where("eligible_at", "LTE", x)},
                   Jobs!Predicates)
              = JobsDue(table, s, x)
<1> DEFINE predicates == Jobs!Predicates
<1>1. /\ {"status", "package_version_id", "id", "eligible_at"} \subseteq DOMAIN predicates
      /\ "EQ" \in predicates["status"] /\ "In" \in predicates["package_version_id"]
      /\ "In" \in predicates["id"] /\ "LTE" \in predicates["eligible_at"]
  BY DEF Jobs!Predicates, Jobs!Columns, Jobs!Texts, Jobs!Searched, Jobs!Ordered, Jobs!Listed,
         Jobs!Flags, Jobs!Clearable
<1>2. \A i \in DOMAIN table :
        /\ table[i].package_version_id # Null /\ table[i].status # Null /\ table[i].id # Null
        /\ table[i].eligible_at # Null /\ table[i].id = i
  BY NullAssumption DEF JobsOK, JobOK, IdsOK, Jobs!Fits
<1> HIDE DEF predicates
<1>3. \A s : Matching(table, {Where("status", "EQ", s)}, predicates)
      = JobsWith(table, s)
  BY <1>1, <1>2, MatchingOne, Comparisons DEF JobsWith
<1>4. \A x : Matching(table, {Where("package_version_id", "In", x)}, predicates)
      = JobsOfAll(table, x)
  BY <1>1, <1>2, MatchingOne, Comparisons DEF JobsOfAll
<1>5. \A x : Matching(table, {Where("id", "In", x)}, predicates) = DOMAIN table \cap x
  <2> TAKE x
  <2>1. Matching(table, {Where("id", "In", x)}, predicates)
        = {i \in DOMAIN table : Holds(Where("id", "In", x), table[i]["id"])}
    BY <1>1, MatchingOne
  <2>2. \A i \in DOMAIN table : Holds(Where("id", "In", x), table[i]["id"]) <=> i \in x
    <3>1. \A i \in DOMAIN table : Holds(Where("id", "In", x), table[i].id) <=> table[i].id \in x
      BY <1>2, Comparisons
    <3> QED BY <3>1, <1>2
  <2> QED BY <2>1, <2>2
<1>6. \A s, x :
        Matching(table, {Where("status", "EQ", s), Where("package_version_id", "In", x)}, predicates)
      = JobsWithOfAll(table, s, x)
  BY <1>1, <1>2, MatchingTwo, Comparisons DEF JobsWithOfAll
<1>7. \A s, x :
        Matching(table, {Where("status", "EQ", s), Where("eligible_at", "LTE", x)}, predicates)
      = JobsDue(table, s, x)
  BY <1>1, <1>2, MatchingTwo, Comparisons DEF JobsDue
<1> QED BY <1>3, <1>4, <1>5, <1>6, <1>7 DEF predicates

\* What a query of the artifacts finds.
LEMMA ArtifactQueries ==
    ASSUME NEW table, NEW n, ArtifactsOK(table, n)
    PROVE  /\ \A j, f : Matching(table, {Where("job_id", "EQ", j), Where("filename", "EQ", f)},
                   Artifacts!Predicates)
              = ArtifactsAt(table, j, f)
           /\ \A j : Matching(table, {Where("job_id", "In", j)}, Artifacts!Predicates)
              = ArtifactsOfAll(table, j)
<1> DEFINE predicates == Artifacts!Predicates
<1>1. /\ {"job_id", "filename"} \subseteq DOMAIN predicates
      /\ {"EQ", "In"} \subseteq predicates["job_id"] /\ "EQ" \in predicates["filename"]
  BY DEF Artifacts!Predicates, Artifacts!Columns, Artifacts!Texts, Artifacts!Searched,
         Artifacts!Ordered, Artifacts!Listed, Artifacts!Flags
<1>2. \A i \in DOMAIN table : table[i].job_id # Null /\ table[i].filename # Null
  BY NullAssumption DEF ArtifactsOK, Artifacts!Fits, Artifacts!Texts
<1> HIDE DEF predicates
<1>3. \A j, f :
        Matching(table, {Where("job_id", "EQ", j), Where("filename", "EQ", f)}, predicates)
      = ArtifactsAt(table, j, f)
  BY <1>1, <1>2, MatchingTwo, Comparisons DEF ArtifactsAt
<1>4. \A j : Matching(table, {Where("job_id", "In", j)}, predicates)
      = ArtifactsOfAll(table, j)
  BY <1>1, <1>2, MatchingOne, Comparisons DEF ArtifactsOfAll
<1> QED BY <1>3, <1>4 DEF predicates

\* What a query of the dependencies finds.
LEMMA DependencyQueries ==
    ASSUME NEW table, NEW n, DependenciesOK(table, n)
    PROVE  \A x :
             Matching(table, {Where("package_version_id", "In", x)}, Dependencies!Predicates)
           = DependenciesOfAll(table, x)
<1>1. /\ "package_version_id" \in DOMAIN Dependencies!Predicates
      /\ "In" \in Dependencies!Predicates["package_version_id"]
  BY DEF Dependencies!Predicates, Dependencies!Columns, Dependencies!Searched,
         Dependencies!Ordered, Dependencies!Listed, Dependencies!Flags
<1>2. \A i \in DOMAIN table : table[i].package_version_id # Null
  BY NullAssumption DEF DependenciesOK, Dependencies!Fits
<1> QED BY <1>1, <1>2, MatchingOne, Comparisons DEF DependenciesOfAll

\* The entities query and delete as Ent does.
LEMMA SameMatching ==
    ASSUME NEW table, NEW ps, NEW predicates
    PROVE  /\ Jobs!Matching(table, ps, predicates) = Matching(table, ps, predicates)
           /\ Artifacts!Matching(table, ps, predicates) = Matching(table, ps, predicates)
           /\ Dependencies!Matching(table, ps, predicates) = Matching(table, ps, predicates)
           /\ PackageVersions!Matching(table, ps, predicates) = Matching(table, ps, predicates)
<1>1. Jobs!Matching(table, ps, predicates) = Matching(table, ps, predicates)
  BY DEF Matching, Jobs!Matching, Holds, Jobs!Holds
<1>2. Artifacts!Matching(table, ps, predicates) = Matching(table, ps, predicates)
  BY DEF Matching, Artifacts!Matching, Holds, Artifacts!Holds
<1>3. Dependencies!Matching(table, ps, predicates) = Matching(table, ps, predicates)
  BY DEF Matching, Dependencies!Matching, Holds, Dependencies!Holds
<1>4. PackageVersions!Matching(table, ps, predicates) = Matching(table, ps, predicates)
  BY DEF Matching, PackageVersions!Matching, Holds, PackageVersions!Holds
<1> QED BY <1>1, <1>2, <1>3, <1>4

\* Only, for a query that finds at most one row.
LEMMA OnlyOne ==
    ASSUME NEW ids, \A i, j \in ids : i = j
    PROVE  /\ ids = {} => Only(ids).err = "not_found"
           /\ \A i \in ids : Only(ids).err = "none" /\ Only(ids).id = i
<1>1. CASE ids = {}
  <2>1. Cardinality(ids) = 0 BY <1>1, FS_EmptySet
  <2> QED BY <1>1, <2>1 DEF Only
<1>2. CASE \E i \in ids : ids = {i}
  <2>1. PICK i \in ids : ids = {i} BY <1>2
  <2>2. Cardinality(ids) = 1 BY <2>1, FS_Singleton
  <2> QED BY <2>1, <2>2 DEF Only
<1> QED BY <1>1, <1>2

\* Get finds a row exactly if it is there.
LEMMA GetIs ==
    ASSUME NEW table, NEW id
    PROVE  /\ id \in DOMAIN table => Get(table, id).err = "none" /\ Get(table, id).id = id
           /\ id \notin DOMAIN table => Get(table, id).err = "not_found"
<1> DEFINE ids == {id} \cap DOMAIN table
<1>1. \A i, j \in ids : i = j OBVIOUS
<1>2. id \in DOMAIN table => id \in ids OBVIOUS
<1>3. id \notin DOMAIN table => ids = {} OBVIOUS
<1>4. Get(table, id) = Only(ids) BY DEF Get
<1> HIDE DEF ids
<1> QED BY <1>1, <1>2, <1>3, <1>4, OnlyOne

-----------------------------------------------------------------------------
(* The first row in an order. *)

\* The order of the jobs that are due: the one that is due first, then the oldest.
LEMMA PrecedesAscending ==
    ASSUME NEW table, NEW i, NEW k, NEW c, NEW d,
           \/ table[i][c] < table[k][c]
           \/ table[i][c] = table[k][c] /\ table[i][d] < table[k][d]
    PROVE  Precedes(table, i, k, <<Asc(c), Asc(d)>>)
<1> DEFINE terms == <<Asc(c), Asc(d)>>
<1>1. DOMAIN terms = {1, 2} /\ terms[1] = Asc(c) /\ terms[2] = Asc(d) OBVIOUS
<1>2. ~terms[1].desc /\ terms[1].col = c /\ ~terms[2].desc /\ terms[2].col = d
  BY <1>1 DEF Asc
<1> HIDE DEF terms
<1>3. CASE table[i][c] < table[k][c]
  <2>1. \A l \in 1 .. (1 - 1) : table[i][terms[l].col] = table[k][terms[l].col] OBVIOUS
  <2> QED BY <1>1, <1>2, <1>3, <2>1 DEF Precedes
<1>4. CASE table[i][c] = table[k][c] /\ table[i][d] < table[k][d]
  <2>1. \A l \in 1 .. (2 - 1) : table[i][terms[l].col] = table[k][terms[l].col]
    BY <1>1, <1>2, <1>4
  <2> QED BY <1>1, <1>2, <1>4, <2>1 DEF Precedes
<1> QED BY <1>3, <1>4

\* A set of numbers has a least one.
LEMMA LeastNumber ==
    ASSUME NEW S \in SUBSET Nat, S # {}
    PROVE  \E x \in S : \A y \in S : x <= y
<1> DEFINE R == {pair \in Nat \X Nat : pair[1] < pair[2]}
<1>1. IsWellFoundedOn(R, Nat) BY NatLessThanWellFounded DEF OpToRel
<1>2. \A x, y \in Nat : x < y => <<x, y>> \in R OBVIOUS
<1> HIDE DEF R
<1>3. PICK x \in S : \A y \in S : ~(<<y, x>> \in R) BY <1>1, WFMin
<1>4. \A y \in S : ~(y < x) BY <1>2, <1>3
<1> QED BY <1>4

\* Of the jobs that are due the query chooses one.
LEMMA FirstDue ==
    ASSUME NEW table, NEW n, NEW t, JobsOK(table, n, t),
           NEW ids \in SUBSET DOMAIN table, ids # {}
    PROVE  LET first == First(table, ids, <<Asc("eligible_at"), Asc("id")>>)
           IN  first.err = "none" /\ first.id \in ids
<1> DEFINE terms == <<Asc("eligible_at"), Asc("id")>>
           times == {table[i].eligible_at : i \in ids}
<1>1. \A i \in ids : table[i].eligible_at \in Nat /\ i \in Nat /\ table[i].id = i
  BY DEF JobsOK, JobOK, IdsOK, Jobs!Fits, Jobs!Times
<1>2. PICK least \in times : \A u \in times : least <= u
  <2>1. times \in SUBSET Nat /\ times # {} BY <1>1
  <2> HIDE DEF times
  <2> QED BY <2>1, LeastNumber
<1> DEFINE due == {i \in ids : table[i].eligible_at = least}
<1>3. PICK first \in due : \A i \in due : first <= i
  <2>1. due \in SUBSET Nat /\ due # {} BY <1>1, <1>2
  <2> HIDE DEF due
  <2> QED BY <2>1, LeastNumber
<1>4. ASSUME NEW i \in ids \ {first} PROVE Precedes(table, first, i, terms)
  <2>1. table[first].eligible_at <= table[i].eligible_at
    BY <1>2, <1>3, <1>4
  <2>2. table[first].eligible_at = table[i].eligible_at => first < i
    BY <1>1, <1>3, <1>4
  <2>3. first \in ids BY <1>3
  <2>4. \/ table[first].eligible_at < table[i].eligible_at
        \/ /\ table[first].eligible_at = table[i].eligible_at
           /\ table[first].id < table[i].id
    BY <1>1, <2>1, <2>2, <2>3
  <2>5. \/ table[first]["eligible_at"] < table[i]["eligible_at"]
        \/ /\ table[first]["eligible_at"] = table[i]["eligible_at"]
           /\ table[first]["id"] < table[i]["id"]
    BY <2>4
  <2> QED BY <2>5, PrecedesAscending
<1>5. first \in ids BY <1>3
<1> HIDE DEF terms, due, times
<1>6. First(table, ids, terms).err = "none" /\ First(table, ids, terms).id \in ids
  BY <1>4, <1>5 DEF First
<1> QED BY <1>6 DEF terms

-----------------------------------------------------------------------------
(* Updates of jobs. *)

\* What a builder sets of a row, and the rest of it.
Overlaid(row, set) == [c \in DOMAIN row |-> IF c \in DOMAIN set THEN set[c] ELSE row[c]]

\* A mutation of setters does just that.
LEMMA AppliedSetting ==
    ASSUME NEW row, NEW set
    PROVE  Jobs!Applied(row, Setting(set)) = Overlaid(row, set)
<1>1. /\ Setting(set).set = set /\ DOMAIN Setting(set).add = {} /\ Setting(set).clear = {}
  BY DEF Setting, NoChange
<1> HIDE DEF Setting
<1> QED BY <1>1 DEF Jobs!Applied, Overlaid

\* An update of one job.
LEMMA JobUpdated ==
    ASSUME NEW table, NEW id, NEW set, "status" \in DOMAIN set, set["status"] \in Jobs!Statuses
    PROVE  /\ id \in DOMAIN table =>
                Jobs!UpdateOne(table, id, Setting(set))
                = [err |-> "none", table |-> Assigned(table, id, Overlaid(table[id], set))]
           /\ id \notin DOMAIN table =>
                Jobs!UpdateOne(table, id, Setting(set)) = [err |-> "not_found", table |-> table]
<1>1. Jobs!Valid(Setting(set)) BY DEF Jobs!Valid, Setting, NoChange
<1>2. \A new : Jobs!Constrained(table, new, Jobs!Indexes) = [err |-> "none", table |-> new]
  BY DEF Jobs!Constrained, Jobs!Violates, Jobs!Indexes, Jobs!Succeeds
<1> DEFINE new == [i \in DOMAIN table |->
                    IF i \in {id} THEN Jobs!Applied(table[i], Setting(set)) ELSE table[i]]
<1>3. ASSUME id \in DOMAIN table
      PROVE  new = Assigned(table, id, Overlaid(table[id], set))
  <2>1. Jobs!Applied(table[id], Setting(set)) = Overlaid(table[id], set) BY AppliedSetting
  <2>2. DOMAIN table \cup {id} = DOMAIN table BY <1>3
  <2> QED BY <2>1, <2>2 DEF Assigned
<1>4. Jobs!SaveAll(table, {id}, Setting(set), Jobs!Indexes) = [err |-> "none", table |-> new]
  BY <1>2 DEF Jobs!SaveAll
<1> HIDE DEF new
<1>5. id \in DOMAIN table =>
        Jobs!UpdateOne(table, id, Setting(set))
        = [err |-> "none", table |-> Assigned(table, id, Overlaid(table[id], set))]
  BY <1>1, <1>3, <1>4 DEF Jobs!UpdateOne, Jobs!SaveOne
<1>6. id \notin DOMAIN table =>
        Jobs!UpdateOne(table, id, Setting(set)) = [err |-> "not_found", table |-> table]
  BY <1>1 DEF Jobs!UpdateOne, Jobs!SaveOne, Jobs!Fails
<1> QED BY <1>5, <1>6

\* An update of all the jobs that a query finds.
LEMMA JobsUpdated ==
    ASSUME NEW table, NEW ps, NEW set, "status" \in DOMAIN set, set["status"] \in Jobs!Statuses
    PROVE  Jobs!Update(table, ps, Setting(set))
           = [err |-> "none",
              table |-> [i \in DOMAIN table |->
                            IF i \in Matching(table, ps, Jobs!Predicates)
                            THEN Overlaid(table[i], set) ELSE table[i]]]
<1>1. Jobs!Valid(Setting(set)) BY DEF Jobs!Valid, Setting, NoChange
<1>2. \A new : Jobs!Constrained(table, new, Jobs!Indexes) = [err |-> "none", table |-> new]
  BY DEF Jobs!Constrained, Jobs!Violates, Jobs!Indexes, Jobs!Succeeds
<1> DEFINE ids == Matching(table, ps, Jobs!Predicates)
<1>3. Jobs!Matching(table, ps, Jobs!Predicates) = ids BY SameMatching
<1> HIDE DEF ids
<1>4. Jobs!SaveAll(table, ids, Setting(set), Jobs!Indexes)
      = [err |-> "none",
         table |-> [i \in DOMAIN table |-> IF i \in ids THEN Overlaid(table[i], set) ELSE table[i]]]
  BY <1>2, AppliedSetting DEF Jobs!SaveAll
<1>5. Jobs!Update(table, ps, Setting(set)) = Jobs!SaveAll(table, ids, Setting(set), Jobs!Indexes)
  BY <1>1, <1>3 DEF Jobs!Update
<1> QED BY <1>4, <1>5 DEF ids

\* The columns of a job one by one.
JobTyped(r) ==
    /\ r.id \in Int /\ r.package_version_id \in Int /\ r.attempts \in Int
    /\ r.eligible_at = Null \/ r.eligible_at \in Nat
    /\ r.claimed_at = Null \/ r.claimed_at \in Nat
    /\ r.finished_at = Null \/ r.finished_at \in Nat
    /\ r.created_at = Null \/ r.created_at \in Nat
    /\ r.kind = Null \/ r.kind \in STRING
    /\ r.log_path = Null \/ r.log_path \in STRING
    /\ r.error = Null \/ r.error \in STRING
    /\ r.status \in STRING

\* Fits says the same of them.
LEMMA JobFits == \A r : Jobs!Fits(r) <=> DOMAIN r = Jobs!Columns /\ JobTyped(r)
<1> TAKE r
<1>1. (\A c \in {"id", "package_version_id", "attempts"} : r[c] \in Int)
      <=> r.id \in Int /\ r.package_version_id \in Int /\ r.attempts \in Int
  OBVIOUS
<1>2. (\A c \in Jobs!Times : r[c] = Null \/ r[c] \in Nat)
      <=> /\ r.eligible_at = Null \/ r.eligible_at \in Nat
          /\ r.claimed_at = Null \/ r.claimed_at \in Nat
          /\ r.finished_at = Null \/ r.finished_at \in Nat
          /\ r.created_at = Null \/ r.created_at \in Nat
  BY DEF Jobs!Times
<1>3. (\A c \in Jobs!Texts : r[c] = Null \/ r[c] \in STRING)
      <=> /\ r.kind = Null \/ r.kind \in STRING
          /\ r.log_path = Null \/ r.log_path \in STRING
          /\ r.error = Null \/ r.error \in STRING
  BY DEF Jobs!Texts
<1> QED BY <1>1, <1>2, <1>3 DEF Jobs!Fits, JobTyped

\* What is not set stays.
LEMMA OverlaidIs ==
    ASSUME NEW r, NEW set
    PROVE  /\ DOMAIN Overlaid(r, set) = DOMAIN r
           /\ \A c \in DOMAIN r :
                /\ c \in DOMAIN set => Overlaid(r, set)[c] = set[c]
                /\ c \notin DOMAIN set => Overlaid(r, set)[c] = r[c]
BY DEF Overlaid

\* What no update of a job touches.
SameJob(r, new) ==
    /\ new.id = r.id /\ new.package_version_id = r.package_version_id /\ new.kind = r.kind
    /\ new.created_at = r.created_at /\ new.eligible_at = r.eligible_at

\* The columns of a job after an update.
LEMMA JobOverlaid ==
    ASSUME NEW r, DOMAIN r = Jobs!Columns, NEW set,
           DOMAIN set \subseteq {"status", "claimed_at", "finished_at", "attempts", "log_path", "error"}
    PROVE  LET new == Overlaid(r, set)
           IN  /\ DOMAIN new = Jobs!Columns /\ SameJob(r, new)
               /\ new.status = IF "status" \in DOMAIN set THEN set["status"] ELSE r.status
               /\ new.claimed_at = IF "claimed_at" \in DOMAIN set THEN set["claimed_at"] ELSE r.claimed_at
               /\ new.finished_at = IF "finished_at" \in DOMAIN set THEN set["finished_at"] ELSE r.finished_at
               /\ new.attempts = IF "attempts" \in DOMAIN set THEN set["attempts"] ELSE r.attempts
               /\ new.log_path = IF "log_path" \in DOMAIN set THEN set["log_path"] ELSE r.log_path
               /\ new.error = IF "error" \in DOMAIN set THEN set["error"] ELSE r.error
<1> DEFINE new == Overlaid(r, set)
<1>1. /\ DOMAIN new = DOMAIN r
      /\ \A c \in DOMAIN r : /\ c \in DOMAIN set => new[c] = set[c]
                             /\ c \notin DOMAIN set => new[c] = r[c]
  BY OverlaidIs
<1>2. /\ "id" \in DOMAIN r /\ "package_version_id" \in DOMAIN r /\ "kind" \in DOMAIN r
      /\ "status" \in DOMAIN r /\ "eligible_at" \in DOMAIN r /\ "claimed_at" \in DOMAIN r
      /\ "finished_at" \in DOMAIN r /\ "attempts" \in DOMAIN r /\ "log_path" \in DOMAIN r
      /\ "error" \in DOMAIN r /\ "created_at" \in DOMAIN r
  BY DEF Jobs!Columns
<1> HIDE DEF new
<1>3. SameJob(r, new)
  <2>1. /\ "id" \notin DOMAIN set /\ "package_version_id" \notin DOMAIN set /\ "kind" \notin DOMAIN set
        /\ "created_at" \notin DOMAIN set /\ "eligible_at" \notin DOMAIN set
    OBVIOUS
  <2> QED BY <1>1, <1>2, <2>1 DEF SameJob
<1>4. /\ new.status = IF "status" \in DOMAIN set THEN set["status"] ELSE r.status
      /\ new.claimed_at = IF "claimed_at" \in DOMAIN set THEN set["claimed_at"] ELSE r.claimed_at
      /\ new.finished_at = IF "finished_at" \in DOMAIN set THEN set["finished_at"] ELSE r.finished_at
  BY <1>1, <1>2
<1>5. /\ new.attempts = IF "attempts" \in DOMAIN set THEN set["attempts"] ELSE r.attempts
      /\ new.log_path = IF "log_path" \in DOMAIN set THEN set["log_path"] ELSE r.log_path
      /\ new.error = IF "error" \in DOMAIN set THEN set["error"] ELSE r.error
  BY <1>1, <1>2
<1> QED BY <1>1, <1>3, <1>4, <1>5 DEF new

\* A job that is skipped.
LEMMA SkippedOK ==
    ASSUME NEW r, NEW t \in Nat, JobOK(r, t), r.status \in {"pending", "skipped"}
    PROVE  LET new == Overlaid(r, [status |-> "skipped", finished_at |-> t, error |-> "superseded"])
           IN  JobOK(new, t) /\ SameJob(r, new) /\ new.attempts = r.attempts
               /\ new.status = "skipped"
<1> DEFINE set == [status |-> "skipped", finished_at |-> t, error |-> "superseded"]
           new == Overlaid(r, set)
<1>1. /\ DOMAIN set = {"status", "finished_at", "error"}
      /\ set["status"] = "skipped" /\ set["finished_at"] = t /\ set["error"] = "superseded"
  OBVIOUS
<1> HIDE DEF set
<1>2. DOMAIN r = Jobs!Columns /\ JobTyped(r) /\ ColumnsAgree(r) /\ r.eligible_at # Null
  BY JobFits DEF JobOK
<1>3. /\ DOMAIN new = Jobs!Columns /\ SameJob(r, new)
      /\ new.status = "skipped" /\ new.finished_at = t /\ new.error = "superseded"
      /\ new.claimed_at = r.claimed_at /\ new.attempts = r.attempts /\ new.log_path = r.log_path
  BY <1>1, <1>2, JobOverlaid
<1> HIDE DEF new
<1>4. "superseded" \in STRING /\ "superseded" # Null /\ "skipped" \in STRING
  BY WrittenTexts DEF Written
<1>5. JobTyped(new) BY <1>2, <1>3, <1>4 DEF JobTyped, SameJob
<1>6. r.claimed_at = Null /\ r.log_path = Null /\ r.attempts = 0 BY <1>2 DEF ColumnsAgree
<1>7. ColumnsAgree(new) BY <1>3, <1>4, <1>6 DEF ColumnsAgree
<1>8. JobOK(new, t)
  <2>1. t <= t /\ t # Null BY NullAssumption
  <2> QED BY <1>2, <1>3, <1>5, <1>6, <1>7, <2>1, JobFits DEF JobOK, Jobs!Statuses, SameJob
<1> QED BY <1>3, <1>8 DEF new, set

\* A job that is claimed.
LEMMA ClaimedOK ==
    ASSUME NEW r, NEW t \in Nat, JobOK(r, t), r.status \in {"pending", "skipped"},
           r.eligible_at <= t
    PROVE  LET new == Overlaid(r, [status |-> "running", claimed_at |-> t, attempts |-> r.attempts + 1])
           IN  JobOK(new, t) /\ SameJob(r, new) /\ new.attempts >= r.attempts
               /\ new.status = "running"
<1> DEFINE set == [status |-> "running", claimed_at |-> t, attempts |-> r.attempts + 1]
           new == Overlaid(r, set)
<1>1. /\ DOMAIN set = {"status", "claimed_at", "attempts"}
      /\ set["status"] = "running" /\ set["claimed_at"] = t /\ set["attempts"] = r.attempts + 1
  OBVIOUS
<1> HIDE DEF set
<1>2. DOMAIN r = Jobs!Columns /\ JobTyped(r) /\ ColumnsAgree(r) /\ r.eligible_at # Null
  BY JobFits DEF JobOK
<1>3. /\ DOMAIN new = Jobs!Columns /\ SameJob(r, new)
      /\ new.status = "running" /\ new.claimed_at = t /\ new.attempts = r.attempts + 1
      /\ new.finished_at = r.finished_at /\ new.log_path = r.log_path /\ new.error = r.error
  BY <1>1, <1>2, JobOverlaid
<1> HIDE DEF new
<1>4. "running" \in STRING /\ t # Null
  <2>1. "running" \in STRING BY WrittenTexts DEF Written
  <2>2. t # Null BY NullAssumption
  <2> QED BY <2>1, <2>2
<1>5. JobTyped(new) BY <1>2, <1>3, <1>4 DEF JobTyped, SameJob
<1>6. r.claimed_at = Null /\ r.log_path = Null /\ r.attempts = 0 BY <1>2 DEF ColumnsAgree
<1>7. new.finished_at = Null <=> new.error = Null
  <2>1. CASE r.status = "pending" BY <1>2, <1>3, <2>1 DEF ColumnsAgree
  <2>2. CASE r.status = "skipped"
    <3>1. r.finished_at # Null BY <2>2 DEF JobOK
    <3> QED BY <1>2, <1>3, <2>2, <3>1 DEF ColumnsAgree
  <2> QED BY <2>1, <2>2
<1>8. ColumnsAgree(new) BY <1>3, <1>4, <1>6, <1>7 DEF ColumnsAgree, SameJob
<1>9. JobOK(new, t)
  <2>1. t <= t OBVIOUS
  <2>2. /\ r.finished_at # Null => r.finished_at <= t
        /\ r.error \in {Null, "superseded"}
    BY DEF JobOK
  <2> QED BY <1>2, <1>3, <1>5, <1>6, <1>8, <2>1, <2>2, JobFits DEF JobOK, Jobs!Statuses, SameJob
<1> QED BY <1>2, <1>3, <1>9 DEF new, set, JobTyped

\* What MarkJob is given for what is not to be set.
NoText == ""

\* Every other text is different.
LEMMA NotNoText == "job.log" # NoText /\ "build_failed" # NoText /\ "publish_failed" # NoText
BY Zenon DEF NoText

\* What MarkJob sets.
Marking(time, status, logPath, failure) ==
    [c \in {"status", "finished_at"} \cup (IF logPath # NoText THEN {"log_path"} ELSE {})
           \cup (IF failure # NoText THEN {"error"} ELSE {}) |->
        CASE c = "status" -> status [] c = "finished_at" -> time
          [] c = "log_path" -> logPath [] c = "error" -> failure]

\* The columns of a job that it leaves.
IsMarked(r, new, time, status, logPath, failure) ==
    /\ DOMAIN new = Jobs!Columns /\ SameJob(r, new)
    /\ new.status = status /\ new.finished_at = time
    /\ new.log_path = IF logPath # NoText THEN logPath ELSE r.log_path
    /\ new.error = IF failure # NoText THEN failure ELSE r.error
    /\ new.claimed_at = r.claimed_at /\ new.attempts = r.attempts

\* These are the columns.
LEMMA Marked ==
    ASSUME NEW r, DOMAIN r = Jobs!Columns, NEW time, NEW status, NEW logPath, NEW failure
    PROVE  IsMarked(r, Overlaid(r, Marking(time, status, logPath, failure)),
                    time, status, logPath, failure)
<1> DEFINE set == Marking(time, status, logPath, failure)
           new == Overlaid(r, set)
<1>1. "status" \in DOMAIN set /\ set["status"] = status BY DEF Marking
<1>2. "finished_at" \in DOMAIN set /\ set["finished_at"] = time BY DEF Marking
<1>3. /\ "log_path" \in DOMAIN set <=> logPath # NoText
      /\ logPath # NoText => set["log_path"] = logPath
  BY DEF Marking
<1>4. /\ "error" \in DOMAIN set <=> failure # NoText
      /\ failure # NoText => set["error"] = failure
  BY DEF Marking
<1>5. /\ "claimed_at" \notin DOMAIN set /\ "attempts" \notin DOMAIN set
      /\ DOMAIN set \subseteq {"status", "claimed_at", "finished_at", "attempts", "log_path", "error"}
  BY DEF Marking
<1> HIDE DEF set
<1>6. /\ DOMAIN new = Jobs!Columns /\ SameJob(r, new)
      /\ new.status = set["status"]
      /\ new.finished_at = set["finished_at"]
      /\ new.log_path = IF "log_path" \in DOMAIN set THEN set["log_path"] ELSE r.log_path
      /\ new.error = IF "error" \in DOMAIN set THEN set["error"] ELSE r.error
      /\ new.claimed_at = r.claimed_at /\ new.attempts = r.attempts
  <2>1. "status" \in DOMAIN set /\ "finished_at" \in DOMAIN set BY <1>1, <1>2
  <2> QED BY <1>5, <2>1, JobOverlaid
<1> HIDE DEF new
<1>7. new.status = status BY <1>1, <1>6
<1>8. new.finished_at = time BY <1>2, <1>6
<1>9. new.log_path = IF logPath # NoText THEN logPath ELSE r.log_path BY <1>3, <1>6
<1>10. new.error = IF failure # NoText THEN failure ELSE r.error BY <1>4, <1>6
<1>11. IsMarked(r, new, time, status, logPath, failure)
  BY <1>6, <1>7, <1>8, <1>9, <1>10 DEF IsMarked
<1> QED BY <1>11 DEF new, set

\* How a build may fail.
IsFailure(failure) == failure = NoText \/ failure = "build_failed"

\* A job whose build has ended, as MarkJob leaves it.
LEMMA MarkedOK ==
    ASSUME NEW r, NEW t \in Nat, JobOK(r, t), r.status = "running",
           NEW failure, IsFailure(failure)
    PROVE  LET new == Overlaid(r, Marking(t + 1, IF failure = NoText THEN "built" ELSE "failed",
                                      "job.log", failure))
           IN  JobOK(new, t + 1) /\ SameJob(r, new) /\ new.attempts = r.attempts
               /\ new.status \in {"built", "failed"}
<1> DEFINE status == IF failure = NoText THEN "built" ELSE "failed"
           set == Marking(t + 1, status, "job.log", failure)
           new == Overlaid(r, set)
<1>1. DOMAIN r = Jobs!Columns /\ JobTyped(r) /\ ColumnsAgree(r) /\ r.eligible_at # Null
  BY JobFits DEF JobOK
<1>2. /\ DOMAIN new = Jobs!Columns /\ SameJob(r, new)
      /\ new.status = status /\ new.finished_at = t + 1
      /\ new.log_path = "job.log" /\ new.error = (IF failure = NoText THEN r.error ELSE failure)
      /\ new.claimed_at = r.claimed_at /\ new.attempts = r.attempts
  <2> HIDE DEF status
  <2>1. IsMarked(r, new, t + 1, status, "job.log", failure) BY <1>1, Marked
  <2> HIDE DEF new
  <2> QED BY <2>1, NotNoText DEF IsMarked
<1> HIDE DEF new, set
<1>3. /\ "job.log" \in STRING /\ "job.log" # Null /\ "built" \in STRING /\ "failed" \in STRING
      /\ "build_failed" \in STRING /\ "build_failed" # Null
  BY WrittenTexts DEF Written
<1>4. t + 1 \in Nat /\ t + 1 # Null /\ t <= t + 1
  <2>1. t + 1 \in Nat /\ t <= t + 1 OBVIOUS
  <2>2. t + 1 # Null BY <2>1, NullAssumption
  <2> QED BY <2>1, <2>2
<1>5. r.claimed_at # Null /\ r.claimed_at \in Nat /\ r.claimed_at <= t /\ r.log_path = Null
      /\ r.eligible_at <= r.claimed_at /\ r.attempts = 1
  BY <1>1 DEF JobOK, ColumnsAgree, JobTyped
<1>6. JobTyped(new)
  <2>1. new.status \in STRING /\ (new.error = Null \/ new.error \in STRING)
    BY <1>1, <1>2, <1>3 DEF JobTyped, IsFailure
  <2> QED BY <1>1, <1>2, <1>3, <1>4, <2>1 DEF JobTyped, SameJob
<1>7. r.error \in {Null, "superseded"} BY DEF JobOK
<1>8. ColumnsAgree(new)
  <2>1. new.finished_at > new.claimed_at
    <3>1. t + 1 > r.claimed_at BY <1>5
    <3> QED BY <1>2, <3>1
  <2>2. new.status \in {"built", "failed"} BY <1>2
  <2>3. /\ new.status = "built" => new.error \in {Null, "superseded"}
        /\ new.status = "failed" => new.error # Null
    BY <1>2, <1>3, <1>7 DEF IsFailure
  <2> QED BY <1>2, <1>3, <1>5, <2>1, <2>2, <2>3 DEF ColumnsAgree, SameJob
<1>9. JobOK(new, t + 1)
  <2>1. new.status # "failed" => new.error \in {Null, "superseded"} BY <1>2, <1>7
  <2>2. new.claimed_at <= t + 1 /\ new.finished_at <= t + 1
    <3>1. r.claimed_at <= t + 1 /\ t + 1 <= t + 1 BY <1>5
    <3> QED BY <1>2, <3>1
  <2>3. new.status \in Jobs!Statuses BY <1>2 DEF Jobs!Statuses
  <2>4. new.eligible_at # Null /\ new.finished_at # Null BY <1>1, <1>2, <1>4 DEF SameJob
  <2> QED BY <1>2, <1>6, <1>8, <2>1, <2>2, <2>3, <2>4, JobFits DEF JobOK
<1>10. new.status \in {"built", "failed"} BY <1>2
<1> HIDE DEF status
<1> QED BY <1>2, <1>9, <1>10 DEF new, set, status

\* A built job whose artifacts are recorded.
LEMMA PublishedOK ==
    ASSUME NEW r, NEW t \in Nat, JobOK(r, t), r.status = "built"
    PROVE  LET new == Overlaid(r, [status |-> "published", finished_at |-> t])
           IN  JobOK(new, t) /\ SameJob(r, new) /\ new.attempts = r.attempts
               /\ new.status = "published"
<1> DEFINE set == [status |-> "published", finished_at |-> t]
           new == Overlaid(r, set)
<1>1. /\ DOMAIN set = {"status", "finished_at"}
      /\ set["status"] = "published" /\ set["finished_at"] = t
  OBVIOUS
<1> HIDE DEF set
<1>2. DOMAIN r = Jobs!Columns /\ JobTyped(r) /\ ColumnsAgree(r) /\ r.eligible_at # Null
  BY JobFits DEF JobOK
<1>3. /\ DOMAIN new = Jobs!Columns /\ SameJob(r, new)
      /\ new.status = "published" /\ new.finished_at = t /\ new.error = r.error
      /\ new.claimed_at = r.claimed_at /\ new.attempts = r.attempts /\ new.log_path = r.log_path
  BY <1>1, <1>2, JobOverlaid
<1> HIDE DEF new
<1>4. "published" \in STRING BY WrittenTexts DEF Written
<1>5. JobTyped(new) BY <1>2, <1>3, <1>4 DEF JobTyped, SameJob
<1>6. t # Null /\ t <= t
  <2>1. t # Null BY NullAssumption
  <2> QED BY <2>1
<1>7. /\ r.log_path # Null /\ r.claimed_at # Null /\ r.eligible_at <= r.claimed_at
      /\ r.attempts = 1 /\ r.error \in {Null, "superseded"}
  BY <1>2 DEF ColumnsAgree
<1>8. /\ r.claimed_at \in Nat /\ r.finished_at \in Nat /\ r.finished_at <= t
      /\ r.finished_at > r.claimed_at
  BY <1>2, <1>7 DEF JobOK, ColumnsAgree, JobTyped
<1>9. ColumnsAgree(new)
  <2>1. new.finished_at > new.claimed_at
    <3>1. t > r.claimed_at BY <1>8
    <3> QED BY <1>3, <3>1
  <2> QED BY <1>3, <1>7, <2>1 DEF ColumnsAgree, SameJob
<1>10. JobOK(new, t)
  <2>1. new.claimed_at <= t
    <3>1. r.claimed_at <= t BY <1>8
    <3> QED BY <1>3, <3>1
  <2>2. new.status \in Jobs!Statuses BY <1>3 DEF Jobs!Statuses
  <2> QED BY <1>2, <1>3, <1>5, <1>6, <1>7, <1>9, <2>1, <2>2, JobFits DEF JobOK, SameJob
<1> QED BY <1>3, <1>10 DEF new, set

\* A built job that could not be published.
LEMMA UnpublishedOK ==
    ASSUME NEW r, NEW t \in Nat, JobOK(r, t), r.status = "built"
    PROVE  LET new == Overlaid(r, Marking(t, "failed", NoText, "publish_failed"))
           IN  JobOK(new, t) /\ SameJob(r, new) /\ new.attempts = r.attempts
               /\ new.status = "failed"
<1> DEFINE set == Marking(t, "failed", NoText, "publish_failed")
           new == Overlaid(r, set)
<1>2. DOMAIN r = Jobs!Columns /\ JobTyped(r) /\ ColumnsAgree(r) /\ r.eligible_at # Null
  BY JobFits DEF JobOK
<1>3. /\ DOMAIN new = Jobs!Columns /\ SameJob(r, new)
      /\ new.status = "failed" /\ new.finished_at = t /\ new.error = "publish_failed"
      /\ new.claimed_at = r.claimed_at /\ new.attempts = r.attempts /\ new.log_path = r.log_path
  <2>1. IsMarked(r, new, t, "failed", NoText, "publish_failed") BY <1>2, Marked
  <2> HIDE DEF new
  <2> QED BY <2>1, NotNoText DEF IsMarked
<1> HIDE DEF new, set
<1>4. "failed" \in STRING /\ "publish_failed" \in STRING /\ "publish_failed" # Null
  BY WrittenTexts DEF Written
<1>5. JobTyped(new) BY <1>2, <1>3, <1>4 DEF JobTyped, SameJob
<1>6. t # Null /\ t <= t
  <2>1. t # Null BY NullAssumption
  <2> QED BY <2>1
<1>7. /\ r.log_path # Null /\ r.claimed_at # Null /\ r.eligible_at <= r.claimed_at
      /\ r.attempts = 1
  BY <1>2 DEF ColumnsAgree
<1>8. /\ r.claimed_at \in Nat /\ r.finished_at \in Nat /\ r.finished_at <= t
      /\ r.finished_at > r.claimed_at
  BY <1>2, <1>7 DEF JobOK, ColumnsAgree, JobTyped
<1>9. ColumnsAgree(new)
  <2>1. new.finished_at > new.claimed_at
    <3>1. t > r.claimed_at BY <1>8
    <3> QED BY <1>3, <3>1
  <2> QED BY <1>3, <1>4, <1>7, <2>1 DEF ColumnsAgree, SameJob
<1>10. JobOK(new, t)
  <2>1. new.claimed_at <= t
    <3>1. r.claimed_at <= t BY <1>8
    <3> QED BY <1>3, <3>1
  <2>2. new.status \in Jobs!Statuses BY <1>3 DEF Jobs!Statuses
  <2> QED BY <1>2, <1>3, <1>5, <1>6, <1>7, <1>9, <2>1, <2>2, JobFits DEF JobOK, SameJob
<1> QED BY <1>3, <1>10 DEF new, set

-----------------------------------------------------------------------------
(* Tables. *)

\* e is d but for one table.
SameBut(d, e, x) == DOMAIN e = Tables /\ \A y \in Tables \ {x} : e[y] = d[y]

\* A statement changes one table.
LEMMA ExceptIs ==
    ASSUME NEW d, DOMAIN d = Tables, NEW x \in Tables, NEW new
    PROVE  SameBut(d, [d EXCEPT ![x] = new], x) /\ [d EXCEPT ![x] = new][x] = new
BY DEF SameBut

\* A row that is added has the next id.
LEMMA AssignedIs ==
    ASSUME NEW table, NEW n, NEW row
    PROVE  /\ DOMAIN Assigned(table, n, row) = DOMAIN table \cup {n}
           /\ Assigned(table, n, row)[n] = row
           /\ \A i \in DOMAIN table : i # n => Assigned(table, n, row)[i] = table[i]
BY DEF Assigned

\* The ids after a row was added.
LEMMA IdsAfter ==
    ASSUME NEW table, NEW n \in Nat, IdsOK(table, n), NEW row, row.id = n
    PROVE  n \notin DOMAIN table /\ IdsOK(Assigned(table, n, row), n + 1)
<1>1. n \notin DOMAIN table BY DEF IdsOK
<1> DEFINE new == Assigned(table, n, row)
<1>2. DOMAIN new = DOMAIN table \cup {n} /\ new[n] = row /\ \A i \in DOMAIN table : new[i] = table[i]
  BY <1>1 DEF Assigned
<1> HIDE DEF new
<1>3. \A i \in DOMAIN new : i \in Nat /\ i < n + 1 /\ new[i].id = i
  BY <1>2 DEF IdsOK
<1> QED BY <1>1, <1>3 DEF IdsOK, new

\* What holds of a view goes on holding as time passes.
LEMMA JobLater ==
    ASSUME NEW r, NEW t \in Nat, NEW u \in Nat, t <= u, JobOK(r, t)
    PROVE  JobOK(r, u)
<1>1. JobTyped(r) BY JobFits DEF JobOK
<1>2. r.claimed_at # Null => r.claimed_at <= u BY <1>1 DEF JobOK, JobTyped
<1>3. r.finished_at # Null => r.finished_at <= u BY <1>1 DEF JobOK, JobTyped
<1> QED BY <1>2, <1>3 DEF JobOK

\* The same of the tables that have times.
LEMMA TablesLater ==
    ASSUME NEW table, NEW n, NEW t \in Nat, NEW u \in Nat, t <= u
    PROVE  /\ JobsOK(table, n, t) => JobsOK(table, n, u)
           /\ PackagesOK(table, n, t) => PackagesOK(table, n, u)
           /\ VersionsOK(table, n, t) => VersionsOK(table, n, u)
<1>1. JobsOK(table, n, t) => JobsOK(table, n, u) BY JobLater DEF JobsOK
<1>2. PackagesOK(table, n, t) => PackagesOK(table, n, u)
  <2>1. \A time : time \in Nat /\ time <= t => time <= u OBVIOUS
  <2>2. \A i \in DOMAIN table : ManagedPackages!Fits(table[i]) => table[i].updated_at \in Nat
    BY DEF ManagedPackages!Fits, ManagedPackages!Times
  <2> QED BY <2>1, <2>2 DEF PackagesOK
<1>3. VersionsOK(table, n, t) => VersionsOK(table, n, u)
  <2>1. \A time : time \in Nat /\ time <= t => time <= u OBVIOUS
  <2>2. \A i \in DOMAIN table : PackageVersions!Fits(table[i]) => table[i].first_seen_at \in Nat
    BY DEF PackageVersions!Fits
  <2> QED BY <2>1, <2>2 DEF VersionsOK
<1> QED BY <1>1, <1>2, <1>3

\* The same of a view.
LEMMA ViewLater ==
    ASSUME NEW d, NEW n, NEW t \in Nat, NEW u \in Nat, t <= u, View(d, n, t)
    PROVE  View(d, n, u)
BY TablesLater DEF View

\* A smaller table.
IsPart(new, table) == DOMAIN new \subseteq DOMAIN table /\ \A i \in DOMAIN new : new[i] = table[i]

\* Of a smaller table the same is true.
LEMMA PartsOK ==
    ASSUME NEW table, NEW new, IsPart(new, table), NEW n, NEW t
    PROVE  /\ ArtifactsOK(table, n) => ArtifactsOK(new, n)
           /\ DependenciesOK(table, n) => DependenciesOK(new, n)
           /\ JobsOK(table, n, t) => JobsOK(new, n, t)
           /\ PackagesOK(table, n, t) => PackagesOK(new, n, t)
           /\ VersionsOK(table, n, t) => VersionsOK(new, n, t)
<1>1. IdsOK(table, n) => IdsOK(new, n) BY DEF IdsOK, IsPart
<1>2. ArtifactsOK(table, n) => ArtifactsOK(new, n) BY <1>1 DEF ArtifactsOK, IsPart
<1>3. DependenciesOK(table, n) => DependenciesOK(new, n) BY <1>1 DEF DependenciesOK, IsPart
<1>4. JobsOK(table, n, t) => JobsOK(new, n, t) BY <1>1 DEF JobsOK, IsPart
<1>5. PackagesOK(table, n, t) => PackagesOK(new, n, t) BY <1>1 DEF PackagesOK, IsPart
<1>6. VersionsOK(table, n, t) => VersionsOK(new, n, t) BY <1>1 DEF VersionsOK, IsPart
<1> QED BY <1>2, <1>3, <1>4, <1>5, <1>6

-----------------------------------------------------------------------------
(* Creations. *)

\* What the statement does.
CreatesArtifact(table, n, j, f, t, row) ==
    /\ Artifacts!Create(table, n, Setting([job_id |-> j, filename |-> f, sha256 |-> f,
                                           size_bytes |-> 1, published_at |-> t]))
       = [err |-> "none", table |-> Assigned(table, n, row)]
    /\ row.job_id = j
    /\ ArtifactsOK(Assigned(table, n, row), n + 1)

\* An artifact whose job and name are new.
LEMMA ArtifactCreated ==
    ASSUME NEW table, NEW n \in Nat, ArtifactsOK(table, n),
           NEW j \in Nat, NEW f \in STRING, NEW t \in Nat,
           \A i \in DOMAIN table : ~(table[i].job_id = j /\ table[i].filename = f)
    PROVE  \E row : CreatesArtifact(table, n, j, f, t, row)
<1> DEFINE set == [job_id |-> j, filename |-> f, sha256 |-> f, size_bytes |-> 1, published_at |-> t]
           row == Artifacts!NewRow(n, Setting(set), Artifacts!Columns)
           new == Assigned(table, n, row)
<1>1. /\ DOMAIN set = {"job_id", "filename", "sha256", "size_bytes", "published_at"}
      /\ set["job_id"] = j /\ set["filename"] = f /\ set["sha256"] = f
      /\ set["size_bytes"] = 1 /\ set["published_at"] = t
  OBVIOUS
<1> HIDE DEF set
<1>2. Setting(set).set = set BY DEF Setting, NoChange
<1>3. /\ DOMAIN row = Artifacts!Columns
      /\ row.id = n /\ row.job_id = j /\ row.filename = f /\ row.sha256 = f
      /\ row.size_bytes = 1 /\ row.published_at = t
  <2>1. row = [c \in Artifacts!Columns |->
                IF c = "id" THEN n ELSE IF c \in DOMAIN set THEN set[c] ELSE Null]
    BY <1>2 DEF Artifacts!NewRow
  <2> HIDE DEF row
  <2> QED BY <1>1, <2>1 DEF Artifacts!Columns
<1> HIDE DEF row
<1>4. Artifacts!Fits(row)
  <2>1. \A c \in {"id", "job_id", "size_bytes"} : row[c] \in Int BY <1>3
  <2>2. \A c \in Artifacts!Texts : row[c] \in STRING BY <1>3 DEF Artifacts!Texts
  <2> QED BY <1>3, <2>1, <2>2 DEF Artifacts!Fits
<1>5. n \notin DOMAIN table /\ IdsOK(new, n + 1) BY <1>3, IdsAfter DEF ArtifactsOK
<1>6. DOMAIN new = DOMAIN table \cup {n} /\ new[n] = row /\ \A i \in DOMAIN table : new[i] = table[i]
  BY <1>5 DEF Assigned
<1> HIDE DEF new
<1>7. \A i, k \in DOMAIN new :
        new[i].job_id = new[k].job_id /\ new[i].filename = new[k].filename => i = k
  BY <1>3, <1>6 DEF ArtifactsOK
<1>8. ArtifactsOK(new, n + 1) BY <1>4, <1>5, <1>6, <1>7 DEF ArtifactsOK
<1>9. Artifacts!Create(table, n, Setting(set)) = [err |-> "none", table |-> new]
  <2>1. Artifacts!Required \subseteq DOMAIN set
    BY <1>1 DEF Artifacts!Required, Artifacts!Settable, Artifacts!Columns, Artifacts!Clearable
  <2>2. Artifacts!Assigned(table, n, row) = new BY DEF Artifacts!Assigned, Assigned, new
  <2>3. ~Artifacts!Violates(new, Artifacts!Indexes)
    BY <1>7 DEF Artifacts!Violates, Artifacts!Indexes
  <2> QED BY <1>2, <2>1, <2>2, <2>3
      DEF Artifacts!Create, Artifacts!Constrained, Artifacts!Succeeds, row
<1> QED BY <1>3, <1>8, <1>9 DEF CreatesArtifact, new, set

\* What the statement does.
CreatesDependency(table, n, v, name, kind, row) ==
    /\ Dependencies!Create(table, n, Setting([package_version_id |-> v,
                                dependency_name |-> name, dependency_kind |-> kind]))
       = [err |-> "none", table |-> Assigned(table, n, row)]
    /\ row.package_version_id = v /\ row.dependency_name = name /\ row.dependency_kind = kind
    /\ DependenciesOK(Assigned(table, n, row), n + 1)

\* A dependency that its version has not yet.
LEMMA DependencyCreated ==
    ASSUME NEW table, NEW n \in Nat, DependenciesOK(table, n),
           NEW v \in Nat, NEW name \in STRING, NEW kind \in Dependencies!Kinds,
           \A i \in DOMAIN table :
                ~(table[i].package_version_id = v /\ table[i].dependency_name = name)
    PROVE  \E row : CreatesDependency(table, n, v, name, kind, row)
<1> DEFINE set == [package_version_id |-> v, dependency_name |-> name, dependency_kind |-> kind]
           row == Dependencies!NewRow(n, Setting(set), Dependencies!Columns)
           new == Assigned(table, n, row)
<1>1. /\ DOMAIN set = {"package_version_id", "dependency_name", "dependency_kind"}
      /\ set["package_version_id"] = v /\ set["dependency_name"] = name
      /\ set["dependency_kind"] = kind
  OBVIOUS
<1> HIDE DEF set
<1>2. Setting(set).set = set BY DEF Setting, NoChange
<1>3. /\ DOMAIN row = Dependencies!Columns
      /\ row.id = n /\ row.package_version_id = v /\ row.dependency_name = name
      /\ row.dependency_kind = kind
  <2>1. row = [c \in Dependencies!Columns |->
                IF c = "id" THEN n ELSE IF c \in DOMAIN set THEN set[c] ELSE Null]
    BY <1>2 DEF Dependencies!NewRow
  <2> HIDE DEF row
  <2> QED BY <1>1, <2>1 DEF Dependencies!Columns
<1> HIDE DEF row
<1>4. Dependencies!Fits(row)
  <2>1. kind \in STRING BY WrittenTexts DEF Dependencies!Kinds, Written
  <2>2. \A c \in {"id", "package_version_id"} : row[c] \in Int BY <1>3
  <2>3. \A c \in {"dependency_name", "dependency_kind"} : row[c] \in STRING BY <1>3, <2>1
  <2> QED BY <1>3, <2>2, <2>3 DEF Dependencies!Fits
<1>5. n \notin DOMAIN table /\ IdsOK(new, n + 1) BY <1>3, IdsAfter DEF DependenciesOK
<1>6. DOMAIN new = DOMAIN table \cup {n} /\ new[n] = row /\ \A i \in DOMAIN table : new[i] = table[i]
  BY <1>5 DEF Assigned
<1> HIDE DEF new
<1>7. \A i, k \in DOMAIN new :
        /\ new[i].package_version_id = new[k].package_version_id
        /\ new[i].dependency_name = new[k].dependency_name
        => i = k
  BY <1>3, <1>6 DEF DependenciesOK
<1>8. DependenciesOK(new, n + 1) BY <1>3, <1>4, <1>5, <1>6, <1>7 DEF DependenciesOK
<1>9. Dependencies!Create(table, n, Setting(set)) = [err |-> "none", table |-> new]
  <2>1. Dependencies!Required \subseteq DOMAIN set
    BY <1>1 DEF Dependencies!Required, Dependencies!Settable, Dependencies!Columns,
                Dependencies!Clearable
  <2>2. Dependencies!Assigned(table, n, row) = new BY DEF Dependencies!Assigned, Assigned, new
  <2>3. ~Dependencies!Violates(new, Dependencies!Indexes)
    BY <1>7 DEF Dependencies!Violates, Dependencies!Indexes
  <2>4. Dependencies!Valid(Setting(set)) BY <1>1, <1>2 DEF Dependencies!Valid
  <2> QED BY <1>2, <2>1, <2>2, <2>3, <2>4
      DEF Dependencies!Create, Dependencies!Constrained, Dependencies!Succeeds, row
<1> QED BY <1>3, <1>8, <1>9 DEF CreatesDependency, new, set

\* What the statement does.
CreatesVersion(table, n, k, rev, name, t, row) ==
    /\ PackageVersions!Create(table, n,
            Setting([package_id |-> k, revision |-> rev, source_digest |-> rev,
                     pkgver |-> rev, pkgrel |-> "1", metadata |-> {name},
                     first_seen_at |-> t]))
       = [err |-> "none", table |-> Assigned(table, n, row)]
    /\ row.package_id = k /\ row.revision = rev
    /\ VersionsOK(Assigned(table, n, row), n + 1, t)

\* A version whose revision its package has not yet, seen after all others.
LEMMA VersionCreated ==
    ASSUME NEW table, NEW n \in Nat, NEW t \in Nat, VersionsOK(table, n, t),
           NEW k \in Nat, NEW rev \in STRING, NEW name \in STRING,
           \A i \in DOMAIN table : ~(table[i].package_id = k /\ table[i].revision = rev),
           \A i \in DOMAIN table : table[i].first_seen_at < t
    PROVE  \E row : CreatesVersion(table, n, k, rev, name, t, row)
<1> DEFINE set == [package_id |-> k, revision |-> rev, source_digest |-> rev, pkgver |-> rev,
                   pkgrel |-> "1", metadata |-> {name}, first_seen_at |-> t]
           row == PackageVersions!NewRow(n, Setting(set), PackageVersions!Columns)
           new == Assigned(table, n, row)
<1>1. /\ DOMAIN set = {"package_id", "revision", "source_digest", "pkgver", "pkgrel", "metadata",
                       "first_seen_at"}
      /\ set["package_id"] = k /\ set["revision"] = rev /\ set["source_digest"] = rev
      /\ set["pkgver"] = rev /\ set["pkgrel"] = "1" /\ set["metadata"] = {name}
      /\ set["first_seen_at"] = t
  OBVIOUS
<1> HIDE DEF set
<1>2. Setting(set).set = set BY DEF Setting, NoChange
<1>3. /\ DOMAIN row = PackageVersions!Columns
      /\ row.id = n /\ row.package_id = k /\ row.revision = rev /\ row.source_digest = rev
      /\ row.pkgver = rev /\ row.pkgrel = "1" /\ row.metadata = {name} /\ row.first_seen_at = t
  <2>1. row = [c \in PackageVersions!Columns |->
                IF c = "id" THEN n ELSE IF c \in DOMAIN set THEN set[c] ELSE Null]
    BY <1>2 DEF PackageVersions!NewRow
  <2> HIDE DEF row
  <2> QED BY <1>1, <2>1 DEF PackageVersions!Columns
<1> HIDE DEF row
<1>4. PackageVersions!Fits(row)
  <2>1. "1" \in STRING BY WrittenTexts DEF Written
  <2>2. \A c \in {"id", "package_id"} : row[c] \in Int BY <1>3
  <2>3. \A c \in PackageVersions!Texts : row[c] \in STRING
    BY <1>3, <2>1 DEF PackageVersions!Texts
  <2>4. row.metadata \in SUBSET STRING BY <1>3
  <2> QED BY <1>3, <2>2, <2>3, <2>4 DEF PackageVersions!Fits
<1>5. n \notin DOMAIN table /\ IdsOK(new, n + 1) BY <1>3, IdsAfter DEF VersionsOK
<1>6. DOMAIN new = DOMAIN table \cup {n} /\ new[n] = row /\ \A i \in DOMAIN table : new[i] = table[i]
  BY <1>5 DEF Assigned
<1> HIDE DEF new
<1>7. \A i, l \in DOMAIN new :
        new[i].package_id = new[l].package_id /\ new[i].revision = new[l].revision => i = l
  BY <1>3, <1>6 DEF VersionsOK
<1>8. \A i, l \in DOMAIN new : i < l => new[i].first_seen_at < new[l].first_seen_at
  <2>1. \A i \in DOMAIN table : i \in Nat /\ i < n BY DEF VersionsOK, IdsOK
  <2>2. TAKE i, l \in DOMAIN new
  <2>3. CASE i = n BY <1>6, <2>1, <2>3
  <2>4. CASE i # n /\ l = n BY <1>3, <1>6, <2>4
  <2>5. CASE i # n /\ l # n BY <1>6, <2>5 DEF VersionsOK
  <2> QED BY <2>3, <2>4, <2>5
<1>9. VersionsOK(new, n + 1, t)
  <2>1. \A i \in DOMAIN new : PackageVersions!Fits(new[i]) /\ new[i].first_seen_at <= t
    <3>1. t <= t OBVIOUS
    <3> QED BY <1>3, <1>4, <1>6, <3>1 DEF VersionsOK
  <2> QED BY <1>5, <1>7, <1>8, <2>1 DEF VersionsOK
<1>10. PackageVersions!Create(table, n, Setting(set)) = [err |-> "none", table |-> new]
  <2>1. PackageVersions!Required \subseteq DOMAIN set
    BY <1>1 DEF PackageVersions!Required, PackageVersions!Settable, PackageVersions!Columns
  <2>2. PackageVersions!Assigned(table, n, row) = new
    BY DEF PackageVersions!Assigned, Assigned, new
  <2>3. ~PackageVersions!Violates(new, PackageVersions!Indexes)
    BY <1>7 DEF PackageVersions!Violates, PackageVersions!Indexes
  <2> QED BY <1>2, <2>1, <2>2, <2>3
      DEF PackageVersions!Create, PackageVersions!Constrained, PackageVersions!Succeeds, row
<1> QED BY <1>3, <1>9, <1>10 DEF CreatesVersion, new, set

\* What the statement does.
CreatesJob(table, n, v, eligible, t, row) ==
    /\ Jobs!Create(table, n, Setting([package_version_id |-> v, eligible_at |-> eligible,
                                      created_at |-> t]))
       = [err |-> "none", table |-> Assigned(table, n, row)]
    /\ row.package_version_id = v
    /\ JobsOK(Assigned(table, n, row), n + 1, t)

\* A job waits when it is created.
LEMMA JobCreated ==
    ASSUME NEW table, NEW n \in Nat, NEW t \in Nat, JobsOK(table, n, t),
           NEW v \in Nat, NEW eligible \in Nat
    PROVE  \E row : CreatesJob(table, n, v, eligible, t, row)
<1> DEFINE set == [package_version_id |-> v, eligible_at |-> eligible, created_at |-> t]
           m == Jobs!WithDefaults(Setting(set))
           row == Jobs!NewRow(n, m, Jobs!Columns)
           new == Assigned(table, n, row)
<1>1. /\ DOMAIN set = {"package_version_id", "eligible_at", "created_at"}
      /\ set["package_version_id"] = v /\ set["eligible_at"] = eligible /\ set["created_at"] = t
  OBVIOUS
<1> HIDE DEF set
<1>2. /\ DOMAIN Jobs!Defaults = {"kind", "status", "attempts"}
      /\ Jobs!Defaults["kind"] = "build" /\ Jobs!Defaults["status"] = "pending"
      /\ Jobs!Defaults["attempts"] = 0
  BY DEF Jobs!Defaults
<1>3. m.set = [c \in DOMAIN set \cup DOMAIN Jobs!Defaults |->
                IF c \in DOMAIN set THEN set[c] ELSE Jobs!Defaults[c]]
  BY DEF Setting, NoChange, Jobs!WithDefaults
<1> HIDE DEF m
<1>4. /\ DOMAIN m.set = {"package_version_id", "eligible_at", "created_at", "kind", "status", "attempts"}
      /\ m.set["package_version_id"] = v /\ m.set["eligible_at"] = eligible
      /\ m.set["created_at"] = t /\ m.set["kind"] = "build" /\ m.set["status"] = "pending"
      /\ m.set["attempts"] = 0
  <2>1. DOMAIN m.set = {"package_version_id", "eligible_at", "created_at", "kind", "status", "attempts"}
    BY <1>1, <1>2, <1>3
  <2>2. m.set["package_version_id"] = v /\ m.set["eligible_at"] = eligible /\ m.set["created_at"] = t
    BY <1>1, <1>2, <1>3
  <2>3. m.set["kind"] = "build" /\ m.set["status"] = "pending" /\ m.set["attempts"] = 0
    BY <1>1, <1>2, <1>3
  <2> QED BY <2>1, <2>2, <2>3
<1>5. /\ DOMAIN row = Jobs!Columns
      /\ row.id = n /\ row.package_version_id = v /\ row.kind = "build" /\ row.status = "pending"
      /\ row.eligible_at = eligible /\ row.claimed_at = Null /\ row.finished_at = Null
      /\ row.attempts = 0 /\ row.log_path = Null /\ row.error = Null /\ row.created_at = t
  <2>1. row = [c \in Jobs!Columns |->
                IF c = "id" THEN n ELSE IF c \in DOMAIN m.set THEN m.set[c] ELSE Null]
    BY DEF Jobs!NewRow
  <2> HIDE DEF row
  <2> QED BY <1>4, <2>1 DEF Jobs!Columns
<1> HIDE DEF row
<1>6. JobOK(row, t)
  <2>1. "build" \in STRING /\ "pending" \in STRING BY WrittenTexts DEF Written
  <2>2. JobTyped(row) BY <1>5, <2>1 DEF JobTyped
  <2>3. ColumnsAgree(row) BY <1>5 DEF ColumnsAgree
  <2>4. row.eligible_at # Null
    <3>1. eligible # Null BY NullAssumption
    <3> QED BY <1>5, <3>1
  <2> QED BY <1>5, <2>2, <2>3, <2>4, JobFits DEF JobOK, Jobs!Statuses
<1>7. n \notin DOMAIN table /\ IdsOK(new, n + 1) BY <1>5, IdsAfter DEF JobsOK
<1>8. DOMAIN new = DOMAIN table \cup {n} /\ new[n] = row /\ \A i \in DOMAIN table : new[i] = table[i]
  BY <1>7 DEF Assigned
<1> HIDE DEF new
<1>9. JobsOK(new, n + 1, t) BY <1>6, <1>7, <1>8 DEF JobsOK
<1>10. Jobs!Create(table, n, Setting(set)) = [err |-> "none", table |-> new]
  <2>1. Jobs!Required \subseteq DOMAIN m.set
    BY <1>4 DEF Jobs!Required, Jobs!Settable, Jobs!Columns, Jobs!Clearable
  <2>2. Jobs!Assigned(table, n, row) = new BY DEF Jobs!Assigned, Assigned, new
  <2>3. ~Jobs!Violates(new, Jobs!Indexes) BY DEF Jobs!Violates, Jobs!Indexes
  <2>4. m.set["status"] \in Jobs!Statuses BY <1>4 DEF Jobs!Statuses
  <2> QED BY <2>1, <2>2, <2>3, <2>4
      DEF Jobs!Create, Jobs!Constrained, Jobs!Succeeds, row, m
<1> QED BY <1>5, <1>9, <1>10 DEF CreatesJob, new, set

\* What CreatePackage sets of a package, and of a new one besides.
SourceOf(name, rev) == [source_kind |-> "aur", source_ref |-> name, source_path |-> rev]
NewPackage(name, rev, t) ==
    [c \in DOMAIN SourceOf(name, rev) \cup {"name", "created_at"} |->
        CASE c = "name" -> name [] c = "created_at" -> t [] OTHER -> SourceOf(name, rev)[c]]

\* What the statement does.
CreatesPackage(table, n, name, rev, t, row) ==
    /\ ManagedPackages!Create(table, n, Setting(NewPackage(name, rev, t)), t)
       = [err |-> "none", table |-> Assigned(table, n, row)]
    /\ row.name = name
    /\ PackagesOK(Assigned(table, n, row), n + 1, t)

\* A package whose name is new.
LEMMA PackageCreated ==
    ASSUME NEW table, NEW n \in Nat, NEW t \in Nat, PackagesOK(table, n, t),
           NEW name \in STRING, NEW rev \in STRING,
           \A i \in DOMAIN table : table[i].name # name
    PROVE  \E row : CreatesPackage(table, n, name, rev, t, row)
<1> DEFINE set == NewPackage(name, rev, t)
           m == ManagedPackages!WithDefaults(Setting(set), t)
           row == ManagedPackages!NewRow(n, m, ManagedPackages!Columns)
           new == Assigned(table, n, row)
           defaults == [enabled |-> TRUE, created_at |-> t, updated_at |-> t]
<1>1. /\ DOMAIN set = {"source_kind", "source_ref", "source_path", "name", "created_at"}
      /\ set["source_kind"] = "aur" /\ set["source_ref"] = name /\ set["source_path"] = rev
      /\ set["name"] = name /\ set["created_at"] = t
  <2>1. DOMAIN set = {"source_kind", "source_ref", "source_path", "name", "created_at"}
    BY DEF NewPackage, SourceOf
  <2>2. set["source_kind"] = "aur" /\ set["source_ref"] = name /\ set["source_path"] = rev
    BY DEF NewPackage, SourceOf
  <2>3. set["name"] = name /\ set["created_at"] = t BY DEF NewPackage, SourceOf
  <2> QED BY <2>1, <2>2, <2>3
<1> HIDE DEF set
<1>2. /\ DOMAIN defaults = {"enabled", "created_at", "updated_at"}
      /\ defaults["enabled"] = TRUE /\ defaults["created_at"] = t /\ defaults["updated_at"] = t
  OBVIOUS
<1>3. m.set = [c \in DOMAIN set \cup DOMAIN defaults |->
                IF c \in DOMAIN set THEN set[c] ELSE defaults[c]]
  BY DEF Setting, NoChange, ManagedPackages!WithDefaults
<1> HIDE DEF m, defaults
<1>4. /\ DOMAIN m.set = {"source_kind", "source_ref", "source_path", "name", "created_at",
                         "enabled", "updated_at"}
      /\ m.set["source_kind"] = "aur" /\ m.set["source_ref"] = name
      /\ m.set["source_path"] = rev /\ m.set["name"] = name /\ m.set["created_at"] = t
      /\ m.set["enabled"] = TRUE /\ m.set["updated_at"] = t
  <2>1. DOMAIN m.set = {"source_kind", "source_ref", "source_path", "name", "created_at",
                        "enabled", "updated_at"}
    BY <1>1, <1>2, <1>3
  <2>2. m.set["source_kind"] = "aur" /\ m.set["source_ref"] = name /\ m.set["source_path"] = rev
    BY <1>1, <1>2, <1>3
  <2>3. m.set["name"] = name /\ m.set["created_at"] = t BY <1>1, <1>2, <1>3
  <2>4. m.set["enabled"] = TRUE /\ m.set["updated_at"] = t BY <1>1, <1>2, <1>3
  <2> QED BY <2>1, <2>2, <2>3, <2>4
<1>5. /\ DOMAIN row = ManagedPackages!Columns
      /\ row.id = n /\ row.name = name /\ row.source_kind = "aur" /\ row.source_ref = name
      /\ row.source_path = rev /\ row.enabled = TRUE /\ row.created_at = t /\ row.updated_at = t
  <2>1. row = [c \in ManagedPackages!Columns |->
                IF c = "id" THEN n ELSE IF c \in DOMAIN m.set THEN m.set[c] ELSE Null]
    BY DEF ManagedPackages!NewRow
  <2> HIDE DEF row
  <2> QED BY <1>4, <2>1 DEF ManagedPackages!Columns
<1> HIDE DEF row
<1>6. ManagedPackages!Fits(row)
  <2>1. "aur" \in STRING BY WrittenTexts DEF Written
  <2>2. \A c \in ManagedPackages!Texts \cup {"source_kind"} : row[c] \in STRING
    BY <1>5, <2>1 DEF ManagedPackages!Texts
  <2>3. \A c \in ManagedPackages!Times : row[c] \in Nat BY <1>5 DEF ManagedPackages!Times
  <2>4. row.id \in Int BY <1>5
  <2>5. row.enabled \in BOOLEAN BY <1>5, Zenon
  <2> QED BY <1>5, <2>2, <2>3, <2>4, <2>5, Zenon DEF ManagedPackages!Fits
<1>7. n \notin DOMAIN table /\ IdsOK(new, n + 1) BY <1>5, IdsAfter DEF PackagesOK
<1>8. DOMAIN new = DOMAIN table \cup {n} /\ new[n] = row /\ \A i \in DOMAIN table : new[i] = table[i]
  BY <1>7 DEF Assigned
<1> HIDE DEF new
<1>9. \A i, k \in DOMAIN new : new[i].name = new[k].name => i = k
  BY <1>5, <1>8 DEF PackagesOK
<1>10. PackagesOK(new, n + 1, t)
  <2>1. t <= t OBVIOUS
  <2>2. row.source_kind \in ManagedPackages!Kinds /\ row.updated_at <= t
    BY <1>5, <2>1 DEF ManagedPackages!Kinds
  <2> QED BY <1>6, <1>7, <1>8, <1>9, <2>2 DEF PackagesOK
<1>11. ManagedPackages!Create(table, n, Setting(set), t) = [err |-> "none", table |-> new]
  <2>1. ManagedPackages!Required \subseteq DOMAIN m.set
    BY <1>4 DEF ManagedPackages!Required, ManagedPackages!Settable, ManagedPackages!Columns
  <2>2. ManagedPackages!Assigned(table, n, row) = new
    BY DEF ManagedPackages!Assigned, Assigned, new
  <2>3. ~ManagedPackages!Violates(new, ManagedPackages!Indexes)
    BY <1>9 DEF ManagedPackages!Violates, ManagedPackages!Indexes
  <2>4. ManagedPackages!Valid(m) BY <1>4 DEF ManagedPackages!Valid, ManagedPackages!Kinds
  <2> QED BY <2>1, <2>2, <2>3, <2>4
      DEF ManagedPackages!Create, ManagedPackages!Constrained, ManagedPackages!Succeeds, row, m
<1> QED BY <1>5, <1>10, <1>11 DEF CreatesPackage, new, set

\* What the statement does.
UpdatesPackage(table, n, id, name, rev, t, row) ==
    /\ ManagedPackages!UpdateOne(table, id, Setting(SourceOf(name, rev)), t)
       = [err |-> "none", table |-> Assigned(table, id, row)]
    /\ row.name = table[id].name /\ row.created_at = table[id].created_at
    /\ row.updated_at = t
    /\ PackagesOK(Assigned(table, id, row), n, t)

\* A package whose source is recorded again: the time of it goes with it.
LEMMA PackageUpdated ==
    ASSUME NEW table, NEW n \in Nat, NEW t \in Nat, PackagesOK(table, n, t),
           NEW id \in DOMAIN table, NEW name \in STRING, NEW rev \in STRING
    PROVE  \E row : UpdatesPackage(table, n, id, name, rev, t, row)
<1> DEFINE r == table[id]
           m == ManagedPackages!Touched(Setting(SourceOf(name, rev)), t)
           row == ManagedPackages!Applied(r, m)
           new == Assigned(table, id, row)
<1>1. /\ DOMAIN m.set = {"source_kind", "source_ref", "source_path", "updated_at"}
      /\ m.set["source_kind"] = "aur" /\ m.set["source_ref"] = name /\ m.set["source_path"] = rev
      /\ m.set["updated_at"] = t /\ DOMAIN m.add = {} /\ m.clear = {}
  <2> DEFINE set == SourceOf(name, rev)
  <2>1. /\ DOMAIN set = {"source_kind", "source_ref", "source_path"}
        /\ set["source_kind"] = "aur" /\ set["source_ref"] = name /\ set["source_path"] = rev
    BY DEF SourceOf
  <2> HIDE DEF set
  <2>2. /\ DOMAIN Setting(set) = {"set", "add", "clear"}
        /\ Setting(set).set = set /\ Setting(set).add = << >> /\ Setting(set).clear = {}
    BY DEF Setting, NoChange
  <2>3. m = ManagedPackages!SetField(Setting(set), "updated_at", t)
    BY <2>1, <2>2 DEF ManagedPackages!Touched, set
  <2>4. /\ m.set = ManagedPackages!Assigned(set, "updated_at", t)
        /\ m.add = ManagedPackages!Dropped(<< >>, "updated_at") /\ m.clear = {}
    BY <2>2, <2>3 DEF ManagedPackages!SetField
  <2> HIDE DEF m
  <2>5. DOMAIN m.add = {} /\ m.clear = {} BY <2>4 DEF ManagedPackages!Dropped
  <2>6. m.set = [c \in DOMAIN set \cup {"updated_at"} |-> IF c = "updated_at" THEN t ELSE set[c]]
    BY <2>4 DEF ManagedPackages!Assigned
  <2>7. DOMAIN m.set = {"source_kind", "source_ref", "source_path", "updated_at"}
    BY <2>1, <2>6
  <2>8. /\ m.set["source_kind"] = "aur" /\ m.set["source_ref"] = name
        /\ m.set["source_path"] = rev /\ m.set["updated_at"] = t
    BY <2>1, <2>6
  <2> QED BY <2>5, <2>7, <2>8
<1> HIDE DEF m
<1>2. /\ ManagedPackages!Fits(r) /\ r.source_kind \in ManagedPackages!Kinds /\ r.id = id
      /\ DOMAIN r = ManagedPackages!Columns
  BY DEF PackagesOK, IdsOK, ManagedPackages!Fits
<1> HIDE DEF r
<1>3. /\ DOMAIN row = ManagedPackages!Columns
      /\ row.id = id /\ row.name = r.name /\ row.source_kind = "aur" /\ row.source_ref = name
      /\ row.source_path = rev /\ row.enabled = r.enabled /\ row.created_at = r.created_at
      /\ row.updated_at = t
  <2>1. row = [c \in ManagedPackages!Columns |-> IF c \in DOMAIN m.set THEN m.set[c] ELSE r[c]]
    BY <1>1, <1>2 DEF ManagedPackages!Applied
  <2> HIDE DEF row
  <2> QED BY <1>1, <1>2, <2>1 DEF ManagedPackages!Columns
<1> HIDE DEF row
<1>4. ManagedPackages!Fits(row)
  <2>1. "aur" \in STRING BY WrittenTexts DEF Written
  <2>2. r.name \in STRING /\ r.enabled \in BOOLEAN /\ r.created_at \in Nat
    BY <1>2 DEF ManagedPackages!Fits, ManagedPackages!Texts, ManagedPackages!Times
  <2>3. \A c \in ManagedPackages!Texts \cup {"source_kind"} : row[c] \in STRING
    BY <1>3, <2>1, <2>2 DEF ManagedPackages!Texts
  <2>4. \A c \in ManagedPackages!Times : row[c] \in Nat
    BY <1>3, <2>2 DEF ManagedPackages!Times
  <2>5. id \in Int BY DEF PackagesOK, IdsOK
  <2> QED BY <1>3, <2>2, <2>3, <2>4, <2>5 DEF ManagedPackages!Fits
<1>5. DOMAIN new = DOMAIN table /\ new[id] = row /\ \A i \in DOMAIN table \ {id} : new[i] = table[i]
  BY DEF Assigned
<1> HIDE DEF new
<1>6. \A i \in DOMAIN new : new[i].name = table[i].name /\ new[i].id = i
  BY <1>3, <1>5 DEF PackagesOK, IdsOK, r
<1>7. \A i, k \in DOMAIN new : new[i].name = new[k].name => i = k
  BY <1>5, <1>6 DEF PackagesOK
<1>8. PackagesOK(new, n, t)
  <2>1. IdsOK(new, n) BY <1>5, <1>6 DEF PackagesOK, IdsOK
  <2>2. t <= t OBVIOUS
  <2>3. row.source_kind \in ManagedPackages!Kinds /\ row.updated_at <= t
    BY <1>3, <2>2 DEF ManagedPackages!Kinds
  <2> QED BY <1>4, <1>5, <1>7, <2>1, <2>3 DEF PackagesOK
<1>9. ManagedPackages!UpdateOne(table, id, Setting(SourceOf(name, rev)), t)
      = [err |-> "none", table |-> new]
  <2>1. ManagedPackages!Valid(Setting(SourceOf(name, rev)))
    BY DEF ManagedPackages!Valid, Setting, NoChange, SourceOf, ManagedPackages!Kinds
  <2>2. [i \in DOMAIN table |-> IF i \in {id} THEN ManagedPackages!Applied(table[i], m) ELSE table[i]]
        = new
    BY DEF new, Assigned, row, r
  <2>3. ~ManagedPackages!Violates(new, ManagedPackages!Indexes)
    BY <1>7 DEF ManagedPackages!Violates, ManagedPackages!Indexes
  <2>4. ManagedPackages!SaveAll(table, {id}, m, ManagedPackages!Indexes)
        = [err |-> "none", table |-> new]
    BY <2>2, <2>3
       DEF ManagedPackages!SaveAll, ManagedPackages!Constrained, ManagedPackages!Succeeds
  <2> QED BY <2>1, <2>4 DEF ManagedPackages!UpdateOne, ManagedPackages!SaveOne, m
<1> QED BY <1>3, <1>8, <1>9 DEF UpdatesPackage, new, r

-----------------------------------------------------------------------------
(* Views. *)

\* A transaction that is open sees tables.
LEMMA ViewIsOpen ==
    ASSUME NEW d, NEW n, NEW t, View(d, n, t)
    PROVE  d # NoTransaction /\ DOMAIN d = Tables
<1>1. DOMAIN d = Tables BY DEF View
<1>2. Tables # {} /\ DOMAIN NoTransaction = {} BY DEF Tables, NoTransaction
<1> QED BY <1>1, <1>2

\* What holds of a view goes on holding as ids are given out.
LEMMA ViewWider ==
    ASSUME NEW d, NEW n \in [Tables -> Nat], NEW m \in [Tables -> Nat],
           \A y \in Tables : n[y] <= m[y], NEW t, View(d, n, t)
    PROVE  View(d, m, t)
<1>1. ASSUME NEW table, NEW y \in Tables, IdsOK(table, n[y]) PROVE IdsOK(table, m[y])
  <2>1. n[y] \in Nat /\ m[y] \in Nat /\ n[y] <= m[y] OBVIOUS
  <2> QED BY <1>1, <2>1 DEF IdsOK
<1>2. /\ n["artifacts"] = n.artifacts /\ m["artifacts"] = m.artifacts
      /\ n["dependencies"] = n.dependencies /\ m["dependencies"] = m.dependencies
      /\ n["jobs"] = n.jobs /\ m["jobs"] = m.jobs
      /\ n["packages"] = n.packages /\ m["packages"] = m.packages
      /\ n["versions"] = n.versions /\ m["versions"] = m.versions
  OBVIOUS
<1>3. {"artifacts", "dependencies", "jobs", "packages", "versions"} \subseteq Tables BY DEF Tables
<1>4. ArtifactsOK(d.artifacts, m.artifacts) BY <1>1, <1>3 DEF View, ArtifactsOK
<1>5. DependenciesOK(d.dependencies, m.dependencies) BY <1>1, <1>3 DEF View, DependenciesOK
<1>6. JobsOK(d.jobs, m.jobs, t) BY <1>1, <1>3 DEF View, JobsOK
<1>7. PackagesOK(d.packages, m.packages, t) BY <1>1, <1>3 DEF View, PackagesOK
<1>8. VersionsOK(d.versions, m.versions, t) BY <1>1, <1>3 DEF View, VersionsOK
<1> QED BY <1>4, <1>5, <1>6, <1>7, <1>8 DEF View

\* A table of a view for another one.
LEMMA ViewWith ==
    ASSUME NEW d, NEW e, NEW n, NEW m, NEW t, NEW x \in Tables,
           View(d, n, t), SameBut(d, e, x), \A y \in Tables \ {x} : m[y] = n[y],
           x = "artifacts" => ArtifactsOK(e.artifacts, m.artifacts),
           x = "dependencies" => DependenciesOK(e.dependencies, m.dependencies),
           x = "jobs" => JobsOK(e.jobs, m.jobs, t),
           x = "packages" => PackagesOK(e.packages, m.packages, t),
           x = "versions" => VersionsOK(e.versions, m.versions, t)
    PROVE  View(e, m, t)
<1>1. \A y \in Tables : y # x => e[y] = d[y] /\ m[y] = n[y] BY DEF SameBut
<1>2. {"artifacts", "dependencies", "jobs", "packages", "versions"} \subseteq Tables BY DEF Tables
<1>3. "artifacts" # x => e.artifacts = d.artifacts /\ m.artifacts = n.artifacts BY <1>1, <1>2
<1>4. "dependencies" # x => e.dependencies = d.dependencies /\ m.dependencies = n.dependencies
  BY <1>1, <1>2
<1>5. "jobs" # x => e.jobs = d.jobs /\ m.jobs = n.jobs BY <1>1, <1>2
<1>6. "packages" # x => e.packages = d.packages /\ m.packages = n.packages BY <1>1, <1>2
<1>7. "versions" # x => e.versions = d.versions /\ m.versions = n.versions BY <1>1, <1>2
<1>8. DOMAIN e = Tables BY DEF SameBut
<1> QED BY <1>3, <1>4, <1>5, <1>6, <1>7, <1>8 DEF View

\* A view has the same rows as itself.
LEMMA KeepsItself ==
    ASSUME NEW d, NEW n, NEW t, View(d, n, t)
    PROVE  Keeps(d, d) /\ Sees(d, d)
<1>1. \A j \in DOMAIN d.jobs : d.jobs[j].attempts \in Int
  BY DEF View, JobsOK, JobOK, Jobs!Fits
<1>2. \A j \in DOMAIN d.jobs : d.jobs[j].attempts >= d.jobs[j].attempts BY <1>1
<1> QED BY <1>2 DEF Sees, Keeps, Follows

-----------------------------------------------------------------------------
(* Updates of jobs. *)

\* Jobs that are updated, and how far they may have come.
JobsChanged(old, new, u) ==
    /\ DOMAIN new = DOMAIN old
    /\ \A i \in DOMAIN old :
        JobOK(new[i], u) /\ SameJob(old[i], new[i]) /\ new[i].attempts >= old[i].attempts

\* No job is updated at all.
LEMMA JobsAlike ==
    ASSUME NEW table, NEW n, NEW t \in Nat, NEW u \in Nat, t <= u, JobsOK(table, n, t)
    PROVE  JobsChanged(table, table, u)
<1>1. \A i \in DOMAIN table : JobOK(table[i], u) BY JobLater DEF JobsOK
<1>2. \A i \in DOMAIN table : table[i].attempts \in Int BY <1>1 DEF JobOK, Jobs!Fits
<1>3. \A i \in DOMAIN table : table[i].attempts >= table[i].attempts BY <1>2
<1> QED BY <1>1, <1>3 DEF JobsChanged, SameJob

\* One job is updated.
LEMMA JobChanged ==
    ASSUME NEW table, NEW n, NEW t \in Nat, NEW u \in Nat, t <= u, JobsOK(table, n, t),
           NEW j \in DOMAIN table, NEW row,
           JobOK(row, u), SameJob(table[j], row), row.attempts >= table[j].attempts
    PROVE  /\ JobsChanged(table, Assigned(table, j, row), u)
           /\ Assigned(table, j, row)[j] = row
           /\ \A i \in DOMAIN table \ {j} : Assigned(table, j, row)[i] = table[i]
<1> DEFINE new == Assigned(table, j, row)
<1>1. DOMAIN new = DOMAIN table /\ new[j] = row /\ \A i \in DOMAIN table \ {j} : new[i] = table[i]
  BY DEF Assigned
<1>2. JobsChanged(table, table, u) BY JobsAlike
<1> HIDE DEF new
<1>3. JobsChanged(table, new, u) BY <1>1, <1>2 DEF JobsChanged
<1> QED BY <1>1, <1>3 DEF new

\* The view after an update of jobs.
LEMMA ChangedView ==
    ASSUME NEW d, NEW e, NEW n, NEW t \in Nat, NEW u \in Nat, t <= u, View(d, n, t),
           SameBut(d, e, "jobs"), JobsChanged(d.jobs, e.jobs, u)
    PROVE  View(e, n, u)
<1>1. View(d, n, u) BY ViewLater
<1>2. JobsOK(e.jobs, n.jobs, u)
  <2>1. JobsOK(d.jobs, n.jobs, u) BY <1>1 DEF View
  <2> QED BY <2>1 DEF JobsOK, IdsOK, JobsChanged, SameJob
<1> QED BY <1>1, <1>2, ViewWith DEF Tables

\* Neither do they refer to anything else afterwards.
LEMMA ChangedWhole ==
    ASSUME NEW d, NEW e, NEW u, SameBut(d, e, "jobs"), JobsChanged(d.jobs, e.jobs, u),
           NEW versions, NEW packages
    PROVE  /\ \A v : JobsOf(e.jobs, v) = JobsOf(d.jobs, v)
           /\ WholeBut(d, versions, packages) => WholeBut(e, versions, packages)
<1>1. /\ e.artifacts = d.artifacts /\ e.dependencies = d.dependencies
      /\ e.packages = d.packages /\ e.versions = d.versions
  BY DEF SameBut, Tables
<1>2. \A v : JobsOf(e.jobs, v) = JobsOf(d.jobs, v) BY DEF JobsOf, JobsChanged, SameJob
<1>3. DOMAIN e.jobs = DOMAIN d.jobs BY DEF JobsChanged
<1>4. \A i \in DOMAIN d.jobs : e.jobs[i].package_version_id = d.jobs[i].package_version_id
  BY DEF JobsChanged, SameJob
<1>5. RefersWithin(d) => RefersWithin(e) BY <1>1, <1>3, <1>4 DEF RefersWithin
<1>6. \A v : VersionIsWhole(d, v) => VersionIsWhole(e, v)
  BY <1>1, <1>2, <1>3 DEF VersionIsWhole
<1> QED BY <1>1, <1>2, <1>5, <1>6 DEF WholeBut

\* A transaction that has recorded a package, beside updates of jobs.
LEMMA ChangedCreate ==
    ASSUME NEW c, NEW d, NEW e, NEW f, NEW g, NEW n, NEW t \in Nat, NEW u \in Nat, t <= u,
           View(d, n, t), View(e, n, t), CreateIs(c, d, e, t), g.packages = d.packages,
           SameBut(e, f, "jobs"), JobsChanged(e.jobs, f.jobs, u)
    PROVE  CreateIs(c, g, f, u)
<1>1. f.dependencies = e.dependencies /\ f.packages = e.packages /\ f.versions = e.versions
  BY DEF SameBut, Tables
<1>2. \A v : JobsOf(f.jobs, v) = JobsOf(e.jobs, v) BY ChangedWhole
<1>3. \A versions, packages : WholeBut(e, versions, packages) => WholeBut(f, versions, packages)
  BY ChangedWhole
<1>4. Named(f, c.name) = Named(e, c.name) BY <1>1 DEF Named
<1>5. \A x \in Nat : x < t => x < u OBVIOUS
<1>6. \A k \in DOMAIN d.packages : d.packages[k].updated_at \in Nat
  BY DEF View, PackagesOK, ManagedPackages!Fits, ManagedPackages!Times
<1>7. \A v \in DOMAIN e.versions : e.versions[v].first_seen_at \in Nat
  BY DEF View, VersionsOK, PackageVersions!Fits
<1>8. c.pc = "managed" =>
        WholeBut(f, {}, {}) /\ \A k \in DOMAIN g.packages : g.packages[k].updated_at < u
  BY <1>3, <1>5, <1>6 DEF CreateIs
<1>9. c.pc \in {"managed", "version"} => \A v \in DOMAIN f.versions : f.versions[v].first_seen_at < u
  BY <1>1, <1>5, <1>7 DEF CreateIs
<1>10. c.pc = "version" => WholeBut(f, {}, Named(f, c.name)) /\ Named(f, c.name) # {}
  BY <1>3, <1>4 DEF CreateIs
<1>11. c.pc = "commit" => WholeBut(f, {}, {}) BY <1>3 DEF CreateIs
<1>12. c.pc \in {"skip", "job"} => c.todo = << >> BY DEF CreateIs
<1> QED BY <1>1, <1>2, <1>3, <1>8, <1>9, <1>10, <1>11, <1>12 DEF CreateIs

\* The same of a transaction that removes one.
LEMMA ChangedRemove ==
    ASSUME NEW c, NEW e, NEW f, NEW u, RemoveIs(c, e),
           SameBut(e, f, "jobs"), JobsChanged(e.jobs, f.jobs, u)
    PROVE  RemoveIs(c, f)
<1>1. /\ f.artifacts = e.artifacts /\ f.dependencies = e.dependencies
      /\ f.packages = e.packages /\ f.versions = e.versions
  BY DEF SameBut, Tables
<1>2. WholeBut(f, c.versions, {c.pkg}) BY ChangedWhole DEF RemoveIs
<1>3. DOMAIN f.jobs = DOMAIN e.jobs BY DEF JobsChanged
<1>4. \A i \in DOMAIN e.jobs : f.jobs[i].package_version_id = e.jobs[i].package_version_id
  BY DEF JobsChanged, SameJob
<1> QED BY <1>1, <1>2, <1>3, <1>4 DEF RemoveIs

\* The rows have come further.
LEMMA ChangedKeeps ==
    ASSUME NEW d, NEW e, NEW u, SameBut(d, e, "jobs"), JobsChanged(d.jobs, e.jobs, u)
    PROVE  Keeps(d, e)
<1>1. e.packages = d.packages /\ e.versions = d.versions BY DEF SameBut, Tables
<1>2. \A j \in DOMAIN d.jobs \cap DOMAIN e.jobs :
        /\ e.jobs[j].created_at = d.jobs[j].created_at
        /\ e.jobs[j].attempts >= d.jobs[j].attempts
  BY DEF JobsChanged, SameJob
<1> QED BY <1>1, <1>2 DEF Keeps

-----------------------------------------------------------------------------
(* Steps. *)

\* Each call has locals of its own.
LEMMA CallKinds ==
    ASSUME RecordsTypeOK
    PROVE  /\ call.fn = "none" => call \in Idles
           /\ call.fn = "create" => call \in Creations
           /\ call.fn = "remove" => call \in Removals
<1>1. \A c \in Idles : c.fn = "none" BY DEF Idles
<1>2. \A c \in Creations : c.fn = "create" BY DEF Creations
<1>3. \A c \in Removals : c.fn = "remove" BY DEF Removals
<1>4. call \in Idles \/ call \in Creations \/ call \in Removals BY DEF RecordsTypeOK
<1> QED BY <1>1, <1>2, <1>3, <1>4

\* The worker takes no notice of other tables than that of the jobs.
LEMMA WorkerAside ==
    ASSUME NEW w, NEW d, NEW e, NEW f, NEW t, e # NoTransaction, e.jobs = f.jobs
    PROVE  /\ ChoiceIs(w, e, t) => ChoiceIs(w, f, t)
           /\ HeldIs(w, d, e) => HeldIs(w, d, f)
BY DEF ChoiceIs, HeldIs

\* The type, as far as the worker is concerned.
WorkerTyped(w, n) ==
    /\ w \in Claimings
    /\ w.pc \in {"latest", "skip", "take", "commit", "build"} => w.job \in Nat /\ w.job < n.jobs

\* More ids given out.
LEMMA WorkerWider ==
    ASSUME NEW w, NEW n \in [Tables -> Nat], NEW m \in [Tables -> Nat],
           n.jobs <= m.jobs, WorkerTyped(w, n)
    PROVE  WorkerTyped(w, m)
<1>1. "jobs" \in Tables BY DEF Tables
<1>2. n.jobs \in Nat /\ m.jobs \in Nat BY <1>1
<1> QED BY <1>2 DEF WorkerTyped

\* The call moves on, and the transaction with it in other tables.
LEMMA SeesRestAside ==
    ASSUME NEW c, NEW g, NEW d, NEW e, NEW f, SeesRest(c, d, e),
           g.fn = c.fn, c.fn = "remove" => g.name = c.name /\ g.jobs = c.jobs,
           f.artifacts = e.artifacts, f.jobs = e.jobs
    PROVE  SeesRest(g, d, f)
BY DEF SeesRest

\* A call goes on in its transaction, or opens it.
LEMMA CallStep ==
    ASSUME RecordsInv,
           db' = db, worker' = worker, publisher' = publisher, now' = now,
           next' \in [Tables -> Nat], \A y \in Tables : next[y] <= next'[y],
           call' \in Creations \cup Removals, InTransaction(call'),
           call'.fn = call.fn, call.fn = "remove" => call'.name = call.name,
           View(tx', next', now), Sees(db, tx'), SeesRest(call', db, tx'),
           call'.fn = "create" => CreateIs(call', db, tx', now),
           call'.fn = "remove" => RemoveIs(call', tx'),
           ChoiceIs(worker, tx', now), HeldIs(worker, db, tx')
    PROVE  RecordsInv' /\ Keeps(db, db')
<1> USE DEF RecordsInv
<1>1. tx' # NoTransaction BY ViewIsOpen
<1>2. now \in Nat /\ next \in [Tables -> Nat] BY DEF RecordsTypeOK
<1>3. RecordsTypeOK'
  <2>1. WorkerTyped(worker, next') BY <1>2, WorkerWider DEF WorkerTyped, RecordsTypeOK, Tables
  <2> QED BY <1>2, <2>1 DEF RecordsTypeOK, WorkerTyped
<1>4. CommittedInv'
  <2>1. View(db, next', now) BY <1>2, ViewWider DEF CommittedInv
  <2> QED BY <2>1 DEF CommittedInv
<1>5. OpenInv' BY <1>1 DEF OpenInv
<1>6. WorkerInv' BY <1>1 DEF WorkerInv
<1>7. PublisherIs(publisher', call', db') BY DEF PublisherIs
<1>8. Keeps(db, db') BY KeepsItself DEF CommittedInv
<1> QED BY <1>3, <1>4, <1>5, <1>6, <1>7, <1>8

\* A call ends without a trace.
LEMMA CallEnds ==
    ASSUME RecordsInv,
           db' = db, worker' = worker, publisher' = publisher, now' = now, next' = next,
           tx' = NoTransaction, call' \in Idles
    PROVE  RecordsInv' /\ Keeps(db, db')
<1> USE DEF RecordsInv
<1>1. RecordsTypeOK' BY DEF RecordsTypeOK
<1>2. CommittedInv' BY DEF CommittedInv
<1>3. call'.fn = "none" BY DEF Idles
<1>4. OpenInv' BY <1>3 DEF OpenInv, InTransaction
<1>5. WorkerInv' BY DEF WorkerInv, HeldIs
<1>6. PublisherIs(publisher', call', db') BY <1>3 DEF PublisherIs
<1>7. Keeps(db, db') BY KeepsItself DEF CommittedInv
<1> QED BY <1>1, <1>2, <1>4, <1>5, <1>6, <1>7

\* A transaction is committed; the job that is published is still there.
LEMMA CallCommits ==
    ASSUME RecordsInv, tx # NoTransaction, Commits, WholeBut(tx, {}, {})
    PROVE  RecordsInv' /\ Keeps(db, db')
<1> USE DEF RecordsInv, Commits
<1>1. call' \in Idles BY DEF Idles, Idle
<1>2. call'.fn = "none" BY <1>1 DEF Idles
<1>3. RecordsTypeOK' BY <1>1 DEF RecordsTypeOK
<1>4. CommittedInv' BY DEF CommittedInv, OpenInv
<1>5. OpenInv' BY <1>2 DEF OpenInv, InTransaction
<1>6. WorkerInv' BY DEF WorkerInv, HeldIs
<1>7. Sees(db, tx) /\ SeesRest(call, db, tx) BY DEF OpenInv
<1>8. PublisherIs(publisher', call', db')
  <2>1. ASSUME publisher.pc # "rest"
        PROVE  publisher.job \in DOMAIN tx.jobs /\ tx.jobs[publisher.job].status = "built"
    <3>1. publisher.job \in DOMAIN db.jobs /\ db.jobs[publisher.job].status = "built"
      BY <2>1 DEF PublisherIs
    <3>2. publisher.job \in DOMAIN tx.jobs BY <1>7, <2>1, <3>1 DEF PublisherIs, SeesRest
    <3> QED BY <1>7, <3>1, <3>2 DEF Sees, Follows
  <2> QED BY <1>2, <2>1 DEF PublisherIs
<1>9. Keeps(db, db') BY <1>7 DEF Sees
<1> QED BY <1>3, <1>4, <1>5, <1>6, <1>8, <1>9

\* Worker and publisher update jobs, in db and where the transaction sees it.
LEMMA JobsStep ==
    ASSUME RecordsInv, next' = next, call' = call, now' \in Nat, now <= now',
           SameBut(db, db', "jobs"), JobsChanged(db.jobs, db'.jobs, now'),
           tx = NoTransaction => tx' = NoTransaction,
           tx # NoTransaction =>
                /\ SameBut(tx, tx', "jobs") /\ JobsChanged(tx.jobs, tx'.jobs, now')
                /\ \A j \in DOMAIN db.jobs \cap DOMAIN tx.jobs :
                    tx'.jobs[j].attempts >= db'.jobs[j].attempts
                /\ Follows(db', tx'),
           WorkerTyped(worker', next), publisher' \in Publications \cup {NotPublishing},
           WorkerInv', PublisherIs(publisher', call, db')
    PROVE  RecordsInv' /\ Keeps(db, db')
<1> USE DEF RecordsInv
<1>1. now \in Nat BY DEF RecordsTypeOK
<1>2. RecordsTypeOK' BY DEF RecordsTypeOK, WorkerTyped
<1>3. View(db, next, now) /\ WholeBut(db, {}, {}) BY DEF CommittedInv
<1>4. View(db', next, now') BY <1>1, <1>3, ChangedView
<1>5. CommittedInv' BY <1>3, <1>4, ChangedWhole DEF CommittedInv
<1>6. Keeps(db, db') BY ChangedKeeps
<1>7. CASE tx = NoTransaction
  <2>1. OpenInv' BY <1>7 DEF OpenInv, InTransaction
  <2> QED BY <1>2, <1>5, <1>6, <2>1
<1>8. CASE tx # NoTransaction
  <2>1. View(tx, next, now) /\ Sees(db, tx) /\ SeesRest(call, db, tx) BY <1>8 DEF OpenInv
  <2>2. View(tx', next, now') BY <1>1, <1>8, <2>1, ChangedView
  <2>3. tx' # NoTransaction BY <2>2, ViewIsOpen
  <2>4. /\ db'.packages = db.packages /\ db'.versions = db.versions
        /\ db'.artifacts = db.artifacts
    BY DEF SameBut, Tables
  <2>5. /\ tx'.packages = tx.packages /\ tx'.versions = tx.versions
        /\ tx'.artifacts = tx.artifacts
    BY <1>8 DEF SameBut, Tables
  <2>6. DOMAIN db'.jobs = DOMAIN db.jobs /\ DOMAIN tx'.jobs = DOMAIN tx.jobs
    BY <1>8 DEF JobsChanged
  <2>7. Sees(db', tx')
    <3>1. \A j \in DOMAIN db.jobs \cap DOMAIN tx.jobs :
            tx'.jobs[j].created_at = db'.jobs[j].created_at
      BY <1>8, <2>1 DEF Sees, Keeps, Follows, JobsChanged, SameJob
    <3> QED BY <1>8, <2>1, <2>4, <2>5, <2>6, <3>1 DEF Sees, Keeps, Follows
  <2>8. SeesRest(call, db', tx')
    <3>1. \A j \in DOMAIN db.jobs : PackageName(db', j) = PackageName(db, j)
      BY <2>4 DEF PackageName, JobsChanged, SameJob
    <3> QED BY <2>1, <2>4, <2>5, <2>6, <3>1 DEF SeesRest
  <2>9. call.fn = "create" => CreateIs(call, db', tx', now')
    BY <1>1, <1>3, <1>8, <2>1, <2>4, ChangedCreate DEF OpenInv
  <2>10. call.fn = "remove" /\ call.pc # "read" => RemoveIs(call, tx')
    BY <1>8, ChangedRemove DEF OpenInv
  <2>11. OpenInv' BY <1>8, <2>2, <2>3, <2>7, <2>8, <2>9, <2>10 DEF OpenInv
  <2> QED BY <1>2, <1>5, <1>6, <2>11
<1> QED BY <1>7, <1>8

\* A write inside a transaction.
LEMMA WritesInTransaction ==
    ASSUME tx # NoTransaction, DOMAIN tx = Tables, next \in [Tables -> Nat],
           NEW x \in Tables, NEW new, NEW c, Writes(x, [err |-> "none", table |-> new], c)
    PROVE  /\ db' = db /\ worker' = worker /\ publisher' = publisher /\ now' = now /\ call' = c
           /\ SameBut(tx, tx', x) /\ tx'[x] = new
           /\ next' \in [Tables -> Nat]
           /\ \A y \in Tables \ {x} : next'[y] = next[y]
           /\ next'[x] = IF next[x] \in DOMAIN new THEN next[x] + 1 ELSE next[x]
<1>1. /\ tx' = [tx EXCEPT ![x] = new] /\ db' = db /\ call' = c
      /\ next' = [next EXCEPT ![x] = IF @ \in DOMAIN new THEN @ + 1 ELSE @]
      /\ worker' = worker /\ publisher' = publisher /\ now' = now
  BY DEF Writes
<1>2. SameBut(tx, tx', x) /\ tx'[x] = new BY <1>1, ExceptIs
<1>3. next[x] \in Nat /\ \A y \in Tables : next[y] \in Nat OBVIOUS
<1>4. next' \in [Tables -> Nat] BY <1>1, <1>3
<1>5. /\ \A y \in Tables \ {x} : next'[y] = next[y]
      /\ next'[x] = IF next[x] \in DOMAIN new THEN next[x] + 1 ELSE next[x]
  BY <1>1
<1> QED BY <1>1, <1>2, <1>4, <1>5

\* The ids that have been given out afterwards.
LEMMA NextAfter ==
    ASSUME next \in [Tables -> Nat], next' \in [Tables -> Nat], NEW x \in Tables, NEW new,
           \A y \in Tables \ {x} : next'[y] = next[y],
           next'[x] = IF next[x] \in DOMAIN new THEN next[x] + 1 ELSE next[x]
    PROVE  \A y \in Tables : next[y] <= next'[y]
<1>1. \A y \in Tables : next[y] \in Nat OBVIOUS
<1> QED BY <1>1

-----------------------------------------------------------------------------
(* CreatePackage. *)

\* While a package is created.
LEMMA Creating ==
    ASSUME RecordsInv, call.fn = "create"
    PROVE  /\ tx # NoTransaction /\ DOMAIN tx = Tables
           /\ View(tx, next, now) /\ View(db, next, now) /\ Sees(db, tx)
           /\ CreateIs(call, db, tx, now) /\ call \in Creations /\ SeesRest(call, db, tx)
           /\ ChoiceIs(worker, tx, now) /\ HeldIs(worker, db, tx)
           /\ now \in Nat /\ next \in [Tables -> Nat]
           /\ call.name \in STRING /\ call.rev \in STRING
<1>1. tx # NoTransaction /\ call \in Creations
  BY CallKinds DEF RecordsInv, OpenInv, InTransaction
<1>2. View(tx, next, now) /\ DOMAIN tx = Tables BY <1>1, ViewIsOpen DEF RecordsInv, OpenInv
<1>3. call.name \in STRING /\ call.rev \in STRING BY <1>1, RecordsAssumption DEF Creations
<1> QED BY <1>1, <1>2, <1>3 DEF RecordsInv, RecordsTypeOK, CommittedInv, OpenInv, WorkerInv

\* The job that was chosen was due before, and is due now.
LEMMA ChoiceLater ==
    ASSUME NEW w, NEW d, NEW n, NEW t \in Nat, NEW u \in Nat, t <= u, View(d, n, t),
           ChoiceIs(w, d, t)
    PROVE  ChoiceIs(w, d, u)
<1>1. \A j \in DOMAIN d.jobs : d.jobs[j].eligible_at \in Nat
  BY DEF View, JobsOK, JobOK, Jobs!Fits, Jobs!Times
<1>2. \A j \in DOMAIN d.jobs : d.jobs[j].eligible_at <= t => d.jobs[j].eligible_at <= u BY <1>1
<1> QED BY <1>2 DEF ChoiceIs

\* The transaction opens.
LEMMA CreateBeginStep ==
    ASSUME RecordsInv, NEW name \in Names, NEW rev \in Revisions,
           CreateBegin(name, rev, now + 1 + Delay[rev])
    PROVE  RecordsInv' /\ Keeps(db, db')
<1> DEFINE c == [fn |-> "create", pc |-> "managed", name |-> name, rev |-> rev,
                 eligible |-> now + 1 + Delay[rev], version |-> Null, todo |-> << >>]
<1>1. /\ now' = now + 1 /\ call' = c /\ tx' = db
      /\ db' = db /\ next' = next /\ worker' = worker /\ publisher' = publisher /\ call.fn = "none"
  BY DEF CreateBegin, Begins
<1>2. now \in Nat /\ now' \in Nat /\ now <= now' BY <1>1 DEF RecordsInv, RecordsTypeOK
<1>3. c \in Creations
  <2>1. now + 1 + Delay[rev] \in Nat BY <1>2, RecordsAssumption
  <2> QED BY <2>1 DEF Creations
<1>4. View(db, next, now) /\ WholeBut(db, {}, {}) BY DEF RecordsInv, CommittedInv
<1>5. View(db, next, now') BY <1>2, <1>4, ViewLater
<1>6. RecordsTypeOK' BY <1>1, <1>2, <1>3 DEF RecordsInv, RecordsTypeOK
<1>7. CommittedInv' BY <1>1, <1>4, <1>5 DEF CommittedInv
<1>8. Keeps(db, db) /\ Sees(db, db) BY <1>4, KeepsItself
<1>9. db # NoTransaction BY <1>4, ViewIsOpen
<1>10. CreateIs(c, db, db, now')
  <2>1. \A x \in Nat : x <= now => x < now' BY <1>1, <1>2
  <2>2. \A k \in DOMAIN db.packages : db.packages[k].updated_at < now'
    BY <1>4, <2>1 DEF View, PackagesOK, ManagedPackages!Fits, ManagedPackages!Times
  <2>3. \A v \in DOMAIN db.versions : db.versions[v].first_seen_at < now'
    BY <1>4, <2>1 DEF View, VersionsOK, PackageVersions!Fits
  <2>4. c.pc = "managed" OBVIOUS
  <2> HIDE DEF c
  <2> QED BY <1>4, <2>2, <2>3, <2>4 DEF CreateIs
<1>11. OpenInv'
  <2>1. c.fn = "create" OBVIOUS
  <2> HIDE DEF c
  <2>2. SeesRest(c, db, db) BY <2>1 DEF SeesRest
  <2> QED BY <1>1, <1>5, <1>8, <1>9, <1>10, <2>1, <2>2 DEF OpenInv, InTransaction
<1>12. WorkerInv'
  <2>1. ChoiceIs(worker, db, now') BY <1>2, <1>4, ChoiceLater DEF RecordsInv, WorkerInv
  <2>2. HeldIs(worker, db, db) BY DEF RecordsInv, WorkerInv, HeldIs
  <2> QED BY <1>1, <2>1, <2>2 DEF WorkerInv
<1>13. PublisherIs(publisher', call', db')
  <2>1. c.fn = "create" OBVIOUS
  <2> HIDE DEF c
  <2> QED BY <1>1, <2>1 DEF RecordsInv, PublisherIs
<1> QED BY <1>1, <1>6, <1>7, <1>8, <1>11, <1>12, <1>13 DEF RecordsInv

\* The package is recorded, or its source once more.
LEMMA CreateManagedStep ==
    ASSUME RecordsInv, CreateManaged
    PROVE  RecordsInv' /\ Keeps(db, db')
<1> DEFINE name == call.name
           c == [call EXCEPT !.pc = "version"]
           set == SourceOf(name, call.rev)
           found == Only(Named(tx, name))
<1>1. call.fn = "create" /\ call.pc = "managed" BY DEF CreateManaged, At
<1>2. /\ tx # NoTransaction /\ DOMAIN tx = Tables
      /\ View(tx, next, now) /\ View(db, next, now) /\ Sees(db, tx)
      /\ CreateIs(call, db, tx, now) /\ call \in Creations /\ SeesRest(call, db, tx)
      /\ ChoiceIs(worker, tx, now) /\ HeldIs(worker, db, tx)
      /\ now \in Nat /\ next \in [Tables -> Nat] /\ name \in STRING /\ call.rev \in STRING
  BY <1>1, Creating
<1>3. c \in Creations /\ c.fn = "create" /\ c.pc = "version" /\ c.name = name
  BY <1>1, <1>2 DEF Creations
<1>4. PackagesOK(tx.packages, next.packages, now) BY <1>2 DEF View
<1>5. next.packages \in Nat /\ "packages" \in Tables /\ next["packages"] = next.packages
  BY <1>2 DEF Tables
<1>6. \A i, k \in Named(tx, name) : i = k BY <1>4 DEF Named, PackagesOK
<1>7. IF found.err = "not_found"
      THEN Writes("packages",
               ManagedPackages!Create(tx.packages, next.packages,
                   Setting(NewPackage(name, call.rev, now)), now), c)
      ELSE Writes("packages",
               ManagedPackages!UpdateOne(tx.packages, found.id, Setting(set), now), c)
  <2>1. Matching(tx.packages, {Where("name", "EQ", call.name)}, ManagedPackages!Predicates)
        = Named(tx, name)
    BY <1>4, PackagesByName DEF Named
  <2> QED BY <2>1 DEF CreateManaged, NewPackage, SourceOf
<1> HIDE DEF c, set, found
<1> DEFINE Added(id, row) ==
               /\ id = next.packages /\ PackagesOK(Assigned(tx.packages, id, row), id + 1, now)
           Stamped(id, row) ==
               /\ id \in DOMAIN tx.packages /\ tx.packages[id].name = name
               /\ row.created_at = tx.packages[id].created_at /\ row.updated_at = now
               /\ PackagesOK(Assigned(tx.packages, id, row), next.packages, now)
<1>8. \E id, row :
        /\ Writes("packages", [err |-> "none", table |-> Assigned(tx.packages, id, row)], c)
        /\ row.name = name
        /\ Added(id, row) \/ Stamped(id, row)
  <2>1. CASE found.err = "not_found"
    <3>1. \A i \in DOMAIN tx.packages : tx.packages[i].name # name
      <4>1. \A i \in Named(tx, name) : found.err = "none" BY <1>6, OnlyOne DEF found
      <4> QED BY <2>1, <4>1 DEF Named
    <3>2. PICK row :
            CreatesPackage(tx.packages, next.packages, name, call.rev, now, row)
      BY <1>2, <1>4, <1>5, <3>1, PackageCreated
    <3>3. Writes("packages", [err |-> "none", table |-> Assigned(tx.packages, next.packages, row)], c)
      BY <1>7, <2>1, <3>2 DEF CreatesPackage
    <3> QED BY <3>2, <3>3 DEF CreatesPackage
  <2>2. CASE found.err # "not_found"
    <3>1. Named(tx, name) # {} BY <1>6, <2>2, OnlyOne DEF found
    <3>2. PICK id \in Named(tx, name) : TRUE BY <3>1
    <3>3. found.id = id BY <1>6, <3>2, OnlyOne DEF found
    <3>4. id \in DOMAIN tx.packages /\ tx.packages[id].name = name BY <3>2 DEF Named
    <3>5. PICK row :
            UpdatesPackage(tx.packages, next.packages, id, name, call.rev, now, row)
      BY <1>2, <1>4, <1>5, <3>4, PackageUpdated
    <3>6. Writes("packages", [err |-> "none", table |-> Assigned(tx.packages, id, row)], c)
      BY <1>7, <2>2, <3>3, <3>5 DEF UpdatesPackage, set
    <3> QED BY <3>4, <3>5, <3>6 DEF UpdatesPackage
  <2> QED BY <2>1, <2>2
<1>9. PICK id, row :
        /\ Writes("packages", [err |-> "none", table |-> Assigned(tx.packages, id, row)], c)
        /\ row.name = name
        /\ Added(id, row) \/ Stamped(id, row)
  BY <1>8
<1> DEFINE new == Assigned(tx.packages, id, row)
<1>10. /\ db' = db /\ worker' = worker /\ publisher' = publisher /\ now' = now /\ call' = c
       /\ SameBut(tx, tx', "packages") /\ tx'.packages = new
       /\ next' \in [Tables -> Nat]
       /\ \A y \in Tables \ {"packages"} : next'[y] = next[y]
       /\ next'["packages"] = IF next["packages"] \in DOMAIN new THEN next["packages"] + 1 ELSE next["packages"]
  BY <1>2, <1>5, <1>9, WritesInTransaction
<1>11. \A y \in Tables : next[y] <= next'[y] BY <1>2, <1>5, <1>10, NextAfter
<1>12. /\ DOMAIN new = DOMAIN tx.packages \cup {id} /\ new[id] = row
       /\ \A i \in DOMAIN tx.packages : i # id => new[i] = tx.packages[i]
  BY DEF Assigned
<1> HIDE DEF new
<1>13. PackagesOK(tx'.packages, next'.packages, now)
  <2>1. CASE Added(id, row)
    <3>1. next'.packages = id + 1 BY <1>5, <1>10, <1>12, <2>1
    <3> QED BY <1>10, <2>1, <3>1 DEF new
  <2>2. CASE Stamped(id, row)
    <3>1. next["packages"] \notin DOMAIN new BY <1>5, <2>2 DEF PackagesOK, IdsOK, new
    <3> QED BY <1>5, <1>10, <2>2, <3>1 DEF new
  <2> QED BY <1>9, <2>1, <2>2
<1>14. View(tx', next', now) BY <1>2, <1>5, <1>10, <1>13, ViewWith
<1>15. tx'.versions = tx.versions /\ tx'.jobs = tx.jobs /\ tx'.artifacts = tx.artifacts
       /\ tx'.dependencies = tx.dependencies
  BY <1>10 DEF SameBut, Tables
<1>16. Sees(db, tx')
  <2>1. ASSUME NEW k \in DOMAIN db.packages \cap DOMAIN tx'.packages
        PROVE  /\ tx'.packages[k].created_at = db.packages[k].created_at
               /\ tx'.packages[k].name = db.packages[k].name
               /\ tx'.packages[k].source_path # db.packages[k].source_path
                    => tx'.packages[k].updated_at > db.packages[k].updated_at
    <3>1. CASE k # id BY <1>2, <1>10, <1>12, <3>1 DEF Sees, Keeps, Follows
    <3>2. CASE k = id /\ Added(id, row)
      <4>1. id \notin DOMAIN db.packages BY <1>2, <3>2 DEF View, PackagesOK, IdsOK
      <4> QED BY <3>2, <4>1
    <3>3. CASE k = id /\ Stamped(id, row)
      <4>1. tx'.packages[k] = row BY <1>10, <1>12, <3>3
      <4>2. row.name = tx.packages[id].name BY <1>9, <3>3
      <4>3. tx.packages[k].created_at = db.packages[k].created_at
            /\ tx.packages[k].name = db.packages[k].name
        BY <1>2, <3>3 DEF Sees, Keeps, Follows
      <4>4. db.packages[k].updated_at < now BY <1>1, <1>2 DEF CreateIs
      <4>5. db.packages[k].updated_at \in Nat
        BY <1>2 DEF View, PackagesOK, ManagedPackages!Fits, ManagedPackages!Times
      <4>6. now > db.packages[k].updated_at BY <1>2, <4>4, <4>5
      <4> QED BY <3>3, <4>1, <4>2, <4>3, <4>6
    <3> QED BY <1>9, <3>1, <3>2, <3>3
  <2> QED BY <1>2, <1>15, <2>1 DEF Sees, Keeps, Follows
<1>17. CreateIs(c, db, tx', now)
  <2>1. WholeBut(tx, {}, {}) BY <1>1, <1>2 DEF CreateIs
  <2>2. DOMAIN tx.packages \subseteq DOMAIN tx'.packages BY <1>10, <1>12
  <2>3. RefersWithin(tx') BY <1>15, <2>1, <2>2 DEF WholeBut, RefersWithin
  <2>4. \A v \in DOMAIN tx'.versions : VersionIsWhole(tx', v)
    BY <1>15, <2>1 DEF WholeBut, VersionIsWhole
  <2>5. id \in Named(tx', name) BY <1>9, <1>10, <1>12 DEF Named
  <2>6. \A k \in DOMAIN tx'.packages \ Named(tx', name) :
            \E v \in DOMAIN tx'.versions : tx'.versions[v].package_id = k
    BY <1>10, <1>12, <1>15, <2>1, <2>5 DEF WholeBut
  <2>7. WholeBut(tx', {}, Named(tx', name)) BY <2>3, <2>4, <2>6 DEF WholeBut
  <2>8. \A v \in DOMAIN tx'.versions : tx'.versions[v].first_seen_at < now
    BY <1>1, <1>2, <1>15 DEF CreateIs
  <2> QED BY <1>3, <2>5, <2>7, <2>8 DEF CreateIs
<1>18. ChoiceIs(worker, tx', now) /\ HeldIs(worker, db, tx') BY <1>2, <1>15, WorkerAside
<1>19. SeesRest(c, db, tx') BY <1>1, <1>2, <1>3, <1>15, SeesRestAside
<1> QED BY <1>1, <1>3, <1>10, <1>11, <1>14, <1>16, <1>17, <1>18, <1>19, CallStep DEF InTransaction

\* A row is inserted.
LEMMA Inserts ==
    ASSUME tx # NoTransaction, DOMAIN tx = Tables, next \in [Tables -> Nat],
           NEW x \in Tables, next[x] \notin DOMAIN tx[x], NEW row, NEW c,
           Writes(x, [err |-> "none", table |-> Assigned(tx[x], next[x], row)], c)
    PROVE  /\ db' = db /\ worker' = worker /\ publisher' = publisher /\ now' = now /\ call' = c
           /\ SameBut(tx, tx', x) /\ tx'[x] = Assigned(tx[x], next[x], row)
           /\ DOMAIN tx'[x] = DOMAIN tx[x] \cup {next[x]} /\ tx'[x][next[x]] = row
           /\ \A i \in DOMAIN tx[x] : tx'[x][i] = tx[x][i]
           /\ next' \in [Tables -> Nat] /\ next'[x] = next[x] + 1
           /\ \A y \in Tables \ {x} : next'[y] = next[y]
           /\ \A y \in Tables : next[y] <= next'[y]
<1> DEFINE new == Assigned(tx[x], next[x], row)
<1>1. /\ DOMAIN new = DOMAIN tx[x] \cup {next[x]} /\ new[next[x]] = row
      /\ \A i \in DOMAIN tx[x] : new[i] = tx[x][i]
  BY DEF Assigned
<1> HIDE DEF new
<1>2. /\ db' = db /\ worker' = worker /\ publisher' = publisher /\ now' = now /\ call' = c
      /\ SameBut(tx, tx', x) /\ tx'[x] = new
      /\ next' \in [Tables -> Nat]
      /\ \A y \in Tables \ {x} : next'[y] = next[y]
      /\ next'[x] = IF next[x] \in DOMAIN new THEN next[x] + 1 ELSE next[x]
  BY WritesInTransaction DEF new
<1>3. \A y \in Tables : next[y] <= next'[y] BY <1>2, NextAfter
<1>4. next'[x] = next[x] + 1 BY <1>1, <1>2
<1> QED BY <1>1, <1>2, <1>3, <1>4 DEF new

\* The version is recorded unless it was before.
LEMMA CreateVersionStep ==
    ASSUME RecordsInv, CreateVersion
    PROVE  RecordsInv' /\ Keeps(db, db')
<1> DEFINE k == PackageId
           n == next.versions
           c == [call EXCEPT !.pc = "dependencies", !.version = n, !.todo = Deps[call.rev]]
           end == [call EXCEPT !.pc = "commit"]
           same == VersionsAt(tx.versions, k, call.rev)
<1>1. call.fn = "create" /\ call.pc = "version" BY DEF CreateVersion, At
<1>2. /\ tx # NoTransaction /\ DOMAIN tx = Tables
      /\ View(tx, next, now) /\ View(db, next, now) /\ Sees(db, tx)
      /\ CreateIs(call, db, tx, now) /\ call \in Creations /\ SeesRest(call, db, tx)
      /\ ChoiceIs(worker, tx, now) /\ HeldIs(worker, db, tx)
      /\ now \in Nat /\ next \in [Tables -> Nat] /\ call.name \in STRING /\ call.rev \in STRING
  BY <1>1, Creating
<1>3. VersionsOK(tx.versions, next.versions, now) BY <1>2 DEF View
<1>4. n \in Nat /\ "versions" \in Tables /\ next["versions"] = n BY <1>2 DEF Tables
<1>5. /\ k \in Nat /\ k \in DOMAIN tx.packages /\ tx.packages[k].name = call.name
      /\ Named(tx, call.name) = {k}
  <2>1. PICK i \in Named(tx, call.name) : TRUE BY <1>1, <1>2 DEF CreateIs
  <2>2. i \in DOMAIN tx.packages /\ tx.packages[i].name = call.name BY <2>1 DEF Named
  <2>3. k \in DOMAIN tx.packages /\ tx.packages[k].name = call.name
    BY <1>2, <2>2 DEF PackageId
  <2>4. PackagesOK(tx.packages, next.packages, now) BY <1>2 DEF View
  <2> QED BY <2>3, <2>4 DEF Named, PackagesOK, IdsOK
<1> HIDE DEF k
<1>6. IF Only(same).err = "not_found"
      THEN Writes("versions",
               PackageVersions!Create(tx.versions, n,
                   Setting([package_id |-> k, revision |-> call.rev,
                            source_digest |-> call.rev, pkgver |-> call.rev, pkgrel |-> "1",
                            metadata |-> {call.name}, first_seen_at |-> now])), c)
      ELSE Continues(end)
  <2>1. Matching(tx.versions, {Where("package_id", "EQ", k), Where("revision", "EQ", call.rev)},
            PackageVersions!Predicates) = same
    BY <1>3, VersionQueries
  <2> QED BY <2>1 DEF CreateVersion, k
<1>7. \A i, j \in same : i = j BY <1>3 DEF VersionsOK, VersionsAt
<1>8. /\ WholeBut(tx, {}, {k})
      /\ \A v \in DOMAIN tx.versions : tx.versions[v].first_seen_at < now
  BY <1>1, <1>2, <1>5 DEF CreateIs
<1>9. CASE Only(same).err # "not_found"
  <2>1. PICK i \in same : TRUE BY <1>7, <1>9, OnlyOne
  <2>2. /\ db' = db /\ tx' = tx /\ next' = next /\ worker' = worker /\ publisher' = publisher /\ now' = now /\ call' = end
    BY <1>6, <1>9 DEF Continues
  <2>3. end \in Creations /\ end.fn = "create" /\ end.pc = "commit" BY <1>1, <1>2 DEF Creations
  <2> HIDE DEF end
  <2>4. WholeBut(tx, {}, {}) BY <1>8, <2>1 DEF WholeBut, VersionsAt
  <2>5. CreateIs(end, db, tx, now) BY <2>3, <2>4 DEF CreateIs
  <2>6. \A y \in Tables : next[y] <= next'[y] BY <1>2, <2>2
  <2>7. SeesRest(end, db, tx) BY <1>1, <1>2, <2>3, SeesRestAside
  <2> QED BY <1>1, <1>2, <2>2, <2>3, <2>5, <2>6, <2>7, CallStep DEF InTransaction
<1>10. CASE Only(same).err = "not_found"
  <2>1. \A i \in DOMAIN tx.versions :
            ~(tx.versions[i].package_id = k /\ tx.versions[i].revision = call.rev)
    <3>1. \A i \in same : FALSE BY <1>7, <1>10, OnlyOne
    <3> QED BY <3>1 DEF VersionsAt
  <2> HIDE DEF same
  <2>2. PICK row : CreatesVersion(tx.versions, n, k, call.rev, call.name, now, row)
    BY <1>2, <1>3, <1>4, <1>5, <1>8, <2>1, VersionCreated
  <2>3. c \in Creations /\ c.fn = "create" /\ c.pc = "dependencies" /\ c.version = n
        /\ c.rev = call.rev /\ c.todo = Deps[call.rev]
    <3>1. call.rev \in Revisions BY <1>2 DEF Creations
    <3>2. Deps[call.rev] \in Seq(Dependency) BY <3>1, RecordsAssumption DEF Dependency
    <3> QED BY <1>1, <1>2, <1>4, <3>2 DEF Creations
  <2> HIDE DEF c
  <2>4. Writes("versions", [err |-> "none", table |-> Assigned(tx.versions, n, row)], c)
    BY <1>6, <1>10, <2>2 DEF CreatesVersion
  <2>5. n \notin DOMAIN tx.versions /\ \A i \in DOMAIN tx.versions : i # n
    BY <1>3, <1>4 DEF VersionsOK, IdsOK
  <2>6. /\ db' = db /\ worker' = worker /\ publisher' = publisher /\ now' = now /\ call' = c
        /\ SameBut(tx, tx', "versions") /\ tx'.versions = Assigned(tx.versions, n, row)
        /\ DOMAIN tx'.versions = DOMAIN tx.versions \cup {n} /\ tx'.versions[n] = row
        /\ \A i \in DOMAIN tx.versions : tx'.versions[i] = tx.versions[i]
        /\ next' \in [Tables -> Nat] /\ next'.versions = n + 1
        /\ \A y \in Tables \ {"versions"} : next'[y] = next[y]
        /\ \A y \in Tables : next[y] <= next'[y]
    BY <1>2, <1>4, <2>4, <2>5, Inserts
  <2>7. row.package_id = k /\ row.revision = call.rev BY <2>2 DEF CreatesVersion
  <2>8. VersionsOK(tx'.versions, next'.versions, now) BY <2>2, <2>6 DEF CreatesVersion
  <2>9. View(tx', next', now) BY <1>2, <1>4, <2>6, <2>8, ViewWith
  <2>10. /\ tx'.packages = tx.packages /\ tx'.jobs = tx.jobs /\ tx'.artifacts = tx.artifacts
         /\ tx'.dependencies = tx.dependencies
    BY <2>6 DEF SameBut, Tables
  <2>11. Sees(db, tx')
    <3>1. n \notin DOMAIN db.versions BY <1>2, <1>4 DEF View, VersionsOK, IdsOK
    <3> QED BY <1>2, <2>6, <2>10, <3>1 DEF Sees, Keeps, Follows
  <2>12. RefersWithin(tx) BY <1>8 DEF WholeBut
  <2>13. WholeBut(tx', {n}, {})
    <3>1. RefersWithin(tx') BY <1>5, <2>6, <2>7, <2>10, <2>12 DEF RefersWithin
    <3>2. \A v \in DOMAIN tx'.versions \ {n} : VersionIsWhole(tx', v)
      BY <1>8, <2>6, <2>10 DEF WholeBut, VersionIsWhole
    <3>3. \A l \in DOMAIN tx'.packages : \E v \in DOMAIN tx'.versions : tx'.versions[v].package_id = l
      BY <1>8, <2>6, <2>7, <2>10 DEF WholeBut
    <3> QED BY <3>1, <3>2, <3>3 DEF WholeBut
  <2>14. CreateIs(c, db, tx', now)
    <3>1. JobsOf(tx'.jobs, n) = {} BY <2>5, <2>10, <2>12 DEF JobsOf, RefersWithin
    <3>2. \A i \in DOMAIN tx'.dependencies : tx'.dependencies[i].package_version_id # n
      BY <2>5, <2>10, <2>12 DEF RefersWithin
    <3>3. Needed(tx'.dependencies, n) = {} BY <3>2 DEF Needed
    <3>4. call.rev \in Revisions BY <1>2 DEF Creations
    <3>5. \A i, j \in DOMAIN c.todo : c.todo[i].name = c.todo[j].name => i = j
      BY <2>3, <3>4, RecordsAssumption
    <3>6. Needed(tx'.dependencies, n) \cup Pairs(c.todo) = Pairs(Deps[c.rev]) BY <2>3, <3>3
    <3> QED BY <2>3, <2>6, <2>7, <2>13, <3>1, <3>2, <3>5, <3>6 DEF CreateIs
  <2>15. ChoiceIs(worker, tx', now) /\ HeldIs(worker, db, tx') BY <1>2, <2>10, WorkerAside
  <2>16. SeesRest(c, db, tx') BY <1>1, <1>2, <2>3, <2>10, SeesRestAside
  <2> QED BY <1>1, <2>3, <2>6, <2>9, <2>11, <2>14, <2>15, <2>16, CallStep DEF InTransaction
<1> QED BY <1>9, <1>10

\* The first of the dependencies that are still to be recorded, and the rest.
LEMMA FirstOfTodo ==
    ASSUME NEW s \in Seq(Dependency), s # << >>
    PROVE  /\ 1 \in DOMAIN s /\ Head(s) = s[1] /\ Head(s) \in Dependency
           /\ Tail(s) \in Seq(Dependency)
           /\ \A i \in DOMAIN Tail(s) : i # 0 /\ i + 1 \in DOMAIN s /\ Tail(s)[i] = s[i + 1]
           /\ \A i, k \in DOMAIN Tail(s) : i + 1 = k + 1 => i = k
           /\ \A i \in DOMAIN Tail(s) : i + 1 # 1
           /\ Pairs(s) = {<<Head(s).name, depKind(Head(s).aur)>>} \cup Pairs(Tail(s))
<1>1. Len(s) \in Nat /\ DOMAIN s = 1 .. Len(s) /\ Len(s) # 0 OBVIOUS
<1>2. 1 \in DOMAIN s /\ Head(s) = s[1] /\ Head(s) \in Dependency BY <1>1
<1>3. Tail(s) \in Seq(Dependency) /\ DOMAIN Tail(s) = 1 .. (Len(s) - 1) BY <1>1
<1>4. \A i \in DOMAIN Tail(s) : i \in Nat /\ i # 0 /\ i + 1 \in DOMAIN s /\ Tail(s)[i] = s[i + 1]
  BY <1>1, <1>3
<1>5. ToSet(s) = {Head(s)} \cup ToSet(Tail(s))
  <2>1. \A i \in DOMAIN s : i = 1 \/ (i - 1 \in DOMAIN Tail(s) /\ s[i] = Tail(s)[i - 1])
    <3>1. \A i \in DOMAIN s : i = 1 \/ i - 1 \in DOMAIN Tail(s) BY <1>1, <1>3
    <3>2. \A i \in DOMAIN s : i - 1 \in DOMAIN Tail(s) => Tail(s)[i - 1] = s[(i - 1) + 1] BY <1>4
    <3>3. \A i \in DOMAIN s : (i - 1) + 1 = i BY <1>1
    <3> QED BY <3>1, <3>2, <3>3
  <2> DEFINE rest == Tail(s)
  <2>2. /\ \A i \in DOMAIN rest : i + 1 \in DOMAIN s /\ rest[i] = s[i + 1]
        /\ \A i \in DOMAIN s : i = 1 \/ (i - 1 \in DOMAIN rest /\ s[i] = rest[i - 1])
    BY <1>4, <2>1
  <2> HIDE DEF rest
  <2>3. {s[i] : i \in DOMAIN s} = {Head(s)} \cup {rest[i] : i \in DOMAIN rest}
    BY <1>2, <2>2
  <2> QED BY <2>3 DEF ToSet, rest
<1>6. Pairs(s) = {<<Head(s).name, depKind(Head(s).aur)>>} \cup Pairs(Tail(s))
  BY <1>5 DEF Pairs
<1>7. \A i, k \in DOMAIN Tail(s) : /\ i + 1 = k + 1 => i = k
                                   /\ i + 1 # 1
  BY <1>4
<1> QED BY <1>2, <1>3, <1>4, <1>6, <1>7

\* The dependencies of a version after one was recorded.
LEMMA NeededAfter ==
    ASSUME NEW table, NEW new, NEW n, n \notin DOMAIN table, NEW row,
           DOMAIN new = DOMAIN table \cup {n}, new[n] = row,
           \A i \in DOMAIN table : new[i] = table[i]
    PROVE  /\ Needed(new, row.package_version_id)
              = Needed(table, row.package_version_id)
                \cup {<<row.dependency_name, row.dependency_kind>>}
           /\ \A v : v # row.package_version_id => Needed(new, v) = Needed(table, v)
<1>1. ASSUME NEW v
      PROVE  {k \in DOMAIN new : new[k].package_version_id = v}
             = {k \in DOMAIN table : table[k].package_version_id = v}
               \cup (IF v = row.package_version_id THEN {n} ELSE {})
  OBVIOUS
<1>2. ASSUME NEW v, v # row.package_version_id PROVE Needed(new, v) = Needed(table, v)
  BY <1>1, <1>2 DEF Needed
<1>3. Needed(new, row.package_version_id)
      = Needed(table, row.package_version_id) \cup {<<row.dependency_name, row.dependency_kind>>}
  BY <1>1 DEF Needed
<1> QED BY <1>2, <1>3

\* A dependency is recorded, until none is left.
LEMMA CreateDependencyStep ==
    ASSUME RecordsInv, CreateDependency
    PROVE  RecordsInv' /\ Keeps(db, db')
<1> DEFINE s == call.todo
           v == call.version
           n == next.dependencies
           name == Head(s).name
           kind == depKind(Head(s).aur)
           c == [call EXCEPT !.todo = Tail(s)]
           end == [call EXCEPT !.pc = "skip"]
<1>1. call.fn = "create" /\ call.pc = "dependencies" BY DEF CreateDependency, At
<1>2. /\ tx # NoTransaction /\ DOMAIN tx = Tables
      /\ View(tx, next, now) /\ View(db, next, now) /\ Sees(db, tx)
      /\ CreateIs(call, db, tx, now) /\ call \in Creations /\ SeesRest(call, db, tx)
      /\ ChoiceIs(worker, tx, now) /\ HeldIs(worker, db, tx)
      /\ now \in Nat /\ next \in [Tables -> Nat] /\ call.name \in STRING /\ call.rev \in STRING
  BY <1>1, Creating
<1>3. /\ WholeBut(tx, {v}, {})
      /\ v \in DOMAIN tx.versions /\ tx.versions[v].revision = call.rev
      /\ JobsOf(tx.jobs, v) = {}
      /\ Needed(tx.dependencies, v) \cup Pairs(s) = Pairs(Deps[call.rev])
      /\ \A i, k \in DOMAIN s : s[i].name = s[k].name => i = k
      /\ \A i \in DOMAIN tx.dependencies : \A k \in DOMAIN s :
            tx.dependencies[i].package_version_id = v
                => tx.dependencies[i].dependency_name # s[k].name
  BY <1>1, <1>2 DEF CreateIs
<1>4. s \in Seq(Dependency) BY <1>2 DEF Creations
<1>5. IF s = << >> THEN Continues(end)
      ELSE Writes("dependencies",
               Dependencies!Create(tx.dependencies, n,
                   Setting([package_version_id |-> v, dependency_name |-> name,
                            dependency_kind |-> kind])), c)
  BY DEF CreateDependency
<1>6. CASE s = << >>
  <2>1. /\ db' = db /\ tx' = tx /\ next' = next /\ worker' = worker /\ publisher' = publisher /\ now' = now /\ call' = end
    BY <1>5, <1>6 DEF Continues
  <2>2. end \in Creations /\ end.fn = "create" /\ end.pc = "skip" /\ end.version = v
        /\ end.rev = call.rev /\ end.todo = << >>
    BY <1>1, <1>2, <1>6 DEF Creations
  <2> HIDE DEF end
  <2>3. CreateIs(end, db, tx, now) BY <1>3, <1>6, <2>2 DEF CreateIs
  <2>4. \A y \in Tables : next[y] <= next'[y] BY <1>2, <2>1
  <2>5. SeesRest(end, db, tx) BY <1>1, <1>2, <2>2, SeesRestAside
  <2> QED BY <1>1, <1>2, <2>1, <2>2, <2>3, <2>4, <2>5, CallStep DEF InTransaction
<1>7. CASE s # << >>
  <2>1. /\ 1 \in DOMAIN s /\ Head(s) = s[1] /\ Head(s) \in Dependency
        /\ Tail(s) \in Seq(Dependency)
        /\ \A i \in DOMAIN Tail(s) : i # 0 /\ i + 1 \in DOMAIN s /\ Tail(s)[i] = s[i + 1]
        /\ \A i, k \in DOMAIN Tail(s) : i + 1 = k + 1 => i = k
        /\ \A i \in DOMAIN Tail(s) : i + 1 # 1
        /\ Pairs(s) = {<<name, kind>>} \cup Pairs(Tail(s))
    BY <1>4, <1>7, FirstOfTodo
  <2>2. c \in Creations /\ c.fn = "create" /\ c.pc = "dependencies" /\ c.version = v
        /\ c.rev = call.rev /\ c.todo = Tail(s)
    BY <1>1, <1>2, <2>1 DEF Creations
  <2>3. DependenciesOK(tx.dependencies, n) BY <1>2 DEF View
  <2>4. n \in Nat /\ "dependencies" \in Tables /\ next["dependencies"] = n BY <1>2 DEF Tables
  <2>5. v \in Nat BY <1>2, <1>3 DEF View, VersionsOK, IdsOK
  <2>6. name \in STRING /\ kind \in Dependencies!Kinds
    BY <2>1 DEF Dependency, depKind, Dependencies!Kinds
  <2>7. \A i \in DOMAIN tx.dependencies :
            ~(tx.dependencies[i].package_version_id = v /\ tx.dependencies[i].dependency_name = name)
    BY <1>3, <2>1
  <2> HIDE DEF c, name, kind
  <2>8. PICK row : CreatesDependency(tx.dependencies, n, v, name, kind, row)
    BY <2>3, <2>4, <2>5, <2>6, <2>7, DependencyCreated
  <2>9. Writes("dependencies", [err |-> "none", table |-> Assigned(tx.dependencies, n, row)], c)
    BY <1>5, <1>7, <2>8 DEF CreatesDependency
  <2>10. n \notin DOMAIN tx.dependencies BY <2>3, <2>4 DEF DependenciesOK, IdsOK
  <2>11. /\ db' = db /\ worker' = worker /\ publisher' = publisher /\ now' = now /\ call' = c
         /\ SameBut(tx, tx', "dependencies")
         /\ tx'.dependencies = Assigned(tx.dependencies, n, row)
         /\ DOMAIN tx'.dependencies = DOMAIN tx.dependencies \cup {n} /\ tx'.dependencies[n] = row
         /\ \A i \in DOMAIN tx.dependencies : tx'.dependencies[i] = tx.dependencies[i]
         /\ next' \in [Tables -> Nat] /\ next'.dependencies = n + 1
         /\ \A y \in Tables \ {"dependencies"} : next'[y] = next[y]
         /\ \A y \in Tables : next[y] <= next'[y]
    BY <1>2, <2>4, <2>9, <2>10, Inserts
  <2>12. row.package_version_id = v /\ row.dependency_name = name /\ row.dependency_kind = kind
    BY <2>8 DEF CreatesDependency
  <2>13. DependenciesOK(tx'.dependencies, next'.dependencies)
    BY <2>8, <2>11 DEF CreatesDependency
  <2>14. View(tx', next', now) BY <1>2, <2>4, <2>11, <2>13, ViewWith
  <2>15. /\ tx'.packages = tx.packages /\ tx'.jobs = tx.jobs /\ tx'.artifacts = tx.artifacts
         /\ tx'.versions = tx.versions
    BY <2>11 DEF SameBut, Tables
  <2>16. Sees(db, tx') BY <1>2, <2>15 DEF Sees, Keeps, Follows
  <2>17. /\ Needed(tx'.dependencies, v) = Needed(tx.dependencies, v) \cup {<<name, kind>>}
         /\ \A w : w # v => Needed(tx'.dependencies, w) = Needed(tx.dependencies, w)
    BY <2>10, <2>11, <2>12, NeededAfter
  <2>18. WholeBut(tx', {v}, {})
    <3>1. RefersWithin(tx') BY <1>3, <2>11, <2>12, <2>15 DEF WholeBut, RefersWithin
    <3>2. \A w \in DOMAIN tx'.versions \ {v} : VersionIsWhole(tx', w)
      BY <1>3, <2>15, <2>17 DEF WholeBut, VersionIsWhole
    <3> QED BY <1>3, <2>15, <3>1, <3>2 DEF WholeBut
  <2>19. CreateIs(c, db, tx', now)
    <3>1. Needed(tx'.dependencies, v) \cup Pairs(c.todo) = Pairs(Deps[call.rev])
      BY <1>3, <2>1, <2>2, <2>17
    <3>2. \A i, k \in DOMAIN c.todo : c.todo[i].name = c.todo[k].name => i = k
      BY <1>3, <2>1, <2>2
    <3>3. \A k \in DOMAIN c.todo : c.todo[k].name # name
      BY <1>3, <2>1, <2>2 DEF name
    <3>4. \A i \in DOMAIN tx'.dependencies : \A k \in DOMAIN c.todo :
            tx'.dependencies[i].package_version_id = v
                => tx'.dependencies[i].dependency_name # c.todo[k].name
      <4>1. \A k \in DOMAIN c.todo : \E l \in DOMAIN s : c.todo[k] = s[l] BY <2>1, <2>2
      <4> QED BY <1>3, <2>11, <2>12, <3>3, <4>1
    <3> QED BY <1>3, <2>2, <2>15, <2>18, <3>1, <3>2, <3>4 DEF CreateIs
  <2>20. ChoiceIs(worker, tx', now) /\ HeldIs(worker, db, tx') BY <1>2, <2>15, WorkerAside
  <2>21. SeesRest(c, db, tx') BY <1>1, <1>2, <2>2, <2>15, SeesRestAside
  <2> QED BY <1>1, <2>2, <2>11, <2>14, <2>16, <2>19, <2>20, <2>21, CallStep DEF InTransaction
<1> QED BY <1>6, <1>7

\* The version's elder siblings are superseded.
LEMMA SkipStep ==
    ASSUME RecordsInv, skipPendingJobsForPackage
    PROVE  RecordsInv' /\ Keeps(db, db')
<1> DEFINE others == OtherVersions(tx.versions, PackageId, call.version)
           ps == {Where("status", "EQ", "pending"), Where("package_version_id", "In", others)}
           ids == JobsWithOfAll(tx.jobs, "pending", others)
           set == [status |-> "skipped", finished_at |-> now, error |-> "superseded"]
           c == [call EXCEPT !.pc = "job"]
           new == [i \in DOMAIN tx.jobs |->
                        IF i \in ids THEN Overlaid(tx.jobs[i], set) ELSE tx.jobs[i]]
<1>1. call.fn = "create" /\ call.pc = "skip" BY DEF skipPendingJobsForPackage, At
<1>2. /\ tx # NoTransaction /\ DOMAIN tx = Tables
      /\ View(tx, next, now) /\ View(db, next, now) /\ Sees(db, tx)
      /\ CreateIs(call, db, tx, now) /\ call \in Creations /\ SeesRest(call, db, tx)
      /\ ChoiceIs(worker, tx, now) /\ HeldIs(worker, db, tx)
      /\ now \in Nat /\ next \in [Tables -> Nat] /\ call.name \in STRING /\ call.rev \in STRING
  BY <1>1, Creating
<1>3. JobsOK(tx.jobs, next.jobs, now) /\ VersionsOK(tx.versions, next.versions, now)
  BY <1>2 DEF View
<1>4. c \in Creations /\ c.fn = "create" /\ c.pc = "job" /\ c.version = call.version
      /\ c.rev = call.rev /\ c.todo = call.todo
  BY <1>1, <1>2 DEF Creations
<1>5. CreateIs(c, db, tx, now)
  <2> HIDE DEF c
  <2> QED BY <1>1, <1>2, <1>4 DEF CreateIs
<1>6. Matching(tx.jobs, ps, Jobs!Predicates) = ids
  <2> HIDE DEF others
  <2>1. ASSUME NEW s
        PROVE  Matching(tx.jobs,
                   {Where("status", "EQ", s), Where("package_version_id", "In", others)},
                   Jobs!Predicates) = JobsWithOfAll(tx.jobs, s, others)
    BY <1>3, JobQueries
  <2> QED BY <2>1, Zenon
<1>7. /\ ~\E j \in ids : LockedByWorker(j)
      /\ \/ Continues(c)
         \/ Writes("jobs", Jobs!Update(tx.jobs, ps, Setting(set)), c)
  <2>1. Matching(tx.versions,
            {Where("package_id", "EQ", PackageId), Where("id", "NEQ", call.version)},
            PackageVersions!Predicates) = others
    BY <1>3, VersionQueries
  <2> HIDE DEF c, others, ps, ids
  <2> QED BY <1>6, <2>1 DEF skipPendingJobsForPackage, Skipping, ps, c
<1> HIDE DEF c
<1>8. CASE Continues(c)
  <2>1. db' = db /\ tx' = tx /\ next' = next /\ worker' = worker /\ publisher' = publisher /\ now' = now /\ call' = c
    BY <1>8 DEF Continues
  <2>2. \A y \in Tables : next[y] <= next'[y] BY <1>2, <2>1
  <2>3. SeesRest(c, db, tx) BY <1>1, <1>2, <1>4, SeesRestAside
  <2> QED BY <1>1, <1>2, <1>4, <1>5, <2>1, <2>2, <2>3, CallStep DEF InTransaction
<1>9. CASE Writes("jobs", Jobs!Update(tx.jobs, ps, Setting(set)), c)
  <2>1. Jobs!Update(tx.jobs, ps, Setting(set)) = [err |-> "none", table |-> new]
    <3>1. "status" \in DOMAIN set /\ set["status"] \in Jobs!Statuses BY DEF Jobs!Statuses
    <3> HIDE DEF set, others
    <3>2. Matching(tx.jobs, ps, Jobs!Predicates) = ids BY <1>6
    <3> HIDE DEF ps, ids
    <3> QED BY <3>1, <3>2, JobsUpdated
  <2>2. DOMAIN new = DOMAIN tx.jobs
        /\ \A i \in DOMAIN tx.jobs : new[i] = IF i \in ids THEN Overlaid(tx.jobs[i], set) ELSE tx.jobs[i]
    OBVIOUS
  <2>3. \A i \in ids : i \in DOMAIN tx.jobs /\ tx.jobs[i].status = "pending"
    BY DEF JobsWithOfAll
  <2> HIDE DEF ids, new
  <2>4. \A i \in DOMAIN tx.jobs : JobOK(tx.jobs[i], now) /\ tx.jobs[i].attempts \in Int
    BY <1>3 DEF JobsOK, JobOK, Jobs!Fits
  <2>5. ASSUME NEW i \in ids
        PROVE  /\ JobOK(new[i], now) /\ SameJob(tx.jobs[i], new[i])
               /\ new[i].attempts = tx.jobs[i].attempts /\ new[i].status = "skipped"
    BY <1>2, <2>2, <2>3, <2>4, SkippedOK
  <2>6. JobsChanged(tx.jobs, new, now)
    <3>1. JobsChanged(tx.jobs, tx.jobs, now)
      <4>1. now <= now BY <1>2
      <4> QED BY <1>2, <1>3, <4>1, JobsAlike
    <3>2. \A i \in ids : new[i].attempts >= tx.jobs[i].attempts BY <2>3, <2>4, <2>5
    <3> QED BY <2>2, <2>5, <3>1, <3>2 DEF JobsChanged
  <2>7. "jobs" \in Tables /\ next["jobs"] = next.jobs /\ next.jobs \notin DOMAIN new
    BY <1>2, <1>3, <2>2 DEF Tables, JobsOK, IdsOK
  <2>8. /\ db' = db /\ worker' = worker /\ publisher' = publisher /\ now' = now /\ call' = c
        /\ SameBut(tx, tx', "jobs") /\ tx'.jobs = new
        /\ next' \in [Tables -> Nat]
        /\ \A y \in Tables \ {"jobs"} : next'[y] = next[y]
        /\ next'["jobs"] = IF next["jobs"] \in DOMAIN new THEN next["jobs"] + 1 ELSE next["jobs"]
    BY <1>2, <1>9, <2>1, <2>7, WritesInTransaction
  <2>9. next' = next BY <1>2, <2>7, <2>8
  <2>10. now <= now BY <1>2
  <2>11. View(tx', next', now) BY <1>2, <2>6, <2>8, <2>9, <2>10, ChangedView
  <2>12. Sees(db, tx')
    <3>1. tx'.packages = tx.packages /\ tx'.versions = tx.versions BY <2>8 DEF SameBut, Tables
    <3>2. \A j \in DOMAIN tx.jobs :
            /\ new[j].created_at = tx.jobs[j].created_at /\ new[j].attempts = tx.jobs[j].attempts
            /\ new[j].eligible_at = tx.jobs[j].eligible_at
            /\ \/ new[j].status = tx.jobs[j].status
               \/ tx.jobs[j].status = "pending" /\ new[j].status = "skipped"
      BY <2>2, <2>3, <2>5 DEF SameJob
    <3>3. Keeps(db, tx') BY <1>2, <2>2, <2>8, <3>1, <3>2 DEF Sees, Keeps
    <3>4. Follows(db, tx') BY <1>2, <2>2, <2>8, <3>2 DEF Sees, Follows
    <3> QED BY <3>3, <3>4 DEF Sees
  <2>13. CreateIs(c, db, tx', now)
    BY <1>2, <1>5, <2>6, <2>8, <2>10, ChangedCreate
  <2>14. ChoiceIs(worker, tx', now)
    <3>1. ASSUME worker.job \in DOMAIN tx.jobs
          PROVE  /\ new[worker.job].eligible_at = tx.jobs[worker.job].eligible_at
                 /\ \/ new[worker.job].status = tx.jobs[worker.job].status
                    \/ tx.jobs[worker.job].status = "pending" /\ new[worker.job].status = "skipped"
      BY <2>2, <2>3, <2>5, <3>1 DEF SameJob
    <3> QED BY <1>2, <2>2, <2>8, <3>1 DEF ChoiceIs
  <2>15. HeldIs(worker, db, tx')
    <3>1. worker.pc = "commit" => worker.job \notin ids BY <1>7 DEF LockedByWorker
    <3> QED BY <1>2, <2>2, <2>8, <3>1 DEF HeldIs
  <2>16. \A y \in Tables : next[y] <= next'[y] BY <1>2, <2>9
  <2>17. SeesRest(c, db, tx')
    <3>1. tx'.artifacts = tx.artifacts BY <2>8 DEF SameBut, Tables
    <3> QED BY <1>1, <1>2, <1>4, <2>2, <2>8, <3>1 DEF SeesRest
  <2> QED BY <1>1, <1>2, <1>4, <2>8, <2>9, <2>11, <2>12, <2>13, <2>14, <2>15, <2>16, <2>17, CallStep
      DEF InTransaction
<1> QED BY <1>8, <1>9, <1>7

\* The job of the version is recorded.
LEMMA CreateJobStep ==
    ASSUME RecordsInv, CreateJob
    PROVE  RecordsInv' /\ Keeps(db, db')
<1> DEFINE v == call.version
           n == next.jobs
           c == [call EXCEPT !.pc = "commit"]
<1>1. call.fn = "create" /\ call.pc = "job" BY DEF CreateJob, At
<1>2. /\ tx # NoTransaction /\ DOMAIN tx = Tables
      /\ View(tx, next, now) /\ View(db, next, now) /\ Sees(db, tx)
      /\ CreateIs(call, db, tx, now) /\ call \in Creations /\ SeesRest(call, db, tx)
      /\ ChoiceIs(worker, tx, now) /\ HeldIs(worker, db, tx)
      /\ now \in Nat /\ next \in [Tables -> Nat] /\ call.name \in STRING /\ call.rev \in STRING
  BY <1>1, Creating
<1>3. /\ WholeBut(tx, {v}, {})
      /\ v \in DOMAIN tx.versions /\ tx.versions[v].revision = call.rev
      /\ JobsOf(tx.jobs, v) = {}
      /\ Needed(tx.dependencies, v) = Pairs(Deps[call.rev])
  <2>1. Pairs(<< >>) = {}
    <3>1. ToSet(<< >>) = {} BY DEF ToSet
    <3> QED BY <3>1 DEF Pairs
  <2> QED BY <1>1, <1>2, <2>1 DEF CreateIs
<1>4. JobsOK(tx.jobs, n, now) BY <1>2 DEF View
<1>5. n \in Nat /\ "jobs" \in Tables /\ next["jobs"] = n BY <1>2 DEF Tables
<1>6. v \in Nat BY <1>2, <1>3 DEF View, VersionsOK, IdsOK
<1>7. c \in Creations /\ c.fn = "create" /\ c.pc = "commit" BY <1>1, <1>2 DEF Creations
<1>8. call.eligible \in Nat BY <1>2 DEF Creations
<1> HIDE DEF c
<1>9. PICK row : CreatesJob(tx.jobs, n, v, call.eligible, now, row)
  BY <1>2, <1>4, <1>5, <1>6, <1>8, JobCreated
<1>10. Writes("jobs", [err |-> "none", table |-> Assigned(tx.jobs, n, row)], c)
  BY <1>9 DEF CreateJob, CreatesJob, c
<1>11. n \notin DOMAIN tx.jobs BY <1>4, <1>5 DEF JobsOK, IdsOK
<1>12. /\ db' = db /\ worker' = worker /\ publisher' = publisher /\ now' = now /\ call' = c
       /\ SameBut(tx, tx', "jobs") /\ tx'.jobs = Assigned(tx.jobs, n, row)
       /\ DOMAIN tx'.jobs = DOMAIN tx.jobs \cup {n} /\ tx'.jobs[n] = row
       /\ \A i \in DOMAIN tx.jobs : tx'.jobs[i] = tx.jobs[i]
       /\ next' \in [Tables -> Nat] /\ next'.jobs = n + 1
       /\ \A y \in Tables \ {"jobs"} : next'[y] = next[y]
       /\ \A y \in Tables : next[y] <= next'[y]
  BY <1>2, <1>5, <1>10, <1>11, Inserts
<1>13. row.package_version_id = v BY <1>9 DEF CreatesJob
<1>14. JobsOK(tx'.jobs, next'.jobs, now) BY <1>9, <1>12 DEF CreatesJob
<1>15. View(tx', next', now) BY <1>2, <1>5, <1>12, <1>14, ViewWith
<1>16. /\ tx'.packages = tx.packages /\ tx'.versions = tx.versions
       /\ tx'.artifacts = tx.artifacts /\ tx'.dependencies = tx.dependencies
  BY <1>12 DEF SameBut, Tables
<1>17. Sees(db, tx')
  <2>1. n \notin DOMAIN db.jobs BY <1>2, <1>5 DEF View, JobsOK, IdsOK
  <2> QED BY <1>2, <1>12, <1>16, <2>1 DEF Sees, Keeps, Follows
<1>18. WholeBut(tx', {}, {})
  <2>1. RefersWithin(tx') BY <1>3, <1>12, <1>13, <1>16 DEF WholeBut, RefersWithin
  <2>2. JobsOf(tx'.jobs, v) = {n} BY <1>3, <1>12, <1>13 DEF JobsOf
  <2>3. \A w : w # v => JobsOf(tx'.jobs, w) = JobsOf(tx.jobs, w) BY <1>12, <1>13 DEF JobsOf
  <2>4. VersionIsWhole(tx', v) BY <1>3, <1>12, <1>16, <2>2 DEF VersionIsWhole
  <2>5. \A w \in DOMAIN tx'.versions \ {v} : VersionIsWhole(tx', w)
    BY <1>3, <1>12, <1>16, <2>3 DEF WholeBut, VersionIsWhole
  <2> QED BY <1>3, <1>16, <2>1, <2>4, <2>5 DEF WholeBut
<1>19. CreateIs(c, db, tx', now) BY <1>7, <1>18 DEF CreateIs
<1>20. ChoiceIs(worker, tx', now)
  <2>1. CASE worker.pc \in {"latest", "skip", "take", "commit", "build"}
    <3>1. worker.job # n BY <1>5, <2>1 DEF RecordsInv, RecordsTypeOK
    <3> QED BY <1>2, <1>12, <3>1 DEF ChoiceIs
  <2>2. CASE worker.pc \notin {"latest", "skip", "take", "commit", "build"} BY <2>2 DEF ChoiceIs
  <2> QED BY <2>1, <2>2
<1>21. HeldIs(worker, db, tx') BY <1>2, <1>12 DEF HeldIs
<1>22. SeesRest(c, db, tx') BY <1>1, <1>2, <1>7, <1>12, <1>16 DEF SeesRest
<1> QED BY <1>1, <1>2, <1>7, <1>12, <1>15, <1>17, <1>19, <1>20, <1>21, <1>22, CallStep
    DEF InTransaction

\* The transaction is committed.
LEMMA CreateCommitStep ==
    ASSUME RecordsInv, CreateCommit
    PROVE  RecordsInv' /\ Keeps(db, db')
<1>1. call.fn = "create" /\ call.pc = "commit" /\ Commits BY DEF CreateCommit, At
<1>2. tx # NoTransaction /\ CreateIs(call, db, tx, now) BY <1>1, Creating
<1>3. WholeBut(tx, {}, {}) BY <1>1, <1>2 DEF CreateIs
<1> QED BY <1>1, <1>2, <1>3, CallCommits

-----------------------------------------------------------------------------
(* RemovePackage. *)

\* A table without some of its rows.
Without(table, ids) == [i \in DOMAIN table \ ids |-> table[i]]

\* That is what the deletions of the entities leave.
LEMMA Deletions ==
    ASSUME NEW table, NEW ps
    PROVE  /\ Artifacts!Delete(table, ps)
              = [err |-> "none", table |-> Without(table, Matching(table, ps, Artifacts!Predicates))]
           /\ Jobs!Delete(table, ps)
              = [err |-> "none", table |-> Without(table, Matching(table, ps, Jobs!Predicates))]
           /\ Dependencies!Delete(table, ps)
              = [err |-> "none", table |-> Without(table, Matching(table, ps, Dependencies!Predicates))]
           /\ PackageVersions!Delete(table, ps)
              = [err |-> "none", table |-> Without(table, Matching(table, ps, PackageVersions!Predicates))]
<1>1. Artifacts!Delete(table, ps)
      = [err |-> "none", table |-> Without(table, Matching(table, ps, Artifacts!Predicates))]
  BY SameMatching DEF Artifacts!Delete, Artifacts!DeleteAll, Artifacts!Succeeds, Without
<1>2. Jobs!Delete(table, ps)
      = [err |-> "none", table |-> Without(table, Matching(table, ps, Jobs!Predicates))]
  BY SameMatching DEF Jobs!Delete, Jobs!DeleteAll, Jobs!Succeeds, Without
<1>3. Dependencies!Delete(table, ps)
      = [err |-> "none", table |-> Without(table, Matching(table, ps, Dependencies!Predicates))]
  BY SameMatching DEF Dependencies!Delete, Dependencies!DeleteAll, Dependencies!Succeeds, Without
<1>4. PackageVersions!Delete(table, ps)
      = [err |-> "none", table |-> Without(table, Matching(table, ps, PackageVersions!Predicates))]
  BY SameMatching DEF PackageVersions!Delete, PackageVersions!DeleteAll, PackageVersions!Succeeds, Without
<1> QED BY <1>1, <1>2, <1>3, <1>4

\* Rows are deleted.
LEMMA Deletes ==
    ASSUME tx # NoTransaction, View(tx, next, now), View(db, next, now), Sees(db, tx),
           next \in [Tables -> Nat], ChoiceIs(worker, tx, now),
           NEW x \in Tables, NEW ids, NEW c,
           Writes(x, [err |-> "none", table |-> Without(tx[x], ids)], c)
    PROVE  /\ db' = db /\ worker' = worker /\ publisher' = publisher /\ now' = now /\ call' = c /\ next' = next
           /\ SameBut(tx, tx', x) /\ DOMAIN tx'[x] = DOMAIN tx[x] \ ids
           /\ \A i \in DOMAIN tx'[x] : tx'[x][i] = tx[x][i]
           /\ View(tx', next', now) /\ Sees(db, tx') /\ ChoiceIs(worker, tx', now)
<1> DEFINE new == Without(tx[x], ids)
<1>1. DOMAIN new = DOMAIN tx[x] \ ids /\ \A i \in DOMAIN new : new[i] = tx[x][i] BY DEF Without
<1> HIDE DEF new
<1>2. IsPart(new, tx[x]) BY <1>1 DEF IsPart
<1>3. next[x] \notin DOMAIN tx[x]
  BY DEF View, ArtifactsOK, DependenciesOK, JobsOK, PackagesOK, VersionsOK, IdsOK, Tables
<1>4. DOMAIN tx = Tables BY ViewIsOpen
<1>5. /\ db' = db /\ worker' = worker /\ publisher' = publisher /\ now' = now /\ call' = c
      /\ SameBut(tx, tx', x) /\ tx'[x] = new
      /\ next' \in [Tables -> Nat]
      /\ \A y \in Tables \ {x} : next'[y] = next[y]
      /\ next'[x] = IF next[x] \in DOMAIN new THEN next[x] + 1 ELSE next[x]
  BY <1>4, WritesInTransaction DEF new
<1>6. next' = next BY <1>1, <1>3, <1>5
<1>7. View(tx', next, now)
  <2>1. x = "artifacts" => ArtifactsOK(new, next.artifacts) BY <1>2, PartsOK DEF View
  <2>2. x = "dependencies" => DependenciesOK(new, next.dependencies) BY <1>2, PartsOK DEF View
  <2>3. x = "jobs" => JobsOK(new, next.jobs, now) BY <1>2, PartsOK DEF View
  <2>4. x = "packages" => PackagesOK(new, next.packages, now) BY <1>2, PartsOK DEF View
  <2>5. x = "versions" => VersionsOK(new, next.versions, now) BY <1>2, PartsOK DEF View
  <2> QED BY <1>5, <2>1, <2>2, <2>3, <2>4, <2>5, ViewWith
<1>8. \A y \in Tables : IsPart(tx'[y], tx[y])
  <2>1. ASSUME NEW y \in Tables \ {x} PROVE IsPart(tx'[y], tx[y]) BY <1>5 DEF IsPart, SameBut
  <2> QED BY <1>2, <1>5, <2>1
<1>9. IsPart(tx'.packages, tx.packages) /\ IsPart(tx'.versions, tx.versions) /\ IsPart(tx'.jobs, tx.jobs)
  BY <1>8 DEF Tables
<1>10. Sees(db, tx') BY <1>9 DEF Sees, Keeps, Follows, IsPart
<1>11. ChoiceIs(worker, tx', now) BY <1>9 DEF ChoiceIs, IsPart
<1> QED BY <1>1, <1>5, <1>6, <1>7, <1>10, <1>11

\* While a package is removed.
LEMMA Removing ==
    ASSUME RecordsInv, call.fn = "remove", call.pc # "read"
    PROVE  /\ tx # NoTransaction
           /\ View(tx, next, now) /\ View(db, next, now) /\ Sees(db, tx)
           /\ RemoveIs(call, tx) /\ call \in Removals /\ SeesRest(call, db, tx)
           /\ ChoiceIs(worker, tx, now) /\ HeldIs(worker, db, tx)
           /\ now \in Nat /\ next \in [Tables -> Nat]
<1>1. tx # NoTransaction /\ call \in Removals
  BY CallKinds DEF RecordsInv, OpenInv, InTransaction
<1> QED BY <1>1 DEF RecordsInv, RecordsTypeOK, CommittedInv, OpenInv, WorkerInv

\* The command starts.
LEMMA RemoveBeginStep ==
    ASSUME RecordsInv, NEW name \in Names, RemoveBegin(name)
    PROVE  RecordsInv' /\ Keeps(db, db')
<1> DEFINE c == [fn |-> "remove", pc |-> "read", name |-> name, pkg |-> Null,
                 versions |-> {}, jobs |-> {}]
<1>1. /\ now' = now + 1 /\ call' = c /\ tx' = tx /\ call.fn = "none"
      /\ db' = db /\ next' = next /\ worker' = worker /\ publisher' = publisher
  BY DEF RemoveBegin, Begins
<1>2. now \in Nat /\ now' \in Nat /\ now <= now' BY <1>1 DEF RecordsInv, RecordsTypeOK
<1>3. c \in Removals /\ c.fn = "remove" /\ c.pc = "read" /\ c.name = name BY DEF Removals
<1> HIDE DEF c
<1>4. View(db, next, now) /\ WholeBut(db, {}, {}) BY DEF RecordsInv, CommittedInv
<1>5. View(db, next, now') BY <1>2, <1>4, ViewLater
<1>6. RecordsTypeOK' BY <1>1, <1>2, <1>3 DEF RecordsInv, RecordsTypeOK
<1>7. CommittedInv' BY <1>1, <1>4, <1>5 DEF CommittedInv
<1>8. tx = NoTransaction BY <1>1 DEF RecordsInv, OpenInv, InTransaction
<1>9. OpenInv' BY <1>1, <1>3, <1>8 DEF OpenInv, InTransaction
<1>10. WorkerInv'
  <2>1. ChoiceIs(worker, db, now') BY <1>2, <1>4, ChoiceLater DEF RecordsInv, WorkerInv
  <2> QED BY <1>1, <1>8, <2>1 DEF RecordsInv, WorkerInv
<1>11. Keeps(db, db) BY <1>4, KeepsItself
<1>12. publisher.pc # "rest" => PackageName(db, publisher.job) # name
  BY DEF RemoveBegin, NameOf, PackageName
<1>13. PublisherIs(publisher', call', db') BY <1>1, <1>3, <1>12 DEF RecordsInv, PublisherIs
<1> QED BY <1>1, <1>6, <1>7, <1>9, <1>10, <1>11, <1>13 DEF RecordsInv

\* It reads what there is of the package, and opens the transaction.
LEMMA RemoveReadStep ==
    ASSUME RecordsInv, RemoveRead
    PROVE  RecordsInv' /\ Keeps(db, db')
<1> DEFINE pkg == Only(Named(db, call.name))
           versions == VersionsOf(db.versions, pkg.id)
           jobs == JobsOfAll(db.jobs, versions)
           c == [call EXCEPT !.pc = "artifacts", !.pkg = pkg.id, !.versions = versions, !.jobs = jobs]
<1>1. call.fn = "remove" /\ call.pc = "read" BY DEF RemoveRead, At
<1>2. /\ View(db, next, now) /\ WholeBut(db, {}, {}) /\ call \in Removals
      /\ now \in Nat /\ next \in [Tables -> Nat]
      /\ ChoiceIs(worker, db, now) /\ HeldIs(worker, db, tx)
  BY <1>1, CallKinds DEF RecordsInv, RecordsTypeOK, CommittedInv, WorkerInv
<1>3. /\ PackagesOK(db.packages, next.packages, now) /\ VersionsOK(db.versions, next.versions, now)
      /\ JobsOK(db.jobs, next.jobs, now)
  BY <1>2 DEF View
<1>4. \/ pkg.err # "none" /\ Ends(pkg.err)
      \/ Ends("running")
      \/ /\ pkg.err = "none"
         /\ call' = c /\ tx' = db /\ db' = db /\ next' = next /\ worker' = worker /\ publisher' = publisher /\ now' = now
  <2>1. Matching(db.packages, {Where("name", "EQ", call.name)}, ManagedPackages!Predicates)
        = Named(db, call.name)
    BY <1>3, PackagesByName DEF Named
  <2> HIDE DEF pkg
  <2>2. Matching(db.versions, {Where("package_id", "EQ", pkg.id)}, PackageVersions!Predicates)
        = versions
    BY <1>3, VersionQueries
  <2> HIDE DEF versions
  <2>3. Matching(db.jobs, {Where("package_version_id", "In", versions)}, Jobs!Predicates) = jobs
    BY <1>3, JobQueries
  <2> HIDE DEF jobs
  <2> QED BY <2>1, <2>2, <2>3 DEF RemoveRead, pkg
<1>5. \A i, k \in Named(db, call.name) : i = k BY <1>3 DEF PackagesOK, Named
<1> HIDE DEF c
<1>6. CASE pkg.err # "none" /\ Ends(pkg.err)
  <2>1. pkg.err = "not_found" BY <1>5, <1>6, OnlyOne
  <2>2. call' \in Idles BY <1>6, <2>1 DEF Ends, Idles, Idle
  <2> QED BY <1>6, <2>2, CallEnds DEF Ends
<1>7. CASE Ends("running")
  <2>1. call' \in Idles BY <1>7 DEF Ends, Idles, Idle
  <2> QED BY <1>7, <2>1, CallEnds DEF Ends
<1>8. CASE /\ pkg.err = "none"
           /\ call' = c /\ tx' = db /\ db' = db /\ next' = next /\ worker' = worker /\ publisher' = publisher /\ now' = now
  <2>1. pkg.id \in Named(db, call.name)
    <3>1. Named(db, call.name) # {} BY <1>5, <1>8, OnlyOne
    <3> QED BY <1>5, <3>1, OnlyOne
  <2>2. pkg.id \in Nat /\ pkg.id \in DOMAIN db.packages
    BY <1>3, <2>1 DEF Named, PackagesOK, IdsOK
  <2> HIDE DEF pkg
  <2>3. versions \in SUBSET Nat BY <1>3 DEF VersionsOf, VersionsOK, IdsOK
  <2>4. jobs \in SUBSET Nat BY <1>3 DEF JobsOfAll, JobsOK, IdsOK
  <2>5. \A v \in DOMAIN db.versions : db.versions[v].package_id = pkg.id <=> v \in versions
    BY DEF VersionsOf
  <2>6. \A j \in DOMAIN db.jobs : db.jobs[j].package_version_id \in versions <=> j \in jobs
    BY DEF JobsOfAll
  <2> HIDE DEF versions, jobs
  <2>7. c \in Removals /\ c.fn = "remove" /\ c.pc = "artifacts" /\ c.pkg = pkg.id
        /\ c.versions = versions /\ c.jobs = jobs /\ c.name = call.name
    BY <1>1, <1>2, <2>2, <2>3, <2>4 DEF Removals, c
  <2>8. WholeBut(db, versions, {pkg.id}) BY <1>2 DEF WholeBut
  <2>9. RemoveIs(c, db) BY <2>2, <2>5, <2>6, <2>7, <2>8 DEF RemoveIs
  <2>10. Sees(db, db) BY <1>2, KeepsItself
  <2>11. HeldIs(worker, db, db) BY <1>2 DEF HeldIs
  <2>12. \A y \in Tables : next[y] <= next'[y] BY <1>2, <1>8
  <2>13. SeesRest(c, db, db)
    <3>1. db.packages[pkg.id].name = call.name BY <2>1 DEF Named
    <3>2. ASSUME NEW j \in DOMAIN db.jobs, j \in jobs
          PROVE  PackageName(db, j) = call.name
      <4>1. db.jobs[j].package_version_id \in DOMAIN db.versions
        BY <1>2 DEF WholeBut, RefersWithin
      <4> QED BY <2>5, <2>6, <3>1, <3>2, <4>1 DEF PackageName
    <3> QED BY <2>7, <3>2 DEF SeesRest
  <2> QED BY <1>1, <1>2, <1>8, <2>7, <2>9, <2>10, <2>11, <2>12, <2>13, CallStep DEF InTransaction
<1> QED BY <1>4, <1>6, <1>7, <1>8

\* The call moves on to its next statement.
LEMMA NextRemoval ==
    ASSUME call \in Removals,
           NEW pc \in {"artifacts", "jobs", "dependencies", "versions", "package", "commit"}
    PROVE  LET c == [call EXCEPT !.pc = pc]
           IN  /\ c \in Removals /\ InTransaction(c) /\ c.fn = "remove" /\ c.pc = pc
               /\ c.pkg = call.pkg /\ c.versions = call.versions /\ c.jobs = call.jobs
               /\ c.name = call.name
<1> DEFINE c == [call EXCEPT !.pc = pc]
<1>1. /\ c \in Removals /\ c.fn = "remove" /\ c.pc = pc
      /\ c.pkg = call.pkg /\ c.versions = call.versions /\ c.jobs = call.jobs /\ c.name = call.name
  BY DEF Removals
<1> HIDE DEF c
<1>2. InTransaction(c) BY <1>1 DEF InTransaction
<1> QED BY <1>1, <1>2 DEF c

\* The artifacts are deleted.
LEMMA RemoveArtifactsStep ==
    ASSUME RecordsInv, RemoveArtifacts
    PROVE  RecordsInv' /\ Keeps(db, db')
<1> DEFINE ids == ArtifactsOfAll(tx.artifacts, call.jobs)
           c == [call EXCEPT !.pc = "jobs"]
<1>1. call.fn = "remove" /\ call.pc = "artifacts" BY DEF RemoveArtifacts, At
<1>2. /\ tx # NoTransaction
      /\ View(tx, next, now) /\ View(db, next, now) /\ Sees(db, tx)
      /\ RemoveIs(call, tx) /\ call \in Removals /\ SeesRest(call, db, tx)
      /\ ChoiceIs(worker, tx, now) /\ HeldIs(worker, db, tx)
      /\ now \in Nat /\ next \in [Tables -> Nat]
  BY <1>1, Removing
<1>3. /\ c \in Removals /\ InTransaction(c) /\ c.fn = "remove" /\ c.pc = "jobs"
      /\ c.pkg = call.pkg /\ c.versions = call.versions /\ c.jobs = call.jobs /\ c.name = call.name
  BY <1>2, NextRemoval
<1> HIDE DEF c
<1>4. Writes("artifacts", [err |-> "none", table |-> Without(tx.artifacts, ids)], c)
  <2>1. ArtifactsOK(tx.artifacts, next.artifacts) BY <1>2 DEF View
  <2>2. Matching(tx.artifacts, {Where("job_id", "In", call.jobs)}, Artifacts!Predicates) = ids
    BY <2>1, ArtifactQueries
  <2> HIDE DEF ids
  <2> QED BY <2>2, Deletions DEF RemoveArtifacts, c
<1>5. "artifacts" \in Tables BY DEF Tables
<1> HIDE DEF ids
<1>6. /\ db' = db /\ worker' = worker /\ publisher' = publisher /\ now' = now /\ call' = c /\ next' = next
      /\ SameBut(tx, tx', "artifacts") /\ DOMAIN tx'.artifacts = DOMAIN tx.artifacts \ ids
      /\ \A i \in DOMAIN tx'.artifacts : tx'.artifacts[i] = tx.artifacts[i]
      /\ View(tx', next', now) /\ Sees(db, tx') /\ ChoiceIs(worker, tx', now)
  BY <1>2, <1>4, <1>5, Deletes
<1>7. /\ tx'.packages = tx.packages /\ tx'.versions = tx.versions
      /\ tx'.jobs = tx.jobs /\ tx'.dependencies = tx.dependencies
  BY <1>6 DEF SameBut, Tables
<1>8. RemoveIs(c, tx')
  <2>1. WholeBut(tx', c.versions, {c.pkg})
    <3>1. RefersWithin(tx') BY <1>2, <1>6, <1>7 DEF RemoveIs, WholeBut, RefersWithin
    <3> QED BY <1>2, <1>3, <1>7, <3>1 DEF RemoveIs, WholeBut, VersionIsWhole
  <2>2. \A i \in DOMAIN tx'.artifacts : tx'.artifacts[i].job_id \notin c.jobs
    BY <1>3, <1>6 DEF ids, ArtifactsOfAll
  <2> QED BY <1>1, <1>2, <1>3, <1>7, <2>1, <2>2 DEF RemoveIs
<1>9. HeldIs(worker, db, tx') BY <1>2, <1>7, WorkerAside
<1>10. \A y \in Tables : next[y] <= next'[y] BY <1>2, <1>6
<1>11. SeesRest(c, db, tx') BY <1>1, <1>2, <1>3, <1>6, <1>7 DEF SeesRest
<1> QED BY <1>1, <1>2, <1>3, <1>6, <1>8, <1>9, <1>10, <1>11, CallStep

\* The jobs are deleted, unless the worker holds one of them.
LEMMA RemoveJobsStep ==
    ASSUME RecordsInv, RemoveJobs
    PROVE  RecordsInv' /\ Keeps(db, db')
<1> DEFINE ids == DOMAIN tx.jobs \cap call.jobs
           c == [call EXCEPT !.pc = "dependencies"]
<1>1. call.fn = "remove" /\ call.pc = "jobs" BY DEF RemoveJobs, At
<1>2. /\ tx # NoTransaction
      /\ View(tx, next, now) /\ View(db, next, now) /\ Sees(db, tx)
      /\ RemoveIs(call, tx) /\ call \in Removals /\ SeesRest(call, db, tx)
      /\ ChoiceIs(worker, tx, now) /\ HeldIs(worker, db, tx)
      /\ now \in Nat /\ next \in [Tables -> Nat]
  BY <1>1, Removing
<1>3. /\ c \in Removals /\ InTransaction(c) /\ c.fn = "remove" /\ c.pc = "dependencies"
      /\ c.pkg = call.pkg /\ c.versions = call.versions /\ c.jobs = call.jobs /\ c.name = call.name
  BY <1>2, NextRemoval
<1> HIDE DEF c
<1>4. Writes("jobs", [err |-> "none", table |-> Without(tx.jobs, ids)], c)
  <2>1. JobsOK(tx.jobs, next.jobs, now) BY <1>2 DEF View
  <2>2. Matching(tx.jobs, {Where("id", "In", call.jobs)}, Jobs!Predicates) = ids
    BY <2>1, JobQueries
  <2> HIDE DEF ids
  <2> QED BY <2>2, Deletions DEF RemoveJobs, c
<1>5. "jobs" \in Tables BY DEF Tables
<1> HIDE DEF ids
<1>6. /\ db' = db /\ worker' = worker /\ publisher' = publisher /\ now' = now /\ call' = c /\ next' = next
      /\ SameBut(tx, tx', "jobs") /\ DOMAIN tx'.jobs = DOMAIN tx.jobs \ ids
      /\ \A i \in DOMAIN tx'.jobs : tx'.jobs[i] = tx.jobs[i]
      /\ View(tx', next', now) /\ Sees(db, tx') /\ ChoiceIs(worker, tx', now)
  BY <1>2, <1>4, <1>5, Deletes
<1>7. /\ tx'.packages = tx.packages /\ tx'.versions = tx.versions
      /\ tx'.artifacts = tx.artifacts /\ tx'.dependencies = tx.dependencies
  BY <1>6 DEF SameBut, Tables
<1>8. DOMAIN tx'.jobs \cap call.jobs = {} BY <1>6 DEF ids
<1>9. RemoveIs(c, tx')
  <2>1. RefersWithin(tx')
    <3>1. \A i \in DOMAIN tx.artifacts :
            tx.artifacts[i].job_id \in DOMAIN tx.jobs /\ tx.artifacts[i].job_id \notin call.jobs
      BY <1>1, <1>2 DEF RemoveIs, WholeBut, RefersWithin
    <3>2. \A i \in DOMAIN tx'.artifacts : tx'.artifacts[i].job_id \in DOMAIN tx'.jobs
      BY <1>6, <1>7, <3>1 DEF ids
    <3> QED BY <1>2, <1>6, <1>7, <3>2 DEF RemoveIs, WholeBut, RefersWithin
  <2>2. ASSUME NEW v \in DOMAIN tx.versions \ call.versions PROVE VersionIsWhole(tx', v)
    <3>1. VersionIsWhole(tx, v) BY <1>2 DEF RemoveIs, WholeBut
    <3>2. \A j \in JobsOf(tx.jobs, v) : j \in DOMAIN tx'.jobs
      BY <1>2, <1>6 DEF RemoveIs, JobsOf, ids
    <3>3. JobsOf(tx'.jobs, v) = JobsOf(tx.jobs, v) BY <1>6, <3>2 DEF JobsOf
    <3> QED BY <1>7, <3>1, <3>2, <3>3 DEF VersionIsWhole
  <2>3. WholeBut(tx', c.versions, {c.pkg})
    BY <1>2, <1>3, <1>7, <2>1, <2>2 DEF RemoveIs, WholeBut
  <2>4. \A j \in DOMAIN tx'.jobs : tx'.jobs[j].package_version_id \in c.versions <=> j \in c.jobs
    BY <1>2, <1>3, <1>6 DEF RemoveIs
  <2> QED BY <1>1, <1>2, <1>3, <1>7, <1>8, <2>3, <2>4 DEF RemoveIs
<1>10. HeldIs(worker, db, tx')
  <2>1. worker.pc = "commit" => worker.job \notin ids BY DEF RemoveJobs, LockedByWorker, ids
  <2> QED BY <1>2, <1>6, <2>1 DEF HeldIs
<1>11. \A y \in Tables : next[y] <= next'[y] BY <1>2, <1>6
<1>12. SeesRest(c, db, tx') BY <1>1, <1>2, <1>3, <1>6, <1>7 DEF SeesRest, ids
<1> QED BY <1>1, <1>2, <1>3, <1>6, <1>9, <1>10, <1>11, <1>12, CallStep

\* The dependencies are deleted.
LEMMA RemoveDependenciesStep ==
    ASSUME RecordsInv, RemoveDependencies
    PROVE  RecordsInv' /\ Keeps(db, db')
<1> DEFINE ids == DependenciesOfAll(tx.dependencies, call.versions)
           c == [call EXCEPT !.pc = "versions"]
<1>1. call.fn = "remove" /\ call.pc = "dependencies" BY DEF RemoveDependencies, At
<1>2. /\ tx # NoTransaction
      /\ View(tx, next, now) /\ View(db, next, now) /\ Sees(db, tx)
      /\ RemoveIs(call, tx) /\ call \in Removals /\ SeesRest(call, db, tx)
      /\ ChoiceIs(worker, tx, now) /\ HeldIs(worker, db, tx)
      /\ now \in Nat /\ next \in [Tables -> Nat]
  BY <1>1, Removing
<1>3. /\ c \in Removals /\ InTransaction(c) /\ c.fn = "remove" /\ c.pc = "versions"
      /\ c.pkg = call.pkg /\ c.versions = call.versions /\ c.jobs = call.jobs /\ c.name = call.name
  BY <1>2, NextRemoval
<1> HIDE DEF c
<1>4. Writes("dependencies", [err |-> "none", table |-> Without(tx.dependencies, ids)], c)
  <2>1. DependenciesOK(tx.dependencies, next.dependencies) BY <1>2 DEF View
  <2>2. Matching(tx.dependencies, {Where("package_version_id", "In", call.versions)},
            Dependencies!Predicates) = ids
    BY <2>1, DependencyQueries
  <2> HIDE DEF ids
  <2> QED BY <2>2, Deletions DEF RemoveDependencies, c
<1>5. "dependencies" \in Tables BY DEF Tables
<1> HIDE DEF ids
<1>6. /\ db' = db /\ worker' = worker /\ publisher' = publisher /\ now' = now /\ call' = c /\ next' = next
      /\ SameBut(tx, tx', "dependencies")
      /\ DOMAIN tx'.dependencies = DOMAIN tx.dependencies \ ids
      /\ \A i \in DOMAIN tx'.dependencies : tx'.dependencies[i] = tx.dependencies[i]
      /\ View(tx', next', now) /\ Sees(db, tx') /\ ChoiceIs(worker, tx', now)
  BY <1>2, <1>4, <1>5, Deletes
<1>7. /\ tx'.packages = tx.packages /\ tx'.versions = tx.versions
      /\ tx'.jobs = tx.jobs /\ tx'.artifacts = tx.artifacts
  BY <1>6 DEF SameBut, Tables
<1>8. RemoveIs(c, tx')
  <2>1. RefersWithin(tx') BY <1>2, <1>6, <1>7 DEF RemoveIs, WholeBut, RefersWithin
  <2>2. ASSUME NEW v \in DOMAIN tx.versions \ call.versions PROVE VersionIsWhole(tx', v)
    <3>1. VersionIsWhole(tx, v) BY <1>2 DEF RemoveIs, WholeBut
    <3>2. {i \in DOMAIN tx'.dependencies : tx'.dependencies[i].package_version_id = v}
          = {i \in DOMAIN tx.dependencies : tx.dependencies[i].package_version_id = v}
      BY <1>6 DEF ids, DependenciesOfAll
    <3>3. Needed(tx'.dependencies, v) = Needed(tx.dependencies, v)
      BY <1>6, <3>2 DEF Needed
    <3> QED BY <1>7, <3>1, <3>3 DEF VersionIsWhole
  <2>3. WholeBut(tx', c.versions, {c.pkg})
    BY <1>2, <1>3, <1>7, <2>1, <2>2 DEF RemoveIs, WholeBut
  <2>4. \A i \in DOMAIN tx'.dependencies : tx'.dependencies[i].package_version_id \notin c.versions
    BY <1>3, <1>6 DEF ids, DependenciesOfAll
  <2> QED BY <1>1, <1>2, <1>3, <1>7, <2>3, <2>4 DEF RemoveIs
<1>9. HeldIs(worker, db, tx') BY <1>2, <1>7, WorkerAside
<1>10. \A y \in Tables : next[y] <= next'[y] BY <1>2, <1>6
<1>11. SeesRest(c, db, tx') BY <1>1, <1>2, <1>3, <1>7, SeesRestAside
<1> QED BY <1>1, <1>2, <1>3, <1>6, <1>8, <1>9, <1>10, <1>11, CallStep

\* The versions are deleted.
LEMMA RemoveVersionsStep ==
    ASSUME RecordsInv, RemoveVersions
    PROVE  RecordsInv' /\ Keeps(db, db')
<1> DEFINE ids == DOMAIN tx.versions \cap call.versions
           c == [call EXCEPT !.pc = "package"]
<1>1. call.fn = "remove" /\ call.pc = "versions" BY DEF RemoveVersions, At
<1>2. /\ tx # NoTransaction
      /\ View(tx, next, now) /\ View(db, next, now) /\ Sees(db, tx)
      /\ RemoveIs(call, tx) /\ call \in Removals /\ SeesRest(call, db, tx)
      /\ ChoiceIs(worker, tx, now) /\ HeldIs(worker, db, tx)
      /\ now \in Nat /\ next \in [Tables -> Nat]
  BY <1>1, Removing
<1>3. /\ c \in Removals /\ InTransaction(c) /\ c.fn = "remove" /\ c.pc = "package"
      /\ c.pkg = call.pkg /\ c.versions = call.versions /\ c.jobs = call.jobs /\ c.name = call.name
  BY <1>2, NextRemoval
<1> HIDE DEF c
<1>4. Writes("versions", [err |-> "none", table |-> Without(tx.versions, ids)], c)
  <2>1. VersionsOK(tx.versions, next.versions, now) BY <1>2 DEF View
  <2>2. Matching(tx.versions, {Where("id", "In", call.versions)}, PackageVersions!Predicates) = ids
    BY <2>1, VersionQueries
  <2> HIDE DEF ids
  <2> QED BY <2>2, Deletions DEF RemoveVersions, c
<1>5. "versions" \in Tables BY DEF Tables
<1> HIDE DEF ids
<1>6. /\ db' = db /\ worker' = worker /\ publisher' = publisher /\ now' = now /\ call' = c /\ next' = next
      /\ SameBut(tx, tx', "versions") /\ DOMAIN tx'.versions = DOMAIN tx.versions \ ids
      /\ \A i \in DOMAIN tx'.versions : tx'.versions[i] = tx.versions[i]
      /\ View(tx', next', now) /\ Sees(db, tx') /\ ChoiceIs(worker, tx', now)
  BY <1>2, <1>4, <1>5, Deletes
<1>7. /\ tx'.packages = tx.packages /\ tx'.jobs = tx.jobs
      /\ tx'.artifacts = tx.artifacts /\ tx'.dependencies = tx.dependencies
  BY <1>6 DEF SameBut, Tables
<1>8. DOMAIN tx'.versions = DOMAIN tx.versions \ call.versions BY <1>6 DEF ids
<1>9. RemoveIs(c, tx')
  <2>1. RefersWithin(tx')
    <3>1. \A i \in DOMAIN tx.jobs : tx.jobs[i].package_version_id \notin call.versions
      BY <1>1, <1>2 DEF RemoveIs
    <3>2. \A i \in DOMAIN tx.dependencies : tx.dependencies[i].package_version_id \notin call.versions
      BY <1>1, <1>2 DEF RemoveIs
    <3> QED BY <1>2, <1>6, <1>7, <1>8, <3>1, <3>2 DEF RemoveIs, WholeBut, RefersWithin
  <2>2. \A v \in DOMAIN tx'.versions : VersionIsWhole(tx', v)
    BY <1>2, <1>6, <1>7, <1>8 DEF RemoveIs, WholeBut, VersionIsWhole
  <2>3. \A k \in DOMAIN tx.packages \ {call.pkg} : \E v \in DOMAIN tx'.versions :
            tx'.versions[v].package_id = k
    BY <1>2, <1>6, <1>8 DEF RemoveIs, WholeBut
  <2>4. WholeBut(tx', c.versions, {c.pkg})
    BY <1>3, <1>7, <2>1, <2>2, <2>3 DEF WholeBut
  <2>5. \A v \in DOMAIN tx'.versions : tx'.versions[v].package_id = c.pkg <=> v \in c.versions
    BY <1>2, <1>3, <1>6 DEF RemoveIs
  <2>6. DOMAIN tx'.versions \cap c.versions = {} BY <1>3, <1>8
  <2> QED BY <1>1, <1>2, <1>3, <1>7, <2>4, <2>5, <2>6 DEF RemoveIs
<1>10. HeldIs(worker, db, tx') BY <1>2, <1>7, WorkerAside
<1>11. \A y \in Tables : next[y] <= next'[y] BY <1>2, <1>6
<1>12. SeesRest(c, db, tx') BY <1>1, <1>2, <1>3, <1>7, SeesRestAside
<1> QED BY <1>1, <1>2, <1>3, <1>6, <1>9, <1>10, <1>11, <1>12, CallStep

\* The package is deleted.
LEMMA RemoveManagedStep ==
    ASSUME RecordsInv, RemoveManaged
    PROVE  RecordsInv' /\ Keeps(db, db')
<1> DEFINE ids == {call.pkg}
           c == [call EXCEPT !.pc = "commit"]
<1>1. call.fn = "remove" /\ call.pc = "package" BY DEF RemoveManaged, At
<1>2. /\ tx # NoTransaction
      /\ View(tx, next, now) /\ View(db, next, now) /\ Sees(db, tx)
      /\ RemoveIs(call, tx) /\ call \in Removals /\ SeesRest(call, db, tx)
      /\ ChoiceIs(worker, tx, now) /\ HeldIs(worker, db, tx)
      /\ now \in Nat /\ next \in [Tables -> Nat]
  BY <1>1, Removing
<1>3. /\ c \in Removals /\ InTransaction(c) /\ c.fn = "remove" /\ c.pc = "commit"
      /\ c.pkg = call.pkg /\ c.versions = call.versions /\ c.jobs = call.jobs /\ c.name = call.name
  BY <1>2, NextRemoval
<1> HIDE DEF c
<1>4. Writes("packages", [err |-> "none", table |-> Without(tx.packages, ids)], c)
  <2>1. call.pkg \in DOMAIN tx.packages BY <1>1, <1>2 DEF RemoveIs
  <2>2. DeleteOne(tx.packages, call.pkg) = [err |-> "none", table |-> Without(tx.packages, ids)]
    BY <2>1 DEF DeleteOne, DeleteAll, Succeeds, Without
  <2> HIDE DEF ids
  <2> QED BY <2>2 DEF RemoveManaged, c
<1>5. "packages" \in Tables BY DEF Tables
<1> HIDE DEF ids
<1>6. /\ db' = db /\ worker' = worker /\ publisher' = publisher /\ now' = now /\ call' = c /\ next' = next
      /\ SameBut(tx, tx', "packages") /\ DOMAIN tx'.packages = DOMAIN tx.packages \ ids
      /\ \A i \in DOMAIN tx'.packages : tx'.packages[i] = tx.packages[i]
      /\ View(tx', next', now) /\ Sees(db, tx') /\ ChoiceIs(worker, tx', now)
  BY <1>2, <1>4, <1>5, Deletes
<1>7. /\ tx'.versions = tx.versions /\ tx'.jobs = tx.jobs
      /\ tx'.artifacts = tx.artifacts /\ tx'.dependencies = tx.dependencies
  BY <1>6 DEF SameBut, Tables
<1>8. DOMAIN tx'.packages = DOMAIN tx.packages \ {call.pkg} BY <1>6 DEF ids
<1>9. RemoveIs(c, tx')
  <2>1. RefersWithin(tx')
    <3>1. \A v \in DOMAIN tx.versions : tx.versions[v].package_id # call.pkg
      BY <1>1, <1>2 DEF RemoveIs
    <3> QED BY <1>2, <1>7, <1>8, <3>1 DEF RemoveIs, WholeBut, RefersWithin
  <2>2. WholeBut(tx', c.versions, {c.pkg})
    BY <1>2, <1>3, <1>7, <1>8, <2>1 DEF RemoveIs, WholeBut, VersionIsWhole
  <2> QED BY <1>1, <1>2, <1>3, <1>7, <1>8, <2>2 DEF RemoveIs
<1>10. HeldIs(worker, db, tx') BY <1>2, <1>7, WorkerAside
<1>11. \A y \in Tables : next[y] <= next'[y] BY <1>2, <1>6
<1>12. SeesRest(c, db, tx') BY <1>1, <1>2, <1>3, <1>7, SeesRestAside
<1> QED BY <1>1, <1>2, <1>3, <1>6, <1>9, <1>10, <1>11, <1>12, CallStep

\* The transaction is committed.
LEMMA RemoveCommitStep ==
    ASSUME RecordsInv, RemoveCommit
    PROVE  RecordsInv' /\ Keeps(db, db')
<1>1. call.fn = "remove" /\ call.pc = "commit" /\ Commits BY DEF RemoveCommit, At
<1>2. tx # NoTransaction /\ RemoveIs(call, tx) BY <1>1, Removing
<1>3. WholeBut(tx, {}, {}) BY <1>1, <1>2 DEF RemoveIs, WholeBut
<1> QED BY <1>1, <1>2, <1>3, CallCommits

\* A statement of one of the transactions fails.
LEMMA StatementFailsStep ==
    ASSUME RecordsInv, StatementFails
    PROVE  RecordsInv' /\ Keeps(db, db')
<1>1. call' \in Idles BY DEF StatementFails, Idles, Idle
<1> QED BY <1>1, CallEnds DEF StatementFails

-----------------------------------------------------------------------------
(* The worker. *)

\* Worker or publisher goes on, and writes nothing.
LEMMA OnlyReads ==
    ASSUME RecordsInv, db' = db, tx' = tx, next' = next, call' = call,
           now' \in Nat, now <= now', WorkerTyped(worker', next),
           ChoiceIs(worker', db, now'), tx # NoTransaction => ChoiceIs(worker', tx, now'),
           HeldIs(worker', db, tx),
           publisher' \in Publications \cup {NotPublishing}, PublisherIs(publisher', call, db)
    PROVE  RecordsInv' /\ Keeps(db, db')
<1>1. now \in Nat /\ View(db, next, now) BY DEF RecordsInv, RecordsTypeOK, CommittedInv
<1>2. SameBut(db, db', "jobs") /\ JobsChanged(db.jobs, db'.jobs, now')
  <2>1. DOMAIN db = Tables /\ JobsOK(db.jobs, next.jobs, now) BY <1>1 DEF View
  <2> QED BY <1>1, <2>1, JobsAlike DEF SameBut
<1>3. tx # NoTransaction =>
        /\ SameBut(tx, tx', "jobs") /\ JobsChanged(tx.jobs, tx'.jobs, now')
        /\ \A j \in DOMAIN db.jobs \cap DOMAIN tx.jobs :
            tx'.jobs[j].attempts >= db'.jobs[j].attempts
        /\ Follows(db', tx')
  <2>1. CASE tx # NoTransaction
    <3>1. View(tx, next, now) /\ Keeps(db, tx) /\ Follows(db, tx)
      BY <2>1 DEF RecordsInv, OpenInv, Sees
    <3>2. DOMAIN tx = Tables /\ JobsOK(tx.jobs, next.jobs, now) BY <3>1 DEF View
    <3>3. JobsChanged(tx.jobs, tx.jobs, now') BY <1>1, <3>2, JobsAlike
    <3> QED BY <3>1, <3>2, <3>3 DEF SameBut, Keeps
  <2> QED BY <2>1
<1>4. WorkerInv' BY DEF WorkerInv
<1> QED BY <1>2, <1>3, <1>4, JobsStep

\* The worker takes up a job, or goes on, and writes nothing.
LEMMA WorkerReads ==
    ASSUME RecordsInv, db' = db, tx' = tx, next' = next, call' = call, publisher' = publisher,
           now' \in Nat, now <= now', WorkerTyped(worker', next),
           ChoiceIs(worker', db, now'), tx # NoTransaction => ChoiceIs(worker', tx, now'),
           HeldIs(worker', db, tx)
    PROVE  RecordsInv' /\ Keeps(db, db')
<1>1. publisher \in Publications \cup {NotPublishing} /\ PublisherIs(publisher, call, db)
  BY DEF RecordsInv, RecordsTypeOK
<1> QED BY <1>1, OnlyReads

\* The worker starts.
LEMMA ClaimBeginStep ==
    ASSUME RecordsInv, ClaimBegin
    PROVE  RecordsInv' /\ Keeps(db, db')
<1> DEFINE w == [worker EXCEPT !.pc = "select"]
<1>1. /\ worker = Resting /\ now' = now + 1 /\ worker' = w
      /\ db' = db /\ tx' = tx /\ next' = next /\ call' = call /\ publisher' = publisher
  BY DEF ClaimBegin
<1>2. now' \in Nat /\ now <= now' BY <1>1 DEF RecordsInv, RecordsTypeOK
<1>3. w \in Claimings /\ w.pc = "select" BY <1>1 DEF Claimings, Resting
<1> HIDE DEF w
<1>4. WorkerTyped(w, next) BY <1>3 DEF WorkerTyped
<1>5. \A d : ChoiceIs(w, d, now') BY <1>3 DEF ChoiceIs
<1>6. HeldIs(w, db, tx) BY <1>3 DEF HeldIs
<1> QED BY <1>1, <1>2, <1>4, <1>5, <1>6, WorkerReads

\* A worker that rests has chosen nothing.
LEMMA RestingIs ==
    /\ WorkerTyped(Resting, next)
    /\ \A d, t : ChoiceIs(Resting, d, t)
    /\ HeldIs(Resting, db, tx)
BY DEF WorkerTyped, Resting, Claimings, ChoiceIs, HeldIs

\* The worker gives up.
LEMMA WorkerRests ==
    ASSUME RecordsInv, worker' = Resting, db' = db, tx' = tx, next' = next, call' = call,
           publisher' = publisher, now' = now
    PROVE  RecordsInv' /\ Keeps(db, db')
<1>1. now' \in Nat /\ now <= now' BY DEF RecordsInv, RecordsTypeOK
<1> QED BY <1>1, RestingIs, WorkerReads

\* The claim fails or the process stops.
LEMMA WorkerStopsStep ==
    ASSUME RecordsInv, WorkerStops
    PROVE  RecordsInv' /\ Keeps(db, db')
BY WorkerRests DEF WorkerStops

\* It looks for the job that has waited longest.
LEMMA ClaimSelectStep ==
    ASSUME RecordsInv, ClaimSelect
    PROVE  RecordsInv' /\ Keeps(db, db')
<1> DEFINE ids == JobsDue(db.jobs, "pending", now)
           terms == <<Asc("eligible_at"), Asc("id")>>
           found == First(db.jobs, ids, terms)
           w == [pc |-> "latest", job |-> found.id]
<1>1. now \in Nat /\ View(db, next, now) BY DEF RecordsInv, RecordsTypeOK, CommittedInv
<1>2. JobsOK(db.jobs, next.jobs, now) BY <1>1 DEF View
<1>3. Matching(db.jobs, {Where("status", "EQ", "pending"), Where("eligible_at", "LTE", now)},
          Jobs!Predicates) = ids
  <2>1. ASSUME NEW s
        PROVE  Matching(db.jobs, {Where("status", "EQ", s), Where("eligible_at", "LTE", now)},
                   Jobs!Predicates) = JobsDue(db.jobs, s, now)
    BY <1>2, JobQueries
  <2> QED BY <2>1, Zenon
<1>4. \A i \in ids : i \in DOMAIN db.jobs /\ db.jobs[i].status = "pending" /\ db.jobs[i].eligible_at <= now
  BY DEF JobsDue
<1> HIDE DEF ids
<1>5. WorkerContinues(IF found.err = "not_found" THEN Resting ELSE w)
  BY <1>3 DEF ClaimSelect
<1>6. CASE found.err = "not_found"
  BY <1>5, <1>6, WorkerRests DEF WorkerContinues
<1>7. CASE found.err # "not_found"
  <2>1. ids # {} BY <1>7 DEF First
  <2>2. found.id \in ids
    <3>1. ids \in SUBSET DOMAIN db.jobs BY <1>4
    <3> QED BY <1>2, <2>1, <3>1, FirstDue
  <2> HIDE DEF found
  <2>3. w.pc = "latest" /\ w.job = found.id OBVIOUS
  <2>4. found.id \in Nat /\ found.id < next.jobs BY <1>2, <1>4, <2>2 DEF JobsOK, IdsOK
  <2>5. WorkerTyped(w, next) BY <2>4 DEF WorkerTyped, Claimings
  <2> HIDE DEF w
  <2>6. ChoiceIs(w, db, now) BY <1>4, <2>2, <2>3 DEF ChoiceIs
  <2>7. tx # NoTransaction => ChoiceIs(w, tx, now)
    BY <1>4, <2>2, <2>3 DEF ChoiceIs, RecordsInv, OpenInv, Sees, Follows
  <2>8. HeldIs(w, db, tx) BY <2>3 DEF HeldIs
  <2>9. now' \in Nat /\ now <= now' /\ now' = now BY <1>1, <1>5, <1>7 DEF WorkerContinues
  <2> QED BY <1>5, <1>7, <2>5, <2>6, <2>7, <2>8, <2>9, WorkerReads DEF WorkerContinues
<1> QED BY <1>6, <1>7

\* The worker goes on with its choice, and writes nothing.
LEMMA ChoiceGoesOn ==
    ASSUME RecordsInv, worker.pc \in {"latest", "skip", "take"},
           NEW pc \in {"skip", "take", "commit"},
           pc = "commit" => HeldIs([worker EXCEPT !.pc = "commit"], db, tx),
           WorkerContinues([worker EXCEPT !.pc = pc])
    PROVE  RecordsInv' /\ Keeps(db, db')
<1> DEFINE w == [worker EXCEPT !.pc = pc]
<1>1. worker \in Claimings /\ now \in Nat
      /\ worker.job \in Nat /\ worker.job < next.jobs
      /\ ChoiceIs(worker, db, now) /\ (tx # NoTransaction => ChoiceIs(worker, tx, now))
  BY DEF RecordsInv, RecordsTypeOK, WorkerInv
<1>2. w \in Claimings /\ w.pc = pc /\ w.job = worker.job BY <1>1 DEF Claimings
<1>3. HeldIs(w, db, tx)
  <2>1. CASE pc = "commit" BY <2>1
  <2>2. CASE pc # "commit"
    <3> HIDE DEF w
    <3> QED BY <1>2, <2>2 DEF HeldIs
  <2> QED BY <2>1, <2>2
<1>4. worker' = w /\ db' = db /\ tx' = tx /\ next' = next /\ call' = call /\ publisher' = publisher /\ now' = now
  BY DEF WorkerContinues
<1> HIDE DEF w
<1>5. WorkerTyped(w, next) BY <1>1, <1>2 DEF WorkerTyped
<1>6. ChoiceIs(w, db, now) BY <1>1, <1>2 DEF ChoiceIs
<1>7. tx # NoTransaction => ChoiceIs(w, tx, now) BY <1>1, <1>2 DEF ChoiceIs
<1>8. now <= now' BY <1>1, <1>4
<1> QED BY <1>1, <1>3, <1>4, <1>5, <1>6, <1>7, <1>8, WorkerReads

\* It finds out whether there is a later version of the package.
LEMMA ClaimLatestStep ==
    ASSUME RecordsInv, ClaimLatest
    PROVE  RecordsInv' /\ Keeps(db, db')
<1>1. worker.pc = "latest" BY DEF ClaimLatest
<1>2. \/ WorkerContinues(Resting)
      \/ WorkerContinues([worker EXCEPT !.pc = "take"])
      \/ WorkerContinues([worker EXCEPT !.pc = "skip"])
  BY DEF ClaimLatest
<1>3. CASE WorkerContinues(Resting) BY <1>3, WorkerRests DEF WorkerContinues
<1>4. CASE WorkerContinues([worker EXCEPT !.pc = "take"]) BY <1>1, <1>4, ChoiceGoesOn
<1>5. CASE WorkerContinues([worker EXCEPT !.pc = "skip"]) BY <1>1, <1>5, ChoiceGoesOn
<1> QED BY <1>2, <1>3, <1>4, <1>5

\* It takes the row of the job, which nobody else has changed.
LEMMA ClaimTakeStep ==
    ASSUME RecordsInv, ClaimTake
    PROVE  RecordsInv' /\ Keeps(db, db')
<1> DEFINE w == [worker EXCEPT !.pc = "commit"]
<1>1. worker.pc = "take" /\ ~LockedByTx(worker.job)
      /\ WorkerContinues(IF worker.job \in DOMAIN db.jobs THEN w ELSE Resting)
  BY DEF ClaimTake
<1>2. CASE worker.job \in DOMAIN db.jobs
  <2>1. WorkerContinues(w) BY <1>1, <1>2
  <2>2. w.job = worker.job BY DEF RecordsInv, RecordsTypeOK, Claimings
  <2>3. tx # NoTransaction => worker.job \in DOMAIN tx.jobs /\ tx.jobs[worker.job] = db.jobs[worker.job]
    BY <1>1, <1>2 DEF LockedByTx
  <2>4. HeldIs(w, db, tx)
    <3> HIDE DEF w
    <3> QED BY <1>2, <2>2, <2>3 DEF HeldIs
  <2> QED BY <1>1, <2>1, <2>4, ChoiceGoesOn
<1>3. CASE worker.job \notin DOMAIN db.jobs
  BY <1>1, <1>3, WorkerRests DEF WorkerContinues
<1> QED BY <1>2, <1>3

\* What the worker has to do with a job that it has written.
WorkerLeaves(w, j, row) ==
    /\ w.pc \in {"rest", "select", "build"}
    /\ w.pc = "build" => w.job = j /\ row.status = "running"

\* One row is committed, of a job that the transaction has not touched.
LEMMA RowCommitted ==
    ASSUME RecordsInv, now' \in Nat, now <= now',
           NEW j \in DOMAIN db.jobs, ~LockedByTx(j),
           NEW row, JobOK(row, now'), SameJob(db.jobs[j], row),
           row.attempts >= db.jobs[j].attempts, CommitsRow("jobs", j, row)
    PROVE  /\ SameBut(db, db', "jobs") /\ JobsChanged(db.jobs, db'.jobs, now')
           /\ DOMAIN db'.jobs = DOMAIN db.jobs
           /\ db'.jobs[j] = row /\ \A i \in DOMAIN db.jobs \ {j} : db'.jobs[i] = db.jobs[i]
           /\ tx = NoTransaction => tx' = NoTransaction
           /\ tx # NoTransaction =>
                /\ j \in DOMAIN tx.jobs /\ tx.jobs[j] = db.jobs[j]
                /\ SameBut(tx, tx', "jobs") /\ JobsChanged(tx.jobs, tx'.jobs, now')
                /\ DOMAIN tx'.jobs = DOMAIN tx.jobs
                /\ tx'.jobs[j] = row /\ \A i \in DOMAIN tx.jobs \ {j} : tx'.jobs[i] = tx.jobs[i]
                /\ \A i \in DOMAIN db.jobs \cap DOMAIN tx.jobs :
                    tx'.jobs[i].attempts >= db'.jobs[i].attempts
                /\ Follows(db', tx')
<1>1. now \in Nat /\ View(db, next, now) /\ "jobs" \in Tables
  BY DEF RecordsInv, RecordsTypeOK, CommittedInv, Tables
<1>2. DOMAIN db = Tables /\ JobsOK(db.jobs, next.jobs, now) BY <1>1 DEF View
<1>3. SameBut(db, db', "jobs") /\ db'.jobs = Assigned(db.jobs, j, row)
  BY <1>1, <1>2, ExceptIs DEF CommitsRow
<1>4. /\ JobsChanged(db.jobs, db'.jobs, now')
      /\ db'.jobs[j] = row
      /\ \A i \in DOMAIN db.jobs \ {j} : db'.jobs[i] = db.jobs[i]
  BY <1>1, <1>2, <1>3, JobChanged
<1>5. tx # NoTransaction =>
        /\ j \in DOMAIN tx.jobs /\ tx.jobs[j] = db.jobs[j]
        /\ SameBut(tx, tx', "jobs") /\ JobsChanged(tx.jobs, tx'.jobs, now')
        /\ tx'.jobs[j] = row /\ \A i \in DOMAIN tx.jobs \ {j} : tx'.jobs[i] = tx.jobs[i]
        /\ Sees(db, tx)
  <2>1. CASE tx # NoTransaction
    <3>1. View(tx, next, now) /\ Sees(db, tx) BY <2>1 DEF RecordsInv, OpenInv
    <3>2. DOMAIN tx = Tables /\ JobsOK(tx.jobs, next.jobs, now) BY <3>1 DEF View
    <3>3. j \in DOMAIN tx.jobs /\ tx.jobs[j] = db.jobs[j] BY <2>1 DEF LockedByTx
    <3>4. SameBut(tx, tx', "jobs") /\ tx'.jobs = Assigned(tx.jobs, j, row)
      BY <1>1, <2>1, <3>2, ExceptIs DEF CommitsRow
    <3>5. /\ JobsChanged(tx.jobs, tx'.jobs, now')
          /\ tx'.jobs[j] = row
          /\ \A i \in DOMAIN tx.jobs \ {j} : tx'.jobs[i] = tx.jobs[i]
      BY <1>1, <3>2, <3>3, <3>4, JobChanged
    <3> QED BY <3>1, <3>3, <3>4, <3>5
  <2> QED BY <2>1
<1>6. tx = NoTransaction => tx' = NoTransaction BY DEF CommitsRow
<1>7. DOMAIN db'.jobs = DOMAIN db.jobs /\ (tx # NoTransaction => DOMAIN tx'.jobs = DOMAIN tx.jobs)
  BY <1>4, <1>5 DEF JobsChanged
<1>8. row.attempts >= row.attempts
  <2>1. row.attempts \in Int BY DEF JobOK, Jobs!Fits
  <2> QED BY <2>1
<1>9. tx # NoTransaction =>
        \A i \in DOMAIN db.jobs \cap DOMAIN tx.jobs : tx'.jobs[i].attempts >= db'.jobs[i].attempts
  BY <1>4, <1>5, <1>8 DEF Sees, Keeps
<1>10. tx # NoTransaction => Follows(db', tx')
  <2>1. ASSUME tx # NoTransaction, NEW i \in DOMAIN db.jobs \cap DOMAIN tx.jobs
        PROVE  /\ tx'.jobs[i].eligible_at = db'.jobs[i].eligible_at
               /\ \/ tx'.jobs[i].status = db'.jobs[i].status
                  \/ db'.jobs[i].status = "pending" /\ tx'.jobs[i].status = "skipped"
    <3>1. CASE i = j BY <1>4, <1>5, <2>1, <3>1
    <3>2. CASE i # j BY <1>4, <1>5, <2>1, <3>2 DEF Sees, Follows
    <3> QED BY <3>1, <3>2
  <2> QED BY <1>7, <2>1 DEF Follows
<1> QED BY <1>3, <1>4, <1>5, <1>6, <1>7, <1>9, <1>10

\* The worker writes one row, which is not that of a built job.
LEMMA WorkerAssigns ==
    ASSUME RecordsInv, next' = next, call' = call, publisher' = publisher,
           now' \in Nat, now <= now',
           NEW j \in DOMAIN db.jobs, ~LockedByTx(j), db.jobs[j].status # "built",
           NEW row, JobOK(row, now'), SameJob(db.jobs[j], row),
           row.attempts >= db.jobs[j].attempts, CommitsRow("jobs", j, row),
           WorkerTyped(worker', next), WorkerLeaves(worker', j, row)
    PROVE  RecordsInv' /\ Keeps(db, db')
<1>1. /\ SameBut(db, db', "jobs") /\ JobsChanged(db.jobs, db'.jobs, now')
      /\ DOMAIN db'.jobs = DOMAIN db.jobs
      /\ db'.jobs[j] = row /\ \A i \in DOMAIN db.jobs \ {j} : db'.jobs[i] = db.jobs[i]
      /\ tx = NoTransaction => tx' = NoTransaction
      /\ tx # NoTransaction =>
            /\ j \in DOMAIN tx.jobs /\ tx.jobs[j] = db.jobs[j]
            /\ SameBut(tx, tx', "jobs") /\ JobsChanged(tx.jobs, tx'.jobs, now')
            /\ DOMAIN tx'.jobs = DOMAIN tx.jobs
            /\ tx'.jobs[j] = row /\ \A i \in DOMAIN tx.jobs \ {j} : tx'.jobs[i] = tx.jobs[i]
            /\ \A i \in DOMAIN db.jobs \cap DOMAIN tx.jobs :
                tx'.jobs[i].attempts >= db'.jobs[i].attempts
            /\ Follows(db', tx')
  BY RowCommitted
<1>2. publisher \in Publications \cup {NotPublishing} /\ PublisherIs(publisher, call, db)
  BY DEF RecordsInv, RecordsTypeOK
<1>3. PublisherIs(publisher', call, db')
  <2>1. db'.packages = db.packages /\ db'.versions = db.versions BY <1>1 DEF SameBut, Tables
  <2>2. publisher.pc # "rest" => publisher.job \in DOMAIN db.jobs /\ publisher.job # j
    BY <1>2 DEF PublisherIs
  <2> QED BY <1>1, <1>2, <2>1, <2>2 DEF PublisherIs, PackageName
<1>4. WorkerInv' BY <1>1 DEF WorkerInv, ChoiceIs, HeldIs, WorkerLeaves
<1> QED BY <1>1, <1>2, <1>3, <1>4, JobsStep

\* What the skip and the claim set.
Superseding(t) == [status |-> "skipped", finished_at |-> t, error |-> "superseded"]
Claiming(t, n) == [status |-> "running", claimed_at |-> t, attempts |-> n]

\* A job that has a later version is skipped.
LEMMA ClaimSkipStep ==
    ASSUME RecordsInv, ClaimSkip
    PROVE  RecordsInv' /\ Keeps(db, db')
<1> DEFINE j == worker.job
           row == Overlaid(db.jobs[j], Superseding(now))
           w == [pc |-> "select", job |-> Null]
           outcome == Jobs!UpdateOne(db.jobs, j, Setting(Superseding(now)))
<1>1. /\ worker.pc = "skip" /\ ~LockedByTx(j)
      /\ IF outcome.err # "none" THEN WorkerContinues(Resting)
         ELSE WorkerWrites(j, outcome.table[j], w)
  BY DEF ClaimSkip, Skipping, Superseding
<1>2. /\ j \in DOMAIN db.jobs => outcome = [err |-> "none", table |-> Assigned(db.jobs, j, row)]
      /\ j \notin DOMAIN db.jobs => outcome = [err |-> "not_found", table |-> db.jobs]
  <2>1. "status" \in DOMAIN Superseding(now) /\ Superseding(now)["status"] \in Jobs!Statuses
    BY DEF Superseding, Jobs!Statuses
  <2> QED BY <2>1, JobUpdated
<1> HIDE DEF outcome
<1>3. CASE j \notin DOMAIN db.jobs
  BY <1>1, <1>2, <1>3, WorkerRests DEF WorkerContinues
<1>4. CASE j \in DOMAIN db.jobs
  <2>1. outcome.err = "none" /\ outcome.table[j] = row BY <1>2, <1>4 DEF Assigned
  <2>2. WorkerWrites(j, row, w) BY <1>1, <2>1
  <2>3. now \in Nat /\ now <= now BY DEF RecordsInv, RecordsTypeOK
  <2>4. JobOK(db.jobs[j], now) /\ db.jobs[j].status \in {"pending", "skipped"}
    BY <1>1, <1>4 DEF RecordsInv, CommittedInv, View, JobsOK, WorkerInv, ChoiceIs
  <2>5. JobOK(row, now) /\ SameJob(db.jobs[j], row) /\ row.attempts = db.jobs[j].attempts
    BY <2>3, <2>4, SkippedOK DEF Superseding
  <2>6. row.attempts >= db.jobs[j].attempts
    <3>1. db.jobs[j].attempts \in Int BY <2>4 DEF JobOK, Jobs!Fits
    <3> HIDE DEF row
    <3> QED BY <2>5, <3>1
  <2>7. w.pc = "select" /\ w \in Claimings BY DEF Claimings
  <2> HIDE DEF row, w
  <2>8. WorkerTyped(w, next) /\ WorkerLeaves(w, j, row) BY <2>7 DEF WorkerTyped, WorkerLeaves
  <2> QED BY <1>1, <1>4, <2>2, <2>3, <2>4, <2>5, <2>6, <2>8, WorkerAssigns DEF WorkerWrites
<1> QED BY <1>3, <1>4

\* The claim is committed.
LEMMA ClaimCommitStep ==
    ASSUME RecordsInv, ClaimCommit
    PROVE  RecordsInv' /\ Keeps(db, db')
<1> DEFINE j == worker.job
           set == Claiming(now, db.jobs[j].attempts + 1)
           row == Overlaid(db.jobs[j], set)
           w == [worker EXCEPT !.pc = "build"]
<1>1. worker.pc = "commit" BY DEF ClaimCommit
<1>2. /\ j \in DOMAIN db.jobs
      /\ tx # NoTransaction => j \in DOMAIN tx.jobs /\ tx.jobs[j] = db.jobs[j]
      /\ db.jobs[j].status \in {"pending", "skipped"} /\ db.jobs[j].eligible_at <= now
      /\ JobOK(db.jobs[j], now) /\ now \in Nat /\ now <= now
      /\ worker \in Claimings /\ j \in Nat /\ j < next.jobs
  BY <1>1 DEF RecordsInv, RecordsTypeOK, CommittedInv, View, JobsOK, WorkerInv, ChoiceIs, HeldIs
<1>3. Claimed(j) = [err |-> "none", table |-> Assigned(db.jobs, j, row)]
  <2>1. "status" \in DOMAIN set /\ set["status"] \in Jobs!Statuses BY DEF Claiming, Jobs!Statuses
  <2>2. Claimed(j) = Jobs!UpdateOne(db.jobs, j, Setting(set)) BY DEF Claimed, Claiming
  <2> HIDE DEF set
  <2> QED BY <1>2, <2>1, <2>2, JobUpdated
<1>4. Claimed(j).table[j] = row BY <1>3 DEF Assigned
<1> HIDE DEF row
<1>5. WorkerContinues(Resting) \/ WorkerWrites(j, row, w) BY <1>4 DEF ClaimCommit
<1>6. CASE WorkerContinues(Resting) BY <1>6, WorkerRests DEF WorkerContinues
<1>7. CASE WorkerWrites(j, row, w)
  <2>1. /\ JobOK(row, now) /\ SameJob(db.jobs[j], row) /\ row.attempts >= db.jobs[j].attempts
        /\ row.status = "running"
    BY <1>2, ClaimedOK DEF row, Claiming
  <2>2. w.pc = "build" /\ w.job = j /\ w \in Claimings BY <1>2 DEF Claimings
  <2> HIDE DEF w
  <2>3. WorkerTyped(w, next) /\ WorkerLeaves(w, j, row) BY <1>2, <2>1, <2>2 DEF WorkerTyped, WorkerLeaves
  <2>4. ~LockedByTx(j) BY <1>2 DEF LockedByTx
  <2>5. db.jobs[j].status # "built" BY <1>2
  <2> QED BY <1>2, <1>7, <2>1, <2>3, <2>4, <2>5, WorkerAssigns DEF WorkerWrites
<1> QED BY <1>5, <1>6, <1>7

\* MarkJob is such an update.
LEMMA MarkJobIs ==
    ASSUME NEW table, NEW id, NEW time, NEW status \in Jobs!Statuses, NEW logPath, NEW failure
    PROVE  LET set == Marking(time, status, logPath, failure)
           IN  /\ id \in DOMAIN table =>
                    MarkJob(table, id, time, status, logPath, failure)
                    = [err |-> "none", table |-> Assigned(table, id, Overlaid(table[id], set))]
               /\ id \notin DOMAIN table =>
                    MarkJob(table, id, time, status, logPath, failure)
                    = [err |-> "not_found", table |-> table]
<1> DEFINE set == Marking(time, status, logPath, failure)
<1>1. MarkJob(table, id, time, status, logPath, failure) = Jobs!UpdateOne(table, id, Setting(set))
  BY Zenon DEF MarkJob, Marking, NoText
<1>2. "status" \in DOMAIN set /\ set["status"] = status BY DEF Marking
<1> HIDE DEF set
<1>3. set["status"] \in Jobs!Statuses BY <1>2
<1> QED BY <1>1, <1>2, <1>3, JobUpdated DEF set

\* What WorkerMark says, with NoText for "".
MarkStep(failure, status, outcome) ==
    /\ status = IF failure = NoText THEN "built" ELSE "failed"
    /\ outcome = MarkJob(db.jobs, worker.job, now + 1, status, "job.log", failure)
    /\ worker.pc = "build" /\ ~LockedByTx(worker.job)
    /\ IF outcome.err # "none" THEN UNCHANGED <<db, tx>>
       ELSE CommitsRow("jobs", worker.job, outcome.table[worker.job])
    /\ worker' = Resting /\ now' = now + 1
    /\ UNCHANGED <<next, call, publisher, faults>>

\* It does say that.
LEMMA MarkStepIs ==
    ASSUME NEW failure, WorkerMark(failure)
    PROVE  \E status, outcome : MarkStep(failure, status, outcome)
<1> DEFINE status == IF failure = NoText THEN "built" ELSE "failed"
           outcome == MarkJob(db.jobs, worker.job, now + 1, status, "job.log", failure)
<1>1. MarkStep(failure, status, outcome) BY Zenon DEF WorkerMark, MarkStep, NoText
<1> QED BY <1>1

\* The build has ended.
LEMMA WorkerMarkStep ==
    ASSUME RecordsInv, NEW failure, IsFailure(failure), WorkerMark(failure)
    PROVE  RecordsInv' /\ Keeps(db, db')
<1> DEFINE j == worker.job
<1>1. PICK status, outcome : MarkStep(failure, status, outcome) BY MarkStepIs
<1> DEFINE row == Overlaid(db.jobs[j], Marking(now + 1, status, "job.log", failure))
<1>2. /\ worker.pc = "build" /\ ~LockedByTx(j) /\ worker' = Resting /\ now' = now + 1
      /\ next' = next /\ call' = call /\ publisher' = publisher
      /\ status = IF failure = NoText THEN "built" ELSE "failed"
  BY <1>1 DEF MarkStep
<1>3. now \in Nat /\ now + 1 \in Nat /\ now <= now + 1 BY DEF RecordsInv, RecordsTypeOK
<1>4. /\ j \in DOMAIN db.jobs => outcome = [err |-> "none", table |-> Assigned(db.jobs, j, row)]
      /\ j \notin DOMAIN db.jobs => outcome = [err |-> "not_found", table |-> db.jobs]
  <2>1. status \in Jobs!Statuses BY <1>2 DEF Jobs!Statuses
  <2>2. outcome = MarkJob(db.jobs, j, now + 1, status, "job.log", failure) BY <1>1 DEF MarkStep
  <2> QED BY <2>1, <2>2, MarkJobIs
<1>5. WorkerTyped(Resting, next) /\ WorkerLeaves(Resting, j, row)
  BY RestingIs DEF WorkerLeaves, Resting
<1>6. CASE j \notin DOMAIN db.jobs
  <2>1. outcome.err # "none" BY <1>4, <1>6
  <2>2. db' = db /\ tx' = tx BY <1>1, <2>1 DEF MarkStep
  <2>3. now' \in Nat /\ now <= now' BY <1>2, <1>3
  <2> QED BY <1>2, <1>5, <2>2, <2>3, RestingIs, WorkerReads
<1>7. CASE j \in DOMAIN db.jobs
  <2>1. JobOK(db.jobs[j], now) /\ db.jobs[j].status = "running"
    BY <1>2, <1>7 DEF RecordsInv, CommittedInv, View, JobsOK, WorkerInv, ChoiceIs
  <2>2. JobOK(row, now + 1) /\ SameJob(db.jobs[j], row) /\ row.attempts = db.jobs[j].attempts
    BY <1>2, <1>3, <2>1, MarkedOK
  <2>3. outcome.err = "none" /\ outcome.table = Assigned(db.jobs, j, row) /\ outcome.table[j] = row
    BY <1>4, <1>7 DEF Assigned
  <2> HIDE DEF row
  <2>4. row.attempts >= db.jobs[j].attempts
    <3>1. db.jobs[j].attempts \in Int BY <2>1 DEF JobOK, Jobs!Fits
    <3> QED BY <2>2, <3>1
  <2>5. CommitsRow("jobs", j, row) BY <1>1, <2>3 DEF MarkStep
  <2>6. db.jobs[j].status # "built" BY <2>1
  <2> QED BY <1>2, <1>3, <1>5, <1>7, <2>2, <2>4, <2>5, <2>6, WorkerAssigns
<1> QED BY <1>6, <1>7

-----------------------------------------------------------------------------
(* Publishing. *)

\* While a job is published.
LEMMA Publishing ==
    ASSUME RecordsInv, publisher.pc # "rest"
    PROVE  /\ publisher \in Publications /\ PublisherIs(publisher, call, db)
           /\ publisher.job \in DOMAIN db.jobs /\ db.jobs[publisher.job].status = "built"
           /\ JobOK(db.jobs[publisher.job], now) /\ publisher.job \in Nat
           /\ View(db, next, now) /\ WholeBut(db, {}, {}) /\ DOMAIN db = Tables
           /\ now \in Nat /\ next \in [Tables -> Nat]
<1>1. publisher \in Publications BY DEF RecordsInv, RecordsTypeOK, NotPublishing
<1>2. PublisherIs(publisher, call, db) /\ View(db, next, now) BY DEF RecordsInv, CommittedInv
<1>3. /\ publisher.job \in DOMAIN db.jobs /\ db.jobs[publisher.job].status = "built"
      /\ JobOK(db.jobs[publisher.job], now)
  BY <1>2 DEF PublisherIs, View, JobsOK
<1> QED BY <1>1, <1>2, <1>3 DEF RecordsInv, RecordsTypeOK, CommittedInv, View, Publications

\* The publisher takes up a job, goes on or stops, and writes nothing.
LEMMA PublisherReads ==
    ASSUME RecordsInv, db' = db, tx' = tx, next' = next, call' = call, worker' = worker,
           now' \in Nat, now <= now',
           publisher' \in Publications \cup {NotPublishing}, PublisherIs(publisher', call, db)
    PROVE  RecordsInv' /\ Keeps(db, db')
<1>1. now \in Nat /\ View(db, next, now) /\ (tx # NoTransaction => View(tx, next, now))
  BY DEF RecordsInv, RecordsTypeOK, CommittedInv, OpenInv
<1>2. WorkerTyped(worker, next) BY DEF RecordsInv, RecordsTypeOK, WorkerTyped
<1>3. /\ ChoiceIs(worker, db, now) /\ HeldIs(worker, db, tx)
      /\ tx # NoTransaction => ChoiceIs(worker, tx, now)
  BY DEF RecordsInv, WorkerInv
<1>4. ChoiceIs(worker, db, now') /\ (tx # NoTransaction => ChoiceIs(worker, tx, now'))
  BY <1>1, <1>3, ChoiceLater
<1> QED BY <1>2, <1>3, <1>4, OnlyReads

\* A built job is to be published.
LEMMA PublishBeginStep ==
    ASSUME RecordsInv, NEW id, PublishBegin(id)
    PROVE  RecordsInv' /\ Keeps(db, db')
<1> DEFINE p == [pc |-> "artifact", job |-> id, todo |-> Files, err |-> "none"]
<1>1. /\ now' = now + 1 /\ publisher' = p
      /\ db' = db /\ tx' = tx /\ next' = next /\ call' = call /\ worker' = worker
      /\ call.fn = "remove" => PackageName(db, id) # call.name
  BY DEF PublishBegin, NameOf, PackageName
<1>2. now' \in Nat /\ now <= now' BY <1>1 DEF RecordsInv, RecordsTypeOK
<1>3. View(db, next, now) BY DEF RecordsInv, CommittedInv
<1>4. id \in JobsWith(db.jobs, "built")
  <2>1. ASSUME NEW s
        PROVE  Matching(db.jobs, {Where("status", "EQ", s)}, Jobs!Predicates) = JobsWith(db.jobs, s)
    BY <1>3, JobQueries DEF View
  <2> QED BY <2>1, Zenon DEF PublishBegin
<1>5. id \in DOMAIN db.jobs /\ db.jobs[id].status = "built" BY <1>4 DEF JobsWith
<1>6. id \in Nat BY <1>3, <1>5 DEF View, JobsOK, IdsOK
<1>7. p \in Publications /\ p.job = id BY <1>6 DEF Publications
<1> HIDE DEF p
<1>8. PublisherIs(p, call, db) BY <1>1, <1>5, <1>7 DEF PublisherIs
<1> QED BY <1>1, <1>2, <1>7, <1>8, PublisherReads

\* A publication that goes on with the same job.
LEMMA PublisherGoesOn ==
    ASSUME RecordsInv, publisher.pc # "rest", NEW p, p \in Publications, p.job = publisher.job,
           PublisherContinues(p)
    PROVE  RecordsInv' /\ Keeps(db, db')
<1>1. PublisherIs(p, call, db) /\ now \in Nat BY Publishing DEF PublisherIs
<1>2. /\ db' = db /\ tx' = tx /\ next' = next /\ call' = call /\ worker' = worker
      /\ now' = now /\ publisher' = p
  BY DEF PublisherContinues
<1>3. now' \in Nat /\ now <= now' BY <1>1, <1>2
<1> QED BY <1>1, <1>2, <1>3, PublisherReads

\* What an artifact of a job that is there changes for a transaction.
LEMMA ArtifactAdded ==
    ASSUME NEW d, NEW e, NEW n, NEW row, SameBut(d, e, "artifacts"),
           e.artifacts = Assigned(d.artifacts, n, row), row.job_id \in DOMAIN d.jobs
    PROVE  /\ \A versions, packages :
                WholeBut(d, versions, packages) => WholeBut(e, versions, packages)
           /\ \A c, g, h, t : h.packages = g.packages /\ CreateIs(c, g, d, t) => CreateIs(c, h, e, t)
           /\ \A c : row.job_id \notin c.jobs /\ RemoveIs(c, d) => RemoveIs(c, e)
<1>1. /\ e.packages = d.packages /\ e.versions = d.versions
      /\ e.jobs = d.jobs /\ e.dependencies = d.dependencies
  BY DEF SameBut, Tables
<1>2. \A i \in DOMAIN e.artifacts :
        e.artifacts[i] = row \/ (i \in DOMAIN d.artifacts /\ e.artifacts[i] = d.artifacts[i])
  BY DEF Assigned
<1>3. ASSUME NEW versions, NEW packages, WholeBut(d, versions, packages)
      PROVE  WholeBut(e, versions, packages)
  <2>1. RefersWithin(e) BY <1>1, <1>2, <1>3 DEF WholeBut, RefersWithin
  <2> QED BY <1>1, <1>3, <2>1 DEF WholeBut, VersionIsWhole
<1>4. ASSUME NEW c, NEW g, NEW h, NEW t, h.packages = g.packages, CreateIs(c, g, d, t)
      PROVE  CreateIs(c, h, e, t)
  BY <1>1, <1>3, <1>4 DEF CreateIs, Named
<1>5. ASSUME NEW c, row.job_id \notin c.jobs, RemoveIs(c, d)
      PROVE  RemoveIs(c, e)
  BY <1>1, <1>2, <1>3, <1>5 DEF RemoveIs
<1> QED BY <1>3, <1>4, <1>5

\* An artifact is recorded, and a transaction that is open sees it.
LEMMA ArtifactStep ==
    ASSUME RecordsInv, publisher.pc # "rest", NEW f \in STRING, RecordsArtifact(f),
           ArtifactsAt(db.artifacts, publisher.job, f) = {},
           [publisher EXCEPT !.todo = publisher.todo \ {f}] \in Publications
    PROVE  RecordsInv' /\ Keeps(db, db')
<1> DEFINE j == publisher.job
           n == next.artifacts
           p == [publisher EXCEPT !.todo = publisher.todo \ {f}]
<1>1. /\ publisher \in Publications /\ PublisherIs(publisher, call, db)
      /\ j \in DOMAIN db.jobs /\ db.jobs[j].status = "built" /\ j \in Nat
      /\ View(db, next, now) /\ WholeBut(db, {}, {}) /\ DOMAIN db = Tables
      /\ now \in Nat /\ next \in [Tables -> Nat]
  BY Publishing
<1>2. ArtifactsOK(db.artifacts, n) /\ n \in Nat /\ "artifacts" \in Tables /\ next["artifacts"] = n
  BY <1>1 DEF View, Tables
<1>3. PICK row : CreatesArtifact(db.artifacts, n, j, f, now, row)
  <2>1. \A i \in DOMAIN db.artifacts : ~(db.artifacts[i].job_id = j /\ db.artifacts[i].filename = f)
    BY DEF ArtifactsAt
  <2> QED BY <1>1, <1>2, <2>1, ArtifactCreated
<1> DEFINE new == Assigned(db.artifacts, n, row)
<1>4. row.job_id = j /\ ArtifactsOK(new, n + 1) BY <1>3 DEF CreatesArtifact
<1>5. Published(f) = [err |-> "none", table |-> new] /\ new[n] = row
  <2>1. new[n] = row BY DEF Assigned
  <2> HIDE DEF new
  <2> QED BY <1>3, <2>1 DEF Published, CreatesArtifact, new
<1>6. p \in Publications /\ p.job = j /\ p.pc = publisher.pc BY <1>1 DEF Publications
<1>7. /\ CommitsRow("artifacts", n, row) /\ next' = [next EXCEPT !.artifacts = n + 1]
      /\ publisher' = p /\ call' = call /\ worker' = worker /\ now' = now
  <2> HIDE DEF new
  <2> QED BY <1>5 DEF RecordsArtifact
<1> HIDE DEF p
<1>8. /\ next' \in [Tables -> Nat] /\ next'["artifacts"] = n + 1 /\ next'.artifacts = n + 1
      /\ \A y \in Tables \ {"artifacts"} : next'[y] = next[y]
      /\ \A y \in Tables : next[y] <= next'[y]
  BY <1>1, <1>2, <1>7 DEF Tables
<1>9. SameBut(db, db', "artifacts") /\ db'.artifacts = new
  BY <1>1, <1>2, <1>7, ExceptIs DEF CommitsRow
<1>10. n \notin DOMAIN db.artifacts BY <1>2 DEF ArtifactsOK, IdsOK
<1>11. DOMAIN new = DOMAIN db.artifacts \cup {n} /\ \A i \in DOMAIN db.artifacts : new[i] = db.artifacts[i]
  BY <1>10 DEF Assigned
<1>12. /\ db'.packages = db.packages /\ db'.versions = db.versions
       /\ db'.jobs = db.jobs /\ db'.dependencies = db.dependencies
  BY <1>9 DEF SameBut, Tables
<1>13. WholeBut(db', {}, {}) BY <1>1, <1>4, <1>9, ArtifactAdded
<1> HIDE DEF new
<1>14. View(db', next', now) BY <1>1, <1>2, <1>4, <1>8, <1>9, ViewWith
<1>15. Keeps(db, db')
  <2>1. Keeps(db, db) BY <1>1, KeepsItself
  <2> QED BY <1>12, <2>1 DEF Keeps
<1>16. CommittedInv' BY <1>7, <1>13, <1>14 DEF CommittedInv
<1>17. RecordsTypeOK'
  <2>1. WorkerTyped(worker, next') 
    BY <1>1, <1>8, WorkerWider DEF RecordsInv, WorkerTyped, RecordsTypeOK, Tables
  <2> QED BY <1>1, <1>6, <1>7, <1>8, <2>1 DEF RecordsInv, RecordsTypeOK, WorkerTyped
<1>18. PublisherIs(publisher', call', db')
  BY <1>1, <1>6, <1>7, <1>12 DEF PublisherIs, PackageName
<1>19. CASE tx = NoTransaction
  <2>1. tx' = NoTransaction BY <1>7, <1>19 DEF CommitsRow
  <2>2. OpenInv' BY <1>7, <1>19, <2>1 DEF RecordsInv, OpenInv, InTransaction
  <2>3. WorkerInv'
    BY <1>7, <1>12, <1>19, <2>1 DEF RecordsInv, WorkerInv, ChoiceIs, HeldIs
  <2> QED BY <1>15, <1>16, <1>17, <1>18, <2>2, <2>3 DEF RecordsInv
<1>20. CASE tx # NoTransaction
  <2>1. /\ View(tx, next, now) /\ Sees(db, tx) /\ SeesRest(call, db, tx)
        /\ call.fn = "create" => CreateIs(call, db, tx, now)
        /\ call.fn = "remove" /\ call.pc # "read" => RemoveIs(call, tx)
        /\ DOMAIN tx = Tables
    BY <1>20, ViewIsOpen DEF RecordsInv, OpenInv
  <2>2. SameBut(tx, tx', "artifacts") /\ tx'.artifacts = Assigned(tx.artifacts, n, row)
    BY <1>2, <1>7, <1>20, <2>1, ExceptIs DEF CommitsRow
  <2>3. /\ tx'.packages = tx.packages /\ tx'.versions = tx.versions
        /\ tx'.jobs = tx.jobs /\ tx'.dependencies = tx.dependencies
    BY <2>2 DEF SameBut, Tables
  <2>4. IsPart(tx'.artifacts, db'.artifacts)
    <3>1. \A i \in DOMAIN tx.artifacts :
            i \in DOMAIN db.artifacts /\ tx.artifacts[i] = db.artifacts[i] /\ i # n
      BY <1>10, <2>1 DEF SeesRest
    <3>2. \A i \in DOMAIN tx'.artifacts :
            \/ i = n /\ tx'.artifacts[i] = row
            \/ i \in DOMAIN tx.artifacts /\ tx'.artifacts[i] = tx.artifacts[i]
      BY <2>2, <3>1 DEF Assigned
    <3> QED BY <1>5, <1>9, <1>11, <3>1, <3>2 DEF IsPart
  <2>5. ArtifactsOK(tx'.artifacts, n + 1) BY <1>4, <1>9, <2>4, PartsOK
  <2>6. View(tx', next', now) BY <1>2, <1>8, <2>1, <2>2, <2>5, ViewWith
  <2>7. tx' # NoTransaction BY <2>6, ViewIsOpen
  <2>8. Sees(db', tx') BY <1>12, <2>1, <2>3 DEF Sees, Keeps, Follows
  <2>9. SeesRest(call, db', tx') BY <1>12, <2>1, <2>3, <2>4 DEF SeesRest, IsPart, PackageName
  <2>10. j \in DOMAIN tx.jobs /\ (call.fn = "remove" => j \notin call.jobs)
    BY <1>1, <2>1 DEF SeesRest, PublisherIs
  <2>11. call.fn = "create" => CreateIs(call, db', tx', now)
    BY <1>4, <1>12, <2>1, <2>2, <2>10, ArtifactAdded
  <2>12. call.fn = "remove" /\ call.pc # "read" => RemoveIs(call, tx')
    BY <1>4, <2>1, <2>2, <2>10, ArtifactAdded
  <2>13. OpenInv'
    BY <1>7, <1>20, <2>6, <2>7, <2>8, <2>9, <2>11, <2>12 DEF RecordsInv, OpenInv
  <2>14. WorkerInv'
    BY <1>7, <1>12, <1>20, <2>3, <2>7 DEF RecordsInv, WorkerInv, ChoiceIs, HeldIs
  <2> QED BY <1>15, <1>16, <1>17, <1>18, <2>13, <2>14 DEF RecordsInv
<1> QED BY <1>19, <1>20

\* The next artifact is recorded unless it was before.
LEMMA PublishArtifactStep ==
    ASSUME RecordsInv, PublishArtifact
    PROVE  RecordsInv' /\ Keeps(db, db')
<1> DEFINE f == CHOOSE f \in publisher.todo : TRUE
           p == [publisher EXCEPT !.todo = publisher.todo \ {f}]
           end == [publisher EXCEPT !.pc = "published"]
<1>1. publisher.pc = "artifact" BY DEF PublishArtifact
<1>2. publisher \in Publications /\ View(db, next, now) BY <1>1, Publishing
<1>3. /\ p \in Publications /\ p.job = publisher.job
      /\ end \in Publications /\ end.job = publisher.job
  BY <1>2 DEF Publications
<1>4. ArtifactsOK(db.artifacts, next.artifacts) BY <1>2 DEF View
<1>5. Matching(db.artifacts, {Where("job_id", "EQ", publisher.job), Where("filename", "EQ", f)},
          Artifacts!Predicates) = ArtifactsAt(db.artifacts, publisher.job, f)
  BY <1>4, ArtifactQueries
<1>6. CASE publisher.todo = {}
  <2>1. PublisherContinues(end) BY <1>6 DEF PublishArtifact
  <2> HIDE DEF end
  <2> QED BY <1>1, <1>3, <2>1, PublisherGoesOn
<1>7. CASE publisher.todo # {}
  <2>1. f \in STRING BY <1>2, <1>7, RecordsAssumption DEF Publications
  <2>2. IF Exist(ArtifactsAt(db.artifacts, publisher.job, f))
        THEN PublisherContinues(p) ELSE RecordsArtifact(f)
    BY <1>5, <1>7, Zenon DEF PublishArtifact
  <2>3. CASE PublisherContinues(p)
    <3> HIDE DEF p
    <3> QED BY <1>1, <1>3, <2>3, PublisherGoesOn
  <2>4. CASE ArtifactsAt(db.artifacts, publisher.job, f) = {} /\ RecordsArtifact(f)
    <3> HIDE DEF f
    <3> QED BY <1>1, <1>3, <2>1, <2>4, ArtifactStep
  <2> HIDE DEF f, p
  <2> QED BY <2>2, <2>3, <2>4 DEF Exist
<1> QED BY <1>6, <1>7

\* The publication ends with a statement about the job, which the worker has
\* not chosen.
LEMMA PublicationEndsStep ==
    ASSUME RecordsInv, publisher.pc # "rest", NEW row, JobOK(row, now),
           SameJob(db.jobs[publisher.job], row),
           row.attempts = db.jobs[publisher.job].attempts,
           PublicationEnds([err |-> "none", table |-> Assigned(db.jobs, publisher.job, row)])
    PROVE  RecordsInv' /\ Keeps(db, db')
<1> DEFINE j == publisher.job
<1>1. /\ j \in DOMAIN db.jobs /\ db.jobs[j].status = "built" /\ JobOK(db.jobs[j], now)
      /\ now \in Nat
  BY Publishing
<1>2. /\ ~LockedByTx(j) /\ CommitsRow("jobs", j, row) /\ publisher' = NotPublishing
      /\ next' = next /\ call' = call /\ worker' = worker /\ now' = now
  BY <1>1 DEF PublicationEnds, NotPublishing, Assigned
<1>3. now' \in Nat /\ now <= now' BY <1>1, <1>2
<1>4. row.attempts >= db.jobs[j].attempts
  <2>1. db.jobs[j].attempts \in Int BY <1>1 DEF JobOK, Jobs!Fits
  <2> QED BY <2>1
<1>5. /\ SameBut(db, db', "jobs") /\ JobsChanged(db.jobs, db'.jobs, now')
      /\ DOMAIN db'.jobs = DOMAIN db.jobs
      /\ db'.jobs[j] = row /\ \A i \in DOMAIN db.jobs \ {j} : db'.jobs[i] = db.jobs[i]
      /\ tx = NoTransaction => tx' = NoTransaction
      /\ tx # NoTransaction =>
            /\ j \in DOMAIN tx.jobs /\ tx.jobs[j] = db.jobs[j]
            /\ SameBut(tx, tx', "jobs") /\ JobsChanged(tx.jobs, tx'.jobs, now')
            /\ DOMAIN tx'.jobs = DOMAIN tx.jobs
            /\ tx'.jobs[j] = row /\ \A i \in DOMAIN tx.jobs \ {j} : tx'.jobs[i] = tx.jobs[i]
            /\ \A i \in DOMAIN db.jobs \cap DOMAIN tx.jobs :
                tx'.jobs[i].attempts >= db'.jobs[i].attempts
            /\ Follows(db', tx')
  BY <1>1, <1>2, <1>3, <1>4, RowCommitted
<1>6. WorkerTyped(worker, next) BY DEF RecordsInv, RecordsTypeOK, WorkerTyped
<1>7. /\ ChoiceIs(worker, db, now) /\ HeldIs(worker, db, tx)
      /\ tx # NoTransaction => ChoiceIs(worker, tx, now)
  BY DEF RecordsInv, WorkerInv
<1>8. worker.pc \in {"latest", "skip", "take", "commit", "build"} => worker.job # j
  BY <1>1, <1>7 DEF ChoiceIs
<1>9. ChoiceIs(worker, db', now) BY <1>5, <1>7, <1>8 DEF ChoiceIs
<1>10. tx # NoTransaction => ChoiceIs(worker, tx', now) BY <1>5, <1>7, <1>8 DEF ChoiceIs
<1>11. HeldIs(worker, db', tx') BY <1>5, <1>7, <1>8 DEF HeldIs
<1>12. WorkerInv' BY <1>2, <1>5, <1>9, <1>10, <1>11 DEF WorkerInv
<1>13. PublisherIs(NotPublishing, call, db') BY DEF PublisherIs, NotPublishing
<1> QED BY <1>2, <1>3, <1>5, <1>6, <1>12, <1>13, JobsStep

\* The job is marked published.
LEMMA JobArtifactsStep ==
    ASSUME RecordsInv, JobArtifacts
    PROVE  RecordsInv' /\ Keeps(db, db')
<1> DEFINE j == publisher.job
           set == [status |-> "published", finished_at |-> now]
           row == Overlaid(db.jobs[j], set)
           new == Assigned(db.jobs, j, row)
<1>1. publisher.pc = "published" BY DEF JobArtifacts
<1>2. /\ j \in DOMAIN db.jobs /\ db.jobs[j].status = "built" /\ JobOK(db.jobs[j], now)
      /\ now \in Nat
  BY <1>1, Publishing
<1>3. JobOK(row, now) /\ SameJob(db.jobs[j], row) /\ row.attempts = db.jobs[j].attempts
  BY <1>2, PublishedOK
<1>4. Jobs!UpdateOne(db.jobs, j, Setting(set)) = [err |-> "none", table |-> new]
  <2>1. "status" \in DOMAIN set /\ set["status"] \in Jobs!Statuses BY DEF Jobs!Statuses
  <2> HIDE DEF set
  <2> QED BY <1>2, <2>1, JobUpdated
<1> HIDE DEF row
<1>5. PublicationEnds([err |-> "none", table |-> new]) BY <1>4 DEF JobArtifacts
<1> QED BY <1>1, <1>3, <1>5, PublicationEndsStep

\* What PublishFails says, with NoText for "".
FailStep ==
    /\ publisher.pc # "rest"
    /\ PublicationEnds(MarkJob(db.jobs, publisher.job, now, "failed", NoText, "publish_failed"))

\* It does say that.
LEMMA FailStepIs == PublishFails => FailStep
BY Zenon DEF PublishFails, FailStep, NoText

\* The publication fails, and the job is marked so.
LEMMA PublishFailsStep ==
    ASSUME RecordsInv, PublishFails
    PROVE  RecordsInv' /\ Keeps(db, db')
<1> DEFINE j == publisher.job
           row == Overlaid(db.jobs[j], Marking(now, "failed", NoText, "publish_failed"))
           new == Assigned(db.jobs, j, row)
<1>1. publisher.pc # "rest" BY FailStepIs DEF FailStep
<1>2. /\ j \in DOMAIN db.jobs /\ db.jobs[j].status = "built" /\ JobOK(db.jobs[j], now)
      /\ now \in Nat
  BY <1>1, Publishing
<1>3. JobOK(row, now) /\ SameJob(db.jobs[j], row) /\ row.attempts = db.jobs[j].attempts
  BY <1>2, UnpublishedOK
<1> HIDE DEF row
<1>4. MarkJob(db.jobs, j, now, "failed", NoText, "publish_failed") = [err |-> "none", table |-> new]
  <2>1. ASSUME NEW s \in Jobs!Statuses, NEW failure
        PROVE  MarkJob(db.jobs, j, now, s, NoText, failure)
               = [err |-> "none",
                  table |-> Assigned(db.jobs, j,
                                Overlaid(db.jobs[j], Marking(now, s, NoText, failure)))]
    BY <1>2, MarkJobIs
  <2>2. "failed" \in Jobs!Statuses BY DEF Jobs!Statuses
  <2> QED BY <2>1, <2>2, Zenon DEF row
<1> HIDE DEF new
<1>5. PublicationEnds([err |-> "none", table |-> new]) BY <1>4, FailStepIs, Zenon DEF FailStep
<1> QED BY <1>1, <1>3, <1>5, PublicationEndsStep DEF new

\* Its process stops, or it cannot even be marked.
LEMMA PublisherStopsStep ==
    ASSUME RecordsInv, PublisherStops
    PROVE  RecordsInv' /\ Keeps(db, db')
<1>1. /\ db' = db /\ tx' = tx /\ next' = next /\ call' = call /\ worker' = worker
      /\ now' = now /\ publisher' = NotPublishing
  BY DEF PublisherStops
<1>2. now' \in Nat /\ now <= now' BY <1>1 DEF RecordsInv, RecordsTypeOK
<1>3. PublisherIs(NotPublishing, call, db) BY DEF PublisherIs, NotPublishing
<1> QED BY <1>1, <1>2, <1>3, PublisherReads

-----------------------------------------------------------------------------
(* The invariant holds. *)

\* It holds of the empty tables.
LEMMA RecordsStart == RecordsInit => RecordsInv
<1> SUFFICES ASSUME RecordsInit PROVE RecordsInv OBVIOUS
<1>1. /\ db = [t \in Tables |-> << >>] /\ next = [t \in Tables |-> 1]
      /\ tx = NoTransaction /\ call = Idle /\ worker = Resting
      /\ publisher = NotPublishing /\ now = 0
  BY DEF RecordsInit
<1>2. DOMAIN << >> = {} OBVIOUS
<1>3. /\ DOMAIN db = Tables
      /\ db.artifacts = << >> /\ db.dependencies = << >> /\ db.jobs = << >>
      /\ db.packages = << >> /\ db.versions = << >>
  BY <1>1 DEF Tables
<1>4. RecordsTypeOK
  <2>1. call \in Idles BY <1>1 DEF Idle, Idles
  <2>2. worker \in Claimings /\ worker.pc = "rest" BY <1>1 DEF Resting, Claimings
  <2> QED BY <1>1, <2>1, <2>2 DEF RecordsTypeOK
<1>5. CommittedInv
  <2>1. View(db, next, now)
    BY <1>2, <1>3 DEF View, IdsOK, ArtifactsOK, DependenciesOK, JobsOK, PackagesOK, VersionsOK
  <2>2. WholeBut(db, {}, {}) BY <1>2, <1>3 DEF WholeBut, RefersWithin
  <2> QED BY <2>1, <2>2 DEF CommittedInv
<1>6. OpenInv
  <2>1. call.fn = "none" BY <1>1 DEF Idle
  <2> QED BY <1>1, <2>1 DEF OpenInv, InTransaction
<1>7. WorkerInv BY <1>1, RestingIs DEF WorkerInv
<1>8. PublisherIs(publisher, call, db) BY <1>1 DEF PublisherIs, NotPublishing
<1> QED BY <1>4, <1>5, <1>6, <1>7, <1>8 DEF RecordsInv

\* A step of CreatePackage.
LEMMA CreatePackageStep ==
    ASSUME RecordsInv, CreatePackage
    PROVE  RecordsInv' /\ Keeps(db, db')
<1>1. CASE CreateManaged BY <1>1, CreateManagedStep
<1>2. CASE CreateVersion BY <1>2, CreateVersionStep
<1>3. CASE CreateDependency BY <1>3, CreateDependencyStep
<1>4. CASE skipPendingJobsForPackage BY <1>4, SkipStep
<1>5. CASE CreateJob BY <1>5, CreateJobStep
<1>6. CASE CreateCommit BY <1>6, CreateCommitStep
<1> QED BY <1>1, <1>2, <1>3, <1>4, <1>5, <1>6 DEF CreatePackage

\* A step of RemovePackage.
LEMMA RemovePackageStep ==
    ASSUME RecordsInv, RemovePackage
    PROVE  RecordsInv' /\ Keeps(db, db')
<1>1. CASE RemoveRead BY <1>1, RemoveReadStep
<1>2. CASE RemoveArtifacts BY <1>2, RemoveArtifactsStep
<1>3. CASE RemoveJobs BY <1>3, RemoveJobsStep
<1>4. CASE RemoveDependencies BY <1>4, RemoveDependenciesStep
<1>5. CASE RemoveVersions BY <1>5, RemoveVersionsStep
<1>6. CASE RemoveManaged BY <1>6, RemoveManagedStep
<1>7. CASE RemoveCommit BY <1>7, RemoveCommitStep
<1> QED BY <1>1, <1>2, <1>3, <1>4, <1>5, <1>6, <1>7 DEF RemovePackage

\* A step of ClaimJob.
LEMMA ClaimJobStep ==
    ASSUME RecordsInv, ClaimJob
    PROVE  RecordsInv' /\ Keeps(db, db')
<1>1. CASE ClaimSelect BY <1>1, ClaimSelectStep
<1>2. CASE ClaimLatest BY <1>2, ClaimLatestStep
<1>3. CASE ClaimSkip BY <1>3, ClaimSkipStep
<1>4. CASE ClaimTake BY <1>4, ClaimTakeStep
<1>5. CASE ClaimCommit BY <1>5, ClaimCommitStep
<1> QED BY <1>1, <1>2, <1>3, <1>4, <1>5 DEF ClaimJob

\* A build ends well or badly.
LEMMA Failures == \A failure \in {"", "build_failed"} : IsFailure(failure)
BY Zenon DEF IsFailure, NoText

\* Every step keeps the invariant, and what rows have in common with what they become.
LEMMA RecordsKept ==
    ASSUME RecordsInv, RecordsNext
    PROVE  RecordsInv' /\ Keeps(db, db')
<1>1. CASE \E name \in Names, rev \in Revisions : CreateBegin(name, rev, now + 1 + Delay[rev])
  BY <1>1, CreateBeginStep
<1>2. CASE CreatePackage BY <1>2, CreatePackageStep
<1>3. CASE ClaimBegin BY <1>3, ClaimBeginStep
<1>4. CASE ClaimJob BY <1>4, ClaimJobStep
<1>5. CASE \E failure \in {"", "build_failed"} : WorkerMark(failure)
  BY <1>5, WorkerMarkStep, Failures
<1>6. CASE \E id \in DOMAIN db.jobs : PublishBegin(id) BY <1>6, PublishBeginStep
<1>7. CASE PublishArtifact BY <1>7, PublishArtifactStep
<1>8. CASE JobArtifacts BY <1>8, JobArtifactsStep
<1>9. CASE PublishFails BY <1>9, PublishFailsStep
<1>10. CASE \E name \in Names : RemoveBegin(name) BY <1>10, RemoveBeginStep
<1>11. CASE RemovePackage BY <1>11, RemovePackageStep
<1>12. CASE StatementFails BY <1>12, StatementFailsStep
<1>13. CASE WorkerStops BY <1>13, WorkerStopsStep
<1>14. CASE PublisherStops BY <1>14, PublisherStopsStep
<1> QED BY <1>1, <1>2, <1>3, <1>4, <1>5, <1>6, <1>7, <1>8, <1>9, <1>10, <1>11, <1>12, <1>13,
       <1>14 DEF RecordsNext

\* Nothing happens.
LEMMA RecordsStutter ==
    ASSUME RecordsInv, UNCHANGED recordVars
    PROVE  RecordsInv'
BY DEF recordVars, RecordsInv, RecordsTypeOK, CommittedInv, OpenInv, WorkerInv, PublisherIs

\* Whatever calls, workers and failures there are, committed tables are whole
\* and fit, and the open transaction has done what its call says.
THEOREM RecordsAreSound == RecordsSpec => []RecordsInv
<1>1. RecordsInit => RecordsInv BY RecordsStart
<1>2. RecordsInv /\ [RecordsNext]_recordVars => RecordsInv' BY RecordsKept, RecordsStutter
<1> QED BY <1>1, <1>2, PTL DEF RecordsSpec

-----------------------------------------------------------------------------
(* What follows. *)

\* Every row that is committed by the functions of db.go has an id that was
\* given out, all columns of its entity and what the entity allows in them.
THEOREM EveryRowFits == RecordsSpec => []RowsFit
<1>1. RecordsInv => RowsFit
  <2> SUFFICES ASSUME RecordsInv PROVE RowsFit OBVIOUS
  <2>1. View(db, next, now) BY DEF RecordsInv, CommittedInv
  <2>2. /\ ArtifactsOK(db.artifacts, next.artifacts)
        /\ DependenciesOK(db.dependencies, next.dependencies)
        /\ JobsOK(db.jobs, next.jobs, now)
        /\ PackagesOK(db.packages, next.packages, now)
        /\ VersionsOK(db.versions, next.versions, now)
    BY <2>1 DEF View
  <2>3. \A t \in Tables : \A i \in DOMAIN db[t] : i < next[t] /\ db[t][i].id = i
    BY <2>2 DEF Tables, ArtifactsOK, DependenciesOK, JobsOK, PackagesOK, VersionsOK, IdsOK
  <2>4. \A r \in RowsOf("artifacts") : Artifacts!Fits(r) BY <2>2 DEF RowsOf, ArtifactsOK
  <2>5. \A r \in RowsOf("dependencies") :
            Dependencies!Fits(r) /\ r.dependency_kind \in Dependencies!Kinds
    BY <2>2 DEF RowsOf, DependenciesOK
  <2>6. \A r \in RowsOf("jobs") : Jobs!Fits(r) /\ r.status \in Jobs!Statuses
    BY <2>2 DEF RowsOf, JobsOK, JobOK
  <2>7. \A r \in RowsOf("packages") :
            ManagedPackages!Fits(r) /\ r.source_kind \in ManagedPackages!Kinds
    BY <2>2 DEF RowsOf, PackagesOK
  <2>8. \A r \in RowsOf("versions") : PackageVersions!Fits(r) BY <2>2 DEF RowsOf, VersionsOK
  <2> QED BY <2>3, <2>4, <2>5, <2>6, <2>7, <2>8 DEF RowsFit
<1> QED BY <1>1, RecordsAreSound, PTL

\* Though the schema has no foreign key, no committed row refers to one that is
\* not there, and every committed version has one job and all its dependencies:
\* as long as imports and removals follow each other, and only other packages are
\* published while one is removed.
THEOREM NoRowDangles == RecordsSpec => []NothingDangles
<1>1. RecordsInv => NothingDangles
  <2> SUFFICES ASSUME RecordsInv PROVE NothingDangles OBVIOUS
  <2>1. WholeBut(db, {}, {}) BY DEF RecordsInv, CommittedInv
  <2>2. RefersWithin(db) BY <2>1 DEF WholeBut
  <2>3. /\ \A r \in RowsOf("artifacts") : r.job_id \in DOMAIN db.jobs
        /\ \A r \in RowsOf("versions") : r.package_id \in DOMAIN db.packages
        /\ \A r \in RowsOf("jobs") : r.package_version_id \in DOMAIN db.versions
        /\ \A r \in RowsOf("dependencies") : r.package_version_id \in DOMAIN db.versions
    BY <2>2 DEF RefersWithin, RowsOf
  <2>4. \A k \in DOMAIN db.packages : \E r \in RowsOf("versions") : r.package_id = k
    BY <2>1 DEF WholeBut, RowsOf
  <2>5. ASSUME NEW v \in DOMAIN db.versions
        PROVE  /\ \E j \in DOMAIN db.jobs :
                    {i \in DOMAIN db.jobs : db.jobs[i].package_version_id = v} = {j}
               /\ {<<r.dependency_name, r.dependency_kind>> :
                        r \in {d \in RowsOf("dependencies") : d.package_version_id = v}}
                  = {<<d.name, depKind(d.aur)>> : d \in ToSet(Deps[db.versions[v].revision])}
    <3>1. VersionIsWhole(db, v) BY <2>1 DEF WholeBut
    <3>2. {<<r.dependency_name, r.dependency_kind>> :
                r \in {d \in RowsOf("dependencies") : d.package_version_id = v}}
          = Needed(db.dependencies, v)
      BY DEF RowsOf, Needed
    <3> QED BY <3>1, <3>2 DEF VersionIsWhole, JobsOf, Pairs
  <2> QED BY <2>3, <2>4, <2>5 DEF NothingDangles
<1> QED BY <1>1, RecordsAreSound, PTL

\* The times, the attempts, the log and the error of a committed job agree with
\* its status.
THEOREM JobsTellTheirStory == RecordsSpec => []JobColumnsAgree
<1>1. RecordsInv => JobColumnsAgree
  <2> SUFFICES ASSUME RecordsInv PROVE JobColumnsAgree OBVIOUS
  <2>1. \A r \in RowsOf("jobs") : ColumnsAgree(r)
    BY DEF RecordsInv, CommittedInv, View, JobsOK, JobOK, RowsOf
  <2> QED BY <2>1 DEF JobColumnsAgree, ColumnsAgree
<1> QED BY <1>1, RecordsAreSound, PTL

\* As long as imports and removals follow each other, no call and no publication
\* ends because the client refuses a mutation, an index is violated or a query
\* finds more than one row, and no publication because its job is not there.
THEOREM ClientIsUsedWell == RecordsSpec => []NoClientError
<1>1. RecordsInv => NoClientError
  <2>1. \A c \in Idles : c.err \in {"none", "not_found", "running"} BY DEF Idles
  <2>2. \A p \in Publications \cup {NotPublishing} : p.err = "none"
    BY DEF Publications, NotPublishing
  <2> QED BY <2>1, <2>2, CallKinds DEF RecordsInv, RecordsTypeOK, NoClientError
<1> QED BY <1>1, RecordsAreSound, PTL

\* What is recorded of a package, a version or a job stays as it was recorded,
\* and a source that changes has its time.
THEOREM RecordedTimesStay == RecordsSpec => TimesAreKept
<1>1. RecordsInv /\ [RecordsNext]_recordVars => [Keeps(db, db')]_recordVars BY RecordsKept
<1>2. [Keeps(db, db')]_recordVars =>
        [/\ \A k \in DOMAIN db.packages \cap DOMAIN db'.packages :
            LET old == db.packages[k] new == db'.packages[k]
            IN  /\ new.created_at = old.created_at /\ new.name = old.name
                /\ new.source_path # old.source_path => new.updated_at > old.updated_at
         /\ \A v \in DOMAIN db.versions \cap DOMAIN db'.versions : db'.versions[v] = db.versions[v]
         /\ \A j \in DOMAIN db.jobs \cap DOMAIN db'.jobs :
            /\ db'.jobs[j].created_at = db.jobs[j].created_at
            /\ db'.jobs[j].attempts >= db.jobs[j].attempts]_recordVars
  BY DEF Keeps
<1> QED BY <1>1, <1>2, RecordsAreSound, PTL DEF RecordsSpec, TimesAreKept
=============================================================================
