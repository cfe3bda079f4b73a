-------------------------------- MODULE Client --------------------------------
(***************************************************************************)
(* The generated client used freely: the builder of any entity collects    *)
(* calls and is saved, alone or in a batch, or rows are asked for.  The    *)
(* program makes only some of these calls; Records has them in their       *)
(* order.                                                                  *)
(***************************************************************************)
EXTENDS Ent, TLC

CONSTANT Entities       \* those whose client is used

Artifacts == INSTANCE EntArtifact
AuditEvents == INSTANCE EntAuditEvent
Dependencies == INSTANCE EntDependency
Jobs == INSTANCE EntJob
ManagedPackages == INSTANCE EntManagedPackage
PackageVersions == INSTANCE EntPackageVersion

VARIABLE statement      \* the last statement: its kind, what it was given, what it did

NoStatement == [fn |-> "none", in |-> << >>, out |-> << >>]
ClientInit == statement = NoStatement
States(fn, in, out) == statement' = [fn |-> fn, in |-> in, out |-> out]

\* What is generated for an entity.
Generated(columns, numbers, add, clear, update, indexes, required, where) ==
    [columns |-> columns, numbers |-> numbers, add |-> add, clear |-> clear, update |-> update,
     indexes |-> indexes, required |-> required, where |-> where]
EntityOf ==
    [Artifact |-> Generated(Artifacts!Columns, {"id", "job_id", "size_bytes", "published_at"},
        Artifacts!Addable, Artifacts!Clearable, Artifacts!Updatable, Artifacts!Indexes,
        Artifacts!Required, Artifacts!Predicates),
     AuditEvent |-> Generated(AuditEvents!Columns, {"id", "package_version_id", "created_at"},
        AuditEvents!Addable, AuditEvents!Clearable, AuditEvents!Updatable, AuditEvents!Indexes,
        AuditEvents!Required, AuditEvents!Predicates),
     Dependency |-> Generated(Dependencies!Columns, {"id", "package_version_id"},
        Dependencies!Addable, Dependencies!Clearable, Dependencies!Updatable,
        Dependencies!Indexes, Dependencies!Required, Dependencies!Predicates),
     Job |-> Generated(Jobs!Columns, {"id", "package_version_id", "attempts"} \cup Jobs!Times,
        Jobs!Addable, Jobs!Clearable, Jobs!Updatable, Jobs!Indexes,
        Jobs!Required \ DOMAIN Jobs!Defaults, Jobs!Predicates),
     ManagedPackage |-> Generated(ManagedPackages!Columns, {"id"} \cup ManagedPackages!Times,
        ManagedPackages!Addable, ManagedPackages!Clearable, ManagedPackages!Updatable,
        ManagedPackages!Indexes, {"name", "source_kind", "source_ref", "source_path"},
        ManagedPackages!Predicates),
     PackageVersion |-> Generated(PackageVersions!Columns, {"id", "package_id", "first_seen_at"},
        PackageVersions!Addable, PackageVersions!Clearable, PackageVersions!Updatable,
        PackageVersions!Indexes, PackageVersions!Required, PackageVersions!Predicates)]

-----------------------------------------------------------------------------
(* Rows.  The values of a column are numbered; the last number of a kind is *)
(* not allowed.                                                            *)

KindsOf(e) ==
    CASE e = "Job" -> <<"pending", "built", "skipped", "paused">>
      [] e = "Dependency" -> <<"repo", "aur", "aur", "pip">>
      [] OTHER -> <<"aur", "local", "local", "git">>

Value(e, c, k) ==
    IF c \in EntityOf[e].numbers THEN k
    ELSE IF c \in {"status", "dependency_kind", "source_kind"} THEN KindsOf(e)[k]
    ELSE IF c = "enabled" THEN k = 1
    ELSE IF c = "metadata" THEN {ToString(k)}
    ELSE ToString(k)

\* The first row has NULL wherever a column allows it, the others are alike
\* but for what identifies them.
RowOf(e, i) ==
    [c \in EntityOf[e].columns |->
        IF c = "id" THEN i
        ELSE IF i = 1 /\ c \in EntityOf[e].clear THEN Null
        ELSE IF i = 3 /\ ~\E index \in EntityOf[e].indexes : c \in index THEN Value(e, c, 2)
        ELSE Value(e, c, i)]
TableOf(e) == [i \in 1 .. 3 |-> RowOf(e, i)]
Now == 9

FitsIn(e, row) ==
    CASE e = "Artifact" -> Artifacts!Fits(row)
      [] e = "AuditEvent" -> AuditEvents!Fits(row)
      [] e = "Dependency" -> Dependencies!Fits(row) /\ row.dependency_kind \in Dependencies!Kinds
      [] e = "Job" -> Jobs!Fits(Jobs!Scan(row)) /\ row.status \in Jobs!Statuses
      [] e = "ManagedPackage" -> ManagedPackages!Fits(row) /\ row.source_kind \in ManagedPackages!Kinds
      [] e = "PackageVersion" -> PackageVersions!Fits(row)

-----------------------------------------------------------------------------
(* Statements.                                                             *)

\* The client of an entity.
Mutate(e, t, s) ==
    CASE e = "Artifact" -> Artifacts!ArtifactClient(t, s)
      [] e = "AuditEvent" -> AuditEvents!AuditEventClient(t, s)
      [] e = "Dependency" -> Dependencies!DependencyClient(t, s)
      [] e = "Job" -> Jobs!JobClient(t, s)
      [] e = "ManagedPackage" -> ManagedPackages!ManagedPackageClient(t, s)
      [] e = "PackageVersion" -> PackageVersions!PackageVersionClient(t, s)

Answered(e, t, q) ==
    CASE e = "Artifact" -> Artifacts!Answers(t, q)
      [] e = "AuditEvent" -> AuditEvents!Answers(t, q)
      [] e = "Dependency" -> Dependencies!Answers(t, q)
      [] e = "Job" -> Jobs!Answers(t, q)
      [] e = "ManagedPackage" -> ManagedPackages!Answers(t, q)
      [] e = "PackageVersion" -> PackageVersions!Answers(t, q)

\* One call of a builder or its mutation.
BuilderCalls(e) ==
    LET Does(do, columns, ks) == {[do |-> do, col |-> c, k |-> k] : c \in columns, k \in ks}
        g == EntityOf[e]
    IN  Does("set", g.update, 2 .. 4) \cup Does("nillable", g.update, {0, 3})
        \cup Does("add", g.add, {2}) \cup Does("clear", g.clear, {0})
        \cup Does("reset", g.update, {0})

Called(e, m, b) ==
    CASE b.do = "set" -> SetField(m, b.col, Value(e, b.col, b.k))
      [] b.do = "nillable" -> SetNillable(m, b.col, IF b.k = 0 THEN Null ELSE Value(e, b.col, b.k))
      [] b.do = "add" -> AddField(m, b.col, b.k)
      [] b.do = "clear" -> ClearField(m, b.col)
      [] b.do = "reset" -> ResetField(m, b.col)
Built(e, calls) == FoldLeft(LAMBDA m, b : Called(e, m, b), NoChange, calls)

\* A column that is cleared and set again is written twice in one statement,
\* which PostgreSQL refuses; such builders are left out.
Writable(m) == m.clear \cap (DOMAIN m.set \cup DOMAIN m.add) = {}

\* Any two calls, or three about one column.
CallsOn(e) ==
    LET Of(c) == {b \in BuilderCalls(e) : b.col = c}
    IN  {<<a, b>> : a, b \in BuilderCalls(e)}
        \cup UNION {{<<a, b, d>> : a, b, d \in Of(c)} : c \in EntityOf[e].update}

CallUpdate ==
    /\ statement = NoStatement
    /\ \E e \in Entities : \E calls \in CallsOn(e), where \in {{}, {Where("id", "NEQ", 1)}} :
           /\ Writable(Built(e, calls))
           /\ States("update",
                     [entity |-> e, calls |-> calls, ids |-> IF where = {} THEN 1 .. 3 ELSE 2 .. 3],
                     Mutate(e, TableOf(e), [op |-> "update", where |-> where,
                                            mutation |-> Built(e, calls), now |-> Now]))

CallUpdateOne ==
    /\ statement = NoStatement
    /\ \E e \in Entities : \E calls \in CallsOn(e), id \in {1, 2, 4} :
           /\ Writable(Built(e, calls))
           /\ States("update", [entity |-> e, calls |-> calls, ids |-> {id}],
                     Mutate(e, TableOf(e), [op |-> "update one", id |-> id,
                                            mutation |-> Built(e, calls), now |-> Now]))

CallDelete ==
    /\ statement = NoStatement
    /\ \E e \in Entities, id \in {1, 2, 4} :
           \/ States("delete", [entity |-> e, ids |-> {id}], Mutate(e, TableOf(e), [op |-> "delete one", id |-> id]))
           \/ States("delete", [entity |-> e, ids |-> 1 .. 3 \ {id}],
                     Mutate(e, TableOf(e), [op |-> "delete", where |-> {Where("id", "NEQ", id)}]))

\* A create builder that has been given all columns but those in left.
Given(e, k, left) ==
    [NoChange EXCEPT !.set = [c \in EntityOf[e].columns \ ({"id"} \cup left) |-> Value(e, c, k)]]

CallCreate ==
    /\ statement = NoStatement
    /\ \E e \in Entities : \E k \in 2 .. 4, left \in SUBSET (EntityOf[e].columns \ {"id"}) :
           /\ Cardinality(left) <= 2
           /\ States("create", [entity |-> e, k |-> k, left |-> left],
                     Mutate(e, TableOf(e), [op |-> "create", id |-> 5,
                                            mutation |-> Given(e, k, left), now |-> Now]))

CallBatch ==
    /\ statement = NoStatement
    /\ \E e \in Entities, k \in 2 .. 4, l \in 2 .. 4 :
           States("batch", [entity |-> e, k |-> k, l |-> l],
                  Mutate(e, TableOf(e),
                      [op |-> "create bulk", now |-> Now,
                       mutations |-> (5 :> Given(e, k, {})) @@ (6 :> Given(e, l, {}))]))

\* Text is compared for equality only.
Comparisons(e, c) ==
    IF c \in EntityOf[e].numbers THEN EntityOf[e].where[c] ELSE EntityOf[e].where[c] \cap (Listed \cup Nil)

CallQuery ==
    /\ statement = NoStatement
    /\ \E e \in Entities : \E c \in DOMAIN EntityOf[e].where, k \in 1 .. 3 :
       \E offset \in 0 .. 2, limit \in {Null, 1} :
           LET Asked(op, terms) ==
                   NewQuery({Where(c, op, IF op \in {"In", "NotIn"} THEN {Value(e, c, k)}
                                          ELSE Value(e, c, k))}, terms)
               answers == [op \in Comparisons(e, c) |-> Answered(e, TableOf(e), Asked(op, <<Asc("id")>>))]
               part == [op \in Comparisons(e, c) |->
                           Answered(e, TableOf(e), [Asked(op, <<Desc("id")>>) EXCEPT
                                                    !.offset = offset, !.limit = limit])]
               sorted == IF c \notin EntityOf[e].numbers \ EntityOf[e].clear THEN << >>
                         ELSE Answered(e, TableOf(e), NewQuery({}, <<Desc(c), Asc("id")>>)).all
           IN  States("query", [entity |-> e, col |-> c, offset |-> offset, limit |-> limit],
                      [found |-> [op \in DOMAIN answers |-> ToSet(answers[op].all)],
                       part |-> part, sorted |-> sorted])

ClientNext ==
    CallUpdate \/ CallUpdateOne \/ CallDelete \/ CallCreate \/ CallBatch \/ CallQuery

-----------------------------------------------------------------------------
\* The value a column has after a builder's calls about it, one after the other.
Replayed(e, old, calls, c) ==
    LET about == SelectSeq(calls, LAMBDA b : b.col = c /\ ~(b.do = "nillable" /\ b.k = 0))
        from == Max({0} \cup {i \in DOMAIN about : about[i].do = "reset"})
        counts == SubSeq(about, from + 1, Len(about))
        sets == {i \in DOMAIN counts : counts[i].do \in {"set", "nillable"}}
        adds == {i \in DOMAIN counts : counts[i].do = "add" /\ i > Max({0} \cup sets)}
    IN  IF \E i \in DOMAIN counts : counts[i].do = "clear" THEN Null
        ELSE IF adds # {} THEN (IF old = Null THEN 0 ELSE old) + 2 * Cardinality(adds)
        ELSE IF sets # {} THEN Value(e, c, counts[Max(sets)].k)
        ELSE IF c = "updated_at" THEN Now ELSE old

\* An update or a deletion touches the rows it names and no other, and in them
\* the columns its builder was called for, as if the calls came one after the
\* other; it fails as a whole, and only when the database must refuse it.  (A
\* count that follows a set forgets the set.)
SaveIsExact ==
    statement.fn \in {"update", "delete"} =>
        LET in == statement.in out == statement.out t == TableOf(in.entity)
            saved == [i \in DOMAIN t |->
                        IF i \notin in.ids THEN t[i]
                        ELSE [c \in DOMAIN t[i] |-> Replayed(in.entity, t[i][c], in.calls, c)]]
        IN  IF out.err # "none"
            THEN /\ out.table = t
                 /\ out.err = "not_found" => ~(in.ids \subseteq DOMAIN t)
            ELSE IF statement.fn = "delete" THEN out.table = [i \in DOMAIN t \ in.ids |-> t[i]]
            ELSE out.table = saved /\ in.ids \subseteq DOMAIN t

\* No statement, whatever its builder was given, leaves a row that cannot be
\* read back, a kind that is not listed or two rows the indexes forbid; one that
\* cannot be carried out in full leaves the table alone, and one that creates
\* leaves the rows there were.
StoredIsValid ==
    statement.fn \in {"update", "create", "batch"} =>
        LET in == statement.in out == statement.out t == TableOf(in.entity)
            added == DOMAIN out.table \ DOMAIN t
        IN  /\ \A i \in DOMAIN out.table : FitsIn(in.entity, out.table[i])
            /\ ~Violates(out.table, EntityOf[in.entity].indexes)
            /\ out.err # "none" => out.table = t
            /\ statement.fn # "update" => [i \in DOMAIN t |-> out.table[i]] = t
            /\ out.err = "none" =>
                Cardinality(added) = (CASE statement.fn = "batch" -> 2
                                        [] statement.fn = "create" -> 1 [] OTHER -> 0)
            /\ statement.fn = "create" /\ added # {} => in.left \cap EntityOf[in.entity].required = {}

\* The predicates of a column divide its rows: what is NULL is found by IsNil
\* and by nothing else, and NotIn and GTE are the rest of In and LT.  A query
\* with an offset and a limit answers for the part of the rows it asks for, but
\* for First, Only and Exist, which look past the limit.
QueriesAgree ==
    statement.fn = "query" =>
        LET in == statement.in t == TableOf(in.entity) c == in.col
            f == statement.out.found rows == {i \in DOMAIN t : t[i][c] # Null}
            sorted == statement.out.sorted
        IN  /\ f["EQ"] \cup f["NEQ"] = rows /\ f["EQ"] \cap f["NEQ"] = {}
            /\ "In" \in DOMAIN f => f["In"] = f["EQ"] /\ f["NotIn"] = f["NEQ"]
            /\ "GTE" \in DOMAIN f =>
                /\ f["GTE"] = rows \ f["LT"] /\ f["LTE"] = rows \ f["GT"]
                /\ f["EQ"] = f["GTE"] \cap f["LTE"]
            /\ "IsNil" \in DOMAIN f => f["IsNil"] = DOMAIN t \ rows /\ f["NotNil"] = rows
            /\ \A op \in DOMAIN f :
                LET part == statement.out.part[op]
                    rest == {i \in f[op] : Cardinality({j \in f[op] : j > i}) >= in.offset}
                IN  /\ ToSet(part.all) = IF in.limit = Null \/ rest = {} THEN rest ELSE {Max(rest)}
                    /\ part.first.id = IF rest = {} THEN Null ELSE Max(rest)
                    /\ part.exist <=> rest # {}
                    /\ part.only.err = (CASE rest = {} -> "not_found"
                                          [] Cardinality(rest) = 1 -> "none"
                                          [] OTHER -> "not_singular")
            /\ \A i, j \in DOMAIN sorted : i < j =>
                \/ t[sorted[i]][c] > t[sorted[j]][c]
                \/ t[sorted[i]][c] = t[sorted[j]][c] /\ sorted[i] < sorted[j]
=============================================================================
