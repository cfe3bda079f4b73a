-------------------------- MODULE EntPackageVersion --------------------------
(* The PackageVersion entity: a revision of a package that was imported.    *)
EXTENDS Ent

Columns == {"id", "package_id", "revision", "source_digest", "pkgver", "pkgrel",
            "metadata", "first_seen_at"}
Texts == {"revision", "source_digest", "pkgver", "pkgrel"}

\* metadata is JSON: the split packages are what the program reads back.
Fits(row) ==
    /\ DOMAIN row = Columns
    /\ \A c \in {"id", "package_id"} : row[c] \in Int
    /\ \A c \in Texts : row[c] \in STRING
    /\ row.metadata \in SUBSET STRING
    /\ row.first_seen_at \in Nat

Settable == Columns \ {"id"}
Addable == {"package_id"}
Clearable == {}

\* JSON is not searched.
Predicates ==
    [c \in Columns \ {"metadata"} |-> IF c \in Texts THEN Searched ELSE Ordered]

Indexes == {{"package_id", "revision"}}
Required == Settable

Create(t, id, m) ==
    IF Required \subseteq DOMAIN m.set
    THEN Constrained(t, Assigned(t, id, NewRow(id, m, Columns)), Indexes)
    ELSE Fails(t, "validation")

\* first_seen_at has no setter in the update builders.
Updatable == Settable \ {"first_seen_at"}
Update(t, ps, m) == SaveAll(t, Matching(t, ps, Predicates), m, Indexes)
UpdateOne(t, id, m) == SaveOne(t, id, m, Indexes)
Delete(t, ps) == DeleteAll(t, Matching(t, ps, Predicates))

CreateBulk(t, mutations) ==
    SaveBatch(t, [i \in DOMAIN mutations |-> Create(<< >>, i, mutations[i])], Indexes)

Query(t, q) == Selected(t, q, Predicates)
Answers(t, q) == AnswersTo(LAMBDA limit : Query(t, [q EXCEPT !.limit = limit]), q.limit)

\* The statement a builder of the client ends in.
PackageVersionClient(t, s) ==
    CASE s.op = "create" -> Create(t, s.id, s.mutation)
      [] s.op = "create bulk" -> CreateBulk(t, s.mutations)
      [] s.op = "update" -> Update(t, s.where, s.mutation)
      [] s.op = "update one" -> UpdateOne(t, s.id, s.mutation)
      [] s.op = "delete" -> Delete(t, s.where)
      [] s.op = "delete one" -> DeleteOne(t, s.id)
=============================================================================
