---------------------------- MODULE EntDependency ----------------------------
(* The Dependency entity: what a package version needs, and where from.     *)
EXTENDS Ent

Kinds == {"repo", "aur"}

Columns == {"id", "package_version_id", "dependency_name", "dependency_kind"}

Fits(row) ==
    /\ DOMAIN row = Columns
    /\ \A c \in {"id", "package_version_id"} : row[c] \in Int
    /\ \A c \in {"dependency_name", "dependency_kind"} : row[c] \in STRING

Settable == Columns \ {"id"}
Addable == {"package_version_id"}
Clearable == {}

Predicates ==
    [c \in Columns |->
        CASE c = "dependency_name" -> Searched
          [] c = "dependency_kind" -> Listed
          [] OTHER -> Ordered]

Indexes == {{"package_version_id", "dependency_name"}}
Required == Settable
Valid(m) == "dependency_kind" \in DOMAIN m.set => m.set["dependency_kind"] \in Kinds

Create(t, id, m) ==
    IF Required \subseteq DOMAIN m.set /\ Valid(m)
    THEN Constrained(t, Assigned(t, id, NewRow(id, m, Columns)), Indexes)
    ELSE Fails(t, "validation")

Updatable == Settable
Update(t, ps, m) ==
    IF Valid(m) THEN SaveAll(t, Matching(t, ps, Predicates), m, Indexes)
    ELSE Fails(t, "validation")
UpdateOne(t, id, m) == IF Valid(m) THEN SaveOne(t, id, m, Indexes) ELSE Fails(t, "validation")
Delete(t, ps) == DeleteAll(t, Matching(t, ps, Predicates))

CreateBulk(t, mutations) ==
    SaveBatch(t, [i \in DOMAIN mutations |-> Create(<< >>, i, mutations[i])], Indexes)

Query(t, q) == Selected(t, q, Predicates)
Answers(t, q) == AnswersTo(LAMBDA limit : Query(t, [q EXCEPT !.limit = limit]), q.limit)

\* The statement a builder of the client ends in.
DependencyClient(t, s) ==
    CASE s.op = "create" -> Create(t, s.id, s.mutation)
      [] s.op = "create bulk" -> CreateBulk(t, s.mutations)
      [] s.op = "update" -> Update(t, s.where, s.mutation)
      [] s.op = "update one" -> UpdateOne(t, s.id, s.mutation)
      [] s.op = "delete" -> Delete(t, s.where)
      [] s.op = "delete one" -> DeleteOne(t, s.id)
=============================================================================
