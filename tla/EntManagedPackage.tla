-------------------------- MODULE EntManagedPackage --------------------------
(* The ManagedPackage entity: a package the system follows.                 *)
EXTENDS Ent

Kinds == {"aur", "local"}

Columns == {"id", "name", "source_kind", "source_ref", "source_path", "enabled",
            "created_at", "updated_at"}
Texts == {"name", "source_ref", "source_path"}
Times == {"created_at", "updated_at"}

Fits(row) ==
    /\ DOMAIN row = Columns
    /\ row.id \in Int
    /\ \A c \in Texts \cup {"source_kind"} : row[c] \in STRING
    /\ row.enabled \in BOOLEAN
    /\ \A c \in Times : row[c] \in Nat

Settable == Columns \ {"id"}
Addable == {}
Clearable == {}

Predicates ==
    [c \in Columns |->
        CASE c \in Texts -> Searched
          [] c = "source_kind" -> Listed
          [] c = "enabled" -> Flags
          [] OTHER -> Ordered]

Indexes == {{"name"}}
Required == Settable
Valid(m) == "source_kind" \in DOMAIN m.set => m.set["source_kind"] \in Kinds

WithDefaults(m, now) ==
    LET defaults == [enabled |-> TRUE, created_at |-> now, updated_at |-> now]
    IN  [m EXCEPT !.set = [c \in DOMAIN @ \cup DOMAIN defaults |->
                            IF c \in DOMAIN @ THEN @[c] ELSE defaults[c]]]

Create(t, id, mutation, now) ==
    LET m == WithDefaults(mutation, now)
    IN  IF Required \subseteq DOMAIN m.set /\ Valid(m)
        THEN Constrained(t, Assigned(t, id, NewRow(id, m, Columns)), Indexes)
        ELSE Fails(t, "validation")

\* created_at has no setter in the update builders; updated_at is set by them.
Updatable == Settable \ {"created_at"}
\* Faulty variant: an update has no defaults.
Untouched(m, now) == m

Touched(m, now) == IF "updated_at" \in DOMAIN m.set THEN m ELSE SetField(m, "updated_at", now)

Update(t, ps, m, now) ==
    IF Valid(m) THEN SaveAll(t, Matching(t, ps, Predicates), Touched(m, now), Indexes)
    ELSE Fails(t, "validation")

UpdateOne(t, id, m, now) ==
    IF Valid(m) THEN SaveOne(t, id, Touched(m, now), Indexes) ELSE Fails(t, "validation")

Delete(t, ps) == DeleteAll(t, Matching(t, ps, Predicates))

CreateBulk(t, mutations, now) ==
    SaveBatch(t, [i \in DOMAIN mutations |-> Create(<< >>, i, mutations[i], now)], Indexes)

Query(t, q) == Selected(t, q, Predicates)
Answers(t, q) == AnswersTo(LAMBDA limit : Query(t, [q EXCEPT !.limit = limit]), q.limit)

\* The statement a builder of the client ends in.
ManagedPackageClient(t, s) ==
    CASE s.op = "create" -> Create(t, s.id, s.mutation, s.now)
      [] s.op = "create bulk" -> CreateBulk(t, s.mutations, s.now)
      [] s.op = "update" -> Update(t, s.where, s.mutation, s.now)
      [] s.op = "update one" -> UpdateOne(t, s.id, s.mutation, s.now)
      [] s.op = "delete" -> Delete(t, s.where)
      [] s.op = "delete one" -> DeleteOne(t, s.id)
=============================================================================
