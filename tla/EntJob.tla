------------------------------- MODULE EntJob -------------------------------
(* The Job entity: a build of a package version and how far it is.          *)
EXTENDS Ent

Statuses == {"pending", "running", "built", "published", "failed", "skipped"}

Columns == {"id", "package_version_id", "kind", "status", "eligible_at", "claimed_at",
            "finished_at", "attempts", "log_path", "error", "created_at"}
Times == {"eligible_at", "claimed_at", "finished_at", "created_at"}
Texts == {"kind", "log_path", "error"}

\* What a row is read into: a pointer may be nil, an absent text reads as "".
Fits(row) ==
    /\ DOMAIN row = Columns
    /\ \A c \in {"id", "package_version_id", "attempts"} : row[c] \in Int
    /\ \A c \in Times : row[c] = Null \/ row[c] \in Nat
    /\ \A c \in Texts : row[c] = Null \/ row[c] \in STRING
    /\ row.status \in STRING
Scan(row) ==
    [c \in Columns |-> IF row[c] = Null /\ c \in {"log_path", "error"} THEN "" ELSE row[c]]

\* What a mutation can set, count up and clear.
Settable == Columns \ {"id"}
Addable == {"package_version_id", "attempts"}
Clearable == {"claimed_at", "finished_at", "log_path", "error"}

Predicates ==
    [c \in Columns |->
        (IF c = "status" THEN Listed ELSE IF c \in Texts THEN Searched ELSE Ordered)
        \cup (IF c \in Clearable THEN Nil ELSE {})]

Indexes == {}
Required == Settable \ Clearable
Defaults == [kind |-> "build", status |-> "pending", attempts |-> 0]
WithDefaults(m) ==
    [m EXCEPT !.set = [c \in DOMAIN @ \cup DOMAIN Defaults |->
                        IF c \in DOMAIN @ THEN @[c] ELSE Defaults[c]]]

Create(t, id, mutation) ==
    LET m == WithDefaults(mutation)
    IN  IF Required \subseteq DOMAIN m.set /\ m.set["status"] \in Statuses
        THEN Constrained(t, Assigned(t, id, NewRow(id, m, Columns)), Indexes)
        ELSE Fails(t, "validation")

\* created_at has no setter in the update builders.
Updatable == Settable \ {"created_at"}
Valid(m) == "status" \in DOMAIN m.set => m.set["status"] \in Statuses

Update(t, ps, m) ==
    IF Valid(m) THEN SaveAll(t, Matching(t, ps, Predicates), m, Indexes)
    ELSE Fails(t, "validation")

\* Faulty variant: an update of one row is not checked.
UpdateOneUnchecked(t, id, m) == SaveOne(t, id, m, Indexes)

UpdateOne(t, id, m) == IF Valid(m) THEN SaveOne(t, id, m, Indexes) ELSE Fails(t, "validation")

Delete(t, ps) == DeleteAll(t, Matching(t, ps, Predicates))

CreateBulk(t, mutations) ==
    SaveBatch(t, [i \in DOMAIN mutations |-> Create(<< >>, i, mutations[i])], Indexes)

Query(t, q) == Selected(t, q, Predicates)
Answers(t, q) == AnswersTo(LAMBDA limit : Query(t, [q EXCEPT !.limit = limit]), q.limit)

\* The statement a builder of the client ends in.
JobClient(t, s) ==
    CASE s.op = "create" -> Create(t, s.id, s.mutation)
      [] s.op = "create bulk" -> CreateBulk(t, s.mutations)
      [] s.op = "update" -> Update(t, s.where, s.mutation)
      [] s.op = "update one" -> UpdateOne(t, s.id, s.mutation)
      [] s.op = "delete" -> Delete(t, s.where)
      [] s.op = "delete one" -> DeleteOne(t, s.id)
=============================================================================
