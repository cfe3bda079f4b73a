---------------------------- MODULE EntAuditEvent ----------------------------
(* The AuditEvent entity: a remark on a package version.  The program has   *)
(* the table and never writes to it.                                        *)
EXTENDS Ent

Columns == {"id", "package_version_id", "severity", "code", "detail", "created_at"}
Texts == {"severity", "code", "detail"}

Fits(row) ==
    /\ DOMAIN row = Columns
    /\ \A c \in {"id", "package_version_id"} : row[c] \in Int
    /\ \A c \in Texts : row[c] \in STRING
    /\ row.created_at \in Nat

Settable == Columns \ {"id"}
Addable == {"package_version_id"}
Clearable == {}

Predicates == [c \in Columns |-> IF c \in Texts THEN Searched ELSE Ordered]

Indexes == {}
Required == Settable

Create(t, id, m) ==
    IF Required \subseteq DOMAIN m.set
    THEN Constrained(t, Assigned(t, id, NewRow(id, m, Columns)), Indexes)
    ELSE Fails(t, "validation")

\* created_at has no setter in the update builders.
Updatable == Settable \ {"created_at"}
Update(t, ps, m) == SaveAll(t, Matching(t, ps, Predicates), m, Indexes)
UpdateOne(t, id, m) == SaveOne(t, id, m, Indexes)
Delete(t, ps) == DeleteAll(t, Matching(t, ps, Predicates))

CreateBulk(t, mutations) ==
    SaveBatch(t, [i \in DOMAIN mutations |-> Create(<< >>, i, mutations[i])], Indexes)

Query(t, q) == Selected(t, q, Predicates)
Answers(t, q) == AnswersTo(LAMBDA limit : Query(t, [q EXCEPT !.limit = limit]), q.limit)

\* The statement a builder of the client ends in.
AuditEventClient(t, s) ==
    CASE s.op = "create" -> Create(t, s.id, s.mutation)
      [] s.op = "create bulk" -> CreateBulk(t, s.mutations)
      [] s.op = "update" -> Update(t, s.where, s.mutation)
      [] s.op = "update one" -> UpdateOne(t, s.id, s.mutation)
      [] s.op = "delete" -> Delete(t, s.where)
      [] s.op = "delete one" -> DeleteOne(t, s.id)
=============================================================================
