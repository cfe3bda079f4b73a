----------------------------- MODULE EntArtifact -----------------------------
(* The Artifact entity: a file that a job put into the repository.          *)
EXTENDS Ent

Columns == {"id", "job_id", "filename", "sha256", "size_bytes", "published_at"}
Texts == {"filename", "sha256"}

Fits(row) ==
    /\ DOMAIN row = Columns
    /\ \A c \in {"id", "job_id", "size_bytes"} : row[c] \in Int
    /\ \A c \in Texts : row[c] \in STRING
    /\ row.published_at = Null \/ row.published_at \in Nat

Settable == Columns \ {"id"}
Addable == {"job_id", "size_bytes"}
Clearable == {"published_at"}

Predicates ==
    [c \in Columns |->
        (IF c \in Texts THEN Searched ELSE Ordered) \cup (IF c \in Clearable THEN Nil ELSE {})]

Indexes == {{"job_id", "filename"}}
Required == Settable \ Clearable

Create(t, id, m) ==
    IF Required \subseteq DOMAIN m.set
    THEN Constrained(t, Assigned(t, id, NewRow(id, m, Columns)), Indexes)
    ELSE Fails(t, "validation")

Updatable == Settable
Update(t, ps, m) == SaveAll(t, Matching(t, ps, Predicates), m, Indexes)
UpdateOne(t, id, m) == SaveOne(t, id, m, Indexes)
Delete(t, ps) == DeleteAll(t, Matching(t, ps, Predicates))

CreateBulk(t, mutations) ==
    SaveBatch(t, [i \in DOMAIN mutations |-> Create(<< >>, i, mutations[i])], Indexes)

Query(t, q) == Selected(t, q, Predicates)
Answers(t, q) == AnswersTo(LAMBDA limit : Query(t, [q EXCEPT !.limit = limit]), q.limit)

\* The statement a builder of the client ends in.
ArtifactClient(t, s) ==
    CASE s.op = "create" -> Create(t, s.id, s.mutation)
      [] s.op = "create bulk" -> CreateBulk(t, s.mutations)
      [] s.op = "update" -> Update(t, s.where, s.mutation)
      [] s.op = "update one" -> UpdateOne(t, s.id, s.mutation)
      [] s.op = "delete" -> Delete(t, s.where)
      [] s.op = "delete one" -> DeleteOne(t, s.id)
=============================================================================
