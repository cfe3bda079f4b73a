-------------------------------- MODULE Ent --------------------------------
(***************************************************************************)
(* What the generated client does with a table, whichever entity it holds: *)
(* a table maps ids to rows, a row maps every column to a value or to      *)
(* Null, and a builder collects a mutation that one statement applies.     *)
(* EntJob, EntArtifact... say what is particular to their entity.          *)
(***************************************************************************)
EXTENDS Integers, Sequences, FiniteSets, FiniteSetsExt, SequencesExt

CONSTANT Null       \* SQL's NULL and a builder's nil pointer

ASSUME NullAssumption == Null \notin Int \cup STRING

-----------------------------------------------------------------------------
(* Mutations.                                                              *)

NoChange == [set |-> << >>, add |-> << >>, clear |-> {}]

Dropped(f, c) == [k \in DOMAIN f \ {c} |-> f[k]]
Assigned(f, c, v) == [k \in DOMAIN f \cup {c} |-> IF k = c THEN v ELSE f[k]]

\* Faulty variant: a count from before the set is applied after all.
SetFieldKeepingCount(m, c, v) == [m EXCEPT !.set = Assigned(@, c, v)]

\* A set replaces what was added, an add accumulates, a clear forgets the value.
SetField(m, c, v) == [m EXCEPT !.set = Assigned(@, c, v), !.add = Dropped(@, c)]
SetNillable(m, c, v) == IF v = Null THEN m ELSE SetField(m, c, v)
AddField(m, c, d) ==
    [m EXCEPT !.add = Assigned(@, c, d + IF c \in DOMAIN @ THEN @[c] ELSE 0)]
ClearField(m, c) == [m EXCEPT !.set = Dropped(@, c), !.clear = @ \cup {c}]
ResetField(m, c) == [set |-> Dropped(m.set, c), add |-> Dropped(m.add, c), clear |-> m.clear \ {c}]

Changed(m) == DOMAIN m.set \cup DOMAIN m.add \cup m.clear

-----------------------------------------------------------------------------
(* Statements: each returns the table it leaves and the error it reports.  *)

Succeeds(t) == [err |-> "none", table |-> t]
Fails(t, e) == [err |-> e, table |-> t]

Violates(t, indexes) ==
    \E i, j \in DOMAIN t : i # j /\ \E index \in indexes : \A c \in index : t[i][c] = t[j][c]

Constrained(old, new, indexes) ==
    IF Violates(new, indexes) THEN Fails(old, "constraint") ELSE Succeeds(new)

\* Faulty variant: the id the database has given is not read back.
NewRowWithoutId(id, m, columns) ==
    [c \in columns |->
        IF c = "id" THEN 0 ELSE IF c \in DOMAIN m.set THEN m.set[c] ELSE Null]

\* The row a create statement inserts: what is not set is NULL.
NewRow(id, m, columns) ==
    [c \in columns |->
        IF c = "id" THEN id ELSE IF c \in DOMAIN m.set THEN m.set[c] ELSE Null]

Applied(row, m) ==
    [c \in DOMAIN row |->
        IF c \in m.clear THEN Null
        ELSE IF c \in DOMAIN m.add THEN m.add[c] + (IF row[c] = Null THEN 0 ELSE row[c])
        ELSE IF c \in DOMAIN m.set THEN m.set[c] ELSE row[c]]

SaveAll(t, ids, m, indexes) ==
    Constrained(t, [i \in DOMAIN t |-> IF i \in ids THEN Applied(t[i], m) ELSE t[i]], indexes)

SaveOne(t, id, m, indexes) ==
    IF id \in DOMAIN t THEN SaveAll(t, {id}, m, indexes) ELSE Fails(t, "not_found")

\* A batch of creations, each checked as if it were alone: one statement inserts
\* every row or none.
SaveBatch(t, created, indexes) ==
    IF \E i \in DOMAIN created : created[i].err # "none" THEN Fails(t, "validation")
    ELSE Constrained(t, [i \in DOMAIN t \cup DOMAIN created |->
                            IF i \in DOMAIN created THEN created[i].table[i] ELSE t[i]], indexes)

DeleteAll(t, ids) == Succeeds([i \in DOMAIN t \ ids |-> t[i]])
DeleteOne(t, id) == IF id \in DOMAIN t THEN DeleteAll(t, {id}) ELSE Fails(t, "not_found")

-----------------------------------------------------------------------------
(* Queries.                                                                *)

\* The operators of a predicate by the kind of the column.
Flags == {"EQ", "NEQ"}
Listed == Flags \cup {"In", "NotIn"}
Ordered == Listed \cup {"GT", "GTE", "LT", "LTE"}
Searched == Ordered \cup {"Contains", "HasPrefix", "HasSuffix", "EqualFold", "ContainsFold"}
Nil == {"IsNil", "NotNil"}

Where(c, op, v) == [col |-> c, op |-> op, arg |-> v]

\* Faulty variant: NEQ and NotIn find what is NULL.
HoldsOfNull(p, x) ==
    \/ p.op = "IsNil" /\ x = Null
    \/ p.op = "NotNil" /\ x # Null
    \/ p.op = "NEQ" /\ x # p.arg
    \/ p.op = "NotIn" /\ x \notin p.arg
    \/ /\ x # Null
       /\ \/ p.op = "EQ" /\ x = p.arg
          \/ p.op = "In" /\ x \in p.arg
          \/ p.op = "GT" /\ x > p.arg
          \/ p.op = "GTE" /\ x >= p.arg
          \/ p.op = "LT" /\ x < p.arg
          \/ p.op = "LTE" /\ x <= p.arg

\* SQL compares nothing with NULL.  Text is never searched by this program.
Holds(p, x) ==
    \/ p.op = "IsNil" /\ x = Null
    \/ /\ x # Null
       /\ \/ p.op = "NotNil"
          \/ p.op = "EQ" /\ x = p.arg
          \/ p.op = "NEQ" /\ x # p.arg
          \/ p.op = "In" /\ x \in p.arg
          \/ p.op = "NotIn" /\ x \notin p.arg
          \/ p.op = "GT" /\ x > p.arg
          \/ p.op = "GTE" /\ x >= p.arg
          \/ p.op = "LT" /\ x < p.arg
          \/ p.op = "LTE" /\ x <= p.arg

\* The rows all predicates hold of; predicates is what the entity offers.
Matching(t, ps, predicates) ==
    {i \in DOMAIN t : \A p \in ps :
        p.col \in DOMAIN predicates /\ p.op \in predicates[p.col] /\ Holds(p, t[i][p.col])}

\* Order terms are compared from first to last; rows they leave equal come in
\* the order of their ids here, in any order in SQL.
Precedes(t, i, j, terms) ==
    LET Less(k) == IF terms[k].desc THEN t[i][terms[k].col] > t[j][terms[k].col]
                   ELSE t[i][terms[k].col] < t[j][terms[k].col]
        Same(k) == t[i][terms[k].col] = t[j][terms[k].col]
    IN  \/ \E k \in DOMAIN terms : Less(k) /\ \A l \in 1 .. (k - 1) : Same(l)
        \/ (\A k \in DOMAIN terms : Same(k)) /\ i < j

Asc(c) == [col |-> c, desc |-> FALSE]
Desc(c) == [col |-> c, desc |-> TRUE]

All(t, ids, terms) == SetToSortSeq(ids, LAMBDA i, j : Precedes(t, i, j, terms))

\* First, Only and Get report "not_found"; an id is Null when there is none.
First(t, ids, terms) ==
    IF ids = {} THEN [err |-> "not_found", id |-> Null]
    ELSE [err |-> "none",
          id |-> CHOOSE i \in ids : \A j \in ids \ {i} : Precedes(t, i, j, terms)]

Only(ids) ==
    [err |-> CASE Cardinality(ids) = 0 -> "not_found"
               [] Cardinality(ids) = 1 -> "none"
               [] OTHER -> "not_singular",
     id |-> IF Cardinality(ids) = 1 THEN CHOOSE i \in ids : TRUE ELSE Null]

Get(t, id) == Only({id} \cap DOMAIN t)

Exist(ids) == ids # {}

\* A query builder: predicates, order, and the part of the rows that is wanted.
NewQuery(ps, terms) == [where |-> ps, order |-> terms, offset |-> 0, limit |-> Null]

Selected(t, q, predicates) ==
    LET rows == All(t, Matching(t, q.where, predicates), q.order)
    IN  SubSeq(rows, q.offset + 1,
               IF q.limit = Null THEN Len(rows) ELSE Min({Len(rows), q.offset + q.limit}))

\* What the methods of a query answer: First and Only set a limit of their own,
\* so that whether there is more than one row is found out with two.
AnswersTo(Rows(_), limit) ==
    [all |-> Rows(limit),
     first |-> IF Rows(1) = << >> THEN [err |-> "not_found", id |-> Null]
               ELSE [err |-> "none", id |-> Rows(1)[1]],
     only |-> Only(ToSet(Rows(2))),
     exist |-> Exist(ToSet(Rows(1)))]
=============================================================================
