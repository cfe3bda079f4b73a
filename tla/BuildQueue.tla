----------------------------- MODULE BuildQueue -----------------------------
(***************************************************************************)
(* What the database promises whoever reads the queue, whichever process   *)
(* writes it: every managed row orders the build of a revision once, the   *)
(* latest order of a row is the only one that waits, and an order moves    *)
(* along pending, running, built, published, with failed and skipped       *)
(* beside them, and only forward.  Aurforge implements this specification. *)
(***************************************************************************)
EXTENDS Naturals

CONSTANTS Rows, Revisions

VARIABLES
    orders,     \* id -> [pkg, rev, status]
    next        \* the id of the next order; none is used twice

queueVars == <<orders, next>>

OrdersOf(k) == {j \in DOMAIN orders : orders[j].pkg = k}
HasStatus(j, S) == j \in DOMAIN orders /\ orders[j].status \in S

Init == orders = << >> /\ next = 1

\* A revision of a row that has had no order: it supersedes those that wait.
\* The row is read off the step, since rows are without bound.
Enqueue ==
    /\ next \in DOMAIN orders'
    /\ LET new == orders'[next]
       IN  /\ new \in [pkg : Rows, rev : Revisions, status : {"pending"}]
           /\ \A j \in OrdersOf(new.pkg) : orders[j].rev # new.rev
           /\ orders' = [j \in DOMAIN orders \cup {next} |->
                  IF j = next THEN new
                  ELSE IF j \in OrdersOf(new.pkg) /\ orders[j].status = "pending"
                  THEN [orders[j] EXCEPT !.status = "skipped"]
                  ELSE orders[j]]
           /\ next' = next + 1

Move(j, S, s) ==
    /\ HasStatus(j, S)
    /\ orders' = [i \in DOMAIN orders |->
                    IF i = j THEN [orders[i] EXCEPT !.status = s] ELSE orders[i]]
    /\ UNCHANGED next

Skip(j) == Move(j, {"pending"}, "skipped")

\* A claim that overlaps with the superseding order may still win.
Start(j) == Move(j, {"pending", "skipped"}, "running")

Finish(j) == \E s \in {"built", "failed"} : Move(j, {"running"}, s)
Publish(j) == \E s \in {"published", "failed"} : Move(j, {"built"}, s)

\* Orders are deleted, and only of one row at a time.
Cancel ==
    /\ \E S \in SUBSET DOMAIN orders :
        /\ \A i, j \in S : orders[i].pkg = orders[j].pkg
        /\ orders' = [j \in DOMAIN orders \ S |-> orders[j]]
    /\ UNCHANGED next

Next ==
    \/ Enqueue \/ Cancel
    \/ \E j \in DOMAIN orders : Skip(j) \/ Start(j) \/ Finish(j) \/ Publish(j)

Spec == Init /\ [][Next]_queueVars
=============================================================================
