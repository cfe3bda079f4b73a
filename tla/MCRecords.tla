------------------------------ MODULE MCRecords ------------------------------
(* Small instances of Records. *)
EXTENDS Records

\* The first revision needs two packages, the second one none.
MCDeps ==
    [r \in Revisions |->
        IF r = "r1" THEN <<[name |-> "glibc", aur |-> FALSE], [name |-> "helper", aur |-> TRUE]>>
        ELSE << >>]

\* The second revision is not old enough to be built at once.
MCDelay == [r \in Revisions |-> IF r = "r1" THEN 0 ELSE 1]
=============================================================================
