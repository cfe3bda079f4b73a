------------------------------ MODULE MCClaims ------------------------------
(* Small instances of Claims. *)
EXTENDS Claims

\* Revision 1 is old, the others were committed at time 0.
MCCommitTime == [r \in Revisions |-> IF r = 1 THEN -2 ELSE 0]
MCFileVersion == [r \in Revisions |-> r]
MCSuccessors == [r \in Revisions |-> {s \in Revisions : s > r}]
=============================================================================
