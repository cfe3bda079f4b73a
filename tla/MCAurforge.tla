----------------------------- MODULE MCAurforge -----------------------------
(* Small instances of Aurforge: revisions are numbered, so that the constant *)
(* functions of the specification can be given here.                         *)
EXTENDS Aurforge

\* Revision 1 is old, the others were committed at time 0.
MCCommitTime == [r \in Revisions |-> IF r = 1 THEN -2 ELSE 0]

\* Every revision but the third has a version of its own; the third is built
\* under the file name of the second.
MCFileVersion == [r \in Revisions |-> IF r = 3 THEN 2 ELSE r]
\* Commits are pushed in the order of their numbers.
MCSuccessors == [r \in Revisions |-> {s \in Revisions : s > r}]
=============================================================================
