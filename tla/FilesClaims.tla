----------------------------- MODULE FilesClaims -----------------------------
(***************************************************************************)
(* What the README says of snapshots and the code does not keep.           *)
(***************************************************************************)
EXTENDS Files

\* README.md:96-97: "Aurforge snapshots the result ... Build containers only
\* receive that immutable snapshot" (AcceptLocal takes any directory that is
\* there for the snapshot, also what a copy that failed has left of it).
SnapshotIsWhole ==
    \A d \in ToSet(recorded) :
        ~Copying(d) => {p \in DOMAIN d : p # <<GitName>>} \subseteq DOMAIN snapshots[d]

\* The same sentence (AcceptLocal takes a directory for the snapshot while another
\* importer still copies to it, and copies to one that has been recorded since).
SnapshotIsImmutable ==
    [][\A d \in ToSet(recorded) : snapshots'[d] = snapshots[d]]_importVars
=============================================================================
