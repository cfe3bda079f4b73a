-------------------------------- MODULE Files --------------------------------
(***************************************************************************)
(* From the import directory to the repository, file by file: Snapshots    *)
(* and Builds together, and what holds of the files on this way.           *)
(***************************************************************************)
EXTENDS Builds

importVars == <<source, snapshots, importers, recorded, disturbed, budget>>

FilesInit == SnapshotsInit /\ BuildsInit

FilesNext ==
    \/ SnapshotsNext /\ UNCHANGED buildVars
    \/ BuildsStep /\ UNCHANGED importVars
    \/ BuildsFault /\ UNCHANGED <<source, snapshots, importers, recorded, disturbed>>

FilesSpec == FilesInit /\ [][FilesNext]_<<importVars, buildVars>>

-----------------------------------------------------------------------------
FilesTypeOK ==
    /\ source \in Trees
    /\ \A d \in DOMAIN snapshots : \A p \in DOMAIN snapshots[d] :
        snapshots[d][p].kind \in {"file", "dir"}
    /\ \A i \in Importers : importers[i].pc \in {"idle", "digest", "stat", "mkdir", "copy", "record"}
    /\ ToSet(recorded) \subseteq DOMAIN snapshots
    /\ \A j \in DOMAIN status : status[j] \in {"running", "built", "failed", "published"}
    /\ publisher.pc \in {"idle", "copy", "mark"} /\ publisher.job \in 0 .. Len(recorded)
    /\ DOMAIN entries \subseteq Parts

\* The digest of a recorded snapshot is its name, once nobody copies to it any
\* more, unless a copy to it was broken off or the import directory was edited
\* from the beginning of the digest to the end of the copy.  (A .git that is a
\* file is digested and not copied.)
SnapshotMatchesDigest ==
    \A d \in ToSet(recorded) \ disturbed :
        ~Copying(d) => HashTree(snapshots[d]) = [p \in DOMAIN d \ {<<GitName>>} |-> d[p]]

\* Every package a container made of a published job is recorded as its
\* artifact, and what one job published no job whose build was given up writes.
PublishedIsComplete ==
    \A j \in DOMAIN status : status[j] = "published" =>
        /\ container[j].pc = "exited"
        /\ \A f \in Output(j) : <<j, f>> \in artifacts

\* The packages of a build that outlives its deadline stay in its own staging
\* directory: nothing of it is ever served or recorded.
GivenUpIsNotServed ==
    /\ \A f \in DOMAIN repo : status[repo[f].job] # "running" /\ container[repo[f].job].pc = "exited"
    /\ \A row \in artifacts : container[row[1]].pc = "exited"

\* Every package the repository lists is there, and its packages were built
\* from files with the digest of their revision, unless that was disturbed or
\* the build began before another importer had finished the copy.
ServedIsFromItsDigest ==
    \A p \in DOMAIN entries :
        /\ entries[p] \in DOMAIN repo
        /\ LET made == repo[entries[p]] d == recorded[made.job]
           IN  d \in disturbed \/ container[made.job].early
               \/ HashTree(made.tree) = [q \in DOMAIN d \ {<<GitName>>} |-> d[q]]
=============================================================================
