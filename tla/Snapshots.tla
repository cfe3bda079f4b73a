------------------------------ MODULE Snapshots ------------------------------
(***************************************************************************)
(* Local imports, file by file: the scheduler and the add command each     *)
(* digest the import directory and, unless the directory of that digest is *)
(* there, copy the import directory to it.  Nothing locks either one.      *)
(* (Intake has the whole life of a revision, with whole snapshots.)        *)
(***************************************************************************)
EXTENDS SourceTree

CONSTANTS
    Trees,                          \* what the import directory may hold
    Importers,                      \* the processes that import it
    MaxAdds, MaxEdits, MaxFaults

VARIABLES
    source,     \* the import directory
    snapshots,  \* digest -> what the directory of that name holds
    importers,  \* process -> where PreviewLocal or AcceptLocal is, the digest, what it
                \* has yet to visit or to read; (history) an edit since it began
    recorded,   \* the digests of the versions, in the order of their jobs
    disturbed,  \* history: digests with a copy that failed or met an edit
    budget      \* how much of each bound is used

ASSUME TreesAssumption == \A t \in Trees : IsTree(t)

NotImporting == [pc |-> "idle", digest |-> << >>, todo |-> {}, paths |-> {}, edited |-> FALSE]

SnapshotsInit ==
    /\ source \in Trees
    /\ snapshots = << >> /\ recorded = << >> /\ disturbed = {}
    /\ importers = [i \in Importers |-> NotImporting]
    /\ budget = [adds |-> 0, edits |-> 0, faults |-> 0]

Spent(b, max) == budget[b] < max /\ budget' = [budget EXCEPT ![b] = @ + 1]

Copying(d) == \E i \in Importers : importers[i].pc = "copy" /\ importers[i].digest = d

\* From the digest to the end of the copy an importer relies on the directory.
Relied == {importers[i].digest : i \in {k \in Importers : importers[k].pc \in {"stat", "mkdir", "copy"}}}

\* The owner of the directory, or its updater, changes it.
Edit(t) ==
    /\ t # source /\ Spent("edits", MaxEdits)
    /\ source' = t /\ disturbed' = disturbed \cup Relied
    /\ importers' = [i \in Importers |->
            [importers[i] EXCEPT !.edited = @ \/ importers[i].pc = "digest"]]
    /\ UNCHANGED <<snapshots, recorded>>

\* PreviewLocal digests the directory: HashTree walks it and then reads what
\* it has found.
PreviewBegin(i) ==
    /\ importers[i].pc = "idle" /\ Spent("adds", MaxAdds)
    /\ importers' = [importers EXCEPT ![i] = [NotImporting EXCEPT !.pc = "digest", !.todo = {<< >>}]]
    /\ UNCHANGED <<source, snapshots, recorded, disturbed>>

\* WalkDir, one directory at a time.
PreviewWalk(i) ==
    /\ importers[i].pc = "digest"
    /\ \E p \in importers[i].todo :
        /\ \A q \in importers[i].todo \ {p} : Before(p, q)
        /\ importers' = [importers EXCEPT ![i] =
                IF IsListed(source, p)
                THEN [importers[i] EXCEPT !.todo = (@ \ {p}) \cup EnteredBelow(source, p),
                                          !.paths = @ \cup HashedBelow(source, p)]
                ELSE NotImporting]
    /\ UNCHANGED <<source, snapshots, recorded, disturbed, budget>>

\* The loop over the sorted paths, one file at a time.
PreviewRead(i) ==
    /\ importers[i].pc = "digest" /\ importers[i].todo = {}
    /\ \E p \in importers[i].paths :
        /\ \A q \in importers[i].paths \ {p} : Before(p, q)
        /\ importers' = [importers EXCEPT ![i] =
                IF IsReadable(source, p)
                THEN [importers[i] EXCEPT !.paths = @ \ {p}, !.digest = Read(source, @, p)]
                ELSE NotImporting]
    /\ UNCHANGED <<source, snapshots, recorded, disturbed, budget>>

PreviewDigested(i) ==
    LET read == importers[i]
    IN  /\ read.pc = "digest" /\ read.todo = {} /\ read.paths = {}
        /\ importers' = [importers EXCEPT ![i] = [read EXCEPT !.pc = "stat", !.edited = FALSE]]
        /\ disturbed' = IF read.edited THEN disturbed \cup {read.digest} ELSE disturbed
        /\ UNCHANGED <<source, snapshots, recorded, budget>>

PreviewLocal(i) == PreviewBegin(i) \/ PreviewWalk(i) \/ PreviewRead(i) \/ PreviewDigested(i)

Steps(i, pc, todo) ==
    importers' = [importers EXCEPT ![i].pc = pc, ![i].todo = todo]

AcceptStat(i) ==
    /\ importers[i].pc = "stat"
    /\ Steps(i, IF importers[i].digest \in DOMAIN snapshots THEN "record" ELSE "mkdir", {})
    /\ UNCHANGED <<source, snapshots, recorded, disturbed, budget>>

\* MkdirAll is content with a directory that has appeared since.
AcceptMkdir(i) ==
    /\ importers[i].pc = "mkdir"
    /\ snapshots' = [d \in DOMAIN snapshots \cup {importers[i].digest} |->
                        IF d \in DOMAIN snapshots THEN snapshots[d] ELSE << >>]
    /\ Steps(i, "copy", {<< >>})
    /\ UNCHANGED <<source, recorded, disturbed, budget>>

\* CopyTree, one path at a time; an error leaves what has been copied.
AcceptCopy(i) ==
    /\ importers[i].pc = "copy"
    /\ \E p \in importers[i].todo :
        LET d == importers[i].digest
            rest == importers[i].todo \ {p}
            step == CopyEntry(source, snapshots[d], p, rest)
        IN  /\ \A q \in rest : Before(p, q)
            /\ IF CopyEntryFails(source, p)
               THEN /\ importers' = [importers EXCEPT ![i] = NotImporting]
                    /\ disturbed' = disturbed \cup {d}
                    /\ UNCHANGED snapshots
               ELSE /\ Steps(i, "copy", step.todo)
                    /\ snapshots' = [snapshots EXCEPT ![d] = step.target]
                    /\ UNCHANGED disturbed
    /\ UNCHANGED <<source, recorded, budget>>

AcceptCopied(i) ==
    /\ importers[i].pc = "copy" /\ importers[i].todo = {}
    /\ Steps(i, "record", {})
    /\ UNCHANGED <<source, snapshots, recorded, disturbed, budget>>

\* CreatePackage: a revision gets one version and one job.
AcceptRecord(i) ==
    /\ importers[i].pc = "record"
    /\ recorded' = IF Contains(recorded, importers[i].digest) THEN recorded
                   ELSE Append(recorded, importers[i].digest)
    /\ importers' = [importers EXCEPT ![i] = NotImporting]
    /\ UNCHANGED <<source, snapshots, disturbed, budget>>

\* A write fails or the process stops.
AcceptFails(i) ==
    /\ importers[i].pc # "idle" /\ Spent("faults", MaxFaults)
    /\ importers' = [importers EXCEPT ![i] = NotImporting]
    /\ disturbed' = disturbed \cup (IF importers[i].pc = "copy" THEN {importers[i].digest} ELSE {})
    /\ UNCHANGED <<source, snapshots, recorded>>

AcceptLocal(i) ==
    AcceptStat(i) \/ AcceptMkdir(i) \/ AcceptCopy(i) \/ AcceptCopied(i) \/ AcceptRecord(i)

SnapshotsNext ==
    \/ \E t \in Trees : Edit(t)
    \/ \E i \in Importers : PreviewLocal(i) \/ AcceptLocal(i) \/ AcceptFails(i)
=============================================================================
