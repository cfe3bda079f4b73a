------------------------------- MODULE Builds -------------------------------
(***************************************************************************)
(* What is built of the snapshots and becomes of it, file by file: a       *)
(* container writes the packages of a job to its staging directory, also   *)
(* when the worker has given it up, and the publisher copies them to the   *)
(* repository one after the other.                                         *)
(***************************************************************************)
EXTENDS Snapshots

CONSTANTS
    Parts,          \* the packages a build makes: a split package makes several
    Version(_)      \* the pkgver that a tree's PKGBUILD gives its packages

VARIABLES
    status,     \* job -> its status; job k builds recorded[k]
    container,  \* job -> where its container is, and the tree it copied
    staging,    \* job -> file name -> what was written
    repo,       \* file name -> what the repository serves
    entries,    \* package -> file name, as repo-add recorded it
    artifacts,  \* rows <<job, file name>>
    publisher,  \* the job publishJob is at, the files it lists and has copied
    list        \* the rest of RunPublisher's list

buildVars == <<status, container, staging, repo, entries, artifacts, publisher, list>>

Jobs == DOMAIN recorded
NotPublishing == [pc |-> "idle", job |-> 0, todo |-> {}, done |-> {}]

BuildsInit ==
    /\ status = << >> /\ container = << >> /\ staging = << >>
    /\ repo = << >> /\ entries = << >> /\ artifacts = {}
    /\ publisher = NotPublishing /\ list = {}

With(f, k, v) == [x \in DOMAIN f \cup {k} |-> IF x = k THEN v ELSE f[x]]
StatusOf(j) == IF j \in DOMAIN status THEN status[j] ELSE "pending"
FileName(part, tree) == <<part, Version(tree)>>
Output(j) == {FileName(p, container[j].tree) : p \in Parts}
StagedBy(j) == IF j \in DOMAIN staging THEN staging[j] ELSE << >>

\* Faulty variant: the import directory is mounted in place of the snapshot.
StartBuildFromImport(j) ==
    /\ StatusOf(j) = "pending" /\ \A k \in DOMAIN status : status[k] # "running"
    /\ status' = With(status, j, "running")
    /\ container' = With(container, j, [pc |-> "build", tree |-> source, early |-> FALSE])
    /\ staging' = With(staging, j, << >>)
    /\ UNCHANGED <<repo, entries, artifacts, publisher, list>>

\* The worker has one job at a time; buildJob starts its container, which
\* first copies the snapshot.
StartBuild(j) ==
    /\ StatusOf(j) = "pending" /\ \A k \in DOMAIN status : status[k] # "running"
    /\ status' = With(status, j, "running")
    /\ container' = With(container, j, [pc |-> "build", tree |-> snapshots[recorded[j]],
                                        early |-> Copying(recorded[j])])
    /\ staging' = With(staging, j, << >>)
    /\ UNCHANGED <<repo, entries, artifacts, publisher, list>>

\* The container's cp, one package at a time.
ContainerWrites(j) ==
    /\ j \in DOMAIN container /\ container[j].pc = "build"
    /\ \E f \in Output(j) \ DOMAIN staging[j] :
        staging' = [staging EXCEPT ![j] = With(@, f, [job |-> j, tree |-> container[j].tree])]
    /\ UNCHANGED <<status, container, repo, entries, artifacts, publisher, list>>

ContainerExits(j) ==
    /\ j \in DOMAIN container /\ container[j].pc = "build"
    /\ Output(j) \subseteq DOMAIN staging[j]
    /\ container' = [container EXCEPT ![j].pc = "exited"]
    /\ UNCHANGED <<status, staging, repo, entries, artifacts, publisher, list>>

\* docker run returns with the container.
MarkBuilt(j) ==
    /\ StatusOf(j) = "running" /\ container[j].pc = "exited"
    /\ status' = [status EXCEPT ![j] = "built"]
    /\ UNCHANGED <<container, staging, repo, entries, artifacts, publisher, list>>

\* Faulty variant: the killed docker run is taken for one that has ended.
TimesOutUnnoticed(j) ==
    /\ StatusOf(j) = "running" /\ Spent("faults", MaxFaults)
    /\ status' = [status EXCEPT ![j] = "built"]
    /\ UNCHANGED <<container, staging, repo, entries, artifacts, publisher, list>>

\* The deadline of buildJob kills docker run; the container goes on.
TimesOut(j) ==
    /\ StatusOf(j) = "running" /\ Spent("faults", MaxFaults)
    /\ status' = [status EXCEPT ![j] = "failed"]
    /\ UNCHANGED <<container, staging, repo, entries, artifacts, publisher, list>>

\* RunPublisher lists the built jobs when it is through with the last list.
PublishList ==
    /\ publisher = NotPublishing /\ list = {}
    /\ list' = {j \in DOMAIN status : status[j] = "built"}
    /\ UNCHANGED <<status, container, staging, repo, entries, artifacts, publisher>>

\* It takes them in order; publishJob lists the directory.
PublishBegin(j) ==
    /\ publisher = NotPublishing /\ j \in list /\ \A k \in list : j <= k
    /\ list' = list \ {j}
    /\ publisher' = [pc |-> "copy", job |-> j, todo |-> DOMAIN StagedBy(j), done |-> {}]
    /\ UNCHANGED <<status, container, staging, repo, entries, artifacts>>

\* Faulty variant: a file that any job has recorded is taken for recorded.
PublishFileOnce ==
    /\ publisher.pc = "copy"
    /\ \E f \in publisher.todo :
        /\ repo' = With(repo, f, StagedBy(publisher.job)[f])
        /\ artifacts' = artifacts \cup
                (IF \E row \in artifacts : row[2] = f THEN {} ELSE {<<publisher.job, f>>})
        /\ publisher' = [publisher EXCEPT !.todo = @ \ {f}, !.done = @ \cup {f}]
    /\ UNCHANGED <<status, container, staging, entries, list>>

\* One turn of the loop: the copy, then the row unless it is there.
PublishFile ==
    /\ publisher.pc = "copy"
    /\ \E f \in publisher.todo :
        /\ repo' = With(repo, f, StagedBy(publisher.job)[f])
        /\ artifacts' = artifacts \cup {<<publisher.job, f>>}
        /\ publisher' = [publisher EXCEPT !.todo = @ \ {f}, !.done = @ \cup {f}]
    /\ UNCHANGED <<status, container, staging, entries, list>>

\* One repo-add -R for all files; it deletes the files of the entries it replaces.
RepoAdd ==
    /\ publisher.pc = "copy" /\ publisher.todo = {} /\ publisher.done # {}
    /\ LET added == {f[1] : f \in publisher.done}
           old == {entries[p] : p \in added \cap DOMAIN entries} \ publisher.done
       IN  /\ entries' = [p \in DOMAIN entries \cup added |->
                IF p \in added THEN CHOOSE f \in publisher.done : f[1] = p ELSE entries[p]]
           /\ repo' = [f \in DOMAIN repo \ old |-> repo[f]]
    /\ publisher' = [publisher EXCEPT !.pc = "mark"]
    /\ UNCHANGED <<status, container, staging, artifacts, list>>

PublishEnd ==
    /\ publisher.pc = "mark"
    /\ status' = [status EXCEPT ![publisher.job] = "published"]
    /\ publisher' = NotPublishing
    /\ UNCHANGED <<container, staging, repo, entries, artifacts, list>>

\* An error marks the job failed, or that fails too, which nobody looks at; the
\* loop goes on with the rest of the list.
PublishFails ==
    /\ publisher # NotPublishing /\ Spent("faults", MaxFaults)
    /\ status' \in {status, [status EXCEPT ![publisher.job] = "failed"]}
    /\ publisher' = NotPublishing
    /\ UNCHANGED <<container, staging, repo, entries, artifacts, list>>

\* A publisher that stops leaves its jobs built.
PublisherStops ==
    /\ publisher # NotPublishing \/ list # {}
    /\ Spent("faults", MaxFaults)
    /\ publisher' = NotPublishing /\ list' = {}
    /\ UNCHANGED <<status, container, staging, repo, entries, artifacts>>

BuildsStep ==
    \/ \E j \in Jobs :
        \/ StartBuild(j) \/ ContainerWrites(j) \/ ContainerExits(j) \/ MarkBuilt(j)
        \/ PublishBegin(j)
    \/ PublishList \/ PublishFile \/ RepoAdd \/ PublishEnd

BuildsFault == (\E j \in Jobs : TimesOut(j)) \/ PublishFails \/ PublisherStops
=============================================================================
