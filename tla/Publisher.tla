----------------------------- MODULE Publisher -----------------------------
(***************************************************************************)
(* The publisher: it lists the built jobs, and for each of them in turn    *)
(* copies the file out of the staging directory, records the artifact,     *)
(* runs repo-add and marks the job published.  A job builds one file here  *)
(* (a split package builds several, published by one repo-add).            *)
(***************************************************************************)
EXTENDS Store

VARIABLE publisher  \* the rest of RunPublisher's list, where publishJob is, and
                    \* (history) the jobs that failed without being marked so

NoFile == <<NoPackage, NoRevision>>
IdlePublisher ==
    [pc |-> "idle", queue |-> {}, job |-> 0, file |-> NoFile, unmarked |-> {}]

PublisherInit == publisher = IdlePublisher

\* Back in RunPublisher's loop over its list.
NextInList == [publisher EXCEPT !.pc = "idle", !.job = 0, !.file = NoFile]

\* Faulty variants: failed jobs are tried again; recorded ones are passed over.
BuiltOrFailedJobs == {j \in DOMAIN jobs : jobs[j].status \in {"built", "failed"}}
UnrecordedJobs ==
    {j \in DOMAIN jobs : jobs[j].status = "built" /\ \A a \in artifacts : a.job # j}

BuiltJobs == {j \in DOMAIN jobs : jobs[j].status = "built"}

\* RunPublisher lists the built jobs when it is through with the last list.
PubList ==
    /\ publisher.pc = "idle" /\ publisher.queue = {}
    /\ publisher' = [publisher EXCEPT !.queue = BuiltJobs]
    /\ UNCHANGED <<tables, locks, disk, published, env, budget>>

\* Faulty variant: Desc in place of Asc.
IsHighest(j) == \A k \in publisher.queue : k <= j
IsLowest(j) == \A k \in publisher.queue : j <= k

\* publishJob on the job with the smallest id: ReadDir, then the copy.
PubCopy ==
    /\ publisher.pc = "idle"
    /\ \E j \in publisher.queue :
        /\ IsLowest(j)
        /\ IF j \in DOMAIN staging
           THEN /\ files' = Insert(files, staging[j], j)
                /\ publisher' = [publisher EXCEPT !.pc = "record", !.queue = @ \ {j},
                                                  !.job = j, !.file = staging[j]]
           ELSE /\ publisher' = [publisher EXCEPT !.pc = "fail", !.queue = @ \ {j}, !.job = j]
                /\ UNCHANGED files
    /\ UNCHANGED <<tables, locks, disk, repo, env, budget>>

\* Faulty variant: a recorded artifact is taken for a published one.
PubRecordOnce ==
    /\ publisher.pc = "record"
    /\ LET row == [job |-> publisher.job, file |-> publisher.file]
       IN  /\ artifacts' = artifacts \cup {row}
           /\ publisher' = [publisher EXCEPT !.pc = IF row \in artifacts THEN "mark" ELSE "add"]
    /\ UNCHANGED <<pkgs, versions, jobs, ids, locks, disk, published, env, budget>>

\* The artifact row, unless a former attempt has left it.
PubRecord ==
    /\ publisher.pc = "record"
    /\ artifacts' = artifacts \cup {[job |-> publisher.job, file |-> publisher.file]}
    /\ publisher' = [publisher EXCEPT !.pc = "add"]
    /\ UNCHANGED <<pkgs, versions, jobs, ids, locks, disk, published, env, budget>>

\* repo-add -R: the entry names the file as it is now, and the file of the
\* entry before it is deleted.  Without the file repo-add fails.
PubAdd ==
    LET n == publisher.file[1]
        stale == IF n \in DOMAIN repo THEN {repo[n].file} \ {publisher.file} ELSE {}
    IN  /\ publisher.pc = "add"
        /\ IF publisher.file \in DOMAIN files
           THEN /\ repo' = Insert(repo, n, [file |-> publisher.file, job |-> files[publisher.file]])
                /\ files' = Without(files, stale)
                /\ publisher' = [publisher EXCEPT !.pc = "mark"]
           ELSE /\ publisher' = [publisher EXCEPT !.pc = "fail"]
                /\ UNCHANGED <<repo, files>>
        /\ UNCHANGED <<tables, locks, disk, env, budget>>

\* Faulty variant: the exit status of repo-add is ignored.
PubFailsUnnoticed ==
    /\ publisher.pc \in {"record", "add", "mark"}
    /\ Fault
    /\ publisher' = [publisher EXCEPT !.pc = IF @ = "add" THEN "mark" ELSE "fail"]
    /\ UNCHANGED <<tables, locks, disk, published, env>>

\* repo-add or a query fails.
PubFails ==
    /\ publisher.pc \in {"record", "add", "mark"}
    /\ Fault
    /\ publisher' = [publisher EXCEPT !.pc = "fail"]
    /\ UNCHANGED <<tables, locks, disk, published, env>>

\* JobArtifacts, or MarkJob after an error; both ignore a job that is gone.
PubMark ==
    /\ publisher.pc \in {"mark", "fail"}
    /\ MarkJob(publisher.job, IF publisher.pc = "mark" THEN "published" ELSE "failed")
    /\ publisher' = NextInList
    /\ UNCHANGED <<pkgs, versions, artifacts, ids, locks, disk, published, env, budget>>

\* The MarkJob after an error fails too, which nobody looks at: the job is
\* still built, and the loop goes on with the jobs after it.
PubMarkFails ==
    /\ publisher.pc = "fail"
    /\ Fault
    /\ publisher' = [NextInList EXCEPT !.unmarked = @ \cup {publisher.job}]
    /\ UNCHANGED <<tables, locks, disk, published, env>>

\* A crash, or SIGTERM, which cancels the context MarkJob needs as well.
PubCrash ==
    /\ publisher.pc # "idle" \/ publisher.queue # {}
    /\ Fault
    /\ publisher' = [NextInList EXCEPT !.queue = {}]
    /\ UNCHANGED <<tables, locks, disk, published, env>>

-----------------------------------------------------------------------------
PublisherStep == PubList \/ PubCopy \/ PubRecord \/ PubAdd \/ PubMark

PublisherTypeOK ==
    /\ publisher \in [pc : {"idle", "record", "add", "mark", "fail"}, queue : SUBSET Nat,
                      job : Nat, file : File \cup {NoFile}, unmarked : SUBSET Nat]
    /\ publisher.pc \in {"record", "add", "mark"} => publisher.file \in File
=============================================================================
