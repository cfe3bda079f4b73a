------------------------------- MODULE Claims -------------------------------
(***************************************************************************)
(* What the README, comments and messages of aurforge say of the system    *)
(* and the code does not keep.  Each definition states the sentence quoted *)
(* above it; a run shows a behaviour of the code that breaks it.           *)
(***************************************************************************)
EXTENDS Aurforge

\* README.md:87-88: "the older job is skipped so a reverted or replaced
\* PKGBUILD is never built" (ClaimJob updates the job it read some statements
\* earlier, without asking for its status again).
SupersededNeverRuns ==
    [][\A j \in DOMAIN jobs \cap DOMAIN jobs' :
        jobs[j].status = "skipped" => jobs'[j].status # "running"]_vars

\* README.md:84: "Aurforge tracks the exact AUR Git commit" (a job is built from
\* the path the managed row has when it is claimed, and a row's path may have
\* moved on; besides, scheduler and add clone into one preview directory).
BuildsItsCommit ==
    worker.pc = "build" /\ worker.version \in DOMAIN versions =>
        worker.content = versions[worker.version].rev

\* README.md:78-80: remove "cancels related jobs, removes published packages
\* from the pacman repository, deletes source snapshots" (what is recorded or
\* in the publisher's hands between its reads and its deletes is left, for ever
\* when nobody adds the package again).
RemoveIsComplete ==
    \A n \in Packages :
        (~Managed(n) /\ remover.pc = "idle") ~>
            (Managed(n) \/ (/\ n \notin DOMAIN repo
                            /\ \A v \in DOMAIN versions : versions[v].pkg \in DOMAIN pkgs))
=============================================================================
