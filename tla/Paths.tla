-------------------------------- MODULE Paths --------------------------------
(***************************************************************************)
(* Paths: which host directory the worker gives docker for a directory it  *)
(* sees, which directory below the import root an import names, and whose  *)
(* the files of an import directory are when its updater runs.  A path is  *)
(* a sequence of names; Nowhere is the absence of one.                     *)
(***************************************************************************)
EXTENDS Integers, FiniteSets, SequencesExt

Nowhere == <<"nowhere">>

\* filepath.Clean of an absolute path, name by name.
Cleaned(acc, n) ==
    IF n = ".." THEN IF acc = << >> THEN acc ELSE Front(acc)
    ELSE IF n = "." THEN acc ELSE Append(acc, n)
Clean(path) == FoldLeft(Cleaned, << >>, path)

Below(path, root) == IsPrefix(root, path)

\* The root itself covers nothing: its separator is not repeated.
pathHasPrefix(path, prefix) ==
    Clean(path) = Clean(prefix) \/ (Clean(prefix) # << >> /\ Below(Clean(path), Clean(prefix)))

\* Faulty variant: the first mount that covers the path, however short.
hostPathFromFirstMount(path, mounts) ==
    LET covering == {i \in DOMAIN mounts :
                        mounts[i].source # Nowhere /\ pathHasPrefix(path, mounts[i].dest)}
        best == Min(covering)
    IN  IF covering = {} THEN Nowhere
        ELSE mounts[best].source \o SubSeq(Clean(path), Len(mounts[best].dest) + 1, Len(Clean(path)))

\* The mounts docker lists; of those that cover the path the first longest.
hostPathFromBindMounts(path, mounts) ==
    LET covering == {i \in DOMAIN mounts :
                        mounts[i].source # Nowhere /\ pathHasPrefix(path, mounts[i].dest)}
        best == CHOOSE i \in covering :
                    \A k \in covering :
                        \/ Len(mounts[k].dest) < Len(mounts[i].dest)
                        \/ Len(mounts[k].dest) = Len(mounts[i].dest) /\ i <= k
    IN  IF covering = {} THEN Nowhere
        ELSE mounts[best].source \o SubSeq(Clean(path), Len(mounts[best].dest) + 1, Len(Clean(path)))

\* What is configured: nothing, a relative path or an absolute one.
Absolute(p) == [abs |-> TRUE, path |-> p]
Relative(p) == [abs |-> FALSE, path |-> p]
Unset == [abs |-> FALSE, path |-> << >>]

\* found is what lookupHostPath found, Unset after an error; without an
\* absolute path there is an error.
resolveHostDataRoot(found, configured) ==
    IF found.abs THEN found.path
    ELSE IF configured.abs THEN configured.path
    ELSE Nowhere

\* Faulty variant: the prefix is compared before the path is cleaned.
ImportPathAsGiven(root, given) ==
    LET path == IF given.abs THEN given.path ELSE Clean(root) \o given.path
    IN  IF Below(path, Clean(root)) THEN Clean(path) ELSE Nowhere

\* PreviewLocal: where a path that is given leads, or Nowhere.
ImportPath(root, given) ==
    LET path == Clean(IF given.abs THEN given.path ELSE Clean(root) \o given.path)
    IN  IF Below(path, Clean(root)) THEN path ELSE Nowhere

-----------------------------------------------------------------------------
(* runLocalUpdater: euid runs it, files are [owner, kind, git] by name, and *)
(* git says that the file is below a directory named .git.                  *)

Root == 0
UpdaterError == [uid |-> -1, files |-> << >>]

\* The uid of the updater: the directory's owner, or the updater account.
UpdaterUid(owner, account) == IF owner # Root THEN owner ELSE account

\* Faulty variant: the account of the updater may be root's.
runLocalUpdaterUnchecked(euid, owner, account, files) ==
    LET uid == UpdaterUid(owner, account)
    IN  IF euid # Root THEN [uid |-> euid, files |-> files]
        ELSE IF uid = -1 \/ \E f \in DOMAIN files : files[f].kind = "link" /\ ~files[f].git
        THEN UpdaterError
        ELSE [uid |-> uid,
              files |-> [f \in DOMAIN files |->
                            IF files[f].owner = Root /\ ~files[f].git
                            THEN [files[f] EXCEPT !.owner = uid] ELSE files[f]]]

runLocalUpdater(euid, owner, account, files) ==
    LET uid == UpdaterUid(owner, account)
    IN  IF euid # Root THEN [uid |-> euid, files |-> files]
        ELSE IF uid \in {Root, -1} \/ \E f \in DOMAIN files : files[f].kind = "link" /\ ~files[f].git
        THEN UpdaterError
        ELSE [uid |-> uid,
              files |-> [f \in DOMAIN files |->
                            IF files[f].owner = Root /\ ~files[f].git
                            THEN [files[f] EXCEPT !.owner = uid] ELSE files[f]]]
=============================================================================
