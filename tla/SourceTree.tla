----------------------------- MODULE SourceTree -----------------------------
(***************************************************************************)
(* Directories of package sources: the digest that names a local revision  *)
(* and the copy that is kept of it.  A tree maps paths, sequences of names *)
(* below its root, to what is there.                                       *)
(***************************************************************************)
EXTENDS Integers, FiniteSets, SequencesExt

CONSTANTS
    FileNames,      \* a sequence: the names there are, in lexical order
    GitName,        \* ".git"
    PackageNames    \* the names that contain ".pkg.tar."

NameAt(n) == CHOOSE i \in DOMAIN FileNames : FileNames[i] = n

\* Reading a link gives the contents of what it points to.
File(c) == [kind |-> "file", content |-> c]
Link(c) == [kind |-> "link", content |-> c]
Dir == [kind |-> "dir", content |-> "unreadable"]

IsDir(t, p) == p = << >> \/ t[p].kind = "dir"

\* The root is not among the paths of a tree, and the parent of a path is a
\* directory of it.
IsTree(t) ==
    \A p \in DOMAIN t :
        /\ p \in Seq(ToSet(FileNames)) \ {<< >>}
        /\ t[p] \in {Dir, File(t[p].content), Link(t[p].content)}
        /\ \A k \in 1 .. Len(p) - 1 : SubSeq(p, 1, k) \in DOMAIN t /\ t[SubSeq(p, 1, k)] = Dir

isBuildArtifact(name) == name \in PackageNames

\* What HashTree digests of a tree that nobody changes: the walk does not enter
\* a directory named .git.
Hashed(t) ==
    {p \in DOMAIN t :
        /\ t[p].kind # "dir"
        /\ ~isBuildArtifact(Last(p))
        /\ GitName \notin ToSet(Front(p))}

\* The digest of a list of paths and contents identifies them.
HashTree(t) == [p \in Hashed(t) |-> t[p].content]

\* The order of WalkDir: a directory before what is in it, names as they sort.
Before(p, q) ==
    \/ IsStrictPrefix(p, q)
    \/ \E k \in DOMAIN p \cap DOMAIN q :
        SubSeq(p, 1, k - 1) = SubSeq(q, 1, k - 1) /\ NameAt(p[k]) < NameAt(q[k])

\* What is in a directory.
Children(t, p) == {q \in DOMAIN t : q # << >> /\ Front(q) = p}

\* Faulty variant: packages are digested and not copied.
HashedWithPackages(t, p) == {q \in Children(t, p) : t[q].kind # "dir"}

\* HashTree step by step: what its walk finds in a directory and where it goes
\* on, and what it reads then.  A directory that is gone, and a link to a
\* directory or to nothing, are errors.
IsListed(t, p) == p = << >> \/ (p \in DOMAIN t /\ t[p].kind = "dir")
HashedBelow(t, p) ==
    {q \in Children(t, p) : t[q].kind # "dir" /\ ~isBuildArtifact(Last(q))}
EnteredBelow(t, p) == {q \in Children(t, p) : t[q].kind = "dir" /\ Last(q) # GitName}
IsReadable(t, p) == p \in DOMAIN t /\ t[p].content # "unreadable"
Read(t, digest, p) ==
    [q \in DOMAIN digest \cup {p} |-> IF q = p THEN t[p].content ELSE digest[q]]

\* What CopyTree passes over, also if it is gone: .git at the top, a directory
\* or not, and packages.
Uncopied(t, p) ==
    \/ p = <<GitName>>
    \/ p # << >> /\ isBuildArtifact(Last(p)) /\ (p \in DOMAIN t => ~IsDir(t, p))

\* Faulty variant: a link is copied like a file.
CopyEntryFailsIfGone(t, p) == ~Uncopied(t, p) /\ p # << >> /\ p \notin DOMAIN t

\* A name that was listed may be gone when it is opened; links are refused.
CopyEntryFails(t, p) ==
    /\ ~Uncopied(t, p) /\ p # << >>
    /\ p \in DOMAIN t => t[p].kind = "link"

\* One call of CopyTree's function: what is left to visit after p and rest, and
\* what the target holds.
CopyEntry(t, target, p, rest) ==
    [todo |-> IF ~Uncopied(t, p) /\ IsDir(t, p) THEN rest \cup Children(t, p) ELSE rest,
     target |-> IF Uncopied(t, p) \/ p = << >> THEN target
                ELSE [q \in DOMAIN target \cup {p} |-> IF q = p THEN t[p] ELSE target[q]]]
=============================================================================
