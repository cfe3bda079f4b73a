----------------------------- MODULE FilesProofs -----------------------------
(***************************************************************************)
(* What Files promises, for every set of trees, importers and packages and *)
(* for every bound: a snapshot that nothing disturbed has the content of   *)
(* its digest, and what is served was built from such a snapshot.          *)
(***************************************************************************)
EXTENDS Files, SequenceTheorems, TLAPS

-----------------------------------------------------------------------------
(* The inductive invariant. *)

TreePaths == {<< >>} \cup UNION {DOMAIN t : t \in Trees}
Contents == UNION {{t[p].content : p \in DOMAIN t} : t \in Trees}
Digests == UNION {[P -> Contents] : P \in SUBSET TreePaths}
Importer ==
    [pc : {"idle", "digest", "stat", "mkdir", "copy", "record"}, digest : Digests,
     todo : SUBSET TreePaths, paths : SUBSET TreePaths, edited : BOOLEAN]

\* What each variable of an import holds; a digest that is waited for or
\* recorded has a directory.
ImportTypeOK ==
    /\ source \in Trees
    /\ importers \in [Importers -> Importer]
    /\ recorded \in Seq(DOMAIN snapshots)
    /\ \A d \in DOMAIN snapshots : \A p \in DOMAIN snapshots[d] :
        snapshots[d][p].kind \in {"file", "dir"}
    /\ \A i \in Importers : importers[i].pc \in {"copy", "record"} =>
        importers[i].digest \in DOMAIN snapshots

\* What of the directory a digest has yet to find lies below a directory the walk
\* has yet to list; what it has found and read is what is there.
Reaches(todo, p) == \E k \in 0 .. Len(p) : SubSeq(p, 1, k) \in todo
OnItsWay(x) ==
    x.pc = "digest" /\ ~x.edited =>
        /\ \A p \in x.todo :
            p = << >> \/ (p \in DOMAIN source /\ source[p].kind = "dir" /\ GitName \notin ToSet(p))
        /\ DOMAIN x.digest \cup x.paths \subseteq Hashed(source)
        /\ \A p \in DOMAIN x.digest : x.digest[p] = source[p].content
        /\ \A r \in Hashed(source) : r \in DOMAIN x.digest \cup x.paths \/ Reaches(x.todo, r)
DigestsAreOnTheirWay == \A i \in Importers : OnItsWay(importers[i])

\* An importer that relies on an undisturbed digest sees it in the directory.
ReliedIsSeen ==
    \A i \in Importers :
        importers[i].pc \in {"stat", "mkdir", "copy"} /\ importers[i].digest \notin disturbed =>
            HashTree(source) = importers[i].digest

\* What has been copied has the digest's content, though some may be missing.
CopiesAreSound ==
    \A d \in DOMAIN snapshots \ disturbed : \A p \in DOMAIN snapshots[d] :
        /\ p # <<GitName>>
        /\ p \in Hashed(snapshots[d]) <=> p \in DOMAIN d
        /\ p \in DOMAIN d => snapshots[d][p].content = d[p]

\* What of a digest a copy has yet to reach lies at or below a path it has yet
\* to visit.
CopyIsOnItsWay ==
    \A i \in Importers :
        importers[i].pc = "copy" /\ importers[i].digest \notin disturbed =>
            \A p \in DOMAIN importers[i].digest \ {<<GitName>>} :
                p \in DOMAIN snapshots[importers[i].digest] \/ Reaches(importers[i].todo, p)

\* A digest's directory that nobody copies to has everything of it.
CopiesAreWhole ==
    \A d \in DOMAIN snapshots \ disturbed :
        ~Copying(d) => DOMAIN d \ {<<GitName>>} \subseteq DOMAIN snapshots[d]

ImportInv ==
    /\ ImportTypeOK /\ DigestsAreOnTheirWay /\ ReliedIsSeen
    /\ CopiesAreSound /\ CopyIsOnItsWay /\ CopiesAreWhole

\* The digest of a tree is that of revision d, leaving out a .git that is a file.
HasDigest(t, d) == HashTree(t) = [p \in DOMAIN d \ {<<GitName>>} |-> d[p]]

\* What the container of a job has written; once it has exited, all of it.
BuildsTypeOK ==
    /\ DOMAIN status \subseteq Jobs
    /\ DOMAIN container = DOMAIN status /\ DOMAIN staging = DOMAIN status
    /\ \A j \in DOMAIN status :
        /\ status[j] \in {"running", "built", "failed", "published"}
        /\ DOMAIN container[j] = {"pc", "tree", "early"}
        /\ status[j] \in {"built", "published"} => container[j].pc = "exited"
        /\ DOMAIN staging[j] \subseteq Output(j)
        /\ container[j].pc = "exited" => DOMAIN staging[j] = Output(j)
        /\ \A f \in DOMAIN staging[j] : staging[j][f] = [job |-> j, tree |-> container[j].tree]

\* A build has a tree with the digest of its revision.
BuiltFromDigest ==
    \A j \in DOMAIN container :
        \/ recorded[j] \in disturbed \/ container[j].early
        \/ HasDigest(container[j].tree, recorded[j])

\* Only what a job made whose container exited before it was given up is in
\* the repository or recorded.
Ended(j) == j \in DOMAIN status /\ status[j] # "running" /\ container[j].pc = "exited"
ServedIsEnded ==
    /\ \A f \in DOMAIN repo :
        Ended(repo[f].job) /\ repo[f] = [job |-> repo[f].job, tree |-> container[repo[f].job].tree]
    /\ \A row \in artifacts : Ended(row[1])

\* The publisher's list is the staging directory of a built job; what it has
\* done is in the repository, until repo-add, and recorded.
PublisherInv ==
    /\ publisher = NotPublishing \/ publisher.pc \in {"copy", "mark"}
    /\ publisher.pc # "idle" =>
        /\ publisher.job \in DOMAIN status /\ status[publisher.job] = "built"
        /\ publisher.todo \cup publisher.done = DOMAIN staging[publisher.job]
        /\ \A f \in publisher.done : <<publisher.job, f>> \in artifacts
        /\ publisher.pc = "copy" => publisher.done \subseteq DOMAIN repo
        /\ publisher.pc = "mark" => publisher.todo = {}
        /\ publisher.job \notin list
    /\ \A j \in list : j \in DOMAIN status /\ status[j] = "built"

\* The entry of a package names a file of it that is there.
EntriesInv ==
    \A p \in DOMAIN entries :
        p \in Parts /\ entries[p][1] = p /\ entries[p] \in DOMAIN repo

BuildsInv ==
    /\ BuildsTypeOK /\ BuiltFromDigest /\ ServedIsEnded /\ PublisherInv /\ EntriesInv
    /\ PublishedIsComplete

FilesInv == ImportInv /\ BuildsInv

-----------------------------------------------------------------------------
(* Trees, digests and the copy. *)

\* What is hashed of a tree is a path below its root, with all its parents.
LEMMA HashedPaths ==
    ASSUME NEW t \in Trees, NEW r \in Hashed(t)
    PROVE  /\ r \in Seq(ToSet(FileNames)) /\ Len(r) \in Nat /\ Len(r) >= 1 /\ r \in DOMAIN t
           /\ t[r].kind # "dir" /\ ~isBuildArtifact(Last(r)) /\ GitName \notin ToSet(Front(r))
           /\ \A k \in 1 .. Len(r) - 1 : SubSeq(r, 1, k) \in DOMAIN t /\ t[SubSeq(r, 1, k)] = Dir
<1>1. r \in DOMAIN t /\ IsTree(t) BY TreesAssumption DEF Hashed
<1>2. r \in Seq(ToSet(FileNames)) /\ r # << >> BY <1>1 DEF IsTree
<1>3. Len(r) \in Nat /\ Len(r) >= 1 BY <1>2, EmptySeq, LenProperties
<1> QED BY <1>1, <1>2, <1>3 DEF IsTree, Hashed

\* The digest of a tree: the contents of what is hashed.
LEMMA DigestIs ==
    ASSUME NEW t
    PROVE  DOMAIN HashTree(t) = Hashed(t) /\ \A p \in Hashed(t) : HashTree(t)[p] = t[p].content
BY DEF HashTree

\* A directory that is visited on the way to a path has a child on that way.
LEMMA ChildOnTheWay ==
    ASSUME NEW t \in Trees, NEW r \in Hashed(t), NEW k \in 0 .. Len(r) - 1
    PROVE  SubSeq(r, 1, k + 1) \in Children(t, SubSeq(r, 1, k))
<1> DEFINE q == SubSeq(r, 1, k + 1)
<1>1. r \in Seq(ToSet(FileNames)) /\ Len(r) \in Nat /\ Len(r) >= 1 BY HashedPaths
<1>2. q \in Seq(ToSet(FileNames)) /\ Len(q) = k + 1 /\ \A i \in 1 .. k + 1 : q[i] = r[i]
  BY <1>1, SubSeqProperties
<1>3. q \in DOMAIN t
  <2>1. CASE k + 1 = Len(r) BY <2>1, <1>1, HashedPaths, SubSeqFull
  <2>2. CASE k + 1 \in 1 .. Len(r) - 1 BY <2>2, HashedPaths
  <2> QED BY <2>1, <2>2, <1>1
<1>4. Front(q) = SubSeq(r, 1, k) BY <1>1, <1>2, SubSeqOfSubSeq DEF Front
<1> HIDE DEF q
<1>5. q # << >> BY <1>2, EmptySeq
<1> QED BY <1>3, <1>4, <1>5 DEF Children, q

\* The path of a name in a directory: the directory's and the name.
LEMMA ChildNames ==
    ASSUME NEW t \in Trees, NEW p, NEW q \in Children(t, p)
    PROVE  /\ q \in Seq(ToSet(FileNames)) /\ Len(q) \in Nat /\ Len(q) >= 1 /\ q \in DOMAIN t
           /\ Front(q) = p /\ ToSet(q) = ToSet(p) \cup {Last(q)}
<1>1. q \in DOMAIN t /\ q # << >> /\ Front(q) = p /\ IsTree(t)
  BY TreesAssumption DEF Children
<1>2. q \in Seq(ToSet(FileNames)) BY <1>1 DEF IsTree
<1>3. Len(q) \in Nat /\ Len(q) >= 1 BY <1>1, <1>2, EmptySeq, LenProperties
<1>4. Len(p) = Len(q) - 1 /\ \A k \in 1 .. Len(q) - 1 : p[k] = q[k]
  BY <1>1, <1>2, <1>3, SubSeqProperties DEF Front
<1>5. DOMAIN q = 1 .. Len(q) /\ DOMAIN p = 1 .. Len(q) - 1
  BY <1>1, <1>2, <1>3, <1>4, SubSeqProperties DEF Front
<1>6. ToSet(q) = ToSet(p) \cup {q[Len(q)]} BY <1>3, <1>4, <1>5 DEF ToSet
<1> QED BY <1>1, <1>2, <1>3, <1>6 DEF Last

\* The walk leaves nothing out: what is below a directory that it lists has been
\* found or lies below a directory that it enters.
LEMMA WalkReaches ==
    ASSUME NEW t \in Trees, NEW todo, NEW p \in todo, NEW r \in Hashed(t), Reaches(todo, r),
           \A q \in todo : q = << >> \/ (q \in DOMAIN t /\ t[q].kind = "dir")
    PROVE  r \in HashedBelow(t, p) \/ Reaches((todo \ {p}) \cup EnteredBelow(t, p), r)
<1>1. PICK k \in 0 .. Len(r) : SubSeq(r, 1, k) \in todo BY DEF Reaches
<1>2. /\ r \in Seq(ToSet(FileNames)) /\ Len(r) \in Nat /\ Len(r) >= 1 /\ r \in DOMAIN t /\ r # << >>
      /\ t[r].kind # "dir" /\ ~isBuildArtifact(Last(r)) /\ GitName \notin ToSet(Front(r))
  BY HashedPaths, EmptySeq
<1>3. CASE SubSeq(r, 1, k) # p BY <1>3, <1>1 DEF Reaches
<1>4. CASE SubSeq(r, 1, k) = p
  <2>1. k \in 0 .. Len(r) - 1
    <3>1. SubSeq(r, 1, Len(r)) = r BY <1>2, SubSeqFull
    <3>2. k # Len(r) BY <1>1, <1>2, <3>1
    <3> QED BY <1>2, <3>2
  <2> DEFINE c == SubSeq(r, 1, k + 1)
  <2>2. c \in Children(t, p) BY <1>4, <2>1, ChildOnTheWay
  <2>3. CASE k + 1 = Len(r)
    <3>1. c = r BY <2>3, <1>2, SubSeqFull
    <3> QED BY <3>1, <2>2, <1>2 DEF HashedBelow
  <2>4. CASE k + 1 # Len(r)
    <3>1. k + 1 \in 1 .. Len(r) - 1 BY <2>1, <2>4, <1>2
    <3>2. t[c].kind = "dir" BY <3>1, HashedPaths DEF Dir
    <3>3. Last(c) # GitName
      <4>1. Len(c) = k + 1 /\ c[k + 1] = r[k + 1] BY <1>2, <2>1, SubSeqProperties
      <4>2. k + 1 \in DOMAIN Front(r) /\ Front(r)[k + 1] = r[k + 1]
        BY <1>2, <3>1, SubSeqProperties DEF Front
      <4>3. Last(c) = r[k + 1] BY <4>1 DEF Last
      <4> HIDE DEF c
      <4> QED BY <1>2, <4>2, <4>3 DEF ToSet
    <3>4. c \in EnteredBelow(t, p) BY <2>2, <3>2, <3>3 DEF EnteredBelow
    <3>5. k + 1 \in 0 .. Len(r) BY <1>2, <2>1
    <3> QED BY <3>4, <3>5 DEF Reaches
  <2> QED BY <2>3, <2>4
<1> QED BY <1>3, <1>4

\* What the walk finds in a directory is digested, and what it enters is a
\* directory without .git on its path.
LEMMA WalkIsSound ==
    ASSUME NEW t \in Trees, NEW p, GitName \notin ToSet(p)
    PROVE  /\ HashedBelow(t, p) \subseteq Hashed(t)
           /\ \A q \in EnteredBelow(t, p) :
                q \in DOMAIN t /\ t[q].kind = "dir" /\ GitName \notin ToSet(q)
<1>1. ASSUME NEW q \in HashedBelow(t, p) PROVE q \in Hashed(t)
  BY <1>1, ChildNames DEF HashedBelow, Hashed
<1>2. ASSUME NEW q \in EnteredBelow(t, p)
      PROVE  q \in DOMAIN t /\ t[q].kind = "dir" /\ GitName \notin ToSet(q)
  BY <1>2, ChildNames DEF EnteredBelow
<1> QED BY <1>1, <1>2

\* A .git at the top has nothing below it that is hashed.
LEMMA NothingBelowGit ==
    ASSUME NEW t \in Trees, NEW r \in Hashed(t), NEW k \in 0 .. Len(r),
           Len(SubSeq(r, 1, k)) = 1, SubSeq(r, 1, k)[1] = GitName
    PROVE  r = SubSeq(r, 1, k)
<1>1. r \in Seq(ToSet(FileNames)) /\ Len(r) \in Nat /\ Len(r) >= 1 /\ GitName \notin ToSet(Front(r))
  BY HashedPaths
<1>2. k = 1 /\ r[1] = GitName
  <2>1. \A i \in 1 .. k : r[i] \in ToSet(FileNames) BY <1>1
  <2> QED BY <1>1, <2>1, SubSeqProperties
<1>3. CASE Len(r) = 1 BY <1>3, <1>1, <1>2, SubSeqFull
<1>4. CASE Len(r) > 1
  <2>1. Len(Front(r)) = Len(r) - 1 /\ Front(r)[1] = r[1] /\ 1 \in DOMAIN Front(r)
    BY <1>4, <1>1, SubSeqProperties DEF Front
  <2> QED BY <2>1, <1>1, <1>2 DEF ToSet
<1> QED BY <1>1, <1>3, <1>4

\* CopyTree leaves nothing of a digest behind: what was ahead of it is copied
\* by the call or is still ahead.
LEMMA CopyEntryReaches ==
    ASSUME NEW t \in Trees, NEW target, NEW todo, NEW p \in todo, ~CopyEntryFails(t, p),
           NEW r \in Hashed(t), r # <<GitName>>, Reaches(todo, r)
    PROVE  \/ r \in DOMAIN CopyEntry(t, target, p, todo \ {p}).target
           \/ Reaches(CopyEntry(t, target, p, todo \ {p}).todo, r)
<1> DEFINE step == CopyEntry(t, target, p, todo \ {p})
<1>1. PICK k \in 0 .. Len(r) : SubSeq(r, 1, k) \in todo BY DEF Reaches
<1>2. r \in Seq(ToSet(FileNames)) /\ Len(r) \in Nat /\ Len(r) >= 1 /\ r \in DOMAIN t /\ r # << >>
  BY HashedPaths, EmptySeq
<1>3. CASE SubSeq(r, 1, k) # p BY <1>3, <1>1 DEF Reaches, CopyEntry
<1>4. CASE SubSeq(r, 1, k) = p /\ k < Len(r)
  <2>1. p = << >> \/ (p \in DOMAIN t /\ t[p] = Dir)
    <3>1. CASE k = 0
      <4>1. SubSeq(r, 1, 0) = << >> BY SubSeqEmpty
      <4> QED BY <3>1, <4>1, <1>4
    <3>2. CASE k \in 1 .. Len(r) - 1 BY <3>2, <1>4, HashedPaths
    <3> QED BY <3>1, <3>2, <1>2, <1>4
  <2>2. p # <<GitName>> BY <1>4, NothingBelowGit
  <2>3. IsDir(t, p) BY <2>1 DEF IsDir, Dir
  <2>4. ~Uncopied(t, p) BY <2>1, <2>2, <2>3 DEF Uncopied
  <2>5. SubSeq(r, 1, k + 1) \in Children(t, p)
    <3>1. k \in 0 .. Len(r) - 1 BY <1>4, <1>2
    <3> QED BY <3>1, <1>4, ChildOnTheWay
  <2>6. step.todo = (todo \ {p}) \cup Children(t, p) BY <2>3, <2>4 DEF CopyEntry
  <2>7. SubSeq(r, 1, k + 1) \in step.todo BY <2>5, <2>6
  <2>8. k + 1 \in 0 .. Len(r) BY <1>2, <1>4
  <2> HIDE DEF step
  <2> QED BY <2>7, <2>8 DEF Reaches, step
<1>5. CASE SubSeq(r, 1, k) = p /\ k = Len(r)
  <2>1. p = r BY <1>5, <1>2, SubSeqFull
  <2>2. ~IsDir(t, p) BY <2>1, <1>2, HashedPaths DEF IsDir
  <2>3. ~Uncopied(t, p) BY <2>1, <2>2, <1>2, HashedPaths DEF Uncopied
  <2> QED BY <2>1, <2>3, <1>2 DEF CopyEntry
<1> QED BY <1>2, <1>3, <1>4, <1>5

\* A call of CopyTree's function leaves the target alone or writes p as it is.
Writes(t, target, p, new) ==
    \/ new = target
    \/ /\ p \in DOMAIN t /\ p # <<GitName>> /\ t[p].kind \in {"file", "dir"}
       /\ DOMAIN new = DOMAIN target \cup {p} /\ new[p] = t[p]
       /\ \A q \in DOMAIN target \ {p} : new[q] = target[q]

\* What CopyTree writes is there, and never a link nor the .git at the top.
LEMMA CopyEntryWrites ==
    ASSUME NEW t \in Trees, NEW target, NEW p, NEW rest, ~CopyEntryFails(t, p)
    PROVE  Writes(t, target, p, CopyEntry(t, target, p, rest).target)
<1> DEFINE new == CopyEntry(t, target, p, rest).target
<1>1. CASE Uncopied(t, p) \/ p = << >> BY <1>1 DEF CopyEntry, Writes
<1>2. CASE ~Uncopied(t, p) /\ p # << >>
  <2>1. p \in DOMAIN t /\ t[p].kind # "link" /\ p # <<GitName>>
    BY <1>2 DEF CopyEntryFails, Uncopied
  <2>2. t[p].kind \in {"file", "dir"}
    BY <2>1, TreesAssumption DEF IsTree, Dir, File, Link
  <2>3. new = [q \in DOMAIN target \cup {p} |-> IF q = p THEN t[p] ELSE target[q]]
    BY <1>2 DEF CopyEntry
  <2> HIDE DEF new
  <2>4. Writes(t, target, p, new) BY <2>1, <2>2, <2>3 DEF Writes
  <2> QED BY <2>4 DEF new
<1> QED BY <1>1, <1>2

-----------------------------------------------------------------------------
(* Imports keep their part of the invariant. *)

\* Nothing read yet is a digest, and so is what has been read with one more file.
LEMMA EmptyDigest == << >> \in Digests
<1>1. << >> \in [{} -> Contents] OBVIOUS
<1> QED BY <1>1 DEF Digests

LEMMA ReadDigest ==
    ASSUME NEW t \in Trees, NEW digest \in Digests, NEW p \in DOMAIN t
    PROVE  Read(t, digest, p) \in Digests
<1>1. PICK P \in SUBSET TreePaths : digest \in [P -> Contents] BY DEF Digests
<1>2. p \in TreePaths /\ t[p].content \in Contents BY DEF TreePaths, Contents
<1>3. Read(t, digest, p) \in [P \cup {p} -> Contents] BY <1>1, <1>2 DEF Read
<1>4. P \cup {p} \in SUBSET TreePaths BY <1>2
<1> QED BY <1>3, <1>4 DEF Digests

LEMMA IdleIsImporter == NotImporting \in Importer /\ OnItsWay(NotImporting)
BY EmptyDigest DEF NotImporting, Importer, OnItsWay

\* What EXCEPT makes of one field, or of two, of an importer's record.
LEMMA SetOne ==
    ASSUME NEW x \in Importer, NEW v
    PROVE  /\ [x EXCEPT !.pc = v] = [pc |-> v, digest |-> x.digest, todo |-> x.todo,
                                     paths |-> x.paths, edited |-> x.edited]
           /\ [x EXCEPT !.todo = v] = [pc |-> x.pc, digest |-> x.digest, todo |-> v,
                                       paths |-> x.paths, edited |-> x.edited]
           /\ [x EXCEPT !.paths = v] = [pc |-> x.pc, digest |-> x.digest, todo |-> x.todo,
                                        paths |-> v, edited |-> x.edited]
<1>1. [x EXCEPT !.pc = v] = [pc |-> v, digest |-> x.digest, todo |-> x.todo,
                             paths |-> x.paths, edited |-> x.edited] BY DEF Importer
<1>2. [x EXCEPT !.todo = v] = [pc |-> x.pc, digest |-> x.digest, todo |-> v,
                               paths |-> x.paths, edited |-> x.edited] BY DEF Importer
<1>3. [x EXCEPT !.paths = v] = [pc |-> x.pc, digest |-> x.digest, todo |-> x.todo,
                                paths |-> v, edited |-> x.edited] BY DEF Importer
<1> QED BY <1>1, <1>2, <1>3

LEMMA SetTwo ==
    ASSUME NEW x \in Importer, NEW v, NEW w
    PROVE  /\ [x EXCEPT !.pc = v, !.todo = w] = [pc |-> v, digest |-> x.digest, todo |-> w,
                                                paths |-> x.paths, edited |-> x.edited]
           /\ [x EXCEPT !.todo = v, !.paths = w] = [pc |-> x.pc, digest |-> x.digest, todo |-> v,
                                                   paths |-> w, edited |-> x.edited]
           /\ [x EXCEPT !.paths = v, !.digest = w] = [pc |-> x.pc, digest |-> w, todo |-> x.todo,
                                                     paths |-> v, edited |-> x.edited]
           /\ [x EXCEPT !.pc = v, !.edited = w] = [pc |-> v, digest |-> x.digest, todo |-> x.todo,
                                                  paths |-> x.paths, edited |-> w]
<1> DEFINE moved == [x EXCEPT !.pc = v]
           visited == [x EXCEPT !.todo = v]
           left == [x EXCEPT !.paths = v]
<1>1. /\ moved = [pc |-> v, digest |-> x.digest, todo |-> x.todo, paths |-> x.paths, edited |-> x.edited]
      /\ visited = [pc |-> x.pc, digest |-> x.digest, todo |-> v, paths |-> x.paths, edited |-> x.edited]
      /\ left = [pc |-> x.pc, digest |-> x.digest, todo |-> x.todo, paths |-> v, edited |-> x.edited]
  BY SetOne
<1>2. /\ [x EXCEPT !.pc = v, !.todo = w] = [moved EXCEPT !.todo = w]
      /\ [x EXCEPT !.todo = v, !.paths = w] = [visited EXCEPT !.paths = w]
      /\ [x EXCEPT !.paths = v, !.digest = w] = [left EXCEPT !.digest = w]
      /\ [x EXCEPT !.pc = v, !.edited = w] = [moved EXCEPT !.edited = w]
  OBVIOUS
<1> HIDE DEF moved, visited, left
<1>3. [moved EXCEPT !.todo = w] = [pc |-> v, digest |-> x.digest, todo |-> w,
                                   paths |-> x.paths, edited |-> x.edited] BY <1>1
<1>4. [visited EXCEPT !.paths = w] = [pc |-> x.pc, digest |-> x.digest, todo |-> v,
                                      paths |-> w, edited |-> x.edited] BY <1>1
<1>5. [left EXCEPT !.digest = w] = [pc |-> x.pc, digest |-> w, todo |-> x.todo,
                                    paths |-> v, edited |-> x.edited] BY <1>1
<1>6. [moved EXCEPT !.edited = w] = [pc |-> v, digest |-> x.digest, todo |-> x.todo,
                                     paths |-> x.paths, edited |-> w] BY <1>1
<1> QED BY <1>2, <1>3, <1>4, <1>5, <1>6

\* Steps moves one importer.
LEMMA StepsTo ==
    ASSUME importers \in [Importers -> Importer], NEW i \in Importers, NEW pc, NEW todo, Steps(i, pc, todo)
    PROVE  importers' = [importers EXCEPT ![i] =
                            [pc |-> pc, digest |-> importers[i].digest, todo |-> todo,
                             paths |-> importers[i].paths, edited |-> importers[i].edited]]
<1> DEFINE x == importers[i]
<1>1. x \in Importer OBVIOUS
<1>2. importers' = [importers EXCEPT ![i] = [x EXCEPT !.pc = pc, !.todo = todo]] BY DEF Steps
<1>3. [x EXCEPT !.pc = pc, !.todo = todo]
        = [pc |-> pc, digest |-> x.digest, todo |-> todo, paths |-> x.paths, edited |-> x.edited]
  <2> HIDE DEF x
  <2> QED BY <1>1, SetTwo
<1> QED BY <1>2, <1>3

\* The steps that leave the files alone: an importer moves to a place that is
\* not the copy, and leaves the copy with all of it or with its digest disturbed.
LEMMA ImporterMoves ==
    ASSUME ImportInv, NEW i \in Importers, NEW new \in Importer,
           importers' = [importers EXCEPT ![i] = new],
           UNCHANGED <<source, snapshots>>, recorded' \in Seq(DOMAIN snapshots), disturbed \subseteq disturbed',
           new.pc # "copy", OnItsWay(new),
           new.pc = "record" => new.digest \in DOMAIN snapshots,
           new.pc \in {"stat", "mkdir"} => new.digest \in disturbed' \/ HashTree(source) = new.digest,
           importers[i].pc = "copy" => importers[i].digest \in disturbed'
                \/ DOMAIN importers[i].digest \ {<<GitName>>} \subseteq DOMAIN snapshots[importers[i].digest]
    PROVE  ImportInv'
<1> USE DEF ImportInv
<1>1. importers' \in [Importers -> Importer] /\ importers'[i] = new
      /\ \A k \in Importers \ {i} : importers'[k] = importers[k]
  BY DEF ImportTypeOK
<1>2. ImportTypeOK' BY <1>1 DEF ImportTypeOK
<1>3. ReliedIsSeen' BY <1>1 DEF ReliedIsSeen
<1>7. DigestsAreOnTheirWay' BY <1>1 DEF DigestsAreOnTheirWay, OnItsWay
<1>4. CopiesAreSound' BY DEF CopiesAreSound
<1>5. CopyIsOnItsWay' BY <1>1 DEF CopyIsOnItsWay, Reaches
<1>6. CopiesAreWhole'
  <2> SUFFICES ASSUME NEW d \in DOMAIN snapshots \ disturbed', ~Copying(d)'
               PROVE  DOMAIN d \ {<<GitName>>} \subseteq DOMAIN snapshots[d]
    BY DEF CopiesAreWhole
  <2>1. CASE ~Copying(d) BY <2>1 DEF CopiesAreWhole
  <2>2. CASE Copying(d)
    <3>1. PICK k \in Importers : importers[k].pc = "copy" /\ importers[k].digest = d BY <2>2 DEF Copying
    <3>2. k = i BY <3>1, <1>1 DEF Copying
    <3> QED BY <3>1, <3>2
  <2> QED BY <2>1, <2>2
<1> QED BY <1>2, <1>3, <1>4, <1>5, <1>6, <1>7

\* An edit disturbs what is relied on.
LEMMA EditKeepsImportInv ==
    ASSUME ImportInv, NEW t \in Trees, Edit(t)
    PROVE  ImportInv'
<1> USE DEF ImportInv
<1>1. /\ source' = t /\ disturbed' = disturbed \cup Relied /\ UNCHANGED <<snapshots, recorded>>
      /\ importers' = [i \in Importers |->
            [importers[i] EXCEPT !.edited = importers[i].edited \/ importers[i].pc = "digest"]]
  BY DEF Edit
<1>2. ASSUME NEW i \in Importers
      PROVE  /\ importers'[i] \in Importer
             /\ importers'[i].pc = importers[i].pc /\ importers'[i].digest = importers[i].digest
             /\ importers'[i].todo = importers[i].todo
             /\ importers[i].pc = "digest" => importers'[i].edited
  <2>1. importers[i] \in Importer BY DEF ImportTypeOK
  <2> QED BY <1>1, <2>1 DEF Importer
<1>3. ImportTypeOK' BY <1>1, <1>2 DEF ImportTypeOK
<1>4. ReliedIsSeen' BY <1>1, <1>2 DEF ReliedIsSeen, Relied
<1>5. DigestsAreOnTheirWay' BY <1>2 DEF DigestsAreOnTheirWay, OnItsWay
<1>6. CopiesAreSound' BY <1>1 DEF CopiesAreSound
<1>7. CopyIsOnItsWay' BY <1>1, <1>2 DEF CopyIsOnItsWay, Reaches
<1>8. CopiesAreWhole' BY <1>1, <1>2 DEF CopiesAreWhole, Copying
<1> QED BY <1>3, <1>4, <1>5, <1>6, <1>7, <1>8

\* A digest begins at the root.
LEMMA BeginKeepsImportInv ==
    ASSUME ImportInv, NEW i \in Importers, PreviewBegin(i)
    PROVE  ImportInv'
<1> DEFINE new == [pc |-> "digest", digest |-> << >>, todo |-> {<< >>}, paths |-> {}, edited |-> FALSE]
<1>1. recorded \in Seq(DOMAIN snapshots) /\ source \in Trees BY DEF ImportInv, ImportTypeOK
<1>2. new \in Importer BY EmptyDigest DEF Importer, TreePaths
<1>3. importers' = [importers EXCEPT ![i] = new]
  <2>1. [NotImporting EXCEPT !.pc = "digest", !.todo = {<< >>}]
            = [pc |-> "digest", digest |-> NotImporting.digest, todo |-> {<< >>},
               paths |-> NotImporting.paths, edited |-> NotImporting.edited]
    BY IdleIsImporter, SetTwo
  <2>2. NotImporting.digest = << >> /\ NotImporting.paths = {} /\ NotImporting.edited = FALSE
    BY DEF NotImporting
  <2> QED BY <2>1, <2>2 DEF PreviewBegin
<1>4. importers[i].pc = "idle" /\ UNCHANGED <<source, snapshots, recorded, disturbed>>
  BY DEF PreviewBegin
<1>5. OnItsWay(new)
  <2>1. ASSUME NEW r \in Hashed(source) PROVE Reaches({<< >>}, r)
    BY <1>1, HashedPaths, SubSeqEmpty DEF Reaches
  <2> QED BY <2>1 DEF OnItsWay
<1> QED BY <1>1, <1>2, <1>3, <1>4, <1>5, ImporterMoves

\* The walk finds what is in a directory, or gives up.
LEMMA WalkKeepsImportInv ==
    ASSUME ImportInv, NEW i \in Importers, PreviewWalk(i)
    PROVE  ImportInv'
<1> DEFINE x == importers[i]
<1>1. recorded \in Seq(DOMAIN snapshots) /\ source \in Trees /\ x \in Importer /\ OnItsWay(x)
  BY DEF ImportInv, ImportTypeOK, DigestsAreOnTheirWay
<1>2. x.pc = "digest" /\ UNCHANGED <<source, snapshots, recorded, disturbed>> BY DEF PreviewWalk
<1>3. PICK p \in x.todo :
        importers' = [importers EXCEPT ![i] =
            IF IsListed(source, p)
            THEN [x EXCEPT !.todo = (x.todo \ {p}) \cup EnteredBelow(source, p),
                           !.paths = x.paths \cup HashedBelow(source, p)]
            ELSE NotImporting]
  BY Zenon DEF PreviewWalk
<1>4. CASE ~IsListed(source, p)
  <2>1. importers' = [importers EXCEPT ![i] = NotImporting] BY <1>3, <1>4
  <2> QED BY <1>1, <1>2, <2>1, IdleIsImporter, ImporterMoves DEF NotImporting
<1>5. CASE IsListed(source, p)
  <2> DEFINE todo == (x.todo \ {p}) \cup EnteredBelow(source, p)
             paths == x.paths \cup HashedBelow(source, p)
             new == [pc |-> "digest", digest |-> x.digest, todo |-> todo, paths |-> paths,
                     edited |-> x.edited]
  <2>3. importers' = [importers EXCEPT ![i] = [x EXCEPT !.todo = todo, !.paths = paths]]
    BY <1>3, <1>5
  <2>4. [x EXCEPT !.todo = todo, !.paths = paths] = new
    <3> HIDE DEF x, todo, paths
    <3>1. [x EXCEPT !.todo = todo, !.paths = paths]
            = [pc |-> x.pc, digest |-> x.digest, todo |-> todo, paths |-> paths, edited |-> x.edited]
      BY <1>1, SetTwo
    <3> QED BY <1>2, <3>1
  <2>8. importers' = [importers EXCEPT ![i] = new] BY <2>3, <2>4
  <2>5. todo \subseteq TreePaths /\ paths \subseteq TreePaths
    BY <1>1 DEF Importer, TreePaths, EnteredBelow, HashedBelow, Children
  <2>6. new \in Importer BY <1>1, <2>5 DEF Importer
  <2>7. OnItsWay(new)
    <3> SUFFICES ASSUME ~x.edited PROVE OnItsWay(new) BY DEF OnItsWay
    <3>1. /\ \A q \in x.todo : q = << >> \/ (q \in DOMAIN source /\ source[q].kind = "dir"
                                            /\ GitName \notin ToSet(q))
          /\ DOMAIN x.digest \cup x.paths \subseteq Hashed(source)
          /\ \A q \in DOMAIN x.digest : x.digest[q] = source[q].content
          /\ \A r \in Hashed(source) : r \in DOMAIN x.digest \cup x.paths \/ Reaches(x.todo, r)
      BY <1>1, <1>2 DEF OnItsWay
    <3>2. GitName \notin ToSet(p)
      <4>1. ToSet(<< >>) = {} BY DEF ToSet
      <4> QED BY <3>1, <4>1
    <3>3. /\ HashedBelow(source, p) \subseteq Hashed(source)
          /\ \A q \in EnteredBelow(source, p) :
                q \in DOMAIN source /\ source[q].kind = "dir" /\ GitName \notin ToSet(q)
      BY <1>1, <3>2, WalkIsSound
    <3>4. ASSUME NEW r \in Hashed(source), Reaches(x.todo, r)
          PROVE  r \in HashedBelow(source, p) \/ Reaches(todo, r)
      <4> HIDE DEF x
      <4> QED BY <1>1, <3>1, <3>4, WalkReaches
    <3> QED BY <3>1, <3>3, <3>4 DEF OnItsWay
  <2> HIDE DEF new
  <2> QED BY <1>1, <1>2, <2>8, <2>6, <2>7, ImporterMoves DEF new
<1> QED BY <1>4, <1>5

\* A file is read as it is, or the digest is given up.
LEMMA ReadKeepsImportInv ==
    ASSUME ImportInv, NEW i \in Importers, PreviewRead(i)
    PROVE  ImportInv'
<1> DEFINE x == importers[i]
<1>1. recorded \in Seq(DOMAIN snapshots) /\ source \in Trees /\ x \in Importer /\ OnItsWay(x)
  BY DEF ImportInv, ImportTypeOK, DigestsAreOnTheirWay
<1>2. x.pc = "digest" /\ UNCHANGED <<source, snapshots, recorded, disturbed>> BY DEF PreviewRead
<1>3. PICK p \in x.paths :
        importers' = [importers EXCEPT ![i] =
            IF IsReadable(source, p)
            THEN [x EXCEPT !.paths = x.paths \ {p}, !.digest = Read(source, x.digest, p)]
            ELSE NotImporting]
  BY Zenon DEF PreviewRead
<1>4. CASE ~IsReadable(source, p)
  <2>1. importers' = [importers EXCEPT ![i] = NotImporting] BY <1>3, <1>4
  <2> QED BY <1>1, <1>2, <2>1, IdleIsImporter, ImporterMoves DEF NotImporting
<1>5. CASE IsReadable(source, p)
  <2> DEFINE paths == x.paths \ {p}
             read == Read(source, x.digest, p)
             new == [pc |-> "digest", digest |-> read, todo |-> x.todo, paths |-> paths,
                     edited |-> x.edited]
  <2>3. importers' = [importers EXCEPT ![i] = [x EXCEPT !.paths = paths, !.digest = read]]
    BY <1>3, <1>5
  <2>4. [x EXCEPT !.paths = paths, !.digest = read] = new
    <3> HIDE DEF x, paths, read
    <3>1. [x EXCEPT !.paths = paths, !.digest = read]
            = [pc |-> x.pc, digest |-> read, todo |-> x.todo, paths |-> paths, edited |-> x.edited]
      <4> DEFINE left == [x EXCEPT !.paths = paths]
      <4>1. left = [pc |-> x.pc, digest |-> x.digest, todo |-> x.todo,
                    paths |-> paths, edited |-> x.edited] BY <1>1, SetOne
      <4> HIDE DEF left
      <4>2. [left EXCEPT !.digest = read] = [pc |-> x.pc, digest |-> read, todo |-> x.todo,
                                             paths |-> paths, edited |-> x.edited] BY <4>1
      <4> QED BY <4>2 DEF left
    <3> QED BY <1>2, <3>1
  <2>9. importers' = [importers EXCEPT ![i] = new] BY <2>3, <2>4
  <2>5. p \in DOMAIN source /\ read \in Digests
    BY <1>1, <1>5, ReadDigest DEF IsReadable, Importer
  <2>6. DOMAIN read = DOMAIN x.digest \cup {p}
        /\ \A q \in DOMAIN read : read[q] = IF q = p THEN source[p].content ELSE x.digest[q]
    BY DEF Read
  <2> HIDE DEF read
  <2>7. new \in Importer BY <1>1, <2>5 DEF Importer
  <2>8. OnItsWay(new) BY <1>1, <1>2, <2>6 DEF OnItsWay
  <2> HIDE DEF new
  <2> QED BY <1>1, <1>2, <2>9, <2>7, <2>8, ImporterMoves DEF new
<1> QED BY <1>4, <1>5

\* A digest that no edit met is the digest of what is there.
LEMMA DigestedKeepsImportInv ==
    ASSUME ImportInv, NEW i \in Importers, PreviewDigested(i)
    PROVE  ImportInv'
<1> DEFINE x == importers[i]
           new == [pc |-> "stat", digest |-> x.digest, todo |-> {}, paths |-> {}, edited |-> FALSE]
<1>1. recorded \in Seq(DOMAIN snapshots) /\ source \in Trees /\ x \in Importer /\ OnItsWay(x)
  BY DEF ImportInv, ImportTypeOK, DigestsAreOnTheirWay
<1>2. x.pc = "digest" /\ x.todo = {} /\ x.paths = {} /\ UNCHANGED <<source, snapshots, recorded>>
      /\ disturbed' = IF x.edited THEN disturbed \cup {x.digest} ELSE disturbed
  BY DEF PreviewDigested
<1>5. importers' = [importers EXCEPT ![i] = [x EXCEPT !.pc = "stat", !.edited = FALSE]]
  BY DEF PreviewDigested
<1>6. [x EXCEPT !.pc = "stat", !.edited = FALSE] = new
  <2>1. x.todo = {} /\ x.paths = {} BY <1>2
  <2> HIDE DEF x
  <2>2. [x EXCEPT !.pc = "stat", !.edited = FALSE]
          = [pc |-> "stat", digest |-> x.digest, todo |-> x.todo, paths |-> x.paths, edited |-> FALSE]
    BY <1>1, SetTwo
  <2> QED BY <2>1, <2>2
<1>7. new \in Importer BY <1>1 DEF Importer
<1>8. ~x.edited => HashTree(source) = x.digest
  <2> SUFFICES ASSUME ~x.edited PROVE HashTree(source) = x.digest OBVIOUS
  <2>1. /\ DOMAIN x.digest = Hashed(source)
        /\ \A p \in DOMAIN x.digest : x.digest[p] = source[p].content
    BY <1>1, <1>2 DEF OnItsWay, Reaches
  <2>2. x.digest = [p \in DOMAIN x.digest |-> x.digest[p]] BY <1>1 DEF Importer, Digests
  <2> QED BY <2>1, <2>2 DEF HashTree
<1>9. disturbed \subseteq disturbed' /\ (x.digest \in disturbed' \/ HashTree(source) = x.digest)
  BY <1>2, <1>8
<1>10. OnItsWay(new) BY DEF OnItsWay
<1>11. importers' = [importers EXCEPT ![i] = new] BY <1>5, <1>6
<1>12. new.pc = "stat" /\ new.digest = x.digest OBVIOUS
<1>13. importers[i].pc # "copy" BY <1>2
<1> HIDE DEF new
<1> QED BY <1>1, <1>2, <1>7, <1>9, <1>10, <1>11, <1>12, <1>13, ImporterMoves

\* AcceptLocal finds the directory of the digest or sets out to make it.
LEMMA StatKeepsImportInv ==
    ASSUME ImportInv, NEW i \in Importers, AcceptStat(i)
    PROVE  ImportInv'
<1> DEFINE pc == IF importers[i].digest \in DOMAIN snapshots THEN "record" ELSE "mkdir"
           new == [pc |-> pc, digest |-> importers[i].digest, todo |-> {},
                   paths |-> importers[i].paths, edited |-> importers[i].edited]
<1>1. importers \in [Importers -> Importer] /\ recorded \in Seq(DOMAIN snapshots)
  BY DEF ImportInv, ImportTypeOK
<1>2. new \in Importer BY <1>1 DEF Importer
<1>3. importers' = [importers EXCEPT ![i] = new] BY <1>1, StepsTo DEF AcceptStat
<1>4. importers[i].pc = "stat" /\ UNCHANGED <<source, snapshots, recorded, disturbed>> BY DEF AcceptStat
<1>5. importers[i].digest \in disturbed \/ HashTree(source) = importers[i].digest
  BY <1>4 DEF ImportInv, ReliedIsSeen
<1>6. OnItsWay(new) BY DEF OnItsWay
<1> HIDE DEF new
<1> QED BY <1>1, <1>2, <1>3, <1>4, <1>5, <1>6, ImporterMoves DEF new

\* When nothing is left to visit, everything has been copied.
LEMMA CopiedKeepsImportInv ==
    ASSUME ImportInv, NEW i \in Importers, AcceptCopied(i)
    PROVE  ImportInv'
<1> DEFINE new == [pc |-> "record", digest |-> importers[i].digest, todo |-> {},
                   paths |-> importers[i].paths, edited |-> importers[i].edited]
<1>1. importers \in [Importers -> Importer] /\ recorded \in Seq(DOMAIN snapshots)
  BY DEF ImportInv, ImportTypeOK
<1>2. new \in Importer BY <1>1 DEF Importer
<1>3. importers' = [importers EXCEPT ![i] = new] BY <1>1, StepsTo DEF AcceptCopied
<1>4. importers[i].pc = "copy" /\ importers[i].todo = {}
      /\ UNCHANGED <<source, snapshots, recorded, disturbed>>
  BY DEF AcceptCopied
<1>5. importers[i].digest \in DOMAIN snapshots BY <1>4 DEF ImportInv, ImportTypeOK
<1>6. importers[i].digest \in disturbed
      \/ DOMAIN importers[i].digest \ {<<GitName>>} \subseteq DOMAIN snapshots[importers[i].digest]
  BY <1>4 DEF ImportInv, CopyIsOnItsWay, Reaches
<1>7. OnItsWay(new) BY DEF OnItsWay
<1> HIDE DEF new
<1> QED BY <1>1, <1>2, <1>3, <1>4, <1>5, <1>6, <1>7, ImporterMoves DEF new

\* A version is recorded for a digest that has a directory.
LEMMA RecordKeepsImportInv ==
    ASSUME ImportInv, NEW i \in Importers, AcceptRecord(i)
    PROVE  ImportInv'
<1>1. importers \in [Importers -> Importer] /\ recorded \in Seq(DOMAIN snapshots)
  BY DEF ImportInv, ImportTypeOK
<1>2. NotImporting \in Importer /\ OnItsWay(NotImporting) BY IdleIsImporter
<1>3. importers[i].pc = "record" /\ importers' = [importers EXCEPT ![i] = NotImporting]
      /\ UNCHANGED <<source, snapshots, disturbed>>
  BY DEF AcceptRecord
<1>4. importers[i].digest \in DOMAIN snapshots BY <1>3 DEF ImportInv, ImportTypeOK
<1>5. recorded' \in Seq(DOMAIN snapshots)
  <2>1. recorded' = recorded \/ recorded' = Append(recorded, importers[i].digest) BY DEF AcceptRecord
  <2> QED BY <1>1, <1>4, <2>1, AppendProperties
<1> QED BY <1>1, <1>2, <1>3, <1>5, ImporterMoves DEF NotImporting

\* A failure disturbs the digest of a copy it breaks off.
LEMMA FailureKeepsImportInv ==
    ASSUME ImportInv, NEW i \in Importers, AcceptFails(i)
    PROVE  ImportInv'
<1>1. recorded \in Seq(DOMAIN snapshots) BY DEF ImportInv, ImportTypeOK
<1>2. NotImporting \in Importer /\ OnItsWay(NotImporting) BY IdleIsImporter
<1>3. importers' = [importers EXCEPT ![i] = NotImporting] /\ UNCHANGED <<source, snapshots, recorded>>
      /\ disturbed \subseteq disturbed' /\ (importers[i].pc = "copy" => importers[i].digest \in disturbed')
  BY DEF AcceptFails
<1> QED BY <1>1, <1>2, <1>3, ImporterMoves DEF NotImporting

\* MkdirAll makes an empty directory or leaves the one that is there.
LEMMA MkdirKeepsImportInv ==
    ASSUME ImportInv, NEW i \in Importers, AcceptMkdir(i)
    PROVE  ImportInv'
<1> DEFINE d == importers[i].digest
           new == [pc |-> "copy", digest |-> d, todo |-> {<< >>},
                   paths |-> importers[i].paths, edited |-> importers[i].edited]
<1> USE DEF ImportInv
<1>1. importers \in [Importers -> Importer] BY DEF ImportTypeOK
<1>2. importers' = [importers EXCEPT ![i] = new] BY <1>1, StepsTo DEF AcceptMkdir
<1>3. new \in Importer BY <1>1 DEF Importer, TreePaths
<1>4. importers' \in [Importers -> Importer] /\ importers'[i] = new
      /\ \A k \in Importers \ {i} : importers'[k] = importers[k]
  BY <1>1, <1>2, <1>3
<1>5. importers[i].pc = "mkdir" /\ UNCHANGED <<source, recorded, disturbed>> BY DEF AcceptMkdir
<1>6. DOMAIN snapshots' = DOMAIN snapshots \cup {d}
      /\ (\A e \in DOMAIN snapshots : snapshots'[e] = snapshots[e])
      /\ (d \notin DOMAIN snapshots => snapshots'[d] = << >>)
  BY DEF AcceptMkdir
<1>7. ImportTypeOK'
  <2>1. recorded \in Seq(DOMAIN snapshots') BY <1>6, SeqMonotonic DEF ImportTypeOK
  <2> QED BY <1>4, <1>5, <1>6, <2>1 DEF ImportTypeOK
<1>8. ReliedIsSeen' BY <1>4, <1>5 DEF ReliedIsSeen
<1>12. DigestsAreOnTheirWay' BY <1>4, <1>5 DEF DigestsAreOnTheirWay, OnItsWay
<1>9. CopiesAreSound' BY <1>5, <1>6 DEF CopiesAreSound
<1>10. CopyIsOnItsWay'
  <2>1. ASSUME NEW p \in DOMAIN d PROVE Reaches({<< >>}, p)
    <3>1. d \in Digests BY <1>1, <2>1 DEF Importer
    <3>2. p = << >> \/ \E t \in Trees : p \in DOMAIN t BY <2>1, <3>1 DEF Digests, TreePaths
    <3>3. Len(<< >>) = 0 OBVIOUS
    <3>4. Len(p) \in Nat BY <3>2, <3>3, TreesAssumption, LenProperties DEF IsTree
    <3> QED BY <3>4, SubSeqEmpty DEF Reaches
  <2>2. ASSUME NEW k \in Importers \ {i}, importers[k].pc = "copy", importers[k].digest \notin disturbed,
               NEW p \in DOMAIN importers[k].digest \ {<<GitName>>}
        PROVE  p \in DOMAIN snapshots'[importers[k].digest] \/ Reaches(importers[k].todo, p)
    BY <2>2, <1>6 DEF CopyIsOnItsWay, ImportTypeOK
  <2> SUFFICES ASSUME NEW k \in Importers, importers'[k].pc = "copy", importers'[k].digest \notin disturbed,
                      NEW p \in DOMAIN importers'[k].digest \ {<<GitName>>}
               PROVE  \/ p \in DOMAIN snapshots'[importers'[k].digest]
                      \/ Reaches(importers'[k].todo, p)
    BY <1>5 DEF CopyIsOnItsWay
  <2>3. CASE k = i BY <2>3, <1>4, <2>1
  <2>4. CASE k # i BY <2>4, <1>4, <2>2
  <2> QED BY <2>3, <2>4
<1>11. CopiesAreWhole'
  <2>1. ASSUME NEW e, ~Copying(e)' PROVE ~Copying(e) /\ e # d BY <2>1, <1>4, <1>5 DEF Copying
  <2> QED BY <1>5, <1>6, <2>1 DEF CopiesAreWhole
<1> QED BY <1>7, <1>8, <1>9, <1>10, <1>11, <1>12

\* A file that CopyTree writes is the one the digest tells of, and the copy
\* goes on until it has reached everything.
LEMMA CopyKeepsImportInv ==
    ASSUME ImportInv, NEW i \in Importers, AcceptCopy(i)
    PROVE  ImportInv'
<1> DEFINE d == importers[i].digest
           rest(p) == importers[i].todo \ {p}
           target(p) == CopyEntry(source, snapshots[d], p, rest(p)).target
           todo(p) == CopyEntry(source, snapshots[d], p, rest(p)).todo
<1>1. source \in Trees /\ importers \in [Importers -> Importer] /\ recorded \in Seq(DOMAIN snapshots)
      /\ d \in DOMAIN snapshots /\ importers[i].pc = "copy"
  BY DEF ImportInv, ImportTypeOK, AcceptCopy
<1>2. PICK p \in importers[i].todo :
        IF CopyEntryFails(source, p)
        THEN /\ importers' = [importers EXCEPT ![i] = NotImporting]
             /\ disturbed' = disturbed \cup {d} /\ UNCHANGED snapshots
        ELSE /\ Steps(i, "copy", todo(p))
             /\ snapshots' = [snapshots EXCEPT ![d] = target(p)] /\ UNCHANGED disturbed
  BY Zenon DEF AcceptCopy
<1>3. UNCHANGED <<source, recorded, budget>> BY DEF AcceptCopy
<1>4. CASE CopyEntryFails(source, p)
  <2>1. NotImporting \in Importer /\ OnItsWay(NotImporting) BY IdleIsImporter
  <2> QED BY <1>1, <1>2, <1>3, <1>4, <2>1, ImporterMoves DEF NotImporting
<1>5. CASE ~CopyEntryFails(source, p)
  <2> DEFINE new == [pc |-> "copy", digest |-> d, todo |-> todo(p),
                     paths |-> importers[i].paths, edited |-> importers[i].edited]
  <2>1. Writes(source, snapshots[d], p, target(p)) BY <1>1, <1>5, CopyEntryWrites
  <2>2. todo(p) \subseteq TreePaths
    BY <1>1 DEF Importer, TreePaths, CopyEntry, Children
  <2>3. importers' = [importers EXCEPT ![i] = new] BY <1>1, <1>2, <1>5, StepsTo
  <2>4. new \in Importer BY <1>1, <2>2 DEF Importer
  <2>5. snapshots' = [snapshots EXCEPT ![d] = target(p)] /\ UNCHANGED <<source, recorded, disturbed>>
    BY <1>2, <1>3, <1>5
  <2>6. ASSUME NEW r \in DOMAIN d \ {<<GitName>>}, d \notin disturbed, Reaches(importers[i].todo, r)
        PROVE  r \in DOMAIN target(p) \/ Reaches(todo(p), r)
    <3>1. HashTree(source) = d BY <1>1, <2>6 DEF ImportInv, ReliedIsSeen
    <3>2. r \in Hashed(source) BY <3>1, DigestIs
    <3> QED BY <1>1, <1>5, <2>6, <3>2, CopyEntryReaches
  <2> HIDE DEF target, todo, new
  <2>7. importers' \in [Importers -> Importer] /\ importers'[i] = new
        /\ \A k \in Importers \ {i} : importers'[k] = importers[k]
    BY <1>1, <2>3, <2>4
  <2>8. DOMAIN snapshots' = DOMAIN snapshots /\ snapshots'[d] = target(p)
        /\ \A e \in DOMAIN snapshots \ {d} : snapshots'[e] = snapshots[e]
    BY <1>1, <2>5
  <2>9. DOMAIN snapshots[d] \subseteq DOMAIN target(p) BY <2>1 DEF Writes
  <2>10. ImportTypeOK' BY <1>1, <2>1, <2>5, <2>7, <2>8 DEF ImportInv, ImportTypeOK, new, Writes
  <2>11. ReliedIsSeen'
    <3>1. new.pc = "copy" /\ new.digest = d BY DEF new
    <3> QED BY <1>1, <2>5, <2>7, <3>1 DEF ImportInv, ReliedIsSeen
  <2>15. DigestsAreOnTheirWay'
    BY <1>1, <2>5, <2>7 DEF ImportInv, DigestsAreOnTheirWay, OnItsWay, new
  <2>12. CopiesAreSound'
    <3> SUFFICES ASSUME target(p) # snapshots[d], d \notin disturbed, NEW q \in DOMAIN target(p)
                 PROVE  /\ q # <<GitName>> /\ (q \in Hashed(target(p)) <=> q \in DOMAIN d)
                        /\ (q \in DOMAIN d => target(p)[q].content = d[q])
      BY <1>1, <2>5, <2>8 DEF ImportInv, CopiesAreSound
    <3>1. DOMAIN d = Hashed(source) /\ \A r \in Hashed(source) : d[r] = source[r].content
      BY <1>1, DigestIs DEF ImportInv, ReliedIsSeen
    <3>2. /\ p \in DOMAIN source /\ p # <<GitName>>
          /\ DOMAIN target(p) = DOMAIN snapshots[d] \cup {p} /\ target(p)[p] = source[p]
          /\ \A r \in DOMAIN snapshots[d] \ {p} : target(p)[r] = snapshots[d][r]
      BY <2>1 DEF Writes
    <3>3. CASE q = p
      <4>1. p \in Hashed(target(p)) <=> p \in Hashed(source) BY <3>2 DEF Hashed
      <4> QED BY <3>1, <3>2, <3>3, <4>1
    <3>4. CASE q # p
      <4>1. q \in DOMAIN snapshots[d] /\ target(p)[q] = snapshots[d][q] BY <3>2, <3>4
      <4> QED BY <1>1, <3>2, <4>1 DEF ImportInv, CopiesAreSound, Hashed
    <3> QED BY <3>3, <3>4
  <2>13. CopyIsOnItsWay'
    <3>1. ASSUME NEW k \in Importers \ {i}, importers[k].pc = "copy", importers[k].digest \notin disturbed,
                 NEW r \in DOMAIN importers[k].digest \ {<<GitName>>}
          PROVE  r \in DOMAIN snapshots'[importers[k].digest] \/ Reaches(importers[k].todo, r)
      BY <3>1, <2>8, <2>9 DEF ImportInv, CopyIsOnItsWay, ImportTypeOK
    <3>2. ASSUME d \notin disturbed, NEW r \in DOMAIN d \ {<<GitName>>}
          PROVE  r \in DOMAIN target(p) \/ Reaches(todo(p), r)
      BY <3>2, <1>1, <2>6, <2>9 DEF ImportInv, CopyIsOnItsWay
    <3> QED BY <3>1, <3>2, <2>5, <2>7, <2>8 DEF CopyIsOnItsWay, new
  <2>14. CopiesAreWhole'
    <3>1. ASSUME NEW e, ~Copying(e)' PROVE ~Copying(e) /\ e # d BY <3>1, <1>1, <2>7 DEF Copying, new
    <3> QED BY <3>1, <2>5, <2>8 DEF ImportInv, CopiesAreWhole
  <2> QED BY <2>10, <2>11, <2>12, <2>13, <2>14, <2>15 DEF ImportInv
<1> QED BY <1>4, <1>5

\* An undisturbed snapshot that nobody copies to has exactly the content of
\* its digest, but for a .git that is a file.
LEMMA SnapshotHasDigest ==
    ASSUME ImportInv, NEW d \in DOMAIN snapshots \ disturbed, ~Copying(d)
    PROVE  HasDigest(snapshots[d], d)
<1>1. \A p \in DOMAIN snapshots[d] :
        /\ p # <<GitName>>
        /\ p \in Hashed(snapshots[d]) <=> p \in DOMAIN d
        /\ p \in DOMAIN d => snapshots[d][p].content = d[p]
  BY DEF ImportInv, CopiesAreSound
<1>2. DOMAIN d \ {<<GitName>>} \subseteq DOMAIN snapshots[d] BY DEF ImportInv, CopiesAreWhole
<1>3. Hashed(snapshots[d]) = DOMAIN d \ {<<GitName>>}
  <2>1. Hashed(snapshots[d]) \subseteq DOMAIN snapshots[d] BY DEF Hashed
  <2> QED BY <1>1, <1>2, <2>1
<1>4. \A p \in Hashed(snapshots[d]) : snapshots[d][p].content = d[p] BY <1>1, <1>2, <1>3
<1> QED BY <1>3, <1>4 DEF HasDigest, HashTree

\* Imports only add: disturbed digests stay so and jobs keep their revisions.
LEMMA ImportsOnlyAdd ==
    ASSUME SnapshotsNext
    PROVE  disturbed \subseteq disturbed' /\ (recorded' = recorded \/ \E d : recorded' = Append(recorded, d))
<1>1. ASSUME NEW t \in Trees, Edit(t) PROVE disturbed \subseteq disturbed' /\ recorded' = recorded
  BY <1>1 DEF Edit
<1>2. ASSUME NEW i \in Importers, PreviewLocal(i) \/ AcceptFails(i)
      PROVE  disturbed \subseteq disturbed' /\ recorded' = recorded
  BY <1>2 DEF PreviewLocal, PreviewBegin, PreviewWalk, PreviewRead, PreviewDigested, AcceptFails
<1>3. ASSUME NEW i \in Importers, AcceptStat(i) \/ AcceptMkdir(i) \/ AcceptCopied(i)
      PROVE  disturbed \subseteq disturbed' /\ recorded' = recorded
  BY <1>3 DEF AcceptStat, AcceptMkdir, AcceptCopied
<1>4. ASSUME NEW i \in Importers, AcceptCopy(i) PROVE disturbed \subseteq disturbed' /\ recorded' = recorded
  BY <1>4 DEF AcceptCopy
<1>5. ASSUME NEW i \in Importers, AcceptRecord(i)
      PROVE  disturbed' = disturbed /\ (recorded' = recorded \/ recorded' = Append(recorded, importers[i].digest))
  BY <1>5 DEF AcceptRecord
<1> QED BY <1>1, <1>2, <1>3, <1>4, <1>5 DEF SnapshotsNext, AcceptLocal

\* Every step of an import keeps its part of the invariant.
LEMMA SnapshotsNextKeepsImportInv ==
    ASSUME ImportInv, SnapshotsNext
    PROVE  ImportInv'
<1>1. CASE \E t \in Trees : Edit(t) BY <1>1, EditKeepsImportInv
<1>2. CASE \E i \in Importers : PreviewLocal(i) 
  BY <1>2, BeginKeepsImportInv, WalkKeepsImportInv, ReadKeepsImportInv, DigestedKeepsImportInv
     DEF PreviewLocal
<1>3. CASE \E i \in Importers : AcceptFails(i) BY <1>3, FailureKeepsImportInv
<1>4. CASE \E i \in Importers : AcceptLocal(i)
  BY <1>4, StatKeepsImportInv, MkdirKeepsImportInv, CopyKeepsImportInv, CopiedKeepsImportInv,
     RecordKeepsImportInv DEF AcceptLocal
<1> QED BY <1>1, <1>2, <1>3, <1>4 DEF SnapshotsNext

\* Builds and their faults leave the imports alone.
LEMMA BuildsKeepImportInv ==
    ASSUME ImportInv, UNCHANGED <<source, snapshots, importers, recorded, disturbed>>
    PROVE  ImportInv'
BY DEF ImportInv, ImportTypeOK, DigestsAreOnTheirWay, OnItsWay, ReliedIsSeen, CopiesAreSound, CopyIsOnItsWay, CopiesAreWhole, Copying

-----------------------------------------------------------------------------
(* Builds keep theirs. *)

\* A job is one of a started build exactly when it has left "pending".
LEMMA StatusIs ==
    ASSUME BuildsTypeOK, NEW j
    PROVE  /\ StatusOf(j) = "pending" <=> j \notin DOMAIN status
           /\ j \in DOMAIN status => StatusOf(j) = status[j]
BY DEF StatusOf, BuildsTypeOK

\* An import appends jobs; what has started keeps its revision.
LEMMA ImportsKeepBuildsInv ==
    ASSUME BuildsInv, recorded \in Seq(DOMAIN snapshots), SnapshotsNext, UNCHANGED buildVars
    PROVE  BuildsInv'
<1> USE DEF buildVars, BuildsInv
<1>1. disturbed \subseteq disturbed' /\ Jobs \subseteq Jobs' /\ \A j \in Jobs : recorded'[j] = recorded[j]
  BY ImportsOnlyAdd, AppendProperties DEF Jobs
<1>2. BuildsTypeOK' BY <1>1 DEF BuildsTypeOK, Output, FileName
<1>3. BuiltFromDigest'
  <2>1. DOMAIN container \subseteq Jobs BY DEF BuildsTypeOK
  <2> QED BY <1>1, <2>1 DEF BuiltFromDigest, HasDigest
<1>4. ServedIsEnded' BY DEF ServedIsEnded, Ended
<1>5. PublisherInv' BY DEF PublisherInv
<1>6. EntriesInv' BY DEF EntriesInv
<1>7. PublishedIsComplete' BY DEF PublishedIsComplete, Output, FileName
<1> QED BY <1>2, <1>3, <1>4, <1>5, <1>6, <1>7

\* A build that starts while nobody copies its snapshot has the tree of its
\* digest.
LEMMA StartKeepsBuildsInv ==
    ASSUME ImportInv, BuildsInv, UNCHANGED importVars, NEW j \in Jobs, StartBuild(j)
    PROVE  BuildsInv'
<1> USE DEF BuildsInv, importVars
<1> DEFINE made == [pc |-> "build", tree |-> snapshots[recorded[j]], early |-> Copying(recorded[j])]
<1>1. j \notin DOMAIN status BY StatusIs DEF StartBuild
<1>2. /\ DOMAIN status' = DOMAIN status \cup {j} /\ status'[j] = "running"
      /\ \A k \in DOMAIN status : status'[k] = status[k]
  BY <1>1 DEF StartBuild, With
<1>3. /\ DOMAIN container' = DOMAIN status \cup {j} /\ container'[j] = made
      /\ \A k \in DOMAIN status : container'[k] = container[k]
  BY <1>1 DEF StartBuild, With, BuildsTypeOK
<1>4. /\ DOMAIN staging' = DOMAIN status \cup {j} /\ staging'[j] = << >>
      /\ \A k \in DOMAIN status : staging'[k] = staging[k]
  BY <1>1 DEF StartBuild, With, BuildsTypeOK
<1>5. UNCHANGED <<repo, entries, artifacts, publisher, list>> BY DEF StartBuild
<1>6. BuildsTypeOK'
  BY <1>1, <1>2, <1>3, <1>4 DEF BuildsTypeOK, Output, FileName, Jobs
<1>7. BuiltFromDigest'
  <2>1. recorded[j] \in DOMAIN snapshots BY DEF ImportInv, ImportTypeOK, Jobs
  <2>2. recorded[j] \in disturbed \/ Copying(recorded[j]) \/ HasDigest(snapshots[recorded[j]], recorded[j])
    BY <2>1, SnapshotHasDigest
  <2> QED BY <1>1, <1>3, <2>2 DEF BuiltFromDigest, BuildsTypeOK, HasDigest
<1>8. ServedIsEnded' BY <1>1, <1>2, <1>3, <1>5 DEF ServedIsEnded, Ended
<1>9. PublisherInv' BY <1>1, <1>2, <1>4, <1>5 DEF PublisherInv
<1>10. EntriesInv' BY <1>5 DEF EntriesInv
<1>11. PublishedIsComplete' BY <1>1, <1>2, <1>3, <1>5 DEF PublishedIsComplete, Output, FileName
<1> QED BY <1>6, <1>7, <1>8, <1>9, <1>10, <1>11

\* A container writes only to the staging directory of its job, and not once
\* it has exited.
LEMMA WriteKeepsBuildsInv ==
    ASSUME BuildsInv, UNCHANGED importVars, NEW j \in Jobs, ContainerWrites(j)
    PROVE  BuildsInv'
<1> USE DEF BuildsInv, importVars
<1>1. j \in DOMAIN status /\ container[j].pc = "build"
      /\ UNCHANGED <<status, container, repo, entries, artifacts, publisher, list>>
  BY DEF ContainerWrites, BuildsTypeOK
<1>2. PICK f \in Output(j) \ DOMAIN staging[j] :
        staging' = [staging EXCEPT ![j] = With(@, f, [job |-> j, tree |-> container[j].tree])]
  BY DEF ContainerWrites
<1>3. /\ DOMAIN staging' = DOMAIN status
      /\ DOMAIN staging'[j] = DOMAIN staging[j] \cup {f}
      /\ staging'[j][f] = [job |-> j, tree |-> container[j].tree]
      /\ \A g \in DOMAIN staging[j] : staging'[j][g] = staging[j][g]
      /\ \A k \in DOMAIN status \ {j} : staging'[k] = staging[k]
  BY <1>1, <1>2 DEF With, BuildsTypeOK
<1>4. BuildsTypeOK' BY <1>1, <1>2, <1>3 DEF BuildsTypeOK, Output, FileName, Jobs
<1>5. PublisherInv' BY <1>1, <1>3 DEF PublisherInv, BuildsTypeOK
<1>6. BuiltFromDigest' BY <1>1 DEF BuiltFromDigest, HasDigest
<1>7. ServedIsEnded' BY <1>1 DEF ServedIsEnded, Ended
<1>8. EntriesInv' BY <1>1 DEF EntriesInv
<1>9. PublishedIsComplete' BY <1>1 DEF PublishedIsComplete, Output, FileName
<1> QED BY <1>4, <1>5, <1>6, <1>7, <1>8, <1>9

\* A container exits when all its packages are written.
LEMMA ExitKeepsBuildsInv ==
    ASSUME BuildsInv, UNCHANGED importVars, NEW j \in Jobs, ContainerExits(j)
    PROVE  BuildsInv'
<1> USE DEF BuildsInv, importVars
<1>1. j \in DOMAIN status /\ container[j].pc = "build" /\ Output(j) \subseteq DOMAIN staging[j]
      /\ UNCHANGED <<status, staging, repo, entries, artifacts, publisher, list>>
  BY DEF ContainerExits, BuildsTypeOK
<1>2. /\ DOMAIN container' = DOMAIN status /\ DOMAIN container = DOMAIN status
      /\ container'[j].pc = "exited" /\ DOMAIN container'[j] = {"pc", "tree", "early"}
      /\ container'[j].tree = container[j].tree /\ container'[j].early = container[j].early
      /\ \A k \in DOMAIN status \ {j} : container'[k] = container[k]
  BY <1>1 DEF ContainerExits, BuildsTypeOK
<1>3. \A k \in DOMAIN status : Output(k)' = Output(k) BY <1>2 DEF Output, FileName, BuildsTypeOK
<1>4. BuildsTypeOK'
  <2> SUFFICES ASSUME NEW k \in DOMAIN status
               PROVE  /\ status[k] \in {"running", "built", "failed", "published"}
                      /\ DOMAIN container'[k] = {"pc", "tree", "early"}
                      /\ status[k] \in {"built", "published"} => container'[k].pc = "exited"
                      /\ DOMAIN staging[k] \subseteq Output(k)
                      /\ container'[k].pc = "exited" => DOMAIN staging[k] = Output(k)
                      /\ \A f \in DOMAIN staging[k] :
                            staging[k][f] = [job |-> k, tree |-> container'[k].tree]
    BY <1>1, <1>2, <1>3 DEF BuildsTypeOK, Jobs
  <2>1. CASE k = j
    <3>1. /\ status[j] \in {"running", "built", "failed", "published"}
          /\ DOMAIN staging[j] \subseteq Output(j)
          /\ \A f \in DOMAIN staging[j] : staging[j][f] = [job |-> j, tree |-> container[j].tree]
      BY <1>1 DEF BuildsTypeOK
    <3>2. DOMAIN staging[j] = Output(j) BY <1>1, <3>1
    <3> HIDE DEF BuildsInv
    <3> QED BY <2>1, <1>2, <3>1, <3>2
  <2>2. CASE k # j BY <2>2, <1>2 DEF BuildsTypeOK
  <2> QED BY <2>1, <2>2
<1>5. BuiltFromDigest' BY <1>2 DEF BuiltFromDigest, HasDigest
<1>6. ServedIsEnded' BY <1>1, <1>2 DEF ServedIsEnded, Ended, BuildsTypeOK
<1>7. PublisherInv' BY <1>1 DEF PublisherInv
<1>8. EntriesInv' BY <1>1 DEF EntriesInv
<1>9. PublishedIsComplete' BY <1>1, <1>2, <1>3 DEF PublishedIsComplete, BuildsTypeOK
<1> QED BY <1>4, <1>5, <1>6, <1>7, <1>8, <1>9

\* The steps that set the status of a job and touch no file: the new status
\* fits what its container has done, and is not "running".
LEMMA StatusKeepsBuildsInv ==
    ASSUME BuildsInv, UNCHANGED <<source, snapshots, importers, recorded, disturbed>>,
           NEW j \in DOMAIN status, NEW s \in {"built", "failed", "published"},
           DOMAIN status' = DOMAIN status, status'[j] = s,
           \A k \in DOMAIN status \ {j} : status'[k] = status[k],
           s \in {"built", "published"} => container[j].pc = "exited",
           s = "published" => \A f \in Output(j) : <<j, f>> \in artifacts,
           publisher' = NotPublishing \/ (publisher' = publisher /\ status[j] # "built"),
           list' = list /\ j \notin list,
           UNCHANGED <<container, staging, repo, entries, artifacts>>
    PROVE  BuildsInv'
<1> USE DEF BuildsInv
<1>1. DOMAIN status' = DOMAIN status /\ status'[j] = s /\ \A k \in DOMAIN status \ {j} : status'[k] = status[k]
  OBVIOUS
<1>2. BuildsTypeOK' BY <1>1 DEF BuildsTypeOK, Jobs, Output, FileName
<1>3. BuiltFromDigest' BY DEF BuiltFromDigest, HasDigest
<1>4. ServedIsEnded' BY <1>1 DEF ServedIsEnded, Ended
<1>5. PublisherInv'
  <2>1. CASE publisher' = NotPublishing BY <2>1 DEF PublisherInv, NotPublishing
  <2>2. CASE publisher' = publisher /\ status[j] # "built" BY <2>2, <1>1 DEF PublisherInv
  <2> QED BY <2>1, <2>2
<1>6. EntriesInv' BY DEF EntriesInv
<1>7. PublishedIsComplete' BY <1>1 DEF PublishedIsComplete, Output, FileName
<1> QED BY <1>2, <1>3, <1>4, <1>5, <1>6, <1>7

\* A job that is running is not the publisher's.
LEMMA RunnerKeepsBuildsInv ==
    ASSUME BuildsInv, UNCHANGED <<source, snapshots, importers, recorded, disturbed>>,
           NEW j \in Jobs, MarkBuilt(j) \/ TimesOut(j)
    PROVE  BuildsInv'
<1>1. j \in DOMAIN status /\ status[j] = "running"
  BY StatusIs DEF MarkBuilt, TimesOut, BuildsInv, StatusOf
<1>4. j \notin list BY <1>1 DEF BuildsInv, PublisherInv
<1>2. CASE MarkBuilt(j) BY <1>1, <1>2, <1>4, StatusKeepsBuildsInv DEF MarkBuilt
<1>3. CASE TimesOut(j) BY <1>1, <1>3, <1>4, StatusKeepsBuildsInv DEF TimesOut
<1> QED BY <1>2, <1>3

\* What is listed of a built job is what its container has made.
LEMMA BeginKeepsBuildsInv ==
    ASSUME BuildsInv, UNCHANGED importVars, NEW j \in Jobs, PublishBegin(j)
    PROVE  BuildsInv'
<1> USE DEF BuildsInv, importVars
<1>1. UNCHANGED <<status, container, staging, repo, entries, artifacts>> BY DEF PublishBegin
<1>2. j \in DOMAIN status /\ status[j] = "built" /\ list' = list \ {j}
  BY DEF PublishBegin, PublisherInv
<1>3. publisher' = [pc |-> "copy", job |-> j, todo |-> DOMAIN staging[j], done |-> {}]
  BY <1>2 DEF PublishBegin, StagedBy, BuildsTypeOK
<1>4. BuildsTypeOK' BY <1>1 DEF BuildsTypeOK, Jobs, Output, FileName
<1>5. BuiltFromDigest' BY <1>1 DEF BuiltFromDigest, HasDigest
<1>6. ServedIsEnded' BY <1>1 DEF ServedIsEnded, Ended
<1>7. PublisherInv' BY <1>1, <1>2, <1>3 DEF PublisherInv
<1>8. EntriesInv' BY <1>1 DEF EntriesInv
<1>9. PublishedIsComplete' BY <1>1 DEF PublishedIsComplete, Output, FileName
<1> QED BY <1>4, <1>5, <1>6, <1>7, <1>8, <1>9

\* What RunPublisher lists is built.
LEMMA ListKeepsBuildsInv ==
    ASSUME BuildsInv, UNCHANGED importVars, PublishList
    PROVE  BuildsInv'
<1> USE DEF BuildsInv, importVars
<1>1. UNCHANGED <<status, container, staging, repo, entries, artifacts, publisher>>
      /\ publisher = NotPublishing /\ list' = {j \in DOMAIN status : status[j] = "built"}
  BY DEF PublishList
<1>2. BuildsTypeOK' BY <1>1 DEF BuildsTypeOK, Jobs, Output, FileName
<1>3. BuiltFromDigest' BY <1>1 DEF BuiltFromDigest, HasDigest
<1>4. ServedIsEnded' BY <1>1 DEF ServedIsEnded, Ended
<1>5. PublisherInv' BY <1>1 DEF PublisherInv, NotPublishing
<1>6. EntriesInv' BY <1>1 DEF EntriesInv
<1>7. PublishedIsComplete' BY <1>1 DEF PublishedIsComplete, Output, FileName
<1> QED BY <1>2, <1>3, <1>4, <1>5, <1>6, <1>7

\* publishJob copies and records a file of a container that has exited.
LEMMA FileKeepsBuildsInv ==
    ASSUME BuildsInv, UNCHANGED importVars, PublishFile
    PROVE  BuildsInv'
<1> USE DEF BuildsInv, importVars
<1> DEFINE j == publisher.job
<1>1. publisher.pc = "copy" /\ UNCHANGED <<status, container, staging, entries, list>>
  BY DEF PublishFile
<1>2. j \in DOMAIN status /\ status[j] = "built" /\ container[j].pc = "exited"
  BY <1>1 DEF PublisherInv, BuildsTypeOK
<1>3. PICK f \in publisher.todo :
        /\ repo' = With(repo, f, StagedBy(j)[f])
        /\ artifacts' = artifacts \cup {<<j, f>>}
        /\ publisher' = [publisher EXCEPT !.todo = @ \ {f}, !.done = @ \cup {f}]
  BY Zenon DEF PublishFile
<1>4. f \in DOMAIN staging[j] BY <1>1, <1>3 DEF PublisherInv
<1>5. DOMAIN repo' = DOMAIN repo \cup {f} /\ repo'[f] = [job |-> j, tree |-> container[j].tree]
      /\ \A g \in DOMAIN repo \ {f} : repo'[g] = repo[g]
  BY <1>2, <1>3, <1>4 DEF With, StagedBy, BuildsTypeOK
<1>6. BuildsTypeOK' BY <1>1 DEF BuildsTypeOK, Jobs, Output, FileName
<1>7. BuiltFromDigest' BY <1>1 DEF BuiltFromDigest, HasDigest
<1>8. ServedIsEnded' BY <1>1, <1>2, <1>3, <1>5 DEF ServedIsEnded, Ended
<1>9. PublisherInv'
  <2>1. publisher'.pc = "copy" /\ publisher'.job = j /\ publisher'.todo = publisher.todo \ {f}
        /\ publisher'.done = publisher.done \cup {f}
    BY <1>1, <1>3 DEF PublisherInv, NotPublishing
  <2> QED BY <1>1, <1>3, <1>5, <2>1 DEF PublisherInv
<1>10. EntriesInv' BY <1>1, <1>5 DEF EntriesInv
<1>11. PublishedIsComplete' BY <1>1, <1>3 DEF PublishedIsComplete, Output, FileName
<1> QED BY <1>6, <1>7, <1>8, <1>9, <1>10, <1>11

\* repo-add -R deletes the files of the entries it replaces, never one that
\* another entry names.
LEMMA RepoAddKeepsBuildsInv ==
    ASSUME BuildsInv, UNCHANGED importVars, RepoAdd
    PROVE  BuildsInv'
<1> USE DEF BuildsInv, importVars
<1> DEFINE j == publisher.job
           added == {f[1] : f \in publisher.done}
           old == {entries[p] : p \in added \cap DOMAIN entries} \ publisher.done
           chosen(p) == CHOOSE f \in publisher.done : f[1] = p
<1>1. publisher.pc = "copy" /\ publisher.todo = {} /\ UNCHANGED <<status, container, staging, artifacts, list>>
  BY DEF RepoAdd
<1>2. /\ entries' = [p \in DOMAIN entries \cup added |-> IF p \in added THEN chosen(p) ELSE entries[p]]
      /\ repo' = [f \in DOMAIN repo \ old |-> repo[f]]
      /\ publisher' = [publisher EXCEPT !.pc = "mark"]
  BY DEF RepoAdd
<1>3. j \in DOMAIN status /\ publisher.done = DOMAIN staging[j] /\ publisher.done \subseteq DOMAIN repo
  BY <1>1 DEF PublisherInv
<1>4. added \subseteq Parts
  <2>1. publisher.done \subseteq Output(j) BY <1>3 DEF BuildsTypeOK
  <2> QED BY <2>1 DEF Output, FileName
<1>5. \A p \in added : chosen(p) \in publisher.done /\ chosen(p)[1] = p OBVIOUS
<1>6. BuildsTypeOK' BY <1>1 DEF BuildsTypeOK, Jobs, Output, FileName
<1>7. BuiltFromDigest' BY <1>1 DEF BuiltFromDigest, HasDigest
<1>8. ServedIsEnded'
  <2>1. DOMAIN repo' \subseteq DOMAIN repo /\ \A f \in DOMAIN repo' : repo'[f] = repo[f] BY <1>2
  <2> QED BY <1>1, <2>1 DEF ServedIsEnded, Ended
<1>9. PublisherInv'
  <2>1. publisher'.pc = "mark" /\ publisher'.job = j /\ publisher'.todo = {}
        /\ publisher'.done = publisher.done
    BY <1>1, <1>2 DEF PublisherInv, NotPublishing
  <2> QED BY <1>1, <1>3, <2>1 DEF PublisherInv
<1>10. EntriesInv'
  <2>1. DOMAIN entries' = DOMAIN entries \cup added /\ DOMAIN repo' = DOMAIN repo \ old BY <1>2
  <2> SUFFICES ASSUME NEW p \in DOMAIN entries'
               PROVE  p \in Parts /\ entries'[p][1] = p /\ entries'[p] \in DOMAIN repo'
    BY Zenon DEF EntriesInv
  <2>2. CASE p \in added
    <3>1. entries'[p] = chosen(p) BY <1>2, <2>2
    <3> QED BY <1>3, <1>4, <1>5, <2>2, <2>1, <3>1
  <2>3. CASE p \notin added
    <3>1. entries'[p] = entries[p] /\ p \in DOMAIN entries BY <1>2, <2>3, <2>1
    <3>2. \A q \in added \cap DOMAIN entries : entries[q][1] = q BY DEF EntriesInv
    <3> QED BY <2>3, <2>1, <3>1, <3>2 DEF EntriesInv
  <2> QED BY <2>2, <2>3
<1>11. PublishedIsComplete' BY <1>1 DEF PublishedIsComplete, Output, FileName
<1> QED BY <1>6, <1>7, <1>8, <1>9, <1>10, <1>11

\* Only a job with all its files recorded is marked published.
LEMMA EndKeepsBuildsInv ==
    ASSUME BuildsInv, UNCHANGED importVars, PublishEnd
    PROVE  BuildsInv'
<1> DEFINE j == publisher.job
<1>1. publisher.pc = "mark" /\ UNCHANGED <<container, staging, repo, entries, artifacts, list>>
      /\ status' = [status EXCEPT ![j] = "published"] /\ publisher' = NotPublishing
  BY DEF PublishEnd
<1>2. j \in DOMAIN status /\ status[j] = "built" /\ container[j].pc = "exited"
      /\ Output(j) = publisher.done /\ j \notin list
  BY <1>1 DEF BuildsInv, PublisherInv, BuildsTypeOK
<1>3. \A f \in Output(j) : <<j, f>> \in artifacts BY <1>1, <1>2 DEF BuildsInv, PublisherInv
<1> QED BY <1>1, <1>2, <1>3, StatusKeepsBuildsInv DEF importVars

\* A publication that fails leaves the job failed or built.
LEMMA FailKeepsBuildsInv ==
    ASSUME BuildsInv, UNCHANGED <<source, snapshots, importers, recorded, disturbed>>, PublishFails
    PROVE  BuildsInv'
<1> DEFINE j == publisher.job
<1>1. publisher.pc # "idle" /\ UNCHANGED <<container, staging, repo, entries, artifacts, list>>
      /\ publisher' = NotPublishing /\ status' \in {status, [status EXCEPT ![j] = "failed"]}
  BY DEF PublishFails, BuildsInv, PublisherInv
<1>2. j \in DOMAIN status /\ status[j] = "built" /\ container[j].pc = "exited" /\ j \notin list
  BY <1>1 DEF BuildsInv, PublisherInv, BuildsTypeOK
<1>3. CASE status' = [status EXCEPT ![j] = "failed"] BY <1>1, <1>2, <1>3, StatusKeepsBuildsInv
<1>4. CASE status' = status BY <1>1, <1>2, <1>4, StatusKeepsBuildsInv
<1> QED BY <1>1, <1>3, <1>4

\* A publisher that stops forgets its list.
LEMMA StopKeepsBuildsInv ==
    ASSUME BuildsInv, UNCHANGED <<source, snapshots, importers, recorded, disturbed>>, PublisherStops
    PROVE  BuildsInv'
<1> USE DEF BuildsInv
<1>1. UNCHANGED <<status, container, staging, repo, entries, artifacts>>
      /\ publisher' = NotPublishing /\ list' = {}
  BY DEF PublisherStops
<1>2. BuildsTypeOK' BY <1>1 DEF BuildsTypeOK, Jobs, Output, FileName
<1>3. BuiltFromDigest' BY <1>1 DEF BuiltFromDigest, HasDigest
<1>4. ServedIsEnded' BY <1>1 DEF ServedIsEnded, Ended
<1>5. PublisherInv' BY <1>1 DEF PublisherInv, NotPublishing
<1>6. EntriesInv' BY <1>1 DEF EntriesInv
<1>7. PublishedIsComplete' BY <1>1 DEF PublishedIsComplete, Output, FileName
<1> QED BY <1>2, <1>3, <1>4, <1>5, <1>6, <1>7

-----------------------------------------------------------------------------
(* The invariant and what follows from it. *)

\* Nothing is imported and nothing built at first.
LEMMA InitFilesInv == FilesInit => FilesInv
<1> SUFFICES ASSUME FilesInit PROVE FilesInv OBVIOUS
<1> USE DEF FilesInit, SnapshotsInit, BuildsInit
<1>1. ImportTypeOK /\ ReliedIsSeen
  BY IdleIsImporter DEF ImportTypeOK, ReliedIsSeen, NotImporting
<1>6. DigestsAreOnTheirWay BY IdleIsImporter DEF DigestsAreOnTheirWay
<1>2. CopiesAreSound /\ CopyIsOnItsWay /\ CopiesAreWhole
  BY DEF CopiesAreSound, CopyIsOnItsWay, CopiesAreWhole, NotImporting
<1>3. BuildsTypeOK /\ BuiltFromDigest BY DEF BuildsTypeOK, BuiltFromDigest
<1>4. ServedIsEnded /\ PublisherInv BY DEF ServedIsEnded, PublisherInv, NotPublishing
<1>5. EntriesInv /\ PublishedIsComplete BY DEF EntriesInv, PublishedIsComplete
<1> QED BY <1>1, <1>2, <1>3, <1>4, <1>5, <1>6 DEF FilesInv, ImportInv, BuildsInv

\* Every step keeps the invariant.
LEMMA NextFilesInv == FilesInv /\ [FilesNext]_<<importVars, buildVars>> => FilesInv'
<1> SUFFICES ASSUME FilesInv, [FilesNext]_<<importVars, buildVars>> PROVE FilesInv'
  OBVIOUS
<1> USE DEF FilesInv
<1>1. CASE SnapshotsNext /\ UNCHANGED buildVars
  <2>1. recorded \in Seq(DOMAIN snapshots) BY DEF ImportInv, ImportTypeOK
  <2> QED BY <1>1, <2>1, SnapshotsNextKeepsImportInv, ImportsKeepBuildsInv
<1>2. CASE BuildsStep /\ UNCHANGED importVars
  <2>1. BuildsInv /\ ImportInv /\ UNCHANGED importVars BY <1>2
  <2>2. ImportInv' BY <2>1, BuildsKeepImportInv DEF importVars
  <2>3. ASSUME NEW j \in Jobs, StartBuild(j) \/ ContainerWrites(j) \/ ContainerExits(j) PROVE BuildsInv'
    BY <2>1, <2>3, StartKeepsBuildsInv, WriteKeepsBuildsInv, ExitKeepsBuildsInv, Zenon
  <2>4. ASSUME NEW j \in Jobs, MarkBuilt(j) PROVE BuildsInv'
    BY <2>1, <2>4, RunnerKeepsBuildsInv DEF importVars
  <2>5. ASSUME NEW j \in Jobs, PublishBegin(j) PROVE BuildsInv'
    BY <2>1, <2>5, BeginKeepsBuildsInv, Zenon
  <2>9. CASE PublishList BY <2>1, <2>2, <2>9, ListKeepsBuildsInv
  <2>6. CASE PublishFile BY <2>1, <2>2, <2>6, FileKeepsBuildsInv
  <2>7. CASE RepoAdd BY <2>1, <2>2, <2>7, RepoAddKeepsBuildsInv
  <2>8. CASE PublishEnd BY <2>1, <2>2, <2>8, EndKeepsBuildsInv
  <2> QED BY <1>2, <2>2, <2>3, <2>4, <2>5, <2>6, <2>7, <2>8, <2>9, Zenon DEF BuildsStep
<1>3. CASE BuildsFault /\ UNCHANGED <<source, snapshots, importers, recorded, disturbed>>
  <2>1. ImportInv' BY <1>3, BuildsKeepImportInv
  <2>2. BuildsInv' BY <1>3, RunnerKeepsBuildsInv, FailKeepsBuildsInv, StopKeepsBuildsInv
       DEF BuildsFault
  <2> QED BY <2>1, <2>2
<1>4. CASE UNCHANGED <<importVars, buildVars>>
  <2>1. ImportInv' BY <1>4, BuildsKeepImportInv DEF importVars
  <2>2. BuildsInv'
    <3> USE <1>4 DEF importVars, buildVars, BuildsInv
    <3>1. BuildsTypeOK' BY DEF BuildsTypeOK, Output, FileName, Jobs
    <3>2. BuiltFromDigest' BY DEF BuiltFromDigest, HasDigest
    <3>3. ServedIsEnded' BY DEF ServedIsEnded, Ended
    <3>4. PublisherInv' /\ EntriesInv' BY DEF PublisherInv, EntriesInv
    <3>5. PublishedIsComplete' BY DEF PublishedIsComplete, Output, FileName
    <3> QED BY <3>1, <3>2, <3>3, <3>4, <3>5
  <2> QED BY <2>1, <2>2
<1> QED BY <1>1, <1>2, <1>3, <1>4 DEF FilesNext

\* The inductive invariant holds: what is copied has the content of its digest,
\* what is built, published and listed follows from it.
THEOREM FilesAreSound == FilesSpec => []FilesInv
BY InitFilesInv, NextFilesInv, PTL DEF FilesSpec

\* The directories, rows and entries hold what their columns and names say.
THEOREM FilesTypes == FilesSpec => []FilesTypeOK
<1>1. FilesInv => FilesTypeOK
  <2> SUFFICES ASSUME FilesInv PROVE FilesTypeOK OBVIOUS
  <2> USE DEF FilesInv, ImportInv, BuildsInv
  <2>1. /\ source \in Trees
        /\ \A d \in DOMAIN snapshots : \A p \in DOMAIN snapshots[d] :
            snapshots[d][p].kind \in {"file", "dir"}
        /\ \A i \in Importers : importers[i].pc \in {"idle", "digest", "stat", "mkdir", "copy", "record"}
    BY DEF ImportTypeOK, Importer
  <2>2. recorded \in Seq(DOMAIN snapshots) /\ ToSet(recorded) \subseteq DOMAIN snapshots
    BY DEF ImportTypeOK, ToSet
  <2>3. \A j \in DOMAIN status : status[j] \in {"running", "built", "failed", "published"}
    BY DEF BuildsTypeOK
  <2>4. publisher.pc \in {"idle", "copy", "mark"} /\ publisher.job \in 0 .. Len(recorded)
    <3>1. CASE publisher = NotPublishing BY <2>2, <3>1 DEF NotPublishing
    <3>2. CASE publisher.pc \in {"copy", "mark"}
      <4>1. publisher.job \in Jobs BY <3>2 DEF PublisherInv, BuildsTypeOK
      <4> QED BY <2>2, <3>2, <4>1 DEF Jobs
    <3> QED BY <3>1, <3>2 DEF PublisherInv
  <2>5. DOMAIN entries \subseteq Parts BY DEF EntriesInv
  <2> QED BY <2>1, <2>2, <2>3, <2>4, <2>5 DEF FilesTypeOK
<1> QED BY <1>1, FilesAreSound, PTL

\* AcceptLocal and CopyTree: a recorded snapshot nothing disturbed has exactly
\* the content whose digest is its name.
THEOREM SnapshotsMatch == FilesSpec => []SnapshotMatchesDigest
<1>1. FilesInv => SnapshotMatchesDigest
  <2> SUFFICES ASSUME FilesInv, NEW d \in ToSet(recorded) \ disturbed, ~Copying(d)
               PROVE  HasDigest(snapshots[d], d)
    BY DEF SnapshotMatchesDigest, HasDigest
  <2>1. d \in DOMAIN snapshots BY DEF FilesInv, ImportInv, ImportTypeOK, ToSet
  <2> QED BY <2>1, SnapshotHasDigest DEF FilesInv
<1> QED BY <1>1, FilesAreSound, PTL

\* publishJob: a published job's container had exited, and every package it
\* made is recorded.
THEOREM PublishedAreComplete == FilesSpec => []PublishedIsComplete
<1>1. FilesInv => PublishedIsComplete BY DEF FilesInv, BuildsInv
<1> QED BY <1>1, FilesAreSound, PTL

\* buildJob and publishJob: no file of a build that was given up while its
\* container ran is served or recorded.
THEOREM GivenUpStaysUnserved == FilesSpec => []GivenUpIsNotServed
<1>1. FilesInv => GivenUpIsNotServed
  BY DEF FilesInv, BuildsInv, ServedIsEnded, Ended, GivenUpIsNotServed
<1> QED BY <1>1, FilesAreSound, PTL

\* repo-add and publishJob: every listed package is there and was built from
\* the content of its digest, or from a snapshot that was disturbed or unfinished.
THEOREM ServedFromDigest == FilesSpec => []ServedIsFromItsDigest
<1>1. FilesInv => ServedIsFromItsDigest
  <2> SUFFICES ASSUME FilesInv, NEW p \in DOMAIN entries
               PROVE  /\ entries[p] \in DOMAIN repo
                      /\ LET made == repo[entries[p]] d == recorded[made.job]
                         IN  d \in disturbed \/ container[made.job].early \/ HasDigest(made.tree, d)
    BY DEF ServedIsFromItsDigest, HasDigest
  <2> DEFINE j == repo[entries[p]].job
  <2>1. entries[p] \in DOMAIN repo BY DEF FilesInv, BuildsInv, EntriesInv
  <2>2. j \in DOMAIN container /\ repo[entries[p]].tree = container[j].tree
    BY <2>1 DEF FilesInv, BuildsInv, ServedIsEnded, Ended, BuildsTypeOK
  <2> QED BY <2>1, <2>2 DEF FilesInv, BuildsInv, BuiltFromDigest
<1> QED BY <1>1, FilesAreSound, PTL
=============================================================================
