---------------------------- MODULE LibraryProofs ----------------------------
(***************************************************************************)
(* What Library promises of the host path a container is given, the files  *)
(* an updater is given and the CPU limit of a build, for every input.      *)
(***************************************************************************)
EXTENDS Library, SequenceTheorems, FiniteSetTheorems, NaturalsInduction, WellFoundedInduction, TLAPS

-----------------------------------------------------------------------------
(* Host paths. *)

Clear(path) == path \in Seq(STRING \ {Nowhere[1]}) /\ Clean(path) = path
Mount == [dest : Seq(STRING), source : Seq(STRING)]

\* A set of natural numbers has a least one.
LEMMA LeastOf ==
    ASSUME NEW S \in SUBSET Nat, S # {}
    PROVE  \E x \in S : \A y \in S : x <= y
<1> DEFINE R == {pair \in Nat \X Nat : pair[1] < pair[2]}
<1>1. IsWellFoundedOn(R, Nat) BY NatLessThanWellFounded DEF OpToRel
<1>2. \A x, y \in Nat : x < y => <<x, y>> \in R OBVIOUS
<1> HIDE DEF R
<1>3. PICK x \in S : \A y \in S : ~(<<y, x>> \in R) BY <1>1, WFMin
<1>4. \A y \in S : ~(y < x) BY <1>2, <1>3
<1> QED BY <1>4

\* A path that a clear one begins with is put together again by what is cut off.
LEMMA CutOff ==
    ASSUME NEW path, Clear(path), NEW dest, Clear(dest), Below(path, dest)
    PROVE  /\ Len(dest) \in Nat /\ Len(path) \in Nat /\ Len(dest) <= Len(path)
           /\ dest \o SubSeq(path, Len(dest) + 1, Len(path)) = path
           /\ SubSeq(path, Len(dest) + 1, Len(path)) \in Seq(STRING \ {Nowhere[1]})
<1> DEFINE T == STRING \ {Nowhere[1]}
           rest == SubSeq(path, Len(dest) + 1, Len(path))
<1>1. path \in Seq(T) /\ dest \in Seq(T) BY DEF Clear
<1> HIDE DEF T
<1>2. Len(dest) \in Nat /\ Len(path) \in Nat BY <1>1
<1>3. Len(dest) <= Len(path) /\ SubSeq(dest, 1, Len(dest)) = SubSeq(path, 1, Len(dest))
  BY <1>1, <1>2 DEF Below, IsPrefix
<1>4. rest \in Seq(T) /\ Len(rest) = Len(path) - Len(dest)
      /\ \A k \in 1 .. Len(rest) : rest[k] = path[Len(dest) + k]
  BY <1>1, <1>2, <1>3, SubSeqProperties
<1>5. \A k \in 1 .. Len(dest) : dest[k] = path[k]
  BY <1>1, <1>2, <1>3, SubSeqProperties
<1> HIDE DEF rest
<1>6. /\ dest \o rest \in Seq(T) /\ Len(dest \o rest) = Len(path)
      /\ \A k \in 1 .. Len(path) : (dest \o rest)[k] = path[k]
  BY <1>1, <1>2, <1>3, <1>4, <1>5, ConcatProperties
<1>7. dest \o rest = path BY <1>1, <1>6, SeqEqual
<1> QED BY <1>2, <1>3, <1>4, <1>7 DEF rest, T

\* No name on a path is that of Nowhere.
LEMMA SomewhereElse ==
    ASSUME NEW path \in Seq(STRING \ {Nowhere[1]}) PROVE path # Nowhere
<1>1. \A k \in DOMAIN path : path[k] # Nowhere[1] OBVIOUS
<1>2. 1 \in DOMAIN Nowhere BY DEF Nowhere
<1> QED BY <1>1, <1>2

\* hostPathFromBindMounts: of the mounts that cover a path there is a longest,
\* and of the longest a first.
LEMMA FirstLongest ==
    ASSUME NEW mounts \in Seq(Mount), NEW path \in Seq(STRING),
           NEW covering \in SUBSET DOMAIN mounts, covering # {},
           \A i \in covering : Len(mounts[i].dest) <= Len(path)
    PROVE  \E i \in covering : \A k \in covering :
              \/ Len(mounts[k].dest) < Len(mounts[i].dest)
              \/ Len(mounts[k].dest) = Len(mounts[i].dest) /\ i <= k
<1> DEFINE Beyond(i) == Len(path) - Len(mounts[i].dest)
           over == {Beyond(i) : i \in covering}
<1>1. \A i \in covering : i \in Nat /\ Len(mounts[i].dest) \in Nat /\ Len(path) \in Nat BY DEF Mount
<1>2. PICK least \in over : \A x \in over : least <= x
  <2>1. over \in SUBSET Nat /\ over # {} BY <1>1
  <2> HIDE DEF over
  <2> QED BY <2>1, LeastOf
<1> DEFINE longest == {i \in covering : Beyond(i) = least}
<1>3. PICK first \in longest : \A k \in longest : first <= k
  <2>1. longest \in SUBSET Nat /\ longest # {} BY <1>1, <1>2
  <2> HIDE DEF longest
  <2> QED BY <2>1, LeastOf
<1>4. ASSUME NEW k \in covering
      PROVE  \/ Len(mounts[k].dest) < Len(mounts[first].dest)
             \/ Len(mounts[k].dest) = Len(mounts[first].dest) /\ first <= k
  <2>1. first \in covering /\ Beyond(first) = least BY <1>3
  <2>2. Beyond(first) <= Beyond(k) BY <1>2, <2>1
  <2>3. Beyond(k) = least => first <= k BY <1>3
  <2>4. /\ Len(path) \in Nat /\ Len(mounts[first].dest) \in Nat /\ Len(mounts[k].dest) \in Nat
        /\ Len(path) - Len(mounts[first].dest) <= Len(path) - Len(mounts[k].dest)
    BY <1>1, <2>1, <2>2
  <2>5. Len(mounts[k].dest) = Len(mounts[first].dest) => first <= k BY <2>1, <2>3
  <2>6. Len(mounts[k].dest) <= Len(mounts[first].dest)
    <3> HIDE DEF Beyond, over, longest
    <3> QED BY <2>4
  <2> HIDE DEF Beyond, over, longest
  <2> QED BY <2>4, <2>5, <2>6
<1>5. first \in covering BY <1>3
<1>6. \A k \in covering :
        \/ Len(mounts[k].dest) < Len(mounts[first].dest)
        \/ Len(mounts[k].dest) = Len(mounts[first].dest) /\ first <= k
  BY <1>4
<1> QED BY <1>5, <1>6, Zenon

\* hostPathFromBindMounts of a clear path and clear mounts: the first longest
\* mount over the path decides, and without one there is no host path.
LEMMA HostPathIs ==
    ASSUME NEW path \in MountPaths, NEW mounts \in MountLists
    PROVE  LET over == {i \in DOMAIN mounts : mounts[i].source # Nowhere
                          /\ mounts[i].dest # << >> /\ Below(path, mounts[i].dest)}
               found == hostPathFromBindMounts(path, mounts)
           IN  /\ over = {} => found = Nowhere
               /\ over # {} =>
                    /\ found # Nowhere
                    /\ \E i \in over :
                        /\ \A k \in over : Len(mounts[k].dest) <= Len(mounts[i].dest)
                        /\ found = mounts[i].source
                                   \o SubSeq(path, Len(mounts[i].dest) + 1, Len(path))
<1> DEFINE over == {i \in DOMAIN mounts : mounts[i].source # Nowhere
                      /\ mounts[i].dest # << >> /\ Below(path, mounts[i].dest)}
           covering == {i \in DOMAIN mounts :
                          mounts[i].source # Nowhere /\ pathHasPrefix(path, mounts[i].dest)}
           Best(i) == \A k \in covering :
                        \/ Len(mounts[k].dest) < Len(mounts[i].dest)
                        \/ Len(mounts[k].dest) = Len(mounts[i].dest) /\ i <= k
           best == CHOOSE i \in covering : Best(i)
           found == hostPathFromBindMounts(path, mounts)
<1>1. /\ Clear(path) /\ path # << >> /\ mounts \in Seq(Mount)
      /\ \A i \in DOMAIN mounts :
          Clear(mounts[i].dest) /\ (mounts[i].source = Nowhere \/ Clear(mounts[i].source))
  BY MountsAssumption DEF Clear, Mount
<1>2. covering = over
  <2>1. \A i \in DOMAIN mounts :
          pathHasPrefix(path, mounts[i].dest)
            <=> mounts[i].dest # << >> /\ Below(path, mounts[i].dest)
    <3> TAKE i \in DOMAIN mounts
    <3>1. Clean(path) = path /\ Clean(mounts[i].dest) = mounts[i].dest BY <1>1 DEF Clear
    <3>2. Below(path, path)
      BY <1>1 DEF Clear, Below, IsPrefix
    <3> QED BY <1>1, <3>1, <3>2 DEF pathHasPrefix
  <2> QED BY <2>1
<1>3. found = IF covering = {} THEN Nowhere
              ELSE mounts[best].source
                   \o SubSeq(path, Len(mounts[best].dest) + 1, Len(path))
  <2>1. Clean(path) = path BY <1>1 DEF Clear
  <2> QED BY <2>1 DEF hostPathFromBindMounts
<1>4. CASE over # {}
  <2>1. \A i \in covering :
          /\ i \in DOMAIN mounts /\ Len(mounts[i].dest) <= Len(path)
          /\ Len(mounts[i].dest) \in Nat /\ Clear(mounts[i].source)
    BY <1>1, <1>2, CutOff
  <2>2. \E i \in covering : Best(i)
    <3>1. path \in Seq(STRING) BY <1>1 DEF Clear
    <3>2. covering \in SUBSET DOMAIN mounts /\ covering # {} BY <1>2, <1>4
    <3> HIDE DEF covering, over
    <3> QED BY <1>1, <2>1, <3>1, <3>2, FirstLongest
  <2>3. best \in covering /\ Best(best)
    <3> HIDE DEF covering, Best
    <3> QED BY <2>2
  <2> HIDE DEF best
  <2>4. \A k \in over : Len(mounts[k].dest) <= Len(mounts[best].dest)
    BY <1>2, <2>1, <2>3
  <2>5. found # Nowhere
    <3> DEFINE rest == SubSeq(path, Len(mounts[best].dest) + 1, Len(path))
               T == STRING \ {Nowhere[1]}
    <3>1. mounts[best].source \in Seq(T) BY <2>1, <2>3 DEF Clear
    <3>2. rest \in Seq(T) BY <1>1, <1>2, <2>3, CutOff
    <3>3. found = mounts[best].source \o rest BY <1>2, <1>3, <1>4
    <3> HIDE DEF rest, T, found
    <3>4. found \in Seq(T) BY <3>1, <3>2, <3>3, ConcatProperties
    <3> QED BY <3>4, SomewhereElse DEF T
  <2> QED BY <1>2, <1>3, <1>4, <2>3, <2>4, <2>5
<1>5. CASE over = {} BY <1>2, <1>3, <1>5
<1> QED BY <1>4, <1>5

\* resolveHostDataRoot after it: what HostRootIsSeen says of a call.
LEMMA HostRootStep ==
    ASSUME CallHostRoot PROVE HostRootIsSeen'
<1>1. PICK path \in MountPaths, mounts \in MountLists, configured \in HostRoots :
        LET found == hostPathFromBindMounts(path, mounts)
        IN  Calls("host", [path |-> path, mounts |-> mounts, configured |-> configured],
                  resolveHostDataRoot(IF found = Nowhere THEN Unset ELSE Absolute(found),
                                      configured))
  BY DEF CallHostRoot
<1> DEFINE found == hostPathFromBindMounts(path, mounts)
           root == resolveHostDataRoot(IF found = Nowhere THEN Unset ELSE Absolute(found),
                                       configured)
           over == {i \in DOMAIN mounts : mounts[i].source # Nowhere
                      /\ mounts[i].dest # << >> /\ Below(path, mounts[i].dest)}
           inner == {i \in over : \A k \in over : Len(mounts[k].dest) <= Len(mounts[i].dest)}
           Rest(i) == SubSeq(path, Len(mounts[i].dest) + 1, Len(path))
<1>2. call' = [fn |-> "host", out |-> root,
               in |-> [path |-> path, mounts |-> mounts, configured |-> configured]]
  BY <1>1 DEF Calls
<1>3. /\ Clear(path) /\ mounts \in Seq(Mount)
      /\ \A i \in DOMAIN mounts : Clear(mounts[i].dest)
  BY MountsAssumption DEF Clear, Mount
<1>4. /\ over = {} => found = Nowhere
      /\ over # {} =>
          /\ found # Nowhere
          /\ \E i \in over :
              /\ \A k \in over : Len(mounts[k].dest) <= Len(mounts[i].dest)
              /\ found = mounts[i].source \o Rest(i)
  BY HostPathIs
<1> HIDE DEF found, over
<1>5. root = IF found = Nowhere THEN IF configured.abs THEN configured.path ELSE Nowhere
             ELSE found
  BY DEF resolveHostDataRoot, Unset, Absolute
<1> HIDE DEF root
<1>6. over = {} => root = IF configured.abs THEN configured.path ELSE Nowhere
  BY <1>4, <1>5
<1>7. ASSUME over # {}
      PROVE  \E i \in inner :
                \E rest \in {SubSeq(path, k, Len(path)) : k \in 1 .. Len(path) + 1} :
                    mounts[i].dest \o rest = path /\ root = mounts[i].source \o rest
  <2>1. PICK i \in over :
          /\ \A k \in over : Len(mounts[k].dest) <= Len(mounts[i].dest)
          /\ root = mounts[i].source \o Rest(i)
    BY <1>4, <1>5, <1>7
  <2>2. i \in inner BY <2>1
  <2>3. i \in DOMAIN mounts /\ Below(path, mounts[i].dest) BY DEF over
  <2>4. /\ Len(mounts[i].dest) \in Nat /\ Len(path) \in Nat
        /\ Len(mounts[i].dest) <= Len(path) /\ mounts[i].dest \o Rest(i) = path
    BY <1>3, <2>3, CutOff
  <2>5. Len(mounts[i].dest) + 1 \in 1 .. Len(path) + 1 BY <2>4
  <2>6. Rest(i) \in {SubSeq(path, k, Len(path)) : k \in 1 .. Len(path) + 1} BY <2>5
  <2> HIDE DEF Rest, inner
  <2> QED BY <2>1, <2>2, <2>4, <2>6
<1> QED BY <1>2, <1>6, <1>7 DEF HostRootIsSeen, over

-----------------------------------------------------------------------------
(* Updaters and limits. *)

\* runLocalUpdater: what UpdaterIsNotRoot says of a call.
LEMMA UpdaterStep ==
    ASSUME CallUpdater PROVE UpdaterIsNotRoot'
<1>1. PICK euid \in Uids, account \in Accounts, d \in Directories :
        Calls("updater", [euid |-> euid, account |-> account, dir |-> d],
              runLocalUpdater(euid, d.owner, account, d.files))
  BY DEF CallUpdater
<1> DEFINE out == runLocalUpdater(euid, d.owner, account, d.files)
           uid == UpdaterUid(d.owner, account)
<1>2. call' = [fn |-> "updater", out |-> out, in |-> [euid |-> euid, account |-> account, dir |-> d]]
  BY <1>1 DEF Calls
<1>3. \A f \in DOMAIN d.files : "owner" \in DOMAIN d.files[f] BY FilesAssumption
<1>4. ASSUME out # UpdaterError
      PROVE  /\ out.uid # Root
             /\ \A f \in DOMAIN d.files :
                 /\ euid = Root /\ ~d.files[f].git => out.files[f].owner # Root
                 /\ d.files[f].owner # Root \/ d.files[f].git => out.files[f] = d.files[f]
  <2>1. CASE euid # Root BY <2>1 DEF runLocalUpdater
  <2>2. CASE euid = Root
    <3>1. /\ uid # Root /\ out.uid = uid
          /\ out.files = [f \in DOMAIN d.files |->
                            IF d.files[f].owner = Root /\ ~d.files[f].git
                            THEN [d.files[f] EXCEPT !.owner = uid] ELSE d.files[f]]
      BY <1>4, <2>2 DEF runLocalUpdater
    <3> HIDE DEF uid, out
    <3> QED BY <1>3, <3>1
  <2> QED BY <2>1, <2>2
<1> HIDE DEF out
<1> QED BY <1>2, <1>4 DEF UpdaterIsNotRoot

\* resolveCPUCap: what CapLimits says of a call.
LEMMA CapStep ==
    ASSUME CallCPUCap PROVE CapLimits'
<1>1. PICK p \in Percentages, n \in CpuCounts :
        Calls("cpu", [tenths |-> p, cpus |-> n], resolveCPUCap(p, n))
  BY DEF CallCPUCap
<1> DEFINE out == resolveCPUCap(p, n)
<1>2. call' = [fn |-> "cpu", out |-> out, in |-> [tenths |-> p, cpus |-> n]]
  BY <1>1 DEF Calls
<1>3. p \in Int /\ n \in Int BY LimitsAssumption
<1>4. ASSUME out.err = "none"
      PROVE  out.value <= 100 * n /\ (p >= 10 => out.value > 0)
  <2>1. p > 0 /\ p <= 1000 /\ n > 0 /\ out.value = (n * p + 5) \div 10
    BY <1>3, <1>4 DEF resolveCPUCap, RoundedBy
  <2>2. n * p <= 1000 * n /\ (p >= 10 => n * p >= 10)
    <3>1. n * (1000 - p) >= 0 BY <1>3, <2>1
    <3>2. n * p = 1000 * n - n * (1000 - p) BY <1>3
    <3>3. p >= 10 => n * p >= p BY <1>3, <2>1
    <3> QED BY <1>3, <3>1, <3>2, <3>3
  <2> DEFINE x == n * p
  <2>3. x \in Int /\ x <= 1000 * n /\ (p >= 10 => x >= 10) BY <1>3, <2>2
  <2>4. out.value = (x + 5) \div 10 BY <2>1
  <2> HIDE DEF x, out
  <2>5. (x + 5) \div 10 <= 100 * n /\ (x >= 10 => (x + 5) \div 10 > 0) BY <1>3, <2>3
  <2> QED BY <2>3, <2>4, <2>5
<1> HIDE DEF out
<1> QED BY <1>2, <1>4 DEF CapLimits

-----------------------------------------------------------------------------
(* Folds.  A fold over a sequence is a function of sets of its positions,  *)
(* chosen by the equation it satisfies; that there is one such function    *)
(* makes it a chain of steps.                                              *)

\* Induction over the positions of a sequence.
LEMMA UpTo ==
    ASSUME NEW n \in Nat, NEW S, 0 \in S, \A i \in 1 .. n : i - 1 \in S => i \in S
    PROVE  \A i \in 0 .. n : i \in S
<1> SUFFICES ASSUME (0 .. n) \ S # {} PROVE FALSE OBVIOUS
<1>1. PICK i \in (0 .. n) \ S : \A k \in (0 .. n) \ S : i <= k
  <2>1. (0 .. n) \ S \in SUBSET Nat OBVIOUS
  <2> QED BY <2>1, LeastOf
<1>2. i \in 1 .. n BY <1>1
<1>3. i - 1 \in 0 .. n /\ ~(i <= i - 1) BY <1>2
<1>4. i - 1 \in S BY <1>1, <1>3
<1> QED BY <1>1, <1>2, <1>4

\* The last of some positions.
LEMMA LastOf ==
    ASSUME NEW k \in Nat, NEW s \in SUBSET (1 .. k + 1), k + 1 \in s
    PROVE  Max(s) = k + 1
<1>1. \A y \in s : k + 1 >= y OBVIOUS
<1>2. \A x \in s : (\A y \in s : x >= y) => x = k + 1 OBVIOUS
<1> QED BY <1>1, <1>2 DEF Max

\* Positions have a last one.
LEMMA LastIsOne ==
    ASSUME NEW n \in Nat, NEW s \in SUBSET (1 .. n), s # {}
    PROVE  Max(s) \in s
<1> DEFINE before == {n - i : i \in s}
<1>1. before \in SUBSET Nat /\ before # {} OBVIOUS
<1>2. PICK least \in before : \A x \in before : least <= x
  <2> HIDE DEF before
  <2> QED BY <1>1, LeastOf
<1>3. PICK i \in s : least = n - i BY <1>2
<1>4. \A k \in s : n - i <= n - k BY <1>2, <1>3
<1>5. \A k \in s : i >= k BY <1>4
<1> QED BY <1>5 DEF Max

\* What a fold over n positions chooses, a step being of a value and a position.
Solves(F, n, A, base, step) ==
    /\ F \in [SUBSET (1 .. n) -> A]
    /\ \A s \in SUBSET (1 .. n) :
          F[s] = IF s = {} THEN base ELSE step[<<F[s \ {Max(s)}], Max(s)>>]

\* The equation of a fold has a solution, whatever the step.
LEMMA FoldExists ==
    ASSUME NEW n \in Nat, NEW A, NEW base \in A, NEW step \in [A \X (1 .. n) -> A]
    PROVE  \E F : Solves(F, n, A, base, step)
<1> USE DEF Solves
<1> DEFINE solved == {k \in 0 .. n : \E F : Solves(F, k, A, base, step)}
<1>1. 0 \in solved
  <2> DEFINE F == [s \in SUBSET (1 .. 0) |-> base]
  <2>1. Solves(F, 0, A, base, step) OBVIOUS
  <2> HIDE DEF F, Solves
  <2> QED BY <2>1
<1>2. ASSUME NEW i \in 1 .. n, i - 1 \in solved PROVE i \in solved
  <2> DEFINE k == i - 1
  <2>1. k \in Nat /\ i = k + 1 /\ k + 1 \in 1 .. n OBVIOUS
  <2>2. PICK F : Solves(F, k, A, base, step) BY <1>2
  <2> HIDE DEF k
  <2> DEFINE G == [s \in SUBSET (1 .. k + 1) |->
                     IF k + 1 \in s THEN step[<<F[s \ {k + 1}], k + 1>>] ELSE F[s]]
  <2>3. \A s \in SUBSET (1 .. k + 1) : s \ {k + 1} \in SUBSET (1 .. k) BY <2>1
  <2>4. \A s \in SUBSET (1 .. k + 1) : k + 1 \notin s => s \in SUBSET (1 .. k) BY <2>1
  <2>5. \A s \in SUBSET (1 .. k) : F[s] \in A BY <2>2
  <2>6. G \in [SUBSET (1 .. k + 1) -> A]
    <3>1. ASSUME NEW s \in SUBSET (1 .. k + 1)
          PROVE  (IF k + 1 \in s THEN step[<<F[s \ {k + 1}], k + 1>>] ELSE F[s]) \in A
      BY <2>1, <2>3, <2>4, <2>5
    <3> QED BY <3>1
  <2>7. \A s \in SUBSET (1 .. k) : G[s] = F[s]
    <3> TAKE s \in SUBSET (1 .. k)
    <3>1. s \in SUBSET (1 .. k + 1) /\ k + 1 \notin s BY <2>1
    <3> QED BY <3>1
  <2>8. ASSUME NEW s \in SUBSET (1 .. k + 1)
        PROVE  G[s] = IF s = {} THEN base ELSE step[<<G[s \ {Max(s)}], Max(s)>>]
    <3>1. CASE k + 1 \in s
      <4>1. Max(s) = k + 1 BY <2>1, <3>1, LastOf
      <4>2. G[s \ {k + 1}] = F[s \ {k + 1}] BY <2>3, <2>7
      <4>3. G[s] = step[<<F[s \ {k + 1}], k + 1>>] BY <3>1
      <4> HIDE DEF G
      <4> QED BY <3>1, <4>1, <4>2, <4>3
    <3>2. CASE k + 1 \notin s
      <4>1. s \in SUBSET (1 .. k) /\ s \ {Max(s)} \in SUBSET (1 .. k) BY <2>4, <3>2
      <4>2. G[s] = F[s] /\ G[s \ {Max(s)}] = F[s \ {Max(s)}] BY <2>7, <4>1
      <4>3. F[s] = IF s = {} THEN base ELSE step[<<F[s \ {Max(s)}], Max(s)>>] BY <2>2, <4>1
      <4> HIDE DEF G
      <4> QED BY <4>2, <4>3
    <3> QED BY <3>1, <3>2
  <2> HIDE DEF G
  <2>9. Solves(G, k + 1, A, base, step) BY <2>6, <2>8
  <2> HIDE DEF Solves
  <2> QED BY <2>1, <2>9
<1>3. n \in solved
  <2> HIDE DEF solved
  <2>1. n \in 0 .. n OBVIOUS
  <2> QED BY <1>1, <1>2, <2>1, UpTo
<1> QED BY <1>3

\* A function that solves it is a chain on the first positions.
LEMMA FoldIsChain ==
    ASSUME NEW n \in Nat, NEW i \in 1 .. n
    PROVE  /\ 1 .. i \in SUBSET (1 .. n) /\ 1 .. i - 1 \in SUBSET (1 .. n)
           /\ 1 .. i # {} /\ Max(1 .. i) = i /\ (1 .. i) \ {i} = 1 .. i - 1
<1>1. Max(1 .. i) = i
  <2> DEFINE k == i - 1
  <2>1. k \in Nat /\ 1 .. i \in SUBSET (1 .. k + 1) /\ k + 1 \in 1 .. i /\ k + 1 = i OBVIOUS
  <2> HIDE DEF k
  <2> QED BY <2>1, LastOf
<1> QED BY <1>1

-----------------------------------------------------------------------------
(* Import paths. *)

\* Clean, name by name.
LEMMA CleanIs ==
    ASSUME NEW T, NEW path \in Seq(T)
    PROVE  \E c \in [0 .. Len(path) -> Seq(T)] :
              /\ c[0] = << >> /\ Clean(path) = c[Len(path)]
              /\ \A i \in 1 .. Len(path) : c[i] = Cleaned(c[i - 1], path[i])
<1> DEFINE n == Len(path)
           Body(F, s) == IF s = {} THEN << >> ELSE Cleaned(F[s \ {Max(s)}], path[Max(s)])
           Is(F) == F = [s \in SUBSET DOMAIN path |-> Body(F, s)]
           iter == CHOOSE F : Is(F)
           step == [p \in Seq(T) \X (1 .. n) |-> Cleaned(p[1], path[p[2]])]
<1>1. n \in Nat /\ DOMAIN path = 1 .. n /\ << >> \in Seq(T) OBVIOUS
<1>2. ASSUME NEW acc \in Seq(T), NEW x \in T PROVE Cleaned(acc, x) \in Seq(T)
  <2>1. acc # << >> => Front(acc) \in Seq(T)
    BY SubSeqProperties DEF Front
  <2>2. Append(acc, x) \in Seq(T) OBVIOUS
  <2> QED BY <2>1, <2>2 DEF Cleaned
<1>3. step \in [Seq(T) \X (1 .. n) -> Seq(T)]
  <2>1. \A p \in Seq(T) \X (1 .. n) : p[1] \in Seq(T) /\ path[p[2]] \in T BY <1>1
  <2> QED BY <1>2, <2>1
<1>4. \A acc \in Seq(T), i \in 1 .. n : step[<<acc, i>>] = Cleaned(acc, path[i]) OBVIOUS
<1> HIDE DEF n, step
<1>5. PICK F \in [SUBSET (1 .. n) -> Seq(T)] :
        \A s \in SUBSET (1 .. n) :
           F[s] = IF s = {} THEN << >> ELSE step[<<F[s \ {Max(s)}], Max(s)>>]
  <2> DEFINE A == Seq(T)
  <2>1. n \in Nat /\ << >> \in A /\ step \in [A \X (1 .. n) -> A] BY <1>1, <1>3
  <2> HIDE DEF A
  <2>2. \E F : Solves(F, n, A, << >>, step) BY <2>1, FoldExists
  <2> QED BY <2>2 DEF A, Solves
<1>6. Is(F)
  <2>1. \A s \in SUBSET (1 .. n) : s # {} => Max(s) \in 1 .. n
    BY <1>1, LastIsOne
  <2>2. \A s \in SUBSET (1 .. n) : F[s] = Body(F, s)
    <3> TAKE s \in SUBSET (1 .. n)
    <3>1. s # {} => s \ {Max(s)} \in SUBSET (1 .. n) /\ F[s \ {Max(s)}] \in Seq(T) OBVIOUS
    <3> QED BY <1>4, <1>5, <2>1, <3>1
  <2> QED BY <1>1, <1>5, <2>2
<1>7. Is(iter)
  <2> HIDE DEF Is
  <2> QED BY <1>6
<1>8. Clean(path) = iter[DOMAIN path]
  BY DEF Clean, FoldLeft, MapThenFoldSet
<1>9. \A s \in SUBSET (1 .. n) : iter[s] = Body(iter, s)
  <2> HIDE DEF iter
  <2> QED BY <1>1, <1>7
<1> HIDE DEF iter
<1> DEFINE c == [i \in 0 .. n |-> iter[1 .. i]]
<1>10. c[0] = << >> /\ Clean(path) = c[n]
  <2>1. 1 .. 0 = {} /\ {} \in SUBSET (1 .. n) OBVIOUS
  <2>2. c[0] = iter[{}] /\ c[n] = iter[1 .. n] BY <1>1, <2>1
  <2>3. iter[{}] = << >> BY <1>9, <2>1
  <2> QED BY <1>1, <1>8, <2>2, <2>3
<1>11. \A i \in 1 .. n : c[i] = Cleaned(c[i - 1], path[i])
  <2> TAKE i \in 1 .. n
  <2>1. /\ 1 .. i \in SUBSET (1 .. n) /\ 1 .. i # {}
        /\ Max(1 .. i) = i /\ (1 .. i) \ {i} = 1 .. i - 1
    BY <1>1, FoldIsChain
  <2>2. iter[1 .. i] = Cleaned(iter[1 .. i - 1], path[i])
    <3>1. iter[1 .. i] = Body(iter, 1 .. i) BY <1>9, <2>1
    <3> QED BY <2>1, <3>1
  <2>3. c[i] = iter[1 .. i] /\ c[i - 1] = iter[1 .. i - 1] BY <1>1
  <2> HIDE DEF c
  <2> QED BY <2>2, <2>3
<1>12. c \in [0 .. n -> Seq(T)]
  <2> HIDE DEF c, Body
  <2> DEFINE typed == {i \in 0 .. n : c[i] \in Seq(T)}
  <2>1. 0 \in typed
    <3>1. c[0] \in Seq(T) /\ 0 \in 0 .. n BY <1>1, <1>10
    <3> QED BY <3>1
  <2>2. \A i \in 1 .. n : i - 1 \in typed => i \in typed
    <3> TAKE i \in 1 .. n
    <3>1. path[i] \in T BY <1>1
    <3> HAVE i - 1 \in typed
    <3>2. c[i - 1] \in Seq(T) /\ c[i] = Cleaned(c[i - 1], path[i]) /\ i \in 0 .. n
      BY <1>1, <1>11
    <3>3. c[i] \in Seq(T) BY <1>2, <3>1, <3>2
    <3> QED BY <3>2, <3>3
  <2>3. \A i \in 0 .. n : i \in typed
    <3> HIDE DEF typed
    <3> QED BY <1>1, <2>1, <2>2, UpTo
  <2> QED BY <2>3 DEF c
<1> HIDE DEF c
<1> QED BY <1>10, <1>11, <1>12 DEF n

Dots == {".", ".."}

\* Clean: a step adds no dots, and takes the last name away or leaves the rest.
LEMMA CleanedIsPlain ==
    ASSUME NEW T, NEW acc \in Seq(T \ Dots), NEW x \in T
    PROVE  Cleaned(acc, x) \in Seq(T \ Dots)
<1> DEFINE D == T \ Dots
<1>1. acc \in Seq(D) /\ (x \notin Dots => x \in D) OBVIOUS
<1>2. x \in Dots <=> x = "." \/ x = ".." BY DEF Dots
<1> HIDE DEF D
<1>3. acc # << >> => Front(acc) \in Seq(D) BY <1>1, SubSeqProperties DEF Front
<1>4. x \in D => Append(acc, x) \in Seq(D) BY <1>1
<1> QED BY <1>1, <1>2, <1>3, <1>4 DEF Cleaned, D

\* Clean leaves no dots, whatever path it is given.
LEMMA CleanIsPlain ==
    ASSUME NEW T, NEW path \in Seq(T)
    PROVE  Clean(path) \in Seq(T \ Dots)
<1>1. PICK c \in [0 .. Len(path) -> Seq(T)] :
        /\ c[0] = << >> /\ Clean(path) = c[Len(path)]
        /\ \A i \in 1 .. Len(path) : c[i] = Cleaned(c[i - 1], path[i])
  BY CleanIs
<1> DEFINE D == T \ Dots
           plain == {i \in 0 .. Len(path) : c[i] \in Seq(D)}
<1>2. Len(path) \in Nat /\ \A i \in 1 .. Len(path) : path[i] \in T OBVIOUS
<1>3. 0 \in plain BY <1>1, <1>2
<1>4. ASSUME NEW i \in 1 .. Len(path), i - 1 \in plain PROVE i \in plain
  <2>1. c[i - 1] \in Seq(D) /\ i \in 0 .. Len(path) BY <1>2, <1>4
  <2>2. Cleaned(c[i - 1], path[i]) \in Seq(D) BY <1>2, <2>1, CleanedIsPlain
  <2> QED BY <1>1, <2>1, <2>2
<1>5. Len(path) \in plain
  <2> HIDE DEF plain
  <2>1. \A i \in 0 .. Len(path) : i \in plain BY <1>2, <1>3, <1>4, UpTo
  <2> QED BY <1>2, <2>1
<1> QED BY <1>1, <1>5

\* Clean leaves a path without dots alone.
LEMMA PlainIsClean ==
    ASSUME NEW T, NEW path \in Seq(T \ Dots)
    PROVE  Clean(path) = path
<1> DEFINE D == T \ Dots
<1>1. PICK c \in [0 .. Len(path) -> Seq(D)] :
        /\ c[0] = << >> /\ Clean(path) = c[Len(path)]
        /\ \A i \in 1 .. Len(path) : c[i] = Cleaned(c[i - 1], path[i])
  <2> HIDE DEF D
  <2> QED BY CleanIs DEF D
<1>2. /\ Len(path) \in Nat /\ path \in Seq(D)
      /\ \A i \in 1 .. Len(path) : path[i] \in D /\ path[i] # "." /\ path[i] # ".."
  BY DEF Dots
<1> HIDE DEF D
<1> DEFINE whole == {i \in 0 .. Len(path) :
                       Len(c[i]) = i /\ \A k \in 1 .. i : c[i][k] = path[k]}
<1>3. 0 \in whole BY <1>1, <1>2
<1>4. ASSUME NEW i \in 1 .. Len(path), i - 1 \in whole PROVE i \in whole
  <2>1. /\ i - 1 \in 0 .. Len(path) /\ c[i - 1] \in Seq(D) /\ Len(c[i - 1]) = i - 1
        /\ \A k \in 1 .. i - 1 : c[i - 1][k] = path[k]
    BY <1>1, <1>2, <1>4
  <2>2. c[i] = Append(c[i - 1], path[i]) BY <1>1, <1>2 DEF Cleaned
  <2>3. /\ Len(c[i]) = i /\ c[i][i] = path[i]
        /\ \A k \in 1 .. i - 1 : c[i][k] = c[i - 1][k]
    BY <1>2, <2>1, <2>2, AppendProperties
  <2>4. \A k \in 1 .. i : c[i][k] = path[k] BY <2>1, <2>3
  <2> QED BY <1>2, <2>3, <2>4
<1>5. Len(path) \in whole
  <2> HIDE DEF whole
  <2>1. \A i \in 0 .. Len(path) : i \in whole BY <1>2, <1>3, <1>4, UpTo
  <2> QED BY <1>2, <2>1
<1>6. c[Len(path)] \in Seq(D) BY <1>1, <1>2
<1>7. c[Len(path)] = path BY <1>2, <1>5, <1>6, SeqEqual
<1> QED BY <1>1, <1>7

\* PreviewLocal: what ImportsStayBelow says of a call.
LEMMA ImportStep ==
    ASSUME CallImportPath PROVE ImportsStayBelow'
<1> DEFINE T == STRING
           D == T \ Dots
<1>1. PICK given \in GivenPaths :
        Calls("import", given, ImportPath(ImportRoot, given))
  BY DEF CallImportPath
<1> DEFINE out == ImportPath(ImportRoot, given)
           root == Clean(ImportRoot)
           joined == IF given.abs THEN given.path ELSE root \o given.path
<1>2. call' = [fn |-> "import", out |-> out, in |-> given] BY <1>1 DEF Calls
<1>3. ImportRoot \in Seq(T) /\ given.path \in Seq(T) BY ImportsAssumption
<1> HIDE DEF T
<1>4. root \in Seq(D) BY <1>3, CleanIsPlain
<1>5. joined \in Seq(T)
  <2>1. root \in Seq(T)
    <3>1. \A i \in DOMAIN root : root[i] \in T BY <1>4
    <3> QED BY <1>4, <3>1
  <2> QED BY <1>3, <2>1
<1>6. out = IF Below(Clean(joined), root) THEN Clean(joined) ELSE Nowhere
  BY DEF ImportPath
<1> HIDE DEF root
<1>7. Clean(joined) \in Seq(D) BY <1>5, CleanIsPlain
<1>8. ASSUME out # Nowhere
      PROVE  Below(out, root) /\ ToSet(out) \cap {".", ".."} = {}
  <2>1. out = Clean(joined) /\ Below(out, root) BY <1>6, <1>8
  <2>2. out \in Seq(D) BY <1>7, <2>1
  <2> HIDE DEF out
  <2>3. \A i \in DOMAIN out : out[i] \in D BY <2>2
  <2> QED BY <2>1, <2>3 DEF ToSet, Dots
<1>9. ASSUME ToSet(given.path) \cap {".", ".."} = {}
      PROVE  out = IF ~given.abs THEN root \o given.path
                   ELSE IF Below(given.path, root) THEN given.path ELSE Nowhere
  <2>1. given.path \in Seq(D)
    <3>1. \A i \in DOMAIN given.path : given.path[i] \in T BY <1>3
    <3>2. \A i \in DOMAIN given.path : given.path[i] \in ToSet(given.path) BY DEF ToSet
    <3>3. \A i \in DOMAIN given.path : given.path[i] \in D BY <1>9, <3>1, <3>2 DEF Dots
    <3> QED BY <1>3, <3>3
  <2>2. joined \in Seq(D) BY <1>4, <2>1
  <2>3. Clean(joined) = joined BY <2>2, PlainIsClean
  <2>4. Below(root \o given.path, root)
    <3>1. Len(root) \in Nat /\ Len(root) <= Len(root \o given.path) BY <1>4, <2>1
    <3>2. SubSeq(root, 1, Len(root)) = SubSeq(root \o given.path, 1, Len(root))
      <4> HIDE DEF D
      <4> DEFINE r == SubSeq(root, 1, Len(root))
                 j == SubSeq(root \o given.path, 1, Len(root))
      <4>1. root \o given.path \in Seq(D) BY <1>4, <2>1, ConcatProperties
      <4>2. r \in Seq(D) /\ Len(r) = Len(root) /\ j \in Seq(D) /\ Len(j) = Len(root)
        BY <1>4, <2>1, <3>1, <4>1, SubSeqProperties
      <4>3. \A i \in 1 .. Len(root) : r[i] = root[i] /\ j[i] = root[i]
        BY <1>4, <2>1, <3>1, <4>1, SubSeqProperties, ConcatProperties
      <4> HIDE DEF r, j
      <4>4. r = j BY <4>2, <4>3, SeqEqual
      <4> QED BY <4>4 DEF r, j
    <3> QED BY <3>1, <3>2 DEF Below, IsPrefix
  <2> HIDE DEF out
  <2> QED BY <1>6, <2>3, <2>4
<1> HIDE DEF out
<1>10. call'.out = out /\ call'.in = given BY <1>2
<1> QED BY <1>8, <1>9, <1>10 DEF ImportsStayBelow, root

-----------------------------------------------------------------------------
(* Commands. *)

Args(W) == [word : W, number : BOOLEAN, value : Int]
Parsed(W) ==
    [yes : BOOLEAN, local : W \cup {""}, select : Int, query : Seq(W),
     wants : {"none", "failed", "--local", "--select"}]

\* add: one argument, by what is wanted before it.
LEMMA ArgumentType ==
    ASSUME NEW W, NEW acc \in Parsed(W), NEW arg \in Args(W)
    PROVE  Argument(acc, arg) \in Parsed(W)
<1>1. /\ acc.query \in Seq(W) /\ arg.word \in W
      /\ acc = [yes |-> acc.yes, local |-> acc.local, select |-> acc.select,
                query |-> acc.query, wants |-> acc.wants]
  BY DEF Parsed, Args
<1>2. Append(acc.query, arg.word) \in Seq(W) BY <1>1
<1>3. CASE acc.wants = "failed" BY <1>3 DEF Argument
<1>4. CASE acc.wants = "--local"
  <2>1. Argument(acc, arg) = [acc EXCEPT !.local = arg.word, !.wants = "none"]
    BY <1>4 DEF Argument
  <2> QED BY <1>1, <2>1 DEF Parsed
<1>5. CASE acc.wants = "--select"
  <2>1. Argument(acc, arg) = IF arg.number THEN [acc EXCEPT !.select = arg.value, !.wants = "none"]
                             ELSE [acc EXCEPT !.wants = "failed"]
    BY <1>5 DEF Argument
  <2>2. arg.value \in Int BY DEF Args
  <2> QED BY <1>1, <2>1, <2>2 DEF Parsed
<1>6. CASE acc.wants = "none"
  <2>1. Argument(acc, arg) =
          IF arg.word = "--yes" THEN [acc EXCEPT !.yes = TRUE]
          ELSE IF arg.word \in {"--local", "--select"} THEN [acc EXCEPT !.wants = arg.word]
          ELSE [acc EXCEPT !.query = Append(@, arg.word)]
    BY <1>6 DEF Argument
  <2> QED BY <1>1, <1>2, <2>1 DEF Parsed
<1> QED BY <1>3, <1>4, <1>5, <1>6 DEF Parsed

\* add: what the arguments say, one by one.
LEMMA ArgumentsIs ==
    ASSUME NEW W, NEW args \in Seq(Args(W))
    PROVE  \E c \in [0 .. Len(args) -> Parsed(W)] :
              /\ c[0] = NoArguments /\ Arguments(args) = c[Len(args)]
              /\ \A i \in 1 .. Len(args) : c[i] = Argument(c[i - 1], args[i])
<1> DEFINE n == Len(args)
           Body(F, s) == IF s = {} THEN NoArguments ELSE Argument(F[s \ {Max(s)}], args[Max(s)])
           Is(F) == F = [s \in SUBSET DOMAIN args |-> Body(F, s)]
           iter == CHOOSE F : Is(F)
           step == [p \in Parsed(W) \X (1 .. n) |-> Argument(p[1], args[p[2]])]
<1>1. n \in Nat /\ DOMAIN args = 1 .. n /\ NoArguments \in Parsed(W)
  BY DEF NoArguments, Parsed
<1>2. \A acc \in Parsed(W), x \in Args(W) : Argument(acc, x) \in Parsed(W)
  BY ArgumentType
<1>3. step \in [Parsed(W) \X (1 .. n) -> Parsed(W)]
  <2>1. \A p \in Parsed(W) \X (1 .. n) : p[1] \in Parsed(W) /\ args[p[2]] \in Args(W) BY <1>1
  <2> QED BY <1>2, <2>1
<1>4. \A acc \in Parsed(W), i \in 1 .. n : step[<<acc, i>>] = Argument(acc, args[i]) OBVIOUS
<1> HIDE DEF n, step
<1>5. PICK F \in [SUBSET (1 .. n) -> Parsed(W)] :
        \A s \in SUBSET (1 .. n) :
           F[s] = IF s = {} THEN NoArguments ELSE step[<<F[s \ {Max(s)}], Max(s)>>]
  <2> DEFINE A == Parsed(W)
  <2>1. n \in Nat /\ NoArguments \in A /\ step \in [A \X (1 .. n) -> A] BY <1>1, <1>3
  <2> HIDE DEF A
  <2>2. \E F : Solves(F, n, A, NoArguments, step) BY <2>1, FoldExists
  <2> QED BY <2>2 DEF A, Solves
<1>6. Is(F)
  <2>1. \A s \in SUBSET (1 .. n) : s # {} => Max(s) \in 1 .. n
    BY <1>1, LastIsOne
  <2>2. \A s \in SUBSET (1 .. n) : F[s] = Body(F, s)
    <3> TAKE s \in SUBSET (1 .. n)
    <3>1. s # {} => s \ {Max(s)} \in SUBSET (1 .. n) /\ F[s \ {Max(s)}] \in Parsed(W) OBVIOUS
    <3> QED BY <1>4, <1>5, <2>1, <3>1
  <2> QED BY <1>1, <1>5, <2>2
<1>7. Is(iter)
  <2> HIDE DEF Is
  <2> QED BY <1>6
<1>8. Arguments(args) = iter[DOMAIN args]
  BY DEF Arguments, FoldLeft, MapThenFoldSet
<1>9. \A s \in SUBSET (1 .. n) : iter[s] = Body(iter, s)
  <2> HIDE DEF iter
  <2> QED BY <1>1, <1>7
<1> HIDE DEF iter
<1> DEFINE c == [i \in 0 .. n |-> iter[1 .. i]]
<1>10. c[0] = NoArguments /\ Arguments(args) = c[n]
  <2>1. 1 .. 0 = {} /\ {} \in SUBSET (1 .. n) OBVIOUS
  <2>2. c[0] = iter[{}] /\ c[n] = iter[1 .. n] BY <1>1, <2>1
  <2>3. iter[{}] = NoArguments BY <1>9, <2>1
  <2> QED BY <1>1, <1>8, <2>2, <2>3
<1>11. \A i \in 1 .. n : c[i] = Argument(c[i - 1], args[i])
  <2> TAKE i \in 1 .. n
  <2>1. /\ 1 .. i \in SUBSET (1 .. n) /\ 1 .. i # {}
        /\ Max(1 .. i) = i /\ (1 .. i) \ {i} = 1 .. i - 1
    BY <1>1, FoldIsChain
  <2>2. iter[1 .. i] = Argument(iter[1 .. i - 1], args[i])
    <3>1. iter[1 .. i] = Body(iter, 1 .. i) BY <1>9, <2>1
    <3> QED BY <2>1, <3>1
  <2>3. c[i] = iter[1 .. i] /\ c[i - 1] = iter[1 .. i - 1] BY <1>1
  <2> HIDE DEF c
  <2> QED BY <2>2, <2>3
<1>12. c \in [0 .. n -> Parsed(W)]
  <2> HIDE DEF c, Body
  <2> DEFINE typed == {i \in 0 .. n : c[i] \in Parsed(W)}
  <2>1. 0 \in typed
    <3>1. c[0] \in Parsed(W) /\ 0 \in 0 .. n BY <1>1, <1>10
    <3> QED BY <3>1
  <2>2. \A i \in 1 .. n : i - 1 \in typed => i \in typed
    <3> TAKE i \in 1 .. n
    <3>1. args[i] \in Args(W) BY <1>1
    <3> HAVE i - 1 \in typed
    <3>2. c[i - 1] \in Parsed(W) /\ c[i] = Argument(c[i - 1], args[i]) /\ i \in 0 .. n
      BY <1>1, <1>11
    <3>3. c[i] \in Parsed(W) BY <1>2, <3>1, <3>2
    <3> QED BY <3>2, <3>3
  <2>3. \A i \in 0 .. n : i \in typed
    <3> HIDE DEF typed
    <3> QED BY <1>1, <2>1, <2>2, UpTo
  <2> QED BY <2>3 DEF c
<1> HIDE DEF c
<1> QED BY <1>10, <1>11, <1>12 DEF n

\* add: "yes" was among the arguments, and a number that is selected came after
\* "--select".
LEMMA ArgumentsSay ==
    ASSUME NEW W, NEW args \in Seq(Args(W))
    PROVE  LET parsed == Arguments(args)
           IN  /\ parsed \in Parsed(W)
               /\ parsed.yes => \E i \in DOMAIN args : args[i].word = "--yes"
               /\ parsed.select # -1 =>
                    \E i \in DOMAIN args \ {1} :
                        /\ args[i].number /\ args[i].value = parsed.select
                        /\ args[i - 1].word = "--select"
<1>1. PICK c \in [0 .. Len(args) -> Parsed(W)] :
        /\ c[0] = NoArguments /\ Arguments(args) = c[Len(args)]
        /\ \A i \in 1 .. Len(args) : c[i] = Argument(c[i - 1], args[i])
  BY ArgumentsIs
<1> DEFINE Yes(i) == c[i].yes => \E k \in 1 .. i : args[k].word = "--yes"
           Wanted(i) == c[i].wants = "--select" => i > 0 /\ args[i].word = "--select"
           Selected(i) ==
             c[i].select # -1 =>
                \E k \in 2 .. i : /\ args[k].number /\ args[k].value = c[i].select
                                   /\ args[k - 1].word = "--select"
           said == {i \in 0 .. Len(args) : Yes(i) /\ Wanted(i) /\ Selected(i)}
<1>2. /\ Len(args) \in Nat /\ DOMAIN args = 1 .. Len(args)
      /\ \A i \in 1 .. Len(args) : args[i] \in Args(W)
  OBVIOUS
<1>3. 0 \in said
  <2>1. NoArguments.yes = FALSE BY DEF NoArguments
  <2>2. NoArguments.wants # "--select" BY DEF NoArguments
  <2>3. NoArguments.select = -1 BY DEF NoArguments
  <2>4. c[0] = NoArguments BY <1>1
  <2>5. Yes(0) /\ Wanted(0) /\ Selected(0) BY <2>1, <2>2, <2>3, <2>4
  <2> HIDE DEF Yes, Wanted, Selected
  <2> QED BY <1>2, <2>5
<1>4. ASSUME NEW i \in 1 .. Len(args), i - 1 \in said PROVE i \in said
  <2> DEFINE acc == c[i - 1]
             arg == args[i]
  <2>1. /\ i - 1 \in 0 .. Len(args) /\ i \in 0 .. Len(args) /\ i \in Nat
        /\ Yes(i - 1) /\ Wanted(i - 1) /\ Selected(i - 1)
    BY <1>2, <1>4
  <2>2. acc \in Parsed(W) /\ c[i] = Argument(acc, arg) BY <1>1, <2>1
  <2>3. /\ 1 .. i - 1 \subseteq 1 .. i /\ 2 .. i - 1 \subseteq 2 .. i /\ i \in 1 .. i
    BY <2>1
  <2>4. Yes(i)
    <3>1. c[i].yes => acc.yes \/ arg.word = "--yes" BY <2>2 DEF Argument, Parsed
    <3> QED BY <2>1, <2>3, <3>1
  <2>5. Wanted(i)
    <3>1. c[i].wants = "--select" => arg.word = "--select" BY <2>2 DEF Argument, Parsed
    <3> QED BY <2>1, <3>1
  <2>6. Selected(i)
    <3>1. \/ c[i].select = acc.select
          \/ acc.wants = "--select" /\ arg.number /\ c[i].select = arg.value
      BY <2>2 DEF Argument, Parsed
    <3>2. CASE c[i].select = acc.select BY <2>1, <2>3, <3>2
    <3>3. CASE acc.wants = "--select" /\ arg.number /\ c[i].select = arg.value
      <4>1. i - 1 > 0 /\ args[i - 1].word = "--select" BY <2>1, <3>3
      <4>2. i \in 2 .. i BY <2>1, <4>1
      <4> QED BY <3>3, <4>1, <4>2
    <3> QED BY <3>1, <3>2, <3>3
  <2> HIDE DEF Yes, Wanted, Selected
  <2> QED BY <2>1, <2>4, <2>5, <2>6
<1>5. Len(args) \in said
  <2> HIDE DEF said
  <2>1. \A i \in 0 .. Len(args) : i \in said BY <1>2, <1>3, <1>4, UpTo
  <2> QED BY <1>2, <2>1
<1>6. c[Len(args)] \in Parsed(W) /\ 2 .. Len(args) = DOMAIN args \ {1} BY <1>1, <1>2
<1> QED BY <1>1, <1>2, <1>5, <1>6

\* add and remove (main.go): what CommandIsConfirmed says of a call.
LEMMA CommandStep ==
    ASSUME CallCommand PROVE CommandIsConfirmed'
<1>1. PICK args \in ArgumentLists, answer \in Replies :
        \/ \E typed \in {NoText, Text(0), Text(1), Text(2)}, found \in Founds :
               Calls("select", [args |-> args, typed |-> typed, answer |-> answer, found |-> found],
                     add(args, typed, answer, found))
        \/ Calls("remove", [args |-> args, answer |-> answer], remove(args, answer))
  BY DEF CallCommand
<1>2. \A yes : PromptConfirm(answer, yes) = "yes" => yes \/ answer \in Agreed
  BY DEF PromptConfirm
<1>3. ASSUME NEW typed \in {NoText, Text(0), Text(1), Text(2)}, NEW found \in Founds,
             Calls("select", [args |-> args, typed |-> typed, answer |-> answer, found |-> found],
                   add(args, typed, answer, found))
      PROVE  CommandIsConfirmed'
  <2> DEFINE W == STRING
             parsed == Arguments(args)
             out == add(args, typed, answer, found)
             number == Chosen(parsed.select, typed)
  <2>1. /\ call' = [fn |-> "select", out |-> out,
                    in |-> [args |-> args, typed |-> typed, answer |-> answer, found |-> found]]
    BY <1>3 DEF Calls
  <2>2. /\ parsed \in Parsed(W)
        /\ parsed.yes => \E i \in DOMAIN args : args[i].word = "--yes"
        /\ parsed.select # -1 =>
             \E i \in DOMAIN args \ {1} :
                 /\ args[i].number /\ args[i].value = parsed.select
                 /\ args[i - 1].word = "--select"
    <3>1. args \in Seq(Args(W)) BY ArgumentsAssumption DEF Args
    <3> HIDE DEF W
    <3> QED BY <3>1, ArgumentsSay
  <2>3. ASSUME ~out.err
        PROVE  /\ PromptConfirm(answer, parsed.yes) = "yes"
               /\ out.kind = "aur" =>
                    /\ number.number /\ number.value \in DOMAIN found
                    /\ out.what = found[number.value]
    BY <2>3 DEF add, Nothing
  <2> HIDE DEF out, parsed
  <2>5. ASSUME ~out.err, out.kind = "aur"
        PROVE  \E n \in DOMAIN found :
                  /\ out.what = found[n]
                  /\ \/ typed = Text(n)
                     \/ \E i \in DOMAIN args \ {1} :
                          /\ args[i].number /\ args[i].value = n
                          /\ args[i - 1].word = "--select"
                  /\ (\A i \in DOMAIN args : args[i].word # "--select") => typed = Text(n)
    <3> DEFINE n == number.value
    <3>1. n \in DOMAIN found /\ out.what = found[n] /\ number.number BY <2>3, <2>5
    <3>2. parsed.select \in Int BY <2>2 DEF Parsed
    <3>3. CASE parsed.select < 0
      <4>1. typed = Text(n)
        <5>1. number = typed BY <3>3 DEF Chosen
        <5> QED BY <3>1, <5>1 DEF Text, NoText
      <4> QED BY <3>1, <4>1
    <3>4. CASE ~(parsed.select < 0)
      <4>1. parsed.select # -1 /\ n = parsed.select BY <3>2, <3>4 DEF Chosen, Text
      <4>2. PICK i \in DOMAIN args \ {1} :
              args[i].number /\ args[i].value = n /\ args[i - 1].word = "--select"
        BY <2>2, <4>1
      <4>3. i - 1 \in DOMAIN args
        <5>1. args \in Seq(Args(W)) BY ArgumentsAssumption DEF Args
        <5> HIDE DEF W
        <5> QED BY <5>1
      <4> HIDE DEF n
      <4> QED BY <3>1, <4>2, <4>3
    <3> QED BY <3>3, <3>4
  <2>6. ~out.err => answer \in Agreed \/ \E i \in DOMAIN args : args[i].word = "--yes"
    BY <1>2, <2>2, <2>3
  <2> QED BY <2>1, <2>5, <2>6 DEF CommandIsConfirmed
<1>4. ASSUME Calls("remove", [args |-> args, answer |-> answer], remove(args, answer))
      PROVE  CommandIsConfirmed'
  <2>1. call' = [fn |-> "remove", out |-> remove(args, answer),
                 in |-> [args |-> args, answer |-> answer]]
    BY <1>4 DEF Calls
  <2> DEFINE out == remove(args, answer)
  <2>2. ~out.err => /\ PromptConfirm(answer, \E i \in DOMAIN args : args[i].word = "--yes") = "yes"
                    /\ out.kind = "remove"
    BY DEF remove, Nothing
  <2>3. ~out.err => answer \in Agreed \/ \E i \in DOMAIN args : args[i].word = "--yes"
    BY <1>2, <2>2
  <2>4. call'.out = out /\ call'.in.args = args /\ call'.in.answer = answer BY <2>1
  <2>5. ~out.err => out.kind # "aur" BY <2>2
  <2> HIDE DEF out
  <2> QED BY <2>3, <2>4, <2>5 DEF CommandIsConfirmed
<1> QED BY <1>1, <1>3, <1>4

-----------------------------------------------------------------------------
(* Repository entries. *)

\* The sequence made of a finite set has no other elements.
LEMMA SeqOfSet ==
    ASSUME NEW S, IsFiniteSet(S)
    PROVE  SetToSeq(S) \in [1 .. Cardinality(S) -> S]
<1> DEFINE Listing(f) == f \in [1 .. Cardinality(S) -> S] /\ IsInjective(f)
<1>1. \E f : Listing(f)
  <2>1. PICK n \in Nat : \E f : f \in Bijection(1 .. n, S) BY FS_NatBijection DEF ExistsBijection
  <2> PICK f : f \in Bijection(1 .. n, S) BY <2>1
  <2>2. n = Cardinality(S) BY <2>1, FS_CountingElements DEF ExistsBijection
  <2>3. f \in [1 .. n -> S] /\ IsInjective(f)
    BY DEF Bijection, Injection, IsInjective
  <2> QED BY <2>2, <2>3
<1>2. SetToSeq(S) = CHOOSE f \in [1 .. Cardinality(S) -> S] : IsInjective(f) BY DEF SetToSeq
<1> QED BY <1>1, <1>2

\* The name in the name of a file.
LEMMA NameOfFile ==
    ASSUME NEW T, NEW n \in Seq(T), n # << >>, NEW a, NEW b, NEW c
    PROVE  packageNameFromArtifact(n \o <<a, b, c>>) = n
<1> DEFINE U == T \cup {a, b, c}
           rest == <<a, b, c>>
           file == n \o rest
<1>1. n \in Seq(U) /\ rest \in Seq(U) /\ Len(rest) = 3 /\ Len(n) \in Nat /\ Len(n) # 0
  <2>1. a \in U /\ b \in U /\ c \in U /\ \A i \in 1 .. Len(n) : n[i] \in U OBVIOUS
  <2>2. Len(n) # 0 /\ Len(n) \in Nat /\ DOMAIN n = 1 .. Len(n) OBVIOUS
  <2> HIDE DEF U
  <2>3. rest \in Seq(U) BY <2>1
  <2>4. n \in Seq(U) BY <2>1, <2>2
  <2> QED BY <2>2, <2>3, <2>4
<1> HIDE DEF rest, U
<1>2. /\ file \in Seq(U) /\ Len(file) = Len(n) + 3
      /\ \A i \in 1 .. Len(n) : file[i] = n[i]
  <2>1. /\ file \in Seq(U) /\ Len(file) = Len(n) + Len(rest)
        /\ \A i \in 1 .. Len(n) + Len(rest) :
             file[i] = IF i <= Len(n) THEN n[i] ELSE rest[i - Len(n)]
    BY <1>1, ConcatProperties
  <2> HIDE DEF file
  <2> QED BY <1>1, <2>1
<1> HIDE DEF file
<1> DEFINE name == SubSeq(file, 1, Len(file) - 3)
<1>3. /\ name \in Seq(U) /\ Len(name) = Len(n)
      /\ \A i \in 1 .. Len(n) : name[i] = file[i]
  BY <1>1, <1>2, SubSeqProperties
<1>4. packageNameFromArtifact(file) = name BY <1>1, <1>2 DEF packageNameFromArtifact
<1> HIDE DEF name
<1>5. name = n BY <1>1, <1>2, <1>3, SeqEqual
<1> QED BY <1>4, <1>5 DEF file, rest

\* removeFromRepository: name by name, all that are named go in the end.
LEMMA OneByOne ==
    ASSUME NEW entries, NEW names, IsFiniteSet(names)
    PROVE  FoldSet(LAMBDA n, left : RepoRemove(left, {n}), entries, names) = entries \ names
<1> DEFINE Body(F, s) == IF s = {} THEN entries
                         ELSE LET x == CHOOSE x \in s : TRUE
                              IN  RepoRemove(F[s \ {x}], {x})
           Is(F) == F = [s \in SUBSET names |-> Body(F, s)]
           iter == CHOOSE F : Is(F)
<1>1. \A left, x : RepoRemove(left, {x}) = left \ {x} BY DEF RepoRemove
<1>2. \E F : Is(F)
  <2> DEFINE F == [s \in SUBSET names |-> entries \ s]
  <2>1. ASSUME NEW s \in SUBSET names PROVE F[s] = Body(F, s)
    <3>1. CASE s = {} BY <3>1
    <3>2. CASE s # {}
      <4> DEFINE x == CHOOSE x \in s : TRUE
      <4>1. x \in s BY <3>2
      <4>2. Body(F, s) = RepoRemove(F[s \ {x}], {x}) BY <3>2
      <4> HIDE DEF x
      <4>3. s \ {x} \in SUBSET names OBVIOUS
      <4>4. F[s \ {x}] = entries \ (s \ {x}) BY <4>3
      <4>5. F[s] = entries \ s OBVIOUS
      <4> HIDE DEF F
      <4>6. RepoRemove(F[s \ {x}], {x}) = (entries \ (s \ {x})) \ {x} BY <1>1, <4>4
      <4>7. (entries \ (s \ {x})) \ {x} = entries \ s BY <4>1
      <4> QED BY <4>2, <4>5, <4>6, <4>7
    <3> QED BY <3>1, <3>2
  <2>2. F = [s \in SUBSET names |-> Body(F, s)]
    <3> HIDE DEF Body
    <3> QED BY <2>1
  <2> HIDE DEF F, Body
  <2> QED BY <2>2
<1>3. Is(iter)
  <2> HIDE DEF Is
  <2> QED BY <1>2
<1>4. FoldSet(LAMBDA n, left : RepoRemove(left, {n}), entries, names) = iter[names]
  BY DEF FoldSet, MapThenFoldSet
<1>5. \A s \in SUBSET names : iter[s] = Body(iter, s)
  <2> HIDE DEF iter, Body
  <2> QED BY <1>3
<1> HIDE DEF iter
<1> DEFINE wrong == {s \in SUBSET names : iter[s] # entries \ s}
           sizes == {Cardinality(s) : s \in wrong}
<1>6. \A s \in SUBSET names : IsFiniteSet(s) /\ Cardinality(s) \in Nat
  BY FS_Subset, FS_CardinalityType
<1>7. wrong = {}
  <2> SUFFICES ASSUME wrong # {} PROVE FALSE OBVIOUS
  <2>1. sizes \in SUBSET Nat /\ sizes # {} BY <1>6
  <2>2. PICK least \in sizes : \A y \in sizes : least <= y
    <3> HIDE DEF sizes
    <3> QED BY <2>1, LeastOf
  <2>3. PICK s \in wrong : least = Cardinality(s) BY <2>2
  <2>4. s \in SUBSET names /\ iter[s] # entries \ s BY <2>3
  <2>5. s # {} BY <1>5, <2>4
  <2>6. PICK x \in s : iter[s] = RepoRemove(iter[s \ {x}], {x})
    <3> DEFINE x == CHOOSE x \in s : TRUE
    <3>1. x \in s BY <2>5
    <3>2. Body(iter, s) = RepoRemove(iter[s \ {x}], {x}) BY <2>5
    <3>3. iter[s] = Body(iter, s) BY <1>5, <2>4
    <3> HIDE DEF x, Body
    <3> QED BY <3>1, <3>2, <3>3
  <2>7. s \ {x} \in SUBSET names /\ Cardinality(s \ {x}) = Cardinality(s) - 1
    BY <1>6, <2>4, FS_RemoveElement
  <2>8. s \ {x} \notin wrong
    <3>1. ASSUME s \ {x} \in wrong PROVE FALSE
      <4>1. Cardinality(s \ {x}) \in sizes BY <3>1
      <4>2. Cardinality(s) \in Nat /\ Cardinality(s) <= Cardinality(s) - 1
        BY <1>6, <2>2, <2>3, <2>4, <2>7, <4>1
      <4> QED BY <4>2
    <3> QED BY <3>1
  <2>9. iter[s \ {x}] = entries \ (s \ {x}) BY <2>7, <2>8
  <2>10. iter[s] = (entries \ (s \ {x})) \ {x} BY <1>1, <2>6, <2>9
  <2>11. (entries \ (s \ {x})) \ {x} = entries \ s BY <2>6
  <2> QED BY <2>4, <2>10, <2>11
<1> QED BY <1>4, <1>7

\* RemovePackage: what EntriesAreRemoved says of a call.
LEMMA RemoveStep ==
    ASSUME CallRemove PROVE EntriesAreRemoved'
<1>1. PICK names \in (SUBSET EntryNames) \ {{}} :
        \E published \in SUBSET names, others \in SUBSET (EntryNames \ names) :
          LET first == CHOOSE n \in names : TRUE
              splits == SetToSeq(names)
              files == {FileOf(n, "2") : n \in published} \cup {SignatureOf(n, "2") : n \in published}
          IN  \E metadata \in {[split_packages |-> splits], [split_packages |-> <<first>>], << >>} :
                  Calls("repo", [names |-> names, published |-> published, others |-> others],
                        removeFromRepository(published \cup others,
                                             RepoNames(first, {metadata}, files)))
  BY DEF CallRemove
<1> DEFINE first == CHOOSE n \in names : TRUE
           splits == SetToSeq(names)
           Files(published) == {FileOf(n, "2") : n \in published} \cup {SignatureOf(n, "2") : n \in published}
<1>2. PICK published \in SUBSET names, others \in SUBSET (EntryNames \ names),
           metadata \in {[split_packages |-> splits], [split_packages |-> <<first>>], << >>} :
        Calls("repo", [names |-> names, published |-> published, others |-> others],
              removeFromRepository(published \cup others,
                                   RepoNames(first, {metadata}, Files(published))))
  BY <1>1
<1> DEFINE gone == RepoNames(first, {metadata}, Files(published))
           entries == published \cup others
           out == removeFromRepository(entries, gone)
<1>3. names \subseteq EntryNames /\ first \in names
  <2>1. names \subseteq EntryNames /\ \E n : n \in names BY <1>1
  <2> QED BY <2>1
<1>4. \A n \in EntryNames : n \in Seq(STRING) /\ n # << >> BY EntriesAssumption
<1>5. IsFiniteSet(names) BY <1>3, EntriesAssumption, FS_Subset
<1> HIDE DEF first
<1>6. splitPackagesFromMetadata(metadata) \subseteq names
  <2>1. CASE metadata = << >> BY <2>1 DEF splitPackagesFromMetadata
  <2>2. CASE metadata = [split_packages |-> <<first>>]
    <3>1. metadata["split_packages"] = <<first>> BY <2>2
    <3>2. ToSet(<<first>>) \subseteq names BY <1>3 DEF ToSet
    <3> QED BY <3>1, <3>2 DEF splitPackagesFromMetadata
  <2>3. CASE metadata = [split_packages |-> splits]
    <3>1. metadata["split_packages"] = splits BY <2>3
    <3>2. splits \in [1 .. Cardinality(names) -> names] BY <1>5, SeqOfSet
    <3>3. ToSet(splits) \subseteq names BY <3>2 DEF ToSet
    <3> QED BY <3>1, <3>3 DEF splitPackagesFromMetadata
  <2> QED BY <2>1, <2>2, <2>3
<1>7. {packageNameFromArtifact(f) : f \in Files(published)} = published
  <2> DEFINE T == STRING
  <2>1. \A n \in published : n \in Seq(T) /\ n # << >> BY <1>3, <1>4
  <2> HIDE DEF T
  <2>2. \A n \in published : /\ packageNameFromArtifact(FileOf(n, "2")) = n
                             /\ packageNameFromArtifact(SignatureOf(n, "2")) = n
    BY <2>1, NameOfFile DEF FileOf, SignatureOf
  <2> QED BY <2>2
<1>8. gone \subseteq names /\ published \subseteq gone
  <2> HIDE DEF Files
  <2>1. gone = ({first} \cup splitPackagesFromMetadata(metadata) \cup published) \ {<< >>}
    <3> DEFINE listed == UNION {splitPackagesFromMetadata(m) : m \in {metadata}}
               filed == {packageNameFromArtifact(f) : f \in Files(published)}
    <3>1. gone = ({first} \cup listed \cup filed) \ {<< >>} BY DEF RepoNames
    <3>2. listed = splitPackagesFromMetadata(metadata) OBVIOUS
    <3>3. filed = published BY <1>7
    <3> HIDE DEF gone, listed, filed
    <3> QED BY <3>1, <3>2, <3>3
  <2>2. \A n \in published : n # << >> BY <1>3, <1>4
  <2> HIDE DEF gone
  <2> QED BY <1>3, <1>6, <2>1, <2>2
<1>9. IsFiniteSet(gone) BY <1>5, <1>8, FS_Subset
<1> HIDE DEF gone, Files
<1>10. out = entries \ gone
  BY <1>9, OneByOne DEF removeFromRepository, RepoRemove
<1>11. entries \ gone = others BY <1>8
<1>12. call' = [fn |-> "repo", out |-> out,
                in |-> [names |-> names, published |-> published, others |-> others]]
  BY <1>2 DEF Calls, gone
<1> HIDE DEF out, entries
<1> QED BY <1>10, <1>11, <1>12 DEF EntriesAreRemoved

-----------------------------------------------------------------------------
(* The theorems. *)

\* A call is about one function.
LEMMA OneFunction ==
    ASSUME LibraryNext
    PROVE  /\ CallHostRoot \/ call'.fn # "host"
           /\ CallUpdater \/ call'.fn # "updater"
           /\ CallCPUCap \/ call'.fn # "cpu"
           /\ CallImportPath \/ call'.fn # "import"
           /\ CallCommand \/ call'.fn \notin {"select", "remove"}
           /\ CallRemove \/ call'.fn # "repo"
           /\ CallParsePackage \/ call'.fn # "parse"
<1>1. \A fn, in, out : Calls(fn, in, out) => call'.fn = fn BY DEF Calls
<1>2. CASE CallParsePackage BY <1>1, <1>2 DEF CallParsePackage
<1>3. CASE CallHostRoot BY <1>1, <1>3 DEF CallHostRoot
<1>4. CASE CallImportPath BY <1>1, <1>4 DEF CallImportPath
<1>5. CASE CallUpdater BY <1>1, <1>5 DEF CallUpdater
<1>6. CASE CallCPUCap BY <1>1, <1>6 DEF CallCPUCap
<1>7. CASE CallCommand BY <1>1, <1>7 DEF CallCommand
<1>8. CASE CallRemove
  <2> USE <1>1
  <2> QED BY <1>8 DEF CallRemove
<1> QED BY <1>2, <1>3, <1>4, <1>5, <1>6, <1>7, <1>8 DEF LibraryNext

\* hostPathFromBindMounts and resolveHostDataRoot: for any mounts, docker is given
\* the directory that the worker sees, by the innermost of the mounts over it.
THEOREM HostRootSeen == LibrarySpec => []HostRootIsSeen
<1>1. LibraryInit => HostRootIsSeen BY DEF LibraryInit, NoCall, HostRootIsSeen
<1>2. HostRootIsSeen /\ [LibraryNext]_call => HostRootIsSeen'
  <2>1. LibraryNext => HostRootIsSeen' BY HostRootStep, OneFunction DEF HostRootIsSeen
  <2>2. HostRootIsSeen /\ UNCHANGED call => HostRootIsSeen' BY DEF HostRootIsSeen
  <2> QED BY <2>1, <2>2
<1> QED BY <1>1, <1>2, PTL DEF LibrarySpec

\* runLocalUpdater: for any files and accounts, an updater does not run as root,
\* and of the files it is left none is root's, none taken from somebody else.
THEOREM UpdaterNotRoot == LibrarySpec => []UpdaterIsNotRoot
<1>1. LibraryInit => UpdaterIsNotRoot BY DEF LibraryInit, NoCall, UpdaterIsNotRoot
<1>2. UpdaterIsNotRoot /\ [LibraryNext]_call => UpdaterIsNotRoot'
  <2>1. LibraryNext => UpdaterIsNotRoot' BY UpdaterStep, OneFunction DEF UpdaterIsNotRoot
  <2>2. UpdaterIsNotRoot /\ UNCHANGED call => UpdaterIsNotRoot' BY DEF UpdaterIsNotRoot
  <2> QED BY <2>1, <2>2
<1> QED BY <1>1, <1>2, PTL DEF LibrarySpec

\* resolveCPUCap: for any percentage and number of CPUs, the limit is not above
\* all of them, and from one percent on it is a limit.
THEOREM CapIsALimit == LibrarySpec => []CapLimits
<1>1. LibraryInit => CapLimits BY DEF LibraryInit, NoCall, CapLimits
<1>2. CapLimits /\ [LibraryNext]_call => CapLimits'
  <2>1. LibraryNext => CapLimits' BY CapStep, OneFunction DEF CapLimits
  <2>2. CapLimits /\ UNCHANGED call => CapLimits' BY DEF CapLimits
  <2> QED BY <2>1, <2>2
<1> QED BY <1>1, <1>2, PTL DEF LibrarySpec

\* PreviewLocal: for any import root and any path that is given, what is read
\* lies below the root.
THEOREM ImportsBelow == LibrarySpec => []ImportsStayBelow
<1>1. LibraryInit => ImportsStayBelow BY DEF LibraryInit, NoCall, ImportsStayBelow
<1>2. ImportsStayBelow /\ [LibraryNext]_call => ImportsStayBelow'
  <2>1. LibraryNext => ImportsStayBelow' BY ImportStep, OneFunction DEF ImportsStayBelow
  <2>2. ImportsStayBelow /\ UNCHANGED call => ImportsStayBelow' BY DEF ImportsStayBelow
  <2> QED BY <2>1, <2>2
<1> QED BY <1>1, <1>2, PTL DEF LibrarySpec

\* add and remove: for any arguments, answers and results of a search, nothing
\* happens unconfirmed, and the package added is the one of the number.
THEOREM CommandConfirmed == LibrarySpec => []CommandIsConfirmed
<1>1. LibraryInit => CommandIsConfirmed BY DEF LibraryInit, NoCall, CommandIsConfirmed
<1>2. CommandIsConfirmed /\ [LibraryNext]_call => CommandIsConfirmed'
  <2>1. LibraryNext => CommandIsConfirmed' BY CommandStep, OneFunction DEF CommandIsConfirmed
  <2>2. CommandIsConfirmed /\ UNCHANGED call => CommandIsConfirmed' BY DEF CommandIsConfirmed
  <2> QED BY <2>1, <2>2
<1> QED BY <1>1, <1>2, PTL DEF LibrarySpec

\* removeFromRepository: for any names, published or not, the entries of the
\* package go and those of others stay.
THEOREM EntriesRemoved == LibrarySpec => []EntriesAreRemoved
<1>1. LibraryInit => EntriesAreRemoved BY DEF LibraryInit, NoCall, EntriesAreRemoved
<1>2. EntriesAreRemoved /\ [LibraryNext]_call => EntriesAreRemoved'
  <2>1. LibraryNext => EntriesAreRemoved' BY RemoveStep, OneFunction DEF EntriesAreRemoved
  <2>2. EntriesAreRemoved /\ UNCHANGED call => EntriesAreRemoved' BY DEF EntriesAreRemoved
  <2> QED BY <2>1, <2>2
<1> QED BY <1>1, <1>2, PTL DEF LibrarySpec
=============================================================================
