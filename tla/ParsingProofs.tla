---------------------------- MODULE ParsingProofs ----------------------------
(***************************************************************************)
(* Both files of a package give the same preview.  A fold of the community *)
(* modules is the end of a chain of steps (IsChain, Run), and a chain can  *)
(* be reasoned about from its beginning: what has been taken off a value,  *)
(* which words have been spelled, which dependencies are listed so far.    *)
(***************************************************************************)
EXTENDS LibraryProofs

-----------------------------------------------------------------------------
(* Chains of steps, a step being a function of a value and an element.     *)

Steps(A, T) == [A \X T -> A]
Images(A, B) == [A -> B]

IsChain(c, step, seq) ==
    /\ DOMAIN c = 0 .. Len(seq)
    /\ \A i \in 1 .. Len(seq) : c[i] = step[<<c[i - 1], seq[i]>>]

Chained(A, step, base, seq) ==
    \E c \in [0 .. Len(seq) -> A] : c[0] = base /\ IsChain(c, step, seq)

\* What the steps for a sequence come to.
Run(step, base, seq) == (CHOOSE c : c[0] = base /\ IsChain(c, step, seq))[Len(seq)]

\* One sequence goes on with another, after k elements.
GoesOn(s, k, t) == k + Len(t) <= Len(s) /\ \A i \in 1 .. Len(t) : s[k + i] = t[i]

Follows(c, k, d, n) == c[k] = d[0] => c[k + n] = d[n]

\* The equation of a fold, as far as its values are of its type.
FoldsBy(F, n, A, base, step) ==
    /\ F[{}] = base
    /\ \A s \in SUBSET (1 .. n) : s # {} /\ F[s \ {Max(s)}] \in A =>
          F[s] = step[<<F[s \ {Max(s)}], Max(s)>>]
StepsOn(F, n, A, step) ==
    \A i \in 0 .. n : F[1 .. i] \in A /\ (i # 0 => F[1 .. i] = step[<<F[1 .. i - 1], i>>])

StepAt(step, A, seq) == [p \in A \X (1 .. Len(seq)) |-> step[<<p[1], seq[p[2]]>>]]

\* A run comes to the image of what another comes to.
SameRuns(step, base, s, other, t, image) ==
    Run(other, image[base], t) = image[Run(step, base, s)]

\* A step makes of values what another makes of their images.
Alike(step, A, s, other, t, image) ==
    /\ Len(t) = Len(s)
    /\ \A i \in 1 .. Len(s) : \A a \in A :
          image[step[<<a, s[i]>>]] = other[<<image[a], t[i]>>]

Appends(T) == [p \in Seq(T) \X T |-> Append(p[1], p[2])]

\* A function of sets of positions that satisfies the equation of a fold is a
\* chain of its steps.
LEMMA FoldStepsOn ==
    ASSUME NEW n \in Nat, NEW A, NEW base \in A, NEW step \in [A \X (1 .. n) -> A], NEW F,
           FoldsBy(F, n, A, base, step)
    PROVE  StepsOn(F, n, A, step)
<1> DEFINE typed == {i \in 0 .. n : F[1 .. i] \in A}
<1>1. 0 \in typed
  <2>1. 1 .. 0 = {} /\ 0 \in 0 .. n OBVIOUS
  <2> QED BY <2>1 DEF FoldsBy
<1>2. ASSUME NEW i \in 1 .. n, F[1 .. i - 1] \in A
      PROVE  F[1 .. i] = step[<<F[1 .. i - 1], i>>] /\ F[1 .. i] \in A
  <2>1. /\ 1 .. i \in SUBSET (1 .. n) /\ 1 .. i # {}
        /\ Max(1 .. i) = i /\ (1 .. i) \ {i} = 1 .. i - 1
    BY FoldIsChain
  <2>2. F[1 .. i] = step[<<F[1 .. i - 1], i>>] BY <1>2, <2>1 DEF FoldsBy
  <2>3. <<F[1 .. i - 1], i>> \in A \X (1 .. n) BY <1>2
  <2> QED BY <2>2, <2>3
<1>3. ASSUME NEW i \in 1 .. n, i - 1 \in typed PROVE i \in typed
  <2>1. F[1 .. i - 1] \in A /\ i \in 0 .. n BY <1>3
  <2> QED BY <1>2, <2>1
<1>4. \A i \in 0 .. n : i \in typed
  <2> HIDE DEF typed
  <2> QED BY <1>1, <1>3, UpTo
<1>5. ASSUME NEW i \in 0 .. n, i # 0 PROVE F[1 .. i] = step[<<F[1 .. i - 1], i>>]
  <2>1. i \in 1 .. n /\ i - 1 \in 0 .. n BY <1>5
  <2>2. F[1 .. i - 1] \in A BY <1>4, <2>1
  <2> QED BY <1>2, <2>1, <2>2
<1> QED BY <1>4, <1>5 DEF StepsOn

\* There is a chain for every sequence.
LEMMA ChainExists ==
    ASSUME NEW A, NEW T, NEW step \in Steps(A, T), NEW base \in A, NEW seq \in Seq(T)
    PROVE  Chained(A, step, base, seq)
<1> DEFINE n == Len(seq)
           at == [p \in A \X (1 .. n) |-> step[<<p[1], seq[p[2]]>>]]
<1>1. n \in Nat /\ \A i \in 1 .. n : seq[i] \in T OBVIOUS
<1>2. at \in [A \X (1 .. n) -> A]
  <2>1. ASSUME NEW p \in A \X (1 .. n) PROVE step[<<p[1], seq[p[2]]>>] \in A
    <3>1. <<p[1], seq[p[2]]>> \in A \X T BY <1>1
    <3> QED BY <3>1 DEF Steps
  <2> QED BY <2>1
<1>3. \A a \in A, i \in 1 .. n : at[<<a, i>>] = step[<<a, seq[i]>>] OBVIOUS
<1> HIDE DEF n, at
<1>4. PICK F : Solves(F, n, A, base, at) BY <1>1, <1>2, FoldExists
<1>5. F[{}] = base
  <2>1. {} \in SUBSET (1 .. n) OBVIOUS
  <2> QED BY <1>4, <2>1 DEF Solves
<1>6. \A s \in SUBSET (1 .. n) : s # {} => F[s] = at[<<F[s \ {Max(s)}], Max(s)>>]
  BY <1>4 DEF Solves
<1>7. \A i \in 0 .. n : F[1 .. i] \in A /\ (i # 0 => F[1 .. i] = at[<<F[1 .. i - 1], i>>])
  <2>1. FoldsBy(F, n, A, base, at) BY <1>5, <1>6 DEF FoldsBy
  <2>2. StepsOn(F, n, A, at) BY <1>1, <1>2, <2>1, FoldStepsOn
  <2> QED BY <2>2 DEF StepsOn
<1> DEFINE c == [i \in 0 .. n |-> F[1 .. i]]
<1>8. c \in [0 .. n -> A] BY <1>7
<1>9. c[0] = base
  <2>1. 1 .. 0 = {} /\ 0 \in 0 .. n BY <1>1
  <2> QED BY <1>5, <2>1
<1>10. ASSUME NEW i \in 1 .. n PROVE c[i] = step[<<c[i - 1], seq[i]>>]
  <2>1. i \in 0 .. n /\ i # 0 /\ i - 1 \in 0 .. n BY <1>1
  <2>2. c[i] = F[1 .. i] /\ c[i - 1] = F[1 .. i - 1] BY <2>1
  <2>3. F[1 .. i] = at[<<F[1 .. i - 1], i>>] /\ F[1 .. i - 1] \in A BY <1>7, <2>1
  <2> HIDE DEF c
  <2> QED BY <1>3, <2>2, <2>3
<1> HIDE DEF c
<1>11. c \in [0 .. Len(seq) -> A] /\ c[0] = base /\ IsChain(c, step, seq)
  BY <1>8, <1>9, <1>10 DEF IsChain, n
<1> QED BY <1>11 DEF Chained

\* Where a chain has come to the start of another and goes on with its elements,
\* it comes to the same.
LEMMA ChainFollows ==
    ASSUME NEW step, NEW s, Len(s) \in Nat, NEW t, Len(t) \in Nat,
           NEW k \in Nat, GoesOn(s, k, t),
           NEW c, IsChain(c, step, s), NEW d, IsChain(d, step, t)
    PROVE  Follows(c, k, d, Len(t))
<1> SUFFICES ASSUME c[k] = d[0] PROVE c[k + Len(t)] = d[Len(t)] BY DEF Follows
<1> DEFINE n == Len(t)
           same == {i \in 0 .. n : c[k + i] = d[i]}
<1>1. n \in Nat /\ Len(s) \in Nat /\ k + n <= Len(s) BY DEF GoesOn
<1>2. 0 \in same
  <2>1. k + 0 = k OBVIOUS
  <2> QED BY <1>1, <2>1
<1>3. ASSUME NEW i \in 1 .. n, i - 1 \in same PROVE i \in same
  <2>1. k + i \in 1 .. Len(s) /\ (k + i) - 1 = k + (i - 1) /\ i \in 0 .. n BY <1>1
  <2>2. c[k + i] = step[<<c[k + (i - 1)], s[k + i]>>] BY <2>1 DEF IsChain
  <2>3. d[i] = step[<<d[i - 1], t[i]>>] BY DEF IsChain
  <2>4. c[k + (i - 1)] = d[i - 1] /\ s[k + i] = t[i] BY <1>3 DEF GoesOn
  <2> QED BY <2>1, <2>2, <2>3, <2>4
<1>4. n \in same
  <2> HIDE DEF same
  <2>1. \A i \in 0 .. n : i \in same BY <1>1, <1>2, <1>3, UpTo
  <2> QED BY <1>1, <2>1
<1> QED BY <1>4

\* All chains from one start come to the same.
LEMMA RunOfChain ==
    ASSUME NEW step, NEW seq, Len(seq) \in Nat, NEW c, IsChain(c, step, seq)
    PROVE  c[Len(seq)] = Run(step, c[0], seq)
<1> DEFINE d == CHOOSE x : x[0] = c[0] /\ IsChain(x, step, seq)
<1>1. d[0] = c[0] /\ IsChain(d, step, seq) OBVIOUS
<1>2. Run(step, c[0], seq) = d[Len(seq)] BY DEF Run
<1> HIDE DEF d
<1>3. GoesOn(seq, 0, seq) /\ 0 \in Nat /\ 0 + Len(seq) = Len(seq) BY DEF GoesOn
<1>4. Follows(c, 0, d, Len(seq)) BY <1>1, <1>3, ChainFollows
<1> QED BY <1>1, <1>2, <1>3, <1>4 DEF Follows

\* A run over nothing.
LEMMA RunOfNothing == ASSUME NEW step, NEW base PROVE Run(step, base, << >>) = base
<1> DEFINE none == << >>
           c == [i \in 0 .. 0 |-> base]
<1>1. Len(none) = 0 /\ 1 .. 0 = {} OBVIOUS
<1> HIDE DEF none
<1>2. IsChain(c, step, none) BY <1>1 DEF IsChain
<1>3. c[0] = base OBVIOUS
<1> HIDE DEF c
<1>4. Len(none) \in Nat BY <1>1
<1>5. c[Len(none)] = Run(step, c[0], none) BY <1>2, <1>4, RunOfChain
<1> QED BY <1>1, <1>3, <1>5 DEF none

\* The type of a run.
LEMMA RunIs ==
    ASSUME NEW A, NEW T, NEW step \in Steps(A, T), NEW base \in A, NEW seq \in Seq(T)
    PROVE  Run(step, base, seq) \in A
<1>1. PICK c \in [0 .. Len(seq) -> A] : c[0] = base /\ IsChain(c, step, seq)
  <2>1. Chained(A, step, base, seq) BY ChainExists
  <2> QED BY <2>1 DEF Chained
<1>2. Len(seq) \in Nat OBVIOUS
<1>3. c[Len(seq)] = Run(step, base, seq) BY <1>1, <1>2, RunOfChain
<1> QED BY <1>1, <1>2, <1>3

\* A run over one sequence after another.
LEMMA RunConcat ==
    ASSUME NEW A, NEW T, NEW step \in Steps(A, T), NEW base \in A,
           NEW s \in Seq(T), NEW t \in Seq(T)
    PROVE  Run(step, base, s \o t) = Run(step, Run(step, base, s), t)
<1> DEFINE st == s \o t
           b == Run(step, base, s)
<1>1. /\ st \in Seq(T) /\ Len(st) = Len(s) + Len(t)
      /\ Len(s) \in Nat /\ Len(t) \in Nat /\ Len(st) \in Nat
      /\ GoesOn(st, 0, s) /\ GoesOn(st, Len(s), t)
  BY ConcatProperties DEF GoesOn
<1>2. b \in A BY RunIs
<1> HIDE DEF st, b
<1>3. PICK c \in [0 .. Len(st) -> A] : c[0] = base /\ IsChain(c, step, st)
  BY <1>1, ChainExists DEF Chained
<1>4. PICK d \in [0 .. Len(s) -> A] : d[0] = base /\ IsChain(d, step, s)
  BY ChainExists DEF Chained
<1>5. PICK e \in [0 .. Len(t) -> A] : e[0] = b /\ IsChain(e, step, t)
  BY <1>2, ChainExists DEF Chained
<1>6. c[Len(s)] = b
  <2>1. Follows(c, 0, d, Len(s)) BY <1>1, <1>3, <1>4, ChainFollows
  <2>2. d[Len(s)] = b BY <1>1, <1>4, RunOfChain DEF b
  <2> QED BY <1>1, <1>3, <1>4, <2>1, <2>2 DEF Follows
<1>7. c[Len(s) + Len(t)] = e[Len(t)]
  <2>1. Follows(c, Len(s), e, Len(t)) BY <1>1, <1>3, <1>5, ChainFollows
  <2> QED BY <1>5, <1>6, <2>1 DEF Follows
<1>8. c[Len(st)] = Run(step, base, st) BY <1>1, <1>3, RunOfChain
<1>9. e[Len(t)] = Run(step, b, t) BY <1>1, <1>5, RunOfChain
<1> QED BY <1>1, <1>7, <1>8, <1>9 DEF st, b

\* A run over one element more.
LEMMA RunAppend ==
    ASSUME NEW A, NEW T, NEW step \in Steps(A, T), NEW base \in A,
           NEW s \in Seq(T), NEW x \in T
    PROVE  Run(step, base, Append(s, x)) = step[<<Run(step, base, s), x>>]
<1> DEFINE b == Run(step, base, s)
           one == <<x>>
<1>1. b \in A BY RunIs
<1>2. one \in Seq(T) /\ Len(one) = 1 /\ one[1] = x /\ Append(s, x) = s \o one OBVIOUS
<1> HIDE DEF one, b
<1>3. PICK c \in [0 .. Len(one) -> A] : c[0] = b /\ IsChain(c, step, one)
  <2>1. Chained(A, step, b, one) BY <1>1, <1>2, ChainExists
  <2> QED BY <2>1 DEF Chained
<1>4. c[1] = step[<<b, x>>]
  <2>1. 1 \in 1 .. Len(one) /\ 1 - 1 = 0 BY <1>2
  <2> QED BY <1>2, <1>3, <2>1 DEF IsChain
<1>5. c[Len(one)] = Run(step, b, one) BY <1>2, <1>3, RunOfChain
<1>6. Run(step, base, s \o one) = Run(step, b, one) BY <1>2, RunConcat DEF b
<1> QED BY <1>2, <1>4, <1>5, <1>6 DEF b

\* A function of sets of positions that satisfies the equation of a fold comes to
\* what the run does.
LEMMA FoldRuns ==
    ASSUME NEW A, NEW T, NEW step \in Steps(A, T), NEW base \in A, NEW seq \in Seq(T), NEW F,
           FoldsBy(F, Len(seq), A, base, StepAt(step, A, seq))
    PROVE  F[DOMAIN seq] = Run(step, base, seq)
<1> DEFINE n == Len(seq)
           at == StepAt(step, A, seq)
<1>1. n \in Nat /\ DOMAIN seq = 1 .. n /\ \A i \in 1 .. n : seq[i] \in T OBVIOUS
<1>2. at \in [A \X (1 .. n) -> A] /\ \A a \in A, i \in 1 .. n : at[<<a, i>>] = step[<<a, seq[i]>>]
  <2> HIDE DEF n
  <2>1. ASSUME NEW p \in A \X (1 .. n) PROVE step[<<p[1], seq[p[2]]>>] \in A
    <3>1. <<p[1], seq[p[2]]>> \in A \X T BY <1>1
    <3> QED BY <3>1 DEF Steps
  <2>2. at = [p \in A \X (1 .. n) |-> step[<<p[1], seq[p[2]]>>]] BY DEF StepAt, n
  <2> HIDE DEF at
  <2> QED BY <2>1, <2>2
<1> HIDE DEF n, at
<1>3. StepsOn(F, n, A, at) BY <1>1, <1>2, FoldStepsOn DEF n, at
<1> DEFINE c == [i \in 0 .. n |-> F[1 .. i]]
<1>4. c[0] = base
  <2>1. 1 .. 0 = {} /\ 0 \in 0 .. n BY <1>1
  <2>2. F[{}] = base BY DEF FoldsBy
  <2> QED BY <2>1, <2>2
<1>5. ASSUME NEW i \in 1 .. n PROVE c[i] = step[<<c[i - 1], seq[i]>>]
  <2>1. i \in 0 .. n /\ i # 0 /\ i - 1 \in 0 .. n BY <1>1
  <2>2. c[i] = F[1 .. i] /\ c[i - 1] = F[1 .. i - 1] BY <2>1
  <2>3. F[1 .. i] = at[<<F[1 .. i - 1], i>>] /\ F[1 .. i - 1] \in A BY <1>3, <2>1 DEF StepsOn
  <2> HIDE DEF c
  <2> QED BY <1>2, <2>2, <2>3
<1>6. c[n] = F[DOMAIN seq] BY <1>1
<1>7. DOMAIN c = 0 .. n OBVIOUS
<1> HIDE DEF c
<1>8. IsChain(c, step, seq) BY <1>5, <1>7 DEF IsChain, n
<1>9. c[n] = Run(step, c[0], seq) BY <1>1, <1>8, RunOfChain DEF n
<1> QED BY <1>4, <1>6, <1>9

\* When what a step makes of a value is what another makes of its image, so it is
\* with their runs.
LEMMA RunsAlike ==
    ASSUME NEW A, NEW T, NEW step \in Steps(A, T), NEW base \in A, NEW s \in Seq(T),
           NEW B, NEW U, NEW other \in Steps(B, U), NEW t \in Seq(U),
           NEW image \in Images(A, B), Alike(step, A, s, other, t, image)
    PROVE  SameRuns(step, base, s, other, t, image)
<1> DEFINE n == Len(s)
<1>1. n \in Nat /\ Len(t) = n /\ Len(t) \in Nat BY DEF Alike
<1>2. PICK c \in [0 .. n -> A] : c[0] = base /\ IsChain(c, step, s)
  <2>1. Chained(A, step, base, s) BY ChainExists
  <2> QED BY <2>1 DEF Chained
<1> HIDE DEF n
<1> DEFINE d == [i \in 0 .. n |-> image[c[i]]]
<1>3. d[0] = image[base] /\ d[n] = image[c[n]] BY <1>1, <1>2
<1>4. ASSUME NEW i \in 1 .. n PROVE d[i] = other[<<d[i - 1], t[i]>>]
  <2>1. i \in 0 .. n /\ i - 1 \in 0 .. n BY <1>1
  <2>2. d[i] = image[c[i]] /\ d[i - 1] = image[c[i - 1]] BY <2>1
  <2>3. c[i] = step[<<c[i - 1], s[i]>>] BY <1>2 DEF IsChain, n
  <2>4. c[i - 1] \in A BY <1>2, <2>1
  <2> HIDE DEF d
  <2> QED BY <2>2, <2>3, <2>4 DEF Alike, n
<1>5. DOMAIN d = 0 .. n OBVIOUS
<1> HIDE DEF d
<1>6. IsChain(d, other, t) BY <1>1, <1>4, <1>5 DEF IsChain
<1>7. d[Len(t)] = Run(other, d[0], t) BY <1>1, <1>6, RunOfChain
<1>8. c[n] = Run(step, base, s) BY <1>1, <1>2, RunOfChain DEF n
<1> QED BY <1>1, <1>3, <1>7, <1>8 DEF SameRuns

\* Appending one element after another.
LEMMA RunOfAppends ==
    ASSUME NEW T, NEW base \in Seq(T), NEW seq \in Seq(T)
    PROVE  /\ Appends(T) \in Steps(Seq(T), T)
           /\ Run(Appends(T), base, seq) = base \o seq
<1> DEFINE n == Len(seq)
           all == base \o seq
<1>1. Appends(T) \in Steps(Seq(T), T) BY DEF Appends, Steps
<1>2. /\ n \in Nat /\ Len(base) \in Nat /\ all \in Seq(T) /\ Len(all) = Len(base) + n
      /\ \A i \in 1 .. Len(base) : all[i] = base[i]
      /\ \A i \in 1 .. n : all[Len(base) + i] = seq[i] /\ seq[i] \in T
  BY ConcatProperties
<1> HIDE DEF n, all
<1> DEFINE c == [i \in 0 .. n |-> SubSeq(all, 1, Len(base) + i)]
<1>3. ASSUME NEW i \in 0 .. n
      PROVE  /\ c[i] \in Seq(T) /\ Len(c[i]) = Len(base) + i
             /\ \A k \in 1 .. Len(base) + i : c[i][k] = all[k]
  <2>1. c[i] = SubSeq(all, 1, Len(base) + i) OBVIOUS
  <2> HIDE DEF c
  <2> QED BY <1>2, <2>1, SubSeqProperties
<1>4. DOMAIN c = 0 .. n OBVIOUS
<1> HIDE DEF c
<1>5. c[0] = base
  <2>1. 0 \in 0 .. n BY <1>2
  <2> QED BY <1>2, <1>3, <2>1, SeqEqual
<1>6. c[n] = all
  <2>1. n \in 0 .. n BY <1>2
  <2> QED BY <1>2, <1>3, <2>1, SeqEqual
<1>7. ASSUME NEW i \in 1 .. n PROVE c[i] = Appends(T)[<<c[i - 1], seq[i]>>]
  <2>1. i \in 0 .. n /\ i - 1 \in 0 .. n BY <1>2
  <2> DEFINE more == Append(c[i - 1], seq[i])
  <2>2. /\ more \in Seq(T) /\ Len(more) = Len(base) + i
        /\ \A k \in 1 .. Len(base) + i :
              more[k] = IF k = Len(base) + i THEN seq[i] ELSE all[k]
    <3>1. c[i - 1] \in Seq(T) /\ Len(c[i - 1]) = Len(base) + (i - 1) BY <1>3, <2>1
    <3>2. seq[i] \in T BY <1>2
    <3>3. /\ more \in Seq(T) /\ Len(more) = Len(c[i - 1]) + 1
          /\ \A k \in 1 .. Len(c[i - 1]) : more[k] = c[i - 1][k]
          /\ more[Len(c[i - 1]) + 1] = seq[i]
      BY <3>1, <3>2, AppendProperties
    <3>4. \A k \in 1 .. Len(base) + (i - 1) : c[i - 1][k] = all[k] BY <1>3, <2>1
    <3> HIDE DEF more
    <3>5. Len(base) + (i - 1) + 1 = Len(base) + i BY <1>2
    <3>6. \A k \in 1 .. Len(base) + i : k # Len(base) + i => k \in 1 .. Len(base) + (i - 1)
      <4>1. Len(base) \in Nat /\ i \in Nat BY <1>2
      <4> HIDE DEF c, more
      <4> QED BY <4>1
    <3> QED BY <3>1, <3>3, <3>4, <3>5, <3>6
  <2>3. Appends(T)[<<c[i - 1], seq[i]>>] = more BY <1>2, <1>3, <2>1 DEF Appends
  <2> HIDE DEF more
  <2>4. c[i] = more
    <3>1. /\ c[i] \in Seq(T) /\ Len(c[i]) = Len(base) + i
          /\ \A k \in 1 .. Len(base) + i : c[i][k] = all[k]
      BY <1>3, <2>1
    <3>2. \A k \in 1 .. Len(base) + i : k = Len(base) + i => all[k] = seq[i] BY <1>2
    <3>3. \A k \in 1 .. Len(c[i]) : c[i][k] = more[k] BY <2>2, <3>1, <3>2
    <3>4. Len(c[i]) = Len(more) BY <2>2, <3>1
    <3> QED BY <2>2, <3>1, <3>3, <3>4, SeqEqual
  <2> QED BY <2>3, <2>4
<1>8. IsChain(c, Appends(T), seq) BY <1>4, <1>7 DEF IsChain, n
<1>9. c[n] = Run(Appends(T), c[0], seq) BY <1>2, <1>8, RunOfChain DEF n
<1> QED BY <1>1, <1>5, <1>6, <1>9 DEF all

-----------------------------------------------------------------------------
(* The name of a dependency.                                               *)

\* All that may be in a file, the tokens the proofs name among them.
Tokens == STRING \cup Signs \cup {":", "1"}
Texts == Seq(Tokens)

\* A set of natural numbers has the least one as its minimum.
LEMMA LeastIsMin ==
    ASSUME NEW S \in SUBSET Nat, S # {}
    PROVE  Min(S) \in S /\ \A y \in S : Min(S) <= y
<1>1. \E x \in S : \A y \in S : x <= y BY LeastOf
<1> QED BY <1>1 DEF Min

\* TrimSpace: a text without spaces stays as it is.
LEMMA Trimmed ==
    ASSUME NEW value \in Texts
    PROVE  /\ TrimSpace(value) \in Texts
           /\ (\A i \in DOMAIN value : value[i] # " ") => TrimSpace(value) = value
<1> DEFINE n == Len(value)
           kept == {i \in DOMAIN value : value[i] # " "}
<1>1. n \in Nat /\ DOMAIN value = 1 .. n /\ value \in Seq(Tokens) BY DEF Texts
<1>2. TrimSpace(value) = IF kept = {} THEN << >> ELSE SubSeq(value, Min(kept), Max(kept))
  BY DEF TrimSpace
<1>3. << >> \in Texts BY DEF Texts
<1>4. kept \in SUBSET (1 .. n) BY <1>1
<1>5. kept = {i \in 1 .. n : value[i] # " "} BY <1>1
<1> HIDE DEF n, kept
<1>6. ASSUME kept # {} PROVE Min(kept) \in 1 .. n /\ Max(kept) \in 1 .. n
  <2>1. kept \in SUBSET Nat BY <1>1, <1>4
  <2> QED BY <1>1, <1>4, <1>6, <2>1, LeastIsMin, LastIsOne
<1>7. TrimSpace(value) \in Texts
  <2>1. ASSUME kept # {} PROVE SubSeq(value, Min(kept), Max(kept)) \in Seq(Tokens)
    <3> DEFINE a == Min(kept)
               b == Max(kept)
    <3>1. a \in 1 .. n /\ b \in 1 .. n BY <1>6, <2>1
    <3> HIDE DEF a, b
    <3>2. SubSeq(value, a, b) \in Seq(Tokens) BY <1>1, <3>1, SubSeqProperties DEF n
    <3> QED BY <3>2 DEF a, b
  <2> QED BY <1>2, <1>3, <2>1 DEF Texts
<1>8. ASSUME \A i \in DOMAIN value : value[i] # " " PROVE TrimSpace(value) = value
  <2>1. kept = 1 .. n BY <1>1, <1>5, <1>8
  <2>2. CASE n = 0
    <3>1. kept = {} /\ value = << >> BY <1>1, <2>1, <2>2 DEF n
    <3> QED BY <1>2, <3>1
  <2>3. CASE n # 0
    <3>1. n \in 1 .. n /\ 1 \in 1 .. n /\ kept # {}
      <4>1. 1 \in 1 .. n /\ n \in 1 .. n BY <1>1, <2>3
      <4> QED BY <2>1, <4>1
    <3>2. Max(kept) = n BY <1>1, <2>1, <3>1, FoldIsChain
    <3>3. Min(kept) = 1
      <4>1. kept \in SUBSET Nat BY <1>1, <1>4
      <4>2. Min(kept) \in kept /\ Min(kept) <= 1 BY <2>1, <3>1, <4>1, LeastIsMin
      <4> QED BY <1>1, <2>1, <4>2
    <3> DEFINE cut == SubSeq(value, 1, n)
    <3>4. cut \in Seq(Tokens) /\ Len(cut) = n /\ \A k \in 1 .. n : cut[k] = value[k]
      BY <1>1, <3>1, SubSeqProperties DEF n
    <3>5. TrimSpace(value) = cut BY <1>2, <3>1, <3>2, <3>3
    <3> HIDE DEF cut
    <3>6. cut = value BY <1>1, <3>4, SeqEqual DEF n
    <3> QED BY <3>5, <3>6
  <2> QED BY <2>2, <2>3
<1> QED BY <1>7, <1>8

\* Where a marker occurs, its tokens are there.
LEMMA OccursWith ==
    ASSUME NEW value \in Texts, NEW marker \in Texts, Len(marker) # 0,
           NEW i \in Occurs(value, marker)
    PROVE  /\ i \in 1 .. Len(value)
           /\ \A k \in 1 .. Len(marker) :
                 i + k - 1 \in 1 .. Len(value) /\ value[i + k - 1] = marker[k]
<1> DEFINE m == Len(marker)
           there == SubSeq(value, i, i + m - 1)
<1>1. m \in Nat /\ m # 0 /\ Len(value) \in Nat /\ value \in Seq(Tokens) BY DEF Texts
<1>2. i \in 1 .. (Len(value) - m + 1) /\ there = marker BY DEF Occurs
<1> HIDE DEF m
<1>3. \A k \in 1 .. m : i + k - 1 \in 1 .. Len(value) BY <1>1, <1>2
<1>4. i \in Int /\ i + m - 1 \in Int /\ \A j \in i .. i + m - 1 : value[j] \in Tokens
  BY <1>1, <1>2
<1>5. \A k \in 1 .. (i + m - 1) - i + 1 : there[k] = value[i + k - 1]
  BY <1>4, SubSeqProperties
<1>6. \A k \in 1 .. m : there[k] = value[i + k - 1] BY <1>1, <1>2, <1>5
<1>7. i \in 1 .. Len(value) BY <1>1, <1>2
<1> QED BY <1>2, <1>3, <1>6, <1>7 DEF m

\* strings.Cut gives what is before the first marker.
LEMMA CutType ==
    ASSUME NEW value \in Texts, NEW marker \in Texts, Len(marker) # 0,
           Occurs(value, marker) # {}
    PROVE  /\ Min(Occurs(value, marker)) \in Occurs(value, marker)
           /\ \A i \in Occurs(value, marker) : Min(Occurs(value, marker)) <= i
           /\ CutAt(value, marker) \in Texts
<1> DEFINE at == Min(Occurs(value, marker))
<1>1. Occurs(value, marker) \in SUBSET Nat BY DEF Occurs
<1>2. at \in Occurs(value, marker) /\ \A i \in Occurs(value, marker) : at <= i
  BY <1>1, LeastIsMin
<1>3. at \in 1 .. Len(value) BY <1>2, OccursWith
<1>4. CutAt(value, marker) = SubSeq(value, 1, at - 1) BY DEF CutAt
<1> HIDE DEF at
<1>5. Len(value) \in Nat /\ value \in Seq(Tokens) BY DEF Texts
<1>6. 1 \in Int /\ at - 1 \in Int /\ \A j \in 1 .. at - 1 : value[j] \in Tokens BY <1>3, <1>5
<1>7. SubSeq(value, 1, at - 1) \in Seq(Tokens) BY <1>6, SubSeqProperties
<1> QED BY <1>2, <1>4, <1>7 DEF Texts, at

LEMMA MarkersAre ==
    /\ DOMAIN Markers = 1 .. 6
    /\ \A i \in 1 .. 6 : Markers[i] \in Texts /\ Len(Markers[i]) # 0
    /\ Markers[1] = <<">", "=">> /\ Markers[2] = <<"<", "=">> /\ Markers[3] = <<"=">>
    /\ Markers[4] = <<">">> /\ Markers[5] = <<"<">> /\ Markers[6] = <<":">>
<1>1. /\ DOMAIN Markers = 1 .. 6
      /\ Markers[1] = <<">", "=">> /\ Markers[2] = <<"<", "=">> /\ Markers[3] = <<"=">>
      /\ Markers[4] = <<">">> /\ Markers[5] = <<"<">> /\ Markers[6] = <<":">>
  BY DEF Markers
<1>2. \A t, u \in Tokens :
        <<t, u>> \in Texts /\ Len(<<t, u>>) = 2 /\ <<t>> \in Texts /\ Len(<<t>>) = 1
  BY DEF Texts
<1>3. ASSUME NEW i \in 1 .. 6 PROVE Markers[i] \in Texts /\ Len(Markers[i]) # 0
  <2>1. i = 1 \/ i = 2 \/ i = 3 \/ i = 4 \/ i = 5 \/ i = 6 OBVIOUS
  <2>2. /\ "=" \in Tokens /\ ">" \in Tokens /\ "<" \in Tokens /\ ":" \in Tokens
    BY DEF Tokens, Signs
  <2> DEFINE Fits(m) == m \in Texts /\ Len(m) # 0
  <2>3. \A t, u \in Tokens : Fits(<<t, u>>) /\ Fits(<<t>>)
    <3> TAKE t, u \in Tokens
    <3>1. <<t, u>> \in Texts /\ Len(<<t, u>>) = 2 /\ <<t>> \in Texts /\ Len(<<t>>) = 1 BY <1>2
    <3> QED BY <3>1
  <2> HIDE DEF Fits
  <2>4. /\ Fits(<<">", "=">>) /\ Fits(<<"<", "=">>) /\ Fits(<<"=">>)
        /\ Fits(<<">">>) /\ Fits(<<"<">>) /\ Fits(<<":">>)
    BY <2>2, <2>3
  <2>5. /\ Fits(Markers[1]) /\ Fits(Markers[2]) /\ Fits(Markers[3])
        /\ Fits(Markers[4]) /\ Fits(Markers[5]) /\ Fits(Markers[6])
    BY <1>1, <2>4
  <2>6. Fits(Markers[i]) BY <2>1, <2>5
  <2> QED BY <2>6 DEF Fits
<1> QED BY <1>1, <1>3

\* depName gives a text.
LEMMA NameType == ASSUME NEW value \in Texts PROVE depName(value) \in Texts
<1> DEFINE found == {i \in DOMAIN Markers : Occurs(value, Markers[i]) # {}}
           cut == IF found = {} THEN value ELSE CutAt(value, Markers[Min(found)])
<1>1. depName(value) = TrimSpace(cut) BY DEF depName
<1>2. ASSUME found # {} PROVE CutAt(value, Markers[Min(found)]) \in Texts
  <2> DEFINE first == Min(found)
  <2>1. found \in SUBSET Nat BY MarkersAre
  <2>2. first \in found
    <3> HIDE DEF found
    <3> QED BY <1>2, <2>1, LeastIsMin
  <2>3. first \in 1 .. 6 /\ Occurs(value, Markers[first]) # {} BY <2>2, MarkersAre
  <2> HIDE DEF first
  <2>4. Markers[first] \in Texts /\ Len(Markers[first]) # 0 BY <2>3, MarkersAre
  <2>5. CutAt(value, Markers[first]) \in Texts BY <2>3, <2>4, CutType
  <2> QED BY <2>5 DEF first
<1>3. cut \in Texts BY <1>2
<1> HIDE DEF cut
<1> QED BY <1>1, <1>3, Trimmed

\* depName leaves a name as it is.
LEMMA NameOfName ==
    ASSUME NEW name \in Seq(NameTokens) PROVE name \in Texts /\ depName(name) = name
<1> DEFINE found == {i \in DOMAIN Markers : Occurs(name, Markers[i]) # {}}
<1>1. /\ name \in Texts /\ DOMAIN name = 1 .. Len(name)
      /\ \A i \in 1 .. Len(name) : name[i] \notin Signs /\ name[i] # ":"
  <2>1. NameTokens \subseteq Tokens BY DEF Tokens, NameTokens, VersionTokens
  <2>2. \A t \in NameTokens : t \notin Signs /\ t # ":" BY DEF NameTokens, VersionTokens
  <2> QED BY <2>1, <2>2 DEF Texts
<1>2. ASSUME NEW k \in 1 .. 6, NEW i \in Occurs(name, Markers[k]) PROVE FALSE
  <2>1. Markers[k] \in Texts /\ Len(Markers[k]) # 0 BY MarkersAre
  <2>2. 1 \in 1 .. Len(Markers[k]) BY <2>1 DEF Texts
  <2>3. i \in 1 .. Len(name) /\ i + 1 - 1 = i /\ name[i + 1 - 1] = Markers[k][1]
    BY <1>1, <2>1, <2>2, OccursWith
  <2>4. Markers[k][1] \in Signs \cup {":"}
    <3>1. k = 1 \/ k = 2 \/ k = 3 \/ k = 4 \/ k = 5 \/ k = 6 OBVIOUS
    <3>2. ">" \in Signs /\ "<" \in Signs /\ "=" \in Signs BY DEF Signs
    <3> QED BY <3>1, <3>2, MarkersAre
  <2> QED BY <1>1, <2>3, <2>4
<1>3. found = {} BY <1>2, MarkersAre
<1>4. depName(name) = TrimSpace(name) BY <1>3 DEF depName
<1>5. \A i \in DOMAIN name : name[i] # " " BY <1>1 DEF Signs
<1> QED BY <1>1, <1>4, <1>5, Trimmed

\* No marker is within one that depName looks for after it.
LEMMA NoneWithinLater ==
    ASSUME NEW k \in 1 .. 5, NEW j \in 1 .. k - 1, NEW o \in Int
    PROVE  \E x \in 1 .. Len(Markers[j]) :
              o + x \in 1 .. Len(Markers[k]) => Markers[k][o + x] # Markers[j][x]
<1> DEFINE Without(i, t) == \A p \in 1 .. Len(Markers[i]) : Markers[i][p] # t
           Has(i, x, t) == x \in 1 .. Len(Markers[i]) /\ Markers[i][x] = t
<1>1. /\ Len(Markers[1]) = 2 /\ Markers[1][1] = ">" /\ Markers[1][2] = "="
      /\ Len(Markers[2]) = 2 /\ Markers[2][1] = "<" /\ Markers[2][2] = "="
      /\ Len(Markers[3]) = 1 /\ Markers[3][1] = "="
      /\ Len(Markers[4]) = 1 /\ Markers[4][1] = ">"
      /\ Len(Markers[5]) = 1 /\ Markers[5][1] = "<"
  BY DEF Markers
<1>2. /\ Without(2, ">") /\ Without(3, ">") /\ Without(3, "<") /\ Without(4, "=")
      /\ Without(4, "<") /\ Without(5, "=") /\ Without(5, ">")
  <2>1. (\A p \in 1 .. 2 : p = 1 \/ p = 2) /\ (\A p \in 1 .. 1 : p = 1) OBVIOUS
  <2> QED BY <1>1, <2>1
<1>3. /\ Has(1, 1, ">") /\ Has(1, 2, "=") /\ Has(2, 1, "<") /\ Has(2, 2, "=")
      /\ Has(3, 1, "=") /\ Has(4, 1, ">")
  BY <1>1
<1>4. \E x, t : Has(j, x, t) /\ Without(k, t)
  <2> HIDE DEF Has, Without
  <2>1. \/ j = 1 /\ (k \in {2, 3, 5} \/ k = 4)
        \/ j = 2 /\ (k \in {3, 4} \/ k = 5)
        \/ j = 3 /\ k \in {4, 5}
        \/ j = 4 /\ k = 5
    <3>1. k = 1 \/ k = 2 \/ k = 3 \/ k = 4 \/ k = 5 OBVIOUS
    <3>2. (j = 1 \/ j = 2 \/ j = 3 \/ j = 4) /\ j < k OBVIOUS
    <3> QED BY <3>1, <3>2
  <2> QED BY <1>2, <1>3, <2>1
<1>5. PICK x, t : Has(j, x, t) /\ Without(k, t) BY <1>4
<1> QED BY <1>5

\* depName takes the name of what is declared with a constraint.
LEMMA NameOfConstrained ==
    ASSUME NEW name \in Seq(NameTokens), NEW k \in 1 .. 5, NEW version \in Seq(VersionTokens)
    PROVE  LET value == name \o Markers[k] \o version
           IN  value \in Texts /\ depName(value) = name
<1> DEFINE op == Markers[k]
           L == Len(name)
           m == Len(op)
           r == Len(version)
           value == name \o op \o version
           found == {i \in DOMAIN Markers : Occurs(value, Markers[i]) # {}}
<1>1. /\ name \in Texts /\ op \in Texts /\ version \in Texts
      /\ L \in Nat /\ m \in Nat /\ m # 0 /\ r \in Nat
  <2>1. NameTokens \subseteq Tokens /\ VersionTokens \subseteq Tokens
    BY DEF Tokens, NameTokens, VersionTokens
  <2>2. op \in Texts /\ Len(op) # 0 BY MarkersAre
  <2> QED BY <2>1, <2>2 DEF Texts
<1>2. /\ \A i \in 1 .. L : name[i] \notin Signs /\ name[i] # " "
      /\ \A i \in 1 .. r : version[i] \notin Signs
  <2>1. \A t \in VersionTokens : t \notin Signs BY DEF VersionTokens
  <2>2. \A t \in NameTokens : t \notin Signs /\ t # " " BY DEF NameTokens, VersionTokens, Signs
  <2>3. \A i \in 1 .. L : name[i] \in NameTokens OBVIOUS
  <2>4. \A i \in 1 .. r : version[i] \in VersionTokens OBVIOUS
  <2> HIDE DEF L, r
  <2> QED BY <2>1, <2>2, <2>3, <2>4
<1> HIDE DEF op
<1>3. /\ value \in Texts /\ Len(value) = L + m + r
      /\ \A i \in 1 .. L : value[i] = name[i]
      /\ \A i \in 1 .. m : value[L + i] = op[i]
      /\ \A i \in 1 .. r : value[L + m + i] = version[i]
  <2> DEFINE start == name \o op
  <2>1. /\ start \in Seq(Tokens) /\ Len(start) = L + m
        /\ \A i \in 1 .. L : start[i] = name[i]
        /\ \A i \in 1 .. m : start[L + i] = op[i]
    <3>1. name \in Seq(Tokens) /\ op \in Seq(Tokens) BY <1>1 DEF Texts
    <3> QED BY <3>1, ConcatProperties
  <2> HIDE DEF start
  <2>2. /\ start \o version \in Seq(Tokens) /\ Len(start \o version) = L + m + r
        /\ \A i \in 1 .. L + m : (start \o version)[i] = start[i]
        /\ \A i \in 1 .. r : (start \o version)[L + m + i] = version[i]
    <3>1. version \in Seq(Tokens) BY <1>1 DEF Texts
    <3>2. /\ start \o version \in Seq(Tokens)
          /\ Len(start \o version) = Len(start) + r
          /\ \A i \in 1 .. Len(start) : (start \o version)[i] = start[i]
          /\ \A i \in 1 .. r : (start \o version)[Len(start) + i] = version[i]
      <4>1. start \in Seq(Tokens) BY <2>1
      <4> HIDE DEF L, m
      <4> QED BY <3>1, <4>1, ConcatProperties
    <3> QED BY <2>1, <3>2
  <2>3. value = start \o version BY DEF start
  <2>4. \A i \in 1 .. L : i \in 1 .. L + m BY <1>1
  <2>5. \A i \in 1 .. m : L + i \in 1 .. L + m BY <1>1
  <2> HIDE DEF value
  <2> QED BY <2>1, <2>2, <2>3, <2>4, <2>5 DEF Texts
<1> HIDE DEF L, m, r, value
<1>4. ASSUME NEW j \in 1 .. 5, NEW i \in Occurs(value, Markers[j])
      PROVE  /\ i - 1 - L \in Nat
             /\ \A x \in 1 .. Len(Markers[j]) :
                   (i - 1 - L) + x \in 1 .. m /\ op[(i - 1 - L) + x] = Markers[j][x]
  <2>1. Markers[j] \in Texts /\ Len(Markers[j]) # 0 BY MarkersAre
  <2>2. \A x \in 1 .. Len(Markers[j]) : Markers[j][x] \in Signs
    <3>1. j = 1 \/ j = 2 \/ j = 3 \/ j = 4 \/ j = 5 OBVIOUS
    <3>2. ">" \in Signs /\ "<" \in Signs /\ "=" \in Signs BY DEF Signs
    <3>3. \A t, u \in Signs : /\ \A x \in 1 .. Len(<<t, u>>) : <<t, u>>[x] \in Signs
                              /\ \A x \in 1 .. Len(<<t>>) : <<t>>[x] \in Signs
      OBVIOUS
    <3> QED BY <3>1, <3>2, <3>3, MarkersAre
  <2>3. /\ i \in 1 .. Len(value)
        /\ \A x \in 1 .. Len(Markers[j]) :
              i + x - 1 \in 1 .. Len(value) /\ value[i + x - 1] = Markers[j][x]
    BY <1>3, <2>1, OccursWith
  <2>4. \A p \in 1 .. Len(value) : value[p] \in Signs => p - L \in 1 .. m /\ op[p - L] = value[p]
    <3> TAKE p \in 1 .. Len(value)
    <3> HAVE value[p] \in Signs
    <3>1. p \notin 1 .. L BY <1>2, <1>3 DEF L
    <3>2. p - (L + m) \notin 1 .. r
      <4>1. ASSUME p - (L + m) \in 1 .. r PROVE FALSE
        <5> DEFINE q == p - (L + m)
        <5>1. L + m + q = p BY <1>1, <1>3
        <5>2. q \in 1 .. r BY <4>1
        <5> HIDE DEF q
        <5>3. value[p] = version[q] BY <1>3, <5>1, <5>2
        <5> QED BY <1>2, <5>2, <5>3 DEF r
      <4> QED BY <4>1
    <3>3. p - L \in 1 .. m BY <1>1, <1>3, <3>1, <3>2
    <3>4. L + (p - L) = p BY <1>1, <1>3
    <3> QED BY <1>3, <3>3, <3>4
  <2>5. \A x \in 1 .. Len(Markers[j]) : (i + x - 1) - L = (i - 1 - L) + x BY <1>1, <2>3
  <2>6. \A x \in 1 .. Len(Markers[j]) :
          (i + x - 1) - L \in 1 .. m /\ op[(i + x - 1) - L] = Markers[j][x]
    BY <2>2, <2>3, <2>4
  <2>7. 1 \in 1 .. Len(Markers[j]) BY <2>1 DEF Texts
  <2>8. i - 1 - L \in Nat
    <3>1. (i - 1 - L) + 1 \in 1 .. m BY <2>5, <2>6, <2>7
    <3> QED BY <1>1, <2>3, <3>1
  <2> QED BY <2>5, <2>6, <2>8
<1>5. ASSUME NEW j \in 1 .. k - 1 PROVE Occurs(value, Markers[j]) = {}
  <2>1. ASSUME NEW i \in Occurs(value, Markers[j]) PROVE FALSE
    <3>1. j \in 1 .. 5 OBVIOUS
    <3>2. i - 1 - L \in Int
          /\ \A x \in 1 .. Len(Markers[j]) :
                (i - 1 - L) + x \in 1 .. m /\ op[(i - 1 - L) + x] = Markers[j][x]
      BY <1>4, <3>1
    <3> QED BY <3>2, NoneWithinLater DEF op, m
  <2> QED BY <2>1
<1>6. L + 1 \in Occurs(value, op)
  <2> DEFINE there == SubSeq(value, L + 1, L + 1 + m - 1)
  <2>1. \A p \in L + 1 .. L + 1 + m - 1 : value[p] \in Tokens BY <1>1, <1>3 DEF Texts
  <2>2. L + 1 \in Int /\ L + 1 + m - 1 \in Int BY <1>1
  <2>3. /\ there \in Seq(Tokens)
        /\ Len(there) = IF L + 1 <= L + 1 + m - 1 THEN (L + 1 + m - 1) - (L + 1) + 1 ELSE 0
        /\ \A i \in 1 .. (L + 1 + m - 1) - (L + 1) + 1 : there[i] = value[(L + 1) + i - 1]
    BY <2>1, <2>2, SubSeqProperties
  <2> HIDE DEF there
  <2>4. Len(there) = m /\ (L + 1 + m - 1) - (L + 1) + 1 = m BY <1>1, <2>3
  <2>5. \A i \in 1 .. m : (L + 1) + i - 1 = L + i BY <1>1
  <2>6. \A i \in 1 .. m : there[i] = op[i] BY <1>3, <2>3, <2>4, <2>5
  <2>7. there = op BY <1>1, <2>3, <2>4, <2>6, SeqEqual DEF Texts, m
  <2>8. L + 1 \in 1 .. (Len(value) - m + 1) BY <1>1, <1>3
  <2> QED BY <2>7, <2>8 DEF Occurs, m, there
<1>7. Min(found) = k
  <2>1. found \in SUBSET Nat /\ k \in found BY <1>6, MarkersAre DEF op
  <2>2. \A j \in found : j \in 1 .. 6 /\ j \notin 1 .. k - 1 BY <1>5, MarkersAre
  <2> HIDE DEF found
  <2>3. Min(found) \in found /\ Min(found) <= k BY <2>1, LeastIsMin
  <2> QED BY <2>2, <2>3
<1>8. Min(Occurs(value, op)) = L + 1
  <2> DEFINE at == Min(Occurs(value, op))
  <2>1. at \in Occurs(value, op) /\ at <= L + 1
    BY <1>1, <1>3, <1>6, CutType DEF m
  <2>2. at - 1 - L \in Nat /\ at \in 1 .. Len(value)
    <3> HIDE DEF at
    <3>1. at - 1 - L \in Nat BY <1>4, <2>1 DEF op
    <3>2. at \in 1 .. Len(value) BY <1>1, <1>3, <2>1, OccursWith DEF m
    <3> QED BY <3>1, <3>2
  <2> HIDE DEF at
  <2>3. at = L + 1 BY <1>1, <1>3, <2>1, <2>2
  <2> QED BY <2>3 DEF at
<1>9. CutAt(value, op) = name
  <2> DEFINE cut == SubSeq(value, 1, L)
  <2>1. 1 \in Int /\ L \in Int /\ \A p \in 1 .. L : value[p] \in Tokens BY <1>1, <1>3 DEF Texts
  <2>2. /\ cut \in Seq(Tokens)
        /\ Len(cut) = IF 1 <= L THEN L - 1 + 1 ELSE 0
        /\ \A i \in 1 .. L - 1 + 1 : cut[i] = value[1 + i - 1]
    BY <2>1, SubSeqProperties
  <2>3. CutAt(value, op) = SubSeq(value, 1, (L + 1) - 1) BY <1>8 DEF CutAt
  <2>4. (L + 1) - 1 = L /\ L - 1 + 1 = L BY <1>1
  <2>5. CutAt(value, op) = cut BY <2>3, <2>4
  <2> HIDE DEF cut
  <2>6. Len(cut) = L BY <1>1, <2>2
  <2>7. \A i \in 1 .. L : 1 + i - 1 = i BY <1>1
  <2>8. \A i \in 1 .. L : cut[i] = name[i] BY <1>3, <2>2, <2>4, <2>7
  <2>9. cut = name BY <1>1, <2>2, <2>6, <2>8, SeqEqual DEF L, Texts
  <2> QED BY <2>5, <2>9
<1>10. depName(value) = TrimSpace(name)
  <2>1. found # {}
    <3>1. k \in DOMAIN Markers BY MarkersAre
    <3> QED BY <1>6, <3>1 DEF op
  <2>2. depName(value) = TrimSpace(CutAt(value, Markers[Min(found)])) BY <2>1 DEF depName
  <2> HIDE DEF found
  <2> QED BY <1>7, <1>9, <2>2 DEF op
<1>11. TrimSpace(name) = name
  <2>1. DOMAIN name = 1 .. L BY <1>1 DEF L, Texts
  <2> QED BY <1>1, <1>2, <2>1, Trimmed
<1> QED BY <1>3, <1>10, <1>11 DEF value, op

-----------------------------------------------------------------------------
(* The folds of the parsers are runs.                                      *)

Info == [name : Texts, version : Texts, release : Texts, split : Seq(Texts), deps : Seq(Texts)]
Entry == [key : {"pkgbase", "pkgname", "pkgver", "pkgrel", "depends"}, value : Texts]
Spelt == [words : Seq(Texts), word : Texts]

Adding == [p \in Info \X Texts |-> AddDependency(p[1], p[2])]
ReadingSRCINFO == [p \in Info \X Entry |-> SRCINFOLine(p[1], p[2])]
ReadingPKGBUILD == [p \in Info \X Entry |-> PKGBUILDLine(p[1], p[2])]
Spelling == [p \in Spelt \X Tokens |-> Spelled(p[1], p[2])]
Spacing == [p \in Texts \X Texts |-> Spaced(p[1], p[2])]

LEMMA AddingIs ==
    /\ Adding \in Steps(Info, Texts)
    /\ \A a \in Info, x \in Texts : Adding[<<a, x>>] = AddDependency(a, x)
<1>1. ASSUME NEW a \in Info, NEW x \in Texts PROVE AddDependency(a, x) \in Info
  <2>1. depName(x) \in Texts BY NameType
  <2>2. Append(a.deps, depName(x)) \in Seq(Texts) BY <2>1 DEF Info
  <2> QED BY <2>2 DEF AddDependency, Info
<1>2. Adding \in Steps(Info, Texts)
  <2>1. ASSUME NEW p \in Info \X Texts PROVE Adding[p] \in Info
    <3>1. p[1] \in Info /\ p[2] \in Texts OBVIOUS
    <3> QED BY <1>1, <3>1 DEF Adding
  <2>2. DOMAIN Adding = Info \X Texts BY DEF Adding
  <2>3. Adding = [p \in DOMAIN Adding |-> Adding[p]] BY DEF Adding
  <2> QED BY <2>1, <2>2, <2>3 DEF Steps
<1>3. \A a \in Info, x \in Texts : Adding[<<a, x>>] = AddDependency(a, x) BY DEF Adding
<1> QED BY <1>2, <1>3

LEMMA SpellingIs ==
    /\ Spelling \in Steps(Spelt, Tokens)
    /\ \A a \in Spelt, x \in Tokens : Spelling[<<a, x>>] = Spelled(a, x)
<1>1. ASSUME NEW a \in Spelt, NEW x \in Tokens PROVE Spelled(a, x) \in Spelt
  <2>1. << >> \in Texts /\ Append(a.word, x) \in Texts BY DEF Texts, Spelt
  <2>2. Append(a.words, a.word) \in Seq(Texts) BY DEF Spelt
  <2> QED BY <2>1, <2>2 DEF Spelled, Spelt
<1>2. Spelling \in Steps(Spelt, Tokens)
  <2>1. ASSUME NEW p \in Spelt \X Tokens PROVE Spelling[p] \in Spelt
    <3>1. p[1] \in Spelt /\ p[2] \in Tokens OBVIOUS
    <3> QED BY <1>1, <3>1 DEF Spelling
  <2>2. DOMAIN Spelling = Spelt \X Tokens BY DEF Spelling
  <2>3. Spelling = [p \in DOMAIN Spelling |-> Spelling[p]] BY DEF Spelling
  <2> QED BY <2>1, <2>2, <2>3 DEF Steps
<1>3. \A a \in Spelt, x \in Tokens : Spelling[<<a, x>>] = Spelled(a, x) BY DEF Spelling
<1> QED BY <1>2, <1>3

LEMMA SpacingIs ==
    /\ Spacing \in Steps(Texts, Texts)
    /\ \A a \in Texts, x \in Texts : Spacing[<<a, x>>] = Spaced(a, x)
<1>1. ASSUME NEW a \in Texts, NEW x \in Texts PROVE Spaced(a, x) \in Texts
  <2>1. " " \in Tokens BY DEF Tokens, Signs
  <2>2. a \o x \in Texts
    <3>1. a \in Seq(Tokens) /\ x \in Seq(Tokens) BY DEF Texts
    <3> QED BY <3>1, ConcatProperties DEF Texts
  <2>3. <<" ">> \in Texts
    <3>1. \A t \in Tokens : <<t>> \in Texts BY DEF Texts
    <3> QED BY <2>1, <3>1
  <2> QED BY <2>2, <2>3, ConcatProperties DEF Texts, Spaced
<1>2. Spacing \in Steps(Texts, Texts)
  <2>1. ASSUME NEW p \in Texts \X Texts PROVE Spacing[p] \in Texts
    <3>1. p[1] \in Texts /\ p[2] \in Texts OBVIOUS
    <3> QED BY <1>1, <3>1 DEF Spacing
  <2>2. DOMAIN Spacing = Texts \X Texts BY DEF Spacing
  <2>3. Spacing = [p \in DOMAIN Spacing |-> Spacing[p]] BY DEF Spacing
  <2> QED BY <2>1, <2>2, <2>3 DEF Steps
<1>3. \A a \in Texts, x \in Texts : Spacing[<<a, x>>] = Spaced(a, x) BY DEF Spacing
<1> QED BY <1>2, <1>3

LEMMA SRCINFOIs ==
    /\ ReadingSRCINFO \in Steps(Info, Entry)
    /\ \A a \in Info, x \in Entry : ReadingSRCINFO[<<a, x>>] = SRCINFOLine(a, x)
<1>1. ASSUME NEW a \in Info, NEW x \in Entry PROVE SRCINFOLine(a, x) \in Info
  <2>1. x.value \in Texts BY DEF Entry
  <2>2. Append(a.split, x.value) \in Seq(Texts) BY <2>1 DEF Info
  <2>3. AddDependency(a, x.value) \in Info BY <2>1, AddingIs DEF Steps
  <2>4. /\ [a EXCEPT !.name = x.value] \in Info /\ [a EXCEPT !.version = x.value] \in Info
        /\ [a EXCEPT !.release = x.value] \in Info
        /\ [a EXCEPT !.split = Append(@, x.value)] \in Info
    BY <2>1, <2>2 DEF Info
  <2> QED BY <2>3, <2>4 DEF SRCINFOLine
<1>2. ReadingSRCINFO \in Steps(Info, Entry)
  <2>1. ASSUME NEW p \in Info \X Entry PROVE ReadingSRCINFO[p] \in Info
    <3>1. p[1] \in Info /\ p[2] \in Entry OBVIOUS
    <3> QED BY <1>1, <3>1 DEF ReadingSRCINFO
  <2>2. DOMAIN ReadingSRCINFO = Info \X Entry BY DEF ReadingSRCINFO
  <2>3. ReadingSRCINFO = [p \in DOMAIN ReadingSRCINFO |-> ReadingSRCINFO[p]] BY DEF ReadingSRCINFO
  <2> QED BY <2>1, <2>2, <2>3 DEF Steps
<1>3. \A a \in Info, x \in Entry : ReadingSRCINFO[<<a, x>>] = SRCINFOLine(a, x) BY DEF ReadingSRCINFO
<1> QED BY <1>2, <1>3

\* addDependency, one dependency after another.
LEMMA AddingRuns ==
    ASSUME NEW base \in Info, NEW seq \in Seq(Texts)
    PROVE  /\ FoldLeft(AddDependency, base, seq) = Run(Adding, base, seq)
           /\ FoldLeft(AddDependency, base, seq) \in Info
<1> DEFINE n == Len(seq)
           Body(F, s) == IF s = {} THEN base ELSE AddDependency(F[s \ {Max(s)}], seq[Max(s)])
           Is(F) == F = [s \in SUBSET DOMAIN seq |-> Body(F, s)]
           iter == CHOOSE F : Is(F)
           at == StepAt(Adding, Info, seq)
<1>1. n \in Nat /\ DOMAIN seq = 1 .. n /\ \A i \in 1 .. n : seq[i] \in Texts OBVIOUS
<1>2. Adding \in Steps(Info, Texts) /\ \A a \in Info, x \in Texts : Adding[<<a, x>>] = AddDependency(a, x)
  BY AddingIs
<1>3. at \in [Info \X (1 .. n) -> Info] /\ \A a \in Info, i \in 1 .. n : at[<<a, i>>] = AddDependency(a, seq[i])
  <2> HIDE DEF n
  <2>1. at = [p \in Info \X (1 .. n) |-> Adding[<<p[1], seq[p[2]]>>]] BY DEF StepAt, n
  <2> HIDE DEF at
  <2>2. ASSUME NEW p \in Info \X (1 .. n) PROVE Adding[<<p[1], seq[p[2]]>>] \in Info
    <3>1. <<p[1], seq[p[2]]>> \in Info \X Texts BY <1>1
    <3> QED BY <1>2, <3>1 DEF Steps
  <2>3. ASSUME NEW a \in Info, NEW i \in 1 .. n PROVE at[<<a, i>>] = AddDependency(a, seq[i])
    <3>1. at[<<a, i>>] = Adding[<<a, seq[i]>>] BY <2>1
    <3> QED BY <1>1, <1>2, <3>1
  <2> QED BY <2>1, <2>2, <2>3
<1> HIDE DEF n, at
<1>4. PICK F : Solves(F, n, Info, base, at) BY <1>1, <1>3, FoldExists
<1>5. Is(F)
  <2>1. \A s \in SUBSET (1 .. n) : s # {} => Max(s) \in 1 .. n BY <1>1, LastIsOne
  <2>2. F \in [SUBSET (1 .. n) -> Info] BY <1>4 DEF Solves
  <2>3. ASSUME NEW s \in SUBSET (1 .. n) PROVE F[s] = Body(F, s)
    <3>1. F[s] = IF s = {} THEN base ELSE at[<<F[s \ {Max(s)}], Max(s)>>] BY <1>4 DEF Solves
    <3>2. s # {} => F[s \ {Max(s)}] \in Info BY <2>2
    <3> QED BY <1>3, <2>1, <3>1, <3>2
  <2> HIDE DEF Body
  <2> QED BY <1>1, <2>2, <2>3
<1>6. Is(iter)
  <2> HIDE DEF Is
  <2> QED BY <1>5
<1>7. FoldLeft(AddDependency, base, seq) = iter[DOMAIN seq] BY DEF FoldLeft, MapThenFoldSet
<1> HIDE DEF iter
<1>8. FoldsBy(iter, n, Info, base, at)
  <2>1. \A s \in SUBSET (1 .. n) : iter[s] = Body(iter, s)
    <3> HIDE DEF Body
    <3> QED BY <1>1, <1>6
  <2>2. iter[{}] = base
    <3>1. {} \in SUBSET (1 .. n) OBVIOUS
    <3> QED BY <2>1, <3>1
  <2>3. ASSUME NEW s \in SUBSET (1 .. n), s # {}, iter[s \ {Max(s)}] \in Info
        PROVE  iter[s] = at[<<iter[s \ {Max(s)}], Max(s)>>]
    <3>1. Max(s) \in 1 .. n BY <1>1, <2>3, LastIsOne
    <3>2. iter[s] = AddDependency(iter[s \ {Max(s)}], seq[Max(s)]) BY <2>1, <2>3
    <3> QED BY <1>3, <2>3, <3>1, <3>2
  <2> QED BY <2>2, <2>3 DEF FoldsBy
<1>9. iter[DOMAIN seq] = Run(Adding, base, seq) BY <1>2, <1>8, FoldRuns DEF n, at
<1>10. Run(Adding, base, seq) \in Info BY <1>2, RunIs
<1> QED BY <1>7, <1>9, <1>10

\* The words of a text, token by token.
LEMMA SpellingRuns ==
    ASSUME NEW base \in Spelt, NEW seq \in Seq(Tokens)
    PROVE  /\ FoldLeft(Spelled, base, seq) = Run(Spelling, base, seq)
           /\ FoldLeft(Spelled, base, seq) \in Spelt
<1> DEFINE n == Len(seq)
           Body(F, s) == IF s = {} THEN base ELSE Spelled(F[s \ {Max(s)}], seq[Max(s)])
           Is(F) == F = [s \in SUBSET DOMAIN seq |-> Body(F, s)]
           iter == CHOOSE F : Is(F)
           at == StepAt(Spelling, Spelt, seq)
<1>1. n \in Nat /\ DOMAIN seq = 1 .. n /\ \A i \in 1 .. n : seq[i] \in Tokens OBVIOUS
<1>2. Spelling \in Steps(Spelt, Tokens) /\ \A a \in Spelt, x \in Tokens : Spelling[<<a, x>>] = Spelled(a, x)
  BY SpellingIs
<1>3. at \in [Spelt \X (1 .. n) -> Spelt] /\ \A a \in Spelt, i \in 1 .. n : at[<<a, i>>] = Spelled(a, seq[i])
  <2> HIDE DEF n
  <2>1. at = [p \in Spelt \X (1 .. n) |-> Spelling[<<p[1], seq[p[2]]>>]] BY DEF StepAt, n
  <2> HIDE DEF at
  <2>2. ASSUME NEW p \in Spelt \X (1 .. n) PROVE Spelling[<<p[1], seq[p[2]]>>] \in Spelt
    <3>1. <<p[1], seq[p[2]]>> \in Spelt \X Tokens BY <1>1
    <3> QED BY <1>2, <3>1 DEF Steps
  <2>3. ASSUME NEW a \in Spelt, NEW i \in 1 .. n PROVE at[<<a, i>>] = Spelled(a, seq[i])
    <3>1. at[<<a, i>>] = Spelling[<<a, seq[i]>>] BY <2>1
    <3> QED BY <1>1, <1>2, <3>1
  <2> QED BY <2>1, <2>2, <2>3
<1> HIDE DEF n, at
<1>4. PICK F : Solves(F, n, Spelt, base, at) BY <1>1, <1>3, FoldExists
<1>5. Is(F)
  <2>1. \A s \in SUBSET (1 .. n) : s # {} => Max(s) \in 1 .. n BY <1>1, LastIsOne
  <2>2. F \in [SUBSET (1 .. n) -> Spelt] BY <1>4 DEF Solves
  <2>3. ASSUME NEW s \in SUBSET (1 .. n) PROVE F[s] = Body(F, s)
    <3>1. F[s] = IF s = {} THEN base ELSE at[<<F[s \ {Max(s)}], Max(s)>>] BY <1>4 DEF Solves
    <3>2. s # {} => F[s \ {Max(s)}] \in Spelt BY <2>2
    <3> QED BY <1>3, <2>1, <3>1, <3>2
  <2> HIDE DEF Body
  <2> QED BY <1>1, <2>2, <2>3
<1>6. Is(iter)
  <2> HIDE DEF Is
  <2> QED BY <1>5
<1>7. FoldLeft(Spelled, base, seq) = iter[DOMAIN seq] BY DEF FoldLeft, MapThenFoldSet
<1> HIDE DEF iter
<1>8. FoldsBy(iter, n, Spelt, base, at)
  <2>1. \A s \in SUBSET (1 .. n) : iter[s] = Body(iter, s)
    <3> HIDE DEF Body
    <3> QED BY <1>1, <1>6
  <2>2. iter[{}] = base
    <3>1. {} \in SUBSET (1 .. n) OBVIOUS
    <3> QED BY <2>1, <3>1
  <2>3. ASSUME NEW s \in SUBSET (1 .. n), s # {}, iter[s \ {Max(s)}] \in Spelt
        PROVE  iter[s] = at[<<iter[s \ {Max(s)}], Max(s)>>]
    <3>1. Max(s) \in 1 .. n BY <1>1, <2>3, LastIsOne
    <3>2. iter[s] = Spelled(iter[s \ {Max(s)}], seq[Max(s)]) BY <2>1, <2>3
    <3> QED BY <1>3, <2>3, <3>1, <3>2
  <2> QED BY <2>2, <2>3 DEF FoldsBy
<1>9. iter[DOMAIN seq] = Run(Spelling, base, seq) BY <1>2, <1>8, FoldRuns DEF n, at
<1>10. Run(Spelling, base, seq) \in Spelt BY <1>2, RunIs
<1> QED BY <1>7, <1>9, <1>10

\* An array, value by value.
LEMMA SpacingRuns ==
    ASSUME NEW base \in Texts, NEW seq \in Seq(Texts)
    PROVE  /\ FoldLeft(Spaced, base, seq) = Run(Spacing, base, seq)
           /\ FoldLeft(Spaced, base, seq) \in Texts
<1> DEFINE n == Len(seq)
           Body(F, s) == IF s = {} THEN base ELSE Spaced(F[s \ {Max(s)}], seq[Max(s)])
           Is(F) == F = [s \in SUBSET DOMAIN seq |-> Body(F, s)]
           iter == CHOOSE F : Is(F)
           at == StepAt(Spacing, Texts, seq)
<1>1. n \in Nat /\ DOMAIN seq = 1 .. n /\ \A i \in 1 .. n : seq[i] \in Texts OBVIOUS
<1>2. Spacing \in Steps(Texts, Texts) /\ \A a \in Texts, x \in Texts : Spacing[<<a, x>>] = Spaced(a, x)
  BY SpacingIs
<1>3. at \in [Texts \X (1 .. n) -> Texts] /\ \A a \in Texts, i \in 1 .. n : at[<<a, i>>] = Spaced(a, seq[i])
  <2> HIDE DEF n
  <2>1. at = [p \in Texts \X (1 .. n) |-> Spacing[<<p[1], seq[p[2]]>>]] BY DEF StepAt, n
  <2> HIDE DEF at
  <2>2. ASSUME NEW p \in Texts \X (1 .. n) PROVE Spacing[<<p[1], seq[p[2]]>>] \in Texts
    <3>1. <<p[1], seq[p[2]]>> \in Texts \X Texts BY <1>1
    <3> QED BY <1>2, <3>1 DEF Steps
  <2>3. ASSUME NEW a \in Texts, NEW i \in 1 .. n PROVE at[<<a, i>>] = Spaced(a, seq[i])
    <3>1. at[<<a, i>>] = Spacing[<<a, seq[i]>>] BY <2>1
    <3> QED BY <1>1, <1>2, <3>1
  <2> QED BY <2>1, <2>2, <2>3
<1> HIDE DEF n, at
<1>4. PICK F : Solves(F, n, Texts, base, at) BY <1>1, <1>3, FoldExists
<1>5. Is(F)
  <2>1. \A s \in SUBSET (1 .. n) : s # {} => Max(s) \in 1 .. n BY <1>1, LastIsOne
  <2>2. F \in [SUBSET (1 .. n) -> Texts] BY <1>4 DEF Solves
  <2>3. ASSUME NEW s \in SUBSET (1 .. n) PROVE F[s] = Body(F, s)
    <3>1. F[s] = IF s = {} THEN base ELSE at[<<F[s \ {Max(s)}], Max(s)>>] BY <1>4 DEF Solves
    <3>2. s # {} => F[s \ {Max(s)}] \in Texts BY <2>2
    <3> QED BY <1>3, <2>1, <3>1, <3>2
  <2> HIDE DEF Body
  <2> QED BY <1>1, <2>2, <2>3
<1>6. Is(iter)
  <2> HIDE DEF Is
  <2> QED BY <1>5
<1>7. FoldLeft(Spaced, base, seq) = iter[DOMAIN seq] BY DEF FoldLeft, MapThenFoldSet
<1> HIDE DEF iter
<1>8. FoldsBy(iter, n, Texts, base, at)
  <2>1. \A s \in SUBSET (1 .. n) : iter[s] = Body(iter, s)
    <3> HIDE DEF Body
    <3> QED BY <1>1, <1>6
  <2>2. iter[{}] = base
    <3>1. {} \in SUBSET (1 .. n) OBVIOUS
    <3> QED BY <2>1, <3>1
  <2>3. ASSUME NEW s \in SUBSET (1 .. n), s # {}, iter[s \ {Max(s)}] \in Texts
        PROVE  iter[s] = at[<<iter[s \ {Max(s)}], Max(s)>>]
    <3>1. Max(s) \in 1 .. n BY <1>1, <2>3, LastIsOne
    <3>2. iter[s] = Spaced(iter[s \ {Max(s)}], seq[Max(s)]) BY <2>1, <2>3
    <3> QED BY <1>3, <2>3, <3>1, <3>2
  <2> QED BY <2>2, <2>3 DEF FoldsBy
<1>9. iter[DOMAIN seq] = Run(Spacing, base, seq) BY <1>2, <1>8, FoldRuns DEF n, at
<1>10. Run(Spacing, base, seq) \in Texts BY <1>2, RunIs
<1> QED BY <1>7, <1>9, <1>10

\* parseSRCINFO, line by line.
LEMMA SRCINFORuns ==
    ASSUME NEW base \in Info, NEW seq \in Seq(Entry)
    PROVE  /\ FoldLeft(SRCINFOLine, base, seq) = Run(ReadingSRCINFO, base, seq)
           /\ FoldLeft(SRCINFOLine, base, seq) \in Info
<1> DEFINE n == Len(seq)
           Body(F, s) == IF s = {} THEN base ELSE SRCINFOLine(F[s \ {Max(s)}], seq[Max(s)])
           Is(F) == F = [s \in SUBSET DOMAIN seq |-> Body(F, s)]
           iter == CHOOSE F : Is(F)
           at == StepAt(ReadingSRCINFO, Info, seq)
<1>1. n \in Nat /\ DOMAIN seq = 1 .. n /\ \A i \in 1 .. n : seq[i] \in Entry OBVIOUS
<1>2. ReadingSRCINFO \in Steps(Info, Entry) /\ \A a \in Info, x \in Entry : ReadingSRCINFO[<<a, x>>] = SRCINFOLine(a, x)
  BY SRCINFOIs
<1>3. at \in [Info \X (1 .. n) -> Info] /\ \A a \in Info, i \in 1 .. n : at[<<a, i>>] = SRCINFOLine(a, seq[i])
  <2> HIDE DEF n
  <2>1. at = [p \in Info \X (1 .. n) |-> ReadingSRCINFO[<<p[1], seq[p[2]]>>]] BY DEF StepAt, n
  <2> HIDE DEF at
  <2>2. ASSUME NEW p \in Info \X (1 .. n) PROVE ReadingSRCINFO[<<p[1], seq[p[2]]>>] \in Info
    <3>1. <<p[1], seq[p[2]]>> \in Info \X Entry BY <1>1
    <3> QED BY <1>2, <3>1 DEF Steps
  <2>3. ASSUME NEW a \in Info, NEW i \in 1 .. n PROVE at[<<a, i>>] = SRCINFOLine(a, seq[i])
    <3>1. at[<<a, i>>] = ReadingSRCINFO[<<a, seq[i]>>] BY <2>1
    <3> QED BY <1>1, <1>2, <3>1
  <2> QED BY <2>1, <2>2, <2>3
<1> HIDE DEF n, at
<1>4. PICK F : Solves(F, n, Info, base, at) BY <1>1, <1>3, FoldExists
<1>5. Is(F)
  <2>1. \A s \in SUBSET (1 .. n) : s # {} => Max(s) \in 1 .. n BY <1>1, LastIsOne
  <2>2. F \in [SUBSET (1 .. n) -> Info] BY <1>4 DEF Solves
  <2>3. ASSUME NEW s \in SUBSET (1 .. n) PROVE F[s] = Body(F, s)
    <3>1. F[s] = IF s = {} THEN base ELSE at[<<F[s \ {Max(s)}], Max(s)>>] BY <1>4 DEF Solves
    <3>2. s # {} => F[s \ {Max(s)}] \in Info BY <2>2
    <3> QED BY <1>3, <2>1, <3>1, <3>2
  <2> HIDE DEF Body
  <2> QED BY <1>1, <2>2, <2>3
<1>6. Is(iter)
  <2> HIDE DEF Is
  <2> QED BY <1>5
<1>7. FoldLeft(SRCINFOLine, base, seq) = iter[DOMAIN seq] BY DEF FoldLeft, MapThenFoldSet
<1> HIDE DEF iter
<1>8. FoldsBy(iter, n, Info, base, at)
  <2>1. \A s \in SUBSET (1 .. n) : iter[s] = Body(iter, s)
    <3> HIDE DEF Body
    <3> QED BY <1>1, <1>6
  <2>2. iter[{}] = base
    <3>1. {} \in SUBSET (1 .. n) OBVIOUS
    <3> QED BY <2>1, <3>1
  <2>3. ASSUME NEW s \in SUBSET (1 .. n), s # {}, iter[s \ {Max(s)}] \in Info
        PROVE  iter[s] = at[<<iter[s \ {Max(s)}], Max(s)>>]
    <3>1. Max(s) \in 1 .. n BY <1>1, <2>3, LastIsOne
    <3>2. iter[s] = SRCINFOLine(iter[s \ {Max(s)}], seq[Max(s)]) BY <2>1, <2>3
    <3> QED BY <1>3, <2>3, <3>1, <3>2
  <2> QED BY <2>2, <2>3 DEF FoldsBy
<1>9. iter[DOMAIN seq] = Run(ReadingSRCINFO, base, seq) BY <1>2, <1>8, FoldRuns DEF n, at
<1>10. Run(ReadingSRCINFO, base, seq) \in Info BY <1>2, RunIs
<1> QED BY <1>7, <1>9, <1>10

\* Words gives texts.
LEMMA WordsType ==
    ASSUME NEW value \in Texts
    PROVE  /\ Words(value) \in Seq(Texts)
           /\ Words(value) = Run(Spelling, [words |-> << >>, word |-> << >>], Append(value, " ")).words
<1> DEFINE base == [words |-> << >>, word |-> << >>]
           all == Append(value, " ")
<1>1. base \in Spelt BY DEF Spelt, Texts
<1>2. all \in Seq(Tokens)
  <2>1. " " \in Tokens BY DEF Tokens, Signs
  <2>2. \A t \in Tokens : Append(value, t) \in Seq(Tokens) BY DEF Texts
  <2> QED BY <2>1, <2>2
<1>3. Words(value) = FoldLeft(Spelled, base, all).words BY DEF Words
<1> HIDE DEF base, all
<1>4. FoldLeft(Spelled, base, all) = Run(Spelling, base, all)
      /\ FoldLeft(Spelled, base, all) \in Spelt
  BY <1>1, <1>2, SpellingRuns
<1>5. Words(value) \in Seq(Texts) BY <1>3, <1>4 DEF Spelt
<1> QED BY <1>3, <1>4, <1>5 DEF base, all

LEMMA PKGBUILDIs ==
    /\ ReadingPKGBUILD \in Steps(Info, Entry)
    /\ \A a \in Info, x \in Entry : ReadingPKGBUILD[<<a, x>>] = PKGBUILDLine(a, x)
<1>1. ASSUME NEW a \in Info, NEW x \in Entry PROVE PKGBUILDLine(a, x) \in Info
  <2> DEFINE words == Words(x.value)
  <2>1. words \in Seq(Texts)
    <3>1. x.value \in Texts BY DEF Entry
    <3> QED BY <3>1, WordsType
  <2> HIDE DEF words
  <2>2. words # << >> => words[1] \in Texts BY <2>1
  <2>3. FoldLeft(AddDependency, a, words) \in Info BY <2>1, AddingRuns
  <2>4. a.split \o words \in Seq(Texts) BY <2>1, ConcatProperties DEF Info
  <2>5. words # << >> =>
          /\ [a EXCEPT !.name = words[1], !.split = @ \o words] \in Info
          /\ [a EXCEPT !.version = words[1]] \in Info /\ [a EXCEPT !.release = words[1]] \in Info
    BY <2>2, <2>4 DEF Info
  <2> DEFINE added == FoldLeft(AddDependency, a, words)
  <2>6. PKGBUILDLine(a, x) =
          IF words = << >> THEN a
          ELSE CASE x.key = "pkgname" -> [a EXCEPT !.name = words[1], !.split = @ \o words]
                 [] x.key = "pkgver" -> [a EXCEPT !.version = words[1]]
                 [] x.key = "pkgrel" -> [a EXCEPT !.release = words[1]]
                 [] x.key \in {"depends", "makedepends"} -> added
                 [] OTHER -> a
    BY DEF PKGBUILDLine, words
  <2>7. added \in Info BY <2>3
  <2> HIDE DEF added
  <2>8. CASE words = << >> BY <2>6, <2>8
  <2>9. CASE words # << >>
    <3> DEFINE i1 == [a EXCEPT !.name = words[1], !.split = @ \o words]
               i2 == [a EXCEPT !.version = words[1]]
               i3 == [a EXCEPT !.release = words[1]]
    <3>1. i1 \in Info /\ i2 \in Info /\ i3 \in Info BY <2>5, <2>9
    <3>2. PKGBUILDLine(a, x) =
            CASE x.key = "pkgname" -> i1 [] x.key = "pkgver" -> i2 [] x.key = "pkgrel" -> i3
              [] x.key \in {"depends", "makedepends"} -> added [] OTHER -> a
      BY <2>6, <2>9
    <3> HIDE DEF i1, i2, i3
    <3> QED BY <2>7, <3>1, <3>2
  <2> QED BY <2>8, <2>9
<1>2. ReadingPKGBUILD \in Steps(Info, Entry)
  <2>1. ASSUME NEW p \in Info \X Entry PROVE ReadingPKGBUILD[p] \in Info
    <3>1. p[1] \in Info /\ p[2] \in Entry OBVIOUS
    <3> QED BY <1>1, <3>1 DEF ReadingPKGBUILD
  <2>2. DOMAIN ReadingPKGBUILD = Info \X Entry BY DEF ReadingPKGBUILD
  <2>3. ReadingPKGBUILD = [p \in DOMAIN ReadingPKGBUILD |-> ReadingPKGBUILD[p]] BY DEF ReadingPKGBUILD
  <2> QED BY <2>1, <2>2, <2>3 DEF Steps
<1>3. \A a \in Info, x \in Entry : ReadingPKGBUILD[<<a, x>>] = PKGBUILDLine(a, x) BY DEF ReadingPKGBUILD
<1> QED BY <1>2, <1>3

\* parsePKGBUILD, line by line.
LEMMA PKGBUILDRuns ==
    ASSUME NEW base \in Info, NEW seq \in Seq(Entry)
    PROVE  /\ FoldLeft(PKGBUILDLine, base, seq) = Run(ReadingPKGBUILD, base, seq)
           /\ FoldLeft(PKGBUILDLine, base, seq) \in Info
<1> DEFINE n == Len(seq)
           Body(F, s) == IF s = {} THEN base ELSE PKGBUILDLine(F[s \ {Max(s)}], seq[Max(s)])
           Is(F) == F = [s \in SUBSET DOMAIN seq |-> Body(F, s)]
           iter == CHOOSE F : Is(F)
           at == StepAt(ReadingPKGBUILD, Info, seq)
<1>1. n \in Nat /\ DOMAIN seq = 1 .. n /\ \A i \in 1 .. n : seq[i] \in Entry OBVIOUS
<1>2. ReadingPKGBUILD \in Steps(Info, Entry) /\ \A a \in Info, x \in Entry : ReadingPKGBUILD[<<a, x>>] = PKGBUILDLine(a, x)
  BY PKGBUILDIs
<1>3. at \in [Info \X (1 .. n) -> Info] /\ \A a \in Info, i \in 1 .. n : at[<<a, i>>] = PKGBUILDLine(a, seq[i])
  <2> HIDE DEF n
  <2>1. at = [p \in Info \X (1 .. n) |-> ReadingPKGBUILD[<<p[1], seq[p[2]]>>]] BY DEF StepAt, n
  <2> HIDE DEF at
  <2>2. ASSUME NEW p \in Info \X (1 .. n) PROVE ReadingPKGBUILD[<<p[1], seq[p[2]]>>] \in Info
    <3>1. <<p[1], seq[p[2]]>> \in Info \X Entry BY <1>1
    <3> QED BY <1>2, <3>1 DEF Steps
  <2>3. ASSUME NEW a \in Info, NEW i \in 1 .. n PROVE at[<<a, i>>] = PKGBUILDLine(a, seq[i])
    <3>1. at[<<a, i>>] = ReadingPKGBUILD[<<a, seq[i]>>] BY <2>1
    <3> QED BY <1>1, <1>2, <3>1
  <2> QED BY <2>1, <2>2, <2>3
<1> HIDE DEF n, at
<1>4. PICK F : Solves(F, n, Info, base, at) BY <1>1, <1>3, FoldExists
<1>5. Is(F)
  <2>1. \A s \in SUBSET (1 .. n) : s # {} => Max(s) \in 1 .. n BY <1>1, LastIsOne
  <2>2. F \in [SUBSET (1 .. n) -> Info] BY <1>4 DEF Solves
  <2>3. ASSUME NEW s \in SUBSET (1 .. n) PROVE F[s] = Body(F, s)
    <3>1. F[s] = IF s = {} THEN base ELSE at[<<F[s \ {Max(s)}], Max(s)>>] BY <1>4 DEF Solves
    <3>2. s # {} => F[s \ {Max(s)}] \in Info BY <2>2
    <3> QED BY <1>3, <2>1, <3>1, <3>2
  <2> HIDE DEF Body
  <2> QED BY <1>1, <2>2, <2>3
<1>6. Is(iter)
  <2> HIDE DEF Is
  <2> QED BY <1>5
<1>7. FoldLeft(PKGBUILDLine, base, seq) = iter[DOMAIN seq] BY DEF FoldLeft, MapThenFoldSet
<1> HIDE DEF iter
<1>8. FoldsBy(iter, n, Info, base, at)
  <2>1. \A s \in SUBSET (1 .. n) : iter[s] = Body(iter, s)
    <3> HIDE DEF Body
    <3> QED BY <1>1, <1>6
  <2>2. iter[{}] = base
    <3>1. {} \in SUBSET (1 .. n) OBVIOUS
    <3> QED BY <2>1, <3>1
  <2>3. ASSUME NEW s \in SUBSET (1 .. n), s # {}, iter[s \ {Max(s)}] \in Info
        PROVE  iter[s] = at[<<iter[s \ {Max(s)}], Max(s)>>]
    <3>1. Max(s) \in 1 .. n BY <1>1, <2>3, LastIsOne
    <3>2. iter[s] = PKGBUILDLine(iter[s \ {Max(s)}], seq[Max(s)]) BY <2>1, <2>3
    <3> QED BY <1>3, <2>3, <3>1, <3>2
  <2> QED BY <2>2, <2>3 DEF FoldsBy
<1>9. iter[DOMAIN seq] = Run(ReadingPKGBUILD, base, seq) BY <1>2, <1>8, FoldRuns DEF n, at
<1>10. Run(ReadingPKGBUILD, base, seq) \in Info BY <1>2, RunIs
<1> QED BY <1>7, <1>9, <1>10

-----------------------------------------------------------------------------
(* The words of what is declared.                                          *)

Dependency ==
    [name : Seq(NameTokens) \ {<< >>}, op : Constraints \cup {<< >>}, version : Seq(VersionTokens)]
Plain(value) == \A i \in 1 .. Len(value) : value[i] \notin Signs
Spelt1(words, word) == [words |-> words, word |-> word]

\* Spelling one text after another.
LEMMA SpellingOn ==
    ASSUME NEW acc \in Spelt
    PROVE  /\ Run(Spelling, acc, << >>) = acc
           /\ \A s \in Texts, t \in Tokens :
                 Run(Spelling, acc, Append(s, t)) = Spelled(Run(Spelling, acc, s), t)
           /\ \A s, t \in Texts :
                 Run(Spelling, acc, s \o t) = Run(Spelling, Run(Spelling, acc, s), t)
           /\ \A s \in Texts : Run(Spelling, acc, s) \in Spelt
<1>1. Spelling \in Steps(Spelt, Tokens) BY SpellingIs
<1>2. << >> \in Seq(Tokens) /\ Texts = Seq(Tokens) BY DEF Texts
<1>3. Run(Spelling, acc, << >>) = acc BY RunOfNothing
<1>4. \A s \in Texts : Run(Spelling, acc, s) \in Spelt BY <1>1, <1>2, RunIs
<1>5. ASSUME NEW s \in Texts, NEW t \in Tokens
      PROVE  Run(Spelling, acc, Append(s, t)) = Spelled(Run(Spelling, acc, s), t)
  <2>1. Run(Spelling, acc, Append(s, t)) = Spelling[<<Run(Spelling, acc, s), t>>]
    BY <1>1, <1>2, RunAppend
  <2> QED BY <1>4, <2>1, SpellingIs
<1>6. ASSUME NEW s \in Texts, NEW t \in Texts
      PROVE  Run(Spelling, acc, s \o t) = Run(Spelling, Run(Spelling, acc, s), t)
  BY <1>1, <1>2, RunConcat
<1> QED BY <1>3, <1>4, <1>5, <1>6

\* Without a sign it is one word.
LEMMA SpellPlain ==
    ASSUME NEW words \in Seq(Texts), NEW word \in Texts, NEW value \in Texts, Plain(value)
    PROVE  Run(Spelling, Spelt1(words, word), value) = Spelt1(words, word \o value)
<1> DEFINE image == [w \in Texts |-> Spelt1(words, w)]
           step == Appends(Tokens)
<1>1. word \in Seq(Tokens) /\ value \in Seq(Tokens) /\ Texts = Seq(Tokens) BY DEF Texts
<1>2. step \in Steps(Texts, Tokens) /\ Run(step, word, value) = word \o value
  BY <1>1, RunOfAppends
<1>3. image \in Images(Texts, Spelt) BY DEF Images, Spelt, Spelt1
<1>4. Alike(step, Texts, value, Spelling, value, image)
  <2>1. ASSUME NEW i \in 1 .. Len(value), NEW w \in Texts
        PROVE  image[step[<<w, value[i]>>]] = Spelling[<<image[w], value[i]>>]
    <3>1. value[i] \in Tokens /\ value[i] \notin Signs BY <1>1 DEF Plain
    <3>2. step[<<w, value[i]>>] = Append(w, value[i]) BY <1>1, <3>1 DEF Appends
    <3>3. Append(w, value[i]) \in Texts BY <3>1 DEF Texts
    <3>4. image[step[<<w, value[i]>>]] = Spelt1(words, Append(w, value[i])) BY <3>2, <3>3
    <3>5. image[w] \in Spelt /\ image[w] = Spelt1(words, w) BY <1>3 DEF Images
    <3>6. Spelling[<<image[w], value[i]>>] = Spelled(Spelt1(words, w), value[i])
      BY <3>1, <3>5, SpellingIs
    <3>7. Spelled(Spelt1(words, w), value[i]) = Spelt1(words, Append(w, value[i]))
      BY <3>1 DEF Spelled, Spelt1
    <3> QED BY <3>4, <3>6, <3>7
  <2> HIDE DEF step, image
  <2> QED BY <2>1 DEF Alike
<1>5. image[word] = Spelt1(words, word) /\ image[word \o value] = Spelt1(words, word \o value)
  BY <1>1, ConcatProperties
<1> HIDE DEF image, step
<1>6. Run(Spelling, image[word], value) = image[Run(step, word, value)]
  <2>1. Spelling \in Steps(Spelt, Tokens) BY SpellingIs
  <2>2. value \in Seq(Tokens) BY <1>1
  <2>3. SameRuns(step, word, value, Spelling, value, image)
    BY <1>2, <1>3, <1>4, <2>1, <2>2, RunsAlike
  <2> QED BY <2>3 DEF SameRuns
<1> QED BY <1>2, <1>5, <1>6

\* A sign ends a word.
LEMMA SpellSign ==
    ASSUME NEW words \in Seq(Texts), NEW word \in Texts, NEW t \in Signs
    PROVE  LET more == IF word = << >> THEN words ELSE Append(words, word)
           IN  /\ more \in Seq(Texts) /\ Spelt1(words, word) \in Spelt /\ Spelt1(more, << >>) \in Spelt
               /\ Run(Spelling, Spelt1(words, word), <<t>>) = Spelt1(more, << >>)
               /\ Spelled(Spelt1(words, word), t) = Spelt1(more, << >>)
<1> DEFINE acc == Spelt1(words, word)
           more == IF word = << >> THEN words ELSE Append(words, word)
<1>1. t \in Tokens BY DEF Tokens
<1>2. more \in Seq(Texts) /\ << >> \in Texts BY DEF Texts
<1>3. acc \in Spelt /\ Spelt1(more, << >>) \in Spelt BY <1>2 DEF Spelt, Spelt1
<1>4. Spelled(acc, t) = Spelt1(more, << >>) BY DEF Spelled, Spelt1
<1> HIDE DEF acc, more
<1>5. << >> \in Texts /\ Append(<< >>, t) = <<t>> BY <1>1 DEF Texts
<1>6. Run(Spelling, acc, Append(<< >>, t)) = Spelled(Run(Spelling, acc, << >>), t)
      /\ Run(Spelling, acc, << >>) = acc
  BY <1>1, <1>3, <1>5, SpellingOn
<1>7. Run(Spelling, acc, <<t>>) = Spelled(acc, t) BY <1>5, <1>6
<1> QED BY <1>2, <1>3, <1>4, <1>7 DEF acc, more

\* A sign at the end of a text.
LEMMA SpellEnd ==
    ASSUME NEW acc \in Spelt, NEW text \in Texts, NEW t \in Signs,
           NEW words \in Seq(Texts), NEW word \in Texts,
           Run(Spelling, acc, text) = Spelt1(words, word)
    PROVE  /\ Append(text, t) \in Texts
           /\ Run(Spelling, acc, Append(text, t))
                = Spelt1(IF word = << >> THEN words ELSE Append(words, word), << >>)
<1>1. t \in Tokens BY DEF Tokens
<1>2. Append(text, t) \in Texts BY <1>1 DEF Texts
<1>3. Run(Spelling, acc, Append(text, t)) = Spelled(Spelt1(words, word), t) BY <1>1, SpellingOn
<1> QED BY <1>2, <1>3, SpellSign

\* A constraint ends a name.
LEMMA SpellConstraint ==
    ASSUME NEW words \in Seq(Texts), NEW word \in Texts, word # << >>, NEW op \in Constraints
    PROVE  /\ op \in Texts /\ \E k \in 1 .. 5 : op = Markers[k]
           /\ Append(words, word) \in Seq(Texts)
           /\ Run(Spelling, Spelt1(words, word), op) = Spelt1(Append(words, word), << >>)
<1> DEFINE more == Append(words, word)
<1>1. ">" \in Signs /\ "<" \in Signs /\ "=" \in Signs BY DEF Signs
<1>2. /\ op = <<">", "=">> \/ op = <<"<", "=">> \/ op = <<"=">> \/ op = <<">">> \/ op = <<"<">>
      /\ (\E t, u \in Signs : op = <<t, u>>) \/ \E t \in Signs : op = <<t>>
  <2>1. op = <<">", "=">> \/ op = <<"<", "=">> \/ op = <<"=">> \/ op = <<">">> \/ op = <<"<">>
    BY DEF Constraints
  <2> QED BY <1>1, <2>1
<1>3. \E k \in 1 .. 5 : op = Markers[k]
  <2>1. 1 \in 1 .. 5 /\ 2 \in 1 .. 5 /\ 3 \in 1 .. 5 /\ 4 \in 1 .. 5 /\ 5 \in 1 .. 5 OBVIOUS
  <2> QED BY <1>2, <2>1, MarkersAre
<1>4. op \in Texts
  <2>1. \A k \in 1 .. 5 : k \in 1 .. 6 OBVIOUS
  <2> QED BY <1>3, <2>1, MarkersAre
<1>5. more \in Seq(Texts) /\ << >> \in Texts BY DEF Texts
<1>6. \A t \in Signs : Run(Spelling, Spelt1(words, word), <<t>>) = Spelt1(more, << >>)
  BY SpellSign
<1> HIDE DEF more
<1>8. Spelt1(words, word) \in Spelt BY DEF Spelt, Spelt1
<1>9. \A t, u \in Signs : Run(Spelling, Spelt1(words, word), <<t, u>>) = Spelt1(more, << >>)
  <2> TAKE t, u \in Signs
  <2>1. t \in Tokens /\ u \in Tokens BY DEF Tokens
  <2>2. <<t>> \in Texts /\ <<u>> \in Texts BY <2>1 DEF Texts
  <2>3. <<t, u>> = Append(<<t>>, u) OBVIOUS
  <2>4. Run(Spelling, Spelt1(words, word), Append(<<t>>, u))
          = Spelled(Run(Spelling, Spelt1(words, word), <<t>>), u)
    BY <1>8, <2>1, <2>2, SpellingOn
  <2>5. Spelled(Spelt1(more, << >>), u) = Spelt1(more, << >>) BY <1>5, SpellSign
  <2> QED BY <1>6, <2>3, <2>4, <2>5
<1>10. Run(Spelling, Spelt1(words, word), op) = Spelt1(more, << >>) BY <1>2, <1>6, <1>9
<1> QED BY <1>3, <1>4, <1>5, <1>10 DEF more

\* What is in a name and in a version.
LEMMA PlainTokens ==
    /\ \A v \in Seq(VersionTokens) : v \in Texts /\ Plain(v)
    /\ \A v \in Seq(NameTokens) : v \in Texts /\ Plain(v)
<1>1. NameTokens \subseteq Tokens \ Signs /\ VersionTokens \subseteq Tokens \ Signs
  BY DEF Tokens, NameTokens, VersionTokens
<1>2. ASSUME NEW T \in SUBSET (Tokens \ Signs), NEW v \in Seq(T) PROVE v \in Texts /\ Plain(v)
  <2>1. v \in Texts BY DEF Texts
  <2>2. \A i \in 1 .. Len(v) : v[i] \in T OBVIOUS
  <2> QED BY <2>1, <2>2 DEF Plain
<1> QED BY <1>1, <1>2

\* The words of a dependency are its name and perhaps a version.
HasVersion(dep) == dep.op # << >> /\ dep.version # << >>

LEMMA SpellDeclared ==
    ASSUME NEW dep \in Dependency, NEW words \in Seq(Texts)
    PROVE  LET named == Append(words, dep.name)
               both == Append(named, dep.version)
               spelt == Run(Spelling, Run(Spelling, Spelt1(words, << >>), Declared(dep)), <<" ">>)
           IN  /\ Declared(dep) \in Texts /\ depName(Declared(dep)) = dep.name
               /\ named \in Seq(Texts) /\ both \in Seq(Texts)
               /\ spelt = Spelt1(IF HasVersion(dep) THEN both ELSE named, << >>)
<1> DEFINE named == Append(words, dep.name)
           both == Append(named, dep.version)
           empty == Spelt1(words, << >>)
<1>1. /\ dep.name \in Seq(NameTokens) /\ dep.name # << >> /\ dep.version \in Seq(VersionTokens)
      /\ dep.op \in Constraints \cup {<< >>}
  BY DEF Dependency
<1>2. /\ dep.name \in Texts /\ Plain(dep.name) /\ dep.version \in Texts /\ Plain(dep.version)
  BY <1>1, PlainTokens
<1>3. named \in Seq(Texts) /\ both \in Seq(Texts) /\ << >> \in Texts BY <1>2 DEF Texts
<1>4. empty \in Spelt BY <1>3 DEF Spelt, Spelt1
<1>5. \A v \in Texts : << >> \o v = v BY DEF Texts
<1>6. Run(Spelling, empty, dep.name) = Spelt1(words, dep.name)
  <2>1. Run(Spelling, empty, dep.name) = Spelt1(words, << >> \o dep.name)
    BY <1>2, <1>3, SpellPlain
  <2> QED BY <1>2, <1>5, <2>1
<1>7. " " \in Signs BY DEF Signs
<1>8. CASE dep.op = << >>
  <2>1. Declared(dep) = dep.name BY <1>8 DEF Declared
  <2>2. depName(dep.name) = dep.name BY <1>1, NameOfName
  <2>3. Run(Spelling, Spelt1(words, dep.name), <<" ">>) = Spelt1(named, << >>)
    BY <1>1, <1>2, <1>7, SpellSign
  <2>4. ~HasVersion(dep) BY <1>8 DEF HasVersion
  <2> HIDE DEF named, empty
  <2> QED BY <1>2, <1>3, <1>6, <2>1, <2>2, <2>3, <2>4 DEF named, empty
<1>9. CASE dep.op # << >>
  <2>1. dep.op \in Constraints BY <1>1, <1>9
  <2>2. dep.op \in Texts /\ (\E k \in 1 .. 5 : dep.op = Markers[k])
        /\ Run(Spelling, Spelt1(words, dep.name), dep.op) = Spelt1(named, << >>)
    BY <1>1, <1>2, <2>1, SpellConstraint
  <2>3. Declared(dep) = dep.name \o dep.op \o dep.version BY <1>9 DEF Declared
  <2>4. Declared(dep) \in Texts /\ depName(Declared(dep)) = dep.name
    BY <1>1, <2>2, <2>3, NameOfConstrained
  <2> HIDE DEF named, both
  <2>5. Run(Spelling, Spelt1(named, << >>), dep.version) = Spelt1(named, dep.version)
    <3>1. Run(Spelling, Spelt1(named, << >>), dep.version) = Spelt1(named, << >> \o dep.version)
      BY <1>2, <1>3, SpellPlain
    <3> QED BY <1>2, <1>5, <3>1
  <2>6. Run(Spelling, Spelt1(named, dep.version), <<" ">>)
          = Spelt1(IF dep.version = << >> THEN named ELSE both, << >>)
    BY <1>2, <1>3, <1>7, SpellSign DEF both
  <2>7. Run(Spelling, empty, Declared(dep)) = Spelt1(named, dep.version)
    <3> HIDE DEF empty
    <3>1. dep.name \o dep.op \in Texts
      <4>1. dep.name \in Seq(Tokens) /\ dep.op \in Seq(Tokens) BY <1>2, <2>2 DEF Texts
      <4> QED BY <4>1, ConcatProperties DEF Texts
    <3>2. Run(Spelling, empty, dep.name \o dep.op \o dep.version)
            = Run(Spelling, Run(Spelling, empty, dep.name \o dep.op), dep.version)
      BY <1>2, <1>4, <3>1, SpellingOn
    <3>3. Run(Spelling, empty, dep.name \o dep.op)
            = Run(Spelling, Run(Spelling, empty, dep.name), dep.op)
      BY <1>2, <1>4, <2>2, SpellingOn
    <3> QED BY <1>6, <2>2, <2>3, <2>5, <3>2, <3>3
  <2> HIDE DEF empty
  <2>8. HasVersion(dep) <=> dep.version # << >> BY <1>9 DEF HasVersion
  <2>9. Run(Spelling, Run(Spelling, empty, Declared(dep)), <<" ">>)
          = Spelt1(IF HasVersion(dep) THEN both ELSE named, << >>)
    BY <2>6, <2>7, <2>8
  <2> QED BY <1>3, <2>4, <2>9 DEF named, both, empty
<1> QED BY <1>8, <1>9

\* The one word of a value that is not an array.
LEMMA WordsOfWord ==
    ASSUME NEW value \in Texts, Plain(value), value # << >> PROVE Words(value) = <<value>>
<1> DEFINE none == << >>
           empty == Spelt1(none, none)
<1>1. none \in Texts /\ none \in Seq(Texts) /\ none \o value = value BY DEF Texts
<1> DEFINE space == " "
           text == Append(value, space)
           one == <<value>>
<1>2. Words(value) = Run(Spelling, empty, text).words BY WordsType DEF Spelt1
<1>3. space \in Signs BY DEF Signs
<1>4. empty \in Spelt BY <1>1 DEF Spelt, Spelt1
<1>5. Append(none, value) = <<value>> OBVIOUS
<1> HIDE DEF none, space, text, one
<1>6. Run(Spelling, empty, value) = Spelt1(none, value)
  <2>1. Run(Spelling, empty, value) = Spelt1(none, none \o value) BY <1>1, SpellPlain
  <2> QED BY <1>1, <2>1
<1> HIDE DEF empty
<1>7. Run(Spelling, empty, text) = Spelt1(one, << >>)
  <2>1. Run(Spelling, empty, text) = Spelt1(Append(none, value), << >>)
    BY <1>1, <1>3, <1>4, <1>6, SpellEnd DEF text
  <2> QED BY <1>5, <2>1 DEF one
<1>8. Words(value) = Spelt1(one, << >>).words BY <1>2, <1>7
<1> QED BY <1>8 DEF one, Spelt1

\* A word that a dependency puts into an array.
Mentions(dep, t) == t = dep.name \/ (HasVersion(dep) /\ t = dep.version)
Words1(words, dep) ==
    LET named == Append(words, dep.name)
    IN  IF HasVersion(dep) THEN Append(named, dep.version) ELSE named
IsWord(words, t) == \E k \in 1 .. Len(words) : words[k] = t

\* The words of some dependencies.
Worded(deps, i, words) ==
    /\ \A t \in Texts : IsWord(words, t) <=> \E j \in 1 .. i : Mentions(deps[j], t)
    /\ (\A j \in 1 .. i : deps[j].op = << >>) =>
          Len(words) = i /\ \A j \in 1 .. i : words[j] = deps[j].name

LEMMA WordAdded ==
    ASSUME NEW words \in Seq(Texts), NEW x \in Texts
    PROVE  /\ Append(words, x) \in Seq(Texts) /\ Len(Append(words, x)) = Len(words) + 1
           /\ Append(words, x)[Len(words) + 1] = x
           /\ \A k \in 1 .. Len(words) : Append(words, x)[k] = words[k]
           /\ \A t : IsWord(Append(words, x), t) <=> IsWord(words, t) \/ t = x
<1> DEFINE n == Len(words)
           more == Append(words, x)
<1>1. n \in Nat OBVIOUS
<1>2. /\ more \in Seq(Texts) /\ Len(more) = n + 1 /\ more[n + 1] = x
      /\ \A k \in 1 .. n : more[k] = words[k]
  BY AppendProperties
<1> HIDE DEF more, n
<1>3. n + 1 \in 1 .. n + 1 /\ (\A k \in 1 .. n : k \in 1 .. n + 1)
      /\ \A k \in 1 .. n + 1 : k = n + 1 \/ k \in 1 .. n
  BY <1>1
<1>4. \A t : (\E k \in 1 .. n + 1 : more[k] = t) <=> (\E k \in 1 .. n : words[k] = t) \/ t = x
  BY <1>2, <1>3
<1> QED BY <1>2, <1>4 DEF IsWord, n, more

\* One dependency more.
LEMMA WordedOn ==
    ASSUME NEW deps \in Seq(Dependency), NEW i \in 1 .. Len(deps), NEW words \in Seq(Texts),
           Worded(deps, i - 1, words)
    PROVE  Worded(deps, i, Words1(words, deps[i]))
<1> DEFINE name == deps[i].name
           version == deps[i].version
           named == Append(words, name)
           both == Append(named, version)
           n == Len(words)
           dep == deps[i]
<1>1. name \in Texts /\ version \in Texts
  <2>1. deps[i] \in Dependency OBVIOUS
  <2> QED BY <2>1, PlainTokens DEF Dependency
<1>2. i \in Nat /\ i # 0 /\ n \in Nat /\ (\A j \in 1 .. i : j = i \/ j \in 1 .. i - 1)
      /\ i \in 1 .. i /\ \A j \in 1 .. i - 1 : j \in 1 .. i
  OBVIOUS
<1> HIDE DEF name, version
<1>3. /\ named \in Seq(Texts) /\ Len(named) = n + 1 /\ named[n + 1] = name
      /\ \A k \in 1 .. n : named[k] = words[k]
      /\ \A t : IsWord(named, t) <=> IsWord(words, t) \/ t = name
  BY <1>1, WordAdded
<1> HIDE DEF named
<1>4. \A t : IsWord(both, t) <=> IsWord(named, t) \/ t = version BY <1>1, <1>3, WordAdded
<1> HIDE DEF both
<1>5. Words1(words, dep) = IF HasVersion(dep) THEN both ELSE named
  BY DEF Words1, both, named, name, version
<1>6. \A t : Mentions(dep, t) <=> t = name \/ (HasVersion(dep) /\ t = version)
  BY DEF Mentions, name, version
<1>7. \A t : IsWord(Words1(words, dep), t) <=> IsWord(words, t) \/ Mentions(dep, t)
  BY <1>3, <1>4, <1>5, <1>6
<1>8. \A t : (\E j \in 1 .. i : Mentions(deps[j], t))
              <=> (\E j \in 1 .. i - 1 : Mentions(deps[j], t)) \/ Mentions(dep, t)
  <2> TAKE t
  <2> DEFINE M(j) == Mentions(deps[j], t)
  <2>1. M(i) <=> Mentions(dep, t) OBVIOUS
  <2> HIDE DEF M
  <2>2. (\E j \in 1 .. i : M(j)) <=> (\E j \in 1 .. i - 1 : M(j)) \/ M(i) BY <1>2
  <2> QED BY <2>1, <2>2 DEF M
<1>9. \A t \in Texts : IsWord(words, t) <=> \E j \in 1 .. i - 1 : Mentions(deps[j], t)
  BY DEF Worded
<1> HIDE DEF dep
<1>10. \A t \in Texts :
         IsWord(Words1(words, dep), t) <=> \E j \in 1 .. i : Mentions(deps[j], t)
  BY <1>7, <1>8, <1>9
<1>11. (\A j \in 1 .. i : deps[j].op = << >>) =>
         LET more == Words1(words, dep)
         IN  Len(more) = i /\ \A j \in 1 .. i : more[j] = deps[j].name
  <2> HAVE \A j \in 1 .. i : deps[j].op = << >>
  <2>1. Words1(words, dep) = named
    <3>1. ~HasVersion(dep) BY <1>2 DEF HasVersion, dep
    <3> QED BY <1>5, <3>1
  <2>2. n = i - 1 /\ \A j \in 1 .. i - 1 : words[j] = deps[j].name BY <1>2 DEF Worded, n
  <2>3. n + 1 = i BY <1>2, <2>2
  <2>4. named[i] = deps[i].name BY <1>3, <2>3 DEF name
  <2>5. \A j \in 1 .. i - 1 : named[j] = deps[j].name BY <1>3, <2>2
  <2> QED BY <1>2, <1>3, <2>1, <2>3, <2>4, <2>5
<1> QED BY <1>10, <1>11 DEF Worded, dep

\* The words of an array of dependencies.
LEMMA WordsOfArray ==
    ASSUME NEW deps \in Seq(Dependency)
    PROVE  LET array == Array([i \in DOMAIN deps |-> Declared(deps[i])])
           IN  /\ array \in Texts /\ Words(array) \in Seq(Texts)
               /\ Worded(deps, Len(deps), Words(array))
<1> DEFINE n == Len(deps)
           values == [i \in DOMAIN deps |-> Declared(deps[i])]
           none == << >>
           empty == Spelt1(none, none)
<1>1. n \in Nat /\ DOMAIN deps = 1 .. n /\ \A i \in 1 .. n : deps[i] \in Dependency OBVIOUS
<1>2. none \in Texts /\ none \in Seq(Texts) /\ Len(none) = 0 BY DEF Texts
<1>3. \A i \in 1 .. n : Declared(deps[i]) \in Texts /\ values[i] = Declared(deps[i])
  <2> TAKE i \in 1 .. n
  <2>1. deps[i] \in Dependency /\ i \in DOMAIN deps BY <1>1
  <2>2. Declared(deps[i]) \in Texts BY <1>2, <2>1, SpellDeclared
  <2> QED BY <2>1, <2>2
<1>4. values \in Seq(Texts) /\ Len(values) = n
  <2>1. values = [i \in 1 .. n |-> Declared(deps[i])] BY <1>1
  <2> HIDE DEF values, n
  <2> QED BY <1>1, <1>3, <2>1
<1> HIDE DEF n, values, none
<1>5. empty \in Spelt BY <1>2 DEF Spelt, Spelt1
<1>6. /\ "(" \in Signs /\ ")" \in Signs /\ " " \in Signs
      /\ "(" \in Tokens /\ ")" \in Tokens /\ " " \in Tokens
  BY DEF Signs, Tokens
<1>7. <<"(">> \in Texts /\ <<" ">> \in Texts
  <2>1. \A t \in Tokens : <<t>> \in Texts BY DEF Texts
  <2> QED BY <1>6, <2>1
<1>8. PICK c \in [0 .. n -> Texts] : c[0] = <<"(">> /\ IsChain(c, Spacing, values)
  <2>1. Spacing \in Steps(Texts, Texts) BY SpacingIs
  <2>2. Chained(Texts, Spacing, <<"(">>, values) BY <1>4, <1>7, <2>1, ChainExists
  <2> QED BY <1>4, <2>2 DEF Chained
<1>9. FoldLeft(Spaced, <<"(">>, values) = c[n]
  <2>1. FoldLeft(Spaced, <<"(">>, values) = Run(Spacing, <<"(">>, values)
    BY <1>4, <1>7, SpacingRuns
  <2>2. c[Len(values)] = Run(Spacing, c[0], values) BY <1>1, <1>4, <1>8, RunOfChain
  <2> QED BY <1>4, <1>8, <2>1, <2>2
<1> DEFINE Done(i) == \E words \in Seq(Texts) :
                         /\ Run(Spelling, empty, c[i]) = Spelt1(words, none)
                         /\ Worded(deps, i, words)
<1>10. Done(0)
  <2>1. Run(Spelling, empty, <<"(">>) = Spelt1(none, none)
    <3>1. Run(Spelling, empty, <<"(">>) = Spelt1(none, << >>) BY <1>2, <1>6, SpellSign DEF none
    <3> QED BY <3>1 DEF none
  <2>2. Worded(deps, 0, none) BY <1>2 DEF Worded, IsWord
  <2> QED BY <1>2, <1>8, <2>1, <2>2
<1>11. ASSUME NEW i \in 1 .. n, Done(i - 1) PROVE Done(i)
  <2>1. PICK words \in Seq(Texts) :
          Run(Spelling, empty, c[i - 1]) = Spelt1(words, none) /\ Worded(deps, i - 1, words)
    BY <1>11
  <2> DEFINE named == Append(words, deps[i].name)
             both == Append(named, deps[i].version)
  <2>2. c[i - 1] \in Texts /\ Declared(deps[i]) \in Texts /\ deps[i] \in Dependency
    BY <1>1, <1>3, <1>8
  <2>3. c[i] = c[i - 1] \o Declared(deps[i]) \o <<" ">>
    <3>1. c[i] = Spacing[<<c[i - 1], values[i]>>] BY <1>4, <1>8 DEF IsChain
    <3>2. c[i] = Spaced(c[i - 1], Declared(deps[i])) BY <1>3, <2>2, <3>1, SpacingIs
    <3> QED BY <3>2 DEF Spaced
  <2>4. Run(Spelling, empty, c[i])
          = Run(Spelling, Run(Spelling, Spelt1(words, none), Declared(deps[i])), <<" ">>)
    <3> DEFINE long == c[i - 1] \o Declared(deps[i])
    <3>1. long \in Texts
      <4>1. c[i - 1] \in Seq(Tokens) /\ Declared(deps[i]) \in Seq(Tokens) BY <2>2 DEF Texts
      <4> QED BY <4>1, ConcatProperties DEF Texts
    <3>2. Run(Spelling, empty, long)
            = Run(Spelling, Run(Spelling, empty, c[i - 1]), Declared(deps[i]))
      BY <1>5, <2>2, SpellingOn
    <3> HIDE DEF long, empty
    <3>3. Run(Spelling, empty, long \o <<" ">>) = Run(Spelling, Run(Spelling, empty, long), <<" ">>)
      BY <1>5, <1>7, <3>1, SpellingOn
    <3> QED BY <2>1, <2>3, <3>2, <3>3 DEF long
  <2>5. /\ named \in Seq(Texts) /\ both \in Seq(Texts)
        /\ Run(Spelling, empty, c[i]) = Spelt1(IF HasVersion(deps[i]) THEN both ELSE named, none)
    BY <2>2, <2>4, SpellDeclared DEF none
  <2>6. Worded(deps, i, Words1(words, deps[i])) BY <2>1, WordedOn DEF n
  <2>7. Words1(words, deps[i]) = IF HasVersion(deps[i]) THEN both ELSE named BY DEF Words1
  <2> HIDE DEF named, both
  <2> QED BY <2>5, <2>6, <2>7
<1>12. Done(n)
  <2> DEFINE done == {i \in 0 .. n : Done(i)}
  <2>1. 0 \in done BY <1>1, <1>10
  <2>2. \A i \in 1 .. n : i - 1 \in done => i \in done
    <3> TAKE i \in 1 .. n
    <3> HAVE i - 1 \in done
    <3>1. Done(i - 1) /\ i \in 0 .. n OBVIOUS
    <3>2. Done(i) BY <1>11, <3>1
    <3> QED BY <3>1, <3>2
  <2>3. n \in 0 .. n BY <1>1
  <2> HIDE DEF done, Done
  <2>4. n \in done BY <1>1, <2>1, <2>2, <2>3, UpTo
  <2> QED BY <2>4 DEF done
<1>13. PICK words \in Seq(Texts) :
         Run(Spelling, empty, c[n]) = Spelt1(words, none) /\ Worded(deps, n, words)
  BY <1>12
<1> DEFINE array == Array(values)
           close == ")"
           space == " "
           text == Append(array, space)
<1>14. array = Append(c[n], close) /\ c[n] \in Texts BY <1>1, <1>8, <1>9 DEF Array
<1>15. close \in Signs /\ space \in Signs BY <1>6
<1> HIDE DEF array, empty, close, space, text
<1>16. array \in Texts /\ Run(Spelling, empty, array) = Spelt1(words, none)
  <2>1. Append(c[n], close) \in Texts
        /\ Run(Spelling, empty, Append(c[n], close))
             = Spelt1(IF none = << >> THEN words ELSE Append(words, none), << >>)
    BY <1>2, <1>5, <1>13, <1>14, <1>15, SpellEnd
  <2> QED BY <1>14, <2>1 DEF none
<1>17. Words(array) \in Seq(Texts) /\ Words(array) = Run(Spelling, empty, text).words
  BY <1>16, WordsType DEF empty, Spelt1, none, text, space
<1>18. Run(Spelling, empty, text) = Spelt1(words, none)
  <2>1. Run(Spelling, empty, Append(array, space))
          = Spelt1(IF none = << >> THEN words ELSE Append(words, none), << >>)
    BY <1>2, <1>5, <1>15, <1>16, SpellEnd
  <2> QED BY <2>1 DEF none, text
<1>19. Words(array) = words BY <1>17, <1>18 DEF Spelt1
<1> QED BY <1>13, <1>16, <1>17, <1>19 DEF array, values, n

-----------------------------------------------------------------------------
(* The dependencies that are listed.                                       *)

Added(deps, value) ==
    IF depName(value) = << >> \/ Contains(deps, depName(value)) THEN deps
    ELSE Append(deps, depName(value))
Listing == [p \in Seq(Texts) \X Texts |-> Added(p[1], p[2])]
Listed(values) == Run(Listing, << >>, values)

LEMMA ListingIs ==
    /\ Listing \in Steps(Seq(Texts), Texts)
    /\ \A a \in Seq(Texts), x \in Texts : Listing[<<a, x>>] = Added(a, x)
<1>1. ASSUME NEW a \in Seq(Texts), NEW x \in Texts PROVE Added(a, x) \in Seq(Texts)
  <2>1. depName(x) \in Texts BY NameType
  <2>2. Append(a, depName(x)) \in Seq(Texts) BY <2>1
  <2> QED BY <2>2 DEF Added
<1>2. Listing \in Steps(Seq(Texts), Texts)
  <2>1. ASSUME NEW p \in Seq(Texts) \X Texts PROVE Added(p[1], p[2]) \in Seq(Texts)
    <3>1. p[1] \in Seq(Texts) /\ p[2] \in Texts OBVIOUS
    <3> QED BY <1>1, <3>1
  <2> QED BY <2>1 DEF Steps, Listing
<1>3. ASSUME NEW a \in Seq(Texts), NEW x \in Texts PROVE Listing[<<a, x>>] = Added(a, x)
  <2>1. <<a, x>> \in Seq(Texts) \X Texts OBVIOUS
  <2> QED BY <2>1 DEF Listing
<1> QED BY <1>2, <1>3

\* addDependency changes nothing but the list.
LEMMA AddsToList ==
    ASSUME NEW info \in Info, NEW deps \in Seq(Texts), NEW value \in Texts
    PROVE  /\ Added(deps, value) \in Seq(Texts)
           /\ [info EXCEPT !.deps = deps] \in Info
           /\ AddDependency([info EXCEPT !.deps = deps], value)
                = [info EXCEPT !.deps = Added(deps, value)]
<1>1. Added(deps, value) \in Seq(Texts)
  <2>1. depName(value) \in Texts BY NameType
  <2>2. Append(deps, depName(value)) \in Seq(Texts) BY <2>1
  <2> QED BY <2>2 DEF Added
<1> DEFINE now == [info EXCEPT !.deps = deps]
<1>2. now \in Info /\ now.deps = deps BY DEF Info
<1>3. \A d \in Seq(Texts) : [now EXCEPT !.deps = d] = [info EXCEPT !.deps = d] BY DEF Info
<1>4. CASE depName(value) = << >> \/ Contains(deps, depName(value))
  <2>1. AddDependency(now, value) = now BY <1>2, <1>4 DEF AddDependency
  <2>2. Added(deps, value) = deps BY <1>4 DEF Added
  <2> QED BY <1>1, <1>2, <2>1, <2>2
<1>5. CASE ~(depName(value) = << >> \/ Contains(deps, depName(value)))
  <2> DEFINE more == Append(deps, depName(value))
  <2>1. Added(deps, value) = more BY <1>5 DEF Added
  <2>2. AddDependency(now, value) = [now EXCEPT !.deps = Append(now.deps, depName(value))]
    BY <1>2, <1>5 DEF AddDependency
  <2> HIDE DEF now
  <2>3. AddDependency(now, value) = [now EXCEPT !.deps = more] BY <1>2, <2>2
  <2> HIDE DEF more
  <2> QED BY <1>1, <1>2, <1>3, <2>1, <2>3 DEF now
<1> QED BY <1>4, <1>5

\* The fold over addDependency.
LEMMA AddingLists ==
    ASSUME NEW info \in Info, NEW values \in Seq(Texts)
    PROVE  FoldLeft(AddDependency, info, values)
             = [info EXCEPT !.deps = Run(Listing, info.deps, values)]
<1> DEFINE image == [d \in Seq(Texts) |-> [info EXCEPT !.deps = d]]
           A == Seq(Texts)
<1>1. info.deps \in A /\ [info EXCEPT !.deps = info.deps] = info BY DEF Info
<1>2. Listing \in Steps(A, Texts) /\ Adding \in Steps(Info, Texts) BY ListingIs, AddingIs
<1>3. image \in Images(A, Info)
  <2>1. \A d \in A : [info EXCEPT !.deps = d] \in Info BY DEF Info
  <2> QED BY <2>1 DEF Images
<1>4. Alike(Listing, A, values, Adding, values, image)
  <2>1. ASSUME NEW i \in 1 .. Len(values), NEW d \in A
        PROVE  image[Listing[<<d, values[i]>>]] = Adding[<<image[d], values[i]>>]
    <3>1. values[i] \in Texts OBVIOUS
    <3>2. Listing[<<d, values[i]>>] = Added(d, values[i]) BY <3>1, ListingIs
    <3>3. /\ Added(d, values[i]) \in A /\ [info EXCEPT !.deps = d] \in Info
          /\ AddDependency([info EXCEPT !.deps = d], values[i])
               = [info EXCEPT !.deps = Added(d, values[i])]
      BY <3>1, AddsToList
    <3>4. image[Added(d, values[i])] = [info EXCEPT !.deps = Added(d, values[i])]
          /\ image[d] = [info EXCEPT !.deps = d]
      BY <3>3
    <3> HIDE DEF image
    <3>5. Adding[<<image[d], values[i]>>] = AddDependency(image[d], values[i])
      BY <3>1, <3>3, <3>4, AddingIs
    <3> QED BY <3>2, <3>3, <3>4, <3>5
  <2> HIDE DEF image, A
  <2> QED BY <2>1 DEF Alike
<1>5. FoldLeft(AddDependency, info, values) = Run(Adding, info, values) BY AddingRuns
<1>6. Run(Listing, info.deps, values) \in A BY <1>1, <1>2, RunIs
<1>7. image[info.deps] = info
      /\ image[Run(Listing, info.deps, values)]
           = [info EXCEPT !.deps = Run(Listing, info.deps, values)]
  BY <1>1, <1>6
<1>8. SameRuns(Listing, info.deps, values, Adding, values, image)
  <2> HIDE DEF image
  <2> QED BY <1>1, <1>2, <1>3, <1>4, RunsAlike
<1> HIDE DEF image
<1> QED BY <1>5, <1>7, <1>8 DEF SameRuns

LEMMA LinesAre ==
    ASSUME NEW key \in {"pkgbase", "pkgname", "pkgver", "pkgrel", "depends"},
           NEW values \in Seq(Texts)
    PROVE  /\ Lines(key, values) \in Seq(Entry) /\ Len(Lines(key, values)) = Len(values)
           /\ \A i \in 1 .. Len(values) : Lines(key, values)[i] = Line(key, values[i])
           /\ \A v \in Texts : Line(key, v) \in Entry
<1> DEFINE n == Len(values)
           lines == [i \in 1 .. n |-> Line(key, values[i])]
<1>1. \A v \in Texts : Line(key, v) \in Entry BY DEF Line, Entry
<1>2. n \in Nat /\ DOMAIN values = 1 .. n /\ \A i \in 1 .. n : values[i] \in Texts OBVIOUS
<1>3. Lines(key, values) = lines BY <1>2 DEF Lines
<1> HIDE DEF n
<1>4. lines \in Seq(Entry) /\ Len(lines) = n /\ \A i \in 1 .. n : lines[i] = Line(key, values[i])
  BY <1>1, <1>2
<1> HIDE DEF lines
<1> QED BY <1>1, <1>3, <1>4 DEF n

\* The lines of .SRCINFO with dependencies.
LEMMA SRCINFOLists ==
    ASSUME NEW info \in Info, NEW values \in Seq(Texts)
    PROVE  Run(ReadingSRCINFO, info, Lines("depends", values))
             = [info EXCEPT !.deps = Run(Listing, info.deps, values)]
<1> DEFINE image == [d \in Seq(Texts) |-> [info EXCEPT !.deps = d]]
           A == Seq(Texts)
           lines == Lines("depends", values)
<1>1. info.deps \in A /\ [info EXCEPT !.deps = info.deps] = info BY DEF Info
<1>2. Listing \in Steps(A, Texts) /\ ReadingSRCINFO \in Steps(Info, Entry) BY ListingIs, SRCINFOIs
<1>3. image \in Images(A, Info)
  <2>1. \A d \in A : [info EXCEPT !.deps = d] \in Info BY DEF Info
  <2> QED BY <2>1 DEF Images
<1>4. /\ lines \in Seq(Entry) /\ Len(lines) = Len(values)
      /\ \A i \in 1 .. Len(values) : lines[i] = Line("depends", values[i])
      /\ \A v \in Texts : Line("depends", v) \in Entry
  BY LinesAre
<1> HIDE DEF lines
<1>5. Alike(Listing, A, values, ReadingSRCINFO, lines, image)
  <2>1. ASSUME NEW i \in 1 .. Len(values), NEW d \in A
        PROVE  image[Listing[<<d, values[i]>>]] = ReadingSRCINFO[<<image[d], lines[i]>>]
    <3>1. values[i] \in Texts OBVIOUS
    <3>2. Listing[<<d, values[i]>>] = Added(d, values[i]) BY <3>1, ListingIs
    <3>3. /\ Added(d, values[i]) \in A /\ [info EXCEPT !.deps = d] \in Info
          /\ AddDependency([info EXCEPT !.deps = d], values[i])
               = [info EXCEPT !.deps = Added(d, values[i])]
      BY <3>1, AddsToList
    <3>4. image[Added(d, values[i])] = [info EXCEPT !.deps = Added(d, values[i])]
          /\ image[d] = [info EXCEPT !.deps = d]
      BY <3>3
    <3>5. lines[i] = Line("depends", values[i]) /\ lines[i] \in Entry BY <1>4, <3>1
    <3> HIDE DEF image
    <3>6. ReadingSRCINFO[<<image[d], lines[i]>>] = SRCINFOLine(image[d], lines[i])
      BY <3>3, <3>4, <3>5, SRCINFOIs
    <3>7. SRCINFOLine(image[d], lines[i]) = AddDependency(image[d], values[i])
      BY <3>5 DEF SRCINFOLine, Line
    <3> QED BY <3>2, <3>3, <3>4, <3>6, <3>7
  <2> HIDE DEF image, A
  <2> QED BY <1>4, <2>1 DEF Alike
<1>6. Run(Listing, info.deps, values) \in A BY <1>1, <1>2, RunIs
<1>7. image[info.deps] = info
      /\ image[Run(Listing, info.deps, values)]
           = [info EXCEPT !.deps = Run(Listing, info.deps, values)]
  BY <1>1, <1>6
<1>8. SameRuns(Listing, info.deps, values, ReadingSRCINFO, lines, image)
  <2> HIDE DEF image
  <2> QED BY <1>1, <1>2, <1>3, <1>4, <1>5, RunsAlike
<1> HIDE DEF image
<1> QED BY <1>7, <1>8 DEF SameRuns, lines

\* The lines of .SRCINFO with split packages.
LEMMA SRCINFOSplits ==
    ASSUME NEW info \in Info, NEW names \in Seq(Texts)
    PROVE  Run(ReadingSRCINFO, info, Lines("pkgname", names))
             = [info EXCEPT !.split = info.split \o names]
<1> DEFINE image == [d \in Seq(Texts) |-> [info EXCEPT !.split = d]]
           A == Seq(Texts)
           lines == Lines("pkgname", names)
           step == Appends(Texts)
<1>1. info.split \in A /\ [info EXCEPT !.split = info.split] = info BY DEF Info
<1>2. step \in Steps(A, Texts) /\ ReadingSRCINFO \in Steps(Info, Entry)
      /\ Run(step, info.split, names) = info.split \o names
  BY <1>1, RunOfAppends, SRCINFOIs
<1>3. image \in Images(A, Info)
  <2>1. \A d \in A : [info EXCEPT !.split = d] \in Info BY DEF Info
  <2> QED BY <2>1 DEF Images
<1>4. /\ lines \in Seq(Entry) /\ Len(lines) = Len(names)
      /\ \A i \in 1 .. Len(names) : lines[i] = Line("pkgname", names[i])
      /\ \A v \in Texts : Line("pkgname", v) \in Entry
  BY LinesAre
<1> HIDE DEF lines
<1>5. Alike(step, A, names, ReadingSRCINFO, lines, image)
  <2>1. ASSUME NEW i \in 1 .. Len(names), NEW d \in A
        PROVE  image[step[<<d, names[i]>>]] = ReadingSRCINFO[<<image[d], lines[i]>>]
    <3>1. names[i] \in Texts OBVIOUS
    <3> DEFINE more == Append(d, names[i])
               now == [info EXCEPT !.split = d]
    <3>2. step[<<d, names[i]>>] = more /\ more \in A BY <3>1 DEF Appends
    <3>3. image[more] = [info EXCEPT !.split = more] /\ image[d] = now
      BY <3>2
    <3>4. now \in Info /\ now.split = d /\ [now EXCEPT !.split = more] = [info EXCEPT !.split = more]
      <4> HIDE DEF more
      <4> QED BY DEF Info
    <3>5. lines[i] = Line("pkgname", names[i]) /\ lines[i] \in Entry BY <1>4, <3>1
    <3>6. lines[i].key = "pkgname" /\ lines[i].value = names[i] BY <3>5 DEF Line
    <3> HIDE DEF image, step, now
    <3>7. ReadingSRCINFO[<<now, lines[i]>>] = SRCINFOLine(now, lines[i])
      BY <3>4, <3>5, SRCINFOIs
    <3>8. SRCINFOLine(now, lines[i]) = [now EXCEPT !.split = Append(now.split, lines[i].value)]
      BY <3>6 DEF SRCINFOLine
    <3>9. SRCINFOLine(now, lines[i]) = [now EXCEPT !.split = more] BY <3>4, <3>6, <3>8
    <3> HIDE DEF more
    <3> QED BY <3>2, <3>3, <3>4, <3>7, <3>9
  <2> HIDE DEF image, A, step
  <2> QED BY <1>4, <2>1 DEF Alike
<1>6. info.split \o names \in A BY <1>1, ConcatProperties
<1>7. image[info.split] = info
      /\ image[info.split \o names] = [info EXCEPT !.split = info.split \o names]
  BY <1>1, <1>6
<1>8. SameRuns(step, info.split, names, ReadingSRCINFO, lines, image)
  <2> HIDE DEF image, step
  <2> QED BY <1>1, <1>2, <1>3, <1>4, <1>5, RunsAlike
<1> HIDE DEF image, step
<1> QED BY <1>2, <1>7, <1>8 DEF SameRuns, lines

\* What the list has of the values: every name once, and no other.
ListOf(deps, values, i) ==
    /\ \A j, k \in 1 .. Len(deps) : deps[j] = deps[k] => j = k
    /\ \A t \in Texts :
          (\E k \in 1 .. Len(deps) : deps[k] = t)
            <=> t # << >> /\ \E j \in 1 .. i : depName(values[j]) = t

\* One value more.
LEMMA ListedOn ==
    ASSUME NEW values \in Seq(Texts), NEW i \in 1 .. Len(values), NEW deps \in Seq(Texts),
           ListOf(deps, values, i - 1)
    PROVE  ListOf(Added(deps, values[i]), values, i)
<1> DEFINE name == depName(values[i])
           n == Len(deps)
           In(t) == \E k \in 1 .. n : deps[k] = t
           Named(t, j) == \E m \in 1 .. j : depName(values[m]) = t
<1>1. name \in Texts /\ n \in Nat /\ i \in Nat /\ i # 0 BY NameType
<1>2. \A t \in Texts : Named(t, i) <=> Named(t, i - 1) \/ t = name
  <2> TAKE t \in Texts
  <2>1. \A m \in 1 .. i : m = i \/ m \in 1 .. i - 1 BY <1>1
  <2>2. i \in 1 .. i /\ \A m \in 1 .. i - 1 : m \in 1 .. i BY <1>1
  <2> QED BY <2>1, <2>2
<1>3. /\ \A j, k \in 1 .. n : deps[j] = deps[k] => j = k
      /\ \A t \in Texts : In(t) <=> t # << >> /\ Named(t, i - 1)
  BY DEF ListOf
<1>4. Added(deps, values[i]) = IF name = << >> \/ In(name) THEN deps ELSE Append(deps, name)
  BY DEF Added, Contains
<1> HIDE DEF name, Named
<1>5. CASE name = << >> \/ In(name)
  <2>1. \A t \in Texts : In(t) <=> t # << >> /\ Named(t, i) BY <1>1, <1>2, <1>3, <1>5
  <2>2. Added(deps, values[i]) = deps BY <1>4, <1>5
  <2> QED BY <1>3, <2>1, <2>2 DEF ListOf, Named
<1>6. CASE ~(name = << >> \/ In(name))
  <2> DEFINE more == Append(deps, name)
  <2>1. /\ more \in Seq(Texts) /\ Len(more) = n + 1 /\ more[n + 1] = name
        /\ \A k \in 1 .. n : more[k] = deps[k]
    BY <1>1, AppendProperties
  <2>2. Added(deps, values[i]) = more BY <1>4, <1>6
  <2> HIDE DEF more, n
  <2>3. (\A k \in 1 .. n + 1 : k = n + 1 \/ k \in 1 .. n) /\ n + 1 \in 1 .. n + 1
        /\ \A k \in 1 .. n : k \in 1 .. n + 1
    BY <1>1
  <2>4. \A j, k \in 1 .. n + 1 : more[j] = more[k] => j = k
    BY <1>3, <1>6, <2>1, <2>3
  <2>5. \A t \in Texts : (\E k \in 1 .. n + 1 : more[k] = t) <=> In(t) \/ t = name
    BY <2>1, <2>3
  <2> HIDE DEF In
  <2>6. \A t \in Texts : (\E k \in 1 .. n + 1 : more[k] = t) <=> t # << >> /\ Named(t, i)
    BY <1>2, <1>3, <1>6, <2>5
  <2> QED BY <2>1, <2>2, <2>4, <2>6 DEF ListOf, Named
<1> QED BY <1>5, <1>6

\* The list of all values.
LEMMA ListedIs ==
    ASSUME NEW values \in Seq(Texts)
    PROVE  Listed(values) \in Seq(Texts) /\ ListOf(Listed(values), values, Len(values))
<1> DEFINE A == Seq(Texts)
           none == << >>
           n == Len(values)
<1>1. Listing \in Steps(A, Texts) BY ListingIs
<1>2. none \in A /\ n \in Nat /\ Len(none) = 0 OBVIOUS
<1> HIDE DEF none, n
<1>3. PICK c \in [0 .. n -> A] : c[0] = none /\ IsChain(c, Listing, values)
  <2> HIDE DEF A
  <2>1. Chained(A, Listing, none, values) BY <1>1, <1>2, ChainExists
  <2> QED BY <2>1 DEF Chained, n
<1>4. c[n] = Listed(values)
  <2>1. c[n] = Run(Listing, c[0], values) BY <1>2, <1>3, RunOfChain DEF n
  <2> QED BY <1>3, <2>1 DEF Listed, none
<1> DEFINE done == {i \in 0 .. n : ListOf(c[i], values, i)}
<1>5. 0 \in done
  <2>1. ListOf(none, values, 0) BY <1>2 DEF ListOf
  <2> QED BY <1>2, <1>3, <2>1
<1>6. ASSUME NEW i \in 1 .. n, i - 1 \in done PROVE i \in done
  <2>1. c[i - 1] \in A /\ values[i] \in Texts /\ i \in 0 .. n BY <1>2, <1>3 DEF n
  <2>2. c[i] = Added(c[i - 1], values[i])
    <3>1. c[i] = Listing[<<c[i - 1], values[i]>>] BY <1>3 DEF IsChain, n
    <3> QED BY <2>1, <3>1, ListingIs
  <2>3. ListOf(c[i - 1], values, i - 1) BY <1>6
  <2> HIDE DEF done
  <2>4. ListOf(Added(c[i - 1], values[i]), values, i) BY <2>1, <2>3, ListedOn DEF n
  <2> QED BY <2>1, <2>2, <2>4 DEF done
<1>7. n \in done
  <2> HIDE DEF done
  <2>1. n \in 0 .. n BY <1>2
  <2> QED BY <1>2, <1>5, <1>6, <2>1, UpTo
<1>8. Listed(values) \in A
  <2>1. n \in 0 .. n BY <1>2
  <2> QED BY <1>3, <1>4, <2>1
<1> QED BY <1>4, <1>7, <1>8 DEF n

\* As many elements as positions.
LEMMA DistinctCount ==
    ASSUME NEW T, NEW deps \in Seq(T), \A j, k \in 1 .. Len(deps) : deps[j] = deps[k] => j = k
    PROVE  Len(deps) = Cardinality(ToSet(deps))
<1> DEFINE n == Len(deps)
           S == ToSet(deps)
<1>1. n \in Nat /\ DOMAIN deps = 1 .. n /\ deps = [i \in 1 .. n |-> deps[i]] OBVIOUS
<1>2. S = {deps[i] : i \in 1 .. n} BY <1>1 DEF ToSet
<1> HIDE DEF n, S
<1>3. deps \in [1 .. n -> S] BY <1>1, <1>2
<1>4. \A a, b \in 1 .. n : deps[a] = deps[b] => a = b BY DEF n
<1>5. \A t \in S : \E i \in 1 .. n : deps[i] = t BY <1>2
<1>6. deps \in Bijection(1 .. n, S) BY <1>3, <1>4, <1>5 DEF Bijection, Injection, Surjection, IsInjective
<1>7. ExistsBijection(1 .. n, S) BY <1>6 DEF ExistsBijection
<1>8. IsFiniteSet(1 .. n) /\ Cardinality(1 .. n) = n
  <2>1. 1 \in Int /\ n \in Int BY <1>1
  <2>2. IsFiniteSet(1 .. n) /\ Cardinality(1 .. n) = IF 1 > n THEN 0 ELSE n - 1 + 1
    BY <2>1, FS_Interval
  <2> QED BY <1>1, <2>2
<1>9. Cardinality(S) = Cardinality(1 .. n) BY <1>7, <1>8, FS_Bijection
<1> QED BY <1>8, <1>9 DEF n, S

-----------------------------------------------------------------------------
(* Both files of a package.                                                *)

Package ==
    [base : Seq(NameTokens) \ {<< >>}, names : Seq(Seq(NameTokens) \ {<< >>}) \ {<< >>},
     version : Seq(VersionTokens) \ {<< >>}, deps : Seq(Dependency)]
Described(pkg, name, deps) ==
    [name |-> name, version |-> pkg.version, release |-> <<"1">>,
     split |-> pkg.names, deps |-> deps]
AllDeclared(deps) == [i \in DOMAIN deps |-> Declared(deps[i])]

LEMMA DeclaredType ==
    ASSUME NEW deps \in Seq(Dependency)
    PROVE  /\ AllDeclared(deps) \in Seq(Texts) /\ Len(AllDeclared(deps)) = Len(deps)
           /\ \A i \in 1 .. Len(deps) :
                 /\ AllDeclared(deps)[i] = Declared(deps[i])
                 /\ depName(AllDeclared(deps)[i]) = deps[i].name
                 /\ deps[i] \in Dependency /\ deps[i].name \in Texts /\ deps[i].name # << >>
<1> DEFINE n == Len(deps)
           all == [i \in 1 .. n |-> Declared(deps[i])]
           none == << >>
<1>1. n \in Nat /\ DOMAIN deps = 1 .. n /\ (\A i \in 1 .. n : deps[i] \in Dependency)
      /\ none \in Seq(Texts)
  OBVIOUS
<1>2. AllDeclared(deps) = all BY <1>1 DEF AllDeclared
<1> HIDE DEF n, none
<1>3. ASSUME NEW i \in 1 .. n
      PROVE  /\ Declared(deps[i]) \in Texts /\ depName(Declared(deps[i])) = deps[i].name
             /\ deps[i].name \in Texts /\ deps[i].name # << >>
  <2>1. deps[i] \in Dependency BY <1>1
  <2>2. deps[i].name \in Seq(NameTokens) /\ deps[i].name # << >> BY <2>1 DEF Dependency
  <2> QED BY <1>1, <2>1, <2>2, PlainTokens, SpellDeclared
<1>4. all \in Seq(Texts) /\ Len(all) = n /\ \A i \in 1 .. n : all[i] = Declared(deps[i])
  BY <1>1, <1>3
<1> HIDE DEF all
<1> QED BY <1>1, <1>2, <1>3, <1>4 DEF n

LEMMA PackageIs ==
    ASSUME NEW pkg \in Package
    PROVE  /\ pkg.names \in Seq(Texts) /\ Len(pkg.names) \in Nat /\ Len(pkg.names) # 0
           /\ \A i \in 1 .. Len(pkg.names) :
                 pkg.names[i] \in Seq(NameTokens) /\ pkg.names[i] \in Texts
                 /\ pkg.names[i] # << >> /\ Plain(pkg.names[i])
           /\ pkg.version \in Texts /\ pkg.version # << >> /\ Plain(pkg.version)
           /\ <<"1">> \in Texts /\ Plain(<<"1">>) /\ <<"1">> # << >>
           /\ NoInfo \in Info /\ pkg.deps \in Seq(Dependency)
           /\ pkg.base \in Texts /\ pkg.base # << >>
           /\ \A n \in Texts, d \in Seq(Texts) : Described(pkg, n, d) \in Info
<1> DEFINE n == Len(pkg.names)
           names == pkg.names
<1>1. /\ names \in Seq(Seq(NameTokens) \ {<< >>}) /\ names # << >>
      /\ pkg.version \in Seq(VersionTokens) /\ pkg.version # << >> /\ pkg.deps \in Seq(Dependency)
  BY DEF Package
<1>2. n \in Nat /\ n # 0 BY <1>1
<1> HIDE DEF names
<1>3. \A i \in 1 .. Len(names) : names[i] \in Seq(NameTokens) /\ names[i] # << >> BY <1>1
<1>4. \A i \in 1 .. Len(names) : names[i] \in Texts /\ Plain(names[i]) BY <1>3, PlainTokens
<1>5. names \in Seq(Texts)
  <2>1. Seq(NameTokens) \ {<< >>} \subseteq Texts BY PlainTokens
  <2> QED BY <1>1, <2>1
<1>6. pkg.version \in Texts /\ Plain(pkg.version) BY <1>1, PlainTokens
<1>7. <<"1">> \in Texts /\ Plain(<<"1">>) /\ <<"1">> # << >>
  <2>1. "1" \in Tokens /\ "1" \notin Signs BY DEF Tokens, Signs
  <2>2. \A t \in Tokens : <<t>> \in Texts /\ Len(<<t>>) = 1 /\ <<t>>[1] = t /\ <<t>> # << >>
    BY DEF Texts
  <2>3. \A t \in Tokens : t \notin Signs => Plain(<<t>>) BY <2>2 DEF Plain
  <2> QED BY <2>1, <2>2, <2>3
<1>8. NoInfo \in Info BY DEF NoInfo, Info, Texts
<1>9. \A t \in Texts, d \in Seq(Texts) : Described(pkg, t, d) \in Info
  BY <1>5, <1>6, <1>7 DEF Described, Info, names
<1>10. pkg.base \in Texts /\ pkg.base # << >>
  <2>1. pkg.base \in Seq(NameTokens) /\ pkg.base # << >> BY DEF Package
  <2> QED BY <2>1, PlainTokens
<1> QED BY <1>1, <1>2, <1>3, <1>4, <1>5, <1>6, <1>7, <1>8, <1>9, <1>10 DEF names

\* parseSRCINFO of the .SRCINFO.
LEMMA SRCINFOIsRead ==
    ASSUME NEW pkg \in Package
    PROVE  parseSRCINFO(AsSRCINFO(pkg)) = Described(pkg, pkg.base, Listed(AllDeclared(pkg.deps)))
<1> DEFINE base == Line("pkgbase", pkg.base)
           ver == Line("pkgver", pkg.version)
           rel == Line("pkgrel", <<"1">>)
           head == <<base, ver, rel>>
           values == AllDeclared(pkg.deps)
           depends == Lines("depends", values)
           splits == Lines("pkgname", pkg.names)
           i1 == [NoInfo EXCEPT !.name = pkg.base]
           i2 == [i1 EXCEPT !.version = pkg.version]
           i3 == [i2 EXCEPT !.release = <<"1">>]
           i4 == [i3 EXCEPT !.deps = Listed(values)]
<1>1. /\ pkg.names \in Seq(Texts) /\ pkg.base \in Texts /\ pkg.version \in Texts
      /\ <<"1">> \in Texts /\ NoInfo \in Info /\ pkg.deps \in Seq(Dependency)
  BY PackageIs
<1>2. values \in Seq(Texts) /\ Listed(values) \in Seq(Texts)
  BY <1>1, DeclaredType, ListedIs
<1>3. base \in Entry /\ ver \in Entry /\ rel \in Entry BY <1>1 DEF Line, Entry
<1>4. head \in Seq(Entry) /\ Len(head) = 3 /\ head[1] = base /\ head[2] = ver /\ head[3] = rel
  <2> HIDE DEF base, ver, rel
  <2> QED BY <1>3
<1>5. depends \in Seq(Entry) /\ splits \in Seq(Entry) BY <1>1, <1>2, LinesAre
<1>6. /\ i1 \in Info /\ i2 \in Info /\ i3 \in Info /\ i4 \in Info
      /\ i3.deps = << >> /\ i4.split = << >>
      /\ [i4 EXCEPT !.split = pkg.names] = Described(pkg, pkg.base, Listed(values))
  <2> DEFINE Is(v, r, s, d) ==
               [name |-> pkg.base, version |-> v, release |-> r, split |-> s, deps |-> d]
             none == << >>
             one == <<"1">>
  <2>1. /\ i1 = Is(none, none, none, none) /\ i2 = Is(pkg.version, none, none, none)
        /\ i3 = Is(pkg.version, one, none, none)
        /\ i4 = Is(pkg.version, one, none, Listed(values))
    <3>1. NoInfo = [name |-> none, version |-> none, release |-> none, split |-> none, deps |-> none]
      BY DEF NoInfo
    <3> HIDE DEF none, one, values
    <3>2. i1 = Is(none, none, none, none) BY <3>1
    <3> HIDE DEF i1
    <3>3. i2 = Is(pkg.version, none, none, none) BY <3>2
    <3> HIDE DEF i2
    <3>4. i3 = Is(pkg.version, one, none, none) BY <3>3 DEF one
    <3> HIDE DEF i3
    <3>5. i4 = Is(pkg.version, one, none, Listed(values)) BY <3>4
    <3> QED BY <3>2, <3>3, <3>4, <3>5
  <2>2. none \in Texts /\ none \in Seq(Texts) /\ one \in Texts BY <1>1 DEF Texts
  <2>3. Described(pkg, pkg.base, Listed(values)) = Is(pkg.version, one, pkg.names, Listed(values))
    BY DEF Described
  <2> HIDE DEF none, one, i1, i2, i3, i4, values
  <2>4. i1 \in Info /\ i2 \in Info /\ i3 \in Info /\ i4 \in Info
    BY <1>1, <1>2, <2>1, <2>2 DEF Info
  <2>5. i3.deps = none /\ i4.split = none BY <2>1
  <2>6. [i4 EXCEPT !.split = pkg.names] = Described(pkg, pkg.base, Listed(values)) BY <2>1, <2>3
  <2> QED BY <2>4, <2>5, <2>6 DEF none
<1>7. /\ SRCINFOLine(NoInfo, base) = i1 /\ SRCINFOLine(i1, ver) = i2 /\ SRCINFOLine(i2, rel) = i3
  BY DEF SRCINFOLine, Line, NoInfo
<1>8. ReadingSRCINFO \in Steps(Info, Entry) BY SRCINFOIs
<1> HIDE DEF base, ver, rel, i1, i2, i3, i4, values, head
<1>9. Run(ReadingSRCINFO, NoInfo, head) = i3
  <2>1. PICK c \in [0 .. Len(head) -> Info] : c[0] = NoInfo /\ IsChain(c, ReadingSRCINFO, head)
    <3>1. Chained(Info, ReadingSRCINFO, NoInfo, head) BY <1>1, <1>4, <1>8, ChainExists
    <3> QED BY <3>1 DEF Chained
  <2>2. c[1] = i1
    <3>1. 1 \in 1 .. Len(head) /\ 1 - 1 = 0 BY <1>4
    <3>2. c[1] = ReadingSRCINFO[<<NoInfo, base>>] BY <1>4, <2>1, <3>1 DEF IsChain
    <3> QED BY <1>1, <1>3, <1>7, <3>2, SRCINFOIs
  <2>3. c[2] = i2
    <3>1. 2 \in 1 .. Len(head) /\ 2 - 1 = 1 BY <1>4
    <3>2. c[2] = ReadingSRCINFO[<<i1, ver>>] BY <1>4, <2>1, <2>2, <3>1 DEF IsChain
    <3> QED BY <1>3, <1>6, <1>7, <3>2, SRCINFOIs
  <2>4. c[3] = i3
    <3>1. 3 \in 1 .. Len(head) /\ 3 - 1 = 2 BY <1>4
    <3>2. c[3] = ReadingSRCINFO[<<i2, rel>>] BY <1>4, <2>1, <2>3, <3>1 DEF IsChain
    <3> QED BY <1>3, <1>6, <1>7, <3>2, SRCINFOIs
  <2>5. Len(head) \in Nat BY <1>4
  <2>6. c[Len(head)] = Run(ReadingSRCINFO, c[0], head) BY <2>1, <2>5, RunOfChain
  <2> QED BY <1>4, <2>1, <2>4, <2>6
<1>10. Run(ReadingSRCINFO, i3, depends) = i4
  BY <1>2, <1>6, SRCINFOLists DEF i4, Listed
<1>11. Run(ReadingSRCINFO, i4, splits) = [i4 EXCEPT !.split = pkg.names]
  <2>1. Run(ReadingSRCINFO, i4, splits) = [i4 EXCEPT !.split = i4.split \o pkg.names]
    BY <1>1, <1>6, SRCINFOSplits
  <2>2. << >> \o pkg.names = pkg.names BY <1>1
  <2> QED BY <1>6, <2>1, <2>2
<1> DEFINE most == head \o depends
           all == most \o splits
<1>12. most \in Seq(Entry) /\ all \in Seq(Entry)
  <2> HIDE DEF depends, splits
  <2>1. most \in Seq(Entry) BY <1>4, <1>5, ConcatProperties
  <2> HIDE DEF most
  <2> QED BY <1>5, <2>1, ConcatProperties
<1>13. AsSRCINFO(pkg) = all BY DEF AsSRCINFO, head, base, ver, rel, values, AllDeclared
<1> HIDE DEF depends, splits
<1>14. Run(ReadingSRCINFO, NoInfo, most) = i4
  <2>1. Run(ReadingSRCINFO, NoInfo, most)
          = Run(ReadingSRCINFO, Run(ReadingSRCINFO, NoInfo, head), depends)
    BY <1>1, <1>4, <1>5, <1>8, RunConcat
  <2> QED BY <1>9, <1>10, <2>1
<1> HIDE DEF most
<1>15. Run(ReadingSRCINFO, NoInfo, all) = Described(pkg, pkg.base, Listed(values))
  <2>1. Run(ReadingSRCINFO, NoInfo, all)
          = Run(ReadingSRCINFO, Run(ReadingSRCINFO, NoInfo, most), splits)
    BY <1>1, <1>5, <1>8, <1>12, RunConcat
  <2> QED BY <1>6, <1>11, <1>14, <2>1
<1> HIDE DEF all
<1>16. parseSRCINFO(all) = Run(ReadingSRCINFO, NoInfo, all)
  BY <1>1, <1>12, SRCINFORuns DEF parseSRCINFO
<1> QED BY <1>13, <1>15, <1>16 DEF values

\* Nothing but names: the words of their array are the names.
LEMMA WordsOfNames ==
    ASSUME NEW names \in Seq(Seq(NameTokens) \ {<< >>})
    PROVE  Array(names) \in Texts /\ Words(Array(names)) = names
<1> DEFINE n == Len(names)
           none == << >>
           As(name) == [name |-> name, op |-> none, version |-> none]
           deps == [i \in 1 .. n |-> As(names[i])]
<1>1. n \in Nat /\ DOMAIN names = 1 .. n
      /\ \A i \in 1 .. n : names[i] \in Seq(NameTokens) \ {<< >>}
  OBVIOUS
<1>2. none \in Seq(VersionTokens) OBVIOUS
<1>3. \A name \in Seq(NameTokens) \ {<< >>} :
        /\ As(name) \in Dependency /\ As(name).name = name /\ As(name).op = << >>
        /\ Declared(As(name)) = name
  BY <1>2 DEF Dependency, Declared
<1> HIDE DEF n, As
<1>4. deps \in Seq(Dependency) /\ Len(deps) = n /\ \A i \in 1 .. n : deps[i] = As(names[i])
  BY <1>1, <1>3
<1> HIDE DEF deps
<1>5. DOMAIN deps = 1 .. n BY <1>1, <1>4
<1>6. [i \in DOMAIN deps |-> Declared(deps[i])] = names
  <2>1. \A i \in 1 .. n : Declared(deps[i]) = names[i] BY <1>1, <1>3, <1>4
  <2>2. names = [i \in 1 .. n |-> names[i]] BY <1>1
  <2> QED BY <1>5, <2>1, <2>2
<1>7. Array(names) \in Texts /\ Words(Array(names)) \in Seq(Texts)
      /\ Worded(deps, n, Words(Array(names)))
  BY <1>4, <1>6, WordsOfArray
<1> DEFINE words == Words(Array(names))
<1>8. \A j \in 1 .. n : deps[j].op = << >> /\ deps[j].name = names[j] BY <1>1, <1>3, <1>4
<1>9. Len(words) = n /\ \A j \in 1 .. n : words[j] = names[j] BY <1>7, <1>8 DEF Worded
<1>10. words = names
  <2> HIDE DEF words
  <2>1. words \in Seq(Texts) BY <1>7 DEF words
  <2>2. words = [i \in 1 .. n |-> words[i]] BY <1>9, <2>1
  <2>3. names = [i \in 1 .. n |-> names[i]] BY <1>1
  <2> QED BY <1>9, <2>2, <2>3
<1> QED BY <1>7, <1>10

\* parsePKGBUILD of the PKGBUILD.
LEMMA PKGBUILDIsRead ==
    ASSUME NEW pkg \in Package
    PROVE  parsePKGBUILD(AsPKGBUILD(pkg))
             = Described(pkg, pkg.names[1], Listed(Words(Array(AllDeclared(pkg.deps)))))
<1> DEFINE given == IF Len(pkg.names) = 1 THEN pkg.names[1] ELSE Array(pkg.names)
           array == Array(AllDeclared(pkg.deps))
           one == <<"1">>
           base == Line("pkgbase", pkg.base)
           names == Line("pkgname", given)
           ver == Line("pkgver", pkg.version)
           rel == Line("pkgrel", one)
           depends == Line("depends", array)
           all == <<base, names, ver, rel, depends>>
           values == Words(array)
           none == << >>
           Is(n, v, r, s, d) == [name |-> n, version |-> v, release |-> r, split |-> s, deps |-> d]
           i1 == Is(pkg.names[1], none, none, pkg.names, none)
           i2 == Is(pkg.names[1], pkg.version, none, pkg.names, none)
           i3 == Is(pkg.names[1], pkg.version, one, pkg.names, none)
           i4 == Is(pkg.names[1], pkg.version, one, pkg.names, Listed(values))
<1>1. /\ pkg.names \in Seq(Texts) /\ pkg.names[1] \in Texts /\ pkg.version \in Texts
      /\ one \in Texts /\ NoInfo \in Info /\ pkg.deps \in Seq(Dependency)
      /\ pkg.names # none /\ pkg.base \in Texts
  <2>1. 1 \in 1 .. Len(pkg.names) BY PackageIs
  <2> QED BY <2>1, PackageIs
<1>2. array \in Texts /\ values \in Seq(Texts) BY <1>1, WordsOfArray DEF AllDeclared
<1>3. Listed(values) \in Seq(Texts) BY <1>2, ListedIs
<1>4. given \in Texts /\ Words(given) = pkg.names
  <2>1. pkg.names \in Seq(Seq(NameTokens) \ {<< >>}) BY DEF Package
  <2>2. CASE Len(pkg.names) = 1
    <3>1. pkg.names[1] \in Texts /\ Plain(pkg.names[1]) /\ pkg.names[1] # << >>
      <4>1. 1 \in 1 .. Len(pkg.names) BY <2>2
      <4> QED BY <4>1, PackageIs
    <3>2. Words(pkg.names[1]) = <<pkg.names[1]>> BY <3>1, WordsOfWord
    <3>3. pkg.names = <<pkg.names[1]>> BY <1>1, <2>2
    <3> QED BY <2>2, <3>1, <3>2, <3>3
  <2>3. CASE Len(pkg.names) # 1
    <3>1. given = Array(pkg.names) BY <2>3
    <3> QED BY <2>1, <3>1, WordsOfNames
  <2> QED BY <2>2, <2>3
<1>5. Words(pkg.version) = <<pkg.version>> /\ Words(one) = <<one>>
  BY PackageIs, WordsOfWord
<1> HIDE DEF given, array, values, one
<1>6. base \in Entry /\ names \in Entry /\ ver \in Entry /\ rel \in Entry /\ depends \in Entry
  BY <1>1, <1>2, <1>4 DEF Line, Entry
<1>7. /\ base.key = "pkgbase" /\ base.value = pkg.base
      /\ names.key = "pkgname" /\ names.value = given /\ ver.key = "pkgver" /\ ver.value = pkg.version
      /\ rel.key = "pkgrel" /\ rel.value = one /\ depends.key = "depends" /\ depends.value = array
  BY DEF Line
<1> HIDE DEF base, names, ver, rel, depends
<1>8. all \in Seq(Entry) /\ Len(all) = 5 /\ all[1] = base /\ all[2] = names /\ all[3] = ver
      /\ all[4] = rel /\ all[5] = depends
  BY <1>6
<1>9. /\ i1 \in Info /\ i2 \in Info /\ i3 \in Info /\ i4 \in Info
  <2>1. none \in Texts /\ none \in Seq(Texts) BY DEF Texts
  <2> HIDE DEF none
  <2> QED BY <1>1, <1>3, <2>1 DEF Info
<1>10. PKGBUILDLine(NoInfo, base) = NoInfo
  <2> HIDE DEF none
  <2> QED BY <1>7 DEF PKGBUILDLine
<1>11. PKGBUILDLine(NoInfo, names) = i1
  <2> DEFINE words == Words(names.value)
  <2>1. words = pkg.names /\ words # none BY <1>1, <1>4, <1>7
  <2>2. PKGBUILDLine(NoInfo, names)
          = [NoInfo EXCEPT !.name = words[1], !.split = @ \o words]
    BY <1>7, <2>1 DEF PKGBUILDLine
  <2>3. NoInfo = Is(none, none, none, none, none) BY DEF NoInfo
  <2>4. none \o pkg.names = pkg.names BY <1>1
  <2> HIDE DEF words, none
  <2> QED BY <2>1, <2>2, <2>3, <2>4
<1>12. PKGBUILDLine(i1, ver) = i2
  <2> DEFINE words == Words(ver.value)
  <2>1. words = <<pkg.version>> BY <1>5, <1>7
  <2>2. words # << >> /\ words[1] = pkg.version BY <2>1
  <2> HIDE DEF none, words
  <2>3. PKGBUILDLine(i1, ver) = [i1 EXCEPT !.version = words[1]]
    BY <1>7, <2>2 DEF PKGBUILDLine, words
  <2> QED BY <2>2, <2>3
<1>13. PKGBUILDLine(i2, rel) = i3
  <2> DEFINE words == Words(rel.value)
  <2>1. words = <<one>> BY <1>5, <1>7
  <2>2. words # << >> /\ words[1] = one BY <2>1
  <2> HIDE DEF none, words
  <2>3. PKGBUILDLine(i2, rel) = [i2 EXCEPT !.release = words[1]]
    BY <1>7, <2>2 DEF PKGBUILDLine, words
  <2> QED BY <2>2, <2>3
<1>14. PKGBUILDLine(i3, depends) = i4
  <2> DEFINE added == FoldLeft(AddDependency, i3, values)
  <2>1. PKGBUILDLine(i3, depends) = IF values = << >> THEN i3 ELSE added
    <3> HIDE DEF i3
    <3> QED BY <1>7 DEF PKGBUILDLine, values
  <2>2. added = [i3 EXCEPT !.deps = Run(Listing, i3.deps, values)]
    <3> HIDE DEF i3
    <3> QED BY <1>2, <1>9, AddingLists
  <2>3. i3.deps = none OBVIOUS
  <2>4. added = i4 BY <2>2, <2>3 DEF Listed
  <2>5. values = << >> => i3 = i4
    <3>1. Listed(<< >>) = << >> BY RunOfNothing DEF Listed
    <3> QED BY <3>1
  <2> HIDE DEF added, i3, i4
  <2> QED BY <2>1, <2>4, <2>5
<1>15. i4 = Described(pkg, pkg.names[1], Listed(values)) BY DEF Described, one
<1> HIDE DEF i1, i2, i3, i4, all
<1>16. PICK c \in [0 .. Len(all) -> Info] : c[0] = NoInfo /\ IsChain(c, ReadingPKGBUILD, all)
  <2>1. ReadingPKGBUILD \in Steps(Info, Entry) BY PKGBUILDIs
  <2>2. Chained(Info, ReadingPKGBUILD, NoInfo, all) BY <1>1, <1>8, <2>1, ChainExists
  <2> QED BY <2>2 DEF Chained
<1>17. c[1] = NoInfo
  <2>1. 1 \in 1 .. Len(all) /\ 1 - 1 = 0 BY <1>8
  <2>2. c[1] = ReadingPKGBUILD[<<NoInfo, base>>] BY <1>8, <1>16, <2>1 DEF IsChain
  <2> QED BY <1>1, <1>6, <1>10, <2>2, PKGBUILDIs
<1>18. c[2] = i1
  <2>1. 2 \in 1 .. Len(all) /\ 2 - 1 = 1 BY <1>8
  <2>2. c[2] = ReadingPKGBUILD[<<NoInfo, names>>] BY <1>8, <1>16, <1>17, <2>1 DEF IsChain
  <2> QED BY <1>1, <1>6, <1>11, <2>2, PKGBUILDIs
<1>19. c[3] = i2
  <2>1. 3 \in 1 .. Len(all) /\ 3 - 1 = 2 BY <1>8
  <2>2. c[3] = ReadingPKGBUILD[<<i1, ver>>] BY <1>8, <1>16, <1>18, <2>1 DEF IsChain
  <2> QED BY <1>6, <1>9, <1>12, <2>2, PKGBUILDIs
<1>20. c[4] = i3
  <2>1. 4 \in 1 .. Len(all) /\ 4 - 1 = 3 BY <1>8
  <2>2. c[4] = ReadingPKGBUILD[<<i2, rel>>] BY <1>8, <1>16, <1>19, <2>1 DEF IsChain
  <2> QED BY <1>6, <1>9, <1>13, <2>2, PKGBUILDIs
<1>21. c[5] = i4
  <2>1. 5 \in 1 .. Len(all) /\ 5 - 1 = 4 BY <1>8
  <2>2. c[5] = ReadingPKGBUILD[<<i3, depends>>] BY <1>8, <1>16, <1>20, <2>1 DEF IsChain
  <2> QED BY <1>6, <1>9, <1>14, <2>2, PKGBUILDIs
<1>22. Run(ReadingPKGBUILD, NoInfo, all) = i4
  <2>1. Len(all) \in Nat BY <1>8
  <2>2. c[Len(all)] = Run(ReadingPKGBUILD, c[0], all) BY <1>16, <2>1, RunOfChain
  <2> QED BY <1>8, <1>16, <1>21, <2>2
<1>23. AsPKGBUILD(pkg) = all
  BY DEF AsPKGBUILD, all, base, names, ver, rel, depends, given, array, one, AllDeclared
<1>24. parsePKGBUILD(all) = Run(ReadingPKGBUILD, NoInfo, all)
  BY <1>1, <1>8, PKGBUILDRuns DEF parsePKGBUILD
<1> QED BY <1>15, <1>22, <1>23, <1>24 DEF values, array

\* ParsePackage of both files, and of the PKGBUILD alone.
LEMMA BothAreRead ==
    ASSUME NEW pkg \in Package
    PROVE  /\ ParsePackage(AsSRCINFO(pkg), AsPKGBUILD(pkg))
                = Described(pkg, pkg.base, Listed(AllDeclared(pkg.deps)))
           /\ ParsePackage(Absent, AsPKGBUILD(pkg))
                = Described(pkg, pkg.names[1], Listed(Words(Array(AllDeclared(pkg.deps)))))
<1>1. AsPKGBUILD(pkg) # Absent
  <2> DEFINE given == IF Len(pkg.names) = 1 THEN pkg.names[1] ELSE Array(pkg.names)
             base == Line("pkgbase", pkg.base)
             names == Line("pkgname", given)
             ver == Line("pkgver", pkg.version)
             rel == Line("pkgrel", <<"1">>)
             depends == Line("depends", Array(AllDeclared(pkg.deps)))
  <2>1. AsPKGBUILD(pkg) = <<base, names, ver, rel, depends>> BY DEF AsPKGBUILD, AllDeclared
  <2> HIDE DEF base, names, ver, rel, depends
  <2>2. Len(AsPKGBUILD(pkg)) = 5 /\ Len(Absent) = 1 BY <2>1 DEF Absent
  <2> QED BY <2>2
<1>2. AsSRCINFO(pkg) # Absent
  <2> DEFINE base == Line("pkgbase", pkg.base)
             ver == Line("pkgver", pkg.version)
             rel == Line("pkgrel", <<"1">>)
             head == <<base, ver, rel>>
             depends == Lines("depends", AllDeclared(pkg.deps))
             splits == Lines("pkgname", pkg.names)
             Kinds == {base, ver, rel} \cup Entry
  <2>1. AsSRCINFO(pkg) = head \o depends \o splits BY DEF AsSRCINFO, AllDeclared
  <2>2. depends \in Seq(Entry) /\ splits \in Seq(Entry)
    <3>1. pkg.names \in Seq(Texts) /\ AllDeclared(pkg.deps) \in Seq(Texts)
      BY PackageIs, DeclaredType
    <3> QED BY <3>1, LinesAre
  <2> HIDE DEF base, ver, rel, depends, splits
  <2>3. head \in Seq(Kinds) /\ Len(head) = 3 OBVIOUS
  <2>4. depends \in Seq(Kinds) /\ splits \in Seq(Kinds) BY <2>2
  <2> HIDE DEF head, Kinds
  <2>5. head \o depends \in Seq(Kinds) /\ Len(head \o depends) = 3 + Len(depends)
    <3>1. head \o depends \in Seq(Kinds) /\ Len(head \o depends) = Len(head) + Len(depends)
      BY <2>3, <2>4, ConcatProperties
    <3> QED BY <2>3, <3>1
  <2>6. Len(AsSRCINFO(pkg)) = 3 + Len(depends) + Len(splits)
    <3> DEFINE most == head \o depends
    <3>1. most \in Seq(Kinds) /\ Len(most) = 3 + Len(depends) BY <2>5
    <3> HIDE DEF most
    <3>2. Len(most \o splits) = Len(most) + Len(splits) BY <2>4, <3>1
    <3> QED BY <2>1, <3>1, <3>2 DEF most
  <2>7. Len(depends) \in Nat /\ Len(splits) \in Nat BY <2>2
  <2>8. Len(Absent) = 1 BY DEF Absent
  <2>9. Len(AsSRCINFO(pkg)) # 1 BY <2>6, <2>7
  <2> QED BY <2>8, <2>9
<1>3. ASSUME NEW name, name # << >>, NEW deps, NEW srcinfo,
             (IF srcinfo # Absent THEN parseSRCINFO(srcinfo) ELSE parsePKGBUILD(AsPKGBUILD(pkg)))
               = Described(pkg, name, deps)
      PROVE  ParsePackage(srcinfo, AsPKGBUILD(pkg)) = Described(pkg, name, deps)
  <2> DEFINE info == Described(pkg, name, deps)
             none == << >>
             Or(value, fallback) == IF value = none THEN fallback ELSE value
             one == <<"1">>
  <2>1. name # none /\ pkg.version # none /\ pkg.names # none /\ one # none
    <3>1. pkg.names # none BY PackageIs
    <3> QED BY <1>3, <3>1, PackageIs
  <2>2. /\ info.name = name /\ info.version = pkg.version /\ info.release = one
        /\ info.split = pkg.names
    BY DEF Described
  <2>3. ParsePackage(srcinfo, AsPKGBUILD(pkg))
          = [info EXCEPT !.version = Or(@, <<"unknown">>), !.release = Or(@, <<"0">>),
                         !.split = Or(@, <<info.name>>)]
    BY <1>1, <1>3, <2>1, <2>2 DEF ParsePackage
  <2>4. info = [info EXCEPT !.version = pkg.version, !.release = one, !.split = pkg.names]
    <3>1. info = [name |-> name, version |-> pkg.version, release |-> one,
                  split |-> pkg.names, deps |-> deps]
      BY DEF Described
    <3> DEFINE v == pkg.version
               all == pkg.names
    <3>2. info = [name |-> name, version |-> v, release |-> one, split |-> all, deps |-> deps]
      BY <3>1
    <3> HIDE DEF info, one, v, all
    <3>3. /\ [info EXCEPT !.version = v] = info /\ [info EXCEPT !.release = one] = info
          /\ [info EXCEPT !.split = all] = info
      BY <3>2
    <3>4. [info EXCEPT !.version = v, !.release = one] = [[info EXCEPT !.version = v] EXCEPT !.release = one]
      OBVIOUS
    <3>5. [info EXCEPT !.version = v, !.release = one, !.split = all]
            = [[info EXCEPT !.version = v, !.release = one] EXCEPT !.split = all]
      OBVIOUS
    <3> QED BY <3>3, <3>4, <3>5 DEF v, all
  <2> HIDE DEF info, one, none
  <2> QED BY <2>1, <2>2, <2>3, <2>4 DEF info
<1>4. parseSRCINFO(AsSRCINFO(pkg)) = Described(pkg, pkg.base, Listed(AllDeclared(pkg.deps)))
  BY SRCINFOIsRead
<1>5. parsePKGBUILD(AsPKGBUILD(pkg)) = Described(pkg, pkg.names[1], Listed(Words(Array(AllDeclared(pkg.deps)))))
  BY PKGBUILDIsRead
<1>6. pkg.base # << >> /\ pkg.names[1] # << >>
  <2>1. 1 \in 1 .. Len(pkg.names) BY PackageIs
  <2> QED BY <2>1, PackageIs
<1> QED BY <1>2, <1>3, <1>4, <1>5, <1>6

\* What is listed of the values that are declared, and of the words of their array.
LEMMA ListsAgree ==
    ASSUME NEW deps \in Seq(Dependency)
    PROVE  LET s == Listed(AllDeclared(deps))
               p == Listed(Words(Array(AllDeclared(deps))))
               names == {deps[i].name : i \in DOMAIN deps}
               constrained == {i \in DOMAIN deps : deps[i].op # << >>}
               versions == {depName(deps[i].version) : i \in constrained} \ {<< >>}
           IN  /\ ToSet(s) = names /\ ToSet(p) = names \cup versions
               /\ Len(s) = Cardinality(ToSet(s)) /\ Len(p) = Cardinality(ToSet(p))
               /\ constrained = {} => p = s
<1> DEFINE values == AllDeclared(deps)
           words == Words(Array(values))
           s == Listed(values)
           p == Listed(words)
           n == Len(deps)
           names == {deps[i].name : i \in DOMAIN deps}
           constrained == {i \in DOMAIN deps : deps[i].op # << >>}
           versions == {depName(deps[i].version) : i \in constrained} \ {<< >>}
<1>1. n \in Nat /\ DOMAIN deps = 1 .. n OBVIOUS
<1>2. /\ values \in Seq(Texts) /\ Len(values) = n
      /\ \A i \in 1 .. n :
            /\ values[i] = Declared(deps[i]) /\ depName(values[i]) = deps[i].name
            /\ deps[i] \in Dependency /\ deps[i].name \in Texts /\ deps[i].name # << >>
  BY DeclaredType
<1>3. words \in Seq(Texts) /\ Worded(deps, n, words)
  BY WordsOfArray DEF AllDeclared
<1> HIDE DEF values, words
<1>4. s \in Seq(Texts) /\ ListOf(s, values, n) /\ p \in Seq(Texts) /\ ListOf(p, words, Len(words))
  BY <1>2, <1>3, ListedIs
<1> HIDE DEF s, p, n
<1>5. \A q \in Seq(Texts) : \A t : t \in ToSet(q) <=> t \in Texts /\ \E k \in 1 .. Len(q) : q[k] = t
  <2> TAKE q \in Seq(Texts)
  <2>1. DOMAIN q = 1 .. Len(q) /\ \A k \in 1 .. Len(q) : q[k] \in Texts OBVIOUS
  <2> QED BY <2>1 DEF ToSet
<1>6. ToSet(s) = names
  <2>1. \A t \in Texts : t \in ToSet(s) <=> t # << >> /\ \E j \in 1 .. n : depName(values[j]) = t
    BY <1>4, <1>5 DEF ListOf
  <2>2. \A t : t \in names <=> \E j \in 1 .. n : deps[j].name = t BY <1>1
  <2>3. \A t \in ToSet(s) : t \in Texts BY <1>4, <1>5
  <2> HIDE DEF names
  <2>4. \A t \in Texts : t \in ToSet(s) <=> t \in names BY <1>2, <2>1, <2>2
  <2>5. \A t \in names : t \in Texts BY <1>2, <2>2
  <2> QED BY <2>3, <2>4, <2>5
<1>7. Len(s) = Cardinality(ToSet(s)) BY <1>4, DistinctCount DEF ListOf
<1>8. Len(p) = Cardinality(ToSet(p)) BY <1>4, DistinctCount DEF ListOf
<1>9. ToSet(p) = names \cup versions
  <2>1. \A t \in Texts : t \in ToSet(p) <=> t # << >> /\ \E w \in Texts : IsWord(words, w) /\ depName(w) = t
    <3>1. \A t \in Texts :
            t \in ToSet(p) <=> t # << >> /\ \E k \in 1 .. Len(words) : depName(words[k]) = t
      BY <1>4, <1>5 DEF ListOf
    <3>2. \A k \in 1 .. Len(words) : words[k] \in Texts BY <1>3
    <3> QED BY <3>1, <3>2 DEF IsWord
  <2>2. \A w \in Texts : IsWord(words, w) <=> \E j \in 1 .. n : Mentions(deps[j], w)
    BY <1>3 DEF Worded
  <2>3. \A j \in 1 .. n : deps[j].version \in Texts /\ depName(deps[j].name) = deps[j].name
    <3> TAKE j \in 1 .. n
    <3>1. deps[j].name \in Seq(NameTokens) /\ deps[j].version \in Seq(VersionTokens)
      BY <1>2 DEF Dependency
    <3> QED BY <3>1, NameOfName, PlainTokens
  <2>4. depName(<< >>) = << >>
    <3>1. << >> \in Seq(NameTokens) OBVIOUS
    <3> QED BY <3>1, NameOfName
  <2>5. \A t : t \in versions <=>
           t # << >> /\ \E j \in 1 .. n : HasVersion(deps[j]) /\ depName(deps[j].version) = t
    BY <1>1, <2>4 DEF HasVersion
  <2>6. \A t : t \in names <=> \E j \in 1 .. n : deps[j].name = t BY <1>1
  <2>7. \A t \in ToSet(p) : t \in Texts BY <1>4, <1>5
  <2>8. \A t \in names \cup versions : t \in Texts
    <3>1. \A v \in Texts : depName(v) \in Texts BY NameType
    <3> HIDE DEF names, versions
    <3> QED BY <1>2, <2>3, <2>5, <2>6, <3>1
  <2> HIDE DEF names, versions
  <2>9. ASSUME NEW t \in Texts PROVE t \in ToSet(p) <=> t \in names \cup versions
    <3>1. ASSUME t \in ToSet(p) PROVE t \in names \cup versions
      <4>1. PICK w \in Texts : t # << >> /\ IsWord(words, w) /\ depName(w) = t BY <2>1, <3>1
      <4>2. PICK j \in 1 .. n : Mentions(deps[j], w) BY <2>2, <4>1
      <4>3. CASE w = deps[j].name BY <2>3, <2>6, <4>1, <4>3
      <4>4. CASE HasVersion(deps[j]) /\ w = deps[j].version BY <2>5, <4>1, <4>4
      <4> QED BY <4>2, <4>3, <4>4 DEF Mentions
    <3>2. ASSUME t \in names PROVE t \in ToSet(p)
      <4>1. PICK j \in 1 .. n : deps[j].name = t BY <2>6, <3>2
      <4>2. Mentions(deps[j], t) /\ depName(t) = t /\ t # << >> BY <1>2, <2>3, <4>1 DEF Mentions
      <4> QED BY <2>1, <2>2, <4>2
    <3>3. ASSUME t \in versions PROVE t \in ToSet(p)
      <4>1. PICK j \in 1 .. n : HasVersion(deps[j]) /\ depName(deps[j].version) = t /\ t # << >>
        BY <2>5, <3>3
      <4>2. Mentions(deps[j], deps[j].version) /\ deps[j].version \in Texts
        BY <2>3, <4>1 DEF Mentions
      <4> QED BY <2>1, <2>2, <4>1, <4>2
    <3> QED BY <3>1, <3>2, <3>3
  <2> QED BY <2>7, <2>8, <2>9
<1>10. ASSUME constrained = {} PROVE p = s
  <2>1. \A i \in 1 .. n : deps[i].op = << >> BY <1>1, <1>10
  <2>2. Len(words) = n /\ \A i \in 1 .. n : words[i] = deps[i].name BY <1>3, <2>1 DEF Worded
  <2>3. \A i \in 1 .. n : values[i] = deps[i].name BY <1>2, <2>1 DEF Declared
  <2>4. words = [i \in 1 .. n |-> words[i]] /\ values = [i \in 1 .. n |-> values[i]]
    BY <1>2, <1>3, <2>2
  <2>5. words = values BY <2>2, <2>3, <2>4
  <2> QED BY <2>5 DEF s, p
<1> HIDE DEF names, versions, constrained
<1> QED BY <1>6, <1>7, <1>8, <1>9, <1>10 DEF s, p, words, values, names, versions, constrained

\* A package that is parsed.
LEMMA ParsersStep == CallParsePackage => ParsersAgree'
<1> SUFFICES ASSUME CallParsePackage PROVE ParsersAgree' OBVIOUS
<1> DEFINE S(pkg) == ParsePackage(AsSRCINFO(pkg), AsPKGBUILD(pkg))
           P(pkg) == ParsePackage(Absent, AsPKGBUILD(pkg))
<1>1. PICK pkg \in Packages :
        call' = [fn |-> "parse", in |-> pkg, out |-> [srcinfo |-> S(pkg), pkgbuild |-> P(pkg)]]
  BY DEF CallParsePackage, Calls
<1> HIDE DEF S, P
<1> DEFINE s == Listed(AllDeclared(pkg.deps))
           p == Listed(Words(Array(AllDeclared(pkg.deps))))
           names == {pkg.deps[i].name : i \in DOMAIN pkg.deps}
           constrained == {i \in DOMAIN pkg.deps : pkg.deps[i].op # << >>}
           versions == {depName(pkg.deps[i].version) : i \in constrained} \ {<< >>}
           first == pkg.names[1]
<1>2. /\ pkg.base \in Seq(NameTokens) \ {<< >>}
      /\ pkg.names \in Seq(Seq(NameTokens) \ {<< >>}) \ {<< >>}
      /\ pkg.version \in Seq(VersionTokens) \ {<< >>} /\ pkg.deps \in Seq(Dependency)
  BY PackagesAssumption DEF Dependency
<1>3. S(pkg) = Described(pkg, pkg.base, s) /\ P(pkg) = Described(pkg, first, p)
  <2> DEFINE as == [base |-> pkg.base, names |-> pkg.names, version |-> pkg.version, deps |-> pkg.deps]
  <2>1. as \in Package BY <1>2 DEF Package
  <2>2. as.base = pkg.base /\ as.names = pkg.names /\ as.version = pkg.version /\ as.deps = pkg.deps OBVIOUS
  <2>3. AsSRCINFO(as) = AsSRCINFO(pkg) /\ AsPKGBUILD(as) = AsPKGBUILD(pkg)
        /\ \A n, d : Described(as, n, d) = Described(pkg, n, d)
    BY DEF AsSRCINFO, AsPKGBUILD, Described
  <2> HIDE DEF as
  <2>4. S(as) = Described(as, as.base, Listed(AllDeclared(as.deps)))
        /\ P(as) = Described(as, as.names[1], Listed(Words(Array(AllDeclared(as.deps)))))
    BY <2>1, BothAreRead DEF S, P
  <2> QED BY <2>2, <2>3, <2>4 DEF S, P
<1>4. /\ ToSet(s) = names /\ ToSet(p) = names \cup versions
      /\ Len(s) = Cardinality(ToSet(s)) /\ Len(p) = Cardinality(ToSet(p))
      /\ constrained = {} => p = s
  BY <1>2, ListsAgree
<1> HIDE DEF s, p, first
<1>5. \A n, d : /\ Described(pkg, n, d).name = n /\ Described(pkg, n, d).split = pkg.names
                /\ Described(pkg, n, d).version = pkg.version /\ Described(pkg, n, d).deps = d
  BY DEF Described
<1>6. [Described(pkg, first, p) EXCEPT !.name = pkg.base, !.deps = s] = Described(pkg, pkg.base, s)
  <2> DEFINE b == pkg.base
             v == pkg.version
             r == <<"1">>
             all == pkg.names
             Is(n, d) == [name |-> n, version |-> v, release |-> r, split |-> all, deps |-> d]
  <2>1. \A n, d : Described(pkg, n, d) = Is(n, d) BY DEF Described
  <2> HIDE DEF b, v, r, all
  <2>2. [Is(first, p) EXCEPT !.name = b] = Is(b, p) OBVIOUS
  <2>3. [Is(b, p) EXCEPT !.deps = s] = Is(b, s) OBVIOUS
  <2>4. [Is(first, p) EXCEPT !.name = b, !.deps = s] = [[Is(first, p) EXCEPT !.name = b] EXCEPT !.deps = s]
    OBVIOUS
  <2> HIDE DEF Is
  <2> QED BY <2>1, <2>2, <2>3, <2>4 DEF b
<1>7. /\ call'.in = pkg /\ call'.out.srcinfo = Described(pkg, pkg.base, s)
      /\ call'.out.pkgbuild = Described(pkg, first, p)
  BY <1>1, <1>3
<1> DEFINE sInfo == call'.out.srcinfo
           pInfo == call'.out.pkgbuild
<1>8. /\ sInfo.name = pkg.base /\ pInfo.name = pkg.names[1]
      /\ [pInfo EXCEPT !.name = sInfo.name, !.deps = sInfo.deps] = sInfo
      /\ sInfo.split = pkg.names /\ sInfo.version = pkg.version
      /\ sInfo.deps = s /\ pInfo.deps = p
  <2>1. sInfo = Described(pkg, pkg.base, s) /\ pInfo = Described(pkg, first, p) BY <1>7
  <2> HIDE DEF sInfo, pInfo
  <2>2. /\ sInfo.name = pkg.base /\ sInfo.split = pkg.names /\ sInfo.version = pkg.version
        /\ sInfo.deps = s /\ pInfo.name = first /\ pInfo.deps = p
    BY <1>5, <2>1
  <2>3. [pInfo EXCEPT !.name = pkg.base, !.deps = s] = sInfo BY <1>6, <2>1
  <2> QED BY <2>2, <2>3 DEF first
<1> HIDE DEF names, versions, constrained, sInfo, pInfo
<1>9. /\ ToSet(sInfo.deps) = names /\ ToSet(pInfo.deps) = names \cup versions
      /\ Len(sInfo.deps) = Cardinality(ToSet(sInfo.deps))
      /\ Len(pInfo.deps) = Cardinality(ToSet(pInfo.deps))
      /\ constrained = {} => pInfo.deps = sInfo.deps
  BY <1>4, <1>8
<1> QED BY <1>7, <1>8, <1>9 DEF ParsersAgree, names, versions, constrained, sInfo, pInfo

\* parseSRCINFO and parsePKGBUILD: for any package, whatever its base, its names,
\* its versions and its dependencies, its two files give previews that differ in
\* the name and in the versions of constraints, and in nothing else.
THEOREM ParsersAgreed == LibrarySpec => []ParsersAgree
<1>1. LibraryInit => ParsersAgree BY DEF LibraryInit, NoCall, ParsersAgree
<1>2. ParsersAgree /\ [LibraryNext]_call => ParsersAgree'
  <2>1. LibraryNext => ParsersAgree' BY ParsersStep, OneFunction DEF ParsersAgree
  <2>2. ParsersAgree /\ UNCHANGED call => ParsersAgree' BY DEF ParsersAgree
  <2> QED BY <2>1, <2>2
<1> QED BY <1>1, <1>2, PTL DEF LibrarySpec
=============================================================================
