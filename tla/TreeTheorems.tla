---------------------------- MODULE TreeTheorems ----------------------------
(***************************************************************************)
(* Facts about the paths and heights of a tree, for every tree.            *)
(***************************************************************************)
EXTENDS Trees, Integers, FiniteSets, FiniteSetTheorems, WellFoundedInduction, TLAPS

\* Every non-empty set of natural numbers has a least member.
LEMMA LeastNat ==
    ASSUME NEW T \in SUBSET Nat, T # {}
    PROVE  \E n \in T : \A m \in T : n <= m
<1>1. PICK n \in T : \A m \in T : ~ (<<m, n>> \in OpToRel(<, Nat))
    BY ONLY T \in SUBSET Nat, T # {}, NatLessThanWellFounded, WFMin
<1>2. \A m \in T : ~ (m < n)
    BY <1>1 DEF OpToRel
<1> QED
    BY <1>2

\* Induction over the natural numbers, for a set.
LEMMA NatSetInduction ==
    ASSUME NEW S, 0 \in S, \A n \in Nat : n \in S => n + 1 \in S
    PROVE  Nat \subseteq S
<1> SUFFICES ASSUME Nat \ S # {}
             PROVE  FALSE
    OBVIOUS
<1>1. PICK n \in Nat \ S : \A m \in Nat \ S : n <= m
    BY LeastNat
<1>2. n # 0 /\ n - 1 \in Nat
    BY <1>1
<1>3. n - 1 \in S
    BY <1>1, <1>2
<1> QED
    BY <1>1, <1>2, <1>3

\* The paths of a tree exist: the ancestors of b are what every set that holds
\* b and the parents of its members holds.
LEMMA PathExists ==
    ASSUME NEW B, NEW g, NEW P, IsTree(B, g, P)
    PROVE  \E f : IsPath(B, g, P, f)
<1> DEFINE Closed(S) == \A y \in B \ {g} : y \in S => P[y] \in S
           up(b) == {x \in B : \A S \in SUBSET B : b \in S /\ Closed(S) => x \in S}
           f == [b \in B |-> up(b)]
<1>1. g \in B /\ P \in [B \ {g} -> B]
    BY DEF IsTree
<1>2. up(g) = {g}
  <2>1. {g} \in SUBSET B /\ g \in {g} /\ Closed({g})
    BY <1>1
  <2>2. \A x \in up(g) : x \in {g}
    BY <2>1
  <2> QED
    BY <2>2, <1>1
<1>3. ASSUME NEW b \in B \ {g}
      PROVE  up(b) = {b} \cup up(P[b])
  <2>1. P[b] \in B
    BY <1>1
  <2>2. ASSUME NEW x \in up(P[b])
        PROVE  x \in up(b)
    BY <2>1, <2>2
  <2>3. ASSUME NEW x \in up(b), x # b
        PROVE  x \in up(P[b])
    <3> SUFFICES ASSUME NEW S \in SUBSET B, P[b] \in S, Closed(S)
                 PROVE  x \in S
        BY <2>3
    <3>1. S \cup {b} \in SUBSET B /\ b \in S \cup {b} /\ Closed(S \cup {b})
        BY <2>1
    <3>2. x \in S \cup {b}
        BY <3>1, <2>3
    <3> QED
        BY <3>2, <2>3
  <2> QED
    BY <2>2, <2>3
<1>4. \A b \in B : up(b) = {b} \cup IF b = g THEN {} ELSE f[P[b]]
  <2> SUFFICES ASSUME NEW b \in B
               PROVE  up(b) = {b} \cup IF b = g THEN {} ELSE f[P[b]]
    OBVIOUS
  <2>1. CASE b = g
    BY <2>1, <1>2
  <2>2. CASE b # g
    <3>1. P[b] \in B
        BY <2>2, <1>1
    <3>2. f[P[b]] = up(P[b])
        BY <3>1
    <3> HIDE DEF f, up
    <3> QED
        BY <2>2, <1>3, <3>2
  <2> QED
    BY <2>1, <2>2
<1>5. IsPath(B, g, P, f)
  <2> HIDE DEF up
  <2> QED
    BY <1>4 DEF IsPath
<1> QED
    BY <1>5

\* What holds of the root, and of a member when it holds of its parent, holds
\* of all members.
LEMMA TreeInduction ==
    ASSUME NEW B, NEW g, NEW P, IsTree(B, g, P),
           NEW S \in SUBSET B, g \in S,
           \A b \in B \ {g} : P[b] \in S => b \in S
    PROVE  S = B
    BY DEF IsTree

\* The equation of the paths, block by block.
LEMMA PathEquation ==
    ASSUME NEW B, NEW g, NEW P, NEW f, IsTree(B, g, P), IsPath(B, g, P, f)
    PROVE  /\ DOMAIN f = B
           /\ g \in B
           /\ \A b \in B \ {g} : P[b] \in B
           /\ f[g] = {g}
           /\ \A b \in B \ {g} : f[b] = {b} \cup f[P[b]]
           /\ \A b \in B : b \in f[b]
<1>1. g \in B /\ \A b \in B \ {g} : P[b] \in B
    BY DEF IsTree
<1>2. f = [b \in B |-> {b} \cup IF b = g THEN {} ELSE f[P[b]]]
    BY DEF IsPath
<1>3. DOMAIN f = B /\ \A b \in B : f[b] = {b} \cup IF b = g THEN {} ELSE f[P[b]]
    BY <1>2
<1> QED
    BY <1>1, <1>3

\* A path stays in the tree, ends at the root and is finite; it contains the
\* paths of its members, and of two members of a path one is an ancestor of
\* the other.
LEMMA PathFacts ==
    ASSUME NEW B, NEW g, NEW P, NEW f, IsTree(B, g, P), IsPath(B, g, P, f)
    PROVE  \A b \in B : /\ f[b] \subseteq B
                        /\ g \in f[b]
                        /\ IsFiniteSet(f[b])
                        /\ \A x \in f[b] : f[x] \subseteq f[b]
                        /\ \A x, y \in f[b] : x \in f[y] \/ y \in f[x]
<1>1. /\ g \in B
      /\ \A b \in B \ {g} : P[b] \in B
      /\ f[g] = {g}
      /\ \A b \in B \ {g} : f[b] = {b} \cup f[P[b]]
      /\ \A b \in B : b \in f[b]
    BY PathEquation
<1> DEFINE Good(b) == /\ f[b] \subseteq B
                      /\ g \in f[b]
                      /\ IsFiniteSet(f[b])
                      /\ \A x \in f[b] : f[x] \subseteq f[b]
                      /\ \A x, y \in f[b] : x \in f[y] \/ y \in f[x]
           S == {b \in B : Good(b)}
<1>2. S \in SUBSET B
    OBVIOUS
<1>3. g \in S
    BY <1>1, FS_Singleton
<1>4. ASSUME NEW b \in B \ {g}, P[b] \in S
      PROVE  b \in S
  <2>1. f[b] = {b} \cup f[P[b]] /\ Good(P[b]) /\ P[b] \in B
    BY <1>1, <1>4
  <2>2. IsFiniteSet(f[b])
    BY <2>1, FS_AddElement
  <2>3. \A x \in f[b] : f[x] \subseteq f[b]
    BY <2>1
  <2>4. \A x, y \in f[b] : x \in f[y] \/ y \in f[x]
    BY <2>1, <1>1
  <2> QED
    BY <2>1, <2>2, <2>3, <2>4
<1>5. S = B
  <2> HIDE DEF S
  <2> QED
    BY <1>2, <1>3, <1>4, TreeInduction
<1> QED
    BY <1>5

\* No block is its own ancestor.
LEMMA Acyclic ==
    ASSUME NEW B, NEW g, NEW P, NEW f, IsTree(B, g, P), IsPath(B, g, P, f)
    PROVE  \A b \in B \ {g} : b \notin f[P[b]]
<1>1. /\ g \in B
      /\ \A b \in B \ {g} : P[b] \in B
      /\ f[g] = {g}
      /\ \A b \in B \ {g} : f[b] = {b} \cup f[P[b]]
      /\ \A b \in B : b \in f[b]
    BY PathEquation
<1> DEFINE S == {b \in B : \A x \in f[b] \ {g} : x \notin f[P[x]]}
<1>2. S \in SUBSET B /\ g \in S
    BY <1>1
<1>3. ASSUME NEW b \in B \ {g}, P[b] \in S
      PROVE  b \in S
    BY <1>1, <1>3
<1>4. S = B
  <2> HIDE DEF S
  <2> QED
    BY <1>2, <1>3, TreeInduction
<1> QED
    BY <1>1, <1>4

\* The heights of a tree exist: a path has one block more than its height.
LEMMA HeightExists ==
    ASSUME NEW B, NEW g, NEW P, IsTree(B, g, P)
    PROVE  \E h : IsHeight(B, g, P, h)
<1>1. PICK f : IsPath(B, g, P, f)
    BY PathExists
<1> DEFINE h == [b \in B |-> Cardinality(f[b]) - 1]
<1>2. /\ g \in B
      /\ \A b \in B \ {g} : P[b] \in B
      /\ f[g] = {g}
      /\ \A b \in B \ {g} : f[b] = {b} \cup f[P[b]]
    BY <1>1, PathEquation
<1>3. \A b \in B : IsFiniteSet(f[b]) /\ Cardinality(f[b]) \in Nat
    BY <1>1, PathFacts, FS_CardinalityType
<1>4. Cardinality(f[g]) = 1
    BY <1>2, FS_Singleton
<1>5. ASSUME NEW b \in B \ {g}
      PROVE  Cardinality(f[b]) = Cardinality(f[P[b]]) + 1
  <2>1. b \notin f[P[b]]
    BY <1>1, Acyclic
  <2> QED
    BY <2>1, <1>2, <1>3, FS_AddElement
<1>6. \A b \in B : Cardinality(f[b]) - 1 = IF b = g THEN 0 ELSE h[P[b]] + 1
  <2> SUFFICES ASSUME NEW b \in B
               PROVE  Cardinality(f[b]) - 1 = IF b = g THEN 0 ELSE h[P[b]] + 1
    OBVIOUS
  <2>1. CASE b = g
    BY <2>1, <1>4
  <2>2. CASE b # g
    <3>1. P[b] \in B /\ Cardinality(f[b]) = Cardinality(f[P[b]]) + 1
        BY <2>2, <1>2, <1>5
    <3>2. h[P[b]] = Cardinality(f[P[b]]) - 1
        BY <3>1
    <3> HIDE DEF h
    <3> QED
        BY <2>2, <3>1, <3>2, <1>3
  <2> QED
    BY <2>1, <2>2
<1>7. IsHeight(B, g, P, h)
    BY <1>6 DEF IsHeight
<1> QED
    BY <1>7

\* Heights are natural numbers that grow along a path, one by one.
LEMMA HeightFacts ==
    ASSUME NEW B, NEW g, NEW P, NEW f, NEW h,
           IsTree(B, g, P), IsPath(B, g, P, f), IsHeight(B, g, P, h)
    PROVE  /\ h \in [B -> Nat]
           /\ \A b \in B \ {g} : h[b] = h[P[b]] + 1
           /\ \A b \in B : \A x \in f[b] : x # b => h[x] < h[b]
           /\ \A b \in B : \A x, y \in f[b] : h[x] <= h[y] => x \in f[y]
<1>1. /\ g \in B
      /\ \A b \in B \ {g} : P[b] \in B
      /\ f[g] = {g}
      /\ \A b \in B \ {g} : f[b] = {b} \cup f[P[b]]
      /\ \A b \in B : b \in f[b]
    BY PathEquation
<1>2. h = [b \in B |-> IF b = g THEN 0 ELSE h[P[b]] + 1]
    BY DEF IsHeight
<1>3. DOMAIN h = B /\ h[g] = 0 /\ \A b \in B \ {g} : h[b] = h[P[b]] + 1
    BY <1>1, <1>2
<1> DEFINE S == {b \in B : \A x \in f[b] : h[x] \in Nat /\ (x # b => h[x] < h[b])}
<1>4. S \in SUBSET B /\ g \in S
    BY <1>1, <1>3
<1>5. ASSUME NEW b \in B \ {g}, P[b] \in S
      PROVE  b \in S
  <2>1. /\ h[b] = h[P[b]] + 1
        /\ h[P[b]] \in Nat
        /\ f[b] = {b} \cup f[P[b]]
    BY <1>1, <1>3, <1>5
  <2>2. \A x \in f[P[b]] : h[x] \in Nat /\ h[x] < h[b]
    BY <2>1, <1>5
  <2> QED
    BY <2>1, <2>2
<1>6. S = B
  <2> HIDE DEF S
  <2> QED
    BY <1>4, <1>5, TreeInduction
<1>7. h \in [B -> Nat]
  <2>1. \A b \in B : h[b] \in Nat
    BY <1>6, <1>1
  <2>2. h = [b \in B |-> h[b]]
    BY <1>2
  <2> QED
    BY <2>1, <2>2
<1>8. \A b \in B : \A x, y \in f[b] : h[x] <= h[y] => x \in f[y]
  <2> SUFFICES ASSUME NEW b \in B, NEW x \in f[b], NEW y \in f[b], h[x] <= h[y]
               PROVE  x \in f[y]
    OBVIOUS
  <2>1. x \in B /\ y \in B /\ (x \in f[y] \/ y \in f[x])
    BY PathFacts
  <2>2. ASSUME y \in f[x], x # y
        PROVE  FALSE
    <3>1. h[y] < h[x]
        BY <2>1, <2>2, <1>6
    <3> QED
        BY <3>1, <2>1, <1>7
  <2> QED
    BY <2>1, <2>2, <1>1
<1> QED
    BY <1>3, <1>6, <1>7, <1>8
\* A non-empty set of blocks has a lowest member; a non-empty part of a path
\* has a highest one.
LEMMA Lowest ==
    ASSUME NEW B, NEW h \in [B -> Nat], NEW S \in SUBSET B, S # {}
    PROVE  \E x \in S : \A y \in S : h[x] <= h[y]
<1> DEFINE T == {h[y] : y \in S}
<1>1. T \in SUBSET Nat /\ T # {}
    OBVIOUS
<1>2. PICK n \in T : \A m \in T : n <= m
  <2> HIDE DEF T
  <2> QED
    BY <1>1, LeastNat
<1> QED
    BY <1>2

LEMMA Highest ==
    ASSUME NEW B, NEW g, NEW P, NEW f, NEW h,
           IsTree(B, g, P), IsPath(B, g, P, f), IsHeight(B, g, P, h),
           NEW b \in B, NEW S \in SUBSET f[b], S # {}
    PROVE  \E x \in S : \A y \in S : h[y] <= h[x]
<1>1. h \in [B -> Nat] /\ f[b] \subseteq B /\ \A y \in f[b] : h[y] <= h[b]
  <2>1. /\ h \in [B -> Nat]
        /\ \A x \in f[b] : x # b => h[x] < h[b]
        /\ f[b] \subseteq B
    BY HeightFacts, PathFacts
  <2> QED
    BY <2>1
<1> DEFINE T == {h[b] - h[y] : y \in S}
<1>2. T \in SUBSET Nat /\ T # {}
    BY <1>1
<1>3. PICK n \in T : \A m \in T : n <= m
  <2> HIDE DEF T
  <2> QED
    BY <1>2, LeastNat
<1>4. PICK x \in S : n = h[b] - h[x]
    BY <1>3
<1>5. \A y \in S : h[b] - h[x] <= h[b] - h[y]
    BY <1>3, <1>4
<1> QED
    BY <1>5, <1>1

\* r[n] is what n repetitions of a step make of s0.
IsRun(S, s0, step, r) ==
    /\ r \in [Nat -> S]
    /\ r[0] = s0
    /\ \A n \in Nat : r[n + 1] = step[r[n]]

\* A step can be repeated any number of times.
LEMMA RunExists ==
    ASSUME NEW S, NEW s0 \in S, NEW step \in [S -> S]
    PROVE  \E r : IsRun(S, s0, step, r)
<1> DEFINE Run(n, q) == /\ q \in [0..n -> S]
                        /\ q[0] = s0
                        /\ \A i \in 0..(n - 1) : q[i + 1] = step[q[i]]
           E == {n \in Nat : \E q : Run(n, q)}
<1>1. 0 \in E
  <2>1. Run(0, [i \in 0..0 |-> s0])
    OBVIOUS
  <2> QED
    BY <2>1
<1>2. ASSUME NEW n \in Nat, n \in E
      PROVE  n + 1 \in E
  <2>1. PICK q : Run(n, q)
    BY <1>2
  <2> DEFINE p == [i \in 0..(n + 1) |-> IF i = n + 1 THEN step[q[n]] ELSE q[i]]
  <2>2. p \in [0..(n + 1) -> S] /\ p[0] = s0
    BY <2>1
  <2>3. ASSUME NEW i \in 0..n
        PROVE  p[i + 1] = step[p[i]]
    <3>1. CASE i = n
        BY <3>1, <2>1
    <3>2. CASE i # n
      <4>1. i \in 0..(n - 1) /\ i + 1 \in 0..n
        BY <3>2
      <4>2. p[i + 1] = q[i + 1] /\ p[i] = q[i]
        BY <4>1
      <4> QED
        BY <4>1, <4>2, <2>1
    <3> QED
        BY <3>1, <3>2
  <2>4. Run(n + 1, p)
    BY <2>2, <2>3
  <2> HIDE DEF Run, p
  <2> QED
    BY <2>4
<1>3. Nat \subseteq E
  <2> HIDE DEF E
  <2> QED
    BY <1>1, <1>2, NatSetInduction
\* Two runs agree where both are defined.
<1>4. ASSUME NEW n \in Nat, NEW m \in Nat, NEW p, NEW q, Run(n, p), Run(m, q), n <= m
      PROVE  \A i \in 0..n : p[i] = q[i]
  <2> DEFINE A == {i \in Nat : i <= n => p[i] = q[i]}
  <2>1. 0 \in A
    BY <1>4
  <2>2. ASSUME NEW i \in Nat, i \in A
        PROVE  i + 1 \in A
    <3> SUFFICES ASSUME i + 1 <= n
                 PROVE  p[i + 1] = q[i + 1]
        OBVIOUS
    <3>1. i \in 0..(n - 1) /\ i \in 0..(m - 1) /\ p[i] = q[i]
        BY <2>2, <1>4
    <3> QED
        BY <3>1, <1>4
  <2>3. Nat \subseteq A
    <3> HIDE DEF A
    <3> QED
        BY <2>1, <2>2, NatSetInduction
  <2> QED
    BY <2>3
<1> DEFINE run(n) == CHOOSE q : Run(n, q)
           r == [n \in Nat |-> run(n)[n]]
<1>5. \A n \in Nat : Run(n, run(n))
  <2> HIDE DEF Run
  <2>1. \A n \in Nat : \E q : Run(n, q)
    BY <1>3
  <2> QED
    BY <2>1
<1>6. r \in [Nat -> S] /\ r[0] = s0
  <2> HIDE DEF run
  <2>1. \A n \in Nat : run(n)[n] \in S
    BY <1>5
  <2>2. run(0)[0] = s0
    BY <1>5
  <2> QED
    BY <2>1, <2>2
<1>7. ASSUME NEW n \in Nat
      PROVE  r[n + 1] = step[r[n]]
  <2> HIDE DEF run
  <2>1. Run(n, run(n)) /\ Run(n + 1, run(n + 1))
    BY <1>5
  <2>2. run(n)[n] = run(n + 1)[n]
    <3> HIDE DEF Run
    <3>1. n \in 0..n /\ n <= n + 1 /\ n + 1 \in Nat
        OBVIOUS
    <3> QED
        BY <2>1, <3>1, <1>4
  <2>3. run(n + 1)[n + 1] = step[run(n + 1)[n]]
    BY <2>1
  <2> QED
    BY <2>2, <2>3
<1>8. IsRun(S, s0, step, r)
  <2> HIDE DEF r
  <2> QED
    BY <1>6, <1>7 DEF IsRun
<1> QED
  <2> HIDE DEF r
  <2> QED
    BY <1>8
\* f[i] is what the steps F[1], ..., F[i] make of x0.
IsFold(n, X, x0, F, f) ==
    /\ f \in [0..n -> X]
    /\ f[0] = x0
    /\ \A i \in 1..n : f[i] = F[i][f[i - 1]]

\* A recursion over 1..n has a solution.
LEMMA FoldExists ==
    ASSUME NEW n \in Nat, NEW X, NEW x0 \in X, NEW F \in [1..n -> [X -> X]]
    PROVE  \E f : IsFold(n, X, x0, F, f)
<1> DEFINE Upto(k, f) == /\ f \in [0..k -> X]
                         /\ f[0] = x0
                         /\ \A i \in 1..k : f[i] = F[i][f[i - 1]]
           E == {k \in Nat : k <= n => \E f : Upto(k, f)}
<1>1. 0 \in E
  <2>1. Upto(0, [i \in 0..0 |-> x0])
    OBVIOUS
  <2> HIDE DEF Upto
  <2> QED
    BY <2>1
<1>2. ASSUME NEW k \in Nat, k \in E
      PROVE  k + 1 \in E
  <2> SUFFICES ASSUME k + 1 <= n
               PROVE  \E f : Upto(k + 1, f)
    OBVIOUS
  <2>1. PICK f : Upto(k, f)
    BY <1>2
  <2> DEFINE p == [i \in 0..(k + 1) |-> IF i = k + 1 THEN F[k + 1][f[k]] ELSE f[i]]
  <2>2. k + 1 \in 1..n /\ f[k] \in X
    BY <2>1
  <2>3. F[k + 1][f[k]] \in X
    BY <2>2
  <2>4. p \in [0..(k + 1) -> X] /\ p[0] = x0
    BY <2>1, <2>3
  <2>5. ASSUME NEW i \in 1..(k + 1)
        PROVE  p[i] = F[i][p[i - 1]]
    <3>1. CASE i = k + 1
      <4>1. i - 1 = k /\ k \in 0..(k + 1) /\ k # k + 1
        BY <3>1
      <4>2. p[i - 1] = f[k] /\ p[i] = F[k + 1][f[k]]
        BY <3>1, <4>1
      <4> QED
        BY ONLY <3>1, <4>2
    <3>2. CASE i # k + 1
      <4>1. i \in 1..k /\ i - 1 \in 0..k
        BY <3>2
      <4>2. p[i] = f[i] /\ p[i - 1] = f[i - 1]
        BY <4>1
      <4> QED
        BY <4>1, <4>2, <2>1
    <3> QED
        BY <3>1, <3>2
  <2>6. Upto(k + 1, p)
    BY <2>4, <2>5
  <2> HIDE DEF Upto, p
  <2> QED
    BY <2>6
<1>3. \E f : Upto(n, f)
  <2>1. Nat \subseteq E
    <3> HIDE DEF E
    <3> QED
        BY <1>1, <1>2, NatSetInduction
  <2> QED
    BY <2>1
<1> QED
    BY <1>3 DEF IsFold
\* f[b] is what the steps on the way from the root to b make of x0.
IsTreeFold(B, g, P, X, x0, F, f) ==
    /\ f \in [B -> X]
    /\ f[g] = x0
    /\ \A b \in B \ {g} : f[b] = F[b][f[P[b]]]

\* A recursion from the parents to the children has a solution.
LEMMA TreeFoldExists ==
    ASSUME NEW B, NEW g, NEW P, IsTree(B, g, P),
           NEW X, NEW x0 \in X, NEW F \in [B \ {g} -> [X -> X]]
    PROVE  \E f : IsTreeFold(B, g, P, X, x0, F, f)
<1>1. PICK path : IsPath(B, g, P, path)
    BY PathExists
<1>2. /\ g \in B
      /\ \A b \in B \ {g} : P[b] \in B
      /\ path[g] = {g}
      /\ \A b \in B \ {g} : path[b] = {b} \cup path[P[b]]
      /\ \A b \in B : b \in path[b]
    BY <1>1, PathEquation
<1>3. \A b \in B : /\ path[b] \subseteq B
                   /\ g \in path[b]
                   /\ \A x \in path[b] : path[x] \subseteq path[b]
    BY <1>1, PathFacts
<1>4. \A b \in B \ {g} : b \notin path[P[b]]
    BY <1>1, Acyclic
<1>5. \A b \in B : \A x \in path[b] \ {g} : P[x] \in path[b]
    BY <1>2, <1>3
<1> DEFINE On(b, f) == /\ f \in [path[b] -> X]
                       /\ f[g] = x0
                       /\ \A x \in path[b] \ {g} : f[x] = F[x][f[P[x]]]
           E == {b \in B : \E f : On(b, f)}
<1>6. g \in E
  <2>1. On(g, [x \in {g} |-> x0])
    BY <1>2
  <2> HIDE DEF On
  <2> QED
    BY <2>1, <1>2
<1>7. ASSUME NEW b \in B \ {g}, P[b] \in E
      PROVE  b \in E
  <2>1. PICK f : On(P[b], f)
    BY <1>7
  <2> DEFINE v == F[b][f[P[b]]]
             q == [x \in path[b] |-> IF x = b THEN v ELSE f[x]]
  <2>2. /\ path[b] = {b} \cup path[P[b]]
        /\ P[b] \in B
        /\ P[b] \in path[P[b]]
        /\ b \notin path[P[b]]
        /\ g \in path[P[b]]
    BY <1>2, <1>3, <1>4
  <2>3. v \in X
    BY <2>1, <2>2
  <2>4. q \in [path[b] -> X] /\ q[g] = x0
    BY <2>1, <2>2, <2>3
  <2>5. ASSUME NEW x \in path[b] \ {g}
        PROVE  q[x] = F[x][q[P[x]]]
    <3>1. CASE x = b
      <4>1. q[P[b]] = f[P[b]]
        BY <2>2
      <4> QED
        BY <3>1, <4>1
    <3>2. CASE x # b
      <4>1. x \in path[P[b]] /\ P[x] \in path[P[b]]
        BY <3>2, <2>2, <1>5
      <4>2. q[x] = f[x] /\ q[P[x]] = f[P[x]]
        BY <4>1, <2>2, <3>2
      <4> QED
        BY <4>1, <4>2, <2>1
    <3> QED
        BY <3>1, <3>2
  <2>6. On(b, q)
    BY <2>4, <2>5
  <2> HIDE DEF On, q
  <2> QED
    BY <2>6
<1>8. E = B
  <2>1. E \in SUBSET B
    OBVIOUS
  <2> HIDE DEF E
  <2> QED
    BY <2>1, <1>6, <1>7, TreeInduction
\* Solutions on two paths agree where both are defined.
<1>9. ASSUME NEW b \in B, NEW c \in B, c \in path[b], NEW p, NEW q, On(b, p), On(c, q)
      PROVE  p[c] = q[c]
  <2> DEFINE A == {x \in B : x \in path[c] => p[x] = q[x]}
  <2>1. g \in A
    BY <1>2, <1>9
  <2>2. ASSUME NEW x \in B \ {g}, P[x] \in A
        PROVE  x \in A
    <3> SUFFICES ASSUME x \in path[c]
                 PROVE  p[x] = q[x]
        OBVIOUS
    <3>1. P[x] \in path[c] /\ x \in path[b]
        BY <1>3, <1>5, <1>9
    <3>2. p[P[x]] = q[P[x]]
        BY <3>1, <2>2
    <3> QED
        BY <3>1, <3>2, <1>9
  <2>3. A = B
    <3>1. A \in SUBSET B
        OBVIOUS
    <3> HIDE DEF A
    <3> QED
        BY <3>1, <2>1, <2>2, TreeInduction
  <2> QED
    BY <2>3, <1>2
<1> DEFINE on(b) == CHOOSE f : On(b, f)
           sol == [b \in B |-> on(b)[b]]
<1>10. \A b \in B : On(b, on(b))
  <2> HIDE DEF On
  <2>1. \A b \in B : \E f : On(b, f)
    BY <1>8
  <2> QED
    BY <2>1
<1> HIDE DEF on
<1>11. sol \in [B -> X] /\ sol[g] = x0
  <2>1. \A b \in B : on(b)[b] \in X
    BY <1>10, <1>2
  <2>2. on(g)[g] = x0
    BY <1>10, <1>2
  <2> QED
    BY <2>1, <2>2, <1>2
<1>12. ASSUME NEW b \in B \ {g}
       PROVE  sol[b] = F[b][sol[P[b]]]
  <2>1. On(b, on(b)) /\ On(P[b], on(P[b])) /\ P[b] \in B /\ P[b] \in path[b] /\ b \in path[b]
    BY <1>2, <1>5, <1>10
  <2>2. on(b)[P[b]] = on(P[b])[P[b]]
    <3> HIDE DEF On
    <3> QED
        BY <2>1, <1>9
  <2>3. on(b)[b] = F[b][on(b)[P[b]]]
    BY <2>1
  <2> QED
    BY <2>1, <2>2, <2>3
<1>13. IsTreeFold(B, g, P, X, x0, F, sol)
  <2> HIDE DEF sol
  <2> QED
    BY <1>11, <1>12 DEF IsTreeFold
<1> QED
  <2> HIDE DEF sol
  <2> QED
    BY <1>13

\* A finite set that is totally ordered by R has a last member.
LEMMA FiniteMaximum ==
    ASSUME NEW S, IsFiniteSet(S), S # {}, NEW R,
           \A x, y \in S : x # y => <<x, y>> \in R \/ <<y, x>> \in R,
           \A x, y, z \in S : <<x, y>> \in R /\ <<y, z>> \in R => <<x, z>> \in R
    PROVE  \E m \in S : \A x \in S \ {m} : <<x, m>> \in R
<1> DEFINE Last(T, m) == m \in T /\ \A x \in T \ {m} : <<x, m>> \in R
           A == {n \in Nat : \A T \in SUBSET S : /\ IsFiniteSet(T)
                                                 /\ Cardinality(T) = n
                                                 /\ T # {}
                                                 => \E m : Last(T, m)}
<1>1. 0 \in A
    BY FS_EmptySet
<1>2. ASSUME NEW n \in Nat, n \in A
      PROVE  n + 1 \in A
  <2> SUFFICES ASSUME NEW T \in SUBSET S, IsFiniteSet(T), Cardinality(T) = n + 1, T # {}
               PROVE  \E m : Last(T, m)
    OBVIOUS
  <2>1. PICK x \in T : TRUE
    OBVIOUS
  <2> DEFINE U == T \ {x}
  <2>2. IsFiniteSet(U) /\ Cardinality(U) = n
    <3>1. x \in T /\ Cardinality(T \ {x}) = Cardinality(T) - 1 /\ IsFiniteSet(T \ {x})
        BY FS_RemoveElement
    <3> QED
        BY <3>1
  <2>3. CASE U = {}
    <3>1. Last(T, x)
        BY <2>3
    <3> HIDE DEF Last
    <3> QED
        BY <3>1
  <2>4. CASE U # {}
    <3>1. PICK m : Last(U, m)
      <4>1. U \in SUBSET S
        OBVIOUS
      <4> HIDE DEF U, Last
      <4> QED
        BY <4>1, <2>2, <2>4, <1>2
    <3>2. m \in S /\ x \in S /\ m # x
        BY <3>1
    <3>3. CASE <<x, m>> \in R
      <4>1. Last(T, m)
        BY <3>1, <3>3
      <4> HIDE DEF Last
      <4> QED
        BY <4>1
    <3>4. CASE <<m, x>> \in R
      <4>1. \A y \in U : <<y, x>> \in R
        BY <3>1, <3>2, <3>4
      <4>2. Last(T, x)
        BY <4>1
      <4> HIDE DEF Last
      <4> QED
        BY <4>2
    <3> QED
        BY <3>2, <3>3, <3>4
  <2> QED
    BY <2>3, <2>4
<1>3. Nat \subseteq A
  <2> HIDE DEF A
  <2> QED
    BY <1>1, <1>2, NatSetInduction
<1>4. \E m : Last(S, m)
  <2>1. Cardinality(S) \in Nat /\ S \in SUBSET S
    BY FS_CardinalityType
  <2> HIDE DEF Last
  <2> QED
    BY <2>1, <1>3
<1> QED
    BY <1>4
=============================================================================
