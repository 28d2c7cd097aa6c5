---------------------------- MODULE DataInduction ---------------------------
(***************************************************************************)
(* Induction over numbers and ranks in finite sets, for proofs about loops *)
(* and sorts.  The library's induction principles take an operator; these  *)
(* speak of sets and functions instead.                                    *)
(***************************************************************************)
EXTENDS Integers, FiniteSets, FiniteSetTheorems, TLAPS

-----------------------------------------------------------------------------
(* Loops *)

\* A set of natural numbers has a least element.
LEMMA LeastNat ==
    ASSUME NEW A \in SUBSET Nat, A # {}
    PROVE  \E n \in A : \A m \in A : n <= m
<1> DEFINE Up == {0 .. n : n \in A}
<1>1. \A n \in A : 0 .. n \in FiniteSubsetsOf(Nat)
  <2> TAKE n \in A
  <2>1. n \in Int /\ 0 \in Int
    OBVIOUS
  <2>2. IsFiniteSet(0 .. n)
    BY <2>1, FS_Interval
  <2>3. 0 .. n \in SUBSET Nat
    OBVIOUS
  <2> QED BY <2>2, <2>3, Zenon DEF FiniteSubsetsOf
<1>2. Up # {}
  OBVIOUS
<1>3. IsWellFoundedOn(StrictSubsetOrdering(Nat), FiniteSubsetsOf(Nat))
  BY FS_StrictSubsetOrderingWellFounded
<1>4. PICK u \in Up : \A v \in Up : <<v, u>> \notin StrictSubsetOrdering(Nat)
  <2>1. Up \subseteq FiniteSubsetsOf(Nat)
    BY <1>1, Zenon
  <2> HIDE DEF Up
  <2> QED BY <2>1, <1>2, <1>3, WFMin
<1>5. PICK n \in A : u = 0 .. n
  OBVIOUS
<1>6. ASSUME NEW m \in A, m < n
      PROVE  FALSE
  <2>1. 0 .. m \in SUBSET Nat /\ 0 .. n \in SUBSET Nat
    OBVIOUS
  <2>2. 0 .. m \subseteq 0 .. n
    BY <1>6
  <2>3. n \in 0 .. n /\ n \notin 0 .. m
    BY <1>6
  <2>4. <<0 .. m, 0 .. n>> \in StrictSubsetOrdering(Nat)
    BY <2>1, <2>2, <2>3, Zenon DEF StrictSubsetOrdering
  <2>5. 0 .. m \in Up
    OBVIOUS
  <2> QED BY <1>4, <1>5, <2>4, <2>5, Zenon
<1> QED BY <1>6

\* Induction up to n for a set of numbers.
LEMMA Induct ==
    ASSUME NEW n \in Nat, NEW A, 0 \in A, \A i \in 1 .. n : i - 1 \in A => i \in A
    PROVE  \A i \in 0 .. n : i \in A
<1> DEFINE Bad == {i \in 0 .. n : i \notin A}
<1> SUFFICES ASSUME Bad # {} PROVE FALSE
  OBVIOUS
<1>1. PICK i \in Bad : \A m \in Bad : i <= m
  <2> Bad \in SUBSET Nat
    OBVIOUS
  <2> HIDE DEF Bad
  <2> QED BY LeastNat
<1>2. i # 0 /\ i - 1 \in 0 .. n /\ i \in 1 .. n /\ i - 1 \notin Bad
  BY <1>1
<1> QED BY <1>2

\* f starts from base and makes the n steps.
Follows(f, n, base, step) ==
    f = [i \in 0 .. n |-> IF i = 0 THEN base ELSE step[i][f[i - 1]]]

\* A function that is defined by recursion on 0 .. n exists, and its values have
\* the types that every step hands on.
LEMMA RecursionDefined ==
    ASSUME NEW n \in Nat, NEW base, NEW step, NEW T,
           base \in T[0],
           \A i \in 1 .. n : \A x \in T[i - 1] : step[i][x] \in T[i]
    PROVE  \E f : Follows(f, n, base, step) /\ \A i \in 0 .. n : f[i] \in T[i]
<1> DEFINE Good(k, f) ==
      /\ f = [i \in 0 .. k |-> IF i = 0 THEN base ELSE step[i][f[i - 1]]]
      /\ \A i \in 0 .. k : f[i] \in T[i]
<1> DEFINE A == {k \in 0 .. n : \E f : Good(k, f)}
<1>1. 0 \in A
  <2> DEFINE f == [i \in 0 .. 0 |-> base]
  <2>1. f = [i \in 0 .. 0 |-> IF i = 0 THEN base ELSE step[i][f[i - 1]]]
    OBVIOUS
  <2>2. Good(0, f)
    BY <2>1
  <2> HIDE DEF f
  <2> QED BY <2>2
<1>2. ASSUME NEW k \in 1 .. n, k - 1 \in A PROVE k \in A
  <2> PICK g : Good(k - 1, g)
    BY <1>2
  <2> DEFINE f == [i \in 0 .. k |-> IF i = k THEN step[k][g[k - 1]] ELSE g[i]]
  <2>0. \A i \in 0 .. k - 1 : g[i] = IF i = 0 THEN base ELSE step[i][g[i - 1]]
     <3>1. g = [i \in 0 .. k - 1 |-> IF i = 0 THEN base ELSE step[i][g[i - 1]]]
       OBVIOUS
     <3> HIDE DEF Good
     <3> QED BY <3>1
  <2>1. ASSUME NEW i \in 0 .. k
        PROVE  f[i] = IF i = 0 THEN base ELSE step[i][f[i - 1]]
    <3> HIDE DEF Good
    <3>1. i = k \/ i \in 0 .. k - 1
      OBVIOUS
    <3>2. CASE i = k
      BY <3>2
    <3>3. CASE i \in 0 .. k - 1
      BY <3>3, <2>0
    <3> QED BY <3>1, <3>2, <3>3
  <2>2. f = [i \in 0 .. k |-> IF i = 0 THEN base ELSE step[i][f[i - 1]]]
    BY <2>1
  <2>3. \A i \in 0 .. k : f[i] \in T[i]
    OBVIOUS
  <2>4. Good(k, f)
    BY <2>2, <2>3
  <2> HIDE DEF f
  <2> QED BY <2>4
<1>3. n \in A
  <2> HIDE DEF A
  <2> QED BY <1>1, <1>2, Induct
<1> QED BY <1>3 DEF Follows

-----------------------------------------------------------------------------
(* Sorting a finite set *)

\* The elements of a finite set, each with the set of those before it, have the
\* ranks 0, 1, ... in that order.
LEMMA Ranking ==
    ASSUME NEW S, IsFiniteSet(S), NEW B \in [S -> SUBSET S],
           \A x \in S : x \notin B[x],
           \A x, y \in S : x # y => x \in B[y] \/ y \in B[x],
           \A x, y \in S : x \in B[y] => B[x] \subseteq B[y]
    PROVE  /\ \A x \in S : Cardinality(B[x]) \in 0 .. Cardinality(S) - 1
           /\ \A x, y \in S : x \in B[y] => Cardinality(B[x]) < Cardinality(B[y])
           /\ \A i \in 1 .. Cardinality(S) : \E x \in S : Cardinality(B[x]) = i - 1
<1> DEFINE n == Cardinality(S)
           rank == [x \in S |-> Cardinality(B[x]) + 1]
<1>1. n \in Nat
  BY FS_CardinalityType
<1>2. ASSUME NEW T \in SUBSET S
      PROVE  IsFiniteSet(T) /\ Cardinality(T) \in Nat /\ Cardinality(T) <= n
             /\ (Cardinality(T) = n => T = S)
  BY FS_Subset, FS_CardinalityType
<1>3. ASSUME NEW x \in S
      PROVE  Cardinality(B[x]) \in 0 .. n - 1
  <2>1. B[x] \in SUBSET S /\ B[x] # S
    OBVIOUS
  <2> QED BY <1>1, <1>2, <2>1
<1>4. ASSUME NEW x \in S, NEW y \in S, x \in B[y]
      PROVE  Cardinality(B[x]) < Cardinality(B[y])
  <2>1. /\ B[x] \in SUBSET B[y] /\ B[x] # B[y]
        /\ B[x] \in SUBSET S /\ B[y] \in SUBSET S
    BY <1>4
  <2>2. IsFiniteSet(B[y]) /\ Cardinality(B[x]) \in Nat /\ Cardinality(B[y]) \in Nat
    BY <1>2, <2>1
  <2>3. Cardinality(B[x]) <= Cardinality(B[y]) /\ Cardinality(B[x]) # Cardinality(B[y])
    BY <2>1, <2>2, FS_Subset
  <2> QED BY <2>2, <2>3
<1>5. rank \in Injection(S, 1 .. n)
  <2>1. rank \in [S -> 1 .. n]
    BY <1>1, <1>3
  <2>2. ASSUME NEW x \in S, NEW y \in S, rank[x] = rank[y]
        PROVE  x = y
    BY <1>3, <1>4, <2>2
  <2> QED BY <2>1, <2>2 DEF Injection, IsInjective
<1>6. rank \in Surjection(S, 1 .. n)
  <2>1. IsFiniteSet(1 .. n) /\ Cardinality(1 .. n) = n
    BY <1>1, FS_Interval
  <2> HIDE DEF rank
  <2> QED BY <1>5, <2>1, FS_Injection
<1>7. ASSUME NEW i \in 1 .. n
      PROVE  \E x \in S : Cardinality(B[x]) = i - 1
  <2>1. PICK x \in S : rank[x] = i
    BY <1>6 DEF Surjection
  <2> QED BY <1>3, <2>1
<1> QED BY <1>3, <1>4, <1>7

\* The sequence that has every element at the place after those before it.
LEMMA Sorting ==
    ASSUME NEW S, IsFiniteSet(S), NEW B \in [S -> SUBSET S],
           \A x \in S : x \notin B[x],
           \A x, y \in S : x # y => x \in B[y] \/ y \in B[x],
           \A x, y \in S : x \in B[y] => B[x] \subseteq B[y],
           NEW s, s = [i \in 1 .. Cardinality(S) |-> s[i]],
           \A i \in 1 .. Cardinality(S) :
              (\E x \in S : Cardinality(B[x]) = i - 1)
                 => s[i] \in S /\ Cardinality(B[s[i]]) = i - 1
    PROVE  /\ Cardinality(S) \in Nat
           /\ s \in [1 .. Cardinality(S) -> S]
           /\ \A i \in 1 .. Cardinality(S) : Cardinality(B[s[i]]) = i - 1
           /\ \A x \in S : /\ Cardinality(B[x]) + 1 \in 1 .. Cardinality(S)
                           /\ s[Cardinality(B[x]) + 1] = x
           /\ \A i, j \in 1 .. Cardinality(S) : s[i] \in B[s[j]] <=> i < j
<1> DEFINE n == Cardinality(S)
<1>1. n \in Nat
  BY FS_CardinalityType
<1>2. /\ \A x \in S : Cardinality(B[x]) \in 0 .. n - 1
      /\ \A x, y \in S : x \in B[y] => Cardinality(B[x]) < Cardinality(B[y])
      /\ \A i \in 1 .. n : \E x \in S : Cardinality(B[x]) = i - 1
  BY Ranking
<1>3. ASSUME NEW i \in 1 .. n
      PROVE  s[i] \in S /\ Cardinality(B[s[i]]) = i - 1
  <2>1. \E x \in S : Cardinality(B[x]) = i - 1
    BY <1>2
  <2> QED BY <2>1
<1>4. ASSUME NEW x \in S, NEW y \in S, Cardinality(B[x]) = Cardinality(B[y])
      PROVE  x = y
  <2>1. Cardinality(B[x]) \in 0 .. n - 1
    BY <1>2
  <2>2. ~(Cardinality(B[x]) < Cardinality(B[y])) /\ ~(Cardinality(B[y]) < Cardinality(B[x]))
    BY <1>1, <1>4, <2>1
  <2> QED BY <1>2, <2>2
<1>5. ASSUME NEW x \in S
      PROVE  Cardinality(B[x]) + 1 \in 1 .. n /\ s[Cardinality(B[x]) + 1] = x
  <2>1. Cardinality(B[x]) \in 0 .. n - 1
    BY <1>2
  <2>2. PICK i \in 1 .. n : i = Cardinality(B[x]) + 1 /\ i - 1 = Cardinality(B[x])
    BY <1>1, <2>1
  <2>3. s[i] \in S /\ Cardinality(B[s[i]]) = Cardinality(B[x])
    BY <1>3, <2>2
  <2>4. s[i] = x
    BY <1>4, <2>3
  <2> HIDE DEF n
  <2> QED BY <2>2, <2>4
<1>6. ASSUME NEW i \in 1 .. n, NEW j \in 1 .. n
      PROVE  s[i] \in B[s[j]] <=> i < j
  <2>1. /\ s[i] \in S /\ s[j] \in S
        /\ Cardinality(B[s[i]]) = i - 1 /\ Cardinality(B[s[j]]) = j - 1
    BY <1>3
  <2>2. s[i] \in B[s[j]] => i - 1 < j - 1
    BY <1>2, <2>1
  <2>3. s[j] \in B[s[i]] => j - 1 < i - 1
    BY <1>2, <2>1
  <2>4. s[i] = s[j] \/ s[i] \in B[s[j]] \/ s[j] \in B[s[i]]
    BY <2>1
  <2>5. s[i] = s[j] => i - 1 = j - 1
    BY <2>1
  <2> QED BY <2>2, <2>3, <2>4, <2>5, <1>1
<1>7. s \in [1 .. n -> S]
  BY <1>3
<1> QED BY <1>1, <1>3, <1>5, <1>6, <1>7

-----------------------------------------------------------------------------
(* Sums over finite sets *)

\* What holds of the empty set and of a set when it holds without one of its
\* elements holds of every finite set.
LEMMA InductSubsets ==
    ASSUME NEW S, IsFiniteSet(S), NEW A, {} \in A,
           \A T \in SUBSET S : T # {} /\ (\A x \in T : T \ {x} \in A) => T \in A
    PROVE  \A T \in SUBSET S : T \in A
<1> DEFINE n == Cardinality(S)
           B == {i \in 0 .. n : \A T \in SUBSET S : Cardinality(T) = i => T \in A}
<1>1. n \in Nat
  BY FS_CardinalityType
<1>2. \A T \in SUBSET S : IsFiniteSet(T) /\ Cardinality(T) \in 0 .. n
  <2> SUFFICES ASSUME NEW T \in SUBSET S PROVE IsFiniteSet(T) /\ Cardinality(T) \in 0 .. n
    OBVIOUS
  <2>1. IsFiniteSet(T) /\ Cardinality(T) <= n
    BY FS_Subset
  <2>2. Cardinality(T) \in Nat
    BY <2>1, FS_CardinalityType
  <2> QED BY <1>1, <2>1, <2>2
<1>3. \A T \in SUBSET S : Cardinality(T) = 0 <=> T = {}
  BY <1>2, FS_EmptySet
<1>4. \A T \in SUBSET S : \A x \in T :
         T \ {x} \in SUBSET S /\ Cardinality(T \ {x}) = Cardinality(T) - 1
  BY <1>2, FS_RemoveElement
<1> HIDE DEF n
<1>5. 0 \in B
  <2>1. 0 \in 0 .. n
    BY <1>1
  <2>2. \A T \in SUBSET S : Cardinality(T) = 0 => T \in A
    BY <1>3
  <2> QED BY <2>1, <2>2
<1>6. ASSUME NEW i \in 1 .. n, i - 1 \in B
      PROVE  i \in B
  <2> SUFFICES ASSUME NEW T \in SUBSET S, Cardinality(T) = i
               PROVE  T \in A
    BY <1>1
  <2>1. \A x \in T : T \ {x} \in A
    BY <1>4, <1>6
  <2>2. T # {}
    BY <1>1, <1>3
  <2> QED BY <2>1, <2>2
<1>7. \A i \in 0 .. n : i \in B
  <2> HIDE DEF B
  <2> QED BY <1>1, <1>5, <1>6, Induct
<1> QED BY <1>2, <1>7

\* h has the sum of every subset of S.
IsSum(h, g, S) ==
    /\ h \in [SUBSET S -> Int]
    /\ h[{}] = 0
    /\ \A T \in SUBSET S : \A x \in T : h[T] = h[T \ {x}] + g[x]

SumOf(S, g) == CHOOSE v : \E h : IsSum(h, g, S) /\ v = h[S]

\* Every finite set of numbers has a sum.
LEMMA SumExists ==
    ASSUME NEW S, IsFiniteSet(S), NEW g, \A x \in S : g[x] \in Int
    PROVE  \E h : IsSum(h, g, S)
<1> DEFINE n == Cardinality(S)
<1>1. n \in Nat /\ ExistsBijection(1 .. n, S)
  BY FS_CardinalityType
<1>2. PICK e \in [1 .. n -> S] : /\ \A i, j \in 1 .. n : e[i] = e[j] => i = j
                                 /\ \A x \in S : \E i \in 1 .. n : e[i] = x
  BY <1>1, Zenon DEF ExistsBijection, Bijection, Injection, IsInjective, Surjection
<1> HIDE DEF n
<1> DEFINE base == [T \in SUBSET S |-> 0]
           more(i, h) == [T \in SUBSET S |-> h[T] + IF e[i] \in T THEN g[e[i]] ELSE 0]
           Upto(i, h) ==
              /\ h \in [SUBSET S -> Int]
              /\ h[{}] = 0
              /\ \A T \in SUBSET S : \A m \in 1 .. n :
                    e[m] \in T => h[T] = h[T \ {e[m]}] + IF m <= i THEN g[e[m]] ELSE 0
           types == [i \in 0 .. n |-> {h \in [SUBSET S -> Int] : Upto(i, h)}]
           step == [i \in 1 .. n |-> [h \in [SUBSET S -> Int] |-> more(i, h)]]
<1>3. base \in types[0]
  <2>1. Upto(0, base)
    <3>1. base \in [SUBSET S -> Int] /\ base[{}] = 0
      OBVIOUS
    <3>2. ASSUME NEW T \in SUBSET S, NEW m \in 1 .. n
          PROVE  base[T] = base[T \ {e[m]}] + IF m <= 0 THEN g[e[m]] ELSE 0
      <4>1. T \ {e[m]} \in SUBSET S /\ ~(m <= 0)
        BY <1>1
      <4>2. base[T] = 0 /\ base[T \ {e[m]}] = 0
        BY <4>1
      <4> HIDE DEF base
      <4> QED BY <4>1, <4>2
    <3> HIDE DEF base
    <3> QED BY <3>1, <3>2
  <2> HIDE DEF base, Upto
  <2> QED BY <1>1, <2>1 DEF Upto
<1>4. ASSUME NEW i \in 1 .. n, NEW h \in types[i - 1]
      PROVE  step[i][h] \in types[i]
  <2>0. i - 1 \in 0 .. n /\ i \in 0 .. n
    BY <1>1
  <2>1. h \in [SUBSET S -> Int] /\ Upto(i - 1, h)
    <3> HIDE DEF Upto
    <3> QED BY <2>0, <1>4
  <2> DEFINE k == more(i, h)
             w(T) == IF e[i] \in T THEN g[e[i]] ELSE 0
  <2>2. \A T \in SUBSET S : w(T) \in Int
    BY <1>2
  <2>3. \A T \in SUBSET S : k[T] = h[T] + w(T)
    OBVIOUS
  <2>4. k \in [SUBSET S -> Int] /\ k[{}] = 0
    <3>1. k[{}] = h[{}] + w({}) /\ w({}) = 0
      BY <2>3
    <3>2. h[{}] = 0
      BY <2>1
    <3>3. k[{}] = 0
      BY <3>1, <3>2
    <3> HIDE DEF w
    <3>4. k \in [SUBSET S -> Int]
      BY <2>1, <2>2, <2>3
    <3> QED BY <3>3, <3>4
  <2>5. ASSUME NEW T \in SUBSET S, NEW m \in 1 .. n, e[m] \in T
        PROVE  k[T] = k[T \ {e[m]}] + IF m <= i THEN g[e[m]] ELSE 0
    <3> DEFINE R == T \ {e[m]}
    <3>1. R \in SUBSET S /\ h[R] \in Int /\ h[T] \in Int /\ g[e[m]] \in Int
      BY <1>2, <2>1
    <3>2. h[T] = h[R] + IF m <= i - 1 THEN g[e[m]] ELSE 0
      BY <2>1, <2>5
    <3>3. k[T] = h[T] + w(T) /\ k[R] = h[R] + w(R)
      BY <2>3, <3>1
    <3>4. m = i => w(T) = g[e[m]] /\ w(R) = 0
      BY <2>5
    <3>5. m # i => w(T) = w(R)
      BY <1>2
    <3>6. (m = i => m <= i /\ ~(m <= i - 1)) /\ (m # i => (m <= i <=> m <= i - 1))
      BY <1>1
    <3>7. w(T) \in Int /\ w(R) \in Int
      BY <2>2, <3>1
    <3> HIDE DEF w, k, R
    <3> QED BY <3>1, <3>2, <3>3, <3>4, <3>5, <3>6, <3>7 DEF R
  <2> HIDE DEF k
  <2>6. Upto(i, k)
    BY <2>4, <2>5
  <2>7. step[i][h] = k
    BY <2>1 DEF k
  <2> HIDE DEF Upto, step
  <2> QED BY <2>0, <2>4, <2>6, <2>7
<1>5. PICK f : Follows(f, n, base, step) /\ \A i \in 0 .. n : f[i] \in types[i]
  <2> HIDE DEF base, step, types
  <2> QED BY <1>1, <1>3, <1>4, RecursionDefined
<1>6. Upto(n, f[n])
  <2> HIDE DEF Upto
  <2> QED BY <1>1, <1>5
<1>7. IsSum(f[n], g, S)
  <2>1. ASSUME NEW T \in SUBSET S, NEW x \in T
        PROVE  f[n][T] = f[n][T \ {x}] + g[x]
    <3>1. PICK m \in 1 .. n : e[m] = x
      BY <1>2
    <3>2. m <= n
      BY <1>1
    <3> QED BY <1>6, <3>1, <3>2
  <2> QED BY <1>6, <2>1 DEF IsSum
<1> QED BY <1>7

\* There is one sum, whatever the order: the sums of two functions that agree on
\* a set agree on it.
LEMMA SumUnique ==
    ASSUME NEW S, NEW h, NEW g, IsSum(h, g, S),
           NEW R, NEW k, NEW f, IsSum(k, f, R),
           NEW T, T \subseteq S, T \subseteq R, IsFiniteSet(T), \A x \in T : g[x] = f[x]
    PROVE  h[T] = k[T]
<1> DEFINE A == {U \in SUBSET T : h[U] = k[U]}
<1>1. {} \in A
  BY DEF IsSum
<1>2. ASSUME NEW U \in SUBSET T, U # {}, \A x \in U : U \ {x} \in A
      PROVE  U \in A
  <2>1. PICK x \in U : TRUE
    BY <1>2
  <2>2. h[U \ {x}] = k[U \ {x}] /\ g[x] = f[x]
    BY <1>2
  <2>3. U \in SUBSET S /\ U \in SUBSET R
    OBVIOUS
  <2>4. h[U] = h[U \ {x}] + g[x] /\ k[U] = k[U \ {x}] + f[x]
    BY <2>3 DEF IsSum
  <2>5. h[U] = k[U]
    BY <2>2, <2>4
  <2> QED BY <2>5
<1>3. T \in A
  <2> HIDE DEF A
  <2>1. \A U \in SUBSET T : U \in A
    BY <1>1, <1>2, InductSubsets
  <2> QED BY <2>1
<1> QED BY <1>3

\* The sum of a finite set is a number; an element can be taken from it.
LEMMA SumRules ==
    ASSUME NEW S, IsFiniteSet(S), NEW g, \A x \in S : g[x] \in Int
    PROVE  /\ SumOf({}, g) = 0
           /\ \A T \in SUBSET S : SumOf(T, g) \in Int
           /\ \A T \in SUBSET S : \A x \in T : SumOf(T, g) = SumOf(T \ {x}, g) + g[x]
           /\ IsSum([T \in SUBSET S |-> SumOf(T, g)], g, S)
<1>1. PICK h : IsSum(h, g, S)
  BY SumExists
<1>2. ASSUME NEW T \in SUBSET S
      PROVE  SumOf(T, g) = h[T]
  <2>1. IsFiniteSet(T) /\ \A x \in T : g[x] \in Int
    BY FS_Subset
  <2>2. PICK k : IsSum(k, g, T)
    BY <2>1, SumExists
  <2>3. ASSUME NEW l, IsSum(l, g, T)
        PROVE  l[T] = h[T]
    BY <1>1, <2>1, <2>3, SumUnique
  <2>4. \E v : \E l : IsSum(l, g, T) /\ v = l[T]
    BY <2>2
  <2>5. \E l : IsSum(l, g, T) /\ SumOf(T, g) = l[T]
    BY <2>4 DEF SumOf
  <2> QED BY <2>3, <2>5
<1>3. h \in [SUBSET S -> Int] /\ h[{}] = 0
      /\ \A T \in SUBSET S : \A x \in T : h[T] = h[T \ {x}] + g[x]
  BY <1>1 DEF IsSum
<1>4. SumOf({}, g) = 0 /\ \A T \in SUBSET S : SumOf(T, g) \in Int
  BY <1>2, <1>3
<1>5. ASSUME NEW T \in SUBSET S, NEW x \in T
      PROVE  SumOf(T, g) = SumOf(T \ {x}, g) + g[x]
  <2>1. T \ {x} \in SUBSET S
    OBVIOUS
  <2>2. SumOf(T, g) = h[T] /\ SumOf(T \ {x}, g) = h[T \ {x}]
    BY <1>2, <2>1
  <2> QED BY <1>3, <2>2
<1>6. [T \in SUBSET S |-> SumOf(T, g)] = h
  BY <1>2, <1>3
<1> QED BY <1>1, <1>4, <1>5, <1>6

\* The functions only matter on the set.
LEMMA SumAgrees ==
    ASSUME NEW S, IsFiniteSet(S), NEW g, NEW f,
           \A x \in S : g[x] \in Int /\ g[x] = f[x]
    PROVE  SumOf(S, g) = SumOf(S, f)
<1>1. IsSum([T \in SUBSET S |-> SumOf(T, g)], g, S)
  BY SumRules
<1>2. IsSum([T \in SUBSET S |-> SumOf(T, f)], f, S)
  <2>1. \A x \in S : f[x] \in Int
    OBVIOUS
  <2> QED BY <2>1, SumRules
<1>3. [T \in SUBSET S |-> SumOf(T, g)][S] = [T \in SUBSET S |-> SumOf(T, f)][S]
  BY <1>1, <1>2, SumUnique
<1> QED BY <1>3

\* The fold of the community modules takes one element after the other.
Iterated(S, g, it) ==
    it = [T \in SUBSET S |-> IF T = {} THEN 0
                             ELSE g[CHOOSE x \in T : TRUE] + it[T \ {CHOOSE x \in T : TRUE}]]

\* In whatever order the elements are chosen, that fold is the sum.
LEMMA IterationSums ==
    ASSUME NEW S, IsFiniteSet(S), NEW g, \A x \in S : g[x] \in Int
    PROVE  /\ \E it : Iterated(S, g, it)
           /\ \A it : Iterated(S, g, it) => it[S] = SumOf(S, g)
<1> DEFINE h == [T \in SUBSET S |-> SumOf(T, g)]
<1>1. IsSum(h, g, S)
  BY SumRules
<1>2. h \in [SUBSET S -> Int] /\ h[{}] = 0
      /\ \A T \in SUBSET S : \A x \in T : h[T] = h[T \ {x}] + g[x]
  BY <1>1 DEF IsSum
<1>3. h[S] = SumOf(S, g) /\ h = [T \in SUBSET S |-> h[T]]
  OBVIOUS
<1> HIDE DEF h
<1> DEFINE pick(T) == CHOOSE x \in T : TRUE
<1>4. \A T \in SUBSET S : T # {} => pick(T) \in T /\ T \ {pick(T)} \in SUBSET S
  OBVIOUS
<1> HIDE DEF pick
<1>5. ASSUME NEW T \in SUBSET S
      PROVE  h[T] = IF T = {} THEN 0 ELSE g[pick(T)] + h[T \ {pick(T)}]
  <2>1. T # {} => h[T] = h[T \ {pick(T)}] + g[pick(T)]
    BY <1>2, <1>4
  <2>2. T # {} => h[T \ {pick(T)}] \in Int /\ g[pick(T)] \in Int
    BY <1>2, <1>4
  <2>3. T # {} => h[T] = g[pick(T)] + h[T \ {pick(T)}]
    BY <2>1, <2>2
  <2>4. T = {} => h[T] = 0
    BY <1>2
  <2> QED BY <2>3, <2>4
<1>6. Iterated(S, g, h)
  BY <1>3, <1>5 DEF Iterated, pick
<1>7. ASSUME NEW it, Iterated(S, g, it)
      PROVE  it[S] = h[S]
  <2> DEFINE A == {T \in SUBSET S : it[T] = h[T]}
  <2>1. \A T \in SUBSET S : it[T] = IF T = {} THEN 0 ELSE g[pick(T)] + it[T \ {pick(T)}]
    BY <1>7 DEF Iterated, pick
  <2>2. {} \in A
    BY <1>2, <2>1
  <2>3. ASSUME NEW T \in SUBSET S, T # {}, \A x \in T : T \ {x} \in A
        PROVE  T \in A
    <3>1. it[T \ {pick(T)}] = h[T \ {pick(T)}]
      BY <1>4, <2>3
    <3> QED BY <1>5, <2>1, <2>3, <3>1
  <2>4. S \in A
    <3> HIDE DEF A
    <3>1. \A T \in SUBSET S : T \in A
      BY <2>2, <2>3, InductSubsets
    <3> QED BY <3>1
  <2> QED BY <2>4
<1> QED BY <1>3, <1>6, <1>7

\* Two disjoint sets.
LEMMA SumSplits ==
    ASSUME NEW S, IsFiniteSet(S), NEW g, \A x \in S : g[x] \in Int,
           NEW T \in SUBSET S
    PROVE  SumOf(S, g) = SumOf(T, g) + SumOf(S \ T, g)
<1> DEFINE A == {U \in SUBSET T : SumOf(U \cup (S \ T), g) = SumOf(U, g) + SumOf(S \ T, g)}
<1>1. /\ SumOf({}, g) = 0
      /\ \A U \in SUBSET S : SumOf(U, g) \in Int
      /\ \A U \in SUBSET S : \A x \in U : SumOf(U, g) = SumOf(U \ {x}, g) + g[x]
  BY SumRules
<1>2. {} \in A
  <2>1. {} \cup (S \ T) = S \ T /\ S \ T \in SUBSET S
    OBVIOUS
  <2> QED BY <1>1, <2>1
<1>3. ASSUME NEW U \in SUBSET T, U # {}, \A x \in U : U \ {x} \in A
      PROVE  U \in A
  <2>1. PICK x \in U : TRUE
    BY <1>3
  <2> DEFINE R == S \ T
             V == U \ {x}
  <2>2. (U \cup R) \ {x} = V \cup R /\ U \cup R \in SUBSET S /\ x \in U \cup R
        /\ R \in SUBSET S /\ V \in SUBSET S /\ V \cup R \in SUBSET S /\ U \in SUBSET S
    OBVIOUS
  <2>3. SumOf(V \cup R, g) = SumOf(V, g) + SumOf(R, g)
    BY <1>3
  <2>4. SumOf(U \cup R, g) = SumOf(V \cup R, g) + g[x]
    BY <1>1, <2>2
  <2>5. SumOf(U, g) = SumOf(V, g) + g[x]
    BY <1>1, <2>2
  <2>6. SumOf(V, g) \in Int /\ SumOf(R, g) \in Int /\ g[x] \in Int
    BY <1>1, <2>2
  <2>7. SumOf(U \cup R, g) = SumOf(U, g) + SumOf(R, g)
    <3> HIDE DEF V, R
    <3> QED BY <2>3, <2>4, <2>5, <2>6
  <2> QED BY <2>7
<1>4. T \in A
  <2> HIDE DEF A
  <2>1. IsFiniteSet(T)
    BY FS_Subset
  <2>2. \A U \in SUBSET T : U \in A
    BY <1>2, <1>3, <2>1, InductSubsets
  <2> QED BY <2>2
<1>5. T \cup (S \ T) = S
  OBVIOUS
<1> QED BY <1>4, <1>5

\* The larger terms have the larger sum.
LEMMA SumOrder ==
    ASSUME NEW S, IsFiniteSet(S), NEW g, NEW f,
           \A x \in S : g[x] \in Int /\ f[x] \in Int /\ g[x] <= f[x]
    PROVE  SumOf(S, g) <= SumOf(S, f)
<1> DEFINE A == {U \in SUBSET S : SumOf(U, g) <= SumOf(U, f)}
<1>0. (\A x \in S : g[x] \in Int) /\ (\A x \in S : f[x] \in Int)
  OBVIOUS
<1>1. /\ SumOf({}, g) = 0
      /\ \A U \in SUBSET S : SumOf(U, g) \in Int
      /\ \A U \in SUBSET S : \A x \in U : SumOf(U, g) = SumOf(U \ {x}, g) + g[x]
  BY <1>0, SumRules
<1>2. /\ SumOf({}, f) = 0
      /\ \A U \in SUBSET S : SumOf(U, f) \in Int
      /\ \A U \in SUBSET S : \A x \in U : SumOf(U, f) = SumOf(U \ {x}, f) + f[x]
  BY <1>0, SumRules
<1>3. {} \in A
  BY <1>1, <1>2
<1>4. ASSUME NEW U \in SUBSET S, U # {}, \A x \in U : U \ {x} \in A
      PROVE  U \in A
  <2>1. PICK x \in U : TRUE
    BY <1>4
  <2> DEFINE V == U \ {x}
  <2>2. SumOf(V, g) <= SumOf(V, f) /\ V \in SUBSET S
    BY <1>4
  <2>3. SumOf(U, g) = SumOf(V, g) + g[x] /\ SumOf(U, f) = SumOf(V, f) + f[x]
    BY <1>1, <1>2
  <2>4. /\ SumOf(V, g) \in Int /\ SumOf(V, f) \in Int
        /\ g[x] \in Int /\ f[x] \in Int /\ g[x] <= f[x]
    BY <1>1, <1>2, <2>2
  <2>5. SumOf(U, g) <= SumOf(U, f)
    <3> HIDE DEF V
    <3> QED BY <2>2, <2>3, <2>4
  <2> QED BY <2>5
<1>5. S \in A
  <2> HIDE DEF A
  <2>1. \A U \in SUBSET S : U \in A
    BY <1>3, <1>4, InductSubsets
  <2> QED BY <2>1
<1> QED BY <1>5

\* A sum of nothing but zeros.
LEMMA SumOfZeros ==
    ASSUME NEW S, IsFiniteSet(S), NEW g, \A x \in S : g[x] = 0
    PROVE  SumOf(S, g) = 0
<1> DEFINE A == {U \in SUBSET S : SumOf(U, g) = 0}
<1>1. /\ SumOf({}, g) = 0
      /\ \A U \in SUBSET S : \A x \in U : SumOf(U, g) = SumOf(U \ {x}, g) + g[x]
  <2>1. \A x \in S : g[x] \in Int
    OBVIOUS
  <2> QED BY <2>1, SumRules
<1>2. {} \in A
  BY <1>1
<1>3. ASSUME NEW U \in SUBSET S, U # {}, \A x \in U : U \ {x} \in A
      PROVE  U \in A
  <2>1. PICK x \in U : TRUE
    BY <1>3
  <2>2. SumOf(U \ {x}, g) = 0 /\ g[x] = 0
    BY <1>3
  <2> QED BY <1>1, <2>2
<1>4. S \in A
  <2> HIDE DEF A
  <2>1. \A U \in SUBSET S : U \in A
    BY <1>2, <1>3, InductSubsets
  <2> QED BY <2>1
<1> QED BY <1>4

\* The sum over some of the elements counts the others as nothing.
LEMMA SumFilter ==
    ASSUME NEW S, IsFiniteSet(S), NEW T \in SUBSET S, NEW g, \A x \in T : g[x] \in Int
    PROVE  SumOf(T, g) = SumOf(S, [x \in S |-> IF x \in T THEN g[x] ELSE 0])
<1> DEFINE f == [x \in S |-> IF x \in T THEN g[x] ELSE 0]
<1>1. /\ \A x \in S : f[x] \in Int
      /\ \A x \in T : f[x] = g[x]
      /\ \A x \in S \ T : f[x] = 0
  OBVIOUS
<1>2. IsFiniteSet(T) /\ IsFiniteSet(S \ T) /\ S \ T \in SUBSET S
  BY FS_Subset
<1> HIDE DEF f
<1>3. SumOf(S, f) = SumOf(T, f) + SumOf(S \ T, f)
  BY <1>1, SumSplits
<1>4. SumOf(S \ T, f) = 0
  BY <1>1, <1>2, SumOfZeros
<1>5. SumOf(T, g) = SumOf(T, f)
  <2>1. \A x \in T : g[x] \in Int /\ g[x] = f[x]
    BY <1>1
  <2> QED BY <1>2, <2>1, SumAgrees
<1>6. SumOf(T, f) \in Int
  BY <1>1, SumRules
<1> QED BY <1>3, <1>4, <1>5, <1>6 DEF f

\* Sums over intervals.
LEMMA SumInterval ==
    ASSUME NEW a \in Int, NEW b \in Int, NEW g, \A x \in a .. b : g[x] \in Int
    PROVE  /\ SumOf(a .. b, g) \in Int
           /\ b < a => SumOf(a .. b, g) = 0
           /\ a <= b => /\ SumOf(a .. b, g) = SumOf(a .. b - 1, g) + g[b]
                        /\ SumOf(a .. b, g) = SumOf(a + 1 .. b, g) + g[a]
           /\ \A m \in a - 1 .. b :
                 SumOf(a .. b, g) = SumOf(a .. m, g) + SumOf(m + 1 .. b, g)
<1>1. IsFiniteSet(a .. b)
  BY FS_Interval
<1>2. /\ SumOf({}, g) = 0
      /\ \A U \in SUBSET (a .. b) : SumOf(U, g) \in Int
      /\ \A U \in SUBSET (a .. b) : \A x \in U : SumOf(U, g) = SumOf(U \ {x}, g) + g[x]
  BY <1>1, SumRules
<1>3. b < a => a .. b = {}
  OBVIOUS
<1>4. ASSUME a <= b
      PROVE  /\ a \in a .. b /\ b \in a .. b
             /\ (a .. b) \ {b} = a .. b - 1 /\ (a .. b) \ {a} = a + 1 .. b
  BY <1>4
<1>5. ASSUME NEW m \in a - 1 .. b
      PROVE  SumOf(a .. b, g) = SumOf(a .. m, g) + SumOf(m + 1 .. b, g)
  <2>1. a .. m \in SUBSET (a .. b) /\ (a .. b) \ (a .. m) = m + 1 .. b
    OBVIOUS
  <2>2. SumOf(a .. b, g) = SumOf(a .. m, g) + SumOf((a .. b) \ (a .. m), g)
    BY <1>1, <2>1, SumSplits
  <2> QED BY <2>1, <2>2
<1>6. a .. b \in SUBSET (a .. b)
  OBVIOUS
<1>7. SumOf(a .. b, g) \in Int
  BY <1>2, <1>6
<1>8. b < a => SumOf(a .. b, g) = 0
  BY <1>2, <1>3
<1>9. a <= b => /\ SumOf(a .. b, g) = SumOf(a .. b - 1, g) + g[b]
                /\ SumOf(a .. b, g) = SumOf(a + 1 .. b, g) + g[a]
  BY <1>2, <1>4, <1>6
<1> QED BY <1>5, <1>7, <1>8, <1>9

\* One more term.
LEMMA SumSteps ==
    ASSUME NEW n \in Nat, NEW g, NEW f,
           \A k \in 1 .. n : g[k] \in Int /\ f[k] = g[k],
           f[n + 1] \in Int
    PROVE  SumOf(1 .. n + 1, f) = SumOf(1 .. n, g) + f[n + 1]
<1>1. \A k \in 1 .. n + 1 : f[k] \in Int
  <2>1. \A k \in 1 .. n + 1 : k \in 1 .. n \/ k = n + 1
    OBVIOUS
  <2> QED BY <2>1
<1>2. 1 <= n + 1 /\ n + 1 - 1 = n /\ n + 1 \in Int
  OBVIOUS
<1>3. SumOf(1 .. n + 1, f) = SumOf(1 .. n + 1 - 1, f) + f[n + 1]
  BY <1>1, <1>2, SumInterval
<1>4. SumOf(1 .. n, f) = SumOf(1 .. n, g)
  <2>1. IsFiniteSet(1 .. n) /\ \A k \in 1 .. n : f[k] \in Int /\ f[k] = g[k]
    BY FS_Interval
  <2> QED BY <2>1, SumAgrees
<1> QED BY <1>2, <1>3, <1>4

\* A row of pairs adds up like an interval.
LEMMA SumRow ==
    ASSUME NEW n \in Nat, NEW l, NEW g, \A i \in 1 .. n : g[<<l, i>>] \in Int
    PROVE  LET row == {<<l, i>> : i \in 1 .. n} IN
           /\ IsFiniteSet(row)
           /\ SumOf(row, g) = SumOf(1 .. n, [i \in 1 .. n |-> g[<<l, i>>]])
<1> DEFINE row(k) == {<<l, i>> : i \in 1 .. k}
           h == [i \in 1 .. n |-> g[<<l, i>>]]
           f == [i \in 1 .. n |-> <<l, i>>]
           A == {k \in 0 .. n : SumOf(row(k), g) = SumOf(1 .. k, h)}
<1>1. IsFiniteSet(row(n))
  <2>1. IsFiniteSet(1 .. n)
    BY FS_Interval
  <2>2. f \in Surjection(1 .. n, row(n))
    BY DEF Surjection
  <2> HIDE DEF f, row
  <2> QED BY <2>1, <2>2, FS_Surjection
<1>2. \A p \in row(n) : g[p] \in Int
  OBVIOUS
<1>3. \A i \in 1 .. n : h[i] = g[<<l, i>>] /\ h[i] \in Int
  OBVIOUS
<1> HIDE DEF h, f
<1>4. 0 \in A
  <2>1. \A q : SumOf({}, q) = 0
    BY SumRules, FS_EmptySet
  <2>2. row(0) = {} /\ 1 .. 0 = {}
    OBVIOUS
  <2> HIDE DEF row
  <2> QED BY <2>1, <2>2
<1>5. ASSUME NEW k \in 1 .. n, k - 1 \in A
      PROVE  k \in A
  <2>1. row(k) \in SUBSET row(n) /\ <<l, k>> \in row(k) /\ row(k) \ {<<l, k>>} = row(k - 1)
    OBVIOUS
  <2> HIDE DEF row
  <2>2. SumOf(row(k), g) = SumOf(row(k - 1), g) + g[<<l, k>>]
    <3>1. SumOf(row(k), g) = SumOf(row(k) \ {<<l, k>>}, g) + g[<<l, k>>]
      BY <1>1, <1>2, <2>1, SumRules
    <3> QED BY <2>1, <3>1
  <2>3. SumOf(1 .. k, h) = SumOf(1 .. k - 1, h) + h[k]
    <3>0. \A i \in 1 .. k : i \in 1 .. n
      OBVIOUS
    <3>1. \A i \in 1 .. k : h[i] \in Int
      BY <1>3, <3>0
    <3>2. 1 \in Int /\ k \in Int /\ 1 <= k
      OBVIOUS
    <3> QED BY <3>1, <3>2, SumInterval
  <2>4. SumOf(row(k - 1), g) = SumOf(1 .. k - 1, h) /\ k \in 0 .. n
    BY <1>5
  <2> QED BY <1>3, <2>2, <2>3, <2>4
<1>6. n \in A
  <2> HIDE DEF A
  <2>1. \A i \in 0 .. n : i \in A
    BY <1>4, <1>5, Induct
  <2> QED BY <2>1
<1> QED BY <1>1, <1>6 DEF h

\* Rows added up one by one.
LEMMA SumRows ==
    ASSUME NEW D, IsFiniteSet(D), NEW n, \A l \in D : n[l] \in Nat,
           NEW g, \A l \in D : \A i \in 1 .. n[l] : g[<<l, i>>] \in Int
    PROVE  LET all == UNION {{<<l, i>> : i \in 1 .. n[l]} : l \in D}
               sums == [l \in D |-> SumOf(1 .. n[l], [i \in 1 .. n[l] |-> g[<<l, i>>]])]
           IN  /\ IsFiniteSet(all)
               /\ \A l \in D : sums[l] \in Int
               /\ SumOf(all, g) = SumOf(D, sums)
<1> DEFINE row(l) == {<<l, i>> : i \in 1 .. n[l]}
           pairs(T) == UNION {row(l) : l \in T}
           sums == [l \in D |-> SumOf(1 .. n[l], [i \in 1 .. n[l] |-> g[<<l, i>>]])]
           A == {T \in SUBSET D : IsFiniteSet(pairs(T)) /\ SumOf(pairs(T), g) = SumOf(T, sums)}
<1>1. ASSUME NEW l \in D
      PROVE  IsFiniteSet(row(l)) /\ sums[l] = SumOf(row(l), g) /\ \A p \in row(l) : g[p] \in Int
  BY SumRow
<1>2. \A l \in D : sums[l] \in Int
  <2> SUFFICES ASSUME NEW l \in D PROVE sums[l] \in Int
    OBVIOUS
  <2> HIDE DEF row, sums
  <2>1. row(l) \in SUBSET row(l)
    OBVIOUS
  <2>2. SumOf(row(l), g) \in Int
    BY <1>1, <2>1, SumRules
  <2> QED BY <1>1, <2>2
<1>3. {} \in A
  <2>1. \A q : SumOf({}, q) = 0
    BY SumRules, FS_EmptySet
  <2>2. pairs({}) = {}
    OBVIOUS
  <2> HIDE DEF pairs
  <2> QED BY <2>1, <2>2, FS_EmptySet
<1>4. ASSUME NEW T \in SUBSET D, T # {}, \A x \in T : T \ {x} \in A
      PROVE  T \in A
  <2>1. PICK x \in T : TRUE
    BY <1>4
  <2> DEFINE rest == T \ {x}
  <2>2. pairs(T) = pairs(rest) \cup row(x) /\ pairs(T) \ row(x) = pairs(rest)
        /\ row(x) \in SUBSET pairs(T)
    <3>1. pairs(T) = pairs(rest) \cup row(x)
      <4> HIDE DEF row
      <4> QED OBVIOUS
    <3>2. \A p \in row(x) : p \notin pairs(rest)
      OBVIOUS
    <3> HIDE DEF row, pairs
    <3> QED BY <3>1, <3>2
  <2>3. rest \in A /\ x \in D
    BY <1>4, <2>1
  <2>4. \A p \in pairs(T) : g[p] \in Int
    BY <1>1
  <2> HIDE DEF row, pairs, sums
  <2>5. IsFiniteSet(pairs(T))
    <3>1. IsFiniteSet(row(x)) /\ IsFiniteSet(pairs(rest))
      BY <1>1, <2>3
    <3> HIDE DEF rest
    <3> QED BY <2>2, <3>1, FS_Union
  <2>6. SumOf(pairs(T), g) = SumOf(row(x), g) + SumOf(pairs(rest), g)
    <3> HIDE DEF rest
    <3>1. SumOf(pairs(T), g) = SumOf(row(x), g) + SumOf(pairs(T) \ row(x), g)
      BY <2>2, <2>4, <2>5, SumSplits
    <3> QED BY <2>2, <3>1
  <2>7. SumOf(T, sums) = SumOf(rest, sums) + sums[x]
    BY <1>2, <2>1, SumRules
  <2>8. SumOf(rest, sums) \in Int
    BY <1>2, SumRules
  <2> QED BY <1>1, <1>2, <2>3, <2>5, <2>6, <2>7, <2>8
<1>5. D \in A
  <2> HIDE DEF A
  <2>1. \A T \in SUBSET D : T \in A
    BY <1>3, <1>4, InductSubsets
  <2> QED BY <2>1
<1> QED BY <1>2, <1>5 DEF sums

-----------------------------------------------------------------------------
(* Counting *)

\* Sets that have nothing in common have as many elements as they have together.
LEMMA CountsAddUp ==
    ASSUME NEW D, IsFiniteSet(D), NEW F, \A i \in D : IsFiniteSet(F[i]),
           \A i, j \in D : i # j => F[i] \cap F[j] = {}
    PROVE  LET all == UNION {F[i] : i \in D}
               counts == [i \in D |-> Cardinality(F[i])]
           IN  /\ IsFiniteSet(all)
               /\ \A i \in D : counts[i] \in Int
               /\ Cardinality(all) = SumOf(D, counts)
<1> DEFINE all(T) == UNION {F[i] : i \in T}
           counts == [i \in D |-> Cardinality(F[i])]
           A == {T \in SUBSET D : IsFiniteSet(all(T)) /\ Cardinality(all(T)) = SumOf(T, counts)}
<1>1. \A i \in D : counts[i] = Cardinality(F[i]) /\ counts[i] \in Nat
  BY FS_CardinalityType
<1> HIDE DEF counts
<1>2. \A i \in D : counts[i] \in Int
  BY <1>1
<1>3. {} \in A
  <2>1. \A q : SumOf({}, q) = 0
    BY SumRules, FS_EmptySet
  <2>2. all({}) = {}
    OBVIOUS
  <2> HIDE DEF all
  <2> QED BY <2>1, <2>2, FS_EmptySet
<1>4. ASSUME NEW T \in SUBSET D, T # {}, \A x \in T : T \ {x} \in A
      PROVE  T \in A
  <2>1. PICK x \in T : TRUE
    BY <1>4
  <2> DEFINE rest == T \ {x}
  <2>2. all(T) = all(rest) \cup F[x] /\ all(rest) \cap F[x] = {}
    OBVIOUS
  <2>3. rest \in A /\ x \in D
    BY <1>4, <2>1
  <2> HIDE DEF all
  <2>4. IsFiniteSet(all(rest)) /\ IsFiniteSet(F[x])
    BY <2>3
  <2>5. /\ IsFiniteSet(all(T))
        /\ Cardinality(all(T)) = Cardinality(all(rest)) + Cardinality(F[x])
    <3>1. PICK S : S = all(rest)
      OBVIOUS
    <3>2. IsFiniteSet(S) /\ S \cap F[x] = {} /\ all(T) = S \cup F[x]
      BY <2>2, <2>4, <3>1
    <3> HIDE DEF rest
    <3>3. /\ IsFiniteSet(S \cup F[x])
          /\ Cardinality(S \cup F[x]) = Cardinality(S) + Cardinality(F[x]) - Cardinality(S \cap F[x])
      BY <2>4, <3>2, FS_Union
    <3>4. Cardinality(S) \in Nat /\ Cardinality(F[x]) \in Nat /\ Cardinality({}) = 0
      BY <2>4, <3>2, FS_CardinalityType, FS_EmptySet
    <3>5. Cardinality(S \cap F[x]) = 0
      BY <3>2, <3>4
    <3>6. Cardinality(S \cup F[x]) = Cardinality(S) + Cardinality(F[x])
      BY <3>3, <3>4, <3>5
    <3> QED BY <3>1, <3>2, <3>3, <3>6
  <2>6. SumOf(T, counts) = SumOf(rest, counts) + counts[x]
    BY <1>2, <2>1, SumRules
  <2>7. SumOf(rest, counts) \in Int
    BY <1>2, SumRules
  <2>8. Cardinality(all(T)) = SumOf(T, counts)
    BY <1>1, <2>3, <2>5, <2>6, <2>7
  <2> QED BY <2>5, <2>8
<1>5. D \in A
  <2> HIDE DEF A
  <2>1. \A T \in SUBSET D : T \in A
    BY <1>3, <1>4, InductSubsets
  <2> QED BY <2>1
<1> QED BY <1>2, <1>5 DEF counts

\* Pairs with the same first element are as many as their second elements.
LEMMA CountRow ==
    ASSUME NEW x, NEW S, IsFiniteSet(S)
    PROVE  /\ IsFiniteSet({<<x, y>> : y \in S})
           /\ Cardinality({<<x, y>> : y \in S}) = Cardinality(S)
<1> DEFINE row == {<<x, y>> : y \in S}
           f == [y \in S |-> <<x, y>>]
<1>1. f \in Surjection(S, row) /\ f \in Injection(S, row)
  BY DEF Surjection, Injection, IsInjective
<1> HIDE DEF row, f
<1>2. IsFiniteSet(row) /\ (Cardinality(row) = Cardinality(S) <=> f \in Injection(S, row))
  BY <1>1, FS_Surjection
<1> QED BY <1>1, <1>2 DEF row

\* What a function makes of a finite set is finite.
LEMMA FiniteImage ==
    ASSUME NEW S, IsFiniteSet(S), NEW f
    PROVE  IsFiniteSet({f[x] : x \in S})
<1> DEFINE T == {f[x] : x \in S}
           g == [x \in S |-> f[x]]
<1>1. g \in Surjection(S, T)
  BY DEF Surjection
<1> HIDE DEF T, g
<1>2. IsFiniteSet(T)
  BY <1>1, FS_Surjection
<1> QED BY <1>2 DEF T
=============================================================================
