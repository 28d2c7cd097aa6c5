---------------------------- MODULE SchedulerProof ---------------------------
(***************************************************************************)
(* Proofs about the planner, for every queue, every number of devices and  *)
(* every reserve.                                                          *)
(***************************************************************************)
EXTENDS Scheduler, DataInduction, SequenceTheorems

Requests(Ids) == [id : Ids, min : Nat \ {0}, max : Nat, priority : Int, created : Int]

-----------------------------------------------------------------------------
(* The queue *)

\* The queue is ordered: of two requests exactly one is before the other.
Ordered(waiting) ==
    /\ \A r, s \in waiting : r # s => (Before(r, s) <=> ~Before(s, r))
    /\ \A r, s, u \in waiting :
         r # s /\ s # u /\ r # u /\ Before(r, s) /\ Before(s, u) => Before(r, u)

\* It is if the identifiers are different numbers, ...
LEMMA OrderedByIds ==
    ASSUME NEW waiting \in SUBSET Requests(Int),
           \A r, s \in waiting : r.id = s.id => r = s
    PROVE  Ordered(waiting)
BY DEF Requests, Ordered, Before

\* ... and if no two requests are of the same age, whatever identifiers are.
LEMMA OrderedByAge ==
    ASSUME NEW Ids, NEW waiting \in SUBSET Requests(Ids),
           \A r, s \in waiting : r.created = s.created => r = s
    PROVE  Ordered(waiting)
BY DEF Requests, Ordered, Before

\* The sorted queue has every request once, in the order of Before.
LEMMA QueueSorted ==
    ASSUME NEW waiting, IsFiniteSet(waiting), Ordered(waiting)
    PROVE  LET queue == QueueOrder(waiting)
               n == Cardinality(waiting)
           IN  /\ n \in Nat
               /\ queue \in [1 .. n -> waiting]
               /\ \A r \in waiting : \E i \in 1 .. n : queue[i] = r
               /\ \A i, j \in 1 .. n : i < j => queue[i] # queue[j] /\ Before(queue[i], queue[j])
<1> DEFINE n == Cardinality(waiting)
           queue == QueueOrder(waiting)
           B == [r \in waiting |-> Ahead(r, waiting)]
<1>1. n \in Nat
  BY FS_CardinalityType
<1>2. /\ B \in [waiting -> SUBSET waiting]
      /\ \A x \in waiting : x \notin B[x]
      /\ \A x, y \in waiting : x # y => x \in B[y] \/ y \in B[x]
      /\ \A x, y \in waiting : x \in B[y] => B[x] \subseteq B[y]
  BY DEF Ordered, Ahead
<1>3. /\ \A x \in waiting : Cardinality(B[x]) \in 0 .. n - 1
      /\ \A x, y \in waiting : x \in B[y] => Cardinality(B[x]) < Cardinality(B[y])
      /\ \A i \in 1 .. n : \E x \in waiting : Cardinality(B[x]) = i - 1
  <2> HIDE DEF B
  <2> QED BY <1>2, Ranking
<1>4. ASSUME NEW i \in 1 .. n
      PROVE  queue[i] \in waiting /\ Cardinality(B[queue[i]]) = i - 1
  <2>1. \E r \in waiting : Cardinality(Ahead(r, waiting)) = i - 1
    BY <1>3
  <2>2. queue[i] = CHOOSE r \in waiting : Cardinality(Ahead(r, waiting)) = i - 1
    BY DEF QueueOrder
  <2> QED BY <2>1, <2>2
<1>5. queue \in [1 .. n -> waiting]
  BY <1>4 DEF QueueOrder
<1>6. ASSUME NEW r \in waiting
      PROVE  \E i \in 1 .. n : queue[i] = r
  <2> DEFINE i == Cardinality(B[r]) + 1
  <2>1. i \in 1 .. n
    BY <1>1, <1>3
  <2>2. queue[i] \in waiting /\ Cardinality(B[queue[i]]) = Cardinality(B[r])
    BY <1>3, <1>4, <2>1
  <2>3. queue[i] = r
    BY <1>2, <1>3, <2>2
  <2> QED BY <2>1, <2>3
<1>7. ASSUME NEW i \in 1 .. n, NEW j \in 1 .. n, i < j
      PROVE  queue[i] # queue[j] /\ Before(queue[i], queue[j])
  <2>1. /\ queue[i] \in waiting /\ Cardinality(B[queue[i]]) = i - 1
        /\ queue[j] \in waiting /\ Cardinality(B[queue[j]]) = j - 1
    BY <1>4
  <2>2. queue[i] # queue[j]
    BY <1>7, <2>1
  <2>3. queue[j] \notin B[queue[i]]
    BY <1>3, <1>7, <2>1
  <2>4. queue[i] \in B[queue[j]]
    BY <1>2, <2>1, <2>2, <2>3
  <2> QED BY <2>1, <2>2, <2>4 DEF Ahead
<1> QED BY <1>1, <1>5, <1>6, <1>7

-----------------------------------------------------------------------------
(* Sums *)

\* c[j] is the sum of the first j of the m numbers g[1], g[2], ...
IsSums(c, g, m) ==
    /\ c \in [0 .. m -> Nat]
    /\ c[0] = 0
    /\ \A j \in 1 .. m : c[j] = c[j - 1] + g[j]

\* There is one such function ...
LEMMA SumsUnique ==
    ASSUME NEW m \in Nat, NEW g, NEW c, NEW d, IsSums(c, g, m), IsSums(d, g, m)
    PROVE  c = d
<1> DEFINE A == {j \in 0 .. m : c[j] = d[j]}
<1>1. 0 \in A
  BY DEF IsSums
<1>2. ASSUME NEW j \in 1 .. m, j - 1 \in A
      PROVE  j \in A
  BY <1>2 DEF IsSums
<1>3. \A j \in 0 .. m : j \in A
  <2> HIDE DEF A
  <2> QED BY <1>1, <1>2, Induct
<1> QED BY <1>3 DEF IsSums

\* ... and it grows.
LEMMA SumsGrow ==
    ASSUME NEW m \in Nat, NEW g \in [1 .. m -> Nat], NEW c, IsSums(c, g, m)
    PROVE  \A i, j \in 0 .. m : i <= j => c[i] <= c[j]
<1> SUFFICES ASSUME NEW i \in 0 .. m
             PROVE  \A j \in 0 .. m : i <= j => c[i] <= c[j]
  OBVIOUS
<1> DEFINE A == {j \in 0 .. m : i <= j => c[i] <= c[j]}
<1>1. 0 \in A
  BY DEF IsSums
<1>2. ASSUME NEW j \in 1 .. m, j - 1 \in A
      PROVE  j \in A
  <2>1. c[j] = c[j - 1] + g[j] /\ g[j] \in Nat /\ c[j] \in Nat /\ c[j - 1] \in Nat /\ c[i] \in Nat
    BY DEF IsSums
  <2>2. i <= j - 1 => c[i] <= c[j - 1]
    BY <1>2
  <2> DEFINE x == c[j - 1]
             y == c[j]
             z == c[i]
             w == g[j]
  <2>3. y = x + w /\ w \in Nat /\ x \in Nat /\ z \in Nat /\ (i <= j - 1 => z <= x)
        /\ (i = j => z = y)
    BY <2>1, <2>2
  <2> HIDE DEF x, y, z, w
  <2>4. i <= j => z <= y
    BY <2>3
  <2> QED BY <2>4 DEF y, z
<1>3. \A j \in 0 .. m : j \in A
  <2> HIDE DEF A
  <2> QED BY <1>1, <1>2, Induct
<1> QED BY <1>3

Prolongs(d, c, m, x) ==
    d[m + 1] = c[m] + x /\ \A j \in 0 .. m : d[j] = c[j]

\* One more number is one more step of the sum.
LEMMA SumsExtend ==
    ASSUME NEW m \in Nat, NEW g, NEW c, IsSums(c, g, m), NEW h, NEW x \in Nat,
           \A j \in 1 .. m : h[j] = g[j], h[m + 1] = x
    PROVE  \E d : IsSums(d, h, m + 1) /\ Prolongs(d, c, m, x)
<1> DEFINE d == [k \in 0 .. m + 1 |-> IF k = m + 1 THEN c[m] + x ELSE c[k]]
<1>1. c \in [0 .. m -> Nat] /\ c[0] = 0 /\ \A j \in 1 .. m : c[j] = c[j - 1] + g[j]
  BY DEF IsSums
<1>2. \A k \in 0 .. m + 1 : d[k] \in Nat
  <2> TAKE k \in 0 .. m + 1
  <2>1. k = m + 1 \/ k \in 0 .. m
    OBVIOUS
  <2> QED BY <1>1, <2>1
<1>3. ASSUME NEW j \in 1 .. m + 1
      PROVE  d[j] = d[j - 1] + h[j]
  <2>1. j = m + 1 \/ j \in 1 .. m
    OBVIOUS
  <2>2. CASE j = m + 1
    BY <1>1, <2>2
  <2>3. CASE j \in 1 .. m
    <3>1. d[j] = c[j] /\ d[j - 1] = c[j - 1]
      BY <2>3
    <3> QED BY <1>1, <2>3, <3>1
  <2> QED BY <2>1, <2>2, <2>3
<1>4. d[0] = 0 /\ d[m + 1] = c[m] + x /\ \A j \in 0 .. m : d[j] = c[j]
  BY <1>1
<1>5. d \in [0 .. m + 1 -> Nat]
  BY <1>2
<1> HIDE DEF d
<1>6. IsSums(d, h, m + 1)
  BY <1>3, <1>4, <1>5 DEF IsSums
<1>7. Prolongs(d, c, m, x)
  BY <1>4 DEF Prolongs
<1> QED BY <1>6, <1>7

\* One more for one of the numbers is one more for the sum.
LEMMA SumsBump ==
    ASSUME NEW m \in Nat, NEW g \in [1 .. m -> Nat], NEW c, IsSums(c, g, m), NEW i \in 1 .. m
    PROVE  \E d : IsSums(d, [g EXCEPT ![i] = @ + 1], m) /\ d[m] = c[m] + 1
<1> DEFINE h == [g EXCEPT ![i] = @ + 1]
           d == [k \in 0 .. m |-> IF k < i THEN c[k] ELSE c[k] + 1]
<1>1. c \in [0 .. m -> Nat] /\ c[0] = 0 /\ \A j \in 1 .. m : c[j] = c[j - 1] + g[j]
  BY DEF IsSums
<1>2. d \in [0 .. m -> Nat] /\ d[0] = 0 /\ d[m] = c[m] + 1
  BY <1>1
<1>3. ASSUME NEW j \in 1 .. m
      PROVE  d[j] = d[j - 1] + h[j]
  <2>1. c[j] = c[j - 1] + g[j] /\ c[j] \in Nat /\ c[j - 1] \in Nat /\ g[j] \in Nat
    BY <1>1
  <2>2. /\ h[j] = IF j = i THEN g[j] + 1 ELSE g[j]
        /\ d[j] = IF j < i THEN c[j] ELSE c[j] + 1
        /\ d[j - 1] = IF j - 1 < i THEN c[j - 1] ELSE c[j - 1] + 1
    OBVIOUS
  <2> QED BY <2>1, <2>2
<1> HIDE DEF d
<1>4. IsSums(d, h, m)
  BY <1>2, <1>3 DEF IsSums
<1> QED BY <1>2, <1>4

\* Inequalities add up.
LEMMA AddBoth ==
    \A x, y, p, q, u, v \in Nat :
        x + p <= y + q /\ u <= v => (x + u) + p <= (y + v) + q
OBVIOUS

\* Of two sums the greater is greater by at least what one of the numbers is.
LEMMA SumsDiffer ==
    ASSUME NEW m \in Nat, NEW g \in [1 .. m -> Nat], NEW h \in [1 .. m -> Nat],
           NEW c, IsSums(c, g, m), NEW d, IsSums(d, h, m),
           \A j \in 1 .. m : g[j] <= h[j], NEW i \in 1 .. m
    PROVE  c[m] + h[i] <= d[m] + g[i]
<1> DEFINE A == {j \in 0 .. m : /\ c[j] <= d[j]
                                /\ i <= j => c[j] + h[i] <= d[j] + g[i]}
<1>1. /\ c \in [0 .. m -> Nat] /\ c[0] = 0 /\ \A j \in 1 .. m : c[j] = c[j - 1] + g[j]
      /\ d \in [0 .. m -> Nat] /\ d[0] = 0 /\ \A j \in 1 .. m : d[j] = d[j - 1] + h[j]
  BY DEF IsSums
<1>2. 0 \in A
  BY <1>1
<1>3. ASSUME NEW j \in 1 .. m, j - 1 \in A
      PROVE  j \in A
  <2>1. j \in 0 .. m /\ j - 1 \in 0 .. m /\ j - 1 \in Int
    OBVIOUS
  <2>2. /\ c[j] = c[j - 1] + g[j] /\ d[j] = d[j - 1] + h[j]
        /\ c[j - 1] \in Nat /\ d[j - 1] \in Nat
    BY <1>1, <2>1
  <2>3. g[j] \in Nat /\ h[j] \in Nat /\ g[j] <= h[j] /\ g[i] \in Nat /\ h[i] \in Nat
    OBVIOUS
  <2>4. c[j - 1] <= d[j - 1] /\ (i <= j - 1 => c[j - 1] + h[i] <= d[j - 1] + g[i])
    BY <1>3
  <2> HIDE DEF A
  <2> DEFINE x == c[j - 1]
             y == d[j - 1]
             p == g[j]
             q == h[j]
  <2>5. x \in Nat /\ y \in Nat /\ p \in Nat /\ q \in Nat /\ x <= y /\ p <= q
        /\ c[j] = x + p /\ d[j] = y + q
    BY <2>2, <2>3, <2>4
  <2>6. i <= j => c[j] + h[i] <= d[j] + g[i]
    <3>1. CASE j = i
      <4>1. h[i] = q /\ g[i] = p
        BY <3>1
      <4> HIDE DEF x, y, p, q
      <4>2. (x + p) + q <= (y + q) + p
        BY <2>5
      <4> QED BY <2>5, <4>1, <4>2
    <3>2. CASE j < i
      BY <3>2
    <3>3. CASE i < j
      <4>1. x + h[i] <= y + g[i]
        BY <2>4, <3>3
      <4> HIDE DEF x, y, p, q
      <4>2. (x + p) + h[i] <= (y + q) + g[i]
        BY <2>3, <2>5, <4>1, AddBoth, Zenon
      <4> QED BY <2>5, <4>2, Zenon
    <3> QED BY <3>1, <3>2, <3>3
  <2>7. c[j] <= d[j]
    <3> HIDE DEF x, y, p, q
    <3>1. x + p <= y + q
      BY <2>5
    <3> QED BY <2>5, <3>1
  <2> QED BY <2>1, <2>6, <2>7 DEF A
<1>4. m \in A
  <2>1. \A j \in 0 .. m : j \in A
    <3> HIDE DEF A
    <3> QED BY <1>2, <1>3, Induct
  <2> HIDE DEF A
  <2> QED BY <2>1
<1> QED BY <1>4

-----------------------------------------------------------------------------
(* Who starts *)

\* pos lists, in order, len of the first i places of the queue.
IsPlaces(pos, len, i) ==
    /\ pos \in [1 .. len -> 1 .. i]
    /\ \A k, l \in 1 .. len : k < l => pos[k] < pos[l]

\* One place more, and the same places in a longer queue.
LEMMA PlacesExtend ==
    ASSUME NEW len \in Nat, NEW i \in Nat \ {0}, NEW pos, IsPlaces(pos, len, i - 1)
    PROVE  /\ IsPlaces(pos, len, i)
           /\ \E p : /\ IsPlaces(p, len + 1, i)
                     /\ \A k \in 1 .. len : p[k] = pos[k]
                     /\ p[len + 1] = i
<1> DEFINE p == [k \in 1 .. len + 1 |-> IF k = len + 1 THEN i ELSE pos[k]]
<1>1. pos \in [1 .. len -> 1 .. i - 1] /\ \A k, l \in 1 .. len : k < l => pos[k] < pos[l]
  BY DEF IsPlaces
<1>2. (\A k \in 1 .. len : p[k] = pos[k]) /\ p[len + 1] = i
  OBVIOUS
<1>3. ASSUME NEW k \in 1 .. len + 1
      PROVE  p[k] \in 1 .. i
  <2>1. k = len + 1 \/ k \in 1 .. len
    OBVIOUS
  <2> QED BY <1>1, <2>1
<1>4. ASSUME NEW k \in 1 .. len + 1, NEW l \in 1 .. len + 1, k < l
      PROVE  p[k] < p[l]
  <2>1. k \in 1 .. len /\ (l = len + 1 \/ l \in 1 .. len)
    BY <1>4
  <2> QED BY <1>1, <1>4, <2>1
<1>5. p \in [1 .. len + 1 -> 1 .. i]
  BY <1>3
<1> HIDE DEF p
<1>6. IsPlaces(p, len + 1, i)
  BY <1>4, <1>5 DEF IsPlaces
<1>7. IsPlaces(pos, len, i)
  BY <1>1 DEF IsPlaces
<1> QED BY <1>2, <1>6, <1>7

Taken(pos, len, p) == \E k \in 1 .. len : pos[k] = p

\* The p-th request did not fit beside the minimums of those chosen ahead of it or,
\* in strict mode, came after one that did not.
PassedOver(pos, c, len, queue, n, strict, p) ==
    \/ \E k \in 0 .. len : /\ \A l \in 1 .. len : pos[l] < p <=> l <= k
                           /\ c[k] + queue[p].min > n
    \/ strict /\ \E q \in 1 .. p - 1 : ~Taken(pos, len, q)

\* After i requests of the queue: the chosen ones are those at pos, their minimums
\* have the sums c and leave acc.left of n devices, ...
ChosenSum(pos, c, acc, queue, n, i) ==
    /\ IsPlaces(pos, Len(acc.chosen), i)
    /\ \A k \in 1 .. Len(acc.chosen) : acc.chosen[k] = queue[pos[k]]
    /\ IsSums(c, Minimums(acc.chosen), Len(acc.chosen))
    /\ c[Len(acc.chosen)] + acc.left = n

\* ... and the others were passed over, in strict mode all of them behind the chosen.
ChosenRule(pos, c, acc, queue, n, i, strict) ==
    LET len == Len(acc.chosen)
    IN  /\ \A p \in 1 .. i : Taken(pos, len, p) \/ PassedOver(pos, c, len, queue, n, strict, p)
        /\ acc.open \/ (strict /\ \E q \in 1 .. i : ~Taken(pos, len, q))
        /\ strict => /\ acc.open => \A p \in 1 .. i : Taken(pos, len, p)
                     /\ \A p \in 1 .. i : \A q \in 1 .. p - 1 :
                          Taken(pos, len, p) => Taken(pos, len, q)

Chosen(acc, queue, n, i, strict) ==
    \E pos, c : ChosenSum(pos, c, acc, queue, n, i) /\ ChosenRule(pos, c, acc, queue, n, i, strict)

Picks(waiting) == [chosen : Seq(waiting), left : Nat, open : BOOLEAN]

\* The i-th request is chosen.
LEMMA ChosenExtend ==
    ASSUME NEW Ids, NEW waiting \in SUBSET Requests(Ids), NEW acc \in Picks(waiting),
           NEW queue, NEW n \in Nat, NEW i \in Nat \ {0}, NEW strict \in BOOLEAN,
           Chosen(acc, queue, n, i - 1, strict),
           NEW r \in waiting, r = queue[i], acc.open, r.min <= acc.left,
           NEW new \in Picks(waiting), new.chosen = Append(acc.chosen, r),
           new.left = acc.left - r.min, new.open
    PROVE  Chosen(new, queue, n, i, strict)
<1> DEFINE len == Len(acc.chosen)
<1>1. /\ len \in Nat /\ acc.chosen \in [1 .. len -> waiting]
      /\ Len(new.chosen) = len + 1 /\ new.chosen \in [1 .. len + 1 -> waiting]
      /\ \A k \in 1 .. len : new.chosen[k] = acc.chosen[k]
      /\ new.chosen[len + 1] = r
  <2>0. acc.chosen \in Seq(waiting)
    BY DEF Picks
  <2>1. len \in Nat /\ acc.chosen \in [1 .. len -> waiting]
    BY <2>0, LenProperties
  <2>2. /\ new.chosen \in Seq(waiting) /\ Len(new.chosen) = len + 1
        /\ \A k \in 1 .. len : new.chosen[k] = acc.chosen[k]
        /\ new.chosen[len + 1] = r
    BY <2>0, AppendProperties
  <2>3. new.chosen \in [1 .. Len(new.chosen) -> waiting]
    BY <2>2, LenProperties
  <2> QED BY <2>1, <2>2, <2>3
<1>2. PICK pos, c : /\ ChosenSum(pos, c, acc, queue, n, i - 1)
                    /\ ChosenRule(pos, c, acc, queue, n, i - 1, strict)
  BY DEF Chosen
<1>3. /\ IsPlaces(pos, len, i - 1) /\ \A k \in 1 .. len : acc.chosen[k] = queue[pos[k]]
      /\ IsSums(c, Minimums(acc.chosen), len) /\ c[len] + acc.left = n
  BY <1>2 DEF ChosenSum
<1>4. r.min \in Nat /\ acc.left \in Nat
  BY DEF Requests, Picks
<1>5. /\ \A p \in 1 .. i - 1 :
           Taken(pos, len, p) \/ PassedOver(pos, c, len, queue, n, strict, p)
      /\ strict => \A p \in 1 .. i - 1 : Taken(pos, len, p)
  BY <1>2 DEF ChosenRule
<1> HIDE DEF len
<1>6. PICK p : /\ IsPlaces(p, len + 1, i)
               /\ \A k \in 1 .. len : p[k] = pos[k]
               /\ p[len + 1] = i
  BY <1>1, <1>3, PlacesExtend
<1>7. ASSUME NEW k \in 1 .. len + 1
      PROVE  new.chosen[k] = queue[p[k]]
  <2>1. k = len + 1 \/ k \in 1 .. len
    BY <1>1
  <2> QED BY <1>1, <1>3, <1>6, <2>1
<1>8. /\ \A j \in 1 .. len : Minimums(new.chosen)[j] = Minimums(acc.chosen)[j]
      /\ Minimums(new.chosen)[len + 1] = r.min
  BY <1>1 DEF Minimums
<1>9. PICK d : /\ IsSums(d, Minimums(new.chosen), len + 1)
               /\ \A j \in 0 .. len : d[j] = c[j]
               /\ d[len + 1] = c[len] + r.min
  <2> DEFINE g == Minimums(acc.chosen)
             h == Minimums(new.chosen)
             x == r.min
  <2>1. /\ len \in Nat /\ x \in Nat /\ IsSums(c, g, len)
        /\ \A j \in 1 .. len : h[j] = g[j]
        /\ h[len + 1] = x
    BY <1>1, <1>3, <1>4, <1>8
  <2> HIDE DEF g, h, x
  <2>2. PICK d : IsSums(d, h, len + 1) /\ Prolongs(d, c, len, x)
    BY <2>1, SumsExtend
  <2> QED BY <2>2 DEF h, x, Prolongs
<1>10. d[len + 1] + new.left = n
  BY <1>1, <1>3, <1>4, <1>9 DEF IsSums
<1>11. ChosenSum(p, d, new, queue, n, i)
  BY <1>1, <1>6, <1>7, <1>9, <1>10 DEF ChosenSum
<1>12. Taken(p, len + 1, i)
  BY <1>1, <1>6 DEF Taken
<1>13. ASSUME NEW q \in 1 .. i - 1
       PROVE  /\ Taken(pos, len, q) => Taken(p, len + 1, q)
              /\ Taken(p, len + 1, q) => Taken(pos, len, q)
  <2>1. \A k \in 1 .. len + 1 : k = len + 1 \/ k \in 1 .. len
    BY <1>1
  <2>2. \A k \in 1 .. len : k \in 1 .. len + 1
    BY <1>1
  <2>3. p[len + 1] # q
    BY <1>6
  <2> QED BY <1>6, <2>1, <2>2, <2>3 DEF Taken
<1>14. ASSUME NEW q \in 1 .. i - 1, PassedOver(pos, c, len, queue, n, strict, q)
       PROVE  PassedOver(p, d, len + 1, queue, n, strict, q)
  <2>1. CASE strict /\ \E u \in 1 .. q - 1 : ~Taken(pos, len, u)
    <3>1. PICK u \in 1 .. q - 1 : ~Taken(pos, len, u)
      BY <2>1
    <3>2. u \in 1 .. i - 1
      OBVIOUS
    <3> QED BY <1>13, <2>1, <3>1, <3>2 DEF PassedOver
  <2>2. CASE ~(strict /\ \E u \in 1 .. q - 1 : ~Taken(pos, len, u))
    <3>1. PICK k \in 0 .. len : /\ \A l \in 1 .. len : pos[l] < q <=> l <= k
                                /\ c[k] + queue[q].min > n
      BY <1>14, <2>2 DEF PassedOver
    <3>2. ASSUME NEW l \in 1 .. len + 1
          PROVE  p[l] < q <=> l <= k
      <4>1. l = len + 1 \/ l \in 1 .. len
        BY <1>1
      <4>2. CASE l = len + 1
        BY <1>1, <1>6, <4>2
      <4>3. CASE l \in 1 .. len
        BY <1>6, <3>1, <4>3
      <4> QED BY <4>1, <4>2, <4>3
    <3>3. d[k] + queue[q].min > n /\ k \in 0 .. len + 1
      BY <1>1, <1>9, <3>1
    <3> QED BY <3>2, <3>3 DEF PassedOver
  <2> QED BY <2>1, <2>2
<1>15. ChosenRule(p, d, new, queue, n, i, strict)
  <2>1. ASSUME NEW q \in 1 .. i
        PROVE  /\ Taken(p, len + 1, q) \/ PassedOver(p, d, len + 1, queue, n, strict, q)
               /\ strict => Taken(p, len + 1, q)
    <3>1. q = i \/ q \in 1 .. i - 1
      OBVIOUS
    <3> QED BY <1>5, <1>12, <1>13, <1>14, <3>1
  <2>2. ASSUME strict, NEW q \in 1 .. i, NEW u \in 1 .. q - 1
        PROVE  Taken(p, len + 1, u)
    <3>1. u \in 1 .. i
      OBVIOUS
    <3> QED BY <2>1, <2>2, <3>1
  <2> QED BY <1>1, <2>1, <2>2 DEF ChosenRule
<1> QED BY <1>11, <1>15 DEF Chosen

\* The i-th request is passed over.
LEMMA ChosenSkip ==
    ASSUME NEW Ids, NEW waiting \in SUBSET Requests(Ids), NEW acc \in Picks(waiting),
           NEW queue, NEW n \in Nat, NEW i \in Nat \ {0}, NEW strict \in BOOLEAN,
           Chosen(acc, queue, n, i - 1, strict),
           NEW r \in waiting, r = queue[i], ~(acc.open /\ r.min <= acc.left),
           NEW new, new.chosen = acc.chosen, new.left = acc.left,
           new.open = (acc.open /\ ~strict)
    PROVE  Chosen(new, queue, n, i, strict)
<1> DEFINE len == Len(acc.chosen)
<1>1. len \in Nat /\ r.min \in Nat /\ acc.left \in Nat /\ acc.open \in BOOLEAN
  <2>1. acc.chosen \in Seq(waiting)
    BY DEF Picks
  <2> QED BY <2>1, LenProperties DEF Requests, Picks
<1>2. PICK pos, c : /\ ChosenSum(pos, c, acc, queue, n, i - 1)
                    /\ ChosenRule(pos, c, acc, queue, n, i - 1, strict)
  BY DEF Chosen
<1>3. /\ IsPlaces(pos, len, i - 1) /\ \A k \in 1 .. len : acc.chosen[k] = queue[pos[k]]
      /\ IsSums(c, Minimums(acc.chosen), len) /\ c[len] + acc.left = n
  BY <1>2 DEF ChosenSum
<1>4. /\ \A p \in 1 .. i - 1 :
           Taken(pos, len, p) \/ PassedOver(pos, c, len, queue, n, strict, p)
      /\ acc.open \/ (strict /\ \E q \in 1 .. i - 1 : ~Taken(pos, len, q))
      /\ strict => \A p \in 1 .. i - 1 : \A q \in 1 .. p - 1 :
                       Taken(pos, len, p) => Taken(pos, len, q)
  BY <1>2 DEF ChosenRule
<1> HIDE DEF len
<1>5. IsPlaces(pos, len, i)
  BY <1>1, <1>3, PlacesExtend
<1>6. Len(new.chosen) = len
  BY DEF len
<1>7. ChosenSum(pos, c, new, queue, n, i)
  BY <1>3, <1>5, <1>6 DEF ChosenSum
<1>8. ~Taken(pos, len, i)
  BY <1>1, <1>3 DEF Taken, IsPlaces
<1>9. PassedOver(pos, c, len, queue, n, strict, i)
  <2>1. CASE acc.open
    <3>1. ~(r.min <= acc.left)
      BY <2>1
    <3>2. c[len] \in Nat
      BY <1>1, <1>3 DEF IsSums
    <3>3. c[len] + queue[i].min > n
      BY <1>1, <1>3, <3>1, <3>2
    <3>4. \A l \in 1 .. len : pos[l] < i <=> l <= len
      BY <1>1, <1>3 DEF IsPlaces
    <3> QED BY <1>1, <3>3, <3>4 DEF PassedOver
  <2>2. CASE ~acc.open
    BY <1>4, <2>2 DEF PassedOver
  <2> QED BY <2>1, <2>2
<1>10. new.open \/ (strict /\ \E q \in 1 .. i : ~Taken(pos, len, q))
  BY <1>1, <1>4, <1>8
<1>11. ChosenRule(pos, c, new, queue, n, i, strict)
  <2>1. ASSUME NEW q \in 1 .. i
        PROVE  /\ Taken(pos, len, q) \/ PassedOver(pos, c, len, queue, n, strict, q)
               /\ strict => \A u \in 1 .. q - 1 : Taken(pos, len, q) => Taken(pos, len, u)
    <3>1. q = i \/ q \in 1 .. i - 1
      OBVIOUS
    <3> QED BY <1>4, <1>8, <1>9, <3>1
  <2>2. strict => ~new.open
    BY <1>1
  <2> QED BY <1>6, <1>10, <2>1, <2>2 DEF ChosenRule
<1> QED BY <1>7, <1>11 DEF Chosen

\* One step of the selection loop.
LEMMA AdmitChosen ==
    ASSUME NEW Ids, NEW waiting \in SUBSET Requests(Ids), NEW m \in Nat,
           NEW queue \in [1 .. m -> waiting], NEW n \in Nat, NEW strict \in BOOLEAN,
           NEW i \in 1 .. m, NEW acc \in Picks(waiting),
           Chosen(acc, queue, n, i - 1, strict)
    PROVE  LET new == Admit(acc, queue[i], strict)
           IN  new \in Picks(waiting) /\ Chosen(new, queue, n, i, strict)
<1> DEFINE r == queue[i]
           new == Admit(acc, r, strict)
<1>1. /\ r \in waiting /\ r.min \in Nat /\ r = queue[i]
      /\ acc.chosen \in Seq(waiting) /\ acc.left \in Nat /\ acc.open \in BOOLEAN
      /\ acc = [chosen |-> acc.chosen, left |-> acc.left, open |-> acc.open]
      /\ i \in Nat \ {0}
  BY DEF Requests, Picks
<1> HIDE DEF r
<1>2. CASE acc.open /\ r.min <= acc.left
  <2>1. new = [chosen |-> Append(acc.chosen, r), left |-> acc.left - r.min, open |-> acc.open]
    BY <1>1, <1>2 DEF Admit
  <2>2. Append(acc.chosen, r) \in Seq(waiting) /\ acc.left - r.min \in Nat
    BY <1>1, <1>2, AppendProperties
  <2> HIDE DEF new
  <2>3. new \in Picks(waiting)
    BY <1>1, <2>1, <2>2 DEF Picks
  <2>4. new.chosen = Append(acc.chosen, r) /\ new.left = acc.left - r.min /\ new.open
    BY <1>2, <2>1
  <2>5. Chosen(new, queue, n, i, strict)
    BY <1>1, <1>2, <2>3, <2>4, ChosenExtend
  <2> QED BY <2>3, <2>5 DEF new, r
<1>3. CASE ~(acc.open /\ r.min <= acc.left)
  <2>1. /\ new.chosen = acc.chosen /\ new.left = acc.left
        /\ new.open = (acc.open /\ ~strict)
        /\ new \in Picks(waiting)
    BY <1>1, <1>3 DEF Admit, Picks
  <2> HIDE DEF new
  <2>2. Chosen(new, queue, n, i, strict)
    BY <1>1, <1>3, <2>1, ChosenSkip, SMTT(30)
  <2> QED BY <2>1, <2>2 DEF new, r
<1> QED BY <1>2, <1>3

\* The selection loop.
LEMMA SelectionChosen ==
    ASSUME NEW Ids, NEW waiting \in SUBSET Requests(Ids), NEW m \in Nat,
           NEW queue \in [1 .. m -> waiting], NEW n \in Nat, NEW strict \in BOOLEAN
    PROVE  LET picked == Selection(queue, n, strict)
           IN  picked \in Picks(waiting) /\ Chosen(picked, queue, n, m, strict)
<1> DEFINE base == [chosen |-> <<>>, left |-> n, open |-> TRUE]
           T == [i \in 0 .. m |->
                   {acc \in Picks(waiting) : Chosen(acc, queue, n, i, strict)}]
           step == [i \in 1 .. m |-> [acc \in Picks(waiting) |-> Admit(acc, queue[i], strict)]]
           after[i \in 0 .. Len(queue)] ==
               IF i = 0 THEN base ELSE Admit(after[i - 1], queue[i], strict)
<1>1. Len(queue) = m
  OBVIOUS
<1>2. base \in T[0]
  <2>1. base \in Picks(waiting)
    BY DEF Picks
  <2>2. Chosen(base, queue, n, 0, strict)
    <3> DEFINE c == [k \in 0 .. 0 |-> 0]
    <3>1. IsSums(c, Minimums(<<>>), 0) /\ c[0] + n = n
      BY DEF IsSums
    <3>2. IsPlaces(<<>>, 0, 0)
      BY DEF IsPlaces
    <3>3. base.chosen = <<>> /\ base.left = n /\ base.open /\ Len(<<>>) = 0
      OBVIOUS
    <3> HIDE DEF c, base
    <3>4. ChosenSum(<<>>, c, base, queue, n, 0)
      BY <3>1, <3>2, <3>3 DEF ChosenSum
    <3>5. ChosenRule(<<>>, c, base, queue, n, 0, strict)
      BY <3>3 DEF ChosenRule
    <3> QED BY <3>4, <3>5 DEF Chosen
  <2> QED BY <2>1, <2>2
<1>3. \A i \in 1 .. m : \A x \in T[i - 1] : step[i][x] \in T[i]
  BY AdmitChosen
<1>4. PICK f : Follows(f, m, base, step) /\ \A i \in 0 .. m : f[i] \in T[i]
  <2> HIDE DEF base, T, step, after
  <2> QED BY <1>2, <1>3, RecursionDefined
<1>5. f = [i \in 0 .. Len(queue) |-> IF i = 0 THEN base ELSE Admit(f[i - 1], queue[i], strict)]
  <2>1. \A i \in 0 .. m : f[i] \in Picks(waiting)
    BY <1>4
  <2>2. ASSUME NEW i \in 0 .. m
        PROVE  f[i] = IF i = 0 THEN base ELSE Admit(f[i - 1], queue[i], strict)
    <3>1. f[i] = IF i = 0 THEN base ELSE step[i][f[i - 1]]
      <4> HIDE DEF base, step
      <4> QED BY <1>4 DEF Follows
    <3>2. ASSUME i # 0
          PROVE  step[i][f[i - 1]] = Admit(f[i - 1], queue[i], strict)
      BY <2>1, <3>2
    <3> QED BY <3>1, <3>2
  <2>3. f = [i \in 0 .. m |-> f[i]]
    BY <1>4 DEF Follows
  <2> HIDE DEF base
  <2> QED BY <1>1, <2>2, <2>3
<1>6. after = [i \in 0 .. Len(queue) |->
                  IF i = 0 THEN base ELSE Admit(after[i - 1], queue[i], strict)]
  <2> HIDE DEF base, T, step
  <2> QED BY <1>5
<1>7. \A i \in 0 .. m : after[i] \in T[i]
  <2> DEFINE A == {i \in 0 .. m : after[i] \in T[i]}
  <2>1. 0 \in A
    <3> HIDE DEF after
    <3> QED BY <1>1, <1>2, <1>6
  <2>2. ASSUME NEW i \in 1 .. m, i - 1 \in A
        PROVE  i \in A
    <3> HIDE DEF after, base
    <3>1. after[i] = Admit(after[i - 1], queue[i], strict)
      BY <1>1, <1>6
    <3>2. after[i - 1] \in T[i - 1]
      BY <2>2
    <3>3. step[i][after[i - 1]] = Admit(after[i - 1], queue[i], strict)
      BY <3>2
    <3> HIDE DEF T, step
    <3> QED BY <1>3, <3>1, <3>2, <3>3
  <2>3. \A i \in 0 .. m : i \in A
    <3> HIDE DEF A
    <3> QED BY <2>1, <2>2, Induct
  <2> QED BY <2>3
<1>8. Selection(queue, n, strict) = after[m]
  BY <1>1 DEF Selection
<1>9. after[m] \in T[m]
  <2> HIDE DEF after, T
  <2> QED BY <1>7
<1> QED
  <2> HIDE DEF after
  <2> QED BY <1>8, <1>9

-----------------------------------------------------------------------------
(* What they get *)

\* What each chosen request has when k passes are over and the next one has
\* seen the first i of them.
Level(chosen, total, k, i) ==
    [j \in 1 .. Len(chosen) |->
        Lesser(Capacity(chosen[j], total),
               chosen[j].min + k + (IF j <= i THEN 1 ELSE 0))]

\* That is where the passes are, or where they were when nothing was left; and
\* what was given out and what is left add up to the n free devices.
Shared(acc, chosen, total, n, k, i) ==
    /\ \E c : IsSums(c, acc.grants, Len(chosen)) /\ c[Len(chosen)] + acc.left = n
    /\ \E kk \in Nat, ii \in 0 .. Len(chosen) :
         /\ acc.grants = Level(chosen, total, kk, ii)
         /\ acc.left > 0 => kk = k /\ ii = i

Shares(chosen) == [left : Nat, grants : [1 .. Len(chosen) -> Nat]]

\* Every chosen request can have its minimum on this host.
Fitting(chosen, total) ==
    \A j \in 1 .. Len(chosen) :
        /\ chosen[j].min \in Nat /\ Capacity(chosen[j], total) \in Nat
        /\ chosen[j].min <= Capacity(chosen[j], total)

\* One step of a pass.
LEMMA GrowShared ==
    ASSUME NEW chosen, Len(chosen) \in Nat, NEW total, Fitting(chosen, total),
           NEW n \in Nat, NEW k \in Nat, NEW i \in 1 .. Len(chosen),
           NEW acc \in Shares(chosen), Shared(acc, chosen, total, n, k, i - 1)
    PROVE  LET new == Grow(acc, i, chosen, total)
           IN  new \in Shares(chosen) /\ Shared(new, chosen, total, n, k, i)
<1> DEFINE m == Len(chosen)
           C == Capacity(chosen[i], total)
           new == Grow(acc, i, chosen, total)
<1>1. /\ acc.left \in Nat /\ acc.grants \in [1 .. m -> Nat]
      /\ C \in Nat /\ chosen[i].min \in Nat /\ chosen[i].min <= C
  BY DEF Shares, Fitting
<1>2. PICK c : IsSums(c, acc.grants, m) /\ c[m] + acc.left = n
  BY DEF Shared
<1>3. PICK kk \in Nat, ii \in 0 .. m :
         /\ acc.grants = Level(chosen, total, kk, ii)
         /\ acc.left > 0 => kk = k /\ ii = i - 1
  BY DEF Shared
<1>4. acc.left > 0 => acc.grants[i] = Lesser(C, chosen[i].min + k)
  BY <1>1, <1>3 DEF Level
<1>5. CASE acc.left > 0 /\ acc.grants[i] < C
  <2> DEFINE h == [acc.grants EXCEPT ![i] = @ + 1]
  <2>1. new = [left |-> acc.left - 1, grants |-> h]
    BY <1>5 DEF Grow
  <2>2. h = Level(chosen, total, k, i)
    <3>1. acc.grants[i] = chosen[i].min + k
      BY <1>1, <1>4, <1>5 DEF Lesser
    <3>2. ASSUME NEW j \in 1 .. m
          PROVE  h[j] = Level(chosen, total, k, i)[j]
      <4>1. CASE j = i
        <5> DEFINE x == acc.grants[i]
                   y == chosen[i].min
        <5>1. h[j] = x + 1 /\ Level(chosen, total, k, i)[j] = Lesser(C, y + k + 1)
          BY <1>1, <4>1 DEF Level
        <5>2. x = y + k /\ x < C /\ y \in Nat /\ C \in Nat
          BY <1>1, <1>5, <3>1
        <5> HIDE DEF C, x, y
        <5>3. Lesser(C, y + k + 1) = x + 1
          BY <5>2 DEF Lesser
        <5> QED BY <5>1, <5>3
      <4>2. CASE j # i
        BY <1>3, <1>5, <4>2 DEF Level
      <4> QED BY <4>1, <4>2
    <3> QED BY <1>1, <3>2 DEF Level
  <2>3. PICK d : IsSums(d, h, m) /\ d[m] = c[m] + 1
    BY <1>1, <1>2, SumsBump, ZenonT(30)
  <2>4. h \in [1 .. m -> Nat] /\ acc.left - 1 \in Nat
    BY <1>1, <1>5, SMTT(30)
  <2>5. d[m] + (acc.left - 1) = n
    <3> DEFINE x == c[m]
               y == d[m]
               left == acc.left
    <3>1. x \in Nat /\ x + left = n /\ left \in Nat /\ y = x + 1
      <4>1. c[m] \in Nat
        BY <1>2 DEF IsSums
      <4> HIDE DEF h
      <4> QED BY <1>1, <1>2, <2>3, <4>1
    <3> HIDE DEF x, y, left
    <3>2. y + (left - 1) = n
      BY <3>1
    <3> QED BY <3>2 DEF y, left
  <2> HIDE DEF h, new
  <2>6. new.left = acc.left - 1 /\ new.grants = h
    BY <2>1
  <2>7. new \in Shares(chosen)
    BY <2>1, <2>4 DEF Shares
  <2>8. Shared(new, chosen, total, n, k, i)
    BY <2>2, <2>3, <2>5, <2>6 DEF Shared
  <2> QED BY <2>7, <2>8 DEF new
<1>6. CASE ~(acc.left > 0 /\ acc.grants[i] < C)
  <2>1. new = acc
    BY <1>6 DEF Grow
  <2>2. CASE acc.left = 0
    <3>1. Shared(acc, chosen, total, n, k, i)
      BY <1>2, <1>3, <2>2 DEF Shared
    <3> QED BY <2>1, <3>1
  <2>3. CASE acc.left # 0
    <3>1. acc.grants[i] = C
      BY <1>1, <1>4, <1>6, <2>3 DEF Lesser
    <3>2. ASSUME NEW j \in 1 .. m
          PROVE  acc.grants[j] = Level(chosen, total, k, i)[j]
      <4>1. CASE j = i
        BY <1>1, <1>4, <2>3, <3>1, <4>1 DEF Level, Lesser
      <4>2. CASE j # i
        BY <1>1, <1>3, <2>3, <4>2 DEF Level
      <4> QED BY <4>1, <4>2
    <3>3. acc.grants = Level(chosen, total, k, i)
      BY <1>1, <3>2 DEF Level
    <3>4. Shared(acc, chosen, total, n, k, i)
      BY <1>2, <3>3 DEF Shared
    <3> QED BY <2>1, <3>4
  <2> QED BY <2>2, <2>3
<1> QED BY <1>5, <1>6

\* The end of a pass is the start of the next one.
LEMMA NextPass ==
    ASSUME NEW chosen, Len(chosen) \in Nat, NEW total, Fitting(chosen, total),
           NEW n \in Nat, NEW k \in Nat, NEW acc \in Shares(chosen),
           Shared(acc, chosen, total, n, k, Len(chosen))
    PROVE  Shared(acc, chosen, total, n, k + 1, 0)
<1>1. Level(chosen, total, k, Len(chosen)) = Level(chosen, total, k + 1, 0)
  <2>1. ASSUME NEW j \in 1 .. Len(chosen)
        PROVE  Level(chosen, total, k, Len(chosen))[j] = Level(chosen, total, k + 1, 0)[j]
    <3>1. chosen[j].min \in Nat
      BY DEF Fitting
    <3>2. \A x \in Nat : x + k + 1 = x + (k + 1) + 0
      OBVIOUS
    <3>3. chosen[j].min + k + 1 = chosen[j].min + (k + 1) + 0
      BY <3>1, <3>2, Zenon
    <3> QED BY <3>3 DEF Level
  <2> QED BY <2>1 DEF Level
<1>2. PICK kk \in Nat, ii \in 0 .. Len(chosen) :
         /\ acc.grants = Level(chosen, total, kk, ii)
         /\ acc.left > 0 => kk = k /\ ii = Len(chosen)
  BY DEF Shared
<1>3. \E c : IsSums(c, acc.grants, Len(chosen)) /\ c[Len(chosen)] + acc.left = n
  BY DEF Shared
<1>4. CASE acc.left > 0
  BY <1>1, <1>2, <1>3, <1>4 DEF Shared
<1>5. CASE ~(acc.left > 0)
  BY <1>2, <1>3, <1>5 DEF Shared
<1> QED BY <1>4, <1>5

\* A whole pass.
LEMMA PassShared ==
    ASSUME NEW chosen, Len(chosen) \in Nat, NEW total, Fitting(chosen, total),
           NEW n \in Nat, NEW k \in Nat, NEW acc \in Shares(chosen),
           Shared(acc, chosen, total, n, k, 0)
    PROVE  LET new == Pass(acc, chosen, total)
           IN  new \in Shares(chosen) /\ Shared(new, chosen, total, n, k + 1, 0)
<1> DEFINE m == Len(chosen)
           T == [i \in 0 .. m |->
                   {x \in Shares(chosen) : Shared(x, chosen, total, n, k, i)}]
           step == [i \in 1 .. m |-> [x \in Shares(chosen) |-> Grow(x, i, chosen, total)]]
           after[i \in 0 .. Len(chosen)] ==
               IF i = 0 THEN acc ELSE Grow(after[i - 1], i, chosen, total)
<1>1. acc \in T[0]
  OBVIOUS
<1>2. \A i \in 1 .. m : \A x \in T[i - 1] : Grow(x, i, chosen, total) \in T[i]
  BY GrowShared
<1>3. \A i \in 1 .. m : \A x \in T[i - 1] : step[i][x] = Grow(x, i, chosen, total)
  OBVIOUS
<1>4. PICK f : Follows(f, m, acc, step) /\ \A i \in 0 .. m : f[i] \in T[i]
  <2>1. \A i \in 1 .. m : \A x \in T[i - 1] : step[i][x] \in T[i]
    <3> HIDE DEF T, step
    <3> QED BY <1>2, <1>3
  <2> HIDE DEF T, step, after
  <2> QED BY <1>1, <2>1, RecursionDefined
<1> HIDE DEF T, step
<1>5. f = [i \in 0 .. Len(chosen) |-> IF i = 0 THEN acc ELSE Grow(f[i - 1], i, chosen, total)]
  <2>1. ASSUME NEW i \in 0 .. m
        PROVE  f[i] = IF i = 0 THEN acc ELSE Grow(f[i - 1], i, chosen, total)
    <3>1. f[i] = IF i = 0 THEN acc ELSE step[i][f[i - 1]]
      BY <1>4 DEF Follows
    <3>2. ASSUME i # 0
          PROVE  step[i][f[i - 1]] = Grow(f[i - 1], i, chosen, total)
      <4>1. i \in 1 .. m /\ i - 1 \in 0 .. m
        BY <3>2
      <4> QED BY <1>3, <1>4, <4>1
    <3> QED BY <3>1, <3>2
  <2>2. f = [i \in 0 .. m |-> f[i]]
    BY <1>4 DEF Follows
  <2> QED BY <2>1, <2>2
<1>6. after = [i \in 0 .. Len(chosen) |->
                  IF i = 0 THEN acc ELSE Grow(after[i - 1], i, chosen, total)]
  BY <1>5
<1>7. Pass(acc, chosen, total) = after[m]
  BY DEF Pass
<1> HIDE DEF after
<1>8. \A i \in 0 .. m : after[i] \in T[i]
  <2> DEFINE A == {i \in 0 .. m : after[i] \in T[i]}
  <2>1. 0 \in A
    BY <1>1, <1>6
  <2>2. ASSUME NEW i \in 1 .. m, i - 1 \in A
        PROVE  i \in A
    <3>1. after[i] = Grow(after[i - 1], i, chosen, total)
      BY <1>6
    <3> QED BY <1>2, <2>2, <3>1
  <2> HIDE DEF A
  <2>3. \A i \in 0 .. m : i \in A
    BY <2>1, <2>2, Induct
  <2> QED BY <2>3 DEF A
<1>9. after[m] \in Shares(chosen) /\ Shared(after[m], chosen, total, n, k, m)
  BY <1>8 DEF T
<1>10. Shared(after[m], chosen, total, n, k + 1, 0)
  BY <1>9, NextPass
<1> QED BY <1>7, <1>9, <1>10

\* What n devices give the chosen requests: each its share of the same round, and
\* nothing is left unless all have all they can use.
Granted(g, chosen, total, n) ==
    /\ g \in [1 .. Len(chosen) -> Nat]
    /\ \E k \in Nat, i \in 0 .. Len(chosen) : g = Level(chosen, total, k, i)
    /\ \E c : /\ IsSums(c, g, Len(chosen))
              /\ c[Len(chosen)] <= n
              /\ c[Len(chosen)] < n =>
                    \A j \in 1 .. Len(chosen) : g[j] = Capacity(chosen[j], total)

\* All passes.
LEMMA GrantsGranted ==
    ASSUME NEW W, NEW chosen \in Seq(W), NEW total, Fitting(chosen, total),
           NEW n \in Nat, NEW left \in Nat,
           NEW c0, IsSums(c0, Minimums(chosen), Len(chosen)), c0[Len(chosen)] + left = n
    PROVE  Granted(Grants(chosen, left, total), chosen, total, n)
<1> DEFINE m == Len(chosen)
           base == [left |-> left, grants |-> Minimums(chosen)]
           T == [k \in 0 .. left |->
                   {x \in Shares(chosen) : Shared(x, chosen, total, n, k, 0)}]
           step == [k \in 1 .. left |-> [x \in Shares(chosen) |-> Pass(x, chosen, total)]]
           after[k \in 0 .. left] ==
               IF k = 0 THEN base ELSE Pass(after[k - 1], chosen, total)
<1>0. m \in Nat /\ DOMAIN chosen = 1 .. m
  BY LenProperties
<1>1. base \in T[0] /\ Minimums(chosen) \in [1 .. m -> Nat]
  <2>1. Minimums(chosen) \in [1 .. m -> Nat]
    BY <1>0 DEF Minimums, Fitting
  <2>2. Minimums(chosen) = Level(chosen, total, 0, 0)
    <3>1. ASSUME NEW j \in 1 .. m
          PROVE  Minimums(chosen)[j] = Level(chosen, total, 0, 0)[j]
      BY <1>0 DEF Minimums, Level, Fitting, Lesser
    <3> QED BY <1>0, <3>1 DEF Minimums, Level
  <2>3. base \in Shares(chosen)
    BY <2>1 DEF Shares
  <2>4. Shared(base, chosen, total, n, 0, 0)
    BY <1>0, <2>2 DEF Shared
  <2> HIDE DEF base
  <2> QED BY <2>1, <2>3, <2>4
<1>2. \A k \in 1 .. left : \A x \in T[k - 1] : Pass(x, chosen, total) \in T[k]
  <2>1. ASSUME NEW k \in 1 .. left, NEW x \in T[k - 1]
        PROVE  Pass(x, chosen, total) \in T[k]
    <3>1. k - 1 \in Nat /\ (k - 1) + 1 = k /\ k - 1 \in 0 .. left
      OBVIOUS
    <3>2. x \in Shares(chosen) /\ Shared(x, chosen, total, n, k - 1, 0)
      BY <3>1
    <3>3. /\ Pass(x, chosen, total) \in Shares(chosen)
          /\ Shared(Pass(x, chosen, total), chosen, total, n, (k - 1) + 1, 0)
      <4> HIDE DEF T, step, after, base
      <4> QED BY <1>0, <3>1, <3>2, PassShared
    <3> QED BY <3>1, <3>3
  <2> QED BY <2>1
<1>3. \A k \in 1 .. left : \A x \in T[k - 1] : step[k][x] = Pass(x, chosen, total)
  OBVIOUS
<1> HIDE DEF base
<1>4. PICK f : Follows(f, left, base, step) /\ \A k \in 0 .. left : f[k] \in T[k]
  <2>1. \A k \in 1 .. left : \A x \in T[k - 1] : step[k][x] \in T[k]
    <3> HIDE DEF T, step
    <3> QED BY <1>2, <1>3
  <2> HIDE DEF T, step, after
  <2> QED BY <1>1, <2>1, RecursionDefined
<1> HIDE DEF T, step
<1>5. f = [k \in 0 .. left |-> IF k = 0 THEN base ELSE Pass(f[k - 1], chosen, total)]
  <2>1. ASSUME NEW k \in 0 .. left
        PROVE  f[k] = IF k = 0 THEN base ELSE Pass(f[k - 1], chosen, total)
    <3>1. f[k] = IF k = 0 THEN base ELSE step[k][f[k - 1]]
      BY <1>4 DEF Follows
    <3>2. ASSUME k # 0
          PROVE  step[k][f[k - 1]] = Pass(f[k - 1], chosen, total)
      <4>1. k \in 1 .. left /\ k - 1 \in 0 .. left
        BY <3>2
      <4> QED BY <1>3, <1>4, <4>1
    <3> QED BY <3>1, <3>2
  <2>2. f = [k \in 0 .. left |-> f[k]]
    BY <1>4 DEF Follows
  <2> QED BY <2>1, <2>2
<1>6. after = [k \in 0 .. left |->
                  IF k = 0 THEN base ELSE Pass(after[k - 1], chosen, total)]
  BY <1>5
<1>7. Grants(chosen, left, total) = after[left].grants
  BY DEF Grants, base
<1> HIDE DEF after
<1>8. \A k \in 0 .. left : after[k] \in T[k]
  <2> DEFINE A == {k \in 0 .. left : after[k] \in T[k]}
  <2>1. 0 \in A
    BY <1>1, <1>6
  <2>2. ASSUME NEW k \in 1 .. left, k - 1 \in A
        PROVE  k \in A
    <3>1. after[k] = Pass(after[k - 1], chosen, total)
      BY <1>6
    <3> QED BY <1>2, <2>2, <3>1
  <2> HIDE DEF A
  <2>3. \A k \in 0 .. left : k \in A
    BY <2>1, <2>2, Induct
  <2> QED BY <2>3 DEF A
<1> DEFINE end == after[left]
           g == end.grants
<1>9. end \in Shares(chosen) /\ Shared(end, chosen, total, n, left, 0)
  BY <1>8 DEF T
<1> HIDE DEF end
<1>10. end.left \in Nat /\ g \in [1 .. m -> Nat]
  BY <1>9 DEF Shares
<1>11. PICK c : IsSums(c, g, m) /\ c[m] + end.left = n
  BY <1>9 DEF Shared
<1>12. PICK k \in Nat, i \in 0 .. m :
          g = Level(chosen, total, k, i) /\ (end.left > 0 => k = left /\ i = 0)
  BY <1>9 DEF Shared
<1>13. c[m] \in Nat /\ c0[m] \in Nat
  BY <1>0, <1>11 DEF IsSums
<1>14. ASSUME NEW j \in 1 .. m
       PROVE  /\ Minimums(chosen)[j] = chosen[j].min
              /\ Minimums(chosen)[j] <= g[j]
              /\ g[j] = Capacity(chosen[j], total) \/ end.left = 0 \/ g[j] = chosen[j].min + left
  <2>1. Minimums(chosen)[j] = chosen[j].min
    BY <1>0 DEF Minimums
  <2>2. g[j] = Lesser(Capacity(chosen[j], total),
                      chosen[j].min + k + (IF j <= i THEN 1 ELSE 0))
    BY <1>12 DEF Level
  <2> HIDE DEF g
  <2>3. chosen[j].min <= g[j]
    BY <2>2 DEF Fitting, Lesser
  <2>4. ASSUME end.left > 0
        PROVE  g[j] = Capacity(chosen[j], total) \/ g[j] = chosen[j].min + left
    BY <1>12, <2>2, <2>4 DEF Fitting, Lesser
  <2> QED BY <1>10, <2>1, <2>3, <2>4
<1>15. ASSUME c[m] < n, NEW j \in 1 .. m
       PROVE  g[j] = Capacity(chosen[j], total)
  <2> HIDE DEF g
  <2> SUFFICES ASSUME g[j] # Capacity(chosen[j], total) PROVE FALSE
    OBVIOUS
  <2>1. g[j] = chosen[j].min + left
    BY <1>10, <1>11, <1>13, <1>14, <1>15
  <2>2. c0[m] + g[j] <= c[m] + Minimums(chosen)[j]
    BY <1>0, <1>1, <1>10, <1>11, <1>14, SumsDiffer
  <2>3. chosen[j].min \in Nat
    BY DEF Fitting
  <2> DEFINE x == c0[m]
             y == c[m]
             z == chosen[j].min
  <2>4. x \in Nat /\ y \in Nat /\ z \in Nat /\ left \in Nat /\ x + (z + left) <= y + z
    BY <1>13, <1>14, <2>1, <2>2, <2>3
  <2> HIDE DEF x, y, z
  <2>5. x + left <= y
    BY <2>4
  <2> QED BY <1>13, <1>15, <2>5 DEF x, y
<1>16. c[m] <= n
  BY <1>10, <1>11, <1>13
<1> HIDE DEF g
<1>17. Granted(g, chosen, total, n)
  BY <1>10, <1>11, <1>12, <1>15, <1>16 DEF Granted
<1> QED BY <1>7, <1>17 DEF g, end

-----------------------------------------------------------------------------
(* The launch decisions *)

\* The cursor of the slices is where the grants before it end.
LEMMA SlicesAt ==
    ASSUME NEW W, NEW chosen \in Seq(W), NEW g \in [1 .. Len(chosen) -> Nat], NEW free,
           NEW c, IsSums(c, g, Len(chosen))
    PROVE  Slices(chosen, g, free) =
               [i \in 1 .. Len(chosen) |->
                   [id |-> chosen[i].id, gpus |-> SubSeq(free, c[i - 1] + 1, c[i])]]
<1> DEFINE m == Len(chosen)
           cursor[i \in 0 .. Len(chosen)] == IF i = 0 THEN 0 ELSE cursor[i - 1] + g[i]
<1>0. m \in Nat /\ DOMAIN chosen = 1 .. m
  BY LenProperties
<1>1. c = [i \in 0 .. Len(chosen) |-> IF i = 0 THEN 0 ELSE c[i - 1] + g[i]]
  <2>1. c \in [0 .. m -> Nat] /\ c[0] = 0 /\ \A j \in 1 .. m : c[j] = c[j - 1] + g[j]
    BY DEF IsSums
  <2>2. ASSUME NEW i \in 0 .. m
        PROVE  c[i] = IF i = 0 THEN 0 ELSE c[i - 1] + g[i]
    <3>1. i = 0 \/ i \in 1 .. m
      OBVIOUS
    <3> QED BY <2>1, <3>1
  <2>3. c = [i \in 0 .. m |-> c[i]]
    BY <2>1
  <2> QED BY <2>2, <2>3
<1>2. cursor = [i \in 0 .. Len(chosen) |-> IF i = 0 THEN 0 ELSE cursor[i - 1] + g[i]]
  BY <1>1
<1>3. Slices(chosen, g, free) =
        [i \in 1 .. m |->
            [id |-> chosen[i].id, gpus |-> SubSeq(free, cursor[i - 1] + 1, cursor[i])]]
  BY <1>0 DEF Slices
<1> HIDE DEF cursor
<1>4. \A i \in 0 .. m : cursor[i] \in Nat
  <2> DEFINE A == {i \in 0 .. m : cursor[i] \in Nat}
  <2>1. 0 \in A
    BY <1>0, <1>2
  <2>2. ASSUME NEW i \in 1 .. m, i - 1 \in A
        PROVE  i \in A
    <3>1. cursor[i] = cursor[i - 1] + g[i]
      BY <1>2
    <3>2. g[i] \in Nat /\ cursor[i - 1] \in Nat /\ i \in 0 .. m
      BY <2>2
    <3> QED BY <3>1, <3>2
  <2> HIDE DEF A
  <2>3. \A i \in 0 .. m : i \in A
    BY <1>0, <2>1, <2>2, Induct
  <2> QED BY <2>3 DEF A
<1>5. IsSums(cursor, g, m)
  <2>1. cursor \in [0 .. m -> Nat] /\ cursor[0] = 0
    BY <1>0, <1>2, <1>4
  <2>2. ASSUME NEW j \in 1 .. m
        PROVE  cursor[j] = cursor[j - 1] + g[j]
    BY <1>2
  <2> QED BY <2>1, <2>2 DEF IsSums
<1>6. cursor = c
  BY <1>0, <1>5, SumsUnique
<1> QED BY <1>3, <1>6

\* A launch batch: different requests of the queue, each with the next slice of the
\* free devices, between its minimum and its capacity.
BatchOf(r, c, m, plan, waiting, free, total) ==
    /\ r \in [1 .. m -> waiting]
    /\ \A i, j \in 1 .. m : i # j => r[i] # r[j]
    /\ c \in [0 .. m -> 0 .. Len(free)]
    /\ \A i, j \in 0 .. m : i <= j => c[i] <= c[j]
    /\ \A i \in 1 .. m : /\ r[i].min <= c[i] - c[i - 1]
                          /\ c[i] - c[i - 1] <= Capacity(r[i], total)
    /\ plan = [i \in 1 .. m |->
                 [id |-> r[i].id, gpus |-> SubSeq(free, c[i - 1] + 1, c[i])]]

IsBatch(plan, waiting, free, total) ==
    \E m \in Nat : \E r, c : BatchOf(r, c, m, plan, waiting, free, total)

\* Nothing is a batch.
LEMMA NoBatch ==
    ASSUME NEW waiting, NEW D, NEW free \in Seq(D), NEW total
    PROVE  IsBatch(<<>>, waiting, free, total)
<1> DEFINE r == [i \in 1 .. 0 |-> 0]
           c == [k \in 0 .. 0 |-> 0]
<1>1. Len(free) \in Nat
  BY LenProperties
<1>2. <<>> = [i \in 1 .. 0 |-> [id |-> r[i].id, gpus |-> SubSeq(free, c[i - 1] + 1, c[i])]]
  OBVIOUS
<1>3. r \in [1 .. 0 -> waiting] /\ c \in [0 .. 0 -> 0 .. Len(free)]
  BY <1>1
<1>4. \A i, j \in 0 .. 0 : i <= j => c[i] <= c[j]
  OBVIOUS
<1> HIDE DEF r, c
<1>5. BatchOf(r, c, 0, <<>>, waiting, free, total)
  BY <1>2, <1>3, <1>4 DEF BatchOf
<1> QED BY <1>5 DEF IsBatch

\* The only waiter of an idle host gets a batch of its own or waits.
LEMMA SoloBatch ==
    ASSUME NEW Ids, NEW waiting \in SUBSET Requests(Ids), NEW r \in waiting,
           NEW D, NEW free \in Seq(D), NEW total \in Nat \ {0}, NEW reserve \in Nat
    PROVE  IsBatch(SoloPlan(r, free, total, reserve), waiting, free, total)
<1> DEFINE grant == Lesser(Len(free),
                           Lesser(Capacity(r, total), SoloBudget(total, reserve)))
<1>1. Len(free) \in Nat /\ r.min \in Nat \ {0} /\ r.max \in Nat
  BY LenProperties DEF Requests
<1>2. Capacity(r, total) \in Nat /\ SoloBudget(total, reserve) \in Nat
  BY <1>1 DEF Capacity, Maximum, SoloBudget, Lesser, Greater
<1>3. grant \in Nat /\ grant <= Len(free) /\ grant <= Capacity(r, total)
  BY <1>1, <1>2 DEF Lesser
<1>4. CASE grant < r.min
  BY <1>4, NoBatch DEF SoloPlan
<1>5. CASE ~(grant < r.min)
  <2>1. SoloPlan(r, free, total, reserve) = <<[id |-> r.id, gpus |-> SubSeq(free, 1, grant)]>>
    BY <1>5 DEF SoloPlan
  <2> HIDE DEF grant
  <2> DEFINE rr == [i \in 1 .. 1 |-> r]
             c == [k \in 0 .. 1 |-> IF k = 0 THEN 0 ELSE grant]
             plan == [i \in 1 .. 1 |-> [id |-> rr[i].id, gpus |-> SubSeq(free, c[i - 1] + 1, c[i])]]
  <2>2. plan = <<[id |-> r.id, gpus |-> SubSeq(free, 1, grant)]>>
    <3>1. plan[1] = [id |-> r.id, gpus |-> SubSeq(free, 1, grant)]
      OBVIOUS
    <3>2. plan = [i \in 1 .. 1 |-> plan[1]]
      OBVIOUS
    <3>3. \A x : [i \in 1 .. 1 |-> x] = <<x>>
      OBVIOUS
    <3> HIDE DEF plan
    <3> QED BY <3>1, <3>2, <3>3
  <2>3. rr \in [1 .. 1 -> waiting] /\ c \in [0 .. 1 -> 0 .. Len(free)]
    BY <1>1, <1>3
  <2>4. /\ \A i, j \in 0 .. 1 : i <= j => c[i] <= c[j]
        /\ \A i, j \in 1 .. 1 : i # j => rr[i] # rr[j]
    BY <1>3
  <2>5. ASSUME NEW i \in 1 .. 1
        PROVE  rr[i].min <= c[i] - c[i - 1] /\ c[i] - c[i - 1] <= Capacity(rr[i], total)
    <3>1. rr[i] = r /\ c[i] - c[i - 1] = grant
      BY <1>3
    <3> HIDE DEF rr, c
    <3> QED BY <1>1, <1>3, <1>5, <3>1
  <2>6. BatchOf(rr, c, 1, plan, waiting, free, total)
    <3> HIDE DEF rr, c
    <3> QED BY <2>3, <2>4, <2>5 DEF BatchOf
  <2>7. IsBatch(plan, waiting, free, total)
    <3> HIDE DEF rr, c, plan
    <3> QED BY <2>6 DEF IsBatch
  <2> HIDE DEF plan
  <2> QED BY <2>1, <2>2, <2>7
<1> QED BY <1>4, <1>5

\* Who is chosen has a minimum that fits, for all minimums do.
LEMMA ChosenFit ==
    ASSUME NEW Ids, NEW waiting \in SUBSET Requests(Ids), NEW queue,
           NEW i, NEW acc \in Picks(waiting), NEW n \in Nat, NEW total \in Nat,
           NEW strict, n <= total, Chosen(acc, queue, n, i, strict),
           \A r \in waiting : CapacityDefined(r, total)
    PROVE  Fitting(acc.chosen, total)
<1> DEFINE chosen == acc.chosen
           left == acc.left
           m == Len(chosen)
           g == Minimums(chosen)
<1>0. /\ left \in Nat /\ m \in Nat /\ DOMAIN chosen = 1 .. m
      /\ chosen \in [1 .. m -> waiting]
  <2>1. chosen \in Seq(waiting) /\ left \in Nat
    BY DEF Picks
  <2> QED BY <2>1, LenProperties
<1>1. PICK c : IsSums(c, g, m) /\ c[m] + left = n
  BY DEF Chosen, ChosenSum
<1>2. /\ g \in [1 .. m -> Nat]
      /\ \A j \in 1 .. m : g[j] = chosen[j].min /\ chosen[j].min \in Nat /\ chosen[j].max \in Nat
  <2>1. ASSUME NEW j \in 1 .. m
        PROVE  g[j] = chosen[j].min /\ chosen[j].min \in Nat /\ chosen[j].max \in Nat
    <3>1. chosen[j] \in Requests(Ids)
      BY <1>0
    <3> QED BY <1>0, <3>1 DEF Minimums, Requests
  <2>2. g = [j \in 1 .. m |-> chosen[j].min]
    BY <1>0 DEF Minimums
  <2> HIDE DEF g, chosen
  <2> QED BY <2>1, <2>2
<1> HIDE DEF g, m, chosen, left
<1>3. ASSUME NEW j \in 1 .. m
      PROVE  chosen[j].min <= total
  <2>1. c[j] <= c[m]
    <3>1. j \in 0 .. m /\ m \in 0 .. m /\ j <= m
      BY <1>0
    <3> QED BY <1>0, <1>1, <1>2, <3>1, SumsGrow
  <2>2. c[j] = c[j - 1] + g[j] /\ c[j] \in Nat /\ c[j - 1] \in Nat /\ c[m] \in Nat
    <3>1. j \in 0 .. m /\ m \in 0 .. m /\ j - 1 \in 0 .. m
      BY <1>0
    <3> QED BY <1>1, <3>1 DEF IsSums
  <2>3. g[j] = chosen[j].min /\ g[j] \in Nat
    BY <1>2
  <2>4. g[j] <= c[m]
    BY <2>1, <2>2, <2>3
  <2> QED BY <1>0, <1>1, <2>2, <2>3, <2>4
<1>4. ASSUME NEW j \in 1 .. m
      PROVE  /\ chosen[j].min \in Nat /\ Capacity(chosen[j], total) \in Nat
             /\ chosen[j].min <= Capacity(chosen[j], total)
  <2>1. chosen[j] \in waiting /\ chosen[j].min \in Nat /\ chosen[j].max \in Nat
    BY <1>0, <1>2
  <2>2. Maximum(chosen[j], total) \in Nat /\ chosen[j].min <= Maximum(chosen[j], total)
    BY <2>1 DEF CapacityDefined, Maximum
  <2> QED BY <1>3, <2>1, <2>2 DEF Capacity, Lesser
<1> QED BY <1>4 DEF Fitting, m, chosen

\* The arguments of a call that does not raise.
Accepted(Ids, D, free, waiting, total, activeJobs, externalBusy, reserve, strict) ==
    /\ waiting \in SUBSET Requests(Ids) /\ IsFiniteSet(waiting) /\ Ordered(waiting)
    /\ free \in Seq(D) /\ total \in Nat /\ reserve \in Nat /\ strict \in BOOLEAN
    /\ ~PlanRaises(free, waiting, total, activeJobs, externalBusy, reserve)

\* The fair branch: some requests are chosen, each is granted something, and the free
\* devices are cut into slices of that many.
FairShape(picked, g, queue, free, total, strict) ==
    /\ Chosen(picked, queue, Len(free), Len(queue), strict)
    /\ Fitting(picked.chosen, total)
    /\ Granted(g, picked.chosen, total, Len(free))

\* So it is, for every queue.
LEMMA FairPlanShape ==
    ASSUME NEW Ids, NEW waiting \in SUBSET Requests(Ids), NEW m \in Nat,
           NEW queue \in [1 .. m -> waiting], NEW D, NEW free \in Seq(D),
           NEW total \in Nat, NEW strict \in BOOLEAN,
           Len(free) <= total, \A r \in waiting : CapacityDefined(r, total)
    PROVE  LET picked == Selection(queue, Len(free), strict)
               g == Grants(picked.chosen, picked.left, total)
           IN  /\ picked \in Picks(waiting)
               /\ FairShape(picked, g, queue, free, total, strict)
               /\ FairPlan(queue, free, total, strict) = Slices(picked.chosen, g, free)
<1> DEFINE n == Len(free)
           picked == Selection(queue, n, strict)
           chosen == picked.chosen
           left == picked.left
<1>1. n \in Nat /\ Len(queue) = m
  BY LenProperties
<1>2. picked \in Picks(waiting) /\ Chosen(picked, queue, n, m, strict)
  <2> HIDE DEF n
  <2> QED BY <1>1, SelectionChosen, SMTT(30)
<1>3. chosen \in Seq(waiting) /\ left \in Nat
  BY <1>2 DEF Picks
<1>4. FairPlan(queue, free, total, strict) = Slices(chosen, Grants(chosen, left, total), free)
  BY DEF FairPlan
<1> HIDE DEF picked, n
<1>5. Fitting(chosen, total)
  BY <1>1, <1>2, ChosenFit DEF n
<1>6. PICK c0 : IsSums(c0, Minimums(chosen), Len(chosen)) /\ c0[Len(chosen)] + left = n
  BY <1>2 DEF Chosen, ChosenSum
<1>7. Granted(Grants(chosen, left, total), chosen, total, n)
  BY <1>1, <1>3, <1>5, <1>6, GrantsGranted
<1> QED BY <1>1, <1>2, <1>4, <1>5, <1>7 DEF FairShape, picked, n

\* What has this shape is a batch.
LEMMA ShapeIsBatch ==
    ASSUME NEW waiting, NEW m \in Nat, NEW queue \in [1 .. m -> waiting],
           \A i, j \in 1 .. m : i < j => queue[i] # queue[j],
           NEW D, NEW free \in Seq(D), NEW total,
           NEW picked \in Picks(waiting), NEW g, NEW strict,
           FairShape(picked, g, queue, free, total, strict)
    PROVE  IsBatch(Slices(picked.chosen, g, free), waiting, free, total)
<1> DEFINE chosen == picked.chosen
           len == Len(chosen)
           n == Len(free)
<1>0. chosen \in Seq(waiting)
  BY DEF Picks
<1>1. n \in Nat /\ Len(queue) = m /\ len \in Nat /\ chosen \in [1 .. len -> waiting]
  BY <1>0, LenProperties
<1>2. PICK pos : IsPlaces(pos, len, m) /\ \A k \in 1 .. len : chosen[k] = queue[pos[k]]
  BY <1>1 DEF FairShape, Chosen, ChosenSum
<1>3. PICK k \in Nat, i \in 0 .. len : g = Level(chosen, total, k, i)
  BY DEF FairShape, Granted
<1>4. g \in [1 .. len -> Nat]
  BY DEF FairShape, Granted
<1>5. PICK c : IsSums(c, g, len) /\ c[len] <= n
  BY DEF FairShape, Granted
<1> HIDE DEF len, n
<1>6. \A a, b \in 0 .. len : a <= b => c[a] <= c[b]
  BY <1>1, <1>4, <1>5, SumsGrow
<1>7. c \in [0 .. len -> 0 .. n]
  <2>1. c \in [0 .. len -> Nat]
    BY <1>5 DEF IsSums
  <2>2. ASSUME NEW a \in 0 .. len
        PROVE  c[a] \in 0 .. n
    <3>1. c[a] <= c[len] /\ c[a] \in Nat /\ c[len] \in Nat
      BY <1>1, <1>6, <2>1
    <3> QED BY <1>1, <1>5, <3>1
  <2> QED BY <2>1, <2>2
<1>8. ASSUME NEW a \in 1 .. len
      PROVE  chosen[a].min <= c[a] - c[a - 1] /\ c[a] - c[a - 1] <= Capacity(chosen[a], total)
  <2>1. c[a] = c[a - 1] + g[a] /\ c[a - 1] \in Nat /\ g[a] \in Nat
    <3>1. a - 1 \in 0 .. len
      BY <1>1
    <3> QED BY <1>4, <1>5, <3>1 DEF IsSums
  <2>2. g[a] = Lesser(Capacity(chosen[a], total),
                      chosen[a].min + k + (IF a <= i THEN 1 ELSE 0))
    BY <1>3 DEF Level, len
  <2>3. /\ chosen[a].min \in Nat /\ Capacity(chosen[a], total) \in Nat
        /\ chosen[a].min <= Capacity(chosen[a], total)
    BY DEF FairShape, Fitting, len
  <2>4. chosen[a].min <= g[a] /\ g[a] <= Capacity(chosen[a], total)
    BY <2>2, <2>3, SMTT(30) DEF Lesser
  <2>5. c[a] - c[a - 1] = g[a]
    BY <2>1
  <2> QED BY <2>4, <2>5
<1>9. ASSUME NEW a \in 1 .. len, NEW b \in 1 .. len, a # b
      PROVE  chosen[a] # chosen[b]
  <2>1. /\ pos[a] \in 1 .. m /\ pos[b] \in 1 .. m
        /\ a < b => pos[a] < pos[b]
        /\ b < a => pos[b] < pos[a]
    BY <1>2 DEF IsPlaces
  <2>2. chosen[a] = queue[pos[a]] /\ chosen[b] = queue[pos[b]]
    BY <1>2
  <2>3. a < b \/ b < a
    BY <1>1, <1>9
  <2> QED BY <2>1, <2>2, <2>3
<1>10. Slices(chosen, g, free) =
        [a \in 1 .. len |-> [id |-> chosen[a].id, gpus |-> SubSeq(free, c[a - 1] + 1, c[a])]]
  <2> HIDE DEF chosen
  <2> QED BY <1>0, <1>4, <1>5, SlicesAt DEF len
<1>11. BatchOf(chosen, c, len, Slices(chosen, g, free), waiting, free, total)
  BY <1>1, <1>6, <1>7, <1>8, <1>9, <1>10 DEF BatchOf, n
<1> QED BY <1>1, <1>11 DEF IsBatch

\* Whatever the queue, the devices and the settings: a call of plan_allocations that
\* does not raise returns a batch.
THEOREM PlanIsBatch ==
    ASSUME NEW Ids, NEW D, NEW free, NEW waiting, NEW total, NEW activeJobs,
           NEW externalBusy, NEW reserve, NEW strict,
           Accepted(Ids, D, free, waiting, total, activeJobs, externalBusy, reserve, strict)
    PROVE  IsBatch(Plan(free, waiting, total, activeJobs, externalBusy, reserve, strict),
                   waiting, free, total)
<1> DEFINE queue == QueueOrder(waiting)
           m == Cardinality(waiting)
<1>1. /\ waiting \in SUBSET Requests(Ids) /\ IsFiniteSet(waiting) /\ Ordered(waiting)
      /\ free \in Seq(D) /\ total \in Nat /\ reserve \in Nat /\ strict \in BOOLEAN
      /\ \A r \in waiting : CapacityDefined(r, total)
      /\ Len(free) <= total /\ total >= 1
  BY DEF Accepted, PlanRaises, ArgumentsValid
<1>2. CASE free = <<>> \/ waiting = {}
  BY <1>1, <1>2, NoBatch DEF Plan
<1>3. CASE ~(free = <<>> \/ waiting = {}) /\ IsSolo(waiting, activeJobs, externalBusy)
  <2>1. (CHOOSE r \in waiting : TRUE) \in waiting
    BY <1>3
  <2>2. total \in Nat \ {0}
    BY <1>1
  <2>3. IsBatch(SoloPlan(CHOOSE r \in waiting : TRUE, free, total, reserve), waiting, free, total)
    BY <1>1, <2>1, <2>2, SoloBatch
  <2> QED BY <1>3, <2>3 DEF Plan
<1>4. CASE ~(free = <<>> \/ waiting = {}) /\ ~IsSolo(waiting, activeJobs, externalBusy)
  <2>1. /\ m \in Nat /\ queue \in [1 .. m -> waiting]
        /\ \A i, j \in 1 .. m : i < j => queue[i] # queue[j]
    BY <1>1, QueueSorted
  <2> HIDE DEF m, queue
  <2> DEFINE picked == Selection(queue, Len(free), strict)
             g == Grants(picked.chosen, picked.left, total)
  <2>2. /\ picked \in Picks(waiting)
        /\ FairShape(picked, g, queue, free, total, strict)
        /\ FairPlan(queue, free, total, strict) = Slices(picked.chosen, g, free)
    BY <1>1, <2>1, FairPlanShape
  <2> HIDE DEF picked, g
  <2>3. IsBatch(Slices(picked.chosen, g, free), waiting, free, total)
    BY <1>1, <2>1, <2>2, ShapeIsBatch
  <2>4. Plan(free, waiting, total, activeJobs, externalBusy, reserve, strict)
          = FairPlan(queue, free, total, strict)
    BY <1>4 DEF Plan, queue
  <2> QED BY <2>2, <2>3, <2>4
<1> QED BY <1>2, <1>3, <1>4

-----------------------------------------------------------------------------
(* What a batch promises *)

\* A launch decision gives a waiting request the free devices from lo + 1 to hi.
SliceIs(decision, r, lo, hi, waiting, free) ==
    /\ decision.id = r.id /\ r \in waiting
    /\ lo \in Nat /\ hi \in Nat /\ lo <= hi
    /\ Len(decision.gpus) = hi - lo
    /\ DOMAIN decision.gpus = 1 .. hi - lo
    /\ \A k \in 1 .. hi - lo :
         lo + k \in 1 .. Len(free) /\ decision.gpus[k] = free[lo + k]

\* The i-th launch decision of a batch.
LEMMA SliceAt ==
    ASSUME NEW r, NEW c, NEW m \in Nat, NEW plan, NEW waiting, NEW D, NEW free \in Seq(D),
           NEW total, BatchOf(r, c, m, plan, waiting, free, total), NEW i \in 1 .. m
    PROVE  DOMAIN plan = 1 .. m /\ SliceIs(plan[i], r[i], c[i - 1], c[i], waiting, free)
<1>1. /\ r[i] \in waiting /\ c \in [0 .. m -> 0 .. Len(free)]
      /\ \A a, b \in 0 .. m : a <= b => c[a] <= c[b]
      /\ plan = [a \in 1 .. m |->
                   [id |-> r[a].id, gpus |-> SubSeq(free, c[a - 1] + 1, c[a])]]
  BY DEF BatchOf
<1>2. i \in 0 .. m /\ i - 1 \in 0 .. m
  OBVIOUS
<1>3. Len(free) \in Nat /\ \A k \in 1 .. Len(free) : free[k] \in D
  BY LenProperties
<1>4. c[i] \in 0 .. Len(free) /\ c[i - 1] \in 0 .. Len(free) /\ c[i - 1] <= c[i]
  BY <1>1, <1>2, SMTT(30)
<1>5. plan[i].id = r[i].id /\ plan[i].gpus = SubSeq(free, c[i - 1] + 1, c[i])
  BY <1>1
<1> DEFINE lo == c[i - 1]
           hi == c[i]
           gpus == plan[i].gpus
<1> HIDE DEF lo, hi
<1>6. lo \in 0 .. Len(free) /\ hi \in 0 .. Len(free) /\ lo <= hi
  BY <1>4 DEF lo, hi
<1>7. gpus = SubSeq(free, lo + 1, hi)
  BY <1>5 DEF lo, hi
<1> HIDE DEF gpus
<1>8. /\ gpus \in Seq(D)
      /\ Len(gpus) = IF lo + 1 <= hi THEN hi - (lo + 1) + 1 ELSE 0
      /\ \A k \in 1 .. hi - (lo + 1) + 1 : gpus[k] = free[lo + 1 + k - 1]
  <2>1. \A k \in lo + 1 .. hi : free[k] \in D
    BY <1>3, <1>6
  <2>2. lo + 1 \in Int /\ hi \in Int
    BY <1>6
  <2> QED BY <1>7, <2>1, <2>2, SubSeqProperties
<1>9. Len(gpus) = hi - lo /\ DOMAIN gpus = 1 .. hi - lo
  <2>1. Len(gpus) = hi - lo
    BY <1>6, <1>8
  <2>2. DOMAIN gpus = 1 .. Len(gpus)
    BY <1>8, LenProperties
  <2> QED BY <2>1, <2>2
<1>10. ASSUME NEW k \in 1 .. hi - lo
       PROVE  lo + k \in 1 .. Len(free) /\ gpus[k] = free[lo + k]
  <2>1. k \in 1 .. hi - (lo + 1) + 1 /\ lo + 1 + k - 1 = lo + k
    BY <1>6
  <2>2. lo + k \in 1 .. Len(free)
    BY <1>3, <1>6
  <2> QED BY <1>8, <2>1, <2>2
<1>11. plan[i].id = r[i].id /\ DOMAIN plan = 1 .. m
  BY <1>1, <1>5
<1>12. SliceIs(plan[i], r[i], lo, hi, waiting, free)
  <2> DEFINE decision == plan[i]
             ri == r[i]
  <2>1. decision.id = ri.id /\ ri \in waiting /\ lo \in Nat /\ hi \in Nat /\ lo <= hi
    BY <1>1, <1>6, <1>11
  <2>2. /\ Len(decision.gpus) = hi - lo
        /\ DOMAIN decision.gpus = 1 .. hi - lo
        /\ \A k \in 1 .. hi - lo :
             lo + k \in 1 .. Len(free) /\ decision.gpus[k] = free[lo + k]
    BY <1>9, <1>10 DEF gpus
  <2> HIDE DEF decision, ri
  <2>3. SliceIs(decision, ri, lo, hi, waiting, free)
    BY <2>1, <2>2 DEF SliceIs
  <2> QED BY <2>3 DEF decision, ri
<1> QED BY <1>11, <1>12 DEF lo, hi

\* Every launch decision is for a request of its own, gives it what it asked for, and
\* takes devices from the list that no other decision takes.
Separate(plan, waiting, free, total) ==
    /\ \A i \in DOMAIN plan : \E r \in waiting :
         /\ plan[i].id = r.id
         /\ r.min <= Len(plan[i].gpus) /\ Len(plan[i].gpus) <= Capacity(r, total)
    /\ \A i, j \in DOMAIN plan : i # j => plan[i].id # plan[j].id
    /\ \A i \in DOMAIN plan : \A k \in DOMAIN plan[i].gpus :
         \E f \in 1 .. Len(free) : plan[i].gpus[k] = free[f]
    /\ \A i, j \in DOMAIN plan : \A k \in DOMAIN plan[i].gpus, l \in DOMAIN plan[j].gpus :
         plan[i].gpus[k] = plan[j].gpus[l] => i = j /\ k = l

\* A batch does, when the list has no device twice and identifiers identify requests.
LEMMA BatchSeparate ==
    ASSUME NEW plan, NEW waiting, NEW D, NEW free \in Seq(D), NEW total,
           IsBatch(plan, waiting, free, total),
           \A k, l \in 1 .. Len(free) : free[k] = free[l] => k = l,
           \A r, s \in waiting : r.id = s.id => r = s
    PROVE  Separate(plan, waiting, free, total)
<1>1. PICK m \in Nat : \E r, c : BatchOf(r, c, m, plan, waiting, free, total)
  BY DEF IsBatch
<1>2. PICK r, c : BatchOf(r, c, m, plan, waiting, free, total)
  BY <1>1
<1>3. ASSUME NEW i \in 1 .. m
      PROVE  SliceIs(plan[i], r[i], c[i - 1], c[i], waiting, free)
  BY <1>2, SliceAt
<1>4. DOMAIN plan = 1 .. m
  BY <1>2 DEF BatchOf
<1>5. ASSUME NEW i \in 1 .. m
      PROVE  /\ r[i].min <= Len(plan[i].gpus)
             /\ Len(plan[i].gpus) <= Capacity(r[i], total)
  BY <1>2, <1>3 DEF BatchOf, SliceIs
<1>6. ASSUME NEW i \in 1 .. m, NEW j \in 1 .. m, i # j
      PROVE  plan[i].id # plan[j].id
  <2>1. r[i] # r[j]
    BY <1>2, <1>6 DEF BatchOf
  <2>2. /\ plan[i].id = r[i].id /\ r[i] \in waiting
        /\ plan[j].id = r[j].id /\ r[j] \in waiting
    BY <1>3 DEF SliceIs
  <2> QED BY <2>1, <2>2
<1>7. ASSUME NEW i \in 1 .. m, NEW j \in 1 .. m, i < j
      PROVE  c[i] <= c[j - 1]
  <2>1. i \in 0 .. m /\ j - 1 \in 0 .. m /\ i <= j - 1
    BY <1>7
  <2>2. \A a, b \in 0 .. m : a <= b => c[a] <= c[b]
    BY <1>2 DEF BatchOf
  <2> QED BY <2>1, <2>2
<1>8. ASSUME NEW i \in 1 .. m, NEW j \in 1 .. m,
             NEW k \in DOMAIN plan[i].gpus, NEW l \in DOMAIN plan[j].gpus,
             plan[i].gpus[k] = plan[j].gpus[l]
      PROVE  i = j /\ k = l
  <2> DEFINE ci == c[i]
             cj == c[j]
             bi == c[i - 1]
             bj == c[j - 1]
  <2>1. /\ ci \in Nat /\ bi \in Nat /\ bi <= ci /\ k \in 1 .. ci - bi
        /\ bi + k \in 1 .. Len(free) /\ plan[i].gpus[k] = free[bi + k]
    BY <1>3 DEF SliceIs
  <2>2. /\ cj \in Nat /\ bj \in Nat /\ bj <= cj /\ l \in 1 .. cj - bj
        /\ bj + l \in 1 .. Len(free) /\ plan[j].gpus[l] = free[bj + l]
    BY <1>3 DEF SliceIs
  <2>3. (i < j => ci <= bj) /\ (j < i => cj <= bi) /\ (i = j => bi = bj)
    BY <1>7
  <2> HIDE DEF ci, cj, bi, bj
  <2>4. bi + k = bj + l
    BY <1>8, <2>1, <2>2
  <2>5. CASE i < j
    BY <2>1, <2>2, <2>3, <2>4, <2>5
  <2>6. CASE j < i
    BY <2>1, <2>2, <2>3, <2>4, <2>6
  <2>7. CASE i = j
    BY <2>1, <2>2, <2>3, <2>4, <2>7
  <2> QED BY <2>5, <2>6, <2>7
<1>9. ASSUME NEW i \in 1 .. m, NEW k \in DOMAIN plan[i].gpus
      PROVE  \E f \in 1 .. Len(free) : plan[i].gpus[k] = free[f]
  <2>1. k \in 1 .. c[i] - c[i - 1]
    BY <1>3 DEF SliceIs
  <2> QED BY <1>3, <2>1, ZenonT(30) DEF SliceIs
<1>10. \A i \in 1 .. m : \E q \in waiting :
         /\ plan[i].id = q.id
         /\ q.min <= Len(plan[i].gpus) /\ Len(plan[i].gpus) <= Capacity(q, total)
  BY <1>3, <1>5 DEF SliceIs
<1> QED BY <1>4, <1>6, <1>8, <1>9, <1>10 DEF Separate
=============================================================================
