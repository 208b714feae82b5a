----------------------------- MODULE SearchProofs -----------------------------
(***************************************************************************)
(* What the searches of the guide paths rest on, for every grid: the       *)
(* loops, the heap, the distances and the tables that hold them.           *)
(***************************************************************************)
EXTENDS Search, SimulatorProofs, FiniteSetTheorems, SequenceTheorems,
        WellFoundedInduction

-----------------------------------------------------------------------------
(* What loops compute.                                                     *)

(* A set of numbers has a least one.                                       *)
LEMMA LeastNumber ==
  ASSUME NEW S \in SUBSET Nat, S # {}
  PROVE  \E n \in S : \A k \in S : n <= k
<1> DEFINE R == {ss \in Nat \X Nat : ss[1] < ss[2]}
<1>1. \A k, n \in Nat : <<k, n>> \in R <=> k < n
  OBVIOUS
<1>2. IsWellFoundedOn(R, Nat)
  BY NatLessThanWellFounded, Zenon DEF OpToRel
<1> HIDE DEF R
<1>3. \E n \in S : \A k \in S : <<k, n>> \notin R
  BY <1>2, WFMin
<1>4. \A k, n \in Nat : k < n \/ n <= k
  OBVIOUS
<1> QED BY <1>1, <1>3, <1>4

(* What holds at first and of each next number holds up to N.              *)
LEMMA UpTo ==
  ASSUME NEW N \in Nat, NEW T, 0 \in T, \A n \in 1..N : n - 1 \in T => n \in T
  PROVE  \A n \in 0..N : n \in T
<1> DEFINE Bad == {n \in 0..N : n \notin T}
<1> SUFFICES ASSUME Bad # {} PROVE FALSE
  OBVIOUS
<1>1. Bad \in SUBSET Nat
  OBVIOUS
<1>2. PICK n \in Bad : \A k \in Bad : n <= k
  BY <1>1, LeastNumber
<1>3. n \in 1..N /\ n - 1 \in 0..N /\ ~(n <= n - 1)
  BY <1>2
<1> QED BY <1>2, <1>3

(* A loop of N steps, the n-th of which takes x to step[<<n, x>>].         *)
Steps(N, S) == [(1..N) \X S -> S]
Runs(g, N, S, b, step) ==
  /\ g \in [0..N -> S]
  /\ g[0] = b
  /\ \A n \in 1..N : <<n, g[n-1]>> \in (1..N) \X S /\ g[n] = step[<<n, g[n-1]>>]

(* Each loop has a run, whose values stay in S.                            *)
LEMMA Loop ==
  ASSUME NEW N \in Nat, NEW S, NEW b \in S, NEW step \in Steps(N, S)
  PROVE  \E g : Runs(g, N, S, b, step)
<1> USE DEF Steps
<1> DEFINE Part(g, m) == g[0] = b /\ \A n \in 1..m : g[n] = step[<<n, g[n-1]>>]
           T == {m \in 0..N : \E g \in [0..m -> S] : Part(g, m)}
<1>1. 0 \in T
  <2>1. [n \in 0..0 |-> b] \in [0..0 -> S] /\ Part([n \in 0..0 |-> b], 0)
    OBVIOUS
  <2> HIDE DEF Part
  <2>2. \E g \in [0..0 -> S] : Part(g, 0)
    BY <2>1
  <2> QED BY <2>2
<1>2. ASSUME NEW m \in 1..N, m - 1 \in T PROVE m \in T
  <2>1. PICK g \in [0..m-1 -> S] : Part(g, m-1)
    BY <1>2
  <2> DEFINE h == [n \in 0..m |-> IF n = m THEN step[<<m, g[m-1]>>] ELSE g[n]]
  <2>2. g[m-1] \in S /\ step[<<m, g[m-1]>>] \in S
    <3>1. m - 1 \in 0..m-1
      OBVIOUS
    <3>2. <<m, g[m-1]>> \in (1..N) \X S
      BY <3>1
    <3> QED BY <3>1, <3>2
  <2>3. h \in [0..m -> S]
    BY <2>2
  <2>4. h[0] = b
    BY <2>1
  <2>5. ASSUME NEW n \in 1..m PROVE h[n] = step[<<n, h[n-1]>>]
    <3>1. n - 1 \in 0..m /\ n - 1 # m /\ h[n-1] = g[n-1]
      OBVIOUS
    <3>2. CASE n = m
      BY <3>1, <3>2
    <3>3. CASE n # m
      <4>1. n \in 1..m-1 /\ h[n] = g[n]
        BY <3>3
      <4> QED BY <2>1, <3>1, <4>1
    <3> QED BY <3>2, <3>3
  <2>6. Part(h, m)
    BY <2>4, <2>5
  <2> HIDE DEF h, Part
  <2>7. \E f \in [0..m -> S] : Part(f, m)
    BY <2>3, <2>6
  <2> QED BY <2>7
<1> HIDE DEF T
<1>3. N \in T
  BY <1>1, <1>2, UpTo
<1>4. PICK g \in [0..N -> S] : Part(g, N)
  BY <1>3 DEF T
<1>5. \A n \in 1..N : g[n-1] \in S
  OBVIOUS
<1>6. Runs(g, N, S, b, step)
  BY <1>4, <1>5 DEF Runs
<1> QED BY <1>6

-----------------------------------------------------------------------------
(* The heap: its operations rearrange what is in it.                       *)

(* Half of a position is one further up.                                   *)
LEMMA Halves ==
  \A n \in Nat : /\ n \div 2 \in Nat /\ n \div 2 <= n
                 /\ n > 0 => n \div 2 < n
                 /\ n > 1 => n \div 2 > 0
OBVIOUS

(* The lineage of a position is made by halving it again and again.        *)
LEMMA Ancestors ==
  ASSUME NEW i \in Nat \ {0}
  PROVE  \E up \in [0..i -> Nat] :
           /\ Lineage(i) = {up[k] : k \in 0..i} \ {0}
           /\ up[0] = i
           /\ \A k \in 1..i : up[k] = up[k-1] \div 2
<1> DEFINE step == [x \in (1..i) \X Nat |-> x[2] \div 2]
<1>1. step \in Steps(i, Nat)
  BY Halves DEF Steps
<1>2. i \in Nat
  OBVIOUS
<1> HIDE DEF step
<1>3. PICK g : Runs(g, i, Nat, i, step)
  BY <1>1, <1>2, Loop
<1> USE DEF Runs
<1>4. ASSUME NEW n \in 1..i PROVE g[n] = g[n-1] \div 2
  BY <1>3 DEF step
<1>5. g = [k \in 0..i |-> IF k = 0 THEN i ELSE g[k-1] \div 2]
  BY <1>3, <1>4
<1> DEFINE up == CHOOSE f : f = [k \in 0..i |-> IF k = 0 THEN i ELSE f[k-1] \div 2]
<1>6. Lineage(i) = {up[k] : k \in 0..i} \ {0}
  BY DEF Lineage
<1>7. up = [k \in 0..i |-> IF k = 0 THEN i ELSE up[k-1] \div 2]
  BY <1>5
<1> HIDE DEF up
<1>8. up[0] = i /\ \A k \in 1..i : up[k] = up[k-1] \div 2
  BY <1>7
<1>9. \A k \in 0..i : k \in {n \in 0..i : up[n] \in Nat}
  <2> DEFINE T == {n \in 0..i : up[n] \in Nat}
  <2>1. 0 \in T /\ \A n \in 1..i : n - 1 \in T => n \in T
    BY <1>8, Halves
  <2> HIDE DEF T
  <2>2. \A k \in 0..i : k \in T
    BY <2>1, UpTo
  <2> QED BY <2>2 DEF T
<1>10. up \in [0..i -> Nat]
  BY <1>7, <1>9
<1> QED BY <1>6, <1>8, <1>10

(* From a position of the heap the way up is a chain.                      *)
LEMMA LineageOf ==
  ASSUME NEW i \in Nat \ {0}
  PROVE  /\ Lineage(i) \subseteq 1..i
         /\ i \in Lineage(i)
         /\ \A k \in Lineage(i) : k # 1 => k \div 2 \in Lineage(i)
         /\ \A k \in Lineage(i) : k # i => \E c \in Lineage(i) : c > 1 /\ c \div 2 = k
         /\ \A j, k \in Lineage(i) : j < k => j <= k \div 2
<1>1. PICK up \in [0..i -> Nat] :
        /\ Lineage(i) = {up[k] : k \in 0..i} \ {0}
        /\ up[0] = i
        /\ \A k \in 1..i : up[k] = up[k-1] \div 2
  BY Ancestors
<1>2. \A k \in 0..i : up[k] = 0 \/ up[k] <= i - k
  <2> DEFINE T == {n \in 0..i : up[n] = 0 \/ up[n] <= i - n}
  <2>1. 0 \in T
    BY <1>1
  <2>2. ASSUME NEW n \in 1..i, n - 1 \in T PROVE n \in T
    <3>1. up[n-1] \in Nat /\ up[n] = up[n-1] \div 2
      BY <1>1
    <3>2. up[n-1] = 0 \/ up[n-1] <= i - (n - 1)
      BY <2>2
    <3>3. up[n] = 0 \/ up[n] < up[n-1]
      BY <3>1, Halves
    <3> QED BY <3>1, <3>2, <3>3
  <2> HIDE DEF T
  <2>3. \A k \in 0..i : k \in T
    BY <2>1, <2>2, UpTo
  <2> QED BY <2>3 DEF T
<1>3. \A m \in 0..i : \A n \in 0..i : n > m => up[n] <= up[m+1]
  <2> SUFFICES ASSUME NEW m \in 0..i
               PROVE  \A n \in 0..i : n > m => up[n] <= up[m+1]
    OBVIOUS
  <2> DEFINE T == {n \in 0..i : n > m => up[n] <= up[m+1]}
  <2>1. 0 \in T
    OBVIOUS
  <2>2. ASSUME NEW n \in 1..i, n - 1 \in T PROVE n \in T
    <3>1. up[n-1] \in Nat /\ up[n] = up[n-1] \div 2 /\ up[n] \in Nat
      BY <1>1
    <3>2. up[n] <= up[n-1]
      BY <3>1, Halves
    <3>3. CASE n > m + 1
      <4>1. up[n-1] <= up[m+1] /\ up[m+1] \in Nat
        BY <2>2, <3>3
      <4> QED BY <3>1, <3>2, <4>1
    <3>4. CASE n = m + 1
      BY <3>1, <3>4
    <3>5. CASE n <= m
      BY <3>5
    <3> QED BY <3>3, <3>4, <3>5
  <2> HIDE DEF T
  <2>3. \A n \in 0..i : n \in T
    BY <2>1, <2>2, UpTo
  <2> QED BY <2>3 DEF T
<1>4. Lineage(i) \subseteq 1..i /\ i \in Lineage(i)
  BY <1>1, <1>2
<1>5. ASSUME NEW k \in Lineage(i), k # 1 PROVE k \div 2 \in Lineage(i)
  <2>1. PICK m \in 0..i : up[m] = k
    BY <1>1
  <2>2. k > 1 /\ m # i /\ m + 1 \in 1..i
    BY <1>2, <1>4, <1>5, <2>1
  <2>3. up[m+1] = k \div 2 /\ k \div 2 # 0
    BY <1>1, <2>1, <2>2, Halves
  <2> QED BY <1>1, <2>2, <2>3
<1>6. ASSUME NEW k \in Lineage(i), k # i
      PROVE  \E c \in Lineage(i) : c > 1 /\ c \div 2 = k
  <2>1. PICK m \in 0..i : up[m] = k
    BY <1>1
  <2>2. m \in 1..i /\ m - 1 \in 0..i /\ k > 0
    BY <1>1, <1>4, <1>6, <2>1
  <2>3. up[m-1] \in Nat /\ up[m-1] \div 2 = k
    BY <1>1, <2>1, <2>2
  <2>4. k \in Nat /\ up[m-1] > 1
    BY <1>4, <2>2, <2>3
  <2>5. up[m-1] \in Lineage(i)
    BY <1>1, <2>2, <2>4
  <2> QED BY <2>3, <2>4, <2>5
<1>7. ASSUME NEW j \in Lineage(i), NEW k \in Lineage(i), j < k
      PROVE  j <= k \div 2
  <2>1. PICK m \in 0..i : up[m] = k
    BY <1>1
  <2>2. PICK n \in 0..i : up[n] = j
    BY <1>1
  <2>3. CASE n > m
    <3>1. m + 1 \in 1..i /\ up[m+1] = k \div 2
      BY <1>1, <2>1, <2>3
    <3> QED BY <1>3, <2>2, <2>3, <3>1
  <2>4. CASE n = m
    BY <1>4, <1>7, <2>1, <2>2, <2>4
  <2>5. CASE n < m
    <3>1. k <= up[n+1] /\ up[n+1] = j \div 2 /\ up[n+1] \in Nat
      BY <1>1, <1>3, <2>1, <2>2, <2>5
    <3>2. j \in Nat /\ k \in Nat
      BY <1>4
    <3>3. j \div 2 <= j
      BY <3>2, Halves
    <3> QED BY <1>7, <3>1, <3>2, <3>3
  <2> QED BY <2>3, <2>4, <2>5
<1> QED BY <1>4, <1>5, <1>6, <1>7

(* A heap of nodes: none is in it twice.                                   *)
OneEach(heap) == \A i, j \in DOMAIN heap : heap[i] = heap[j] => i = j
Heaps(S) == {heap \in Seq(S) : OneEach(heap)}

(* A sequence with the elements of another in other places.                *)
Permutes(n, from, to) ==
  /\ from \in [1..n -> 1..n] /\ to \in [1..n -> 1..n]
  /\ \A k \in 1..n : from[to[k]] = k
  /\ \A j, k \in 1..n : from[j] = from[k] => j = k

(* What is rearranged is the same set, each once.                          *)
LEMMA Rearranged ==
  ASSUME NEW S, NEW heap \in Heaps(S), NEW from, NEW to, Permutes(Len(heap), from, to),
         NEW other, other = [k \in DOMAIN heap |-> heap[from[k]]]
  PROVE  other \in Heaps(S) /\ ToSet(other) = ToSet(heap)
<1> DEFINE n == Len(heap)
<1>0. /\ n \in Nat /\ from \in [1..n -> 1..n] /\ to \in [1..n -> 1..n]
      /\ \A k \in 1..n : from[to[k]] = k
      /\ \A j, k \in 1..n : from[j] = from[k] => j = k
  BY LenProperties DEF Permutes, Heaps
<1>1. DOMAIN heap = 1..n /\ heap \in [1..n -> S] /\ OneEach(heap)
  BY LenProperties DEF Heaps
<1> HIDE DEF n
<1>2. other \in [1..n -> S] /\ \A k \in 1..n : other[k] = heap[from[k]]
  BY <1>0, <1>1
<1>3. other \in Seq(S) /\ DOMAIN other = 1..n
  BY <1>0, <1>2, IsASeq
<1>4. OneEach(other)
  BY <1>0, <1>1, <1>2, <1>3 DEF OneEach
<1>5. \A x : x \in ToSet(other) <=> x \in ToSet(heap)
  <2>1. \A x : x \in ToSet(other) <=> \E k \in 1..n : x = other[k]
    BY <1>3 DEF ToSet
  <2>2. \A x : x \in ToSet(heap) <=> \E k \in 1..n : x = heap[k]
    BY <1>1 DEF ToSet
  <2>3. ASSUME NEW k \in 1..n PROVE heap[k] = other[to[k]] /\ to[k] \in 1..n
    BY <1>0, <1>2
  <2>4. ASSUME NEW k \in 1..n PROVE other[k] = heap[from[k]] /\ from[k] \in 1..n
    BY <1>0, <1>2
  <2>5. ASSUME NEW x, x \in ToSet(other) PROVE x \in ToSet(heap)
    BY <2>1, <2>2, <2>4, <2>5
  <2>6. ASSUME NEW x, x \in ToSet(heap) PROVE x \in ToSet(other)
    BY <2>1, <2>2, <2>3, <2>6
  <2> QED BY <2>5, <2>6
<1> QED BY <1>3, <1>4, <1>5 DEF Heaps

(* Which position the node comes from, and where it goes to, when the one  *)
(* at i goes up to j.                                                      *)
LEMMA RaisedRearranges ==
  ASSUME NEW S, NEW heap \in Heaps(S), NEW i \in DOMAIN heap, NEW j \in Lineage(i)
  PROVE  Raised(heap, i, j) \in Heaps(S) /\ ToSet(Raised(heap, i, j)) = ToSet(heap)
<1> DEFINE n == Len(heap)
           L == Lineage(i)
           Below(k) == CHOOSE c \in L : c > 1 /\ c \div 2 = k
           from == [k \in 1..n |-> IF k = j THEN i
                                   ELSE IF k \in L /\ k > j THEN k \div 2 ELSE k]
           to == [k \in 1..n |-> IF k = i THEN j
                                 ELSE IF k \in L /\ k >= j THEN Below(k) ELSE k]
<1>1. n \in Nat /\ DOMAIN heap = 1..n /\ i \in 1..n /\ i \in Nat \ {0}
  BY LenProperties DEF Heaps
<1>2. L \subseteq 1..n /\ i \in L /\ j \in L /\ j <= i /\ L \subseteq 1..i
  BY <1>1, LineageOf
<1>3. \A k \in L : k # 1 => k \div 2 \in L
  BY <1>1, LineageOf
<1>4. \A k \in L : k # i => Below(k) \in L /\ Below(k) > 1 /\ Below(k) \div 2 = k
  BY <1>1, LineageOf
<1>5. \A k, l \in L : k < l => k <= l \div 2
  BY <1>1, LineageOf
<1> HIDE DEF L, Below, n
<1>6. \A k, l \in L : k \div 2 = l \div 2 /\ k > 1 /\ l > 1 => k = l
  <2> SUFFICES ASSUME NEW k \in L, NEW l \in L, k \div 2 = l \div 2, k > 1, l > 1, k < l
               PROVE  FALSE
    BY <1>1, <1>2
  <2>1. k <= l \div 2 /\ k \div 2 < k /\ k \in Nat /\ k \div 2 \in Nat
    BY <1>1, <1>2, <1>5, Halves
  <2> QED BY <2>1
<1>7. \A k \in L : k > j => k > 1 /\ k \div 2 \in L /\ k \div 2 < k /\ k \div 2 >= j
  BY <1>1, <1>2, <1>3, <1>5, Halves
<1>8. ASSUME NEW k \in L, k # i PROVE Below(k) > k
  <2>1. PICK c \in L : c = Below(k)
    BY <1>4, <1>8
  <2>2. c > 1 /\ c \div 2 = k
    BY <1>4, <1>8, <2>1
  <2>3. c \in Nat /\ c \div 2 < c
    BY <1>1, <1>2, <2>2, Halves
  <2> QED BY <2>1, <2>2, <2>3
<1>9. from \in [1..n -> 1..n]
  BY <1>1, <1>2, <1>7
<1>10. to \in [1..n -> 1..n]
  BY <1>1, <1>2, <1>4
<1>11. ASSUME NEW k \in 1..n PROVE from[to[k]] = k
  <2>1. CASE k = i
    BY <1>1, <1>2, <2>1
  <2>2. CASE k # i /\ k \in L /\ k >= j
    <3>1. to[k] = Below(k) /\ Below(k) \in L /\ Below(k) \in 1..n
      BY <1>2, <1>4, <2>2
    <3>2. Below(k) > j /\ Below(k) # j
      BY <1>1, <1>2, <1>8, <2>2, <3>1
    <3> QED BY <1>4, <2>2, <3>1, <3>2
  <2>3. CASE k # i /\ ~(k \in L /\ k >= j)
    <3>1. to[k] = k /\ k # j
      BY <1>1, <1>2, <2>3
    <3> QED BY <1>1, <1>2, <2>3, <3>1
  <2> QED BY <2>1, <2>2, <2>3
<1>12. ASSUME NEW k \in 1..n, NEW l \in 1..n, from[k] = from[l] PROVE k = l
  <2> DEFINE Moves(m) == m \in L /\ m > j
  <2>1. \A m \in 1..n : from[m] = IF m = j THEN i ELSE IF Moves(m) THEN m \div 2 ELSE m
    OBVIOUS
  <2>2. \A m \in 1..n : Moves(m) => /\ m \div 2 # i
                                    /\ \A o \in 1..n : o # j /\ ~Moves(o) => m \div 2 # o
    BY <1>1, <1>2, <1>7
  <2>3. \A o \in 1..n : o # j /\ ~Moves(o) => o # i
    BY <1>1, <1>2
  <2>4. \A m, o \in 1..n : Moves(m) /\ Moves(o) /\ m \div 2 = o \div 2 => m = o
    BY <1>6, <1>7
  <2> HIDE DEF from, Moves
  <2> QED BY <1>12, <2>1, <2>2, <2>3, <2>4
<1>13. Raised(heap, i, j) = [k \in DOMAIN heap |-> heap[from[k]]]
  BY <1>1 DEF Raised, L
<1> HIDE DEF from, to
<1>14. Permutes(Len(heap), from, to)
  BY <1>9, <1>10, <1>11, <1>12 DEF Permutes, n
<1> QED BY <1>13, <1>14, Rearranged

(* The same the other way round, when the first one goes down to j.        *)
LEMMA SunkRearranges ==
  ASSUME NEW S, NEW heap \in Heaps(S), NEW j \in DOMAIN heap
  PROVE  Sunk(heap, j) \in Heaps(S) /\ ToSet(Sunk(heap, j)) = ToSet(heap)
<1> DEFINE n == Len(heap)
           L == Lineage(j)
           Below(k) == CHOOSE c \in L : c > 1 /\ c \div 2 = k
           from == [k \in 1..n |-> IF k = j THEN 1 ELSE IF k \in L THEN Below(k) ELSE k]
           to == [k \in 1..n |-> IF k = 1 THEN j ELSE IF k \in L THEN k \div 2 ELSE k]
<1>1. n \in Nat /\ DOMAIN heap = 1..n /\ j \in 1..n /\ j \in Nat \ {0}
  BY LenProperties DEF Heaps
<1>2. L \subseteq 1..n /\ j \in L /\ L \subseteq 1..j
  BY <1>1, LineageOf
<1>3. \A k \in L : k # 1 => k \div 2 \in L
  BY <1>1, LineageOf
<1>4. \A k \in L : k # j => Below(k) \in L /\ Below(k) > 1 /\ Below(k) \div 2 = k
  BY <1>1, LineageOf
<1>5. \A k, l \in L : k < l => k <= l \div 2
  BY <1>1, LineageOf
<1> HIDE DEF L, Below, n
<1>6. \A k, l \in L : k \div 2 = l \div 2 /\ k > 1 /\ l > 1 => k = l
  <2> SUFFICES ASSUME NEW k \in L, NEW l \in L, k \div 2 = l \div 2, k > 1, l > 1, k < l
               PROVE  FALSE
    BY <1>1, <1>2
  <2>1. k <= l \div 2 /\ k \div 2 < k /\ k \in Nat /\ k \div 2 \in Nat
    BY <1>1, <1>2, <1>5, Halves
  <2> QED BY <2>1
<1>7. \A k \in L : k # 1 => k \div 2 \in L /\ k \div 2 < k /\ k > 1
  BY <1>1, <1>2, <1>3, Halves
<1>8. from \in [1..n -> 1..n]
  <2>1. \A k \in L : k # j => Below(k) \in 1..n
    BY <1>2, <1>4
  <2>2. 1 \in 1..n
    BY <1>1
  <2> QED BY <2>1, <2>2
<1>9. to \in [1..n -> 1..n]
  BY <1>1, <1>2, <1>7
<1>10. 1 \in L
  <2>1. PICK least \in L : \A k \in L : least <= k
    <3>1. L \in SUBSET Nat /\ L # {}
      BY <1>1, <1>2
    <3> QED BY <3>1, LeastNumber
  <2>2. least = 1
    BY <1>1, <1>2, <1>7, <2>1
  <2> QED BY <2>1, <2>2
<1>11. ASSUME NEW k \in 1..n PROVE from[to[k]] = k
  <2>1. CASE k = 1
    BY <1>1, <2>1
  <2>2. CASE k # 1 /\ k \in L
    <3>1. to[k] = k \div 2 /\ k \div 2 \in L /\ k \div 2 \in 1..n
      BY <1>2, <1>7, <2>2
    <3>2. k \div 2 # j /\ from[k \div 2] = Below(k \div 2)
      BY <1>1, <1>2, <1>7, <2>2, <3>1
    <3>3. Below(k \div 2) = k
      BY <1>4, <1>6, <1>7, <2>2, <3>1, <3>2
    <3> QED BY <3>1, <3>2, <3>3
  <2>3. CASE k \notin L
    BY <1>2, <1>10, <2>3
  <2> QED BY <2>1, <2>2, <2>3
<1>12. ASSUME NEW k \in 1..n, NEW l \in 1..n, from[k] = from[l] PROVE k = l
  <2>1. \A m \in 1..n : from[m] = IF m = j THEN 1 ELSE IF m \in L THEN Below(m) ELSE m
    OBVIOUS
  <2>2. \A m \in L : m # j => Below(m) \in L /\ Below(m) # 1
    BY <1>1, <1>2, <1>4
  <2>3. \A m, o \in L : m # j /\ o # j /\ Below(m) = Below(o) => m = o
    BY <1>4
  <2> HIDE DEF from
  <2> QED BY <1>2, <1>10, <1>12, <2>1, <2>2, <2>3
<1>13. Sunk(heap, j) = [k \in DOMAIN heap |-> heap[from[k]]]
  BY <1>1 DEF Sunk, L, Below
<1> HIDE DEF from, to
<1>14. Permutes(Len(heap), from, to)
  BY <1>8, <1>9, <1>11, <1>12 DEF Permutes, n
<1> QED BY <1>13, <1>14, Rearranged

(* So heapify_up and heapify_down lose nothing and double nothing.         *)
LEMMA UpRearranges ==
  ASSUME NEW S, NEW heap \in Heaps(S), NEW i \in DOMAIN heap, NEW nodes,
         NEW h \in heapify_up(nodes, heap, i)
  PROVE  h \in Heaps(S) /\ ToSet(h) = ToSet(heap)
<1>1. PICK j \in Lineage(i) : h = Raised(heap, i, j)
  BY DEF heapify_up
<1> QED BY <1>1, RaisedRearranges

(* The other direction.                                                    *)
LEMMA DownRearranges ==
  ASSUME NEW S, NEW heap \in Heaps(S), NEW nodes, NEW h \in heapify_down(nodes, heap)
  PROVE  h \in Heaps(S) /\ ToSet(h) = ToSet(heap)
<1>1. PICK j \in DOMAIN heap : h = Sunk(heap, j)
  BY DEF heapify_down
<1> QED BY <1>1, SunkRearranges

(* What each operation makes of the nodes in the heap.                     *)
LEMMA HeapPush ==
  ASSUME NEW S, NEW heap \in Heaps(S), NEW id \in S, id \notin ToSet(heap), NEW nodes,
         NEW h \in push(nodes, heap, id)
  PROVE  h \in Heaps(S) /\ ToSet(h) = ToSet(heap) \cup {id}
<1> DEFINE longer == Append(heap, id)
           n == Len(heap)
<1>1. heap \in Seq(S) /\ n \in Nat /\ DOMAIN heap = 1..n /\ OneEach(heap)
  BY LenProperties DEF Heaps
<1>2. longer \in Seq(S) /\ Len(longer) = n + 1 /\ DOMAIN longer = 1..n+1
  BY <1>1, AppendProperties, LenProperties
<1>3. longer[n+1] = id /\ \A k \in 1..n : longer[k] = heap[k]
  BY <1>1, AppendProperties
<1> HIDE DEF longer, n
<1>4. OneEach(longer)
  <2> SUFFICES ASSUME NEW k \in 1..n+1, NEW l \in 1..n+1, longer[k] = longer[l]
               PROVE  k = l
    BY <1>2 DEF OneEach
  <2>1. \A m \in 1..n : heap[m] # id
    BY <1>1 DEF ToSet
  <2>2. k \in 1..n \/ k = n + 1
    BY <1>1
  <2>3. l \in 1..n \/ l = n + 1
    BY <1>1
  <2> QED BY <1>1, <1>3, <2>1, <2>2, <2>3 DEF OneEach
<1>5. ToSet(longer) = ToSet(heap) \cup {id}
  <2>1. \A x : x \in ToSet(longer) <=> \E k \in 1..n+1 : x = longer[k]
    BY <1>2 DEF ToSet
  <2>2. \A x : x \in ToSet(heap) <=> \E k \in 1..n : x = heap[k]
    BY <1>1 DEF ToSet
  <2>3. \A k \in 1..n+1 : k \in 1..n \/ k = n + 1
    BY <1>1
  <2>4. n + 1 \in 1..n+1 /\ 1..n \subseteq 1..n+1
    BY <1>1
  <2>5. \A x : x \in ToSet(longer) <=> x \in ToSet(heap) \/ x = id
    BY <1>3, <2>1, <2>2, <2>3, <2>4
  <2> QED BY <2>5
<1>6. longer \in Heaps(S) /\ n + 1 \in DOMAIN longer
  BY <1>1, <1>2, <1>4 DEF Heaps
<1>7. h \in heapify_up(nodes, longer, n + 1)
  BY DEF push, longer, n
<1> QED BY <1>5, <1>6, <1>7, UpRearranges

(* A changed key leaves the same nodes.                                    *)
LEMMA HeapDecreaseKey ==
  ASSUME NEW S, NEW heap \in Heaps(S), NEW id \in ToSet(heap), NEW nodes,
         NEW h \in decrease_key(nodes, heap, id)
  PROVE  h \in Heaps(S) /\ ToSet(h) = ToSet(heap)
<1>1. \E i \in DOMAIN heap : heap[i] = id
  BY DEF ToSet
<1>2. PICK i \in DOMAIN heap : i = CHOOSE k \in DOMAIN heap : heap[k] = id
  BY <1>1
<1>3. h \in heapify_up(nodes, heap, i)
  BY <1>2 DEF decrease_key
<1> QED BY <1>3, UpRearranges

(* A pop takes the first one out.                                          *)
LEMMA HeapPop ==
  ASSUME NEW S, NEW heap \in Heaps(S), heap # <<>>, NEW nodes, NEW h \in pop(nodes, heap)
  PROVE  /\ Head(heap) \in S /\ Head(heap) \in ToSet(heap)
         /\ h \in Heaps(S) /\ ToSet(h) = ToSet(heap) \ {Head(heap)}
<1> DEFINE n == Len(heap)
<1>1. /\ heap \in Seq(S) /\ n \in Nat /\ n >= 1 /\ DOMAIN heap = 1..n
      /\ heap \in [1..n -> S] /\ OneEach(heap)
  BY LenProperties, EmptySeq DEF Heaps
<1> HIDE DEF n
<1>2. Head(heap) = heap[1] /\ heap[1] \in S /\ heap[1] \in ToSet(heap)
  BY <1>1, HeadTailProperties DEF ToSet
<1>3. \A x : x \in ToSet(heap) <=> \E k \in 1..n : x = heap[k]
  BY <1>1 DEF ToSet
<1>4. CASE n = 1
  <2>1. h = <<>>
    BY <1>4 DEF pop, n
  <2>2. <<>> \in Heaps(S) /\ ToSet(<<>>) = {}
    BY EmptySeq DEF Heaps, OneEach, ToSet
  <2>3. \A x \in ToSet(heap) : x = heap[1]
    BY <1>3, <1>4
  <2> QED BY <1>2, <2>1, <2>2, <2>3
<1>5. CASE n # 1
  <2> DEFINE shorter == [Front(heap) EXCEPT ![1] = Last(heap)]
  <2>1. /\ Front(heap) \in Seq(S) /\ DOMAIN Front(heap) = 1..n-1
        /\ \A k \in 1..n-1 : Front(heap)[k] = heap[k]
    <3>1. /\ SubSeq(heap, 1, n-1) \in Seq(S) /\ Len(SubSeq(heap, 1, n-1)) = n - 1
          /\ \A k \in 1..n-1 : SubSeq(heap, 1, n-1)[k] = heap[k]
      BY <1>1, SubSeqProperties DEF n
    <3> QED BY <3>1, LenProperties DEF Front, n
  <2>2. Last(heap) = heap[n] /\ heap[n] \in S
    BY <1>1 DEF Last, n
  <2>3. 1 \in 1..n-1
    BY <1>1, <1>5
  <2>4. /\ DOMAIN shorter = 1..n-1 /\ shorter[1] = heap[n]
        /\ \A k \in 2..n-1 : shorter[k] = heap[k]
    BY <2>1, <2>2, <2>3
  <2>5. shorter \in [1..n-1 -> S]
    <3>1. Front(heap) \in [1..n-1 -> S]
      BY <1>1, <2>1, LenProperties
    <3> QED BY <2>2, <3>1
  <2>6. h \in heapify_down(nodes, shorter)
    BY <1>5 DEF pop, n
  <2> HIDE DEF shorter
  <2>7. n - 1 \in Nat
    BY <1>1
  <2>8. shorter \in Seq(S)
    BY <2>5, <2>7, IsASeq
  <2>9. OneEach(shorter)
    <3> SUFFICES ASSUME NEW k \in 1..n-1, NEW l \in 1..n-1, shorter[k] = shorter[l]
                 PROVE  k = l
      BY <2>4 DEF OneEach
    <3>1. k = 1 \/ k \in 2..n-1
      BY <1>1
    <3>2. l = 1 \/ l \in 2..n-1
      BY <1>1
    <3>3. \A m \in 2..n-1 : m \in 1..n /\ m # n
      BY <1>1
    <3>4. n \in 1..n
      BY <1>1
    <3> QED BY <1>1, <2>4, <3>1, <3>2, <3>3, <3>4 DEF OneEach
  <2>10. ToSet(shorter) = ToSet(heap) \ {heap[1]}
    <3>1. \A x : x \in ToSet(shorter) <=> \E k \in 1..n-1 : x = shorter[k]
      BY <2>4 DEF ToSet
    <3>2. ASSUME NEW x \in ToSet(shorter) PROVE x \in ToSet(heap) \ {heap[1]}
      <4>1. PICK k \in 1..n-1 : x = shorter[k]
        BY <3>1
      <4>2. PICK l \in 2..n : x = heap[l]
        <5>1. CASE k = 1
          BY <1>1, <1>5, <2>4, <4>1, <5>1
        <5>2. CASE k # 1
          BY <1>1, <2>4, <4>1, <5>2
        <5> QED BY <5>1, <5>2
      <4>3. l \in 1..n /\ 1 \in 1..n /\ l # 1
        BY <1>1
      <4> QED BY <1>1, <1>3, <4>2, <4>3 DEF OneEach
    <3>3. ASSUME NEW x \in ToSet(heap) \ {heap[1]} PROVE x \in ToSet(shorter)
      <4>1. PICK k \in 1..n : x = heap[k]
        BY <1>3
      <4>2. CASE k = n
        BY <2>3, <2>4, <3>1, <4>1, <4>2
      <4>3. CASE k # n
        <5>1. k \in 2..n-1 /\ k \in 1..n-1
          BY <1>1, <4>1, <4>3
        <5> QED BY <2>4, <3>1, <4>1, <5>1
      <4> QED BY <4>2, <4>3
    <3> QED BY <3>2, <3>3
  <2>11. shorter \in Heaps(S)
    BY <2>8, <2>9 DEF Heaps
  <2> QED BY <1>2, <2>6, <2>10, <2>11, DownRearranges
<1> QED BY <1>4, <1>5

-----------------------------------------------------------------------------
(* The heap keeps its order by cost.                                       *)

(* Positions of a heap whose values rise on every way down.                *)
Rising(n, v) == \A k \in 2..n : v[k \div 2] <= v[k]

(* The way up of a position ends at the root.                              *)
LEMMA UpToTheRoot == ASSUME NEW i \in Nat \ {0} PROVE 1 \in Lineage(i)
<1>1. /\ Lineage(i) \subseteq 1..i /\ i \in Lineage(i)
      /\ \A k \in Lineage(i) : k # 1 => k \div 2 \in Lineage(i)
  BY LineageOf
<1> DEFINE L == Lineage(i)
<1> HIDE DEF L
<1>2. L \in SUBSET Nat /\ L # {} /\ L \subseteq 1..i
      /\ \A k \in L : k # 1 => k \div 2 \in L
  BY <1>1 DEF L
<1>3. PICK m \in L : \A k \in L : m <= k
  BY <1>2, LeastNumber
<1>4. m \in Nat /\ m > 0
  BY <1>2
<1>5. m # 1 => m \div 2 \in L /\ m \div 2 < m /\ m \div 2 \in Nat
  BY <1>2, <1>4, Halves
<1>6. m = 1
  BY <1>3, <1>4, <1>5
<1> QED BY <1>3, <1>6 DEF L

(* A position below the root, and that above it.                           *)
LEMMA OneUp ==
  ASSUME NEW n \in Nat, NEW k \in 2..n
  PROVE  k \div 2 \in 1..n /\ k \div 2 < k /\ k \in Nat /\ k \div 2 \in Nat
BY Halves

(* Where it rises but to i, which is raised as far as j.                   *)
LEMMA RaisedRises ==
  ASSUME NEW n \in Nat, NEW v \in [1..n -> Int], NEW i \in 1..n, NEW j \in Lineage(i),
         \A k \in 2..n : k # i => v[k \div 2] <= v[k],
         \A k \in 2..n : k \div 2 = i /\ i > 1 => v[i \div 2] <= v[k],
         \A k \in Lineage(i) : k > j => v[i] <= v[k \div 2],
         j > 1 => v[j \div 2] <= v[i],
         NEW w, w = [k \in 1..n |-> IF k = j THEN v[i]
                                    ELSE IF k \in Lineage(i) /\ k > j THEN v[k \div 2]
                                    ELSE v[k]]
  PROVE  Rising(n, w)
<1> DEFINE L == Lineage(i)
<1>1. /\ L \subseteq 1..i /\ i \in L
      /\ \A k \in L : k # 1 => k \div 2 \in L
      /\ \A k \in L : k # i => \E c \in L : c > 1 /\ c \div 2 = k
      /\ \A x, y \in L : x < y => x <= y \div 2
  BY LineageOf
<1>2. j \in L /\ \A k \in L : k > j => v[i] <= v[k \div 2]
  OBVIOUS
<1>3. \A k \in 1..n : w[k] = IF k = j THEN v[i]
                             ELSE IF k \in L /\ k > j THEN v[k \div 2] ELSE v[k]
  OBVIOUS
<1> HIDE DEF L
<1>4. j \in 1..i /\ i \in 1..n /\ j \in Nat /\ i \in Nat /\ L \subseteq 1..n /\ L \subseteq Nat
  BY <1>1, <1>2
<1>5. \A k \in 1..n : v[k] \in Int
  OBVIOUS
<1> SUFFICES ASSUME NEW k \in 2..n PROVE w[k \div 2] <= w[k]
  BY DEF Rising
<1> DEFINE p == k \div 2
<1>6. p \in 1..n /\ p < k /\ k \in Nat /\ p \in Nat /\ k \in 1..n
  BY OneUp
<1>7. p # 1 => p \in 2..n /\ p \div 2 \in 1..n /\ p \div 2 < p
  <2> HIDE DEF p
  <2>1. p # 1 => p \in 2..n
    BY <1>6
  <2> QED BY <2>1, OneUp
<1>8. CASE k = j
  <2>1. w[k] = v[i] /\ w[p] = v[p]
    <3> HIDE DEF p
    <3> QED BY <1>3, <1>6, <1>8
  <2> QED BY <1>6, <1>8, <2>1
<1>9. CASE k \in L /\ k > j
  <2>1. w[k] = v[p]
    BY <1>3, <1>6, <1>9
  <2>2. p \in L /\ j <= p
    BY <1>1, <1>2, <1>4, <1>6, <1>9
  <2>3. CASE p = j
    <3>1. w[p] = v[i] /\ v[i] <= v[p]
      BY <1>2, <1>3, <1>6, <1>9, <2>3
    <3> QED BY <2>1, <3>1
  <2>4. CASE p # j
    <3>1. p > j /\ p # 1 /\ p # i
      BY <1>1, <1>4, <1>6, <1>9, <2>2, <2>4
    <3>2. w[p] = v[p \div 2]
      BY <1>3, <1>6, <2>2, <3>1
    <3>3. v[p \div 2] <= v[p]
      BY <1>7, <3>1
    <3> QED BY <2>1, <3>2, <3>3
  <2> QED BY <2>3, <2>4
<1>10. CASE k # j /\ ~(k \in L /\ k > j)
  <2>1. w[k] = v[k]
    BY <1>3, <1>6, <1>10
  <2>2. k # i
    BY <1>1, <1>4, <1>10
  <2>3. v[p] <= v[k]
    BY <2>2
  <2>4. CASE p = j
    <3>1. w[p] = v[i]
      BY <1>3, <1>6, <2>4
    <3>2. CASE j = i
      BY <2>1, <2>3, <2>4, <3>1, <3>2
    <3>3. CASE j # i
      <4>1. PICK c \in L : c > 1 /\ c \div 2 = j
        BY <1>1, <1>2, <3>3
      <4>2. c \in Nat /\ c > j
        BY <1>4, <4>1, Halves
      <4>3. v[i] <= v[j]
        BY <1>2, <4>1, <4>2
      <4> QED BY <1>4, <1>5, <1>6, <2>1, <2>3, <2>4, <3>1, <4>3
    <3> QED BY <3>2, <3>3
  <2>5. CASE p \in L /\ p > j
    <3>1. p # 1 /\ p # j
      BY <1>4, <1>6, <2>5
    <3>2. w[p] = v[p \div 2]
      BY <1>3, <1>6, <2>5, <3>1
    <3>3. CASE p = i
      <4>1. i > 1
        BY <1>4, <1>6, <3>1, <3>3
      <4>2. v[i \div 2] <= v[k]
        BY <3>3, <4>1
      <4> QED BY <2>1, <3>2, <3>3, <4>2
    <3>4. CASE p # i
      <4>1. v[p \div 2] <= v[p]
        BY <1>7, <3>1, <3>4
      <4> QED BY <1>5, <1>6, <1>7, <2>1, <2>3, <3>1, <3>2, <4>1
    <3> QED BY <3>3, <3>4
  <2>6. CASE p # j /\ ~(p \in L /\ p > j)
    <3>1. w[p] = v[p]
      BY <1>3, <1>6, <2>6
    <3> QED BY <2>1, <2>3, <3>1
  <2> QED BY <2>4, <2>5, <2>6
<1> QED BY <1>8, <1>9, <1>10

(* Where it rises but from the root, which sinks as far as j.              *)
LEMMA SunkRises ==
  ASSUME NEW n \in Nat, NEW v \in [1..n -> Int], NEW j \in 1..n,
         \A k \in 2..n : k \div 2 # 1 => v[k \div 2] <= v[k],
         \A k \in Lineage(j) : k # 1 =>
           /\ v[k] <= v[1]
           /\ \A s \in 2..n : s \div 2 = k \div 2 => v[k] <= v[s],
         \A s \in 2..n : s \div 2 = j => v[1] <= v[s],
         NEW w, w = [k \in 1..n |->
                       IF k = j THEN v[1]
                       ELSE IF k \in Lineage(j)
                         THEN v[CHOOSE c \in Lineage(j) : c > 1 /\ c \div 2 = k]
                       ELSE v[k]]
  PROVE  Rising(n, w)
<1> DEFINE L == Lineage(j)
           Below(k) == CHOOSE c \in L : c > 1 /\ c \div 2 = k
<1>1. /\ L \subseteq 1..j /\ j \in L /\ 1 \in L
      /\ \A k \in L : k # 1 => k \div 2 \in L
      /\ \A k \in L : k # j => \E c \in L : c > 1 /\ c \div 2 = k
      /\ \A x, y \in L : x < y => x <= y \div 2
  BY LineageOf, UpToTheRoot
<1>2. \A k \in L : k # 1 => /\ v[k] <= v[1]
                            /\ \A s \in 2..n : s \div 2 = k \div 2 => v[k] <= v[s]
  OBVIOUS
<1>3. \A k \in 1..n : w[k] = IF k = j THEN v[1]
                             ELSE IF k \in L THEN v[Below(k)] ELSE v[k]
  OBVIOUS
<1>4. \A k \in L : k # j => Below(k) \in L /\ Below(k) > 1 /\ Below(k) \div 2 = k
  BY <1>1
<1> HIDE DEF L, Below
<1>5. L \subseteq 1..n /\ L \subseteq Nat /\ j \in Nat
  BY <1>1
<1> SUFFICES ASSUME NEW k \in 2..n PROVE w[k \div 2] <= w[k]
  BY DEF Rising
<1> DEFINE p == k \div 2
<1>6. p \in 1..n /\ p < k /\ k \in Nat /\ p \in Nat /\ k \in 1..n /\ k # 1
  BY OneUp
<1>7. CASE p = j
  <2>1. k \notin L /\ k # j
    BY <1>1, <1>6, <1>7
  <2>2. w[p] = v[1] /\ w[k] = v[k]
    BY <1>3, <1>6, <1>7, <2>1
  <2> QED BY <1>7, <2>2
<1>8. CASE p \in L /\ p # j
  <2> DEFINE c == Below(p)
  <2>1. c \in L /\ c > 1 /\ c \div 2 = p
    BY <1>4, <1>8
  <2> HIDE DEF c
  <2>2. w[p] = v[c]
    BY <1>3, <1>6, <1>8 DEF c
  <2>3. c \in 2..n /\ c # 1 /\ v[c] <= v[1] /\ v[c] <= v[k]
    <3>1. c \in 2..n /\ c # 1
      BY <1>5, <2>1
    <3> QED BY <1>2, <2>1, <3>1
  <2>4. CASE k = c
    <3>1. CASE c = j
      BY <1>3, <1>6, <2>2, <2>3, <2>4, <3>1
    <3>2. CASE c # j
      <4> DEFINE cc == Below(c)
      <4>1. cc \in L /\ cc > 1 /\ cc \div 2 = c
        BY <1>4, <2>1, <3>2
      <4> HIDE DEF cc
      <4>2. w[k] = v[cc]
        BY <1>3, <1>6, <2>1, <2>4, <3>2 DEF cc
      <4>3. cc \in 2..n
        BY <1>5, <4>1
      <4>4. v[c] <= v[cc]
        BY <2>3, <4>1, <4>3
      <4> QED BY <2>2, <4>2, <4>4
    <3> QED BY <3>1, <3>2
  <2>5. CASE k # c
    <3>1. k \notin L
      <4>1. k \in L => ~(c < k) /\ ~(k < c)
        <5>1. k \in L /\ c < k => c <= p
          BY <1>1, <2>1
        <5>2. k \in L /\ k < c => k <= p
          BY <1>1, <2>1
        <5>3. p < c
          BY <1>5, <2>1, Halves
        <5> QED BY <1>5, <1>6, <2>1, <5>1, <5>2, <5>3
      <4> QED BY <1>5, <1>6, <2>1, <2>5, <4>1
    <3>2. w[k] = v[k]
      BY <1>1, <1>3, <1>6, <3>1
    <3> QED BY <2>2, <2>3, <3>2
  <2> QED BY <2>4, <2>5
<1>9. CASE p \notin L
  <2>1. k \notin L /\ p # 1 /\ p # j /\ k # j
    BY <1>1, <1>6, <1>9
  <2>2. w[p] = v[p] /\ w[k] = v[k]
    BY <1>3, <1>6, <1>9, <2>1
  <2> QED BY <2>1, <2>2
<1> QED BY <1>7, <1>8, <1>9

(* What the nodes of a heap cost, and the order it keeps them in.          *)
Costs(nodes, heap) == [k \in DOMAIN heap |-> get_all(nodes[heap[k]])]
Priced(nodes, heap) == \A k \in DOMAIN heap : get_all(nodes[heap[k]]) \in Int
HeapOrder(nodes, heap) ==
  \A i \in 2..Len(heap) : get_all(nodes[heap[i \div 2]]) <= get_all(nodes[heap[i]])

(* The order of the search is first of all the order by cost.              *)
LEMMA CostFirst ==
  ASSUME NEW x, NEW y, get_all(x) \in Int, get_all(y) \in Int
  PROVE  /\ MayPrecede(x, y) => get_all(x) <= get_all(y)
         /\ MayNotPrecede(x, y) => get_all(y) <= get_all(x)
<1>1. \A a, b : Key(a)[1] < Key(b)[1] => Before(a, b)
  <2> SUFFICES ASSUME NEW a, NEW b, Key(a)[1] < Key(b)[1] PROVE Before(a, b)
    OBVIOUS
  <2>1. \A i \in 1..1-1 : Key(a)[i] = Key(b)[i]
    OBVIOUS
  <2> HIDE DEF Key
  <2>2. 1 \in 1..4
    OBVIOUS
  <2> QED BY <2>1, <2>2 DEF Before
<1>2. \A a : Key(a)[1] = get_all(a)
  BY DEF Key
<1> HIDE DEF Before, Key, get_all
<1> QED BY <1>1, <1>2 DEF MayPrecede, MayNotPrecede

(* The order, told from the values at the positions.                       *)
LEMMA OrderRises ==
  ASSUME NEW S, NEW heap \in Seq(S), NEW nodes
  PROVE  HeapOrder(nodes, heap) <=> Rising(Len(heap), Costs(nodes, heap))
<1>1. DOMAIN heap = 1..Len(heap) /\ Len(heap) \in Nat
  BY LenProperties
<1>2. \A k \in 2..Len(heap) : k \in DOMAIN heap /\ k \div 2 \in DOMAIN heap
  BY <1>1, OneUp
<1> QED BY <1>1, <1>2 DEF HeapOrder, Rising, Costs

(* The first one costs least.                                              *)
LEMMA FirstIsLeast ==
  ASSUME NEW S, NEW heap \in Seq(S), heap # <<>>, NEW nodes, Priced(nodes, heap),
         HeapOrder(nodes, heap)
  PROVE  \A c \in ToSet(heap) : get_all(nodes[Head(heap)]) <= get_all(nodes[c])
<1> DEFINE n == Len(heap)
           v == Costs(nodes, heap)
           Bad == {k \in 1..n : ~(v[1] <= v[k])}
<1>1. n \in Nat \ {0} /\ DOMAIN heap = 1..n /\ Head(heap) = heap[1]
  BY LenProperties, EmptySeq
<1>2. v \in [1..n -> Int] /\ \A k \in 1..n : v[k] = get_all(nodes[heap[k]])
  BY <1>1 DEF Priced, Costs
<1>3. \A k \in 2..n : v[k \div 2] <= v[k]
  BY OrderRises DEF Rising
<1> HIDE DEF v, n
<1>4. Bad = {}
  <2> SUFFICES ASSUME Bad # {} PROVE FALSE
    OBVIOUS
  <2>1. Bad \in SUBSET Nat
    BY <1>1
  <2>2. PICK k \in Bad : \A i \in Bad : k <= i
    BY <2>1, LeastNumber
  <2>3. k \in 1..n /\ ~(v[1] <= v[k])
    OBVIOUS
  <2>4. k # 1
    BY <1>1, <1>2, <2>3
  <2>5. k \in 2..n
    BY <1>1, <2>3, <2>4
  <2>6. k \div 2 \in 1..n /\ k \div 2 < k /\ k \div 2 \in Nat /\ k \in Nat
    BY <1>1, <2>5, OneUp
  <2>7. k \div 2 \notin Bad
    <3> DEFINE p == k \div 2
    <3>1. p < k /\ p \in Nat /\ k \in Nat
      BY <2>6
    <3> HIDE DEF p
    <3>2. p \notin Bad
      BY <2>2, <3>1
    <3> QED BY <3>2 DEF p
  <2>8. v[1] <= v[k \div 2] /\ v[k \div 2] <= v[k]
    BY <1>3, <2>5, <2>6, <2>7
  <2> QED BY <1>1, <1>2, <2>3, <2>6, <2>8
<1>5. ASSUME NEW c \in ToSet(heap) PROVE get_all(nodes[Head(heap)]) <= get_all(nodes[c])
  <2>1. PICK k \in 1..n : heap[k] = c
    BY <1>1 DEF ToSet
  <2>2. v[1] <= v[k]
    BY <1>4
  <2>3. 1 \in 1..n
    BY <1>1
  <2> QED BY <1>1, <1>2, <2>1, <2>2, <2>3
<1> QED BY <1>5

(* heapify_up restores the order, when only the one at i may be in a place *)
(* too low for it.                                                         *)
LEMMA UpOrders ==
  ASSUME NEW S, NEW heap \in Seq(S), NEW nodes, Priced(nodes, heap), NEW i \in DOMAIN heap,
         \A k \in 2..Len(heap) : k # i =>
            get_all(nodes[heap[k \div 2]]) <= get_all(nodes[heap[k]]),
         \A k \in 2..Len(heap) : k \div 2 = i /\ i > 1 =>
            get_all(nodes[heap[i \div 2]]) <= get_all(nodes[heap[k]]),
         NEW h \in heapify_up(nodes, heap, i), h \in Seq(S)
  PROVE  HeapOrder(nodes, h)
<1> DEFINE n == Len(heap)
           v == Costs(nodes, heap)
           w == Costs(nodes, h)
<1>1. n \in Nat /\ DOMAIN heap = 1..n /\ i \in 1..n /\ i \in Nat \ {0}
  BY LenProperties
<1>2. v \in [1..n -> Int] /\ \A k \in 1..n : v[k] = get_all(nodes[heap[k]])
  BY <1>1 DEF Priced, Costs
<1>3. PICK j \in Lineage(i) :
        /\ h = Raised(heap, i, j)
        /\ \A k \in Lineage(i) : k > j => MayPrecede(nodes[heap[i]], nodes[heap[k \div 2]])
        /\ j > 1 => MayNotPrecede(nodes[heap[i]], nodes[heap[j \div 2]])
  BY DEF heapify_up
<1> HIDE DEF n
<1>4. Lineage(i) \subseteq 1..n /\ \A k \in Lineage(i) : k # 1 => k \div 2 \in 1..n
  <2>1. Lineage(i) \subseteq 1..i /\ \A k \in Lineage(i) : k # 1 => k \div 2 \in Lineage(i)
    BY <1>1, LineageOf
  <2> QED BY <1>1, <2>1
<1>5. DOMAIN h = 1..n /\ Len(h) = n
  <2>1. DOMAIN h = 1..n
    BY <1>1, <1>3 DEF Raised
  <2> QED BY <1>1, <2>1, LenProperties
<1>6. w = [k \in 1..n |-> IF k = j THEN v[i]
                          ELSE IF k \in Lineage(i) /\ k > j THEN v[k \div 2] ELSE v[k]]
  <2>1. ASSUME NEW k \in 1..n
        PROVE  w[k] = IF k = j THEN v[i]
                      ELSE IF k \in Lineage(i) /\ k > j THEN v[k \div 2] ELSE v[k]
    <3>1. w[k] = get_all(nodes[h[k]])
      BY <1>5 DEF Costs
    <3>2. h[k] = IF k = j THEN heap[i]
                 ELSE IF k \in Lineage(i) /\ k > j THEN heap[k \div 2] ELSE heap[k]
      BY <1>1, <1>3 DEF Raised
    <3>3. k \in Lineage(i) /\ k > j => k # 1
      BY <1>1, <1>4
    <3> HIDE DEF w, v
    <3> QED BY <1>1, <1>2, <1>4, <3>1, <3>2, <3>3
  <2>2. w = [k \in 1..n |-> w[k]]
    BY <1>5 DEF Costs
  <2> HIDE DEF w, v
  <2> QED BY <2>1, <2>2
<1>7. \A k \in Lineage(i) : k > j => v[i] <= v[k \div 2]
  <2> SUFFICES ASSUME NEW k \in Lineage(i), k > j PROVE v[i] <= v[k \div 2]
    OBVIOUS
  <2>1. k # 1 /\ k \div 2 \in 1..n
    BY <1>1, <1>4
  <2>2. MayPrecede(nodes[heap[i]], nodes[heap[k \div 2]])
    BY <1>3
  <2> HIDE DEF v
  <2> QED BY <1>1, <1>2, <2>1, <2>2, CostFirst
<1>8. j > 1 => v[j \div 2] <= v[i]
  <2> SUFFICES ASSUME j > 1 PROVE v[j \div 2] <= v[i]
    OBVIOUS
  <2>1. j # 1 /\ j \div 2 \in 1..n
    BY <1>4
  <2>2. MayNotPrecede(nodes[heap[i]], nodes[heap[j \div 2]])
    BY <1>3
  <2> HIDE DEF v
  <2> QED BY <1>1, <1>2, <2>1, <2>2, CostFirst
<1>9. \A k \in 2..n : k # i => v[k \div 2] <= v[k]
  <2> SUFFICES ASSUME NEW k \in 2..n, k # i PROVE v[k \div 2] <= v[k]
    OBVIOUS
  <2>1. k \in 1..n /\ k \div 2 \in 1..n
    BY <1>1, OneUp
  <2> HIDE DEF v
  <2> QED BY <1>2, <2>1 DEF n
<1>10. \A k \in 2..n : k \div 2 = i /\ i > 1 => v[i \div 2] <= v[k]
  <2> SUFFICES ASSUME NEW k \in 2..n, k \div 2 = i, i > 1 PROVE v[i \div 2] <= v[k]
    OBVIOUS
  <2>1. k \in 1..n /\ i \in 2..n
    BY <1>1
  <2>2. i \div 2 \in 1..n
    BY <1>1, <2>1, OneUp
  <2> HIDE DEF v
  <2> QED BY <1>2, <2>1, <2>2 DEF n
<1> HIDE DEF v, w
<1>11. Rising(n, w)
  BY <1>1, <1>2, <1>6, <1>7, <1>8, <1>9, <1>10, RaisedRises
<1> QED BY <1>5, <1>11, OrderRises DEF w

(* A node that is pushed finds its place.                                  *)
LEMMA PushOrders ==
  ASSUME NEW S, NEW heap \in Heaps(S), NEW id \in S, id \notin ToSet(heap), NEW nodes,
         Priced(nodes, heap), get_all(nodes[id]) \in Int, HeapOrder(nodes, heap),
         NEW h \in push(nodes, heap, id)
  PROVE  HeapOrder(nodes, h)
<1> DEFINE longer == Append(heap, id)
           n == Len(heap)
<1>1. heap \in Seq(S) /\ n \in Nat /\ DOMAIN heap = 1..n
  BY LenProperties DEF Heaps
<1>2. /\ longer \in Seq(S) /\ Len(longer) = n + 1 /\ DOMAIN longer = 1..n+1
      /\ longer[n+1] = id /\ \A k \in 1..n : longer[k] = heap[k]
  <2>1. /\ longer \in Seq(S) /\ Len(longer) = n + 1
        /\ longer[n+1] = id /\ \A k \in 1..n : longer[k] = heap[k]
    BY <1>1, AppendProperties
  <2> HIDE DEF longer
  <2> QED BY <2>1, LenProperties
<1>3. h \in heapify_up(nodes, longer, n + 1)
  BY DEF push
<1>4. h \in Seq(S)
  BY HeapPush DEF Heaps
<1> HIDE DEF longer
<1>5. Priced(nodes, longer)
  BY <1>1, <1>2 DEF Priced
<1>6. \A k \in 2..n+1 : k # n + 1 =>
         get_all(nodes[longer[k \div 2]]) <= get_all(nodes[longer[k]])
  <2> SUFFICES ASSUME NEW k \in 2..n+1, k # n + 1
               PROVE  get_all(nodes[longer[k \div 2]]) <= get_all(nodes[longer[k]])
    OBVIOUS
  <2>1. k \in 2..n /\ k \in 1..n
    BY <1>1
  <2>2. k \div 2 \in 1..n
    BY <1>1, <2>1, OneUp
  <2> QED BY <1>2, <2>1, <2>2 DEF HeapOrder
<1>7. \A k \in 2..n+1 : k \div 2 # n + 1
  <2> SUFFICES ASSUME NEW k \in 2..n+1 PROVE k \div 2 # n + 1
    OBVIOUS
  <2>1. k \div 2 < k /\ k \div 2 \in Nat
    BY <1>1, OneUp
  <2> QED BY <1>1, <2>1
<1>8. n + 1 \in DOMAIN longer
  BY <1>1, <1>2
<1> HIDE DEF n
<1> QED BY <1>2, <1>3, <1>4, <1>5, <1>6, <1>7, <1>8, UpOrders

(* A node that costs less finds its place again.                           *)
LEMMA DecreaseOrders ==
  ASSUME NEW S, NEW heap \in Heaps(S), NEW id \in ToSet(heap), NEW nodes, NEW former,
         Priced(nodes, heap), Priced(former, heap), HeapOrder(former, heap),
         \A c \in ToSet(heap) \ {id} : nodes[c] = former[c],
         get_all(nodes[id]) <= get_all(former[id]),
         NEW h \in decrease_key(nodes, heap, id)
  PROVE  HeapOrder(nodes, h)
<1> DEFINE n == Len(heap)
           i == CHOOSE k \in DOMAIN heap : heap[k] = id
           v == Costs(nodes, heap)
           u == Costs(former, heap)
<1>1. heap \in Seq(S) /\ n \in Nat /\ DOMAIN heap = 1..n
  BY LenProperties DEF Heaps
<1>2. i \in 1..n /\ heap[i] = id
  BY <1>1 DEF ToSet
<1>3. h \in heapify_up(nodes, heap, i) /\ h \in Seq(S)
  BY HeapDecreaseKey DEF decrease_key, Heaps
<1> HIDE DEF i, n
<1>4. \A k \in 1..n : k # i => heap[k] \in ToSet(heap) \ {id}
  BY <1>1, <1>2 DEF ToSet, Heaps, OneEach
<1>5. /\ \A k \in 1..n : v[k] \in Int /\ v[k] = get_all(nodes[heap[k]])
      /\ \A k \in 1..n : u[k] \in Int /\ u[k] = get_all(former[heap[k]])
  BY <1>1 DEF Costs, Priced
<1>6. v[i] <= u[i] /\ \A k \in 1..n : k # i => v[k] = u[k]
  <2> HIDE DEF v, u
  <2> QED BY <1>2, <1>4, <1>5
<1>7. \A k \in 2..n : u[k \div 2] <= u[k]
  BY <1>1, OrderRises DEF Rising, n
<1> HIDE DEF v, u
<1>8. ASSUME NEW k \in 2..n, k # i
      PROVE  get_all(nodes[heap[k \div 2]]) <= get_all(nodes[heap[k]])
  <2>1. k \in 1..n /\ k \div 2 \in 1..n
    BY <1>1, OneUp
  <2>2. v[k \div 2] <= u[k \div 2]
    BY <1>5, <1>6, <2>1
  <2>3. v[k] = u[k] /\ u[k \div 2] <= u[k]
    BY <1>6, <1>7, <1>8, <2>1
  <2>4. v[k \div 2] <= v[k]
    BY <1>5, <2>1, <2>2, <2>3
  <2> QED BY <1>5, <2>1, <2>4
<1>9. ASSUME NEW k \in 2..n, k \div 2 = i, i > 1
      PROVE  get_all(nodes[heap[i \div 2]]) <= get_all(nodes[heap[k]])
  <2>1. k \in 1..n /\ i \in 2..n /\ k # i
    BY <1>1, <1>2, <1>9, OneUp
  <2>2. i \div 2 \in 1..n /\ i \div 2 # i
    BY <1>1, <2>1, OneUp
  <2>3. v[i \div 2] = u[i \div 2] /\ v[k] = u[k]
    BY <1>6, <2>1, <2>2
  <2>4. u[i \div 2] <= u[i] /\ u[i] <= u[k]
    BY <1>7, <1>9, <2>1
  <2>5. v[i \div 2] <= v[k]
    BY <1>2, <1>5, <2>1, <2>2, <2>3, <2>4
  <2> QED BY <1>5, <2>1, <2>2, <2>5
<1> QED BY <1>1, <1>2, <1>3, <1>8, <1>9, UpOrders DEF n

(* When the first one is taken out, the others get in order again.         *)
LEMMA PopOrders ==
  ASSUME NEW S, NEW heap \in Heaps(S), heap # <<>>, NEW nodes, Priced(nodes, heap),
         HeapOrder(nodes, heap), NEW h \in pop(nodes, heap)
  PROVE  HeapOrder(nodes, h)
<1> DEFINE m == Len(heap)
           n == m - 1
           rest == [Front(heap) EXCEPT ![1] = Last(heap)]
<1>1. heap \in Seq(S) /\ m \in Nat \ {0} /\ DOMAIN heap = 1..m
  BY LenProperties, EmptySeq DEF Heaps
<1>2. CASE m = 1
  <2>1. h = <<>>
    BY <1>2 DEF pop
  <2> QED BY <2>1 DEF HeapOrder
<1>3. CASE m # 1
  <2>1. n \in Nat /\ n # 0 /\ h \in heapify_down(nodes, rest)
    BY <1>1, <1>3 DEF pop
  <2>2. /\ rest \in Seq(S) /\ DOMAIN rest = 1..n /\ Len(rest) = n
        /\ rest[1] = heap[m] /\ \A k \in 2..n : rest[k] = heap[k]
    <3>1. Front(heap) = [k \in 1..n |-> heap[k]]
      BY <1>1, <2>1 DEF Front
    <3>2. rest = [k \in 1..n |-> IF k = 1 THEN heap[m] ELSE heap[k]]
      BY <1>1, <2>1, <3>1 DEF Last
    <3>3. \A k \in 1..n : heap[k] \in S
      BY <1>1, <2>1, ElementOfSeq
    <3>4. heap[m] \in S
      BY <1>1, ElementOfSeq
    <3>5. rest \in [1..n -> S]
      BY <3>2, <3>3, <3>4
    <3> HIDE DEF rest, n
    <3>6. rest \in Seq(S) /\ Len(rest) = n
      BY <2>1, <3>5, IsASeq, LenProperties
    <3> QED BY <2>1, <3>2, <3>5, <3>6
  <2>3. h \in Seq(S)
    BY HeapPop DEF Heaps
  <2> DEFINE v == Costs(nodes, rest)
             w == Costs(nodes, h)
             Sibling(k) == IF k % 2 = 0 THEN k + 1 ELSE k - 1
             Chosen(k) == \/ Sibling(k) \notin DOMAIN rest
                          \/ MayPrecede(nodes[rest[k]], nodes[rest[Sibling(k)]])
             Children(j) == {2*j, 2*j + 1} \cap DOMAIN rest
  <2>4. PICK j \in 1..n :
          /\ h = Sunk(rest, j)
          /\ \A k \in Lineage(j) \ {1} :
               Chosen(k) /\ MayPrecede(nodes[rest[k]], nodes[rest[1]])
          /\ \/ Children(j) = {}
             \/ \E k \in Children(j) :
                  Chosen(k) /\ MayNotPrecede(nodes[rest[k]], nodes[rest[1]])
    BY <2>1, <2>2 DEF heapify_down
  <2> HIDE DEF rest, n
  <2>5. v \in [1..n -> Int] /\ \A k \in 1..n : v[k] = get_all(nodes[rest[k]])
    <3>1. \A k \in 1..n : get_all(nodes[rest[k]]) \in Int
      <4>1. m \in DOMAIN heap /\ \A k \in 2..n : k \in DOMAIN heap
        BY <1>1, <2>1 DEF n
      <4>2. \A k \in 1..n : k = 1 \/ k \in 2..n
        BY <2>1
      <4> QED BY <2>2, <4>1, <4>2 DEF Priced
    <3> QED BY <2>2, <3>1 DEF Costs
  <2> HIDE DEF v
  <2>6. ASSUME NEW k \in 2..n, k \div 2 # 1 PROVE v[k \div 2] <= v[k]
    <3> DEFINE p == k \div 2
    <3>1. p \in 1..n /\ p # 1 /\ k \in 1..n
      BY <2>1, <2>6, OneUp
    <3>2. p \in 2..n
      <4> HIDE DEF p
      <4> QED BY <2>1, <3>1
    <3>3. k \in 2..m
      BY <1>1, <2>1 DEF n
    <3>4. get_all(nodes[heap[p]]) <= get_all(nodes[heap[k]])
      BY <3>3 DEF HeapOrder
    <3> HIDE DEF p
    <3>5. v[p] <= v[k]
      BY <2>2, <2>5, <3>1, <3>2, <3>4
    <3> QED BY <3>5 DEF p
  <2>7. /\ Lineage(j) \subseteq 1..n /\ 1 \in Lineage(j) /\ j \in Lineage(j)
        /\ \A k \in Lineage(j) : k # 1 => k \in 2..n
    <3>1. Lineage(j) \subseteq 1..j /\ 1 \in Lineage(j) /\ j \in Lineage(j)
      BY <2>1, LineageOf, UpToTheRoot
    <3> QED BY <2>1, <3>1
  <2>8. ASSUME NEW k \in 2..n, Chosen(k), NEW s \in 2..n, s \div 2 = k \div 2
        PROVE  v[k] <= v[s]
    <3>1. s = k \/ s = Sibling(k)
      BY <2>1, <2>8
    <3>2. k \in 1..n /\ s \in 1..n
      BY <2>1
    <3>3. CASE s = k
      BY <2>5, <3>2, <3>3
    <3>4. CASE s = Sibling(k)
      <4>1. MayPrecede(nodes[rest[k]], nodes[rest[s]])
        BY <2>2, <2>8, <3>2, <3>4
      <4> QED BY <2>5, <3>2, <4>1, CostFirst
    <3> QED BY <3>1, <3>3, <3>4
  <2>9. ASSUME NEW k \in Lineage(j), k # 1
        PROVE  /\ v[k] <= v[1]
               /\ \A s \in 2..n : s \div 2 = k \div 2 => v[k] <= v[s]
    <3>1. k \in 2..n /\ Chosen(k) /\ MayPrecede(nodes[rest[k]], nodes[rest[1]])
      BY <2>4, <2>7, <2>9
    <3>2. k \in 1..n /\ 1 \in 1..n
      BY <2>1, <3>1
    <3>3. v[k] <= v[1]
      BY <2>5, <3>1, <3>2, CostFirst
    <3> QED BY <2>8, <3>1, <3>3
  <2>10. ASSUME NEW s \in 2..n, s \div 2 = j PROVE v[1] <= v[s]
    <3>1. s \in Children(j)
      BY <2>1, <2>2, <2>10
    <3>2. PICK k \in Children(j) :
            Chosen(k) /\ MayNotPrecede(nodes[rest[k]], nodes[rest[1]])
      BY <2>4, <3>1
    <3>3. k \in 2..n /\ k \div 2 = j
      <4>1. (k = 2*j \/ k = 2*j + 1) /\ k \in 1..n
        BY <2>2
      <4>2. j \in Nat \ {0}
        BY <2>1
      <4> HIDE DEF Children, Chosen, Sibling
      <4>3. k \div 2 = j
        BY <4>1, <4>2
      <4> QED BY <2>1, <4>1, <4>2, <4>3
    <3>4. k \in 1..n /\ 1 \in 1..n /\ s \in 1..n
      BY <2>1, <3>3
    <3>5. v[1] <= v[k]
      BY <2>5, <3>2, <3>4, CostFirst
    <3>6. v[k] <= v[s]
      BY <2>8, <2>10, <3>2, <3>3
    <3> QED BY <2>5, <3>4, <3>5, <3>6
  <2>11. DOMAIN h = 1..n /\ Len(h) = n
    <3>1. DOMAIN h = 1..n
      BY <2>2, <2>4 DEF Sunk
    <3> QED BY <2>1, <2>3, <3>1, LenProperties
  <2>12. w = [k \in 1..n |->
                IF k = j THEN v[1]
                ELSE IF k \in Lineage(j)
                  THEN v[CHOOSE c \in Lineage(j) : c > 1 /\ c \div 2 = k]
                ELSE v[k]]
    <3>1. ASSUME NEW k \in 1..n
          PROVE  w[k] = IF k = j THEN v[1]
                        ELSE IF k \in Lineage(j)
                          THEN v[CHOOSE c \in Lineage(j) : c > 1 /\ c \div 2 = k]
                        ELSE v[k]
      <4> DEFINE below == CHOOSE c \in Lineage(j) : c > 1 /\ c \div 2 = k
      <4>1. w[k] = get_all(nodes[h[k]])
        BY <2>11 DEF Costs
      <4>2. h[k] = IF k = j THEN rest[1]
                   ELSE IF k \in Lineage(j) THEN rest[below] ELSE rest[k]
        BY <2>2, <2>4 DEF Sunk
      <4>3. k \in Lineage(j) /\ k # j => below \in 1..n
        <5>1. k \in Lineage(j) /\ k # j => \E c \in Lineage(j) : c > 1 /\ c \div 2 = k
          BY <2>1, LineageOf
        <5>2. k \in Lineage(j) /\ k # j => below \in Lineage(j)
          BY <5>1
        <5> QED BY <2>7, <5>2
      <4> HIDE DEF w, below
      <4>4. 1 \in 1..n
        BY <2>1
      <4>5. w[k] = IF k = j THEN v[1] ELSE IF k \in Lineage(j) THEN v[below] ELSE v[k]
        BY <2>5, <4>1, <4>2, <4>3, <4>4
      <4> QED BY <4>5 DEF below
    <3>2. w = [k \in 1..n |-> w[k]]
      BY <2>11 DEF Costs
    <3> HIDE DEF w
    <3> QED BY <3>1, <3>2
  <2> HIDE DEF w
  <2>13. Rising(n, w)
    BY <2>1, <2>5, <2>6, <2>9, <2>10, <2>12, SunkRises
  <2> QED BY <2>3, <2>11, <2>13, OrderRises DEF w
<1> QED BY <1>2, <1>3

-----------------------------------------------------------------------------
(* The tables of distances.                                                *)

Table == [cost : [Cells -> 0..MAX_TIMESTEP], togo : [Cells -> Nat], open : Seq(Free)]

(* What the assumptions say of the grid.                                   *)
LEMMA Grid ==
  /\ Rows \in Nat /\ Cols \in Nat \ {0} /\ NumAgents \in Nat \ {0}
  /\ Rows * Cols \in Nat
  /\ Free \subseteq Cells /\ Cells \subseteq Nat
  /\ MAX_TIMESTEP \in Nat
BY SimulatorAssumption DEF Free, Cells, MAX_TIMESTEP

(* One step up, down, left or right.                                       *)
LEMMA StepsOnGrid ==
  ASSUME NEW c \in Cells
  PROVE  /\ RowOf(c) \in Int /\ ColOf(c) \in 0..Cols-1
         /\ RowOf(c - Cols) = RowOf(c) - 1 /\ ColOf(c - Cols) = ColOf(c)
         /\ RowOf(c + Cols) = RowOf(c) + 1 /\ ColOf(c + Cols) = ColOf(c)
         /\ ColOf(c) > 0 => RowOf(c - 1) = RowOf(c) /\ ColOf(c - 1) = ColOf(c) - 1
         /\ ColOf(c) < Cols - 1 => RowOf(c + 1) = RowOf(c) /\ ColOf(c + 1) = ColOf(c) + 1
<1> DEFINE q == c \div Cols
           r == c % Cols
<1>1. c \in Int /\ Cols \in Nat \ {0}
  BY Grid
<1>2. c = (Cols * q) + r /\ q \in Int /\ r \in 0..Cols-1
  BY <1>1, Division
<1>3. RowOf(c) = q /\ ColOf(c) = r
  BY DEF RowOf, ColOf
<1> HIDE DEF q, r
<1>4. c - Cols = (Cols * (q - 1)) + r /\ q - 1 \in Int
  BY <1>1, <1>2
<1>5. c + Cols = (Cols * (q + 1)) + r /\ q + 1 \in Int
  BY <1>1, <1>2
<1>6. c - 1 = (Cols * q) + (r - 1) /\ (r > 0 => r - 1 \in 0..Cols-1)
  BY <1>1, <1>2
<1>7. c + 1 = (Cols * q) + (r + 1) /\ (r < Cols - 1 => r + 1 \in 0..Cols-1)
  BY <1>1, <1>2
<1>0. \A p \in Int, m \in 0..Cols-1 : \A x :
        x = (Cols * p) + m => x \div Cols = p /\ x % Cols = m
  BY <1>1, DivisionUnique
<1>8. /\ (c - Cols) \div Cols = q - 1 /\ (c - Cols) % Cols = r
      /\ (c + Cols) \div Cols = q + 1 /\ (c + Cols) % Cols = r
  BY <1>2, <1>4, <1>5, <1>0, Zenon
<1>9. r > 0 => (c - 1) \div Cols = q /\ (c - 1) % Cols = r - 1
  BY <1>2, <1>6, <1>0, Zenon
<1>10. r < Cols - 1 => (c + 1) \div Cols = q /\ (c + 1) % Cols = r + 1
  BY <1>2, <1>7, <1>0, Zenon
<1> QED BY <1>2, <1>3, <1>8, <1>9, <1>10 DEF RowOf, ColOf

(* global_neighbors holds neighbors only, across no end of a row.          *)
LEMMA NextCells ==
  ASSUME NEW c \in Cells
  PROVE  global_neighbors[c] \in Seq(Neighbors(c))
<1> DEFINE U == Neighbors(c)
           If(inside, n) == IF inside /\ n \in Free THEN <<n>> ELSE <<>>
<1>1. CASE c \in Obstacles
  BY <1>1, EmptySeq DEF global_neighbors
<1>2. CASE c \notin Obstacles
  <2>1. c \in Free /\ c \in Int /\ Cols \in Nat \ {0}
    BY <1>2, Grid DEF Free
  <2>2. \A n \in Free : n \in Cells \ Obstacles
    BY DEF Free
  <2>3. c - Cols \in Free => c - Cols \in U
    BY <2>1, <2>2, StepsOnGrid DEF Neighbors, AllowedMove, Abs
  <2>4. c + Cols \in Free => c + Cols \in U
    BY <2>1, <2>2, StepsOnGrid DEF Neighbors, AllowedMove, Abs
  <2>5. ColOf(c) > 0 /\ c - 1 \in Free => c - 1 \in U
    BY <2>1, <2>2, StepsOnGrid DEF Neighbors, AllowedMove, Abs
  <2>6. ColOf(c) < Cols - 1 /\ c + 1 \in Free => c + 1 \in U
    BY <2>1, <2>2, StepsOnGrid DEF Neighbors, AllowedMove, Abs
  <2>7. /\ If(RowOf(c) > 0, c - Cols) \in Seq(U)
        /\ If(RowOf(c) < Rows - 1, c + Cols) \in Seq(U)
        /\ If(ColOf(c) > 0, c - 1) \in Seq(U)
        /\ If(ColOf(c) < Cols - 1, c + 1) \in Seq(U)
    <3>1. \A n \in U : <<n>> \in Seq(U)
      OBVIOUS
    <3>2. <<>> \in Seq(U)
      OBVIOUS
    <3> HIDE DEF U
    <3> QED BY <2>3, <2>4, <2>5, <2>6, <3>1, <3>2
  <2>8. global_neighbors[c]
          = If(RowOf(c) > 0, c - Cols) \o If(RowOf(c) < Rows - 1, c + Cols)
            \o If(ColOf(c) > 0, c - 1) \o If(ColOf(c) < Cols - 1, c + 1)
    BY <1>2 DEF global_neighbors
  <2> HIDE DEF If, U
  <2>9. global_neighbors[c] \in Seq(U)
    BY <2>7, <2>8, ConcatProperties
  <2> QED BY <2>9 DEF U
<1> QED BY <1>1, <1>2

(* Where the cells are.                                                    *)
LEMMA RowsOfCells ==
  ASSUME NEW c \in Cells
  PROVE  /\ RowOf(c) \in 0..Rows-1 /\ ColOf(c) \in 0..Cols-1
         /\ c = (Cols * RowOf(c)) + ColOf(c)
<1>1. c \in Nat /\ c <= Rows * Cols - 1 /\ Rows \in Nat /\ Cols \in Nat \ {0}
  BY Grid DEF Cells
<1>2. c = (Cols * RowOf(c)) + ColOf(c) /\ RowOf(c) \in Int /\ ColOf(c) \in 0..Cols-1
  BY <1>1, Division DEF RowOf, ColOf
<1>3. \A q \in Int, m \in Nat : q < 0 => m * q <= -m
  OBVIOUS
<1>4. RowOf(c) >= 0
  <2> SUFFICES ASSUME RowOf(c) < 0 PROVE FALSE
    BY <1>2
  <2>1. Cols * RowOf(c) <= -Cols
    BY <1>1, <1>2, <1>3
  <2> HIDE DEF RowOf
  <2> QED BY <1>1, <1>2, <2>1
<1>5. RowOf(c) < Rows
  <2> SUFFICES ASSUME RowOf(c) >= Rows PROVE FALSE
    BY <1>1, <1>2
  <2>1. RowOf(c) - Rows \in Nat
    BY <1>1, <1>2
  <2>2. \A k, m \in Nat : m * k >= 0
    OBVIOUS
  <2>3. Cols * (RowOf(c) - Rows) >= 0
    BY <1>1, <2>1, <2>2
  <2>4. Cols * RowOf(c) = Cols * (RowOf(c) - Rows) + Rows * Cols
    BY <1>1, <1>2
  <2>5. Cols * (RowOf(c) - Rows) \in Int /\ Rows * Cols \in Int /\ Cols * RowOf(c) \in Int
    BY <1>1, <1>2
  <2> QED BY <1>1, <1>2, <2>3, <2>4, <2>5
<1> QED BY <1>1, <1>2, <1>4, <1>5

(* Cells are each other's neighbors.                                       *)
LEMMA NeighborsMutual ==
  ASSUME NEW c \in Cells, NEW n \in Neighbors(c)
  PROVE  n \in Free /\ c \in Free /\ c \in Neighbors(n)
<1>1. n \in Free /\ c \in Free /\ n # c /\ AllowedMove(c, n)
  BY DEF Neighbors
<1>2. n \in Cells /\ c \notin Obstacles
  BY <1>1 DEF Free
<1>3. RowOf(c) \in Int /\ ColOf(c) \in Int /\ RowOf(n) \in Int /\ ColOf(n) \in Int
  BY <1>2, RowsOfCells
<1>4. \A x, y \in Int : Abs(x - y) = Abs(y - x)
  BY DEF Abs
<1>5. AllowedMove(n, c)
  BY <1>1, <1>2, <1>3, <1>4 DEF AllowedMove
<1> QED BY <1>1, <1>5 DEF Neighbors

(* The elements of sequences that are put together.                        *)
LEMMA Joined ==
  ASSUME NEW S, NEW s \in Seq(S), NEW t \in Seq(S)
  PROVE  /\ s \o t \in Seq(S)
         /\ ToSet(s \o t) = ToSet(s) \cup ToSet(t)
         /\ OneEach(s) /\ OneEach(t) /\ ToSet(s) \cap ToSet(t) = {} => OneEach(s \o t)
<1> DEFINE m == Len(s)
           n == Len(t)
           u == s \o t
<1>1. m \in Nat /\ n \in Nat /\ DOMAIN s = 1..m /\ DOMAIN t = 1..n
  BY LenProperties
<1>2. /\ u \in Seq(S) /\ Len(u) = m + n
      /\ \A i \in 1..m+n : u[i] = IF i <= m THEN s[i] ELSE t[i-m]
  BY ConcatProperties
<1>3. DOMAIN u = 1..m+n
  BY <1>2, LenProperties
<1> HIDE DEF m, n, u
<1>4. ASSUME NEW i \in 1..m+n
      PROVE  \/ i \in 1..m /\ u[i] = s[i]
             \/ i - m \in 1..n /\ u[i] = t[i-m]
  BY <1>1, <1>2
<1>5. ASSUME NEW i \in 1..m PROVE i \in 1..m+n /\ u[i] = s[i]
  BY <1>1, <1>2
<1>6. ASSUME NEW i \in 1..n PROVE i + m \in 1..m+n /\ u[i+m] = t[i]
  <2>1. i + m \in 1..m+n /\ ~(i + m <= m) /\ (i + m) - m = i
    BY <1>1
  <2> QED BY <1>2, <2>1
<1>7. ToSet(u) = ToSet(s) \cup ToSet(t)
  <2>1. ASSUME NEW x \in ToSet(u) PROVE x \in ToSet(s) \cup ToSet(t)
    BY <1>1, <1>3, <1>4 DEF ToSet
  <2>2. ASSUME NEW x \in ToSet(s) PROVE x \in ToSet(u)
    BY <1>1, <1>3, <1>5 DEF ToSet
  <2>3. ASSUME NEW x \in ToSet(t) PROVE x \in ToSet(u)
    BY <1>1, <1>3, <1>6 DEF ToSet
  <2> QED BY <2>1, <2>2, <2>3
<1>8. ASSUME OneEach(s), OneEach(t), ToSet(s) \cap ToSet(t) = {} PROVE OneEach(u)
  <2> SUFFICES ASSUME NEW i \in 1..m+n, NEW j \in 1..m+n, u[i] = u[j] PROVE i = j
    BY <1>3 DEF OneEach
  <2>1. \A k \in 1..m, l \in 1..n : s[k] # t[l]
    BY <1>1, <1>8 DEF ToSet
  <2>2. CASE i \in 1..m /\ u[i] = s[i]
    BY <1>1, <1>4, <1>8, <2>1, <2>2 DEF OneEach
  <2>3. CASE i - m \in 1..n /\ u[i] = t[i-m]
    <3>1. j - m \in 1..n /\ u[j] = t[j-m]
      BY <1>4, <2>1, <2>3
    <3>2. i - m = j - m
      BY <1>1, <1>8, <2>3, <3>1 DEF OneEach
    <3> QED BY <1>1, <3>2
  <2> QED BY <1>4, <2>2, <2>3
<1> QED BY <1>2, <1>7, <1>8 DEF u

(* The neighbors that global_neighbors holds are all there are.            *)
LEMMA AllNeighbors ==
  ASSUME NEW c \in Cells
  PROVE  ToSet(global_neighbors[c]) = Neighbors(c) /\ OneEach(global_neighbors[c])
<1> DEFINE If(inside, n) == IF inside /\ n \in Free THEN <<n>> ELSE <<>>
           above == If(RowOf(c) > 0, c - Cols)
           below == If(RowOf(c) < Rows - 1, c + Cols)
           before == If(ColOf(c) > 0, c - 1)
           behind == If(ColOf(c) < Cols - 1, c + 1)
<1>1. CASE c \in Obstacles
  BY <1>1 DEF global_neighbors, Neighbors, Free, ToSet, OneEach
<1>2. CASE c \notin Obstacles
  <2>1. c \in Free /\ c \in Int /\ Cols \in Nat \ {0} /\ Rows \in Nat
    BY <1>2, Grid DEF Free
  <2>2. global_neighbors[c] = above \o below \o before \o behind
    BY <1>2 DEF global_neighbors
  <2>3. ASSUME NEW inside \in BOOLEAN, NEW n \in Int
        PROVE  /\ If(inside, n) \in Seq(Int) /\ OneEach(If(inside, n))
               /\ ToSet(If(inside, n)) = {m \in {n} : inside /\ m \in Free}
    <3>1. CASE inside /\ n \in Free
      <4>1. If(inside, n) = <<n>>
        BY <3>1
      <4>2. <<n>> \in Seq(Int) /\ DOMAIN <<n>> = {1} /\ <<n>>[1] = n
        OBVIOUS
      <4>3. ToSet(<<n>>) = {n} /\ OneEach(<<n>>)
        BY <4>2 DEF ToSet, OneEach
      <4> HIDE DEF If
      <4> QED BY <3>1, <4>1, <4>2, <4>3
    <3>2. CASE ~(inside /\ n \in Free)
      <4>1. If(inside, n) = <<>>
        BY <3>2
      <4>2. <<>> \in Seq(Int) /\ ToSet(<<>>) = {} /\ OneEach(<<>>)
        BY EmptySeq DEF ToSet, OneEach
      <4> HIDE DEF If
      <4> QED BY <3>2, <4>1, <4>2
    <3> QED BY <3>1, <3>2
  <2>4. /\ RowOf(c) \in 0..Rows-1 /\ ColOf(c) \in 0..Cols-1
        /\ c = (Cols * RowOf(c)) + ColOf(c)
    BY RowsOfCells
  <2>5. /\ ColOf(c) > 0 => Cols # 1
        /\ ColOf(c) < Cols - 1 => Cols # 1
    BY <2>1, <2>4
  <2> DEFINE A == {m \in {c - Cols} : RowOf(c) > 0 /\ m \in Free}
             B == {m \in {c + Cols} : RowOf(c) < Rows - 1 /\ m \in Free}
             C == {m \in {c - 1} : ColOf(c) > 0 /\ m \in Free}
             D == {m \in {c + 1} : ColOf(c) < Cols - 1 /\ m \in Free}
  <2>6. /\ above \in Seq(Int) /\ OneEach(above) /\ ToSet(above) = A
        /\ below \in Seq(Int) /\ OneEach(below) /\ ToSet(below) = B
        /\ before \in Seq(Int) /\ OneEach(before) /\ ToSet(before) = C
        /\ behind \in Seq(Int) /\ OneEach(behind) /\ ToSet(behind) = D
    <3>1. /\ (RowOf(c) > 0) \in BOOLEAN /\ (RowOf(c) < Rows - 1) \in BOOLEAN
          /\ (ColOf(c) > 0) \in BOOLEAN /\ (ColOf(c) < Cols - 1) \in BOOLEAN
          /\ c - Cols \in Int /\ c + Cols \in Int /\ c - 1 \in Int /\ c + 1 \in Int
      BY <2>1
    <3> HIDE DEF If
    <3> QED BY <2>3, <3>1
  <2>7. A \cap B = {} /\ (A \cup B) \cap C = {} /\ (A \cup B \cup C) \cap D = {}
    BY <2>1, <2>5
  <2>8. Neighbors(c) = A \cup B \cup C \cup D
    <3>1. ASSUME NEW n \in A \cup B \cup C \cup D PROVE n \in Neighbors(c)
      <4>1. n \in Free
        OBVIOUS
      <4>2. \A m \in Free : m \in Cells \ Obstacles
        BY DEF Free
      <4>3. CASE n \in A
        BY <2>1, <4>1, <4>2, <4>3, StepsOnGrid DEF Neighbors, AllowedMove, Abs
      <4>4. CASE n \in B
        BY <2>1, <4>1, <4>2, <4>4, StepsOnGrid DEF Neighbors, AllowedMove, Abs
      <4>5. CASE n \in C
        BY <2>1, <4>1, <4>2, <4>5, StepsOnGrid DEF Neighbors, AllowedMove, Abs
      <4>6. CASE n \in D
        BY <2>1, <4>1, <4>2, <4>6, StepsOnGrid DEF Neighbors, AllowedMove, Abs
      <4> QED BY <4>3, <4>4, <4>5, <4>6
    <3>2. ASSUME NEW n \in Neighbors(c) PROVE n \in A \cup B \cup C \cup D
      <4>1. n \in Free /\ n \in Cells /\ n # c /\ n \in Int
            /\ Abs(RowOf(n) - RowOf(c)) + Abs(ColOf(n) - ColOf(c)) <= 1
        BY Grid DEF Neighbors, AllowedMove
      <4>2. /\ RowOf(n) \in 0..Rows-1 /\ ColOf(n) \in 0..Cols-1
            /\ n = (Cols * RowOf(n)) + ColOf(n)
        BY <4>1, RowsOfCells
      <4>3. \/ RowOf(n) = RowOf(c) - 1 /\ ColOf(n) = ColOf(c)
            \/ RowOf(n) = RowOf(c) + 1 /\ ColOf(n) = ColOf(c)
            \/ RowOf(n) = RowOf(c) /\ ColOf(n) = ColOf(c) - 1
            \/ RowOf(n) = RowOf(c) /\ ColOf(n) = ColOf(c) + 1
            \/ RowOf(n) = RowOf(c) /\ ColOf(n) = ColOf(c)
        <5>1. \A i, j, k, l \in Int : Abs(i - j) + Abs(k - l) <= 1 =>
                \/ (i = j - 1 \/ i = j + 1) /\ k = l
                \/ i = j /\ (k = l - 1 \/ k = l + 1 \/ k = l)
          <6>1. \A x \in Int : /\ Abs(x) \in Nat /\ (Abs(x) = 0 => x = 0)
                               /\ (Abs(x) <= 1 => x = -1 \/ x = 0 \/ x = 1)
            BY DEF Abs
          <6>2. \A x, y \in Int : Abs(x) + Abs(y) <= 1 =>
                  \/ x = 0 /\ y = 0
                  \/ x = 0 /\ (y = 1 \/ y = -1)
                  \/ y = 0 /\ (x = 1 \/ x = -1)
            BY <6>1
          <6> TAKE i, j, k, l \in Int
          <6>3. i - j \in Int /\ k - l \in Int
            OBVIOUS
          <6> HAVE Abs(i - j) + Abs(k - l) <= 1
          <6>4. \/ i - j = 0 /\ k - l = 0
                \/ i - j = 0 /\ (k - l = 1 \/ k - l = -1)
                \/ k - l = 0 /\ (i - j = 1 \/ i - j = -1)
            BY <6>2, <6>3
          <6> QED BY <6>4
        <5>2. RowOf(n) \in Int /\ RowOf(c) \in Int /\ ColOf(n) \in Int /\ ColOf(c) \in Int
          BY <2>4, <4>2
        <5> HIDE DEF RowOf, ColOf
        <5> QED BY <4>1, <5>1, <5>2
      <4>4. /\ Cols * (RowOf(c) - 1) = Cols * RowOf(c) - Cols
            /\ Cols * (RowOf(c) + 1) = Cols * RowOf(c) + Cols
            /\ Cols * RowOf(c) \in Int
        BY <2>1, <2>4
      <4>5. CASE RowOf(n) = RowOf(c) - 1 /\ ColOf(n) = ColOf(c)
        <5>1. n = c - Cols /\ RowOf(c) > 0
          BY <2>1, <2>4, <4>2, <4>4, <4>5
        <5> QED BY <4>1, <5>1
      <4>6. CASE RowOf(n) = RowOf(c) + 1 /\ ColOf(n) = ColOf(c)
        <5>1. n = c + Cols /\ RowOf(c) < Rows - 1
          BY <2>1, <2>4, <4>2, <4>4, <4>6
        <5> QED BY <4>1, <5>1
      <4>7. CASE RowOf(n) = RowOf(c) /\ ColOf(n) = ColOf(c) - 1
        <5>1. n = c - 1 /\ ColOf(c) > 0
          BY <2>1, <2>4, <4>2, <4>4, <4>7
        <5> QED BY <4>1, <5>1
      <4>8. CASE RowOf(n) = RowOf(c) /\ ColOf(n) = ColOf(c) + 1
        <5>1. n = c + 1 /\ ColOf(c) < Cols - 1
          BY <2>1, <2>4, <4>2, <4>4, <4>8
        <5> QED BY <4>1, <5>1
      <4>9. CASE RowOf(n) = RowOf(c) /\ ColOf(n) = ColOf(c)
        BY <2>4, <4>1, <4>2, <4>9
      <4> QED BY <4>3, <4>5, <4>6, <4>7, <4>8, <4>9
    <3> QED BY <3>1, <3>2
  <2> HIDE DEF A, B, C, D, above, below, before, behind
  <2> DEFINE two == above \o below
             three == two \o before
  <2>9. two \in Seq(Int) /\ OneEach(two) /\ ToSet(two) = A \cup B
    BY <2>6, <2>7, Joined
  <2> HIDE DEF two
  <2>10. three \in Seq(Int) /\ OneEach(three) /\ ToSet(three) = A \cup B \cup C
    BY <2>6, <2>7, <2>9, Joined
  <2> HIDE DEF three
  <2>11. OneEach(three \o behind) /\ ToSet(three \o behind) = A \cup B \cup C \cup D
    BY <2>6, <2>7, <2>10, Joined
  <2> QED BY <2>2, <2>8, <2>11 DEF two, three
<1> QED BY <1>1, <1>2

(* One iteration of a search reaches those neighbors of the first open     *)
(* cell that were further away.                                            *)
LEMMA Expanded ==
  ASSUME NEW t \in Table, t.open # <<>>
  PROVE  LET from == Head(t.open)
             cost == t.cost[from] + 1
             nearer == {n \in Neighbors(from) : cost < t.cost[n]}
             Updated(f, value) == [c \in Cells |-> IF c \in nearer THEN value ELSE f[c]]
         IN  /\ from \in Free
             /\ \E reached \in Seq(Free) :
                  /\ ToSet(reached) = nearer /\ OneEach(reached)
                  /\ Expand(t) = [cost |-> Updated(t.cost, cost),
                                  togo |-> Updated(t.togo, t.togo[from]),
                                  open |-> Tail(t.open) \o reached]
<1> DEFINE from == Head(t.open)
           cost == t.cost[from] + 1
           next == global_neighbors[from]
           N == Len(next)
           S == Seq({n \in Free : cost < t.cost[n]})
           step == [x \in (1..N) \X S |->
                      IF cost < t.cost[next[x[1]]] THEN Append(x[2], next[x[1]]) ELSE x[2]]
<1>1. t.open \in Seq(Free) /\ t.cost \in [Cells -> 0..MAX_TIMESTEP] /\ t.togo \in [Cells -> Nat]
  BY DEF Table
<1>2. from \in Free /\ Tail(t.open) \in Seq(Free)
  BY <1>1, HeadTailProperties
<1> HIDE DEF from
<1>3. from \in Cells /\ cost \in Nat /\ MAX_TIMESTEP \in Nat
  BY <1>1, <1>2, Grid
<1>4. next \in Seq(Free) /\ N \in Nat /\ next \in [1..N -> Free]
  <2>1. Neighbors(from) \subseteq Free
    BY DEF Neighbors
  <2>2. next \in Seq(Free)
    BY <1>3, <2>1, NextCells, SeqMonotonic
  <2> HIDE DEF next
  <2> QED BY <2>2, LenProperties
<1>0. ToSet(next) = Neighbors(from) /\ OneEach(next)
  BY <1>3, AllNeighbors
<1> HIDE DEF cost, next, N
<1>5. step \in Steps(N, S) /\ <<>> \in S
  <2>1. ASSUME NEW x \in (1..N) \X S
        PROVE  (IF cost < t.cost[next[x[1]]] THEN Append(x[2], next[x[1]]) ELSE x[2]) \in S
    <3>1. next[x[1]] \in Free /\ x[2] \in S
      BY <1>4
    <3>2. CASE cost < t.cost[next[x[1]]]
      BY <3>1, <3>2, AppendProperties
    <3> QED BY <3>1, <3>2
  <2>2. <<>> \in S
    BY EmptySeq
  <2> QED BY <2>1, <2>2 DEF Steps
<1> HIDE DEF S, step
<1>6. PICK g : Runs(g, N, S, <<>>, step)
  BY <1>4, <1>5, Loop
<1>7. g = [k \in 0..N |->
             IF k = 0 THEN <<>>
             ELSE IF cost < t.cost[next[k]] THEN Append(g[k-1], next[k]) ELSE g[k-1]]
  <2>1. ASSUME NEW k \in 1..N
        PROVE  g[k] = IF cost < t.cost[next[k]] THEN Append(g[k-1], next[k]) ELSE g[k-1]
    BY <1>6 DEF step, Runs
  <2>2. g \in [0..N -> S] /\ g[0] = <<>>
    BY <1>6 DEF Runs
  <2>3. ASSUME NEW k \in 0..N
        PROVE  g[k] = IF k = 0 THEN <<>>
                      ELSE IF cost < t.cost[next[k]] THEN Append(g[k-1], next[k]) ELSE g[k-1]
    <3>1. k = 0 \/ k \in 1..N
      BY <1>4
    <3> QED BY <2>1, <2>2, <3>1
  <2> QED BY <2>2, <2>3, Zenon
<1> DEFINE nearer == CHOOSE f : f = [k \in 0..N |->
             IF k = 0 THEN <<>>
             ELSE IF cost < t.cost[next[k]] THEN Append(f[k-1], next[k]) ELSE f[k-1]]
<1>8. nearer = [k \in 0..N |->
             IF k = 0 THEN <<>>
             ELSE IF cost < t.cost[next[k]] THEN Append(nearer[k-1], next[k]) ELSE nearer[k-1]]
  BY <1>7
<1> DEFINE reached == nearer[N]
           Updated(f, value) == [c \in Cells |-> IF c \in ToSet(reached) THEN value ELSE f[c]]
<1>9. Expand(t) = [cost |-> Updated(t.cost, cost), togo |-> Updated(t.togo, t.togo[from]),
                   open |-> Tail(t.open) \o reached]
  BY DEF Expand, from, cost, next, N
<1> HIDE DEF nearer
<1>10. \A k \in 0..N : /\ nearer[k] \in S /\ OneEach(nearer[k])
                       /\ ToSet(nearer[k]) = {next[i] : i \in {j \in 1..k : cost < t.cost[next[j]]}}
  <2> DEFINE Found(k) == {next[i] : i \in {j \in 1..k : cost < t.cost[next[j]]}}
             T == {n \in 0..N : /\ nearer[n] \in S /\ OneEach(nearer[n])
                                /\ ToSet(nearer[n]) = Found(n)}
  <2>1. 0 \in T
    <3>1. nearer[0] = <<>> /\ 0 \in 0..N
      BY <1>4, <1>8
    <3>2. Found(0) = {} /\ ToSet(<<>>) = {} /\ OneEach(<<>>)
      BY EmptySeq DEF ToSet, OneEach
    <3> HIDE DEF Found
    <3> QED BY <1>5, <3>1, <3>2
  <2>2. ASSUME NEW k \in 1..N, k - 1 \in T PROVE k \in T
    <3>1. nearer[k-1] \in S /\ next[k] \in Free
      BY <1>4, <2>2
    <3>2. nearer[k] = IF cost < t.cost[next[k]] THEN Append(nearer[k-1], next[k])
                                                ELSE nearer[k-1]
      <4>1. k \in 0..N /\ k # 0
        BY <1>4
      <4> QED BY <1>8, <4>1, Zenon
    <3>3. \A i \in 1..k : i \in 1..k-1 \/ i = k
      BY <1>4
    <3>4. \A i \in 1..k-1 : i \in 1..k /\ i \in 1..N /\ i # k
      BY <1>4
    <3>5. k \in 0..N /\ k \in 1..k
      BY <1>4
    <3>6. CASE cost < t.cost[next[k]]
      <4> DEFINE G == {n \in Free : cost < t.cost[n]}
                 more == <<next[k]>>
      <4>1. nearer[k-1] \in Seq(G) /\ more \in Seq(G) /\ next[k] \in G
        BY <3>1, <3>6 DEF S
      <4>2. nearer[k] = nearer[k-1] \o more
        <5>1. Append(nearer[k-1], next[k]) = nearer[k-1] \o <<next[k]>>
          BY <4>1
        <5> QED BY <3>2, <3>6, <5>1
      <4>3. ToSet(more) = {next[k]} /\ OneEach(more)
        BY DEF ToSet, OneEach
      <4>4. next[k] \notin Found(k-1)
        <5>1. \A i \in 1..k-1 : next[i] # next[k]
          BY <1>0, <1>4, <3>4 DEF OneEach
        <5> QED BY <5>1
      <4>5. Found(k) = Found(k-1) \cup {next[k]}
        BY <3>3, <3>4, <3>5, <3>6
      <4> HIDE DEF G, Found, more
      <4>6. /\ nearer[k-1] \o more \in Seq(G) /\ OneEach(nearer[k-1] \o more)
            /\ ToSet(nearer[k-1] \o more) = Found(k-1) \cup {next[k]}
        BY <2>2, <4>1, <4>3, <4>4, Joined
      <4> QED BY <3>5, <4>2, <4>5, <4>6 DEF S, G
    <3>7. CASE ~(cost < t.cost[next[k]])
      <4>1. nearer[k] = nearer[k-1]
        BY <3>2, <3>7
      <4>2. Found(k) = Found(k-1)
        BY <3>3, <3>4, <3>7
      <4> HIDE DEF Found
      <4> QED BY <2>2, <3>5, <4>1, <4>2
    <3> QED BY <3>6, <3>7
  <2> HIDE DEF T
  <2>3. \A k \in 0..N : k \in T
    BY <1>4, <2>1, <2>2, UpTo
  <2> QED BY <2>3 DEF T
<1>11. /\ reached \in Seq(Free) /\ OneEach(reached)
       /\ ToSet(reached) = {n \in Neighbors(from) : cost < t.cost[n]}
  <2>1. N \in 0..N
    BY <1>4
  <2>2. reached \in Seq({n \in Free : cost < t.cost[n]})
    BY <1>10, <2>1 DEF S
  <2>3. ToSet(next) = {next[i] : i \in 1..N}
    BY <1>4 DEF ToSet
  <2>4. ToSet(reached) = {n \in ToSet(next) : cost < t.cost[n]}
    BY <1>10, <2>1, <2>3
  <2>5. OneEach(reached)
    BY <1>10, <2>1
  <2> HIDE DEF reached
  <2>6. reached \in Seq(Free)
    BY <2>2, SeqMonotonic
  <2> QED BY <1>0, <2>4, <2>5, <2>6
<1> HIDE DEF reached
<1> QED BY <1>2, <1>9, <1>11 DEF from, cost

(* So it keeps the types.                                                  *)
LEMMA ExpandTable ==
  ASSUME NEW t \in Table, t.open # <<>>
  PROVE  Head(t.open) \in Free /\ Expand(t) \in Table
<1> DEFINE from == Head(t.open)
           cost == t.cost[from] + 1
           nearer == {n \in Neighbors(from) : cost < t.cost[n]}
           Updated(f, value) == [c \in Cells |-> IF c \in nearer THEN value ELSE f[c]]
<1>1. t.open \in Seq(Free) /\ t.cost \in [Cells -> 0..MAX_TIMESTEP] /\ t.togo \in [Cells -> Nat]
  BY DEF Table
<1>2. from \in Free /\ Tail(t.open) \in Seq(Free)
  BY <1>1, HeadTailProperties
<1>3. PICK reached \in Seq(Free) :
        Expand(t) = [cost |-> Updated(t.cost, cost), togo |-> Updated(t.togo, t.togo[from]),
                     open |-> Tail(t.open) \o reached]
  BY Expanded
<1> HIDE DEF from
<1>4. \A n \in nearer : n \in Cells
  BY Grid DEF Neighbors
<1>5. cost \in Nat /\ \A c \in nearer : cost < t.cost[c] /\ t.cost[c] <= MAX_TIMESTEP
  <2>1. from \in Cells /\ MAX_TIMESTEP \in Nat
    BY <1>2, Grid
  <2>2. cost \in Nat
    BY <1>1, <2>1
  <2>3. \A c \in nearer : cost < t.cost[c]
    OBVIOUS
  <2> HIDE DEF cost, nearer
  <2> QED BY <1>1, <1>4, <2>1, <2>2, <2>3
<1> HIDE DEF cost, nearer
<1>6. Updated(t.cost, cost) \in [Cells -> 0..MAX_TIMESTEP]
  BY <1>1, <1>4, <1>5, Grid
<1>7. Updated(t.togo, t.togo[from]) \in [Cells -> Nat]
  BY <1>1, <1>2, Grid
<1>8. Tail(t.open) \o reached \in Seq(Free)
  BY <1>2, ConcatProperties
<1> HIDE DEF Updated
<1>9. Expand(t) \in Table
  BY <1>3, <1>6, <1>7, <1>8 DEF Table
<1> QED BY <1>2, <1>9 DEF from

(* A question: the search goes on from t until the cell asked for is taken *)
(* out, or nothing is open.                                                *)
IsSearch(looks, T, t, source) ==
  LET N == Rows * Cols
      first == [table |-> t, done |-> t.cost[source] < MAX_TIMESTEP]
      After(before) == IF before.done \/ before.table.open = <<>> THEN before
                       ELSE [table |-> Expand(before.table),
                             done |-> Head(before.table.open) = source]
  IN  /\ \A n \in 0..N : looks[n] \in [table : T, done : BOOLEAN]
      /\ looks[0] = first
      /\ \A n \in 1..N : looks[n] = After(looks[n-1])
      /\ Asked(t, source) = looks[N].table

(* What an iteration keeps, a question keeps.                              *)
LEMMA AskedSearches ==
  ASSUME NEW T \in SUBSET Table, \A u \in T : u.open # <<>> => Expand(u) \in T,
         NEW t \in T, NEW source \in Cells
  PROVE  /\ \E looks : IsSearch(looks, T, t, source)
         /\ Asked(t, source) \in T
<1> DEFINE N == Rows * Cols
           S == [table : T, done : BOOLEAN]
           first == [table |-> t, done |-> t.cost[source] < MAX_TIMESTEP]
           After(before) == IF before.done \/ before.table.open = <<>> THEN before
                            ELSE [table |-> Expand(before.table),
                                  done |-> Head(before.table.open) = source]
           step == [x \in (1..N) \X S |-> After(x[2])]
<1>1. N \in Nat
  BY Grid
<1>2. first \in S
  <2>1. (t.cost[source] < MAX_TIMESTEP) \in BOOLEAN
    OBVIOUS
  <2> QED BY <2>1
<1>3. ASSUME NEW before \in S PROVE After(before) \in S
  <2>1. before.table \in T
    OBVIOUS
  <2>2. CASE before.done \/ before.table.open = <<>>
    BY <2>2
  <2>3. CASE ~(before.done \/ before.table.open = <<>>)
    <3>1. Expand(before.table) \in T
      BY <2>1, <2>3
    <3>2. (Head(before.table.open) = source) \in BOOLEAN
      OBVIOUS
    <3>3. [table |-> Expand(before.table), done |-> Head(before.table.open) = source] \in S
      BY <3>1, <3>2
    <3> QED BY <2>3, <3>3
  <2> QED BY <2>2, <2>3
<1> HIDE DEF N, S, first, After
<1>4. step \in Steps(N, S)
  BY <1>3 DEF Steps
<1> HIDE DEF step
<1>5. PICK g : Runs(g, N, S, first, step)
  BY <1>1, <1>2, <1>4, Loop
<1>6. g = [n \in 0..N |-> IF n = 0 THEN first ELSE After(g[n-1])]
  <2>1. ASSUME NEW n \in 0..N
        PROVE  g[n] = IF n = 0 THEN first ELSE After(g[n-1])
    <3>1. n = 0 \/ n \in 1..N
      BY <1>1
    <3> QED BY <1>5, <3>1 DEF Runs, step
  <2>2. g \in [0..N -> S]
    BY <1>5 DEF Runs
  <2> QED BY <2>1, <2>2, Zenon
<1> DEFINE looks == CHOOSE f : f = [n \in 0..N |-> IF n = 0 THEN first ELSE After(f[n-1])]
<1>7. looks = [n \in 0..N |-> IF n = 0 THEN first ELSE After(looks[n-1])]
  BY <1>6, Zenon
<1>8. Asked(t, source) = looks[N].table
  BY DEF Asked, N, first, After
<1> HIDE DEF looks
<1>9. \A n \in 0..N : looks[n] \in S
  <2> DEFINE M == {n \in 0..N : looks[n] \in S}
  <2>1. 0 \in M
    BY <1>1, <1>2, <1>7
  <2>2. ASSUME NEW n \in 1..N, n - 1 \in M PROVE n \in M
    <3>1. n \in 0..N /\ n # 0
      BY <1>1
    <3>2. looks[n] = After(looks[n-1])
      BY <1>7, <3>1, Zenon
    <3>3. looks[n] \in S
      BY <1>3, <2>2, <3>2, Zenon
    <3> QED BY <3>1, <3>3
  <2> HIDE DEF M
  <2>3. \A n \in 0..N : n \in M
    BY <1>1, <2>1, <2>2, UpTo
  <2> QED BY <2>3 DEF M
<1>10. looks[N] \in S
  BY <1>1, <1>9
<1>11. Asked(t, source) \in T
  BY <1>8, <1>10 DEF S
<1>12. IsSearch(looks, T, t, source)
  <2>1. 0 \in 0..N /\ \A n \in 1..N : n \in 0..N /\ n # 0
    BY <1>1
  <2>2. looks[0] = first
    BY <1>7, <2>1, Zenon
  <2>3. \A n \in 1..N : looks[n] = After(looks[n-1])
    BY <1>7, <2>1, Zenon
  <2> QED BY <1>8, <1>9, <2>2, <2>3, Zenon DEF IsSearch, N, S, first, After
<1> QED BY <1>11, <1>12, Zenon

LEMMA AskedTable ==
  ASSUME NEW t \in Table, NEW source \in Cells
  PROVE  Asked(t, source) \in Table
BY AskedSearches, ExpandTable

(* So do several questions.                                                *)
LEMMA AskedAllSearches ==
  ASSUME NEW U \in SUBSET Table, \A u \in U : u.open # <<>> => Expand(u) \in U,
         NEW t \in U, NEW sources \in Seq(Cells)
  PROVE  AskedAll(t, sources) \in U
<1> DEFINE N == Len(sources)
           step == [x \in (1..N) \X U |-> Asked(x[2], sources[x[1]])]
<1>1. N \in Nat /\ \A n \in 1..N : sources[n] \in Cells
  BY LenProperties
<1> HIDE DEF N
<1>2. step \in Steps(N, U)
  <2>1. \A x \in (1..N) \X U : x[2] \in U /\ sources[x[1]] \in Cells
    BY <1>1
  <2> QED BY <2>1, AskedSearches DEF Steps
<1> HIDE DEF step
<1>3. PICK g : Runs(g, N, U, t, step)
  BY <1>1, <1>2, Loop
<1>4. g = [k \in 0..N |-> IF k = 0 THEN t ELSE Asked(g[k-1], sources[k])]
  <2>1. ASSUME NEW n \in 0..N
        PROVE  g[n] = IF n = 0 THEN t ELSE Asked(g[n-1], sources[n])
    <3>1. n = 0 \/ n \in 1..N
      BY <1>1
    <3> QED BY <1>3, <3>1 DEF Runs, step
  <2>2. g \in [0..N -> U]
    BY <1>3 DEF Runs
  <2> QED BY <2>1, <2>2, Zenon
<1> DEFINE table == CHOOSE f : f = [k \in 0..N |-> IF k = 0 THEN t ELSE Asked(f[k-1], sources[k])]
<1>5. table = [k \in 0..N |-> IF k = 0 THEN t ELSE Asked(table[k-1], sources[k])]
  BY <1>4, Zenon
<1>6. AskedAll(t, sources) = table[N]
  BY DEF AskedAll, N
<1> HIDE DEF table
<1>7. \A n \in 0..N : table[n] \in U
  <2> DEFINE T == {n \in 0..N : table[n] \in U}
  <2>1. 0 \in T
    BY <1>1, <1>5
  <2>2. ASSUME NEW n \in 1..N, n - 1 \in T PROVE n \in T
    <3>1. n \in 0..N /\ n # 0
      BY <1>1
    <3>2. table[n] = Asked(table[n-1], sources[n])
      BY <1>5, <3>1, Zenon
    <3>3. table[n] \in U
      BY <1>1, <2>2, <3>2, AskedSearches, Zenon
    <3> QED BY <3>1, <3>3
  <2> HIDE DEF T
  <2>3. \A n \in 0..N : n \in T
    BY <1>1, <2>1, <2>2, UpTo
  <2> QED BY <2>3 DEF T
<1> QED BY <1>1, <1>6, <1>7

LEMMA AskedAllTable ==
  ASSUME NEW t \in Table, NEW sources \in Seq(Cells)
  PROVE  AskedAll(t, sources) \in Table
BY AskedAllSearches, ExpandTable

(* The tables that searches begin with.                                    *)
LEMMA NewTables ==
  /\ EmptyTable \in Table
  /\ \A goal \in Free : init_heuristic(goal) \in Table
  /\ \A path \in Seq(Free) : init_dist_2_path(path) \in Table
<1>1. EmptyTable \in Table
  BY Grid, EmptySeq DEF EmptyTable, Table
<1>2. ASSUME NEW goal \in Free PROVE init_heuristic(goal) \in Table
  <2>1. <<goal>> \in Seq(Free)
    OBVIOUS
  <2>2. init_heuristic(goal) = [EmptyTable EXCEPT !.cost[goal] = 0, !.open = <<goal>>]
    BY DEF init_heuristic
  <2>3. ASSUME NEW t \in Table
        PROVE  [t EXCEPT !.cost[goal] = 0, !.open = <<goal>>] \in Table
    <3> DEFINE f == [t.cost EXCEPT ![goal] = 0]
               o == <<goal>>
    <3>1. f \in [Cells -> 0..MAX_TIMESTEP] /\ o \in Seq(Free)
      BY <2>1, Grid DEF Table
    <3>2. [t EXCEPT !.cost[goal] = 0, !.open = <<goal>>] = [t EXCEPT !.cost = f, !.open = o]
      BY DEF Table
    <3> HIDE DEF f, o
    <3>3. [t EXCEPT !.cost = f, !.open = o] \in Table
      BY <3>1 DEF Table
    <3> QED BY <3>2, <3>3
  <2> QED BY <1>1, <2>2, <2>3
<1>3. ASSUME NEW path \in Seq(Free) PROVE init_dist_2_path(path) \in Table
  <2> DEFINE n == Len(path)
             At(c) == CHOOSE i \in 1..n : path[i] = c
  <2>1. n \in Nat /\ path \in [1..n -> Free] /\ DOMAIN path = 1..n
    BY LenProperties
  <2>2. [c \in Cells |-> IF c \in ToSet(path) THEN 0 ELSE MAX_TIMESTEP]
          \in [Cells -> 0..MAX_TIMESTEP]
    BY Grid
  <2> HIDE DEF n
  <2>3. ASSUME NEW c \in ToSet(path) PROVE n - At(c) \in Nat
    <3>1. \E i \in 1..n : path[i] = c
      BY <2>1, <2>3 DEF ToSet
    <3>2. At(c) \in 1..n
      BY <3>1
    <3> HIDE DEF At
    <3> QED BY <2>1, <3>2
  <2> HIDE DEF At
  <2>4. [c \in Cells |-> IF c \in ToSet(path) THEN n - At(c) ELSE 0] \in [Cells -> Nat]
    BY <2>3
  <2>5. Reverse(path) \in Seq(Free)
    <3>1. Reverse(path) = [i \in 1..n |-> path[(n - i) + 1]]
      BY DEF Reverse, n
    <3>2. \A i \in 1..n : (n - i) + 1 \in 1..n
      BY <2>1
    <3>3. [i \in 1..n |-> path[(n - i) + 1]] \in [1..n -> Free]
      BY <2>1, <3>2
    <3> QED BY <2>1, <3>1, <3>3, IsASeq
  <2>6. init_dist_2_path(path)
          = [cost |-> [c \in Cells |-> IF c \in ToSet(path) THEN 0 ELSE MAX_TIMESTEP],
             togo |-> [c \in Cells |-> IF c \in ToSet(path) THEN n - At(c) ELSE 0],
             open |-> Reverse(path)]
    BY DEF init_dist_2_path, n, At
  <2> QED BY <2>2, <2>4, <2>5, <2>6 DEF Table
<1> QED BY <1>1, <1>2, <1>3


-----------------------------------------------------------------------------
(* Distances.                                                              *)

(* What makes a function the distance from S, as far as it can be reached. *)
IsDistance(D, S) ==
  /\ D \in [Cells -> 0..Unreachable]
  /\ \A c \in Cells : /\ D[c] = 0 <=> c \in S
                      /\ \A n \in Neighbors(c) : D[n] <= D[c] + 1
                      /\ D[c] > 0 /\ D[c] < Unreachable =>
                           \E p \in Cells : c \in Neighbors(p) /\ D[p] = D[c] - 1

(* The cells at most n steps away.                                         *)
LEMMA Balls ==
  ASSUME NEW S \in SUBSET Cells
  PROVE  /\ Within(S) \in [0..Unreachable -> SUBSET Cells]
         /\ Within(S)[0] = S
         /\ \A n \in 1..Unreachable :
              Within(S)[n] = Within(S)[n-1] \cup UNION {Neighbors(c) : c \in Within(S)[n-1]}
<1> DEFINE N == Unreachable
           More(B) == B \cup UNION {Neighbors(c) : c \in B}
           step == [x \in (1..N) \X SUBSET Cells |-> More(x[2])]
<1>1. N \in Nat /\ N = Rows * Cols
  BY Grid DEF Unreachable
<1>2. ASSUME NEW B \in SUBSET Cells PROVE More(B) \in SUBSET Cells
  <2>1. \A c \in B : Neighbors(c) \subseteq Cells
    BY Grid DEF Neighbors
  <2> QED BY <2>1
<1> HIDE DEF N, More
<1>3. step \in Steps(N, SUBSET Cells)
  BY <1>2 DEF Steps
<1> HIDE DEF step
<1>4. PICK g : Runs(g, N, SUBSET Cells, S, step)
  BY <1>1, <1>3, Loop
<1>5. g \in [0..N -> SUBSET Cells]
  BY <1>4 DEF Runs
<1>6. g = [n \in 0..N |-> IF n = 0 THEN S ELSE More(g[n-1])]
  <2>1. ASSUME NEW n \in 0..N PROVE g[n] = IF n = 0 THEN S ELSE More(g[n-1])
    <3>1. n = 0 \/ n \in 1..N
      BY <1>1
    <3> QED BY <1>4, <3>1 DEF Runs, step
  <2> QED BY <1>5, <2>1, Zenon
<1> DEFINE ball == CHOOSE f : f = [n \in 0..N |-> IF n = 0 THEN S ELSE More(f[n-1])]
<1>7. ball = [n \in 0..N |-> IF n = 0 THEN S ELSE More(ball[n-1])]
  BY <1>6, Zenon
<1>8. Within(S) = ball
  BY <1>1 DEF Within, N, More
<1> HIDE DEF ball
<1>9. ball[0] = S /\ \A n \in 1..N : ball[n] = More(ball[n-1])
  <2>1. 0 \in 0..N /\ \A n \in 1..N : n \in 0..N /\ n # 0
    BY <1>1
  <2> QED BY <1>7, <2>1, Zenon
<1>10. \A n \in 0..N : ball[n] \in SUBSET Cells
  <2> DEFINE T == {n \in 0..N : ball[n] \in SUBSET Cells}
  <2>1. 0 \in T
    BY <1>1, <1>9
  <2>2. ASSUME NEW n \in 1..N, n - 1 \in T PROVE n \in T
    BY <1>1, <1>2, <1>9, <2>2
  <2> HIDE DEF T
  <2>3. \A n \in 0..N : n \in T
    BY <1>1, <2>1, <2>2, UpTo
  <2> QED BY <2>3 DEF T
<1>11. ball \in [0..N -> SUBSET Cells]
  BY <1>7, <1>10, Zenon
<1> QED BY <1>8, <1>9, <1>11 DEF N, More

(* DistanceFrom is the distance.                                           *)
LEMMA DistanceFromIs ==
  ASSUME NEW S \in SUBSET Cells
  PROVE  IsDistance(DistanceFrom(S), S)
<1> DEFINE N == Unreachable
           ball == Within(S)
           D == DistanceFrom(S)
           First(c, n) == c \in ball[n] /\ (n > 0 => c \notin ball[n-1])
<1>1. N \in Nat /\ N > 0 /\ N = Rows * Cols
  <2>1. \A i, j \in Nat \ {0} : i * j > 0
    OBVIOUS
  <2> QED BY <2>1, Grid, SimulatorAssumption DEF Unreachable
<1>2. /\ ball \in [0..N -> SUBSET Cells] /\ ball[0] = S
      /\ \A n \in 1..N : ball[n] = ball[n-1] \cup UNION {Neighbors(c) : c \in ball[n-1]}
  BY Balls
<1>3. D = [c \in Cells |-> IF c \in ball[N] THEN CHOOSE n \in 0..N : First(c, n) ELSE N]
  BY <1>1 DEF DistanceFrom
<1> HIDE DEF N, ball, D
<1>4. ASSUME NEW m \in 0..N, NEW n \in m..N PROVE ball[m] \subseteq ball[n]
  <2> DEFINE T == {k \in 0..N - m : ball[m] \subseteq ball[m+k]}
  <2>1. N - m \in Nat /\ 0 \in T
    BY <1>1
  <2>2. ASSUME NEW k \in 1..N - m, k - 1 \in T PROVE k \in T
    <3>1. m + k \in 1..N /\ (m + k) - 1 = m + (k - 1)
      BY <1>1
    <3>2. ball[m+(k-1)] \subseteq ball[m+k]
      BY <1>2, <3>1
    <3> QED BY <1>1, <2>2, <3>2
  <2> HIDE DEF T
  <2>3. \A k \in 0..N - m : k \in T
    BY <2>1, <2>2, UpTo
  <2>4. n - m \in 0..N - m /\ m + (n - m) = n
    BY <1>1
  <2> QED BY <2>3, <2>4 DEF T
<1>5. ASSUME NEW c \in ball[N] PROVE D[c] \in 0..N /\ First(c, D[c])
  <2> DEFINE B == {n \in 0..N : c \in ball[n]}
  <2>1. B \in SUBSET Nat /\ B # {}
    BY <1>1
  <2>2. PICK n \in B : \A k \in B : n <= k
    BY <2>1, LeastNumber
  <2>3. n \in 0..N /\ First(c, n)
    <3>1. n > 0 => n - 1 \in 0..N /\ ~(n <= n - 1)
      BY <1>1
    <3> QED BY <2>2, <3>1
  <2>4. c \in Cells
    BY <1>1, <1>2
  <2>5. D[c] = CHOOSE k \in 0..N : First(c, k)
    BY <1>3, <2>4
  <2> HIDE DEF First
  <2> QED BY <2>3, <2>5
<1>6. ASSUME NEW c \in Cells, c \notin ball[N] PROVE D[c] = N
  BY <1>3, <1>6
<1>7. ASSUME NEW c \in Cells, NEW m \in 0..N, c \in ball[m] PROVE c \in ball[N] /\ D[c] <= m
  <2>1. c \in ball[N]
    BY <1>1, <1>4, <1>7
  <2>2. D[c] \in 0..N /\ First(c, D[c])
    BY <1>5, <2>1
  <2>3. D[c] > m => m \in 0..N /\ D[c] - 1 \in m..N
    BY <1>1, <2>2
  <2>4. D[c] > m => c \in ball[D[c]-1]
    BY <1>4, <1>7, <2>3
  <2> QED BY <1>1, <2>1, <2>2, <2>4
<1>8. \A c \in Cells : D[c] \in 0..N
  BY <1>1, <1>5, <1>6
<1>9. D \in [Cells -> 0..N]
  BY <1>3, <1>8
<1>10. ASSUME NEW c \in Cells PROVE D[c] = 0 <=> c \in S
  <2>1. ASSUME c \in S PROVE D[c] = 0
    <3>1. 0 \in 0..N /\ c \in ball[0]
      BY <1>1, <1>2, <2>1
    <3>2. D[c] <= 0
      BY <1>7, <3>1
    <3> QED BY <1>8, <3>2
  <2>2. ASSUME D[c] = 0 PROVE c \in S
    <3>1. c \in ball[N]
      BY <1>1, <1>6, <2>2
    <3>2. c \in ball[0]
      BY <1>5, <2>2, <3>1
    <3> QED BY <1>2, <3>2
  <2> QED BY <2>1, <2>2
<1>11. ASSUME NEW c \in Cells, NEW n \in Neighbors(c) PROVE n \in Cells /\ D[n] <= D[c] + 1
  <2>1. n \in Cells
    BY Grid DEF Neighbors
  <2>2. CASE D[c] = N
    BY <1>1, <1>8, <2>1, <2>2
  <2>3. CASE D[c] # N
    <3>1. c \in ball[N]
      BY <1>6, <2>3
    <3>2. c \in ball[D[c]]
      BY <1>5, <3>1
    <3>3. D[c] + 1 \in 1..N /\ (D[c] + 1) - 1 = D[c] /\ D[c] + 1 \in 0..N
      BY <1>1, <1>8, <2>3
    <3>4. n \in ball[D[c]+1]
      BY <1>2, <3>2, <3>3
    <3> QED BY <1>7, <2>1, <3>3, <3>4
  <2> QED BY <2>2, <2>3
<1>12. ASSUME NEW c \in Cells, D[c] > 0, D[c] < N
       PROVE  \E p \in Cells : c \in Neighbors(p) /\ D[p] = D[c] - 1
  <2>1. c \in ball[N]
    BY <1>1, <1>6, <1>12
  <2>2. D[c] \in 1..N /\ D[c] - 1 \in 0..N /\ c \in ball[D[c]] /\ c \notin ball[D[c]-1]
    BY <1>1, <1>5, <1>8, <1>12, <2>1
  <2>3. PICK p \in ball[D[c]-1] : c \in Neighbors(p)
    BY <1>2, <2>2
  <2>4. p \in Cells
    BY <1>2, <2>2
  <2>5. D[p] <= D[c] - 1
    BY <1>7, <2>2, <2>4
  <2>6. D[c] <= D[p] + 1
    BY <1>11, <2>3, <2>4
  <2>7. D[p] = D[c] - 1
    BY <1>8, <2>4, <2>5, <2>6
  <2> QED BY <2>3, <2>4, <2>7
<1> QED BY <1>9, <1>10, <1>11, <1>12 DEF IsDistance, N, D

(* Next to a cell that can be reached is none that cannot: there are not   *)
(* enough cells for a distance of as many steps.                           *)
LEMMA NextIsReachable ==
  ASSUME NEW D, NEW S, IsDistance(D, S), NEW c \in Cells, D[c] < Unreachable,
         NEW n \in Neighbors(c)
  PROVE  n \in Cells /\ D[n] < Unreachable
<1> DEFINE N == Unreachable
<1>1. N \in Nat /\ Cells = 0..N-1
  BY Grid DEF Unreachable, Cells
<1>2. n \in Cells
  BY Grid DEF Neighbors
<1>3. D \in [Cells -> 0..N] /\ D[n] <= D[c] + 1
  BY DEF IsDistance
<1>4. \A p \in Cells : D[p] > 0 /\ D[p] < N => \E q \in Cells : D[q] = D[p] - 1
  BY DEF IsDistance
<1>5. D[c] < N
  OBVIOUS
<1> HIDE DEF N
<1>6. SUFFICES ASSUME D[n] = N PROVE FALSE
  BY <1>1, <1>2, <1>3 DEF N
<1>7. D[c] = N - 1 /\ N - 1 \in Nat
  BY <1>1, <1>3, <1>5, <1>6
<1>8. ASSUME NEW k \in 0..N-1 PROVE \E p \in Cells : D[p] = k
  <2> DEFINE T == {j \in 0..N-1 : \E p \in Cells : D[p] = (N - 1) - j}
  <2>1. 0 \in T
    BY <1>1, <1>7
  <2>2. ASSUME NEW j \in 1..N-1, j - 1 \in T PROVE j \in T
    <3>1. PICK p \in Cells : D[p] = (N - 1) - (j - 1)
      BY <2>2
    <3>2. D[p] > 0 /\ D[p] < N /\ D[p] - 1 = (N - 1) - j /\ j \in 0..N-1
      BY <1>1, <3>1
    <3> QED BY <1>4, <3>2
  <2> HIDE DEF T
  <2>3. \A j \in 0..N-1 : j \in T
    BY <1>7, <2>1, <2>2, UpTo
  <2>4. (N - 1) - k \in 0..N-1 /\ (N - 1) - ((N - 1) - k) = k
    BY <1>1
  <2> QED BY <2>3, <2>4 DEF T
<1>9. \A k \in 0..N : \E p \in Cells : D[p] = k
  <2>1. \A k \in 0..N : k = N \/ k \in 0..N-1
    BY <1>1
  <2> QED BY <1>2, <1>6, <1>8, <2>1
<1> DEFINE f == [k \in 0..N |-> CHOOSE p \in Cells : D[p] = k]
<1>10. f \in [0..N -> Cells] /\ \A k \in 0..N : D[f[k]] = k
  BY <1>9
<1>11. IsFiniteSet(0..N) /\ Cardinality(0..N) = N + 1
  <2>1. 0 \in Int /\ N \in Int
    BY <1>1
  <2>2. /\ IsFiniteSet(0..N)
        /\ Cardinality(0..N) = IF 0 > N THEN 0 ELSE (N - 0) + 1
    BY <2>1, FS_Interval
  <2> QED BY <1>1, <2>2
<1>12. IsFiniteSet(Cells) /\ Cardinality(Cells) = N
  <2>1. 0 \in Int /\ N - 1 \in Int
    BY <1>1
  <2> QED BY <1>1, <1>7, <2>1, FS_Interval
<1> HIDE DEF f
<1>13. f \in Injection(0..N, Cells)
  BY <1>10 DEF Injection, IsInjective
<1>14. Cardinality(0..N) <= Cardinality(Cells)
  BY <1>12, <1>13, FS_Injection, Zenon
<1> QED BY <1>1, <1>11, <1>12, <1>14

(* The distance to a goal, and to a way.                                   *)
LEMMA DistancesAre ==
  /\ \A g \in Free : IsDistance(distance[g], {g})
  /\ \A path \in Seq(Free) :
       path # <<>> => IsDistance(DistanceToWay(path), ToSet(path))
<1>1. ASSUME NEW g \in Free PROVE IsDistance(distance[g], {g})
  <2>1. {g} \in SUBSET Cells
    BY Grid
  <2> QED BY <2>1, DistanceFromIs DEF distance
<1>2. ASSUME NEW path \in Seq(Free), path # <<>>
      PROVE  IsDistance(DistanceToWay(path), ToSet(path))
  <2> DEFINE S == ToSet(path)
             D == DistanceToWay(path)
             N == Unreachable
  <2>1. S \subseteq Free /\ S # {}
    <3>1. Len(path) \in Nat \ {0} /\ DOMAIN path = 1..Len(path)
      BY <1>2, EmptySeq, LenProperties
    <3>2. \A i \in 1..Len(path) : path[i] \in Free
      BY ElementOfSeq
    <3> QED BY <3>1, <3>2 DEF ToSet
  <2>2. N \in Nat
    BY Grid DEF Unreachable
  <2>3. \A p \in S : IsDistance(distance[p], {p})
    BY <1>1, <2>1
  <2>4. D = [c \in Cells |-> Min({distance[p][c] : p \in S})]
    BY DEF DistanceToWay
  <2> HIDE DEF S, D, N
  <2>5. \A p \in S : distance[p] \in [Cells -> 0..N]
    BY <2>3 DEF IsDistance, N
  <2>6. ASSUME NEW c \in Cells
        PROVE  /\ \E p \in S : D[c] = distance[p][c]
               /\ \A p \in S : D[c] <= distance[p][c]
    <3> DEFINE V == {distance[p][c] : p \in S}
    <3>1. V \in SUBSET Nat /\ V # {}
      BY <2>1, <2>2, <2>5
    <3>2. \E n \in V : \A k \in V : n <= k
      BY <3>1, LeastNumber
    <3>3. D[c] = Min(V)
      BY <2>4
    <3> HIDE DEF V
    <3>4. D[c] \in V /\ \A k \in V : D[c] <= k
      BY <3>2, <3>3 DEF Min
    <3> QED BY <3>4 DEF V
  <2>7. D \in [Cells -> 0..N]
    BY <2>4, <2>5, <2>6
  <2>8. ASSUME NEW c \in Cells PROVE D[c] = 0 <=> c \in S
    <3>1. PICK p \in S : D[c] = distance[p][c]
      BY <2>6
    <3>2. D[c] = 0 => c = p
      BY <2>3, <3>1 DEF IsDistance
    <3>3. c \in S => distance[c][c] = 0 /\ D[c] <= distance[c][c]
      BY <2>3, <2>6 DEF IsDistance
    <3> QED BY <2>2, <2>7, <3>2, <3>3
  <2>9. ASSUME NEW c \in Cells, NEW n \in Neighbors(c) PROVE n \in Cells /\ D[n] <= D[c] + 1
    <3>1. PICK p \in S : D[c] = distance[p][c]
      BY <2>6
    <3>2. n \in Cells
      BY Grid DEF Neighbors
    <3>3. D[n] <= distance[p][n] /\ distance[p][n] <= distance[p][c] + 1
      BY <2>3, <2>6, <3>2 DEF IsDistance
    <3>4. D[n] \in Int /\ distance[p][n] \in Int /\ D[c] \in Int
      BY <2>2, <2>5, <2>7, <3>2
    <3> QED BY <3>1, <3>2, <3>3, <3>4
  <2>10. ASSUME NEW c \in Cells, D[c] > 0, D[c] < N
         PROVE  \E q \in Cells : c \in Neighbors(q) /\ D[q] = D[c] - 1
    <3>1. PICK p \in S : D[c] = distance[p][c]
      BY <2>6
    <3>2. PICK q \in Cells : c \in Neighbors(q) /\ distance[p][q] = distance[p][c] - 1
      BY <2>3, <2>10, <3>1 DEF IsDistance, N
    <3>3. D[q] <= distance[p][q] /\ D[c] <= D[q] + 1
      BY <2>6, <2>9, <3>2
    <3>4. D[q] \in Int /\ D[c] \in Int
      BY <2>2, <2>7
    <3> QED BY <3>1, <3>2, <3>3, <3>4
  <2> QED BY <2>7, <2>8, <2>9, <2>10 DEF IsDistance, S, D, N
<1> QED BY <1>1, <1>2

-----------------------------------------------------------------------------
(* A search reaches cells in the order of their distance.                  *)

(* No cell is left behind that is as near as those that are open.          *)
LEMMA NoneLeftBehind ==
  ASSUME NEW D, NEW S, IsDistance(D, S), NEW t \in Table, BreadthFirst(t, D),
         NEW k \in Nat, \A i \in DOMAIN t.open : k <= D[t.open[i]],
         NEW c \in Cells, D[c] <= k, D[c] < Unreachable
  PROVE  t.cost[c] < MAX_TIMESTEP
<1> DEFINE Reached(x) == t.cost[x] < MAX_TIMESTEP
           Left == {x \in Cells : D[x] <= k /\ D[x] < Unreachable /\ ~Reached(x)}
<1>1. Unreachable \in Nat
  BY Grid DEF Unreachable
<1>2. D \in [Cells -> 0..Unreachable]
  BY DEF IsDistance
<1>3. SUFFICES ASSUME c \in Left PROVE FALSE
  OBVIOUS
<1>4. {D[x] : x \in Left} \in SUBSET Nat /\ {D[x] : x \in Left} # {}
  BY <1>1, <1>2, <1>3
<1>5. PICK d \in {D[x] : x \in Left} : \A e \in {D[x] : x \in Left} : d <= e
  BY <1>4, LeastNumber
<1>6. PICK x \in Left : D[x] = d
  BY <1>5
<1>7. x \in Cells /\ D[x] <= k /\ D[x] < Unreachable /\ ~Reached(x)
  BY <1>6
<1>8. D[x] # 0
  BY <1>7 DEF BreadthFirst
<1>9. PICK p \in Cells : x \in Neighbors(p) /\ D[p] = D[x] - 1
  BY <1>1, <1>2, <1>7, <1>8 DEF IsDistance
<1>10. D[p] \in Nat /\ D[x] \in Nat /\ D[p] < D[x]
  BY <1>1, <1>2, <1>7, <1>9
<1>11. Reached(p)
  <2>1. p \notin Left
    BY <1>5, <1>6, <1>10
  <2> QED BY <1>1, <1>7, <1>9, <1>10, <2>1
<1>12. p \notin ToSet(t.open)
  <2>1. \A i \in DOMAIN t.open : t.open[i] # p
    BY <1>7, <1>10
  <2> QED BY <2>1 DEF ToSet
<1>13. Reached(x)
  BY <1>9, <1>11, <1>12 DEF BreadthFirst
<1> QED BY <1>7, <1>13

(* Cells that a search has done with.                                      *)
Settled(t) == {c \in Cells : t.cost[c] < MAX_TIMESTEP /\ c \notin ToSet(t.open)}

(* An iteration keeps the order, and is done with one cell more.           *)
LEMMA ExpandInOrder ==
  ASSUME NEW D, NEW S, IsDistance(D, S), Unreachable < MAX_TIMESTEP,
         NEW t \in Table, BreadthFirst(t, D), t.open # <<>>
  PROVE  LET from == Head(t.open)
             nearer == {n \in Neighbors(from) : ~(t.cost[n] < MAX_TIMESTEP)}
         IN  /\ BreadthFirst(Expand(t), D)
             /\ from \in Cells /\ t.cost[from] < MAX_TIMESTEP /\ from \notin Settled(t)
             /\ Settled(Expand(t)) = Settled(t) \cup {from}
             /\ \A n \in nearer : n \in Cells /\ D[n] = D[from] + 1
             /\ \A c \in Cells :
                  /\ Expand(t).cost[c] = IF c \in nearer THEN D[c] ELSE t.cost[c]
                  /\ Expand(t).togo[c] = IF c \in nearer THEN t.togo[from] ELSE t.togo[c]
<1> DEFINE from == Head(t.open)
           k == D[from]
           o == t.open
           M == Len(o)
           Reached(x) == t.cost[x] < MAX_TIMESTEP
           nearer == {n \in Neighbors(from) : ~Reached(n)}
           u == Expand(t)
<1>1. Unreachable \in Nat /\ MAX_TIMESTEP \in Nat /\ D \in [Cells -> 0..Unreachable]
  BY Grid DEF Unreachable, IsDistance
<1>2. /\ t.open \in Seq(Free) /\ t.cost \in [Cells -> 0..MAX_TIMESTEP]
      /\ t.togo \in [Cells -> Nat]
  BY DEF Table
<1>3. /\ M \in Nat \ {0} /\ DOMAIN o = 1..M /\ (\A i \in 1..M : o[i] \in Free) /\ from = o[1]
      /\ from \in Free /\ Tail(o) \in Seq(Free) /\ Len(Tail(o)) = M - 1
      /\ \A i \in 1..M-1 : Tail(o)[i] = o[i+1]
  BY <1>2, EmptySeq, LenProperties, HeadTailProperties
<1>4. from \in Cells /\ Reached(from) /\ t.cost[from] = k /\ k < Unreachable /\ k \in Nat
  <2>1. from \in Cells /\ Reached(from)
    <3>1. 1 \in DOMAIN t.open /\ from = t.open[1]
      BY <1>3
    <3>2. Reached(t.open[1])
      BY <3>1 DEF BreadthFirst
    <3> QED BY <1>3, <3>1, <3>2, Grid
  <2>2. t.cost[from] = k /\ k < Unreachable
    BY <2>1 DEF BreadthFirst
  <2> QED BY <1>1, <2>1, <2>2
<1>5. ASSUME NEW i \in 1..M PROVE k <= D[o[i]] /\ D[o[i]] <= k + 1 /\ Reached(o[i])
  <2>1. D[o[i]] <= k + 1 /\ Reached(o[i])
    BY <1>3 DEF BreadthFirst
  <2>2. k <= D[o[i]]
    <3>1. CASE i = 1
      BY <1>3, <1>4, <3>1
    <3>2. CASE i # 1
      <4>1. i \in 1+1..M /\ 1 \in DOMAIN t.open
        BY <1>3, <3>2
      <4> QED BY <1>3, <4>1 DEF BreadthFirst
    <3> QED BY <3>1, <3>2
  <2> QED BY <2>1, <2>2
<1>6. OneEach(o)
  <2> SUFFICES ASSUME NEW i \in 1..M, NEW j \in 1..M, o[i] = o[j] PROVE i = j
    BY <1>3 DEF OneEach
  <2>1. i < j => j \in i+1..M
    OBVIOUS
  <2>2. j < i => i \in j+1..M
    OBVIOUS
  <2>3. ~(i < j) /\ ~(j < i)
    BY <1>3, <2>1, <2>2 DEF BreadthFirst
  <2> QED BY <2>3
<1> HIDE DEF from, M, o
<1>7. ASSUME NEW n \in Neighbors(from)
      PROVE  /\ n \in Cells /\ D[n] \in Nat /\ D[n] <= k + 1 /\ D[n] < Unreachable
             /\ t.cost[n] \in 0..MAX_TIMESTEP
             /\ k + 1 < t.cost[n] <=> ~Reached(n)
             /\ ~Reached(n) => D[n] = k + 1
  <2>1. n \in Cells /\ D[n] < Unreachable
    BY <1>4, NextIsReachable
  <2>2. D[n] <= k + 1 /\ D[n] \in Nat /\ t.cost[n] \in 0..MAX_TIMESTEP
    BY <1>1, <1>2, <1>4, <2>1 DEF IsDistance
  <2>3. ASSUME Reached(n) PROVE ~(k + 1 < t.cost[n])
    <3>1. t.cost[n] = D[n]
      BY <2>1, <2>3 DEF BreadthFirst
    <3> QED BY <1>4, <2>2, <3>1
  <2>4. ASSUME ~Reached(n) PROVE k + 1 < t.cost[n] /\ D[n] = k + 1
    <3>1. t.cost[n] = MAX_TIMESTEP
      BY <1>1, <2>2, <2>4
    <3>2. ~(D[n] <= k)
      <4>1. \A i \in DOMAIN t.open : k <= D[t.open[i]]
        BY <1>3, <1>5 DEF o
      <4> QED BY <1>4, <2>1, <2>4, <4>1, NoneLeftBehind
    <3> QED BY <1>1, <1>4, <2>2, <3>1, <3>2
  <2> QED BY <2>1, <2>2, <2>3, <2>4
<1>8. PICK reached \in Seq(Free) :
        /\ ToSet(reached) = nearer /\ OneEach(reached)
        /\ u = [cost |-> [c \in Cells |-> IF c \in nearer THEN k + 1 ELSE t.cost[c]],
                togo |-> [c \in Cells |-> IF c \in nearer THEN t.togo[from] ELSE t.togo[c]],
                open |-> Tail(o) \o reached]
  <2>1. {n \in Neighbors(from) : k + 1 < t.cost[n]} = nearer
    BY <1>7
  <2>2. \E reached \in Seq(Free) :
          LET cost == t.cost[from] + 1
              new == {n \in Neighbors(from) : cost < t.cost[n]}
              Updated(f, value) == [c \in Cells |-> IF c \in new THEN value ELSE f[c]]
          IN  /\ ToSet(reached) = new /\ OneEach(reached)
              /\ u = [cost |-> Updated(t.cost, cost), togo |-> Updated(t.togo, t.togo[from]),
                      open |-> Tail(o) \o reached]
    BY Expanded DEF from, o
  <2> HIDE DEF nearer, u
  <2> QED BY <1>4, <2>1, <2>2
<1>9. \A n \in nearer : n \in Cells /\ ~Reached(n) /\ D[n] = k + 1 /\ D[n] < Unreachable
  BY <1>7
<1> DEFINE L == Len(reached)
           v == Tail(o) \o reached
           Reached2(x) == u.cost[x] < MAX_TIMESTEP
<1>10. /\ v \in Seq(Free) /\ DOMAIN v = 1..(M-1)+L /\ Len(v) = (M-1)+L
       /\ L \in Nat /\ OneEach(v)
       /\ ToSet(v) = (ToSet(o) \ {from}) \cup nearer
       /\ \A i \in 1..(M-1)+L : v[i] = IF i <= M - 1 THEN o[i+1] ELSE reached[i-(M-1)]
  <2>1. L \in Nat /\ DOMAIN reached = 1..L
    BY <1>8, LenProperties
  <2>2. /\ v \in Seq(Free) /\ Len(v) = (M - 1) + L
        /\ \A i \in 1..(M-1)+L : v[i] = IF i <= M - 1 THEN Tail(o)[i] ELSE reached[i-(M-1)]
    <3> DEFINE tail == Tail(o)
    <3>1. tail \in Seq(Free) /\ Len(tail) = M - 1
      BY <1>3
    <3> HIDE DEF tail
    <3>2. /\ tail \o reached \in Seq(Free) /\ Len(tail \o reached) = Len(tail) + Len(reached)
          /\ \A i \in 1..Len(tail)+Len(reached) : (tail \o reached)[i] =
               IF i <= Len(tail) THEN tail[i] ELSE reached[i-Len(tail)]
      BY <1>8, <3>1, ConcatProperties
    <3> QED BY <3>1, <3>2 DEF tail
  <2>3. DOMAIN v = 1..(M-1)+L
    BY <2>2, LenProperties
  <2>4. \A i \in 1..(M-1)+L : v[i] = IF i <= M - 1 THEN o[i+1] ELSE reached[i-(M-1)]
    BY <1>3, <2>1, <2>2
  <2>5. DOMAIN Tail(o) = 1..M-1
    BY <1>3, LenProperties
  <2>6. OneEach(Tail(o))
    <3>1. \A i, j \in 1..M-1 : o[i+1] = o[j+1] => i = j
      <4> SUFFICES ASSUME NEW i \in 1..M-1, NEW j \in 1..M-1, o[i+1] = o[j+1] PROVE i = j
        OBVIOUS
      <4>1. i + 1 \in 1..M /\ j + 1 \in 1..M
        BY <1>3
      <4>2. i + 1 = j + 1
        BY <1>3, <1>6, <4>1 DEF OneEach
      <4> QED BY <4>2
    <3> QED BY <1>3, <2>5, <3>1 DEF OneEach
  <2>7. ToSet(Tail(o)) = ToSet(o) \ {from}
    <3>1. ToSet(Tail(o)) = {o[i+1] : i \in 1..M-1}
      BY <1>3, <2>5 DEF ToSet
    <3>2. ToSet(o) = {o[i] : i \in 1..M}
      BY <1>3 DEF ToSet
    <3>3. ASSUME NEW i \in 1..M-1 PROVE o[i+1] \in ToSet(o) \ {from}
      <4>1. i + 1 \in 1..M /\ 1 \in 1..M /\ i + 1 # 1
        BY <1>3
      <4> QED BY <1>3, <1>6, <3>2, <4>1 DEF OneEach
    <3>4. ASSUME NEW i \in 1..M, o[i] # from PROVE \E j \in 1..M-1 : o[i] = o[j+1]
      <4>1. i - 1 \in 1..M-1 /\ (i - 1) + 1 = i
        BY <1>3, <3>4
      <4> QED BY <4>1
    <3> QED BY <3>1, <3>2, <3>3, <3>4
  <2>8. ToSet(Tail(o)) \cap ToSet(reached) = {}
    <3>1. \A x \in ToSet(o) : Reached(x)
      BY <1>3, <1>5 DEF ToSet
    <3> QED BY <1>8, <1>9, <2>7, <3>1
  <2>9. OneEach(v) /\ ToSet(v) = ToSet(Tail(o)) \cup ToSet(reached)
    <3> DEFINE tail == Tail(o)
    <3>1. tail \in Seq(Free) /\ OneEach(tail) /\ ToSet(tail) \cap ToSet(reached) = {}
      BY <1>3, <2>6, <2>8
    <3> HIDE DEF tail
    <3>2. OneEach(tail \o reached) /\ ToSet(tail \o reached) = ToSet(tail) \cup ToSet(reached)
      BY <1>8, <3>1, Joined
    <3> QED BY <3>2 DEF tail
  <2> HIDE DEF v
  <2> QED BY <1>8, <2>1, <2>2, <2>3, <2>4, <2>7, <2>9
<1>11. /\ \A c \in Cells : u.cost[c] = IF c \in nearer THEN k + 1 ELSE t.cost[c]
       /\ \A c \in Cells : u.togo[c] = IF c \in nearer THEN t.togo[from] ELSE t.togo[c]
       /\ u.open = v
  BY <1>8
<1>12. \A i \in 1..L : reached[i] \in nearer
  <2>1. DOMAIN reached = 1..L
    BY <1>8, LenProperties
  <2> QED BY <1>8, <2>1 DEF ToSet
<1> HIDE DEF nearer, u, v, L
<1>13. \A c \in Cells : Reached2(c) <=> Reached(c) \/ c \in nearer
  BY <1>1, <1>4, <1>9, <1>11
<1>14. ASSUME NEW i \in 1..(M-1)+L
       PROVE  /\ v[i] \in Cells /\ Reached2(v[i])
              /\ k <= D[v[i]] /\ D[v[i]] <= k + 1
              /\ i > M - 1 => D[v[i]] = k + 1
  <2>1. CASE i <= M - 1
    <3>1. v[i] = o[i+1] /\ i + 1 \in 1..M
      BY <1>3, <1>10, <2>1
    <3>2. v[i] \in Cells
      BY <1>3, <3>1, Grid
    <3>3. Reached(v[i]) /\ k <= D[v[i]] /\ D[v[i]] <= k + 1
      BY <1>5, <3>1
    <3> QED BY <1>3, <1>13, <2>1, <3>2, <3>3
  <2>2. CASE ~(i <= M - 1)
    <3>1. v[i] = reached[i-(M-1)] /\ i - (M - 1) \in 1..L
      BY <1>3, <1>10, <2>2
    <3>2. v[i] \in nearer
      BY <1>12, <3>1
    <3>3. v[i] \in Cells /\ D[v[i]] = k + 1
      BY <1>9, <3>2
    <3> QED BY <1>4, <1>13, <3>2, <3>3
  <2> QED BY <2>1, <2>2
<1>15. BreadthFirst(u, D)
  <2>1. ASSUME NEW c \in Cells
        PROVE  /\ Reached2(c) => u.cost[c] = D[c] /\ D[c] < Unreachable
               /\ D[c] = 0 => Reached2(c)
               /\ Reached2(c) /\ c \notin ToSet(u.open) => \A n \in Neighbors(c) : Reached2(n)
    <3>1. Reached2(c) => u.cost[c] = D[c] /\ D[c] < Unreachable
      <4>1. CASE c \in nearer
        BY <1>9, <1>11, <4>1
      <4>2. CASE c \notin nearer
        BY <1>11, <1>13, <4>2 DEF BreadthFirst
      <4> QED BY <4>1, <4>2
    <3>2. D[c] = 0 => Reached2(c)
      BY <1>13 DEF BreadthFirst
    <3>3. ASSUME Reached2(c), c \notin ToSet(u.open), NEW n \in Neighbors(c) PROVE Reached2(n)
      <4>1. n \in Cells
        BY Grid DEF Neighbors
      <4>2. c \notin nearer /\ Reached(c) /\ (c = from \/ c \notin ToSet(o))
        BY <1>10, <1>11, <1>13, <3>3
      <4>3. CASE c = from
        BY <1>13, <4>1, <4>3 DEF nearer
      <4>4. CASE c \notin ToSet(o)
        <5>1. Reached(n)
          BY <4>2, <4>4 DEF BreadthFirst, o
        <5> QED BY <1>13, <4>1, <5>1
      <4> QED BY <4>2, <4>3, <4>4
    <3> QED BY <3>1, <3>2, <3>3
  <2>2. ASSUME NEW i \in DOMAIN u.open
        PROVE  /\ Reached2(u.open[i]) /\ D[u.open[i]] <= D[u.open[1]] + 1
               /\ \A j \in i+1..Len(u.open) :
                    u.open[i] # u.open[j] /\ D[u.open[i]] <= D[u.open[j]]
    <3>1. i \in 1..(M-1)+L /\ 1 \in 1..(M-1)+L /\ Len(u.open) = (M-1)+L
      <4>1. i \in 1..(M-1)+L
        BY <1>10, <1>11
      <4> QED BY <1>3, <1>10, <1>11, <4>1
    <3>2. Reached2(v[i]) /\ D[v[i]] \in Nat /\ D[v[1]] \in Nat /\ D[v[i]] <= D[v[1]] + 1
      <4>1. D[v[i]] \in Nat /\ D[v[1]] \in Nat
        BY <1>1, <1>14, <3>1
      <4> QED BY <1>4, <1>14, <3>1, <4>1
    <3>3. ASSUME NEW j \in i+1..(M-1)+L PROVE v[i] # v[j] /\ D[v[i]] <= D[v[j]]
      <4>1. j \in 1..(M-1)+L /\ i # j
        BY <3>1
      <4>2. v[i] # v[j]
        BY <1>10, <3>1, <4>1 DEF OneEach
      <4>3. D[v[j]] \in Nat /\ k <= D[v[j]] /\ D[v[j]] <= k + 1 /\ D[v[i]] <= k + 1
        BY <1>1, <1>14, <3>1, <4>1
      <4>4. CASE j > M - 1
        <5>1. D[v[j]] = k + 1
          BY <1>14, <4>1, <4>4
        <5> QED BY <4>2, <4>3, <5>1
      <4>5. CASE ~(j > M - 1)
        <5>1. v[i] = o[i+1] /\ v[j] = o[j+1] /\ i + 1 \in 1..M /\ j + 1 \in (i+1)+1..M
          <6>1. i <= M - 1 /\ j <= M - 1 /\ M \in Nat
            BY <1>3, <1>10, <3>1, <4>5
          <6>2. v[i] = o[i+1] /\ v[j] = o[j+1]
            BY <1>10, <3>1, <4>1, <6>1
          <6> QED BY <1>10, <3>1, <6>1, <6>2
        <5>2. D[o[i+1]] <= D[o[j+1]]
          BY <1>3, <5>1 DEF BreadthFirst, o, M
        <5> QED BY <4>2, <5>1, <5>2
      <4> QED BY <1>3, <3>1, <4>1, <4>2, <4>4, <4>5
    <3> QED BY <1>11, <3>1, <3>2, <3>3
  <2> QED BY <2>1, <2>2 DEF BreadthFirst
<1>16. from \in ToSet(o)
  <2>1. 1 \in DOMAIN o
    BY <1>3
  <2> QED BY <1>3, <2>1 DEF ToSet
<1>17. from \notin Settled(t)
  BY <1>16 DEF Settled, o
<1>18. Settled(u) = Settled(t) \cup {from}
  <2>1. \A c \in Cells : c \in Settled(u) <=> Reached2(c) /\ c \notin ToSet(v)
    BY <1>11 DEF Settled
  <2>2. \A c \in Cells : c \in Settled(t) <=> Reached(c) /\ c \notin ToSet(o)
    BY DEF Settled, o
  <2>3. \A c \in nearer : c # from
    BY <1>4, <1>9
  <2>4. \A c \in Cells : c \in Settled(u) <=> c \in Settled(t) \/ c = from
    <3>1. \A c \in nearer : ~Reached(c)
      BY <1>9
    <3> HIDE DEF Reached, Reached2
    <3> QED BY <1>4, <1>10, <1>13, <1>16, <2>1, <2>2, <2>3, <3>1
  <2>5. Settled(u) \subseteq Cells /\ Settled(t) \subseteq Cells
    BY DEF Settled
  <2> QED BY <1>4, <2>4, <2>5
<1>19. \A c \in Cells :
         /\ u.cost[c] = IF c \in nearer THEN D[c] ELSE t.cost[c]
         /\ u.togo[c] = IF c \in nearer THEN t.togo[from] ELSE t.togo[c]
  BY <1>9, <1>11
<1>20. \A n \in nearer : n \in Cells /\ D[n] = D[from] + 1
  BY <1>9
<1> QED BY <1>4, <1>15, <1>17, <1>18, <1>19, <1>20 DEF from, nearer, u

(* The tables that are searched in order.                                  *)
InOrder(D) == {t \in Table : BreadthFirst(t, D)}
InOrderToWay(traj) ==
  {t \in Table : BreadthFirst(t, DistanceToWay(traj)) /\ LeadsToWay(t, traj)}

LEMMA ExpandStaysInOrder ==
  ASSUME NEW D, NEW S, IsDistance(D, S), Unreachable < MAX_TIMESTEP
  PROVE  \A t \in InOrder(D) : t.open # <<>> => Expand(t) \in InOrder(D)
<1> SUFFICES ASSUME NEW t \in InOrder(D), t.open # <<>> PROVE Expand(t) \in InOrder(D)
  OBVIOUS
<1>1. t \in Table /\ BreadthFirst(t, D)
  BY DEF InOrder
<1>2. Expand(t) \in Table
  BY <1>1, ExpandTable
<1>3. BreadthFirst(Expand(t), D)
  BY <1>1, ExpandInOrder
<1> QED BY <1>2, <1>3 DEF InOrder

(* An iteration hands on the way to the nearest cell of a trajectory.      *)
LEMMA ExpandStaysOnWay ==
  ASSUME NEW traj \in Seq(Free), traj # <<>>, Unreachable < MAX_TIMESTEP
  PROVE  \A t \in InOrderToWay(traj) : t.open # <<>> => Expand(t) \in InOrderToWay(traj)
<1> DEFINE D == DistanceToWay(traj)
           S == ToSet(traj)
<1>1. IsDistance(D, S)
  BY DistancesAre
<1>2. \A i \in DOMAIN traj : traj[i] \in Free /\ traj[i] \in S
  <2>1. DOMAIN traj = 1..Len(traj)
    BY LenProperties
  <2> QED BY <2>1, ElementOfSeq DEF ToSet
<1>3. ASSUME NEW i \in DOMAIN traj, NEW c \in Cells
      PROVE  /\ distance[traj[i]][c] \in Nat
             /\ D[c] <= distance[traj[i]][c]
             /\ \A n \in Neighbors(c) : distance[traj[i]][n] <= distance[traj[i]][c] + 1
  <2>1. IsDistance(distance[traj[i]], {traj[i]})
    BY <1>2, DistancesAre
  <2>2. distance[traj[i]][c] \in Nat
    BY <2>1, Grid DEF IsDistance, Unreachable
  <2>3. D[c] <= distance[traj[i]][c]
    <3> DEFINE V == {distance[p][c] : p \in S}
    <3>1. \A p \in S : distance[p][c] \in Nat
      <4>1. S \subseteq Free
        <5>1. S = {traj[j] : j \in DOMAIN traj}
          BY DEF ToSet
        <5> HIDE DEF S
        <5> QED BY <1>2, <5>1
      <4>2. \A p \in S : IsDistance(distance[p], {p})
        BY <4>1, DistancesAre
      <4> HIDE DEF S
      <4> QED BY <4>2, Grid DEF IsDistance, Unreachable
    <3>2. distance[traj[i]][c] \in V
      BY <1>2
    <3>3. V \in SUBSET Nat /\ V # {}
      BY <3>1, <3>2
    <3>4. D[c] = Min(V)
      BY DEF DistanceToWay
    <3> HIDE DEF V
    <3>5. \E n \in V : \A k \in V : n <= k
      BY <3>3, LeastNumber
    <3> QED BY <3>2, <3>4, <3>5 DEF Min
  <2> QED BY <2>1, <2>2, <2>3 DEF IsDistance
<1> SUFFICES ASSUME NEW t \in InOrderToWay(traj), t.open # <<>>
             PROVE  Expand(t) \in InOrderToWay(traj)
  OBVIOUS
<1>4. t \in Table /\ BreadthFirst(t, D) /\ LeadsToWay(t, traj)
  BY DEF InOrderToWay
<1> HIDE DEF D, S
<1> DEFINE from == Head(t.open)
           nearer == {n \in Neighbors(from) : ~(t.cost[n] < MAX_TIMESTEP)}
           u == Expand(t)
<1>5. /\ BreadthFirst(u, D) /\ from \in Cells /\ t.cost[from] < MAX_TIMESTEP
      /\ \A n \in nearer : n \in Cells /\ D[n] = D[from] + 1
      /\ \A c \in Cells : /\ u.cost[c] = IF c \in nearer THEN D[c] ELSE t.cost[c]
                          /\ u.togo[c] = IF c \in nearer THEN t.togo[from] ELSE t.togo[c]
  BY <1>1, <1>4, ExpandInOrder
<1> HIDE DEF u
<1>6. ASSUME NEW c \in Cells, u.cost[c] < MAX_TIMESTEP
      PROVE  \E i \in DOMAIN traj : distance[traj[i]][c] = D[c] /\ u.togo[c] = Len(traj) - i
  <2>1. CASE c \notin nearer
    <3>1. t.cost[c] < MAX_TIMESTEP /\ u.togo[c] = t.togo[c]
      BY <1>5, <1>6, <2>1
    <3> QED BY <1>4, <3>1 DEF LeadsToWay, D
  <2>2. CASE c \in nearer
    <3>1. PICK i \in DOMAIN traj : /\ distance[traj[i]][from] = D[from]
                                   /\ t.togo[from] = Len(traj) - i
      BY <1>4, <1>5 DEF LeadsToWay, D
    <3>2. distance[traj[i]][c] <= D[from] + 1 /\ D[c] <= distance[traj[i]][c]
      BY <1>3, <1>5, <2>2, <3>1
    <3>3. D[c] = D[from] + 1 /\ D[c] \in Int
      <4>1. D[c] \in 0..Unreachable /\ Unreachable \in Nat
        BY <1>1, Grid DEF IsDistance, Unreachable
      <4> QED BY <1>5, <2>2, <4>1
    <3>4. distance[traj[i]][c] = D[c]
      <4>1. distance[traj[i]][c] \in Nat
        BY <1>3
      <4> QED BY <3>2, <3>3, <4>1
    <3>5. u.togo[c] = Len(traj) - i
      BY <1>5, <2>2, <3>1
    <3> QED BY <3>4, <3>5
  <2> QED BY <2>1, <2>2
<1>7. LeadsToWay(u, traj)
  BY <1>6 DEF LeadsToWay, D
<1>8. u \in Table
  BY <1>4, ExpandTable DEF u
<1> QED BY <1>5, <1>7, <1>8 DEF InOrderToWay, u, D

(* When it has been asked for a cell, a table holds its distance: there    *)
(* are iterations enough, as each is done with a cell more.                *)
LEMMA AskedAnswers ==
  ASSUME NEW D, NEW S, IsDistance(D, S), Unreachable < MAX_TIMESTEP,
         NEW t \in InOrder(D), NEW source \in Cells
  PROVE  /\ Asked(t, source) \in InOrder(D)
         /\ Asked(t, source).cost[source] = Entry(D[source])
<1> DEFINE N == Rows * Cols
           Reached(u, c) == u.cost[c] < MAX_TIMESTEP
<1>1. N \in Nat /\ N = Unreachable /\ Cells = 0..N-1 /\ MAX_TIMESTEP \in Nat
  BY Grid DEF Unreachable, Cells
<1>2. \A u \in InOrder(D) : u.open # <<>> => Expand(u) \in InOrder(D)
  BY ExpandStaysInOrder
<1>3. InOrder(D) \in SUBSET Table
  BY DEF InOrder
<1>4. (\E looks : IsSearch(looks, InOrder(D), t, source)) /\ Asked(t, source) \in InOrder(D)
  BY <1>2, <1>3, AskedSearches
<1>5. PICK looks : IsSearch(looks, InOrder(D), t, source)
  BY <1>4
<1>6. /\ \A n \in 0..N : looks[n] \in [table : InOrder(D), done : BOOLEAN]
      /\ looks[0] = [table |-> t, done |-> t.cost[source] < MAX_TIMESTEP]
      /\ \A n \in 1..N : looks[n] =
           IF looks[n-1].done \/ looks[n-1].table.open = <<>> THEN looks[n-1]
           ELSE [table |-> Expand(looks[n-1].table),
                 done |-> Head(looks[n-1].table.open) = source]
      /\ Asked(t, source) = looks[N].table
  BY <1>5 DEF IsSearch
<1>7. IsFiniteSet(Cells) /\ Cardinality(Cells) = N
  <2>1. 0 \in Int /\ N - 1 \in Int
    BY <1>1
  <2>2. /\ IsFiniteSet(0..N-1)
        /\ Cardinality(0..N-1) = IF 0 > N - 1 THEN 0 ELSE ((N - 1) - 0) + 1
    BY <2>1, FS_Interval
  <2> QED BY <1>1, <2>2
<1>8. \A u : Settled(u) \subseteq Cells /\ IsFiniteSet(Settled(u))
  <2>1. \A u : Settled(u) \in SUBSET Cells
    BY DEF Settled
  <2> QED BY <1>7, <2>1, FS_Subset
<1> HIDE DEF N
<1> DEFINE Fine(x, n) == /\ x.done => Reached(x.table, source)
                         /\ \/ x.done \/ x.table.open = <<>>
                            \/ Cardinality(Settled(x.table)) >= n
<1>9. \A n \in 0..N : Fine(looks[n], n)
  <2> DEFINE T == {n \in 0..N : Fine(looks[n], n)}
  <2>1. 0 \in T
    <3>1. Cardinality(Settled(t)) >= 0
      BY <1>8, FS_CardinalityType
    <3>2. looks[0].table = t /\ looks[0].done = (t.cost[source] < MAX_TIMESTEP)
      BY <1>6
    <3> DEFINE x == looks[0]
    <3> HIDE DEF x
    <3>3. (x.done => Reached(x.table, source)) /\ Cardinality(Settled(x.table)) >= 0
      BY <3>1, <3>2 DEF x
    <3>4. Fine(x, 0)
      BY <3>3
    <3> QED BY <1>1, <3>4 DEF x
  <2>2. ASSUME NEW n \in 1..N, n - 1 \in T PROVE n \in T
    <3> DEFINE x == looks[n-1]
    <3>1. Fine(x, n-1) /\ n \in 0..N /\ n - 1 \in 0..N
      BY <1>1, <2>2
    <3>2. x.table \in InOrder(D)
      BY <1>6, <3>1
    <3>3. CASE x.done \/ x.table.open = <<>>
      <4>1. looks[n] = x
        BY <1>6, <3>3
      <4> HIDE DEF x
      <4>2. Fine(looks[n], n)
        BY <3>1, <3>3, <4>1
      <4> QED BY <3>1, <4>2
    <3>4. CASE ~(x.done \/ x.table.open = <<>>)
      <4> DEFINE u == x.table
                 from == Head(u.open)
      <4>1. looks[n] = [table |-> Expand(u), done |-> from = source]
        BY <1>6, <3>4
      <4>2. u \in Table /\ BreadthFirst(u, D) /\ u.open # <<>>
        BY <3>2, <3>4 DEF InOrder
      <4> HIDE DEF x, u
      <4>3. /\ from \in Cells /\ from \notin Settled(u)
            /\ Settled(Expand(u)) = Settled(u) \cup {from}
            /\ Reached(u, from)
        BY <4>2, ExpandInOrder
      <4>4. Reached(Expand(u), from)
        <5> DEFINE nearer == {m \in Neighbors(from) : ~(u.cost[m] < MAX_TIMESTEP)}
        <5>1. Expand(u).cost[from] = IF from \in nearer THEN D[from] ELSE u.cost[from]
          BY <4>2, <4>3, ExpandInOrder
        <5> QED BY <4>3, <5>1
      <4>5. Cardinality(Settled(u) \cup {from}) = Cardinality(Settled(u)) + 1
        BY <1>8, <4>3, FS_AddElement
      <4>6. Cardinality(Settled(u)) >= n - 1 /\ Cardinality(Settled(u)) \in Nat
        BY <1>8, <3>1, <3>4, FS_CardinalityType DEF u
      <4>7. Cardinality(Settled(Expand(u))) >= n
        BY <1>1, <4>3, <4>5, <4>6
      <4> HIDE DEF from
      <4>8. looks[n].table = Expand(u) /\ looks[n].done = (from = source)
        BY <4>1
      <4> QED BY <3>1, <4>4, <4>7, <4>8
    <3> QED BY <3>3, <3>4
  <2> HIDE DEF T
  <2>3. \A n \in 0..N : n \in T
    BY <1>1, <2>1, <2>2, UpTo
  <2> QED BY <2>3 DEF T
<1> DEFINE u == Asked(t, source)
<1>10. u \in Table /\ BreadthFirst(u, D)
  BY <1>4 DEF InOrder
<1>11. Reached(u, source) \/ u.open = <<>>
  <2>1. Fine(looks[N], N) /\ looks[N].table = u
    BY <1>1, <1>6, <1>9
  <2>2. ASSUME Cardinality(Settled(u)) >= N PROVE u.open = <<>>
    <3>1. Settled(u) \in SUBSET Cells
      BY <1>8
    <3>2. Cardinality(Settled(u)) <= Cardinality(Cells) /\ Cardinality(Settled(u)) \in Nat
      BY <1>7, <1>8, <3>1, FS_Subset, FS_CardinalityType
    <3>3. Settled(u) = Cells
      BY <1>1, <1>7, <2>2, <3>1, <3>2, FS_Subset
    <3>4. u.open \in Seq(Free)
      BY <1>10 DEF Table
    <3>5. ASSUME u.open # <<>> PROVE FALSE
      <4> DEFINE o == u.open
      <4>1. o \in Seq(Free) /\ o # <<>>
        BY <3>4, <3>5
      <4> HIDE DEF o
      <4>2. Len(o) \in Nat \ {0} /\ DOMAIN o = 1..Len(o)
        BY <4>1, EmptySeq, LenProperties
      <4>3. 1 \in 1..Len(o)
        BY <4>2
      <4>4. o[1] \in ToSet(o) /\ o[1] \in Cells
        BY <4>1, <4>2, <4>3, ElementOfSeq, Grid DEF ToSet
      <4> QED BY <3>3, <4>4 DEF Settled, o
    <3> QED BY <3>5
  <2> QED BY <2>1, <2>2
<1> HIDE DEF u
<1>12. u.cost[source] \in 0..MAX_TIMESTEP /\ D[source] \in 0..N
  BY <1>1, <1>10 DEF Table, IsDistance
<1>13. CASE Reached(u, source)
  <2>1. u.cost[source] = D[source] /\ D[source] < Unreachable
    BY <1>10, <1>13 DEF BreadthFirst
  <2> QED BY <1>4, <2>1 DEF Entry, u
<1>14. CASE ~Reached(u, source)
  <2>1. u.open = <<>> /\ u.cost[source] = MAX_TIMESTEP
    BY <1>1, <1>11, <1>12, <1>14
  <2>2. \A i \in DOMAIN u.open : N <= D[u.open[i]]
    BY <2>1
  <2>3. ~(D[source] < Unreachable)
    BY <1>1, <1>10, <1>12, <1>14, <2>2, NoneLeftBehind
  <2> QED BY <1>4, <2>1, <2>3 DEF Entry, u
<1> QED BY <1>13, <1>14

(* A table that is searched in order is exact.                             *)
LEMMA InOrderIsExact ==
  ASSUME NEW D, NEW S, IsDistance(D, S), NEW t \in InOrder(D)
  PROVE  Exact(t, D)
<1>1. Unreachable \in Nat /\ D \in [Cells -> 0..Unreachable]
  BY Grid DEF Unreachable, IsDistance
<1>2. t \in Table /\ BreadthFirst(t, D)
  BY DEF InOrder
<1> SUFFICES ASSUME NEW c \in Cells
             PROVE  IF t.cost[c] < MAX_TIMESTEP THEN t.cost[c] = D[c]
                                                ELSE t.open = <<>> => D[c] = Unreachable
  BY DEF Exact
<1>3. CASE t.cost[c] < MAX_TIMESTEP
  BY <1>2, <1>3 DEF BreadthFirst
<1>4. ASSUME ~(t.cost[c] < MAX_TIMESTEP), t.open = <<>> PROVE D[c] = Unreachable
  <2>1. \A i \in DOMAIN t.open : Unreachable <= D[t.open[i]]
    BY <1>4
  <2>2. ~(D[c] < Unreachable)
    BY <1>1, <1>2, <1>4, <2>1, NoneLeftBehind
  <2> QED BY <1>1, <2>2
<1> QED BY <1>3, <1>4

(* A table that has not been begun stays so, and is told from others.      *)
LEMMA NotBegun ==
  /\ \A source \in Cells : Asked(EmptyTable, source) = EmptyTable
  /\ \A sources \in Seq(Cells) : AskedAll(EmptyTable, sources) = EmptyTable
  /\ \A goal \in Free : EmptyTable \notin InOrder(distance[goal])
<1>1. {EmptyTable} \in SUBSET Table
  BY NewTables
<1>2. EmptyTable.open = <<>> /\ EmptyTable \in {EmptyTable}
  BY DEF EmptyTable
<1>3. \A u \in {EmptyTable} : u.open # <<>> => Expand(u) \in {EmptyTable}
  BY <1>2
<1>4. ASSUME NEW goal \in Free PROVE EmptyTable \notin InOrder(distance[goal])
  <2>1. distance[goal][goal] = 0 /\ goal \in Cells
    BY DistancesAre, Grid DEF IsDistance
  <2>2. EmptyTable.cost[goal] = MAX_TIMESTEP /\ MAX_TIMESTEP \in Nat
    BY <2>1, Grid DEF EmptyTable
  <2> QED BY <2>1, <2>2 DEF InOrder, BreadthFirst
<1>5. ASSUME NEW source \in Cells PROVE Asked(EmptyTable, source) \in {EmptyTable}
  BY <1>1, <1>2, <1>3, AskedSearches
<1>6. ASSUME NEW sources \in Seq(Cells) PROVE AskedAll(EmptyTable, sources) \in {EmptyTable}
  BY <1>1, <1>2, <1>3, AskedAllSearches
<1> QED BY <1>4, <1>5, <1>6

(* Searches begin in order.                                                *)
LEMMA BegunInOrder ==
  ASSUME Unreachable < MAX_TIMESTEP
  PROVE  /\ \A goal \in Free : init_heuristic(goal) \in InOrder(distance[goal])
         /\ \A path \in Seq(Free) : path # <<>> /\ OneEach(path) =>
              init_dist_2_path(path) \in InOrderToWay(path)
<1>1. Unreachable \in Nat /\ Unreachable > 0 /\ MAX_TIMESTEP \in Nat \ {0}
  <2>1. \A i, j \in Nat \ {0} : i * j > 0
    OBVIOUS
  <2> QED BY <2>1, SimulatorAssumption DEF Unreachable, MAX_TIMESTEP
<1>2. ASSUME NEW goal \in Free PROVE init_heuristic(goal) \in InOrder(distance[goal])
  <2> DEFINE t == init_heuristic(goal)
             D == distance[goal]
  <2>1. IsDistance(D, {goal}) /\ t \in Table
    BY DistancesAre, NewTables
  <2>2. /\ t.open = <<goal>>
        /\ \A c \in Cells : t.cost[c] = IF c = goal THEN 0 ELSE MAX_TIMESTEP
    BY Grid DEF init_heuristic, EmptyTable
  <2> HIDE DEF t
  <2>3. \A c \in Cells : D[c] = 0 <=> c = goal
    BY <2>1 DEF IsDistance
  <2> HIDE DEF D
  <2>4. DOMAIN t.open = {1} /\ Len(t.open) = 1 /\ t.open[1] = goal /\ ToSet(t.open) = {goal}
    BY <2>2 DEF ToSet
  <2>5. goal \in Cells /\ D[goal] = 0
    BY <2>3, Grid
  <2>6. \A c \in Cells : t.cost[c] < MAX_TIMESTEP <=> c = goal
    BY <1>1, <2>2
  <2>7. BreadthFirst(t, D)
    <3>1. ASSUME NEW c \in Cells
          PROVE  /\ t.cost[c] < MAX_TIMESTEP => t.cost[c] = D[c] /\ D[c] < Unreachable
                 /\ D[c] = 0 => t.cost[c] < MAX_TIMESTEP
                 /\ t.cost[c] < MAX_TIMESTEP => c \in ToSet(t.open)
      BY <1>1, <2>2, <2>3, <2>4, <2>6
    <3>2. ASSUME NEW i \in DOMAIN t.open
          PROVE  /\ t.cost[t.open[i]] < MAX_TIMESTEP /\ D[t.open[i]] <= D[t.open[1]] + 1
                 /\ i+1..Len(t.open) = {}
      BY <2>4, <2>5, <2>6
    <3> QED BY <3>1, <3>2 DEF BreadthFirst
  <2> QED BY <2>1, <2>7 DEF InOrder, t, D
<1>3. ASSUME NEW path \in Seq(Free), path # <<>>, OneEach(path)
      PROVE  init_dist_2_path(path) \in InOrderToWay(path)
  <2> DEFINE t == init_dist_2_path(path)
             D == DistanceToWay(path)
             n == Len(path)
             At(c) == CHOOSE i \in 1..n : path[i] = c
  <2>1. IsDistance(D, ToSet(path)) /\ t \in Table
    BY <1>3, DistancesAre, NewTables
  <2>2. n \in Nat \ {0} /\ DOMAIN path = 1..n /\ \A i \in 1..n : path[i] \in Free
    BY <1>3, EmptySeq, LenProperties, ElementOfSeq
  <2>3. /\ t.open = Reverse(path)
        /\ \A c \in Cells : t.cost[c] = IF c \in ToSet(path) THEN 0 ELSE MAX_TIMESTEP
        /\ \A c \in Cells : t.togo[c] = IF c \in ToSet(path) THEN n - At(c) ELSE 0
    BY DEF init_dist_2_path
  <2> HIDE DEF t
  <2>4. \A c \in Cells : D[c] = 0 <=> c \in ToSet(path)
    BY <2>1 DEF IsDistance
  <2>5. /\ DOMAIN t.open = 1..n /\ Len(t.open) = n
        /\ \A i \in 1..n : (n - i) + 1 \in 1..n /\ t.open[i] = path[(n - i) + 1]
    <3>1. t.open = [i \in 1..n |-> path[(n - i) + 1]]
      BY <2>3 DEF Reverse
    <3>2. DOMAIN t.open = 1..n /\ \A i \in 1..n : (n - i) + 1 \in 1..n
      BY <2>2, <3>1
    <3>3. Len(t.open) = n
      BY <2>1, <2>2, <3>2, LenProperties DEF Table
    <3> QED BY <3>1, <3>2, <3>3
  <2> HIDE DEF n, D
  <2>6. ToSet(t.open) = ToSet(path)
    <3>1. ASSUME NEW x \in ToSet(t.open) PROVE x \in ToSet(path)
      BY <2>2, <2>5 DEF ToSet
    <3>2. ASSUME NEW x \in ToSet(path) PROVE x \in ToSet(t.open)
      <4>1. PICK i \in 1..n : x = path[i]
        BY <2>2 DEF ToSet
      <4>2. (n - i) + 1 \in 1..n /\ (n - ((n - i) + 1)) + 1 = i
        BY <2>2
      <4>3. t.open[(n-i)+1] = x
        BY <2>5, <4>1, <4>2
      <4> QED BY <2>5, <4>2, <4>3 DEF ToSet
    <3> QED BY <3>1, <3>2
  <2>7. \A c \in Cells : t.cost[c] < MAX_TIMESTEP <=> c \in ToSet(path)
    BY <1>1, <2>3
  <2>8. ASSUME NEW i \in 1..n
        PROVE t.open[i] \in Cells /\ t.open[i] \in ToSet(path) /\ D[t.open[i]] = 0
    <3>1. t.open[i] \in Cells
      BY <2>2, <2>5, Grid
    <3>2. t.open[i] \in ToSet(path)
      BY <2>5, <2>6 DEF ToSet
    <3> QED BY <2>4, <3>1, <3>2
  <2>9. BreadthFirst(t, D)
    <3>1. ASSUME NEW c \in Cells
          PROVE  /\ t.cost[c] < MAX_TIMESTEP => t.cost[c] = D[c] /\ D[c] < Unreachable
                 /\ D[c] = 0 => t.cost[c] < MAX_TIMESTEP
                 /\ t.cost[c] < MAX_TIMESTEP => c \in ToSet(t.open)
      BY <1>1, <2>3, <2>4, <2>6, <2>7
    <3>2. ASSUME NEW i \in 1..n
          PROVE  /\ t.cost[t.open[i]] < MAX_TIMESTEP /\ D[t.open[i]] <= D[t.open[1]] + 1
                 /\ \A j \in i+1..n : t.open[i] # t.open[j] /\ D[t.open[i]] <= D[t.open[j]]
      <4>1. 1 \in 1..n
        BY <2>2
      <4>2. t.cost[t.open[i]] < MAX_TIMESTEP /\ D[t.open[i]] <= D[t.open[1]] + 1
        BY <2>7, <2>8, <4>1
      <4>3. ASSUME NEW j \in i+1..n PROVE t.open[i] # t.open[j] /\ D[t.open[i]] <= D[t.open[j]]
        <5>1. j \in 1..n /\ (n - i) + 1 # (n - j) + 1
          BY <2>2
        <5>2. t.open[i] # t.open[j]
          <6>1. \A k, l \in 1..n : path[k] = path[l] => k = l
            BY <1>3, <2>2 DEF OneEach
          <6>2. t.open[i] = path[(n - i) + 1] /\ t.open[j] = path[(n - j) + 1]
            BY <2>5, <5>1
          <6>3. (n - i) + 1 \in 1..n /\ (n - j) + 1 \in 1..n
            BY <2>5, <5>1
          <6> QED BY <5>1, <6>1, <6>2, <6>3
        <5> QED BY <2>8, <5>1, <5>2
      <4> QED BY <4>2, <4>3
    <3> QED BY <2>5, <3>1, <3>2 DEF BreadthFirst
  <2>10. LeadsToWay(t, path)
    <3> SUFFICES ASSUME NEW c \in Cells, t.cost[c] < MAX_TIMESTEP
                 PROVE  \E i \in DOMAIN path : /\ distance[path[i]][c] = D[c]
                                               /\ t.togo[c] = n - i
      BY DEF LeadsToWay, D, n
    <3>1. c \in ToSet(path) /\ \E i \in 1..n : path[i] = c
      BY <2>2, <2>7 DEF ToSet
    <3>2. At(c) \in 1..n /\ path[At(c)] = c
      BY <3>1
    <3>3. t.togo[c] = n - At(c)
      BY <2>3, <3>1 DEF n
    <3> HIDE DEF At
    <3>4. c \in Free /\ D[c] = 0
      BY <2>2, <2>4, <3>2, <3>1
    <3>5. distance[c][c] = 0
      BY <3>4, DistancesAre DEF IsDistance
    <3> QED BY <2>2, <3>2, <3>3, <3>4, <3>5
  <2> QED BY <2>1, <2>9, <2>10 DEF InOrderToWay, t, D
<1> QED BY <1>2, <1>3
=============================================================================
