---------------------------- MODULE AdapterProofs ----------------------------
(***************************************************************************)
(* Proofs about the local books of the four adapters (module Adapters),    *)
(* for any prices, sizes, filters, delays, lost updates and reconnects: an *)
(* item has exactly the levels the filters keep, the consumer's last item  *)
(* is the local book, and a checksum fails only on a book that is not the  *)
(* exchange's, or where the exchange's text of a number is not known.      *)
(***************************************************************************)
EXTENDS Adapters, FiniteSetTheorems, SequenceTheorems, TLAPS

(* ---- sorting ----------------------------------------------------------- *)

\* f lists the elements of W, smaller ones first.
Lists(f, n, W) == /\ n \in Nat /\ f \in [1..n -> W]
                  /\ \A i, j \in 1..n : i < j => f[i] < f[j]
                  /\ \A w \in W : \E i \in 1..n : f[i] = w

\* A place in the list is the number of elements before it, and of those after.
Places(f, n, W) == \A i \in 1..n : /\ Cardinality({m \in W : m < f[i]}) = i - 1
                                   /\ Cardinality({m \in W : m > f[i]}) = n - i

LEMMA PlacesCount ==
    ASSUME NEW W \in SUBSET Nat, NEW n, NEW f, Lists(f, n, W)
    PROVE  /\ IsFiniteSet(W) /\ Cardinality(W) = n
           /\ Places(f, n, W)
<1>1. /\ n \in Nat /\ \A i \in 1..n : f[i] \in W /\ f[i] \in Nat
      /\ \A i, j \in 1..n : i < j => f[i] < f[j]
      /\ \A w \in W : \E i \in 1..n : f[i] = w
  BY DEF Lists
<1>2. \A i, j \in 1..n : f[i] < f[j] => i < j
  BY <1>1
<1>3. \A i, j \in 1..n : f[i] = f[j] => i = j
  BY <1>1
<1>4. f \in Bijection(1..n, W)
  BY <1>1, <1>3 DEF Lists, Bijection, Injection, Surjection, IsInjective
<1>5. IsFiniteSet(W) /\ Cardinality(W) = n
  <2>1. ExistsBijection(1..n, W)
    BY <1>4 DEF ExistsBijection
  <2> QED BY <1>1, <2>1, FS_NatBijection, FS_CountingElements
<1>6. ASSUME NEW i \in 1..n PROVE Cardinality({m \in W : m < f[i]}) = i - 1
  <2> DEFINE Part == {m \in W : m < f[i]}
             g == [j \in 1..i-1 |-> f[j]]
  <2>1. \A j \in 1..i-1 : j \in 1..n /\ j < i
    BY <1>1
  <2>2. g \in [1..i-1 -> Part]
    BY <1>1, <2>1
  <2>3. ASSUME NEW m \in Part PROVE \E j \in 1..i-1 : g[j] = m
    <3>1. PICK j \in 1..n : f[j] = m
      BY <1>1
    <3>2. j \in 1..i-1
      BY <1>1, <1>2, <3>1
    <3> QED BY <3>1, <3>2
  <2>4. \A j, k \in 1..i-1 : g[j] = g[k] => j = k
    BY <1>3, <2>1
  <2> HIDE DEF g, Part
  <2>5. g \in Bijection(1..i-1, Part)
    BY <2>2, <2>3, <2>4 DEF Bijection, Injection, Surjection, IsInjective
  <2>6. ExistsBijection(1..i-1, Part) /\ i - 1 \in Nat
    BY <2>5 DEF ExistsBijection
  <2> QED BY <2>6, FS_CountingElements DEF Part
<1>7. ASSUME NEW i \in 1..n PROVE Cardinality({m \in W : m > f[i]}) = n - i
  <2> DEFINE Part == {m \in W : m > f[i]}
             g == [j \in 1..n-i |-> f[i + j]]
  <2>1. \A j \in 1..n-i : i + j \in 1..n /\ i < i + j
    BY <1>1
  <2>2. g \in [1..n-i -> Part]
    BY <1>1, <2>1
  <2>3. ASSUME NEW m \in Part PROVE \E j \in 1..n-i : g[j] = m
    <3>1. PICK k \in 1..n : f[k] = m
      BY <1>1
    <3>2. i < k
      BY <1>1, <1>2, <3>1
    <3>3. k - i \in 1..n-i /\ i + (k - i) = k
      BY <1>1, <3>2
    <3> QED BY <3>1, <3>3
  <2>4. \A j, k \in 1..n-i : g[j] = g[k] => j = k
    <3>1. \A j, k \in 1..n-i : i + j = i + k => j = k
      BY <1>1
    <3> QED BY <1>3, <2>1, <3>1
  <2> HIDE DEF g, Part
  <2>5. g \in Bijection(1..n-i, Part)
    BY <2>2, <2>3, <2>4 DEF Bijection, Injection, Surjection, IsInjective
  <2>6. ExistsBijection(1..n-i, Part) /\ n - i \in Nat
    BY <1>1, <2>5 DEF ExistsBijection
  <2> QED BY <2>6, FS_CountingElements DEF Part
<1> QED BY <1>5, <1>6, <1>7 DEF Places

\* Sorted lists a finite set of numbers.
LEMMA SortedLists ==
    ASSUME NEW W \in SUBSET Nat, IsFiniteSet(W)
    PROVE  Lists(Sorted(W), Cardinality(W), W)
<1> DEFINE n == Cardinality(W)
           Below(p) == {m \in W : m < p}
           r == [p \in W |-> Cardinality(Below(p))]
<1>1. n \in Nat
  BY FS_CardinalityType
<1>2. \A p : Below(p) \in SUBSET W /\ IsFiniteSet(Below(p)) /\ Cardinality(Below(p)) \in Nat
  BY FS_Subset, FS_CardinalityType
<1>3. ASSUME NEW p \in W, NEW q \in W, p < q PROVE Cardinality(Below(p)) < Cardinality(Below(q))
  <2>0. p \in Nat /\ q \in Nat /\ \A m \in W : m \in Nat
    OBVIOUS
  <2>1. Below(p) \in SUBSET Below(q) /\ p \in Below(q) /\ p \notin Below(p)
    <3>1. \A m \in Below(p) : m \in Below(q)
      BY <1>3, <2>0
    <3>2. p \in Below(q) /\ p \notin Below(p)
      BY <1>3, <2>0
    <3> QED BY <3>1, <3>2
  <2> HIDE DEF Below
  <2>2. /\ Cardinality(Below(p)) <= Cardinality(Below(q))
        /\ Cardinality(Below(q)) = Cardinality(Below(p)) => Below(q) = Below(p)
    BY <1>2, <2>1, FS_Subset
  <2> QED BY <1>2, <2>1, <2>2
<1>4. ASSUME NEW p \in W PROVE Cardinality(Below(p)) \in 0..n-1
  <2>1. Below(p) \in SUBSET W /\ p \notin Below(p)
    OBVIOUS
  <2> HIDE DEF Below
  <2>2. Cardinality(Below(p)) <= n /\ (n = Cardinality(Below(p)) => W = Below(p))
    BY <2>1, FS_Subset
  <2> QED BY <1>1, <1>2, <2>1, <2>2
<1> HIDE DEF Below
<1>5. r \in Injection(W, 0..n-1)
  <2>1. r \in [W -> 0..n-1]
    BY <1>4
  <2>2. ASSUME NEW p \in W, NEW q \in W, r[p] = r[q] PROVE p = q
    <3>1. p \in Nat /\ q \in Nat
      OBVIOUS
    <3>2. ~(p < q) /\ ~(q < p)
      BY <1>2, <1>3, <2>2
    <3> QED BY <3>1, <3>2
  <2> HIDE DEF r
  <2> QED BY <2>1, <2>2 DEF Injection, IsInjective
<1>6. IsFiniteSet(0..n-1) /\ Cardinality(0..n-1) = n
  <2> HIDE DEF n
  <2>1. n - 1 \in Int /\ (IF 0 > n - 1 THEN 0 ELSE n - 1 - 0 + 1) = n
    BY <1>1
  <2> QED BY <2>1, FS_Interval
<1>7. r \in Surjection(W, 0..n-1)
  <2> HIDE DEF r, n
  <2>1. Cardinality(W) = Cardinality(0..n-1)
    BY <1>6 DEF n
  <2> QED BY <1>5, <1>6, <2>1, FS_Injection
<1>8. \A i \in 1..n : \E p \in W : Cardinality(Below(p)) = i - 1
  <2>1. \A k \in 0..n-1 : \E p \in W : r[p] = k
    <3> HIDE DEF r
    <3> QED BY <1>7 DEF Surjection
  <2>2. \A i \in 1..n : i - 1 \in 0..n-1
    BY <1>1
  <2> QED BY <2>1, <2>2
<1>9. \A i \in 1..n : Sorted(W)[i] \in W /\ Cardinality(Below(Sorted(W)[i])) = i - 1
  BY <1>8 DEF Sorted, Below
<1>10. ASSUME NEW i \in 1..n, NEW j \in 1..n, i < j PROVE Sorted(W)[i] < Sorted(W)[j]
  <2> DEFINE p == Sorted(W)[i]
             q == Sorted(W)[j]
  <2>1. /\ p \in W /\ q \in W /\ p \in Nat /\ q \in Nat
        /\ Cardinality(Below(p)) = i - 1 /\ Cardinality(Below(q)) = j - 1
    BY <1>9
  <2> HIDE DEF p, q
  <2>2. p # q
    BY <1>1, <1>10, <2>1
  <2>3. ~(q < p)
    BY <1>1, <1>3, <1>10, <2>1
  <2>4. p < q
    BY <2>1, <2>2, <2>3
  <2> QED BY <2>4 DEF p, q
<1>11. ASSUME NEW w \in W PROVE \E i \in 1..n : Sorted(W)[i] = w
  <2> DEFINE i == Cardinality(Below(w)) + 1
  <2>1. i \in 1..n
    BY <1>1, <1>4
  <2>2. Sorted(W)[i] \in W /\ Cardinality(Below(Sorted(W)[i])) = Cardinality(Below(w))
    BY <1>2, <1>9, <2>1
  <2> HIDE DEF i
  <2> DEFINE v == Sorted(W)[i]
  <2>3. v \in W /\ v \in Nat /\ w \in Nat /\ Cardinality(Below(v)) = Cardinality(Below(w))
    BY <2>2
  <2> HIDE DEF v
  <2>4. ~(v < w) /\ ~(w < v)
    BY <1>2, <1>3, <2>3
  <2>5. v = w
    BY <2>3, <2>4
  <2> QED BY <2>1, <2>5 DEF v
<1>12. Sorted(W) \in [1..n -> W]
  BY <1>9 DEF Sorted
<1> QED BY <1>1, <1>10, <1>11, <1>12 DEF Lists

\* There is only one such list.
LEMMA ListIsSorted ==
    ASSUME NEW W \in SUBSET Nat, NEW n, NEW f, Lists(f, n, W)
    PROVE  n = Cardinality(W) /\ IsFiniteSet(W) /\ f = Sorted(W)
<1> DEFINE s == Sorted(W)
<1>1. IsFiniteSet(W) /\ Cardinality(W) = n
  BY PlacesCount
<1>2. Lists(s, n, W)
  BY <1>1, SortedLists
<1> HIDE DEF s
<1>3. n \in Nat /\ f \in [1..n -> W] /\ s \in [1..n -> W]
  BY <1>2 DEF Lists
<1>0. /\ \A i \in 1..n : Cardinality({m \in W : m < f[i]}) = i - 1
      /\ \A i \in 1..n : Cardinality({m \in W : m < s[i]}) = i - 1
  <2>1. Places(f, n, W) /\ Places(s, n, W)
    BY <1>2, PlacesCount
  <2> QED BY <2>1 DEF Places
<1>4. ASSUME NEW i \in 1..n PROVE f[i] = s[i]
  <2>1. Cardinality({m \in W : m < f[i]}) = i - 1
    BY <1>0
  <2>2. PICK j \in 1..n : s[j] = f[i]
    BY <1>2, <1>3 DEF Lists
  <2>3. Cardinality({m \in W : m < s[j]}) = j - 1
    BY <1>0
  <2>4. i = j
    BY <1>3, <2>1, <2>2, <2>3
  <2> QED BY <2>2, <2>4
<1>5. f = s
  BY <1>3, <1>4
<1> QED BY <1>1, <1>5 DEF s

(* ---- folding ----------------------------------------------------------- *)

\* Induction over the first n numbers, with a set in place of a predicate.
LEMMA UpTo ==
    ASSUME NEW n \in Nat, NEW S, 0 \in S, \A i \in 0..n-1 : i \in S => i + 1 \in S
    PROVE  0..n \subseteq S
<1> DEFINE T == {i \in 0..n : i \notin S}
<1> SUFFICES ASSUME NEW k \in 0..n, k \notin S PROVE FALSE
  OBVIOUS
<1>1. T \subseteq Nat /\ T # {}
  OBVIOUS
<1>2. PICK x \in T : \A y \in T : <<y, x>> \notin OpToRel(<, Nat)
  BY <1>1, NatLessThanWellFounded, WFMin
<1>3. \A y \in T : ~(y < x)
  BY <1>1, <1>2 DEF OpToRel
<1>4. x # 0 /\ x - 1 \in 0..n-1 /\ x - 1 < x
  OBVIOUS
<1>5. x - 1 \notin T
  BY <1>3, <1>4
<1> QED
  BY <1>4, <1>5

\* g runs through the states of folding us with F from s on.
Runs(g, F, s, us) == g[0] = s /\ \A i \in 1..Len(us) : g[i] = F[<<g[i - 1], us[i]>>]

LEMMA RunExists ==
    ASSUME NEW St, NEW Up, NEW F \in [St \X Up -> St], NEW s \in St, NEW us \in Seq(Up)
    PROVE  \E g \in [0..Len(us) -> St] : Runs(g, F, s, us)
<1> DEFINE n == Len(us)
           Good(g, k) == g[0] = s /\ \A i \in 1..k : g[i] = F[<<g[i - 1], us[i]>>]
           S == {k \in 0..n : \E g \in [0..k -> St] : Good(g, k)}
<1>1. 0 \in S
  <2> DEFINE h == [i \in 0..0 |-> s]
  <2>1. h \in [0..0 -> St] /\ Good(h, 0)
    OBVIOUS
  <2>2. 0 \in 0..n
    OBVIOUS
  <2> HIDE DEF h, Good
  <2> QED
    BY <2>1, <2>2
<1>2. ASSUME NEW k \in 0..n-1, k \in S PROVE k + 1 \in S
  <2>1. PICK g \in [0..k -> St] : Good(g, k)
    BY <1>2
  <2> DEFINE next == F[<<g[k], us[k + 1]>>]
             h == [i \in 0..k+1 |-> IF i = k + 1 THEN next ELSE g[i]]
  <2>2. us[k + 1] \in Up /\ k \in 0..k /\ k + 1 \in 0..n /\ k + 1 # 0
    OBVIOUS
  <2>3. next \in St
    BY <2>2
  <2>4. /\ h \in [0..k+1 -> St]
        /\ h[k + 1] = next
        /\ \A i \in 0..k : h[i] = g[i]
    <3> HIDE DEF next
    <3> QED
      BY <2>3
  <2> HIDE DEF h
  <2>5. ASSUME NEW i \in 1..k+1 PROVE h[i] = F[<<h[i - 1], us[i]>>]
    <3>1. CASE i = k + 1
      <4>1. i - 1 = k /\ k \in 0..k
        BY <3>1
      <4>2. h[i - 1] = g[k] /\ h[i] = next
        BY <2>4, <3>1, <4>1
      <4> QED
        BY <3>1, <4>2
    <3>2. CASE i # k + 1
      <4>1. i \in 1..k /\ i \in 0..k /\ i - 1 \in 0..k
        BY <3>2
      <4>2. g[i] = F[<<g[i - 1], us[i]>>]
        BY <2>1, <4>1
      <4> QED
        BY <2>4, <4>1, <4>2
    <3> QED
      BY <3>1, <3>2
  <2>6. h[0] = s
    BY <2>1, <2>4
  <2>7. Good(h, k + 1)
    BY <2>5, <2>6
  <2> HIDE DEF Good
  <2> QED
    BY <2>2, <2>4, <2>7
<1>3. n \in Nat /\ n \in S
  <2> HIDE DEF S
  <2>1. n \in Nat
    OBVIOUS
  <2>2. 0..n \subseteq S
    BY <1>1, <1>2, <2>1, UpTo
  <2> QED
    BY <2>1, <2>2
<1> QED
  BY <1>3 DEF Runs

\* r steps as F does, where F is defined.
Steps(r, F, St, s, us) ==
    r[0] = s /\ \A i \in 1..Len(us) : r[i - 1] \in St => r[i] = F[<<r[i - 1], us[i]>>]

LEMMA RunStays ==
    ASSUME NEW St, NEW Up, NEW F \in [St \X Up -> St], NEW s \in St, NEW us \in Seq(Up), NEW r,
           Steps(r, F, St, s, us)
    PROVE  \A i \in 0..Len(us) : r[i] \in St
<1> DEFINE n == Len(us)
           S == {i \in 0..n : r[i] \in St}
<1>1. n \in Nat /\ 0 \in S
  BY DEF Steps
<1>2. ASSUME NEW i \in 0..n-1, i \in S PROVE i + 1 \in S
  <2>1. i + 1 \in 1..n /\ (i + 1) - 1 = i /\ i + 1 \in 0..n
    OBVIOUS
  <2>2. us[i + 1] \in Up /\ r[i] \in St
    BY <1>2, <2>1
  <2>3. r[i + 1] = F[<<r[i], us[i + 1]>>]
    BY <2>1, <2>2 DEF Steps
  <2> QED BY <2>1, <2>2, <2>3
<1> HIDE DEF S
<1>3. 0..n \subseteq S
  BY <1>1, <1>2, UpTo
<1> QED BY <1>3 DEF S

\* r picks those of the first k elements of seq that are in S.
Picks(r, k, seq, S) ==
    /\ Len(r) \in Nat
    /\ \E e \in [1..Len(r) -> 1..k] :
          /\ \A i, j \in 1..Len(r) : i < j => e[i] < e[j]
          /\ \A j \in 1..Len(r) : r[j] = seq[e[j]] /\ r[j] \in S
          /\ \A i \in 1..k : seq[i] \in S => \E j \in 1..Len(r) : e[j] = i

LEMMA AmongPicks ==
    ASSUME NEW T, NEW seq \in Seq(T), NEW S
    PROVE  Among(seq, S) \in Seq(T) /\ Picks(Among(seq, S), Len(seq), seq, S)
<1> DEFINE n == Len(seq)
           F == [x \in Seq(T) \X T |-> IF x[2] \in S THEN Append(x[1], x[2]) ELSE x[1]]
           Is(g) == g = [i \in 0..n |-> IF i = 0 THEN <<>>
                                        ELSE IF seq[i] \in S THEN Append(g[i - 1], seq[i]) ELSE g[i - 1]]
           r == CHOOSE g : Is(g)
<1>1. F \in [Seq(T) \X T -> Seq(T)] /\ <<>> \in Seq(T) /\ n \in Nat
  OBVIOUS
<1>2. \A i \in 1..n : seq[i] \in T /\ i - 1 \in 0..n /\ i \in 0..n /\ i # 0
  OBVIOUS
<1>3. \A x \in Seq(T), u \in T : F[<<x, u>>] = IF u \in S THEN Append(x, u) ELSE x
  OBVIOUS
<1>4. \E g : Is(g)
  <2>1. PICK g \in [0..n -> Seq(T)] : Runs(g, F, <<>>, seq)
    <3> HIDE DEF F
    <3> QED BY <1>1, RunExists
  <2>2. g[0] = <<>> /\ \A i \in 1..n : g[i] = IF seq[i] \in S THEN Append(g[i - 1], seq[i]) ELSE g[i - 1]
    <3> HIDE DEF F
    <3> QED BY <1>2, <1>3, <2>1 DEF Runs
  <2>3. \A i \in 0..n : i = 0 \/ i \in 1..n
    OBVIOUS
  <2>4. Is(g)
    BY <2>2, <2>3
  <2> QED BY <2>4
<1>5. Is(r)
  BY <1>4, Zenon
<1>6. r[0] = <<>> /\ \A i \in 1..n : r[i] = IF seq[i] \in S THEN Append(r[i - 1], seq[i]) ELSE r[i - 1]
  <2> HIDE DEF r
  <2>1. 0 \in 0..n
    BY <1>1
  <2> QED BY <1>2, <1>5, <2>1, Zenon
<1>7. Among(seq, S) = r[n]
  BY Zenon DEF Among, Folded
<1> HIDE DEF r, Is
<1>8. \A i \in 0..n : r[i] \in Seq(T)
  <2>1. \A i \in 1..n : r[i - 1] \in Seq(T) => r[i] = F[<<r[i - 1], seq[i]>>]
    BY <1>2, <1>3, <1>6
  <2> HIDE DEF F
  <2>2. Steps(r, F, Seq(T), <<>>, seq)
    BY <1>6, <2>1 DEF Steps
  <2> QED BY <1>1, <2>2, RunStays
<1> DEFINE Done == {k \in 0..n : Picks(r[k], k, seq, S)}
<1>9. 0 \in Done
  <2>1. Len(r[0]) = 0 /\ 0 \in 0..n
    BY <1>6
  <2> DEFINE e == [j \in 1..0 |-> 0]
  <2>2. e \in [1..0 -> 1..0] /\ 1..0 = {}
    OBVIOUS
  <2> HIDE DEF e
  <2>3. Picks(r[0], 0, seq, S)
    <3>1. Len(r[0]) \in Nat /\ 1..Len(r[0]) = {} /\ e \in [1..Len(r[0]) -> 1..0]
      BY <2>1, <2>2
    <3> QED BY <2>2, <3>1, Zenon DEF Picks
  <2> QED BY <2>1, <2>3
<1>10. ASSUME NEW k \in 0..n-1, k \in Done PROVE k + 1 \in Done
  <2>1. k \in 0..n /\ k + 1 \in 1..n /\ k + 1 \in 0..n /\ (k + 1) - 1 = k /\ k \in Nat
    OBVIOUS
  <2> DEFINE a == r[k]
             b == r[k + 1]
             m == Len(a)
  <2>2. a \in Seq(T) /\ m \in Nat
    BY <1>8, <2>1
  <2>3. PICK e \in [1..m -> 1..k] :
            /\ \A i, j \in 1..m : i < j => e[i] < e[j]
            /\ \A j \in 1..m : a[j] = seq[e[j]] /\ a[j] \in S
            /\ \A i \in 1..k : seq[i] \in S => \E j \in 1..m : e[j] = i
    BY <1>10 DEF Picks
  <2>4. CASE seq[k + 1] \notin S
    <3>1. b = a
      BY <1>6, <2>1, <2>4
    <3>2. e \in [1..m -> 1..k+1]
      BY <2>1
    <3>3. \A i \in 1..k+1 : seq[i] \in S => \E j \in 1..m : e[j] = i
      <4>1. \A i \in 1..k+1 : i = k + 1 \/ i \in 1..k
        BY <2>1
      <4> QED BY <2>3, <2>4, <4>1
    <3> HIDE DEF a, b
    <3>4. Picks(b, k + 1, seq, S)
      BY <2>2, <2>3, <3>1, <3>2, <3>3 DEF Picks
    <3> QED BY <2>1, <3>4 DEF b
  <2>5. CASE seq[k + 1] \in S
    <3> DEFINE e1 == [j \in 1..m+1 |-> IF j = m + 1 THEN k + 1 ELSE e[j]]
    <3>1. b = Append(a, seq[k + 1]) /\ seq[k + 1] \in T
      BY <1>2, <1>6, <2>1, <2>5
    <3> HIDE DEF a, b
    <3>2. /\ Len(b) = m + 1 /\ b[m + 1] = seq[k + 1] /\ \A j \in 1..m : b[j] = a[j]
          /\ m + 1 \in Nat /\ m + 1 \in 1..m+1
      BY <2>2, <3>1
    <3> HIDE DEF m
    <3>3. \A j \in 1..m : j # m + 1 /\ j \in 1..m+1 /\ e[j] \in 1..k
      BY <2>2
    <3>4. \A j \in 1..m+1 : j = m + 1 \/ j \in 1..m
      BY <2>2
    <3>5. e1[m + 1] = k + 1 /\ \A j \in 1..m : e1[j] = e[j]
      BY <3>2, <3>3
    <3>6. e1 \in [1..m+1 -> 1..k+1]
      <4>1. \A j \in 1..m : e[j] \in 1..k+1
        BY <2>1, <3>3
      <4>2. k + 1 \in 1..k+1
        BY <2>1
      <4> QED BY <3>4, <4>1, <4>2
    <3> HIDE DEF e1
    <3>7. ASSUME NEW i \in 1..m+1, NEW j \in 1..m+1, i < j PROVE e1[i] < e1[j]
      <4>1. i \in 1..m
        BY <2>2, <3>4, <3>7
      <4>2. CASE j = m + 1
        <5>1. e1[i] \in 1..k /\ e1[j] = k + 1
          BY <3>3, <3>5, <4>1, <4>2
        <5> QED BY <2>1, <5>1
      <4>3. CASE j \in 1..m
        BY <2>3, <3>5, <3>7, <4>1, <4>3
      <4> QED BY <3>4, <4>2, <4>3
    <3>8. \A j \in 1..m+1 : b[j] = seq[e1[j]] /\ b[j] \in S
      BY <2>3, <2>5, <3>2, <3>4, <3>5
    <3>9. \A i \in 1..k+1 : seq[i] \in S => \E j \in 1..m+1 : e1[j] = i
      <4>1. \A i \in 1..k+1 : i = k + 1 \/ i \in 1..k
        BY <2>1
      <4> QED BY <2>3, <3>2, <3>3, <3>5, <4>1
    <3>10. Picks(b, k + 1, seq, S)
      BY <3>2, <3>6, <3>7, <3>8, <3>9 DEF Picks
    <3> QED BY <2>1, <3>10 DEF b
  <2> QED BY <2>4, <2>5
<1> HIDE DEF Done
<1>11. 0..n \subseteq Done
  BY <1>1, <1>9, <1>10, UpTo
<1>12. n \in 0..n
  BY <1>1
<1> QED BY <1>7, <1>8, <1>11, <1>12 DEF Done

(* ---- the sides of a book ------------------------------------------------- *)

Finites == {D \in SUBSET (Nat \ {0}) : IsFiniteSet(D)}

\* A side of a book, and a level a message holds.
SideSet == UNION {[D -> Nat] : D \in Finites}
Level == [price : Nat, size : Nat]
LevelSet == [price : (Nat \ {0}) \cup {Unreadable}, size : Nat]

LEMMA SideFacts ==
    ASSUME NEW levels \in SideSet
    PROVE  /\ DOMAIN levels \in Finites /\ DOMAIN levels \in SUBSET Nat
           /\ IsFiniteSet(DOMAIN levels) /\ 0 \notin DOMAIN levels
           /\ levels = [p \in DOMAIN levels |-> levels[p]]
           /\ \A p \in DOMAIN levels : levels[p] \in Nat
<1>1. PICK D \in Finites : levels \in [D -> Nat]
  BY DEF SideSet
<1>2. D \in SUBSET (Nat \ {0}) /\ IsFiniteSet(D)
  BY DEF Finites
<1> QED BY <1>1, <1>2

LEMMA IsSide ==
    ASSUME NEW D \in Finites, NEW f \in [D -> Nat]
    PROVE  f \in SideSet
BY DEF SideSet

LEMMA EmptyIsSide == EmptySide \in SideSet
<1>1. {} \in Finites
  BY FS_EmptySet DEF Finites
<1>2. EmptySide \in [{} -> Nat]
  BY DEF EmptySide
<1> QED BY <1>1, <1>2, IsSide

\* A side is empty when it has no price.
LEMMA EmptyHasNone ==
    ASSUME NEW levels \in SideSet
    PROVE  levels = EmptySide <=> DOMAIN levels = {}
<1>1. levels = EmptySide => DOMAIN levels = {}
  BY DEF EmptySide
<1>2. ASSUME DOMAIN levels = {} PROVE levels = EmptySide
  <2>1. levels = [p \in DOMAIN levels |-> levels[p]]
    BY SideFacts
  <2>2. levels = [p \in {} |-> levels[p]]
    BY <1>2, <2>1
  <2> QED BY <2>2 DEF EmptySide
<1> QED BY <1>1, <1>2

LEMMA InsertIsSide ==
    ASSUME NEW levels \in SideSet, NEW l, l.price \in Nat \ {0}, l.size \in Nat
    PROVE  Insert(levels, l) \in SideSet
<1> DEFINE D == DOMAIN levels \cup {l.price}
<1>1. D \in Finites
  <2>1. IsFiniteSet(D)
    BY SideFacts, FS_AddElement
  <2>2. D \in SUBSET (Nat \ {0})
    BY SideFacts
  <2> QED BY <2>1, <2>2 DEF Finites
<1>2. Insert(levels, l) \in [D -> Nat]
  BY SideFacts DEF Insert
<1> QED BY <1>1, <1>2, IsSide

LEMMA WithoutIsSide ==
    ASSUME NEW levels \in SideSet, NEW price
    PROVE  Without(levels, price) \in SideSet
<1> DEFINE D == DOMAIN levels \ {price}
<1>1. D \in Finites
  <2>1. IsFiniteSet(D)
    BY SideFacts, FS_Subset
  <2>2. D \in SUBSET (Nat \ {0})
    BY SideFacts
  <2> QED BY <2>1, <2>2 DEF Finites
<1>2. Without(levels, price) \in [D -> Nat]
  BY SideFacts DEF Without
<1> QED BY <1>1, <1>2, IsSide

LEMMA UpsertIsSide ==
    ASSUME NEW levels \in SideSet, NEW l, l.price \in Nat \ {0}, l.size \in Nat
    PROVE  Upsert(levels, l) \in SideSet
BY InsertIsSide, WithoutIsSide DEF Upsert

\* a shows the levels at the prices W: prices ascending, sizes those of levels.
Shows(a, W, levels) ==
    /\ a \in Seq(Level)
    /\ Lists([i \in 1..Len(a) |-> a[i].price], Len(a), W)
    /\ \A i \in 1..Len(a) : a[i].size = levels[a[i].price]

LEMMA ShowsFacts ==
    ASSUME NEW a, NEW W, NEW levels, Shows(a, W, levels)
    PROVE  /\ Len(a) \in Nat /\ DOMAIN a = 1..Len(a)
           /\ \A i \in 1..Len(a) : a[i] \in Level /\ a[i].price \in W /\ a[i].price \in Nat
           /\ \A i, j \in 1..Len(a) : i < j => a[i].price < a[j].price
           /\ \A w \in W : \E i \in 1..Len(a) : a[i].price = w
           /\ \A i \in 1..Len(a) : a[i].size = levels[a[i].price]
<1> DEFINE f == [i \in 1..Len(a) |-> a[i].price]
<1>1. Lists(f, Len(a), W) /\ a \in Seq(Level)
  BY DEF Shows
<1>2. \A i \in 1..Len(a) : f[i] = a[i].price
  OBVIOUS
<1> HIDE DEF f
<1>3. /\ \A i \in 1..Len(a) : f[i] \in W
      /\ \A i, j \in 1..Len(a) : i < j => f[i] < f[j]
      /\ \A w \in W : \E i \in 1..Len(a) : f[i] = w
  BY <1>1 DEF Lists
<1>4. ASSUME NEW i \in 1..Len(a) PROVE a[i] \in Level /\ a[i].price \in Nat
  <2>1. a[i] \in Level
    BY <1>1, ElementOfSeq
  <2> QED BY <2>1 DEF Level
<1>5. \A i \in 1..Len(a) : a[i].size = levels[a[i].price]
  BY DEF Shows
<1>6. Len(a) \in Nat /\ DOMAIN a = 1..Len(a)
  BY <1>1
<1>7. \A i \in 1..Len(a) : a[i].price \in W
  BY <1>2, <1>3
<1>8. \A i, j \in 1..Len(a) : i < j => a[i].price < a[j].price
  BY <1>2, <1>3
<1>9. \A w \in W : \E i \in 1..Len(a) : a[i].price = w
  BY <1>2, <1>3
<1> QED BY <1>4, <1>5, <1>6, <1>7, <1>8, <1>9, Zenon

LEMMA IsShown ==
    ASSUME NEW a \in Seq(Level), NEW W, NEW levels,
           \A i \in 1..Len(a) : a[i].price \in W,
           \A i, j \in 1..Len(a) : i < j => a[i].price < a[j].price,
           \A w \in W : \E i \in 1..Len(a) : a[i].price = w,
           \A i \in 1..Len(a) : a[i].size = levels[a[i].price]
    PROVE  Shows(a, W, levels)
BY DEF Shows, Lists

\* There is one way to show them.
LEMMA ShownOnce ==
    ASSUME NEW a, NEW b, NEW W \in SUBSET Nat, NEW levels, Shows(a, W, levels), Shows(b, W, levels)
    PROVE  a = b
<1> DEFINE f == [i \in 1..Len(a) |-> a[i].price]
           g == [i \in 1..Len(b) |-> b[i].price]
<1>1. Lists(f, Len(a), W) /\ Lists(g, Len(b), W) /\ a \in Seq(Level) /\ b \in Seq(Level)
  BY DEF Shows
<1>2. /\ \A i \in 1..Len(a) : f[i] = a[i].price
      /\ \A i \in 1..Len(b) : g[i] = b[i].price
  OBVIOUS
<1> HIDE DEF f, g
<1>3. f = g /\ Len(a) = Len(b)
  <2>1. f = Sorted(W) /\ Len(a) = Cardinality(W)
    BY <1>1, ListIsSorted
  <2>2. g = Sorted(W) /\ Len(b) = Cardinality(W)
    BY <1>1, ListIsSorted
  <2> QED BY <2>1, <2>2
<1>4. ASSUME NEW i \in 1..Len(a) PROVE a[i] = b[i]
  <2>1. a[i].price = b[i].price /\ a[i] \in Level /\ b[i] \in Level
    BY <1>1, <1>2, <1>3
  <2>2. a[i].size = b[i].size
    BY <1>3, <2>1, ShowsFacts
  <2> QED BY <2>1, <2>2 DEF Level
<1> QED BY <1>1, <1>3, <1>4, SeqEqual

LEMMA AscendingShows ==
    ASSUME NEW levels \in SideSet
    PROVE  Shows(Ascending(levels), DOMAIN levels, levels)
<1> DEFINE W == DOMAIN levels
           n == Cardinality(W)
           s == Sorted(W)
           a == Ascending(levels)
<1>1. W \in SUBSET Nat /\ IsFiniteSet(W) /\ \A p \in W : p \in Nat /\ levels[p] \in Nat
  BY SideFacts
<1>2. Lists(s, n, W)
  BY <1>1, SortedLists
<1>3. Len(s) = n
  <2> HIDE DEF s, n, W
  <2>1. n \in Nat /\ DOMAIN s = 1..n /\ s \in Seq(W)
    BY <1>2 DEF Lists
  <2> QED BY <2>1
<1>4. a = [i \in 1..n |-> [price |-> s[i], size |-> levels[s[i]]]]
  BY <1>3, Zenon DEF Ascending
<1> HIDE DEF a, s, n
<1>5. n \in Nat /\ \A i \in 1..n : s[i] \in W
  BY <1>2 DEF Lists
<1>6. a \in Seq(Level) /\ Len(a) = n
  <2>1. \A i \in 1..n : [price |-> s[i], size |-> levels[s[i]]] \in Level
    BY <1>1, <1>5 DEF Level
  <2> QED BY <1>4, <1>5, <2>1
<1>7. \A i \in 1..n : a[i].price = s[i] /\ a[i].size = levels[s[i]]
  BY <1>4
<1> HIDE DEF W
<1>8. /\ \A i, j \in 1..n : i < j => s[i] < s[j]
      /\ \A w \in W : \E i \in 1..n : s[i] = w
  BY <1>2 DEF Lists
<1>9. Shows(a, W, levels)
  BY <1>5, <1>6, <1>7, <1>8, IsShown
<1> QED BY <1>9 DEF a, W

(* ---- the filters --------------------------------------------------------- *)

Better(side, p, q) == IF side = "bids" THEN p > q ELSE p < q

\* The best price of a side.
IsBest(b, side, p) == p \in DOMAIN b[side] /\ \A q \in DOMAIN b[side] : q # p => Better(side, p, q)

IsBook(b) == b.bids \in SideSet /\ b.asks \in SideSet

LEMMA BookSides ==
    ASSUME NEW b, IsBook(b), NEW side \in Sides
    PROVE  /\ b[side] \in SideSet
           /\ DOMAIN b[side] \in SUBSET Nat /\ 0 \notin DOMAIN b[side]
           /\ \A p \in DOMAIN b[side] : p \in Nat /\ p > 0
<1>1. b["bids"] = b.bids /\ b["asks"] = b.asks
  OBVIOUS
<1>2. b[side] \in SideSet
  BY <1>1 DEF IsBook, Sides
<1>3. DOMAIN b[side] \in SUBSET Nat /\ 0 \notin DOMAIN b[side]
  BY <1>2, SideFacts
<1> QED BY <1>2, <1>3

\* A finite set of numbers has a greatest and a least one.
LEMMA Extremes ==
    ASSUME NEW W \in SUBSET Nat, IsFiniteSet(W), W # {}
    PROVE  /\ Max(W) \in W /\ \A q \in W : Max(W) >= q
           /\ Min(W) \in W /\ \A q \in W : Min(W) =< q
<1> DEFINE s == Sorted(W)
           n == Cardinality(W)
<1>1. Lists(s, n, W)
  BY SortedLists
<1> HIDE DEF s, n
<1>2. n \in Nat /\ s \in [1..n -> W] /\ \A i, j \in 1..n : i < j => s[i] < s[j]
  BY <1>1 DEF Lists
<1>3. \A w \in W : \E i \in 1..n : s[i] = w
  BY <1>1 DEF Lists
<1>4. n > 0 /\ 1 \in 1..n /\ n \in 1..n
  <2>1. PICK w : w \in W
    OBVIOUS
  <2>2. PICK i \in 1..n : s[i] = w
    BY <1>3, <2>1
  <2> QED BY <1>2, <2>2
<1>5. \A i \in 1..n : s[i] \in Nat /\ s[n] >= s[i] /\ s[1] =< s[i]
  <2> TAKE i \in 1..n
  <2>1. s[i] \in Nat /\ s[1] \in Nat /\ s[n] \in Nat
    BY <1>2, <1>4
  <2>2. i = n \/ i < n
    BY <1>4
  <2>3. i = 1 \/ 1 < i
    BY <1>4
  <2>4. s[n] >= s[i]
    BY <1>2, <1>4, <2>1, <2>2
  <2>5. s[1] =< s[i]
    BY <1>2, <1>4, <2>1, <2>3
  <2> QED BY <2>1, <2>4, <2>5
<1>6. \E m \in W : \A q \in W : m >= q
  <2>1. s[n] \in W /\ \A q \in W : s[n] >= q
    BY <1>2, <1>3, <1>4, <1>5
  <2> QED BY <2>1
<1>7. \E m \in W : \A q \in W : m =< q
  <2>1. s[1] \in W /\ \A q \in W : s[1] =< q
    BY <1>2, <1>3, <1>4, <1>5
  <2> QED BY <2>1
<1>8. Max(W) \in W /\ \A q \in W : Max(W) >= q
  BY <1>6, Zenon DEF Max
<1>9. Min(W) \in W /\ \A q \in W : Min(W) =< q
  BY <1>7, Zenon DEF Min
<1> QED BY <1>8, <1>9

\* best_bid and best_ask give the best price of their side.
LEMMA BestFacts ==
    ASSUME NEW b, IsBook(b), NEW side \in Sides
    PROVE  /\ b[side] = EmptySide => Best(b, side) = None
           /\ b[side] # EmptySide => /\ Best(b, side) = <<Best(b, side)[1]>>
                                     /\ IsBest(b, side, Best(b, side)[1])
<1>1. b[side] = EmptySide => Best(b, side) = None
  BY DEF Best
<1>2. ASSUME b[side] # EmptySide PROVE /\ Best(b, side) = <<Best(b, side)[1]>>
                                       /\ IsBest(b, side, Best(b, side)[1])
  <2> DEFINE W == DOMAIN b[side]
  <2>1. W \in SUBSET Nat /\ IsFiniteSet(W) /\ W # {}
    BY <1>2, BookSides, SideFacts, EmptyHasNone
  <2>2. /\ Max(W) \in W /\ \A q \in W : Max(W) >= q
        /\ Min(W) \in W /\ \A q \in W : Min(W) =< q
    <3> HIDE DEF W
    <3> QED BY <2>1, Extremes
  <2>3. \A p \in W : p \in Nat
    BY <2>1
  <2>4. CASE side = "bids"
    <3>1. Best(b, side) = <<Max(W)>>
      BY <1>2, <2>4 DEF Best
    <3>2. \A q \in W : q # Max(W) => Better(side, Max(W), q)
      <4> HIDE DEF W
      <4> QED BY <2>2, <2>3, <2>4 DEF Better
    <3> QED BY <2>2, <3>1, <3>2 DEF IsBest
  <2>5. CASE side = "asks"
    <3>1. Best(b, side) = <<Min(W)>>
      BY <1>2, <2>5 DEF Best
    <3>2. \A q \in W : q # Min(W) => Better(side, Min(W), q)
      <4> HIDE DEF W
      <4> QED BY <2>2, <2>3, <2>5 DEF Better
    <3> QED BY <2>2, <3>1, <3>2 DEF IsBest
  <2> QED BY <2>4, <2>5 DEF Sides
<1> QED BY <1>1, <1>2

LEMMA BestIsOne ==
    ASSUME NEW b, IsBook(b), NEW side \in Sides, NEW p, IsBest(b, side, p)
    PROVE  /\ b[side] # EmptySide /\ Best(b, side) = <<p>>
           /\ \A q \in DOMAIN b[side] : ~Better(side, q, p)
<1>1. p \in DOMAIN b[side] /\ \A q \in DOMAIN b[side] : q \in Nat
  BY BookSides DEF IsBest
<1>2. b[side] # EmptySide
  BY <1>1, BookSides, EmptyHasNone
<1> DEFINE m == Best(b, side)[1]
<1>3. Best(b, side) = <<m>> /\ IsBest(b, side, m)
  BY <1>2, BestFacts
<1> HIDE DEF m
<1>4. m = p
  BY <1>1, <1>3 DEF IsBest, Better
<1>5. \A q \in DOMAIN b[side] : ~Better(side, q, p)
  BY <1>1 DEF IsBest, Better
<1> QED BY <1>2, <1>3, <1>4, <1>5

\* The prices max_level_pct keeps, and those max_level keeps of them.
WithinPct(b, side, pct) ==
    {p \in DOMAIN b[side] :
        \/ pct = 0 \/ pct >= 100
        \/ \A best \in DOMAIN b[side] :
              100 * (IF p > best THEN p - best ELSE best - p) <= pct * best
              \/ \E q \in DOMAIN b[side] : Better(side, q, best)}

Kept(b, side, filter) ==
    {p \in WithinPct(b, side, filter.pct) :
        \/ filter.level = NoLimit
        \/ Cardinality({q \in WithinPct(b, side, filter.pct) : Better(side, q, p)}) < filter.level}

LEMMA NearIsWithin ==
    ASSUME NEW b, IsBook(b), NEW side \in Sides, NEW p \in DOMAIN b[side], NEW pct \in Int,
           pct # 0, ~(pct >= 100)
    PROVE  Near(b, side, p, pct) <=> p \in WithinPct(b, side, pct)
<1> DEFINE m == Best(b, side)[1]
           gap(best) == IF p > best THEN p - best ELSE best - p
<1>1. IsBest(b, side, m) /\ b[side] # EmptySide
  BY BookSides, EmptyHasNone, BestFacts
<1>2. p \in Nat /\ m \in Nat /\ m \in DOMAIN b[side] /\ (p = m \/ Better(side, m, p))
  BY <1>1, BookSides DEF IsBest
<1>3. Near(b, side, p, pct) <=> IF side = "bids" THEN 100 * p >= m * (100 - pct)
                                               ELSE 100 * p <= m * (100 + pct)
  BY DEF Near
<1> HIDE DEF m
<1>4. Near(b, side, p, pct) <=> 100 * gap(m) <= pct * m
  <2>1. \A x, y \in Nat : /\ x <= y => (100 * x >= y * (100 - pct) <=> 100 * (y - x) <= pct * y)
                          /\ x >= y => (100 * x <= y * (100 + pct) <=> 100 * (x - y) <= pct * y)
    <3> TAKE x, y \in Nat
    <3> DEFINE z == pct * y
    <3>1. y * (100 - pct) = 100 * y - z /\ y * (100 + pct) = 100 * y + z /\ z \in Int
      OBVIOUS
    <3> HIDE DEF z
    <3>2. /\ x <= y => (100 * x >= 100 * y - z <=> 100 * (y - x) <= z)
          /\ x >= y => (100 * x <= 100 * y + z <=> 100 * (x - y) <= z)
      BY <3>1
    <3> QED BY <3>1, <3>2 DEF z
  <2>2. CASE side = "bids"
    <3>1. p <= m /\ gap(m) = m - p
      BY <1>2, <2>2 DEF Better
    <3> QED BY <1>2, <1>3, <2>1, <2>2, <3>1
  <2>3. CASE side = "asks"
    <3>1. p >= m /\ gap(m) = p - m
      BY <1>2, <2>3 DEF Better
    <3> QED BY <1>2, <1>3, <2>1, <2>3, <3>1
  <2> QED BY <2>2, <2>3 DEF Sides
<1>5. \A q \in DOMAIN b[side] : ~Better(side, q, m) /\ (q # m => Better(side, m, q))
  BY <1>1, BestIsOne DEF IsBest
<1>6. p \in WithinPct(b, side, pct)
         <=> \A best \in DOMAIN b[side] : 100 * gap(best) <= pct * best
                                         \/ \E q \in DOMAIN b[side] : Better(side, q, best)
  BY Zenon DEF WithinPct
<1> HIDE DEF gap
<1>7. (\A best \in DOMAIN b[side] : 100 * gap(best) <= pct * best
                                   \/ \E q \in DOMAIN b[side] : Better(side, q, best))
         <=> 100 * gap(m) <= pct * m
  BY <1>2, <1>5, Zenon
<1> QED BY <1>4, <1>6, <1>7

LEMMA KeptByPctFacts ==
    ASSUME NEW b, IsBook(b), NEW side \in Sides, NEW pct \in Int
    PROVE  /\ KeptByPct(b, side, pct) \in SideSet
           /\ DOMAIN KeptByPct(b, side, pct) = WithinPct(b, side, pct)
           /\ \A p \in WithinPct(b, side, pct) : KeptByPct(b, side, pct)[p] = b[side][p]
<1>1. b[side] \in SideSet
  BY BookSides
<1>2. CASE pct = 0 \/ pct >= 100
  <2>1. KeptByPct(b, side, pct) = b[side]
    BY <1>2 DEF KeptByPct
  <2>2. WithinPct(b, side, pct) = DOMAIN b[side]
    BY <1>2 DEF WithinPct
  <2> QED BY <1>1, <2>1, <2>2
<1>3. CASE ~(pct = 0 \/ pct >= 100)
  <2> DEFINE D == WithinPct(b, side, pct)
             f == [p \in D |-> b[side][p]]
  <2>1. \A p \in DOMAIN b[side] : Near(b, side, p, pct) <=> p \in D
    BY <1>3, NearIsWithin
  <2>2. D \in SUBSET DOMAIN b[side]
    BY DEF WithinPct
  <2> HIDE DEF D
  <2>3. {p \in DOMAIN b[side] : Near(b, side, p, pct)} = D
    BY <2>1, <2>2
  <2>4. KeptByPct(b, side, pct) = f
    BY <1>3, <2>3 DEF KeptByPct
  <2>5. D \in Finites /\ f \in [D -> Nat]
    BY <1>1, <2>2, SideFacts, FS_Subset DEF Finites
  <2>6. f \in SideSet
    BY <2>5, IsSide
  <2> QED BY <2>4, <2>6 DEF D
<1> QED BY <1>2, <1>3

\* What max_level leaves of the levels max_level_pct keeps is the kept levels.
LEMMA KeptSide ==
    ASSUME NEW b, IsBook(b), NEW side \in Sides, NEW filter,
           filter.pct \in Int, filter.level \in Nat \cup {NoLimit}
    PROVE  Shows(KeptByLevel(Ascending(KeptByPct(b, side, filter.pct)), side, filter.level),
                 Kept(b, side, filter), b[side])
<1> DEFINE W == WithinPct(b, side, filter.pct)
           kp == KeptByPct(b, side, filter.pct)
           a == Ascending(kp)
           n == Len(a)
           max == filter.level
           f == [i \in 1..n |-> a[i].price]
           Rank(p) == Cardinality({q \in W : Better(side, q, p)})
           k == KeptByLevel(a, side, max)
<1>1. kp \in SideSet /\ DOMAIN kp = W /\ \A p \in W : kp[p] = b[side][p]
  BY KeptByPctFacts
<1>2. W \in SUBSET Nat
  BY BookSides DEF WithinPct
<1> HIDE DEF W, kp
<1>3. Shows(a, W, kp)
  BY <1>1, AscendingShows
<1> HIDE DEF a
<1>4. /\ n \in Nat /\ a \in Seq(Level)
      /\ \A i \in 1..n : a[i].price \in W /\ a[i].price \in Nat
      /\ \A i, j \in 1..n : i < j => a[i].price < a[j].price
      /\ \A w \in W : \E i \in 1..n : a[i].price = w
  <2>1. a \in Seq(Level)
    BY <1>3 DEF Shows
  <2> QED BY <1>3, <2>1, ShowsFacts
<1>5. \A i \in 1..n : a[i].size = b[side][a[i].price]
  BY <1>1, <1>3, <1>4, ShowsFacts
<1>6. \A i \in 1..n : Rank(a[i].price) = IF side = "bids" THEN n - i ELSE i - 1
  <2>1. Lists(f, n, W)
    BY <1>3 DEF Shows
  <2>2. \A i \in 1..n : f[i] = a[i].price
    OBVIOUS
  <2> HIDE DEF f
  <2>3. Places(f, n, W)
    BY <1>2, <2>1, PlacesCount
  <2> TAKE i \in 1..n
  <2>4. /\ Cardinality({m \in W : m < f[i]}) = i - 1
        /\ Cardinality({m \in W : m > f[i]}) = n - i
    BY <2>3 DEF Places
  <2>5. /\ side = "bids" => {q \in W : Better(side, q, a[i].price)} = {m \in W : m > f[i]}
        /\ side # "bids" => {q \in W : Better(side, q, a[i].price)} = {m \in W : m < f[i]}
    BY <2>2 DEF Better
  <2> QED BY <2>4, <2>5
<1> DEFINE Left == Kept(b, side, filter)
<1>7. Left = {p \in W : max = NoLimit \/ Rank(p) < max}
  BY DEF Kept, W
<1> HIDE DEF Rank, Left
<1>8. CASE max = NoLimit \/ n <= max
  <2>1. k = a
    BY <1>8 DEF KeptByLevel
  <2>2. Left = W
    <3>1. ASSUME NEW p \in W, max # NoLimit PROVE Rank(p) < max
      <4>1. PICK i \in 1..n : a[i].price = p
        BY <1>4
      <4>2. Rank(p) = IF side = "bids" THEN n - i ELSE i - 1
        BY <1>6, <4>1
      <4>3. max \in Nat /\ n <= max
        BY <1>8, <3>1
      <4> QED BY <1>4, <4>2, <4>3
    <3> QED BY <1>7, <3>1
  <2> HIDE DEF k, n, max
  <2>3. Shows(a, W, b[side])
    BY <1>4, <1>5, IsShown DEF n
  <2> QED BY <2>1, <2>2, <2>3 DEF k, Left, a, kp, max
<1>9. CASE ~(max = NoLimit \/ n <= max)
  <2> DEFINE o == IF side = "bids" THEN n - max ELSE 0
  <2>1. max \in Nat /\ max < n /\ o \in Nat /\ o + max <= n
    BY <1>4, <1>9
  <2>2. k = SubSeq(a, o + 1, o + max)
    <3>1. n = o + max \/ side # "bids"
      BY <1>4, <2>1
    <3>2. side # "bids" => o + 1 = 1 /\ o + max = max
      BY <2>1
    <3> QED BY <1>9, <3>1, <3>2 DEF KeptByLevel
  <2>3. \A j \in 1..max : o + j \in 1..n
    BY <1>4, <2>1
  <2>4. \A i \in 1..n : Rank(a[i].price) < max <=> i \in o+1..o+max
    <3> TAKE i \in 1..n
    <3>1. Rank(a[i].price) = IF side = "bids" THEN n - i ELSE i - 1
      BY <1>6
    <3> QED BY <1>4, <2>1, <3>1
  <2> HIDE DEF o, k, n
  <2> HIDE DEF max
  <2>5. k \in Seq(Level) /\ Len(k) = max /\ \A j \in 1..max : k[j] = a[o + j]
    <3>1. o + 1 \in 1..Len(a)+1 /\ o + max \in o..Len(a)
      BY <2>1 DEF n
    <3>2. /\ k \in Seq(Level)
          /\ Len(k) = IF o + 1 <= o + max THEN (o + max) - (o + 1) + 1 ELSE 0
          /\ \A j \in 1..(o + max) - (o + 1) + 1 : k[j] = a[(o + 1) + j - 1]
      <4>1. \A m \in 1..Len(a)+1 : \A r \in m-1..Len(a) :
               /\ SubSeq(a, m, r) \in Seq(Level)
               /\ Len(SubSeq(a, m, r)) = IF m <= r THEN r - m + 1 ELSE 0
               /\ \A j \in 1..r - m + 1 : SubSeq(a, m, r)[j] = a[m + j - 1]
        BY <1>4, SubSeqProperties
      <4>2. o + max \in (o + 1)-1..Len(a)
        BY <2>1 DEF n
      <4> DEFINE x == o + 1
                 y == o + max
      <4>3. x \in 1..Len(a)+1 /\ y \in x-1..Len(a)
        BY <3>1, <4>2
      <4>4. k = SubSeq(a, x, y)
        BY <2>2
      <4> HIDE DEF x, y
      <4>5. /\ k \in Seq(Level)
            /\ Len(k) = IF x <= y THEN y - x + 1 ELSE 0
            /\ \A j \in 1..y - x + 1 : k[j] = a[x + j - 1]
        <5>1. /\ SubSeq(a, x, y) \in Seq(Level)
              /\ Len(SubSeq(a, x, y)) = IF x <= y THEN y - x + 1 ELSE 0
              /\ \A j \in 1..y - x + 1 : SubSeq(a, x, y)[j] = a[x + j - 1]
          BY <4>1, <4>3, Zenon
        <5> QED BY <4>4, <5>1, Zenon
      <4> QED BY <4>5 DEF x, y
    <3>3. (o + max) - (o + 1) + 1 = max /\ \A j \in 1..max : (o + 1) + j - 1 = o + j
      BY <2>1
    <3>4. max = 0 \/ o + 1 <= o + max
      BY <2>1
    <3>5. Len(k) = max
      BY <2>1, <3>2, <3>3, <3>4
    <3> QED BY <3>2, <3>3, <3>5
  <2>6. \A j \in 1..max : /\ k[j] = a[o + j] /\ o + j \in 1..n
                          /\ Rank(k[j].price) < max
    <3> TAKE j \in 1..max
    <3>1. o + j \in o+1..o+max
      BY <2>1
    <3> QED BY <2>3, <2>4, <2>5, <3>1
  <2>7. \A j \in 1..max : k[j].price \in Left /\ k[j].size = b[side][k[j].price]
    BY <1>4, <1>5, <1>7, <2>6
  <2>8. \A i, j \in 1..max : i < j => k[i].price < k[j].price
    <3> TAKE i, j \in 1..max
    <3>1. i < j => o + i < o + j
      BY <2>1
    <3> QED BY <1>4, <2>6, <3>1
  <2>9. ASSUME NEW w \in Left PROVE \E j \in 1..max : k[j].price = w
    <3>1. w \in W /\ Rank(w) < max
      <4>1. max # NoLimit
        BY <2>1 DEF NoLimit
      <4> QED BY <1>7, <4>1
    <3>2. PICK i \in 1..n : a[i].price = w
      BY <1>4, <3>1
    <3>3. i \in o+1..o+max
      BY <2>4, <3>1, <3>2
    <3>4. i - o \in 1..max /\ o + (i - o) = i
      BY <2>1, <3>3
    <3> QED BY <2>5, <3>2, <3>4
  <2>10. Shows(k, Left, b[side])
    BY <2>5, <2>7, <2>8, <2>9, IsShown
  <2> QED BY <2>10 DEF k, Left, a, kp, max
<1> QED BY <1>8, <1>9

\* What is kept of a side, if anything is, includes its best price.
LEMMA BestIsKept ==
    ASSUME NEW b, IsBook(b), NEW side \in Sides, NEW filter,
           filter.pct \in Int, filter.level \in Nat \cup {NoLimit}, Kept(b, side, filter) # {}
    PROVE  b[side] # EmptySide /\ Best(b, side)[1] \in Kept(b, side, filter)
<1> DEFINE W == WithinPct(b, side, filter.pct)
           m == Best(b, side)[1]
           gap(x, y) == IF x > y THEN x - y ELSE y - x
<1>1. PICK p \in Kept(b, side, filter) : TRUE
  OBVIOUS
<1>2. p \in W /\ p \in DOMAIN b[side]
  BY <1>1 DEF Kept, WithinPct
<1>3. b[side] # EmptySide /\ IsBest(b, side, m)
  BY <1>2, BookSides, EmptyHasNone, BestFacts
<1> HIDE DEF m
<1>4. m \in DOMAIN b[side] /\ m \in Nat /\ m > 0 /\ p \in Nat
  BY <1>2, <1>3, BookSides DEF IsBest
<1>5. \A q \in DOMAIN b[side] : ~Better(side, q, m)
  BY <1>3, BestIsOne
<1>6. m \in W
  <2>1. CASE filter.pct = 0 \/ filter.pct >= 100
    BY <1>4, <2>1 DEF WithinPct
  <2>2. CASE ~(filter.pct = 0 \/ filter.pct >= 100)
    <3>1. 100 * gap(p, m) <= filter.pct * m
      <4>1. 100 * gap(p, m) <= filter.pct * m \/ \E q \in DOMAIN b[side] : Better(side, q, m)
        BY <1>2, <1>4, <2>2 DEF WithinPct
      <4> QED BY <1>5, <4>1
    <3>2. gap(p, m) \in Nat /\ gap(m, m) = 0
      BY <1>4
    <3>3. filter.pct * m >= 0
      <4> DEFINE z == filter.pct * m
      <4> HIDE DEF gap
      <4>1. z \in Int
        BY <1>4
      <4> HIDE DEF z
      <4>2. 100 * gap(p, m) <= z
        BY <3>1 DEF z
      <4>3. z >= 0
        BY <3>2, <4>1, <4>2
      <4> QED BY <4>3 DEF z
    <3>4. filter.pct >= 0
      <4>1. \A x \in Int, y \in Nat : y > 0 /\ x * y >= 0 => x >= 0
        OBVIOUS
      <4> QED BY <1>4, <3>3, <4>1
    <3>5. \A best \in DOMAIN b[side] : 100 * gap(m, best) <= filter.pct * best
                                       \/ \E q \in DOMAIN b[side] : Better(side, q, best)
      <4> TAKE best \in DOMAIN b[side]
      <4>1. CASE best = m
        <5>1. 100 * gap(m, m) = 0
          BY <3>2
        <5> QED BY <3>3, <4>1, <5>1
      <4>2. CASE best # m
        BY <1>3, <1>4, <4>2 DEF IsBest
      <4> QED BY <4>1, <4>2
    <3> QED BY <1>4, <3>5 DEF WithinPct
  <2> QED BY <2>1, <2>2
<1>7. CASE filter.level = NoLimit
  BY <1>3, <1>6, <1>7 DEF Kept, m
<1>8. CASE filter.level # NoLimit
  <2>1. {q \in W : Better(side, q, m)} = {}
    BY <1>5 DEF WithinPct
  <2>2. Cardinality({q \in W : Better(side, q, m)}) = 0
    BY <2>1, FS_EmptySet
  <2>3. filter.level > 0
    <3> DEFINE c == Cardinality({q \in W : Better(side, q, p)})
    <3>1. c < filter.level
      BY <1>1, <1>8 DEF Kept
    <3>2. c \in Nat
      <4>1. IsFiniteSet(DOMAIN b[side])
        BY BookSides, SideFacts
      <4>2. {q \in W : Better(side, q, p)} \subseteq DOMAIN b[side]
        BY DEF WithinPct
      <4>3. IsFiniteSet({q \in W : Better(side, q, p)})
        BY <4>1, <4>2, FS_Subset
      <4> QED BY <4>3, FS_CardinalityType
    <3> HIDE DEF c
    <3> QED BY <1>8, <3>1, <3>2
  <2> QED BY <1>3, <1>6, <2>2, <2>3 DEF Kept, m
<1> QED BY <1>7, <1>8

\* What is picked of the levels shown is shown.
LEMMA PicksShow ==
    ASSUME NEW a, NEW W, NEW levels, Shows(a, W, levels), NEW r \in Seq(Level), NEW S,
           Picks(r, Len(a), a, S), NEW U \in SUBSET W,
           \A i \in 1..Len(a) : a[i] \in S <=> a[i].price \in U
    PROVE  Shows(r, U, levels)
<1> DEFINE n == Len(a)
           k == Len(r)
<1>1. /\ n \in Nat
      /\ \A i \in 1..n : a[i].price \in Nat
      /\ \A i, j \in 1..n : i < j => a[i].price < a[j].price
      /\ \A w \in W : \E i \in 1..n : a[i].price = w
      /\ \A i \in 1..n : a[i].size = levels[a[i].price]
  <2>1. /\ Len(a) \in Nat
        /\ \A i \in 1..Len(a) : a[i] \in Level /\ a[i].price \in W /\ a[i].price \in Nat
        /\ \A i, j \in 1..Len(a) : i < j => a[i].price < a[j].price
        /\ \A w \in W : \E i \in 1..Len(a) : a[i].price = w
        /\ \A i \in 1..Len(a) : a[i].size = levels[a[i].price]
    BY ShowsFacts
  <2> QED BY <2>1
<1>2. PICK e \in [1..k -> 1..n] :
          /\ \A i, j \in 1..k : i < j => e[i] < e[j]
          /\ \A j \in 1..k : r[j] = a[e[j]] /\ r[j] \in S
          /\ \A i \in 1..n : a[i] \in S => \E j \in 1..k : e[j] = i
  BY DEF Picks
<1>3. \A j \in 1..k : e[j] \in 1..n
  BY <1>2
<1> HIDE DEF n
<1>4. \A j \in 1..k : r[j].price \in U /\ r[j].size = levels[r[j].price]
  BY <1>1, <1>2, <1>3 DEF n
<1>5. \A i, j \in 1..k : i < j => r[i].price < r[j].price
  BY <1>1, <1>2, <1>3
<1>6. \A w \in U : \E j \in 1..k : r[j].price = w
  <2> TAKE w \in U
  <2>1. PICK i \in 1..n : a[i].price = w
    BY <1>1
  <2>2. a[i] \in S
    BY <2>1 DEF n
  <2>3. PICK j \in 1..k : e[j] = i
    BY <1>2, <2>2
  <2> QED BY <1>2, <2>1, <2>3
<1> QED BY <1>4, <1>5, <1>6, IsShown

LEMMA ReverseFacts ==
    ASSUME NEW T, NEW a \in Seq(T)
    PROVE  /\ Reverse(a) \in Seq(T) /\ Len(Reverse(a)) = Len(a)
           /\ \A i \in 1..Len(a) : Reverse(a)[i] = a[Len(a) - i + 1]
<1> DEFINE n == Len(a)
<1>1. n \in Nat /\ \A i \in 1..n : n - i + 1 \in 1..n
  OBVIOUS
<1>2. Reverse(a) = [i \in 1..n |-> a[(n - i) + 1]]
  BY DEF Reverse
<1>3. \A i \in 1..n : a[(n - i) + 1] \in T
  BY <1>1
<1> HIDE DEF n
<1>4. Reverse(a) \in Seq(T) /\ DOMAIN Reverse(a) = 1..n
  BY <1>1, <1>2, <1>3
<1>5. Len(Reverse(a)) = n
  BY <1>1, <1>4, LenProperties
<1> QED BY <1>2, <1>4, <1>5 DEF n

\* Picking from the other end gives the reverse.
LEMMA ReversePicks ==
    ASSUME NEW T, NEW a \in Seq(T), NEW r \in Seq(T), NEW S, Picks(r, Len(a), Reverse(a), S)
    PROVE  Picks(Reverse(r), Len(a), a, S)
<1> DEFINE n == Len(a)
           k == Len(r)
           d == Reverse(a)
           s == Reverse(r)
<1>1. n \in Nat /\ k \in Nat
  OBVIOUS
<1>2. /\ Len(s) = k /\ \A j \in 1..k : s[j] = r[k - j + 1]
      /\ \A i \in 1..n : d[i] = a[n - i + 1]
  BY ReverseFacts
<1>3. PICK e \in [1..k -> 1..n] :
          /\ \A i, j \in 1..k : i < j => e[i] < e[j]
          /\ \A j \in 1..k : r[j] = d[e[j]] /\ r[j] \in S
          /\ \A i \in 1..n : d[i] \in S => \E j \in 1..k : e[j] = i
  BY DEF Picks
<1> DEFINE g == [j \in 1..k |-> n - e[k - j + 1] + 1]
<1> HIDE DEF n, k, d, s
<1>4. \A j \in 1..k : k - j + 1 \in 1..k /\ k - (k - j + 1) + 1 = j
  BY <1>1
<1>5. \A j \in 1..k : e[j] \in 1..n /\ n - e[j] + 1 \in 1..n
  BY <1>1, <1>3
<1>6. g \in [1..k -> 1..n] /\ \A j \in 1..k : g[j] = n - e[k - j + 1] + 1
  BY <1>4, <1>5
<1> HIDE DEF g
<1>7. \A i, j \in 1..k : i < j => g[i] < g[j]
  <2> TAKE i, j \in 1..k
  <2> DEFINE x == k - i + 1
             y == k - j + 1
  <2>1. x \in 1..k /\ y \in 1..k /\ (i < j => y < x)
    BY <1>1, <1>4
  <2>2. g[i] = n - e[x] + 1 /\ g[j] = n - e[y] + 1
    BY <1>6
  <2> HIDE DEF x, y
  <2>3. e[x] \in 1..n /\ e[y] \in 1..n /\ (y < x => e[y] < e[x])
    BY <1>3, <1>5, <2>1
  <2> QED BY <1>1, <2>1, <2>2, <2>3
<1>8. \A j \in 1..k : s[j] = a[g[j]] /\ s[j] \in S
  <2> TAKE j \in 1..k
  <2> DEFINE x == k - j + 1
  <2>1. x \in 1..k /\ s[j] = r[x] /\ g[j] = n - e[x] + 1
    BY <1>2, <1>4, <1>6
  <2> HIDE DEF x
  <2>2. r[x] = d[e[x]] /\ r[x] \in S /\ e[x] \in 1..n
    BY <1>3, <1>5, <2>1
  <2> QED BY <1>2, <2>1, <2>2
<1>9. \A i \in 1..n : a[i] \in S => \E j \in 1..k : g[j] = i
  <2> SUFFICES ASSUME NEW i \in 1..n, a[i] \in S PROVE \E j \in 1..k : g[j] = i
    OBVIOUS
  <2> DEFINE x == n - i + 1
  <2>1. x \in 1..n /\ n - x + 1 = i
    BY <1>1
  <2> HIDE DEF x
  <2>2. d[x] \in S
    BY <1>2, <2>1
  <2>3. PICK y \in 1..k : e[y] = x
    BY <1>3, <2>1, <2>2
  <2> DEFINE z == k - y + 1
  <2>4. z \in 1..k /\ k - z + 1 = y
    BY <1>4
  <2> HIDE DEF z
  <2>5. g[z] = i
    BY <1>6, <2>1, <2>3, <2>4
  <2> QED BY <2>4, <2>5
<1>10. Picks(s, n, a, S)
  BY <1>1, <1>2, <1>6, <1>7, <1>8, <1>9 DEF Picks
<1> QED BY <1>10 DEF s, n

\* levels_within_pct gives what max_level_pct keeps, from the best price on.
LEMMA LevelsWithinFacts ==
    ASSUME NEW b, IsBook(b), NEW side \in Sides, NEW pct \in 1..99
    PROVE  Shows(IF side = "asks" THEN LevelsWithinPct(b, side, pct)
                                  ELSE Reverse(LevelsWithinPct(b, side, pct)),
                 WithinPct(b, side, pct), b[side])
<1> DEFINE a == Ascending(b[side])
           d == BestFirst(b, side)
           S == {l \in ToSet(d) : Near(b, side, l.price, pct)}
           r == Among(d, S)
           U == WithinPct(b, side, pct)
           W == DOMAIN b[side]
<1>1. Shows(a, W, b[side])
  BY BookSides, AscendingShows
<1>2. a \in Seq(Level) /\ \A i \in 1..Len(a) : a[i].price \in W
  <2>1. a \in Seq(Level)
    BY <1>1 DEF Shows
  <2> HIDE DEF a, W
  <2>2. \A i \in 1..Len(a) : a[i].price \in W
    BY <1>1, ShowsFacts
  <2> QED BY <2>1, <2>2
<1>3. d = IF side = "bids" THEN Reverse(a) ELSE a
  <2>1. CASE side = "bids"
    BY <2>1 DEF BestFirst
  <2>2. CASE side = "asks"
    BY <2>2 DEF BestFirst
  <2> QED BY <2>1, <2>2 DEF Sides
<1>4. d \in Seq(Level) /\ Len(d) = Len(a) /\ ToSet(d) = ToSet(a)
  <2> HIDE DEF a, d
  <2>1. /\ Reverse(a) \in Seq(Level) /\ Len(Reverse(a)) = Len(a)
        /\ \A i \in 1..Len(a) : Reverse(a)[i] = a[Len(a) - i + 1]
    BY <1>2, ReverseFacts
  <2>2. ToSet(Reverse(a)) = ToSet(a)
    <3>1. DOMAIN a = 1..Len(a) /\ DOMAIN Reverse(a) = 1..Len(a) /\ Len(a) \in Nat
      BY <1>2, <2>1
    <3>2. \A i \in 1..Len(a) : Len(a) - i + 1 \in 1..Len(a) /\ Len(a) - (Len(a) - i + 1) + 1 = i
      BY <3>1
    <3>3. \A i \in 1..Len(a) : a[i] = Reverse(a)[Len(a) - i + 1]
      BY <2>1, <3>2
    <3> DEFINE v(i) == Len(a) - i + 1
    <3>4. \A i \in 1..Len(a) : v(i) \in 1..Len(a) /\ Reverse(a)[i] = a[v(i)] /\ a[i] = Reverse(a)[v(i)]
      BY <2>1, <3>2, <3>3
    <3> HIDE DEF v
    <3> QED BY <3>1, <3>4 DEF ToSet
  <2> QED BY <1>2, <1>3, <2>1, <2>2
<1>5. \A i \in 1..Len(a) : a[i] \in S <=> a[i].price \in U
  <2> TAKE i \in 1..Len(a)
  <2>1. a[i].price \in W /\ a[i] \in ToSet(a)
    BY <1>2 DEF ToSet
  <2>2. pct \in Int /\ pct # 0 /\ ~(pct >= 100)
    OBVIOUS
  <2> HIDE DEF a, d
  <2>3. Near(b, side, a[i].price, pct) <=> a[i].price \in U
    BY <2>1, <2>2, NearIsWithin
  <2> QED BY <1>4, <2>1, <2>3
<1>6. U \in SUBSET W
  BY DEF WithinPct
<1>7. LevelsWithinPct(b, side, pct) = r
  BY Zenon DEF LevelsWithinPct
<1> HIDE DEF a, d, S, U
<1>8. r \in Seq(Level) /\ Picks(r, Len(d), d, S)
  BY <1>4, AmongPicks
<1> HIDE DEF r
<1>9. CASE side = "asks"
  <2>1. Picks(r, Len(a), a, S)
    BY <1>3, <1>8, <1>9
  <2>2. Shows(r, U, b[side])
    BY <1>1, <1>5, <1>6, <1>8, <2>1, PicksShow
  <2> QED BY <1>7, <1>9, <2>2 DEF U
<1>10. CASE side = "bids"
  <2>1. d = Reverse(a) /\ Len(d) = Len(a)
    BY <1>3, <1>4, <1>10
  <2>2. Picks(r, Len(a), Reverse(a), S)
    BY <1>8, <2>1
  <2>3. Picks(Reverse(r), Len(a), a, S) /\ Reverse(r) \in Seq(Level)
    BY <1>2, <1>8, <2>2, ReversePicks, ReverseFacts
  <2>4. Shows(Reverse(r), U, b[side])
    BY <1>1, <1>5, <1>6, <2>3, PicksShow
  <2> QED BY <1>7, <1>10, <2>4 DEF U
<1> QED BY <1>9, <1>10 DEF Sides

\* The ends of what is shown are the best prices.
LEMMA EndsAreBest ==
    ASSUME NEW b, IsBook(b), NEW side \in Sides, NEW a, NEW W, Shows(a, W, b[side]),
           W \subseteq DOMAIN b[side], b[side] # EmptySide, Best(b, side)[1] \in W
    PROVE  a # <<>> /\ Best(b, side)[1] = IF side = "bids" THEN Last(a).price ELSE Head(a).price
<1> DEFINE m == Best(b, side)[1]
           n == Len(a)
<1>1. IsBest(b, side, m)
  BY BestFacts
<1> HIDE DEF m
<1>2. /\ n \in Nat
      /\ \A i \in 1..n : a[i].price \in W /\ a[i].price \in Nat
      /\ \A i, j \in 1..n : i < j => a[i].price < a[j].price
      /\ \E i \in 1..n : a[i].price = m
  <2>1. m \in W
    BY DEF m
  <2> QED BY <2>1, ShowsFacts
<1>3. PICK k \in 1..n : a[k].price = m
  BY <1>2
<1>4. n > 0 /\ 1 \in 1..n /\ n \in 1..n /\ a # <<>> /\ Last(a) = a[n] /\ Head(a) = a[1]
  <2>1. n > 0 /\ 1 \in 1..n /\ n \in 1..n
    BY <1>2, <1>3
  <2>2. a \in Seq(Level)
    BY DEF Shows
  <2>3. a # <<>> /\ Head(a) = a[1]
    BY <2>1, <2>2
  <2> QED BY <2>1, <2>3 DEF Last
<1> HIDE DEF n
<1>5. \A i \in 1..n : ~Better(side, a[i].price, m)
  <2>1. \A q \in DOMAIN b[side] : ~Better(side, q, m)
    BY <1>1, BestIsOne
  <2> QED BY <1>2, <2>1
<1>6. CASE side = "bids"
  <2>1. ~(k < n)
    BY <1>2, <1>3, <1>4, <1>5, <1>6 DEF Better
  <2>2. k = n
    BY <1>4, <2>1
  <2> QED BY <1>3, <1>4, <1>6, <2>2 DEF m
<1>7. CASE side = "asks"
  <2>1. ~(1 < k)
    BY <1>2, <1>3, <1>4, <1>5, <1>7 DEF Better
  <2>2. k = 1
    BY <1>4, <2>1
  <2> QED BY <1>3, <1>4, <1>7, <2>2 DEF m
<1> QED BY <1>6, <1>7 DEF Sides

LEMMA ShowsNothing ==
    ASSUME NEW a, NEW W, NEW levels, Shows(a, W, levels)
    PROVE  a = <<>> <=> W = {}
<1>1. a \in Seq(Level)
  BY DEF Shows
<1>2. /\ \A i \in 1..Len(a) : a[i].price \in W
      /\ \A w \in W : \E i \in 1..Len(a) : a[i].price = w
  BY ShowsFacts
<1>3. a = <<>> => 1..Len(a) = {}
  OBVIOUS
<1>4. a # <<>> => 1 \in 1..Len(a)
  BY <1>1
<1> QED BY <1>2, <1>3, <1>4

IsFilter(filter) == filter.pct \in Int /\ filter.level \in Nat \cup {NoLimit}

\* The side of an item.
ItemSide(b, filter, side) == KeptByLevel(Ascending(KeptByPct(b, side, filter.pct)), side, filter.level)

LEMMA LobItemOfFacts ==
    ASSUME NEW b, NEW filter, NEW ts
    PROVE  LET bids == ItemSide(b, filter, "bids")
               asks == ItemSide(b, filter, "asks")
           IN LobItemOf(b, filter, ts) =
                 IF EmptySide \in {b.bids, b.asks} \/ <<>> \in {bids, asks} THEN None
                 ELSE <<LobItem(ts, bids, asks)>>
BY Zenon DEF LobItemOf, ItemSide

\* An item has the levels the filters keep, the best bid last and the best ask
\* first, and there is none only when nothing is kept of a side.
LEMMA ItemFacts ==
    ASSUME NEW b, IsBook(b), NEW filter, IsFilter(filter), NEW ts
    PROVE  LET item == LobItemOf(b, filter, ts)
           IN IF item = None
              THEN \E side \in Sides : Kept(b, side, filter) = {}
              ELSE /\ item = <<item[1]>>
                   /\ item[1].bids # <<>> /\ Shows(item[1].bids, Kept(b, "bids", filter), b.bids)
                   /\ item[1].asks # <<>> /\ Shows(item[1].asks, Kept(b, "asks", filter), b.asks)
                   /\ <<Last(item[1].bids).price>> = Best(b, "bids")
                   /\ <<Head(item[1].asks).price>> = Best(b, "asks")
                   /\ Spread(b)[1] > 0 \/ IsCrossed(b)
                   /\ filter.pct \in 1..99 /\ filter.level = NoLimit =>
                         /\ item[1].bids = Reverse(LevelsWithinPct(b, "bids", filter.pct))
                         /\ item[1].asks = LevelsWithinPct(b, "asks", filter.pct)
<1> DEFINE bids == ItemSide(b, filter, "bids")
           asks == ItemSide(b, filter, "asks")
           item == LobItemOf(b, filter, ts)
<1>1. item = IF EmptySide \in {b.bids, b.asks} \/ <<>> \in {bids, asks} THEN None
             ELSE <<LobItem(ts, bids, asks)>>
  BY LobItemOfFacts
<1>2. "bids" \in Sides /\ "asks" \in Sides /\ b["bids"] = b.bids /\ b["asks"] = b.asks
  BY DEF Sides
<1>3. Shows(bids, Kept(b, "bids", filter), b["bids"]) /\ Shows(asks, Kept(b, "asks", filter), b["asks"])
  BY <1>2, KeptSide DEF ItemSide, IsFilter
<1> HIDE DEF bids, asks, item
<1>4. CASE EmptySide \in {b.bids, b.asks} \/ <<>> \in {bids, asks}
  <2>1. item = None
    BY <1>1, <1>4
  <2>2. ASSUME NEW side \in Sides, b[side] = EmptySide PROVE Kept(b, side, filter) = {}
    <3>1. DOMAIN b[side] = {}
      BY <2>2, BookSides, EmptyHasNone
    <3> QED BY <3>1 DEF Kept, WithinPct
  <2>3. \E side \in Sides : Kept(b, side, filter) = {}
    <3>1. /\ bids = <<>> => Kept(b, "bids", filter) = {}
          /\ asks = <<>> => Kept(b, "asks", filter) = {}
      BY <1>3, ShowsNothing
    <3> QED BY <1>2, <1>4, <2>2, <3>1
  <2> QED BY <2>1, <2>3 DEF item
<1>5. CASE ~(EmptySide \in {b.bids, b.asks} \/ <<>> \in {bids, asks})
  <2>1. item = <<LobItem(ts, bids, asks)>> /\ bids # <<>> /\ asks # <<>>
    BY <1>1, <1>5
  <2>2. item # None /\ item = <<item[1]>> /\ item[1].bids = bids /\ item[1].asks = asks
    BY <2>1 DEF LobItem, None
  <2>3. Kept(b, "bids", filter) # {} /\ Kept(b, "asks", filter) # {}
    BY <1>3, <2>1, ShowsNothing
  <2>4. /\ b.bids # EmptySide /\ Best(b, "bids")[1] \in Kept(b, "bids", filter)
        /\ b.asks # EmptySide /\ Best(b, "asks")[1] \in Kept(b, "asks", filter)
    BY <1>2, <2>3, BestIsKept DEF IsFilter
  <2>5. /\ Kept(b, "bids", filter) \subseteq DOMAIN b["bids"]
        /\ Kept(b, "asks", filter) \subseteq DOMAIN b["asks"]
    BY DEF Kept, WithinPct
  <2>6. /\ Best(b, "bids")[1] = Last(bids).price
        /\ Best(b, "asks")[1] = Head(asks).price
    <3>1. Best(b, "bids")[1] = IF "bids" = "bids" THEN Last(bids).price ELSE Head(bids).price
      BY <1>2, <1>3, <2>4, <2>5, EndsAreBest
    <3>2. Best(b, "asks")[1] = IF "asks" = "bids" THEN Last(asks).price ELSE Head(asks).price
      BY <1>2, <1>3, <2>4, <2>5, EndsAreBest
    <3> QED BY <3>1, <3>2
  <2>7. Best(b, "bids") = <<Best(b, "bids")[1]>> /\ Best(b, "asks") = <<Best(b, "asks")[1]>>
    BY <1>2, <2>4, BestFacts
  <2>8. Spread(b)[1] > 0 \/ IsCrossed(b)
    <3> DEFINE x == Best(b, "bids")[1]
               y == Best(b, "asks")[1]
    <3>1. x \in Nat /\ y \in Nat
      BY <1>2, <2>4, <2>5, BookSides
    <3>2. None \notin {Best(b, "bids"), Best(b, "asks")}
      <4>1. Best(b, "bids") = <<x>> /\ Best(b, "asks") = <<y>>
        BY <2>7
      <4> HIDE DEF x, y
      <4> QED BY <4>1 DEF None
    <3>3. Spread(b)[1] = y - x
      BY <3>2 DEF Spread
    <3>4. IsCrossed(b) <=> x >= y
      <4>1. b[Opposite("bids")] = b.asks /\ Opposite("bids") = "asks"
        BY <1>2 DEF Opposite
      <4> QED BY <2>4, <4>1 DEF IsCrossed, Crosses
    <3> HIDE DEF x, y
    <3> QED BY <3>1, <3>3, <3>4
  <2>9. ASSUME filter.pct \in 1..99, filter.level = NoLimit
        PROVE  /\ bids = Reverse(LevelsWithinPct(b, "bids", filter.pct))
               /\ asks = LevelsWithinPct(b, "asks", filter.pct)
    <3>1. /\ Kept(b, "bids", filter) = WithinPct(b, "bids", filter.pct)
          /\ Kept(b, "asks", filter) = WithinPct(b, "asks", filter.pct)
      BY <2>9 DEF Kept
    <3>2. /\ WithinPct(b, "bids", filter.pct) \in SUBSET Nat
          /\ WithinPct(b, "asks", filter.pct) \in SUBSET Nat
      BY <1>2, BookSides DEF WithinPct
    <3>3. /\ Shows(Reverse(LevelsWithinPct(b, "bids", filter.pct)),
                   WithinPct(b, "bids", filter.pct), b["bids"])
          /\ Shows(LevelsWithinPct(b, "asks", filter.pct),
                   WithinPct(b, "asks", filter.pct), b["asks"])
      <4> DEFINE lw(side) == LevelsWithinPct(b, side, filter.pct)
      <4>1. \A side \in Sides : Shows(IF side = "asks" THEN lw(side) ELSE Reverse(lw(side)),
                                      WithinPct(b, side, filter.pct), b[side])
        BY <2>9, LevelsWithinFacts
      <4>2. "bids" # "asks"
        OBVIOUS
      <4> HIDE DEF lw
      <4>3. /\ Shows(Reverse(lw("bids")), WithinPct(b, "bids", filter.pct), b["bids"])
            /\ Shows(lw("asks"), WithinPct(b, "asks", filter.pct), b["asks"])
        BY <1>2, <4>1, <4>2
      <4> QED BY <4>3 DEF lw
    <3> QED BY <1>3, <3>1, <3>2, <3>3, ShownOnce
  <2>10. <<Last(bids).price>> = Best(b, "bids") /\ <<Head(asks).price>> = Best(b, "asks")
    BY <2>6, <2>7
  <2> QED BY <1>2, <1>3, <2>1, <2>2, <2>8, <2>9, <2>10 DEF item
<1> QED BY <1>4, <1>5

(* ---- applying the levels of a message ------------------------------------- *)

\* A level that has been read.
Entry == [price : Nat \ {0}, size : Nat]

LEMMA ParsedTyped ==
    ASSUME NEW levels \in Seq(LevelSet)
    PROVE  Parsed(levels) \in Seq(Entry)
<1> DEFINE S == {l \in ToSet(levels) : Unreadable \notin {l.price, l.size}}
           r == Parsed(levels)
<1>1. r = Among(levels, S)
  BY DEF Parsed
<1> HIDE DEF r
<1>2. r \in Seq(LevelSet) /\ Picks(r, Len(levels), levels, S)
  BY <1>1, AmongPicks
<1>3. ASSUME NEW i \in 1..Len(r) PROVE r[i] \in Entry
  <2>1. r[i] \in S
    <3> HIDE DEF S
    <3> QED BY <1>2 DEF Picks
  <2>2. r[i] \in LevelSet
    BY <1>2, ElementOfSeq
  <2> QED BY <2>1, <2>2 DEF LevelSet, Entry
<1>4. r \in Seq(Entry)
  BY <1>2, <1>3
<1> QED BY <1>4 DEF r

\* A side filled from nothing.
LEMMA FilledTyped ==
    ASSUME NEW levels \in Seq(LevelSet)
    PROVE  Filled(levels) \in SideSet
<1> DEFINE us == Parsed(levels)
           n == Len(us)
           Op(s, l) == IF l.size > 0 THEN Insert(s, l) ELSE s
           F == [x \in SideSet \X Entry |-> Op(x[1], x[2])]
           Is(g) == g = [i \in 0..n |-> IF i = 0 THEN EmptySide ELSE Op(g[i - 1], us[i])]
           r == CHOOSE g : Is(g)
<1>1. us \in Seq(Entry) /\ EmptySide \in SideSet
  BY ParsedTyped, EmptyIsSide
<1>2. Filled(levels) = r[n]
  BY Zenon DEF Filled, Folded
<1> HIDE DEF us
<1>3. \A s \in SideSet, l \in Entry : Op(s, l) \in SideSet
  BY InsertIsSide DEF Entry
<1> HIDE DEF Op
<1>4. F \in [SideSet \X Entry -> SideSet] /\ \A s \in SideSet, l \in Entry : F[<<s, l>>] = Op(s, l)
  BY <1>3
<1>5. n \in Nat /\ \A i \in 1..n : us[i] \in Entry /\ i - 1 \in 0..n /\ i \in 0..n /\ i # 0
  BY <1>1
<1> HIDE DEF F
<1>6. \E g : Is(g)
  <2>1. PICK g \in [0..n -> SideSet] : Runs(g, F, EmptySide, us)
    BY <1>1, <1>4, RunExists
  <2>2. g[0] = EmptySide /\ \A i \in 1..n : g[i] = Op(g[i - 1], us[i])
    BY <1>4, <1>5, <2>1 DEF Runs
  <2>3. \A i \in 0..n : i = 0 \/ i \in 1..n
    OBVIOUS
  <2>4. Is(g)
    BY <2>2, <2>3
  <2> QED BY <2>4
<1>7. Is(r)
  BY <1>6, Zenon
<1>8. r[0] = EmptySide /\ \A i \in 1..n : r[i] = Op(r[i - 1], us[i])
  <2> HIDE DEF r
  <2>1. 0 \in 0..n
    BY <1>5
  <2> QED BY <1>5, <1>7, <2>1, Zenon
<1> HIDE DEF r, Is
<1>9. Steps(r, F, SideSet, EmptySide, us)
  BY <1>4, <1>5, <1>8 DEF Steps
<1>10. \A i \in 0..n : r[i] \in SideSet
  BY <1>1, <1>4, <1>9, RunStays
<1> QED BY <1>2, <1>5, <1>10

\* A side after levels are set and removed.
UpsertAll(levels, us) == Folded(Upsert, levels, us)

LEMMA UpsertAllTyped ==
    ASSUME NEW levels \in SideSet, NEW us \in Seq(Entry)
    PROVE  UpsertAll(levels, us) \in SideSet
<1> DEFINE n == Len(us)
           F == [x \in SideSet \X Entry |-> Upsert(x[1], x[2])]
           Is(g) == g = [i \in 0..n |-> IF i = 0 THEN levels ELSE Upsert(g[i - 1], us[i])]
           r == CHOOSE g : Is(g)
<1>1. UpsertAll(levels, us) = r[n]
  BY Zenon DEF UpsertAll, Folded
<1>2. \A s \in SideSet, l \in Entry : Upsert(s, l) \in SideSet
  BY UpsertIsSide DEF Entry
<1>3. F \in [SideSet \X Entry -> SideSet] /\ \A s \in SideSet, l \in Entry : F[<<s, l>>] = Upsert(s, l)
  BY <1>2
<1>4. n \in Nat /\ \A i \in 1..n : us[i] \in Entry /\ i - 1 \in 0..n /\ i \in 0..n /\ i # 0
  OBVIOUS
<1> HIDE DEF F
<1>5. \E g : Is(g)
  <2>1. PICK g \in [0..n -> SideSet] : Runs(g, F, levels, us)
    BY <1>3, RunExists
  <2>2. g[0] = levels /\ \A i \in 1..n : g[i] = Upsert(g[i - 1], us[i])
    BY <1>3, <1>4, <2>1 DEF Runs
  <2>3. \A i \in 0..n : i = 0 \/ i \in 1..n
    OBVIOUS
  <2>4. Is(g)
    BY <2>2, <2>3
  <2> QED BY <2>4
<1>6. Is(r)
  BY <1>5, Zenon
<1>7. r[0] = levels /\ \A i \in 1..n : r[i] = Upsert(r[i - 1], us[i])
  <2> HIDE DEF r
  <2>1. 0 \in 0..n
    BY <1>4
  <2> QED BY <1>4, <1>6, <2>1, Zenon
<1> HIDE DEF r, Is
<1>8. Steps(r, F, SideSet, levels, us)
  BY <1>3, <1>4, <1>7 DEF Steps
<1>9. \A i \in 0..n : r[i] \in SideSet
  BY <1>3, <1>8, RunStays
<1> QED BY <1>1, <1>4, <1>9

\* A book after levels of one side under the crossing guard.
GuardedAll(b, side, us) == Folded(LAMBDA s, l : Guarded(s, side, l), b, us)

\* b with another content of a side.
WithSide(b, side) == {[b EXCEPT ![side] = x] : x \in SideSet}

LEMMA GuardedAllTyped ==
    ASSUME NEW b, IsBook(b), b = [f \in DOMAIN b |-> b[f]], Sides \subseteq DOMAIN b,
           NEW side \in Sides, NEW us \in Seq(Entry)
    PROVE  GuardedAll(b, side, us) \in WithSide(b, side)
<1> DEFINE n == Len(us)
           St == WithSide(b, side)
           Op(s, l) == Guarded(s, side, l)
           F == [x \in St \X Entry |-> Op(x[1], x[2])]
           Is(g) == g = [i \in 0..n |-> IF i = 0 THEN b ELSE Op(g[i - 1], us[i])]
           r == CHOOSE g : Is(g)
<1>1. GuardedAll(b, side, us) = r[n]
  BY Zenon DEF GuardedAll, Folded
<1>2. b \in St
  <2>1. b[side] \in SideSet
    BY BookSides
  <2>2. b = [b EXCEPT ![side] = b[side]]
    OBVIOUS
  <2> QED BY <2>1, <2>2 DEF WithSide
<1>3. ASSUME NEW s \in St, NEW l \in Entry PROVE Op(s, l) \in St
  <2>1. PICK x \in SideSet : s = [b EXCEPT ![side] = x]
    BY DEF WithSide
  <2>2. s[side] = x /\ \A y : [s EXCEPT ![side] = y] = [b EXCEPT ![side] = y]
    BY <2>1
  <2>3. Upsert(x, l) \in SideSet
    BY UpsertIsSide DEF Entry
  <2>4. Op(s, l) = s \/ Op(s, l) = [b EXCEPT ![side] = Upsert(x, l)]
    BY <2>2 DEF Guarded
  <2> QED BY <2>3, <2>4 DEF WithSide
<1> HIDE DEF Op, St
<1>4. F \in [St \X Entry -> St] /\ \A s \in St, l \in Entry : F[<<s, l>>] = Op(s, l)
  BY <1>3
<1>5. n \in Nat /\ \A i \in 1..n : us[i] \in Entry /\ i - 1 \in 0..n /\ i \in 0..n /\ i # 0
  OBVIOUS
<1> HIDE DEF F
<1>6. \E g : Is(g)
  <2>1. PICK g \in [0..n -> St] : Runs(g, F, b, us)
    BY <1>2, <1>4, RunExists
  <2>2. g[0] = b /\ \A i \in 1..n : g[i] = Op(g[i - 1], us[i])
    BY <1>4, <1>5, <2>1 DEF Runs
  <2>3. \A i \in 0..n : i = 0 \/ i \in 1..n
    OBVIOUS
  <2>4. Is(g)
    BY <2>2, <2>3
  <2> QED BY <2>4
<1>7. Is(r)
  BY <1>6, Zenon
<1>8. r[0] = b /\ \A i \in 1..n : r[i] = Op(r[i - 1], us[i])
  <2> HIDE DEF r
  <2>1. 0 \in 0..n
    BY <1>5
  <2> QED BY <1>5, <1>7, <2>1, Zenon
<1> HIDE DEF r, Is
<1>9. Steps(r, F, St, b, us)
  BY <1>4, <1>5, <1>8 DEF Steps
<1>10. \A i \in 0..n : r[i] \in St
  BY <1>2, <1>4, <1>9, RunStays
<1> QED BY <1>1, <1>5, <1>10 DEF St

(* ---- the four copies of the shared operators ----------------------------- *)

\* repair_crossing, with and without the flag.
Flagged(b) == IF IsCrossed(b) THEN [Wiped(b) EXCEPT !.resync = TRUE] ELSE b
Unflagged(b) == IF IsCrossed(b) THEN Wiped(b) ELSE b

LEMMA OkxUpdateIs ==
    ASSUME NEW b, NEW side, NEW levels
    PROVE  O!ApplyUpdate(b, levels, side) = Flagged(GuardedAll(b, side, Parsed(levels)))
BY Zenon DEF O!ApplyUpdate, O!Repaired, O!IsCrossed, O!Crosses, O!Best, O!Max,
     O!Min, O!Folded, O!Guarded, O!Upsert, O!Without, O!Insert, O!Parsed,
     O!Among, O!ToSet, O!Wiped, O!Opposite, O!EmptySide, O!None, O!Unreadable,
     Flagged, GuardedAll, IsCrossed, Crosses, Best, Max, Min, Folded, Guarded, Upsert,
     Without, Insert, Parsed, Among, ToSet, Wiped, Opposite, EmptySide, None, Unreadable

LEMMA OkxSnapshotIs ==
    ASSUME NEW b, NEW side, NEW levels
    PROVE  O!ApplySnapshot(b, levels, side) =
              Flagged([b EXCEPT ![side] = Filled(levels),
                                !.resync = @ /\ side = "bids", !.failed = @ /\ side = "bids"])
BY Zenon DEF O!ApplySnapshot, O!Repaired, O!IsCrossed, O!Crosses, O!Best, O!Max,
     O!Min, O!Folded, O!Filled, O!Insert, O!Parsed, O!Among, O!ToSet, O!Wiped,
     O!Opposite, O!EmptySide, O!None, O!Unreadable,
     Flagged, Filled, IsCrossed, Crosses, Best, Max, Min, Folded, Insert, Parsed, Among,
     ToSet, Wiped, Opposite, EmptySide, None, Unreadable

LEMMA OkxItemIs ==
    ASSUME NEW b, NEW filter, NEW ts
    PROVE  O!LobItemOf(b, filter, ts) = LobItemOf(b, filter, ts)
BY Zenon DEF O!LobItemOf, O!KeptByLevel, O!KeptByPct, O!Ascending, O!Sorted,
     O!LobItem, O!Near, O!NoLimit, O!Best, O!Max, O!Min, O!EmptySide, O!None,
     O!Cardinality, LobItemOf, KeptByLevel, KeptByPct, Ascending, Sorted, LobItem, Near,
     NoLimit, Best, Max, Min, EmptySide, None, Cardinality

LEMMA OkxEmittedIs ==
    ASSUME NEW a, NEW lob
    PROVE  O!Emitted(a, lob) = Emitted(a, lob)
BY Zenon DEF O!Emitted, O!Repeats, O!None, Emitted, Repeats, None

\* A book is crossed or not whatever its other fields are.
LEMMA SameSidesCross ==
    ASSUME NEW b, NEW c, b.bids = c.bids, b.asks = c.asks
    PROVE  IsCrossed(b) <=> IsCrossed(c)
<1>1. b["bids"] = c["bids"] /\ b["asks"] = c["asks"]
  OBVIOUS
<1>2. \A side \in Sides : Best(b, side) = Best(c, side) /\ b[side] = c[side]
  BY <1>1 DEF Best, Sides
<1>3. "bids" \in Sides /\ Opposite("bids") \in Sides
  BY DEF Sides, Opposite
<1> QED BY <1>1, <1>2, <1>3 DEF IsCrossed, Crosses

\* What a book message is made of.
IsBookData(data) == data.bids \in Seq(LevelSet) /\ data.asks \in Seq(LevelSet)

(* ---- the OKX book ----------------------------------------------------------- *)

OkxBooks == [bids : SideSet, asks : SideSet, resync : BOOLEAN, failed : BOOLEAN]

\* The repair leaves a book that is not crossed.
LEMMA OkxFlagged ==
    ASSUME NEW b \in OkxBooks
    PROVE  /\ Flagged(b) \in OkxBooks /\ ~IsCrossed(Flagged(b))
           /\ Flagged(b).failed = b.failed
<1>1. CASE IsCrossed(b)
  <2> DEFINE w == [Wiped(b) EXCEPT !.resync = TRUE]
  <2>1. Flagged(b) = w
    BY <1>1 DEF Flagged
  <2>2. w \in OkxBooks /\ w.failed = b.failed /\ w.bids = EmptySide
    BY EmptyIsSide DEF OkxBooks, Wiped
  <2> HIDE DEF w
  <2>3. ~IsCrossed(w)
    BY <2>2 DEF IsCrossed
  <2> QED BY <2>1, <2>2, <2>3
<1>2. CASE ~IsCrossed(b)
  BY <1>2 DEF Flagged
<1> QED BY <1>1, <1>2

LEMMA OkxSideApplied ==
    ASSUME NEW b \in OkxBooks, NEW side \in Sides, NEW levels \in Seq(LevelSet), NEW action
    PROVE  LET nb == O!Applied(b, action, levels, side)
           IN /\ nb \in OkxBooks /\ (~IsCrossed(b) => ~IsCrossed(nb))
              /\ nb.failed => b.failed
<1> DEFINE nb == O!Applied(b, action, levels, side)
<1>1. CASE levels # <<>> /\ action = "snapshot"
  <2> DEFINE c == [b EXCEPT ![side] = Filled(levels),
                            !.resync = @ /\ side = "bids", !.failed = @ /\ side = "bids"]
  <2>1. nb = O!ApplySnapshot(b, levels, side)
    BY <1>1 DEF O!Applied
  <2>2. nb = Flagged(c)
    BY <2>1, OkxSnapshotIs
  <2>3. c \in OkxBooks /\ (c.failed => b.failed)
    <3>1. Filled(levels) \in SideSet
      BY FilledTyped
    <3> DEFINE x == Filled(levels)
    <3>2. CASE side = "bids"
      <4>1. c = [b EXCEPT !.bids = x, !.resync = @ /\ TRUE, !.failed = @ /\ TRUE]
        BY <3>2
      <4> HIDE DEF c, x
      <4>2. x \in SideSet
        BY <3>1 DEF x
      <4> QED BY <4>1, <4>2 DEF OkxBooks
    <3>3. CASE side = "asks"
      <4>1. c = [b EXCEPT !.asks = x, !.resync = FALSE, !.failed = FALSE]
        BY <3>3
      <4> HIDE DEF c, x
      <4>2. x \in SideSet
        BY <3>1 DEF x
      <4> QED BY <4>1, <4>2 DEF OkxBooks
    <3> QED BY <3>2, <3>3 DEF Sides
  <2> HIDE DEF c, nb
  <2> QED BY <2>2, <2>3, OkxFlagged DEF nb
<1>2. CASE levels # <<>> /\ action = "update"
  <2> DEFINE c == GuardedAll(b, side, Parsed(levels))
  <2>1. nb = O!ApplyUpdate(b, levels, side)
    BY <1>2 DEF O!Applied
  <2>2. nb = Flagged(c)
    BY <2>1, OkxUpdateIs
  <2>3. c \in WithSide(b, side)
    <3>1. Parsed(levels) \in Seq(Entry)
      BY ParsedTyped
    <3>2. IsBook(b) /\ b = [f \in DOMAIN b |-> b[f]] /\ Sides \subseteq DOMAIN b
      BY DEF OkxBooks, Sides, IsBook
    <3> QED BY <3>1, <3>2, GuardedAllTyped
  <2> HIDE DEF c
  <2>4. c \in OkxBooks /\ c.failed = b.failed
    BY <2>3 DEF WithSide, OkxBooks, Sides
  <2> HIDE DEF nb
  <2> QED BY <2>2, <2>4, OkxFlagged DEF nb
<1>3. CASE ~(levels # <<>> /\ action \in {"snapshot", "update"})
  <2>1. nb = b
    BY <1>3 DEF O!Applied
  <2> QED BY <2>1
<1> QED BY <1>1, <1>2, <1>3

\* The checksum sees no more of a book than its sides.
LEMMA OkxChecksum ==
    ASSUME NEW b, NEW c, b.bids = c.bids, b.asks = c.asks
    PROVE  O!ComputeChecksum(b) = ChecksumOf(c, ChecksumDepth)
<1>1. O!ChecksumOf(b, ChecksumDepth) = ChecksumOf(b, ChecksumDepth)
  BY Zenon DEF O!ChecksumOf, O!Hashed, O!Folded, O!FormatNumber, O!TopLevels,
       O!Take, O!BestFirst, O!Reverse, O!Ascending, O!Sorted, O!Cardinality, O!Max,
       ChecksumOf, Hashed, Folded, FormatNumber, TopLevels,
       Take, BestFirst, Reverse, Ascending, Sorted, Cardinality, Max
<1>2. /\ TopLevels(b, "bids", ChecksumDepth) = TopLevels(c, "bids", ChecksumDepth)
      /\ TopLevels(b, "asks", ChecksumDepth) = TopLevels(c, "asks", ChecksumDepth)
  BY Zenon DEF TopLevels, BestFirst
<1>3. ChecksumOf(b, ChecksumDepth) = ChecksumOf(c, ChecksumDepth)
  BY <1>2, Zenon DEF ChecksumOf, Hashed
<1> QED BY <1>1, <1>3 DEF O!ComputeChecksum

LEMMA OkxProcessed ==
    ASSUME NEW b \in OkxBooks, NEW m, NEW data, m.data = <<data>>, IsBookData(data)
    PROVE  LET nb == O!ProcessMsg(b, m)
           IN /\ nb \in OkxBooks /\ (~IsCrossed(b) => ~IsCrossed(nb))
              /\ nb.failed /\ ~b.failed =>
                    /\ data.checksum # O!None
                    /\ O!ComputeChecksum(nb) # data.checksum[1]
<1> DEFINE action == IF m.action = O!NoText THEN "snapshot" ELSE m.action
           bids == O!Applied(b, action, data.bids, "bids")
           both == O!Applied(bids, action, data.asks, "asks")
           nb == O!ProcessMsg(b, m)
<1>1. nb = O!VerifyChecksum(both, data.checksum)
  <2>1. m.data # <<>> /\ Head(m.data) = data
    OBVIOUS
  <2>2. data["bids"] = data.bids /\ data["asks"] = data.asks
    OBVIOUS
  <2> QED BY <2>1, <2>2, Zenon DEF O!ProcessMsg, O!ExtractLevels
<1>2. bids \in OkxBooks /\ (~IsCrossed(b) => ~IsCrossed(bids)) /\ (bids.failed => b.failed)
  BY OkxSideApplied DEF IsBookData, Sides
<1> HIDE DEF bids
<1>3. both \in OkxBooks /\ (~IsCrossed(bids) => ~IsCrossed(both)) /\ (both.failed => bids.failed)
  BY <1>2, OkxSideApplied DEF IsBookData, Sides
<1> HIDE DEF both, nb
<1>4. CASE data.checksum = O!None
  BY <1>1, <1>2, <1>3, <1>4 DEF O!VerifyChecksum, nb
<1>5. CASE data.checksum # O!None
  <2> DEFINE wrong == O!ComputeChecksum(both) # data.checksum[1]
  <2>1. nb = [both EXCEPT !.failed = both.failed \/ wrong]
    BY <1>1, <1>5, Zenon DEF O!VerifyChecksum
  <2>2. wrong \in BOOLEAN
    OBVIOUS
  <2> HIDE DEF wrong
  <2>3. nb \in OkxBooks /\ nb.bids = both.bids /\ nb.asks = both.asks /\ (nb.failed <=> both.failed \/ wrong)
    BY <1>3, <2>1, <2>2 DEF OkxBooks
  <2>4. IsCrossed(nb) <=> IsCrossed(both)
    BY <2>3, SameSidesCross
  <2>5. O!ComputeChecksum(nb) = O!ComputeChecksum(both)
    BY <2>3, OkxChecksum
  <2> QED BY <1>2, <1>3, <1>5, <2>3, <2>4, <2>5 DEF nb, wrong
<1> QED BY <1>4, <1>5

(* ---- what the consumer has seen ------------------------------------------- *)

\* The consumer's last item is the one emit_lob compares with.
Sent(a, v) ==
    a.prev # None => v # None /\ v[1].bids = a.prev[1].bids /\ v[1].asks = a.prev[1].asks

\* And it is the item of the book, if there is one.
Current(a, v) ==
    \A ts : LET item == LobItemOf(a.book, a.filter, ts)
            IN item # None => v # None /\ v[1].bids = item[1].bids /\ v[1].asks = item[1].asks

Viewed(v, items) == IF items = <<>> THEN v ELSE <<Last(items)>>

\* An item tells the levels, not the time.
LEMMA ItemsOfOneBook ==
    ASSUME NEW b, NEW filter, NEW t, NEW s
    PROVE  LET x == LobItemOf(b, filter, t)
               y == LobItemOf(b, filter, s)
           IN /\ x = None <=> y = None
              /\ x # None => /\ x = <<x[1]>> /\ x[1].bids = y[1].bids /\ x[1].asks = y[1].asks
<1> DEFINE bids == ItemSide(b, filter, "bids")
           asks == ItemSide(b, filter, "asks")
           x == LobItemOf(b, filter, t)
           y == LobItemOf(b, filter, s)
           none == EmptySide \in {b.bids, b.asks} \/ <<>> \in {bids, asks}
<1>1. /\ x = IF none THEN None ELSE <<LobItem(t, bids, asks)>>
      /\ y = IF none THEN None ELSE <<LobItem(s, bids, asks)>>
  BY LobItemOfFacts
<1> HIDE DEF x, y, bids, asks, none
<1>2. CASE none
  <2>1. x = None /\ y = None
    BY <1>1, <1>2
  <2> QED BY <2>1 DEF x, y
<1>3. CASE ~none
  <2>1. x = <<LobItem(t, bids, asks)>> /\ y = <<LobItem(s, bids, asks)>>
    BY <1>1, <1>3
  <2>2. /\ x # None /\ x = <<x[1]>> /\ x[1].bids = bids /\ x[1].asks = asks
        /\ y # None /\ y[1].bids = bids /\ y[1].asks = asks
    BY <2>1 DEF LobItem, None
  <2> QED BY <2>2 DEF x, y
<1> QED BY <1>2, <1>3

LEMMA NoItem ==
    ASSUME NEW b, NEW filter, b.bids = EmptySide
    PROVE  \A ts : LobItemOf(b, filter, ts) = None
<1> TAKE ts
<1> DEFINE x == LobItemOf(b, filter, ts)
           bids == ItemSide(b, filter, "bids")
           asks == ItemSide(b, filter, "asks")
<1>1. x = IF EmptySide \in {b.bids, b.asks} \/ <<>> \in {bids, asks} THEN None
          ELSE <<LobItem(ts, bids, asks)>>
  BY LobItemOfFacts
<1> HIDE DEF x, bids, asks
<1>2. x = None
  BY <1>1
<1> QED BY <1>2 DEF x

\* After emit_lob the consumer has the item of the book.
LEMMA EmittedFacts ==
    ASSUME NEW a, {"book", "filter", "prev"} \subseteq DOMAIN a, NEW v, Sent(a, v), NEW ts
    PROVE  LET done == Emitted(a, LobItemOf(a.book, a.filter, ts))
           IN /\ done.adapter = a \/ \E p : done.adapter = [a EXCEPT !.prev = p]
              /\ Sent(done.adapter, Viewed(v, done.items))
              /\ Current(done.adapter, Viewed(v, done.items))
<1> DEFINE lob == LobItemOf(a.book, a.filter, ts)
           done == Emitted(a, lob)
           next == Viewed(v, done.items)
<1>1. \A s : LET y == LobItemOf(a.book, a.filter, s)
             IN /\ lob = None <=> y = None
                /\ lob # None => lob = <<lob[1]>> /\ lob[1].bids = y[1].bids /\ lob[1].asks = y[1].asks
  BY ItemsOfOneBook
<1> HIDE DEF lob
<1>2. CASE lob = None \/ (lob # None /\ Repeats(lob[1], a.prev))
  <2>1. done = [adapter |-> a, items |-> <<>>]
    BY <1>2 DEF Emitted
  <2> HIDE DEF done
  <2>2. done.adapter = a /\ next = v
    BY <2>1 DEF Viewed
  <2>3. Current(a, v)
    BY <1>1, <1>2 DEF Current, Sent, Repeats
  <2> QED BY <2>2, <2>3 DEF done, lob
<1>3. CASE lob # None /\ ~Repeats(lob[1], a.prev)
  <2> DEFINE c == [a EXCEPT !.prev = lob]
  <2>1. done = [adapter |-> c, items |-> lob]
    BY <1>3 DEF Emitted
  <2>2. c.prev = lob /\ c.book = a.book /\ c.filter = a.filter
    OBVIOUS
  <2> HIDE DEF done, c
  <2>3. done.adapter = c /\ done.items = lob
    BY <2>1
  <2>4. lob = <<lob[1]>>
    <3>1. lob # None
      BY <1>3
    <3> QED BY <1>1, <3>1
  <2>5. lob # <<>> /\ Last(lob) = lob[1]
    <3> DEFINE x == lob[1]
    <3>1. lob = <<x>>
      BY <2>4
    <3> HIDE DEF x
    <3>2. Len(lob) = 1 /\ lob # <<>>
      BY <3>1
    <3> QED BY <3>2 DEF Last
  <2>6. next = lob
    BY <2>3, <2>4, <2>5 DEF Viewed
  <2> HIDE DEF next
  <2>7. Sent(c, next)
    BY <2>2, <2>6, <1>3 DEF Sent
  <2>8. Current(c, next)
    BY <1>1, <1>3, <2>2, <2>6 DEF Current
  <2> QED BY <2>3, <2>7, <2>8 DEF done, lob, next, c
<1> QED BY <1>2, <1>3

(* ---- the OKX adapter ------------------------------------------------------- *)

\* Replacing the book, or the item last sent.
LEMMA Replaced ==
    ASSUME NEW k, NEW f, NEW b, NEW p, NEW x
    PROVE  /\ [[kinds |-> k, filter |-> f, book |-> b, prev |-> p] EXCEPT !.book = x] =
                 [kinds |-> k, filter |-> f, book |-> x, prev |-> p]
           /\ [[kinds |-> k, filter |-> f, book |-> b, prev |-> p] EXCEPT !.prev = x] =
                 [kinds |-> k, filter |-> f, book |-> b, prev |-> x]
OBVIOUS

\* Sending an item changes nothing else.
LEMMA ItemReplaced ==
    ASSUME NEW k, NEW f, NEW b, NEW p, NEW d,
           d = [kinds |-> k, filter |-> f, book |-> b, prev |-> p] \/
           \E x : d = [[kinds |-> k, filter |-> f, book |-> b, prev |-> p] EXCEPT !.prev = x]
    PROVE  \E x : d = [kinds |-> k, filter |-> f, book |-> b, prev |-> x]
BY Replaced

IsOkx(a) == \E filter \in Filters, b \in OkxBooks : \E prev :
               a = [kinds |-> {"lob"}, filter |-> filter, book |-> b, prev |-> prev]

\* Resetting leaves nothing.
LEMMA OkxReset ==
    ASSUME NEW a, IsOkx(a), NEW v
    PROVE  LET c == O!ResetLocal(a)
           IN /\ IsOkx(c) /\ ~IsCrossed(c.book) /\ ~c.book.failed
              /\ Sent(c, v) /\ Current(c, v)
<1> DEFINE c == O!ResetLocal(a)
           nb == [bids |-> EmptySide, asks |-> EmptySide, resync |-> FALSE, failed |-> FALSE]
<1>0. PICK filter \in Filters, b \in OkxBooks : \E prev :
          a = [kinds |-> {"lob"}, filter |-> filter, book |-> b, prev |-> prev]
  BY DEF IsOkx
<1>1. PICK prev : a = [kinds |-> {"lob"}, filter |-> filter, book |-> b, prev |-> prev]
  BY <1>0
<1>2. O!Reset(b) = nb
  <2>1. O!EmptySide = EmptySide
    BY DEF O!EmptySide, EmptySide
  <2>2. O!Reset(b) = [[b EXCEPT !.bids = EmptySide, !.asks = EmptySide]
                           EXCEPT !.resync = FALSE, !.failed = FALSE]
    BY <2>1, Zenon DEF O!Reset, O!Wiped
  <2> QED BY <2>2 DEF OkxBooks
<1> HIDE DEF nb
<1>3. c = [kinds |-> {"lob"}, filter |-> filter, book |-> nb, prev |-> None]
  <2>1. O!ResetLocal(a) = [a EXCEPT !.book = O!Reset(a.book), !.prev = None]
    BY Zenon DEF O!ResetLocal, O!None, None
  <2>2. a.book = b
    BY <1>1
  <2> QED BY <1>1, <1>2, <2>1, <2>2
<1> USE DEF nb
<1>4. nb \in OkxBooks /\ nb.bids = EmptySide /\ ~nb.failed
  BY EmptyIsSide DEF OkxBooks
<1> HIDE DEF c, nb
<1>5. IsOkx(c)
  BY <1>3, <1>4 DEF IsOkx
<1>6. c.book = nb /\ c.filter = filter /\ c.prev = None
  BY <1>3
<1>7. ~IsCrossed(nb)
  BY <1>4 DEF IsCrossed
<1>8. Current(c, v)
  BY <1>4, <1>6, NoItem DEF Current
<1>9. Sent(c, v)
  BY <1>6 DEF Sent
<1> QED BY <1>4, <1>5, <1>6, <1>7, <1>8, <1>9 DEF c

LEMMA OkxHandled ==
    ASSUME NEW a, IsOkx(a), ~IsCrossed(a.book), NEW v, Sent(a, v), NEW now,
           NEW m, NEW data, m.data = <<data>>, IsBookData(data),
           O!MessageType(m) \in {"L2Snapshot", "L2Update"}
    PROVE  LET done == O!HandleMessage(a, m, now)
           IN /\ IsOkx(done.adapter) /\ ~IsCrossed(done.adapter.book)
              /\ Sent(done.adapter, Viewed(v, done.items))
              /\ Current(done.adapter, Viewed(v, done.items))
              /\ done.adapter.book.failed /\ ~a.book.failed =>
                    /\ data.checksum # O!None
                    /\ O!ComputeChecksum(done.adapter.book) # data.checksum[1]
<1> DEFINE done == O!HandleMessage(a, m, now)
           nb == O!ProcessMsg(a.book, m)
           c == [a EXCEPT !.book = nb]
           ts == IF O!TimestampMs(m) = O!None
                 THEN IF O!MessageType(m) = "L2" THEN 0 ELSE now ELSE O!TimestampMs(m)[1]
<1>0. PICK filter \in Filters, b \in OkxBooks : \E prev :
          a = [kinds |-> {"lob"}, filter |-> filter, book |-> b, prev |-> prev]
  BY DEF IsOkx
<1>1. PICK prev : a = [kinds |-> {"lob"}, filter |-> filter, book |-> b, prev |-> prev]
  BY <1>0
<1>2. a.book = b /\ a.kinds = {"lob"} /\ a.filter = filter /\ a.prev = prev
  BY <1>1
<1>3. /\ nb \in OkxBooks /\ ~IsCrossed(nb)
      /\ nb.failed /\ ~b.failed => /\ data.checksum # O!None
                                   /\ O!ComputeChecksum(nb) # data.checksum[1]
  BY <1>2, OkxProcessed
<1>4. done = O!HandleLob(a, m, now)
  BY <1>2 DEF O!HandleMessage
<1>5. done = IF c.book.resync THEN O!Silent(O!ResetLocal(c)) ELSE O!EmitLob(c, ts)
  BY <1>4, Zenon DEF O!HandleLob
<1> HIDE DEF nb, ts
<1>6. c = [kinds |-> {"lob"}, filter |-> filter, book |-> nb, prev |-> prev]
  <2>1. c = [[kinds |-> {"lob"}, filter |-> filter, book |-> b, prev |-> prev] EXCEPT !.book = nb]
    BY <1>1, Zenon
  <2> HIDE DEF c
  <2> QED BY <2>1, Replaced
<1> HIDE DEF c, done
<1>7. IsOkx(c) /\ c.book = nb /\ c.filter = filter /\ c.prev = prev
      /\ {"book", "filter", "prev"} \subseteq DOMAIN c
  BY <1>3, <1>6 DEF IsOkx
<1>8. Sent(c, v)
  BY <1>2, <1>7 DEF Sent
<1>9. CASE nb.resync
  <2> DEFINE z == O!ResetLocal(c)
  <2>1. done = [adapter |-> z, items |-> <<>>]
    BY <1>5, <1>7, <1>9 DEF O!Silent
  <2>2. IsOkx(z) /\ ~IsCrossed(z.book) /\ ~z.book.failed /\ Sent(z, v) /\ Current(z, v)
    BY <1>7, OkxReset
  <2> HIDE DEF z
  <2>3. done.adapter = z /\ Viewed(v, done.items) = v
    BY <2>1 DEF Viewed
  <2> QED BY <2>2, <2>3 DEF done
<1>10. CASE ~nb.resync
  <2>1. done = Emitted(c, LobItemOf(c.book, c.filter, ts))
    <3>1. done = O!Emitted(c, O!LobItemOf(c.book, c.filter, ts))
      <4>1. done = O!EmitLob(c, ts)
        BY <1>5, <1>7, <1>10
      <4> QED BY <4>1, Zenon DEF O!EmitLob, O!ToLobItem
    <3> QED BY <3>1, OkxItemIs, OkxEmittedIs
  <2>2. /\ done.adapter = c \/ \E p : done.adapter = [c EXCEPT !.prev = p]
        /\ Sent(done.adapter, Viewed(v, done.items))
        /\ Current(done.adapter, Viewed(v, done.items))
    BY <1>7, <1>8, <2>1, EmittedFacts
  <2>3. \E p : done.adapter = [kinds |-> {"lob"}, filter |-> filter, book |-> nb, prev |-> p]
    <3>1. \/ done.adapter = [kinds |-> {"lob"}, filter |-> filter, book |-> nb, prev |-> prev]
          \/ \E p : done.adapter =
                [[kinds |-> {"lob"}, filter |-> filter, book |-> nb, prev |-> prev] EXCEPT !.prev = p]
      BY <1>6, <2>2, Zenon
    <3> QED BY <3>1, ItemReplaced
  <2>4. IsOkx(done.adapter) /\ done.adapter.book = nb
    <3>1. PICK p : done.adapter = [kinds |-> {"lob"}, filter |-> filter, book |-> nb, prev |-> p]
      BY <2>3
    <3>2. IsOkx(done.adapter)
      BY <1>1, <1>3, <3>1, Zenon DEF IsOkx
    <3> QED BY <3>1, <3>2
  <2> QED BY <1>2, <1>3, <2>2, <2>4 DEF done
<1> QED BY <1>9, <1>10

(* ---- the Kraken adapter ------------------------------------------------------ *)

LEMMA KrakenUpdateIs ==
    ASSUME NEW b, NEW side, NEW levels
    PROVE  K!ApplyUpdate(b, levels, side) = Unflagged(GuardedAll(b, side, levels))
BY Zenon DEF K!ApplyUpdate, K!Repaired, K!IsCrossed, K!Crosses, K!Best, K!Max,
     K!Min, K!Folded, K!Guarded, K!Upsert, K!Without, K!Insert, K!Parsed,
     K!Among, K!ToSet, K!Wiped, K!Opposite, K!EmptySide, K!None, K!Unreadable,
     Unflagged, GuardedAll, IsCrossed, Crosses, Best, Max, Min, Folded, Guarded, Upsert,
     Without, Insert, Parsed, Among, ToSet, Wiped, Opposite, EmptySide, None, Unreadable

LEMMA KrakenSnapshotIs ==
    ASSUME NEW b, NEW side, NEW levels
    PROVE  K!ApplySnapshot(b, levels, side) =
              Unflagged(IF side = "bids" THEN [b EXCEPT ![side] = Filled(levels)]
                        ELSE [[b EXCEPT ![side] = Filled(levels)]
                                 EXCEPT !.last = None, !.resync = FALSE, !.failed = FALSE])
BY Zenon DEF K!ApplySnapshot, K!Repaired, K!IsCrossed, K!Crosses, K!Best, K!Max,
     K!Min, K!Folded, K!Filled, K!Insert, K!Parsed, K!Among, K!ToSet, K!Wiped,
     K!Opposite, K!EmptySide, K!None, K!Unreadable,
     Unflagged, Filled, IsCrossed, Crosses, Best, Max, Min, Folded, Insert, Parsed, Among,
     ToSet, Wiped, Opposite, EmptySide, None, Unreadable

LEMMA KrakenItemIs ==
    ASSUME NEW b, NEW filter, NEW ts
    PROVE  K!LobItemOf(b, filter, ts) = LobItemOf(b, filter, ts)
BY Zenon DEF K!LobItemOf, K!KeptByLevel, K!KeptByPct, K!Ascending, K!Sorted,
     K!LobItem, K!Near, K!NoLimit, K!Best, K!Max, K!Min, K!EmptySide, K!None,
     K!Cardinality, LobItemOf, KeptByLevel, KeptByPct, Ascending, Sorted, LobItem, Near,
     NoLimit, Best, Max, Min, EmptySide, None, Cardinality

LEMMA KrakenEmittedIs ==
    ASSUME NEW a, NEW lob
    PROVE  K!Emitted(a, lob) = Emitted(a, lob)
BY Zenon DEF K!Emitted, K!Repeats, K!None, Emitted, Repeats, None

KrakenBooks == [bids : SideSet, asks : SideSet, last : Seq(Nat), resync : BOOLEAN, failed : BOOLEAN]

LEMMA KrakenRepaired ==
    ASSUME NEW b \in KrakenBooks
    PROVE  /\ Unflagged(b) \in KrakenBooks /\ ~IsCrossed(Unflagged(b))
           /\ Unflagged(b).failed = b.failed
<1>1. CASE IsCrossed(b)
  <2> DEFINE w == Wiped(b)
  <2>1. Unflagged(b) = w
    BY <1>1 DEF Unflagged
  <2>2. w \in KrakenBooks /\ w.failed = b.failed /\ w.bids = EmptySide
    BY EmptyIsSide DEF KrakenBooks, Wiped
  <2> HIDE DEF w
  <2>3. ~IsCrossed(w)
    BY <2>2 DEF IsCrossed
  <2> QED BY <2>1, <2>2, <2>3
<1>2. CASE ~IsCrossed(b)
  BY <1>2 DEF Unflagged
<1> QED BY <1>1, <1>2

LEMMA KrakenSideApplied ==
    ASSUME NEW b \in KrakenBooks, NEW side \in Sides, NEW levels \in Seq(Entry), NEW action
    PROVE  LET nb == K!Applied(b, action, levels, side)
           IN /\ nb \in KrakenBooks /\ (~IsCrossed(b) => ~IsCrossed(nb))
              /\ nb.failed => b.failed
<1> DEFINE nb == K!Applied(b, action, levels, side)
<1>1. CASE levels # <<>> /\ action = "snapshot"
  <2> DEFINE c == IF side = "bids" THEN [b EXCEPT ![side] = Filled(levels)]
                  ELSE [[b EXCEPT ![side] = Filled(levels)]
                           EXCEPT !.last = None, !.resync = FALSE, !.failed = FALSE]
  <2>1. nb = K!ApplySnapshot(b, levels, side)
    BY <1>1 DEF K!Applied
  <2>2. nb = Unflagged(c)
    BY <2>1, KrakenSnapshotIs
  <2>3. c \in KrakenBooks /\ (c.failed => b.failed)
    <3>1. Filled(levels) \in SideSet
      <4>1. levels \in Seq(LevelSet)
        <5>1. ASSUME NEW i \in 1..Len(levels) PROVE levels[i] \in LevelSet
          <6>1. levels[i] \in Entry
            BY ElementOfSeq
          <6> QED BY <6>1 DEF Entry, LevelSet
        <5> QED BY <5>1
      <4> QED BY <4>1, FilledTyped
    <3> DEFINE x == Filled(levels)
    <3>2. CASE side = "bids"
      <4>1. c = [b EXCEPT !.bids = x]
        BY <3>2
      <4> HIDE DEF c, x
      <4>2. x \in SideSet
        BY <3>1 DEF x
      <4> QED BY <4>1, <4>2 DEF KrakenBooks
    <3>3. CASE side = "asks"
      <4>1. c = [[b EXCEPT !.asks = x] EXCEPT !.last = None, !.resync = FALSE, !.failed = FALSE]
        BY <3>3
      <4> HIDE DEF c, x
      <4>2. x \in SideSet
        BY <3>1 DEF x
      <4>3. None \in Seq(Nat)
        BY DEF None
      <4> QED BY <4>1, <4>2, <4>3 DEF KrakenBooks
    <3> QED BY <3>2, <3>3 DEF Sides
  <2> HIDE DEF c, nb
  <2> QED BY <2>2, <2>3, KrakenRepaired DEF nb
<1>2. CASE levels # <<>> /\ action = "update"
  <2> DEFINE c == GuardedAll(b, side, levels)
  <2>1. nb = K!ApplyUpdate(b, levels, side)
    BY <1>2 DEF K!Applied
  <2>2. nb = Unflagged(c)
    BY <2>1, KrakenUpdateIs
  <2>3. c \in WithSide(b, side)
    <3>2. IsBook(b) /\ b = [f \in DOMAIN b |-> b[f]] /\ Sides \subseteq DOMAIN b
      BY DEF KrakenBooks, Sides, IsBook
    <3> QED BY <3>2, GuardedAllTyped
  <2> HIDE DEF c
  <2>4. c \in KrakenBooks /\ c.failed = b.failed
    BY <2>3 DEF WithSide, KrakenBooks, Sides
  <2> HIDE DEF nb
  <2> QED BY <2>2, <2>4, KrakenRepaired DEF nb
<1>3. CASE ~(levels # <<>> /\ action \in {"snapshot", "update"})
  <2>1. nb = b
    BY <1>3 DEF K!Applied
  <2> QED BY <2>1
<1> QED BY <1>1, <1>2, <1>3

\* The checksum sees no more of a book than its sides.
LEMMA KrakenChecksum ==
    ASSUME NEW b, NEW c, b.bids = c.bids, b.asks = c.asks
    PROVE  K!ComputeChecksum(b) = ChecksumOf(c, ChecksumDepth)
<1>1. K!ChecksumOf(b, ChecksumDepth) = ChecksumOf(b, ChecksumDepth)
  BY Zenon DEF K!ChecksumOf, K!Hashed, K!Folded, K!FormatNumber, K!TopLevels,
       K!Take, K!BestFirst, K!Reverse, K!Ascending, K!Sorted, K!Cardinality, K!Max,
       ChecksumOf, Hashed, Folded, FormatNumber, TopLevels,
       Take, BestFirst, Reverse, Ascending, Sorted, Cardinality, Max
<1>2. /\ TopLevels(b, "bids", ChecksumDepth) = TopLevels(c, "bids", ChecksumDepth)
      /\ TopLevels(b, "asks", ChecksumDepth) = TopLevels(c, "asks", ChecksumDepth)
  BY Zenon DEF TopLevels, BestFirst
<1>3. ChecksumOf(b, ChecksumDepth) = ChecksumOf(c, ChecksumDepth)
  BY <1>2, Zenon DEF ChecksumOf, Hashed
<1> QED BY <1>1, <1>3 DEF K!ComputeChecksum

LEMMA KrakenProcessed ==
    ASSUME NEW b \in KrakenBooks, NEW m, NEW data, m.data = <<data>>, IsBookData(data),
           m.sequence \in Seq(Nat)
    PROVE  LET nb == K!ProcessMsg(b, m)
           IN /\ nb \in KrakenBooks /\ (~IsCrossed(b) => ~IsCrossed(nb))
              /\ nb.failed /\ ~b.failed =>
                    /\ data.checksum # K!None
                    /\ K!ComputeChecksum(nb) # data.checksum[1]
<1> DEFINE action == IF m.type = K!NoText THEN "snapshot" ELSE m.type
           bids == K!Applied(b, action, Parsed(data.bids), "bids")
           both == K!Applied(bids, action, Parsed(data.asks), "asks")
           kept == K!TrackSequence(both, m.sequence)
           nb == K!ProcessMsg(b, m)
<1>0. \A side : K!ExtractLevels(data, side) = Parsed(data[side])
  BY Zenon DEF K!ExtractLevels, K!Parsed, K!Among, K!Folded, K!ToSet, K!Unreadable,
       Parsed, Among, Folded, ToSet, Unreadable
<1>1. nb = K!VerifyChecksum(kept, data.checksum)
  <2>1. m.data # <<>> /\ Head(m.data) = data
    OBVIOUS
  <2>2. data["bids"] = data.bids /\ data["asks"] = data.asks
    OBVIOUS
  <2> QED BY <1>0, <2>1, <2>2, Zenon DEF K!ProcessMsg
<1>2. bids \in KrakenBooks /\ (~IsCrossed(b) => ~IsCrossed(bids)) /\ (bids.failed => b.failed)
  <2>1. Parsed(data.bids) \in Seq(Entry) /\ "bids" \in Sides
    BY ParsedTyped DEF IsBookData, Sides
  <2> QED BY <2>1, KrakenSideApplied
<1> HIDE DEF bids
<1>3. both \in KrakenBooks /\ (~IsCrossed(bids) => ~IsCrossed(both)) /\ (both.failed => bids.failed)
  <2>1. Parsed(data.asks) \in Seq(Entry) /\ "asks" \in Sides
    BY ParsedTyped DEF IsBookData, Sides
  <2> QED BY <1>2, <2>1, KrakenSideApplied
<1> HIDE DEF both
<1>4. kept \in KrakenBooks /\ kept.bids = both.bids /\ kept.asks = both.asks /\ kept.failed = both.failed
  <2> DEFINE skips == both.last # K!None /\ m.sequence[1] # both.last[1] + 1
  <2>1. kept = IF m.sequence = K!None THEN both
               ELSE [both EXCEPT !.last = m.sequence, !.resync = both.resync \/ skips]
    BY Zenon DEF K!TrackSequence
  <2>2. skips \in BOOLEAN
    OBVIOUS
  <2> HIDE DEF skips, kept
  <2> QED BY <1>3, <2>1, <2>2 DEF KrakenBooks
<1>5. IsCrossed(kept) <=> IsCrossed(both)
  BY <1>4, SameSidesCross
<1> HIDE DEF kept, nb
<1>6. CASE data.checksum = K!None
  BY <1>1, <1>2, <1>3, <1>4, <1>5, <1>6 DEF K!VerifyChecksum, nb
<1>7. CASE data.checksum # K!None
  <2> DEFINE wrong == K!ComputeChecksum(kept) # data.checksum[1]
  <2>1. nb = [kept EXCEPT !.failed = kept.failed \/ wrong]
    BY <1>1, <1>7, Zenon DEF K!VerifyChecksum
  <2>2. wrong \in BOOLEAN
    OBVIOUS
  <2> HIDE DEF wrong
  <2>3. nb \in KrakenBooks /\ nb.bids = kept.bids /\ nb.asks = kept.asks /\ (nb.failed <=> kept.failed \/ wrong)
    BY <1>4, <2>1, <2>2 DEF KrakenBooks
  <2>4. IsCrossed(nb) <=> IsCrossed(kept)
    BY <2>3, SameSidesCross
  <2>5. K!ComputeChecksum(nb) = K!ComputeChecksum(kept)
    BY <2>3, KrakenChecksum
  <2> QED BY <1>2, <1>3, <1>4, <1>5, <1>7, <2>3, <2>4, <2>5 DEF nb, wrong
<1> QED BY <1>6, <1>7

IsKraken(a) == \E filter \in Filters, b \in KrakenBooks : \E prev :
               a = [kinds |-> {"lob"}, filter |-> filter, book |-> b, prev |-> prev]

\* Resetting leaves nothing.
LEMMA KrakenReset ==
    ASSUME NEW a, IsKraken(a), NEW v
    PROVE  LET c == K!ResetLocal(a)
           IN /\ IsKraken(c) /\ ~IsCrossed(c.book) /\ ~c.book.failed
              /\ Sent(c, v) /\ Current(c, v)
<1> DEFINE c == K!ResetLocal(a)
           nb == [bids |-> EmptySide, asks |-> EmptySide, last |-> None,
                  resync |-> FALSE, failed |-> FALSE]
<1>0. PICK filter \in Filters, b \in KrakenBooks : \E prev :
          a = [kinds |-> {"lob"}, filter |-> filter, book |-> b, prev |-> prev]
  BY DEF IsKraken
<1>1. PICK prev : a = [kinds |-> {"lob"}, filter |-> filter, book |-> b, prev |-> prev]
  BY <1>0
<1>2. K!Reset(b) = nb
  <2>1. K!EmptySide = EmptySide
    BY DEF K!EmptySide, EmptySide
  <2> QED BY <2>1 DEF K!Reset, K!NewBook, K!None, None
<1> HIDE DEF nb
<1>3. c = [kinds |-> {"lob"}, filter |-> filter, book |-> nb, prev |-> None]
  <2>1. K!ResetLocal(a) = [a EXCEPT !.book = K!Reset(a.book), !.prev = None]
    BY Zenon DEF K!ResetLocal, K!None, None
  <2>2. a.book = b
    BY <1>1
  <2> QED BY <1>1, <1>2, <2>1, <2>2
<1> USE DEF nb
<1>4. nb \in KrakenBooks /\ nb.bids = EmptySide /\ ~nb.failed
  <2>1. None \in Seq(Nat)
    BY DEF None
  <2> QED BY <2>1, EmptyIsSide DEF KrakenBooks
<1> HIDE DEF c, nb
<1>5. IsKraken(c)
  BY <1>3, <1>4 DEF IsKraken
<1>6. c.book = nb /\ c.filter = filter /\ c.prev = None
  BY <1>3
<1>7. ~IsCrossed(nb)
  BY <1>4 DEF IsCrossed
<1>8. Current(c, v)
  BY <1>4, <1>6, NoItem DEF Current
<1>9. Sent(c, v)
  BY <1>6 DEF Sent
<1> QED BY <1>4, <1>5, <1>6, <1>7, <1>8, <1>9 DEF c

LEMMA KrakenHandled ==
    ASSUME NEW a, IsKraken(a), ~IsCrossed(a.book), NEW v, Sent(a, v), NEW now,
           NEW m, NEW data, m.data = <<data>>, IsBookData(data), m.sequence \in Seq(Nat),
           K!MessageType(m) \in {"L2Snapshot", "L2Update"}
    PROVE  LET done == K!HandleMessage(a, m, now)
           IN /\ IsKraken(done.adapter) /\ ~IsCrossed(done.adapter.book)
              /\ Sent(done.adapter, Viewed(v, done.items))
              /\ Current(done.adapter, Viewed(v, done.items))
              /\ done.adapter.book.failed /\ ~a.book.failed =>
                    /\ data.checksum # K!None
                    /\ K!ComputeChecksum(done.adapter.book) # data.checksum[1]
<1> DEFINE done == K!HandleMessage(a, m, now)
           nb == K!ProcessMsg(a.book, m)
           c == [a EXCEPT !.book = nb]
           ts == IF K!TimestampMs(m) = K!None
                 THEN now ELSE K!TimestampMs(m)[1]
<1>0. PICK filter \in Filters, b \in KrakenBooks : \E prev :
          a = [kinds |-> {"lob"}, filter |-> filter, book |-> b, prev |-> prev]
  BY DEF IsKraken
<1>1. PICK prev : a = [kinds |-> {"lob"}, filter |-> filter, book |-> b, prev |-> prev]
  BY <1>0
<1>2. a.book = b /\ a.kinds = {"lob"} /\ a.filter = filter /\ a.prev = prev
  BY <1>1
<1>3. /\ nb \in KrakenBooks /\ ~IsCrossed(nb)
      /\ nb.failed /\ ~b.failed => /\ data.checksum # K!None
                                   /\ K!ComputeChecksum(nb) # data.checksum[1]
  BY <1>2, KrakenProcessed
<1>4. done = K!HandleLob(a, m, now)
  BY <1>2 DEF K!HandleMessage
<1>5. done = IF c.book.resync THEN K!Silent(K!ResetLocal(c)) ELSE K!EmitLob(c, ts)
  BY <1>4, Zenon DEF K!HandleLob
<1> HIDE DEF nb, ts
<1>6. c = [kinds |-> {"lob"}, filter |-> filter, book |-> nb, prev |-> prev]
  <2>1. c = [[kinds |-> {"lob"}, filter |-> filter, book |-> b, prev |-> prev] EXCEPT !.book = nb]
    BY <1>1, Zenon
  <2> HIDE DEF c
  <2> QED BY <2>1, Replaced
<1> HIDE DEF c, done
<1>7. IsKraken(c) /\ c.book = nb /\ c.filter = filter /\ c.prev = prev
      /\ {"book", "filter", "prev"} \subseteq DOMAIN c
  BY <1>3, <1>6 DEF IsKraken
<1>8. Sent(c, v)
  BY <1>2, <1>7 DEF Sent
<1>9. CASE nb.resync
  <2> DEFINE z == K!ResetLocal(c)
  <2>1. done = [adapter |-> z, items |-> <<>>]
    BY <1>5, <1>7, <1>9 DEF K!Silent
  <2>2. IsKraken(z) /\ ~IsCrossed(z.book) /\ ~z.book.failed /\ Sent(z, v) /\ Current(z, v)
    BY <1>7, KrakenReset
  <2> HIDE DEF z
  <2>3. done.adapter = z /\ Viewed(v, done.items) = v
    BY <2>1 DEF Viewed
  <2> QED BY <2>2, <2>3 DEF done
<1>10. CASE ~nb.resync
  <2>1. done = Emitted(c, LobItemOf(c.book, c.filter, ts))
    <3>1. done = K!Emitted(c, K!LobItemOf(c.book, c.filter, ts))
      <4>1. done = K!EmitLob(c, ts)
        BY <1>5, <1>7, <1>10
      <4> QED BY <4>1, Zenon DEF K!EmitLob, K!ToLobItem
    <3> QED BY <3>1, KrakenItemIs, KrakenEmittedIs
  <2>2. /\ done.adapter = c \/ \E p : done.adapter = [c EXCEPT !.prev = p]
        /\ Sent(done.adapter, Viewed(v, done.items))
        /\ Current(done.adapter, Viewed(v, done.items))
    BY <1>7, <1>8, <2>1, EmittedFacts
  <2>3. \E p : done.adapter = [kinds |-> {"lob"}, filter |-> filter, book |-> nb, prev |-> p]
    <3>1. \/ done.adapter = [kinds |-> {"lob"}, filter |-> filter, book |-> nb, prev |-> prev]
          \/ \E p : done.adapter =
                [[kinds |-> {"lob"}, filter |-> filter, book |-> nb, prev |-> prev] EXCEPT !.prev = p]
      BY <1>6, <2>2, Zenon
    <3> QED BY <3>1, ItemReplaced
  <2>4. IsKraken(done.adapter) /\ done.adapter.book = nb
    <3>1. PICK p : done.adapter = [kinds |-> {"lob"}, filter |-> filter, book |-> nb, prev |-> p]
      BY <2>3
    <3>2. IsKraken(done.adapter)
      BY <1>1, <1>3, <3>1, Zenon DEF IsKraken
    <3> QED BY <3>1, <3>2
  <2> QED BY <1>2, <1>3, <2>2, <2>4 DEF done
<1> QED BY <1>9, <1>10

(* ---- the Bitstamp adapter ----------------------------------------------------- *)

LEMMA BitstampAppliedIs ==
    ASSUME NEW b, NEW data
    PROVE  B!ApplyOrderbook(b, data) =
              Flagged([b EXCEPT !.bids = UpsertAll(@, Parsed(data.bids)),
                                !.asks = UpsertAll(@, Parsed(data.asks))])
BY Zenon DEF B!ApplyOrderbook, B!Repaired, B!Upserted, B!IsCrossed, B!Crosses, B!Best,
     B!Max, B!Min, B!Folded, B!Upsert, B!Without, B!Insert, B!Parsed,
     B!Among, B!ToSet, B!Wiped, B!Opposite, B!EmptySide, B!None, B!Unreadable,
     Flagged, UpsertAll, IsCrossed, Crosses, Best, Max, Min, Folded, Upsert,
     Without, Insert, Parsed, Among, ToSet, Wiped, Opposite, EmptySide, None, Unreadable

LEMMA BitstampItemIs ==
    ASSUME NEW b, NEW filter, NEW ts
    PROVE  B!LobItemOf(b, filter, ts) = LobItemOf(b, filter, ts)
BY Zenon DEF B!LobItemOf, B!KeptByLevel, B!KeptByPct, B!Ascending, B!Sorted,
     B!LobItem, B!Near, B!NoLimit, B!Best, B!Max, B!Min, B!EmptySide, B!None,
     B!Cardinality, LobItemOf, KeptByLevel, KeptByPct, Ascending, Sorted, LobItem, Near,
     NoLimit, Best, Max, Min, EmptySide, None, Cardinality

LEMMA BitstampEmittedIs ==
    ASSUME NEW a, NEW lob
    PROVE  B!Emitted(a, lob) = Emitted(a, lob)
BY Zenon DEF B!Emitted, B!Repeats, B!None, Emitted, Repeats, None

BitstampBooks == [bids : SideSet, asks : SideSet, resync : BOOLEAN]

Deltas == [bids : Seq(LevelSet), asks : Seq(LevelSet), micro : Seq(Nat), seconds : Seq(Nat)]

\* apply_orderbook leaves no book crossed.
LEMMA BitstampApplied ==
    ASSUME NEW b \in BitstampBooks, NEW data \in Deltas
    PROVE  /\ B!ApplyOrderbook(b, data) \in BitstampBooks
           /\ ~IsCrossed(B!ApplyOrderbook(b, data))
<1> DEFINE x == UpsertAll(b.bids, Parsed(data.bids))
           y == UpsertAll(b.asks, Parsed(data.asks))
           c == [b EXCEPT !.bids = x, !.asks = y]
           nb == B!ApplyOrderbook(b, data)
<1>1. nb = Flagged(c)
  BY BitstampAppliedIs
<1>2. x \in SideSet /\ y \in SideSet
  <2>1. data.bids \in Seq(LevelSet) /\ data.asks \in Seq(LevelSet) /\ b.bids \in SideSet /\ b.asks \in SideSet
    BY DEF Deltas, BitstampBooks
  <2>2. Parsed(data.bids) \in Seq(Entry) /\ Parsed(data.asks) \in Seq(Entry)
    BY <2>1, ParsedTyped
  <2> QED BY <2>1, <2>2, UpsertAllTyped
<1> HIDE DEF x, y
<1>3. c \in BitstampBooks
  BY <1>2 DEF BitstampBooks
<1> HIDE DEF c, nb
<1>4. CASE IsCrossed(c)
  <2> DEFINE w == [Wiped(c) EXCEPT !.resync = TRUE]
  <2>1. nb = w
    BY <1>1, <1>4 DEF Flagged
  <2>2. w \in BitstampBooks /\ w.bids = EmptySide
    BY <1>3, EmptyIsSide DEF BitstampBooks, Wiped
  <2> HIDE DEF w
  <2> QED BY <2>1, <2>2 DEF IsCrossed, nb
<1>5. CASE ~IsCrossed(c)
  BY <1>1, <1>3, <1>5 DEF Flagged, nb
<1> QED BY <1>4, <1>5

\* The book after the deltas of the buffer.
Merged(b, us) == Folded(LAMBDA s, d : B!ApplyOrderbook(s, d), b, us)

LEMMA MergedTyped ==
    ASSUME NEW b \in BitstampBooks, ~IsCrossed(b), NEW us \in Seq(Deltas)
    PROVE  Merged(b, us) \in BitstampBooks /\ ~IsCrossed(Merged(b, us))
<1> DEFINE n == Len(us)
           Calm == {c \in BitstampBooks : ~IsCrossed(c)}
           F == [x \in Calm \X Deltas |-> B!ApplyOrderbook(x[1], x[2])]
           Is(g) == g = [i \in 0..n |-> IF i = 0 THEN b ELSE B!ApplyOrderbook(g[i - 1], us[i])]
           r == CHOOSE g : Is(g)
<1>1. Merged(b, us) = r[n]
  BY Zenon DEF Merged, Folded
<1>2. n \in Nat
  BY LenProperties
<1>3. \A i \in 1..n : us[i] \in Deltas
  BY ElementOfSeq
<1>4. F \in [Calm \X Deltas -> Calm]
  BY BitstampApplied
<1>5. \A s \in Calm, d \in Deltas : F[<<s, d>>] = B!ApplyOrderbook(s, d)
  OBVIOUS
<1> HIDE DEF F
<1>6. b \in Calm
  OBVIOUS
<1> HIDE DEF Calm
<1>7. PICK g \in [0..n -> Calm] : Runs(g, F, b, us)
  BY <1>4, <1>6, RunExists
<1>8. Is(g)
  <2> DEFINE h == [i \in 0..n |-> IF i = 0 THEN b ELSE B!ApplyOrderbook(g[i - 1], us[i])]
  <2>1. ASSUME NEW i \in 0..n PROVE g[i] = h[i]
    <3>1. CASE i = 0
      BY <1>7, <3>1 DEF Runs
    <3>2. CASE i # 0
      <4>1. i \in 1..n /\ i - 1 \in 0..n
        BY <1>2, <3>2
      <4>2. g[i - 1] \in Calm /\ us[i] \in Deltas
        BY <1>3, <1>7, <4>1
      <4>3. g[i] = F[<<g[i - 1], us[i]>>]
        BY <1>7, <4>1 DEF Runs
      <4> QED BY <1>5, <3>2, <4>1, <4>2, <4>3
    <3> QED BY <3>1, <3>2
  <2>2. g = [i \in 0..n |-> g[i]]
    BY <1>7
  <2>3. h = [i \in 0..n |-> h[i]]
    OBVIOUS
  <2> HIDE DEF h
  <2>4. g = h
    BY <2>1, <2>2, <2>3
  <2> QED BY <2>4 DEF h
<1>9. Is(r)
  BY <1>8, Zenon
<1> HIDE DEF r
<1>10. /\ r[0] = b
       /\ \A i \in 1..n : r[i] = B!ApplyOrderbook(r[i - 1], us[i])
  <2>1. 0 \in 0..n
    BY <1>2
  <2>2. \A i \in 1..n : i \in 0..n /\ i # 0
    BY <1>2
  <2> QED BY <1>9, <2>1, <2>2, Zenon
<1>11. Steps(r, F, Calm, b, us)
  BY <1>3, <1>5, <1>10 DEF Steps
<1>12. r[n] \in Calm
  <2>1. n \in 0..n
    BY <1>2
  <2> QED BY <1>4, <1>6, <1>11, <2>1, RunStays
<1> QED BY <1>1, <1>12 DEF Calm

BitstampForm(filter, delay, b, prev, buffer, awaiting, requested) ==
    [kinds |-> {"lob"}, filter |-> filter, delay |-> delay, book |-> b, prev |-> prev,
     trade_seq |-> 0, buffer |-> buffer, awaiting |-> awaiting, requested |-> requested]

BitstampFields ==
    {"kinds", "filter", "delay", "book", "prev", "trade_seq", "buffer", "awaiting", "requested"}

Cleared(a, x, y) == [a EXCEPT !.book = x, !.prev = y]

LEMMA BitstampClears ==
    ASSUME NEW f, NEW d, NEW b, NEW p, NEW u, NEW w, NEW r, NEW x, NEW y
    PROVE  Cleared(BitstampForm(f, d, b, p, u, w, r), x, y) =
               BitstampForm(f, d, x, y, u, w, r)
<1> DEFINE g == BitstampForm(f, d, b, p, u, w, r)
           h == BitstampForm(f, d, x, y, u, w, r)
<1>1. g = [i \in BitstampFields |-> g[i]] /\ h = [i \in BitstampFields |-> h[i]]
  BY DEF BitstampForm, BitstampFields
<1>2. \A i \in BitstampFields : (i = "book" => h[i] = x) /\ (i = "prev" => h[i] = y) /\ (i \notin {"book", "prev"} => h[i] = g[i])
  BY DEF BitstampForm, BitstampFields
<1> HIDE DEF g, h
<1>3. Cleared(g, x, y) = h
  BY <1>1, <1>2 DEF Cleared
<1> QED BY <1>3 DEF g, h

Awaited(a, x, y, z) == [a EXCEPT !.awaiting = x, !.requested = y, !.buffer = z]

LEMMA BitstampAwaits ==
    ASSUME NEW f, NEW d, NEW b, NEW p, NEW u, NEW w, NEW r, NEW x, NEW y, NEW z
    PROVE  Awaited(BitstampForm(f, d, b, p, u, w, r), x, y, z) =
               BitstampForm(f, d, b, p, z, x, y)
<1> DEFINE g == BitstampForm(f, d, b, p, u, w, r)
           h == BitstampForm(f, d, b, p, z, x, y)
<1>1. g = [i \in BitstampFields |-> g[i]] /\ h = [i \in BitstampFields |-> h[i]]
  BY DEF BitstampForm, BitstampFields
<1>2. \A i \in BitstampFields : (i = "awaiting" => h[i] = x) /\ (i = "requested" => h[i] = y) /\ (i = "buffer" => h[i] = z) /\ (i \notin {"awaiting", "requested", "buffer"} => h[i] = g[i])
  BY DEF BitstampForm, BitstampFields
<1> HIDE DEF g, h
<1>3. Awaited(g, x, y, z) = h
  BY <1>1, <1>2 DEF Awaited
<1> QED BY <1>3 DEF g, h

WithBuffer(a, x, y) == [a EXCEPT !.buffer = x, !.requested = y]

LEMMA BitstampBuffers ==
    ASSUME NEW f, NEW d, NEW b, NEW p, NEW u, NEW w, NEW r, NEW x, NEW y
    PROVE  WithBuffer(BitstampForm(f, d, b, p, u, w, r), x, y) =
               BitstampForm(f, d, b, p, x, w, y)
<1> DEFINE g == BitstampForm(f, d, b, p, u, w, r)
           h == BitstampForm(f, d, b, p, x, w, y)
<1>1. g = [i \in BitstampFields |-> g[i]] /\ h = [i \in BitstampFields |-> h[i]]
  BY DEF BitstampForm, BitstampFields
<1>2. \A i \in BitstampFields : (i = "buffer" => h[i] = x) /\ (i = "requested" => h[i] = y) /\ (i \notin {"buffer", "requested"} => h[i] = g[i])
  BY DEF BitstampForm, BitstampFields
<1> HIDE DEF g, h
<1>3. WithBuffer(g, x, y) = h
  BY <1>1, <1>2 DEF WithBuffer
<1> QED BY <1>3 DEF g, h

WithMerged(a, x, y, z, k) == [a EXCEPT !.book = x, !.buffer = y, !.awaiting = z, !.requested = k]

LEMMA BitstampMerges ==
    ASSUME NEW f, NEW d, NEW b, NEW p, NEW u, NEW w, NEW r, NEW x, NEW y, NEW z, NEW k
    PROVE  WithMerged(BitstampForm(f, d, b, p, u, w, r), x, y, z, k) =
               BitstampForm(f, d, x, p, y, z, k)
<1> DEFINE g == BitstampForm(f, d, b, p, u, w, r)
           h == BitstampForm(f, d, x, p, y, z, k)
<1>1. g = [i \in BitstampFields |-> g[i]] /\ h = [i \in BitstampFields |-> h[i]]
  BY DEF BitstampForm, BitstampFields
<1>2. \A i \in BitstampFields : (i = "book" => h[i] = x) /\ (i = "buffer" => h[i] = y) /\ (i = "awaiting" => h[i] = z) /\ (i = "requested" => h[i] = k) /\ (i \notin {"book", "buffer", "awaiting", "requested"} => h[i] = g[i])
  BY DEF BitstampForm, BitstampFields
<1> HIDE DEF g, h
<1>3. WithMerged(g, x, y, z, k) = h
  BY <1>1, <1>2 DEF WithMerged
<1> QED BY <1>3 DEF g, h

WithBook(a, x) == [a EXCEPT !.book = x]
WithPrev(a, x) == [a EXCEPT !.prev = x]

LEMMA BitstampReplaces ==
    ASSUME NEW f, NEW d, NEW b, NEW p, NEW u, NEW w, NEW r, NEW x
    PROVE  /\ WithBook(BitstampForm(f, d, b, p, u, w, r), x) = BitstampForm(f, d, x, p, u, w, r)
           /\ WithPrev(BitstampForm(f, d, b, p, u, w, r), x) = BitstampForm(f, d, b, x, u, w, r)
BY DEF BitstampForm, WithBook, WithPrev

IsBitstamp(a) ==
    \E filter \in Filters, delay \in Nat, b \in BitstampBooks, buffer \in Seq(Deltas),
       awaiting \in BOOLEAN, requested \in BOOLEAN : \E prev :
          a = BitstampForm(filter, delay, b, prev, buffer, awaiting, requested)

\* Nothing of the market is known or has been sent.
Fresh(a) == a.prev = None /\ a.book.bids = EmptySide /\ a.book.asks = EmptySide

LEMMA FreshFacts ==
    ASSUME NEW a, Fresh(a), NEW v
    PROVE  Sent(a, v) /\ Current(a, v) /\ ~IsCrossed(a.book)
<1>1. a.book.bids = EmptySide /\ a.prev = None
  BY DEF Fresh
<1>2. \A ts : LobItemOf(a.book, a.filter, ts) = None
  BY <1>1, NoItem
<1> QED BY <1>1, <1>2 DEF Sent, Current, IsCrossed

LEMMA BitstampReset ==
    ASSUME NEW a, IsBitstamp(a)
    PROVE  LET c == B!ResetLocal(a)
           IN /\ IsBitstamp(c) /\ Fresh(c)
              /\ c.awaiting = a.awaiting /\ c.delay = a.delay /\ c.kinds = a.kinds
<1> DEFINE c == B!ResetLocal(a)
           nb == [bids |-> EmptySide, asks |-> EmptySide, resync |-> FALSE]
<1>0. PICK filter \in Filters, delay \in Nat, b \in BitstampBooks, buffer \in Seq(Deltas),
           awaiting \in BOOLEAN, requested \in BOOLEAN : \E prev :
               a = BitstampForm(filter, delay, b, prev, buffer, awaiting, requested)
  BY DEF IsBitstamp
<1>1. PICK prev : a = BitstampForm(filter, delay, b, prev, buffer, awaiting, requested)
  BY <1>0
<1>2. B!Reset(b) = nb
  <2>1. B!EmptySide = EmptySide
    BY DEF B!EmptySide, EmptySide
  <2> QED BY <2>1 DEF B!Reset, B!NewBook
<1>3. nb \in BitstampBooks /\ nb.bids = EmptySide /\ nb.asks = EmptySide
  BY EmptyIsSide DEF BitstampBooks
<1> HIDE DEF nb
<1>4. c = BitstampForm(filter, delay, nb, None, buffer, awaiting, requested)
  <2>1. c = Cleared(a, B!Reset(a.book), None)
    BY Zenon DEF B!ResetLocal, B!None, None, Cleared
  <2>2. a.book = b
    BY <1>1 DEF BitstampForm
  <2> HIDE DEF c
  <2> QED BY <1>1, <1>2, <2>1, <2>2, BitstampClears
<1> HIDE DEF c
<1>5. IsBitstamp(c)
  BY <1>3, <1>4, Zenon DEF IsBitstamp
<1>6. /\ c.book = nb /\ c.prev = None /\ c.awaiting = awaiting /\ c.delay = delay /\ c.kinds = {"lob"}
      /\ a.awaiting = awaiting /\ a.delay = delay /\ a.kinds = {"lob"}
  BY <1>1, <1>4 DEF BitstampForm
<1> QED BY <1>3, <1>5, <1>6 DEF Fresh, c

\* on_connect and on_reconnect
LEMMA BitstampConnected ==
    ASSUME NEW a, IsBitstamp(a), a.awaiting => a.delay > 0
    PROVE  LET c == B!OnConnect(a)
           IN IsBitstamp(c) /\ Fresh(c) /\ (c.awaiting => c.delay > 0)
<1> DEFINE c == B!OnConnect(a)
           d == B!ResetLocal(a)
<1>1. IsBitstamp(d) /\ Fresh(d) /\ d.awaiting = a.awaiting /\ d.delay = a.delay /\ a.kinds = {"lob"}
  <2>1. a.kinds = {"lob"}
    BY DEF IsBitstamp, BitstampForm
  <2> QED BY <2>1, BitstampReset
<1>2. c = IF a.delay = 0 THEN d ELSE [d EXCEPT !.awaiting = TRUE, !.requested = FALSE, !.buffer = <<>>]
  BY <1>1 DEF B!OnConnect
<1> HIDE DEF d, c
<1>3. CASE a.delay = 0
  BY <1>1, <1>2, <1>3 DEF c
<1>4. CASE a.delay # 0
  <2>0. PICK filter \in Filters, delay \in Nat, b \in BitstampBooks, buffer \in Seq(Deltas),
             awaiting \in BOOLEAN, requested \in BOOLEAN : \E prev :
                 d = BitstampForm(filter, delay, b, prev, buffer, awaiting, requested)
    BY <1>1 DEF IsBitstamp
  <2>1. PICK prev : d = BitstampForm(filter, delay, b, prev, buffer, awaiting, requested)
    BY <2>0
  <2>2. c = BitstampForm(filter, delay, b, prev, <<>>, TRUE, FALSE)
    <3>1. c = Awaited(d, TRUE, FALSE, <<>>)
      BY <1>2, <1>4 DEF Awaited
    <3>2. \A x, y : Awaited(d, x, y, <<>>) = BitstampForm(filter, delay, b, prev, <<>>, x, y)
      BY <2>1, BitstampAwaits
    <3>3. Awaited(d, TRUE, FALSE, <<>>) = BitstampForm(filter, delay, b, prev, <<>>, TRUE, FALSE)
      BY <3>2, Zenon
    <3> QED BY <3>1, <3>3
  <2>3. <<>> \in Seq(Deltas) /\ TRUE \in BOOLEAN /\ FALSE \in BOOLEAN
    OBVIOUS
  <2>4. IsBitstamp(c)
    BY <2>2, <2>3, Zenon DEF IsBitstamp
  <2>5. c.book = d.book /\ c.prev = d.prev /\ c.delay = delay /\ d.delay = delay
    BY <2>1, <2>2 DEF BitstampForm
  <2>6. c.delay > 0
    BY <1>1, <1>4, <2>5
  <2> QED BY <1>1, <2>4, <2>5, <2>6 DEF Fresh, c
<1> QED BY <1>3, <1>4

LEMMA BitstampFields2 ==
    ASSUME NEW f, NEW d, NEW b, NEW p, NEW u, NEW w, NEW r, NEW a,
           a = BitstampForm(f, d, b, p, u, w, r)
    PROVE  /\ a.kinds = {"lob"} /\ a.filter = f /\ a.delay = d /\ a.book = b /\ a.prev = p
           /\ a.buffer = u /\ a.awaiting = w /\ a.requested = r
           /\ {"book", "filter", "prev"} \subseteq DOMAIN a
BY DEF BitstampForm

LEMMA BitstampHandled ==
    ASSUME NEW a, IsBitstamp(a), a.awaiting => a.delay > 0 /\ Fresh(a), ~IsCrossed(a.book),
           NEW v, Sent(a, v), NEW now, NEW m, NEW data \in Deltas, m.data = <<data>>,
           B!MessageType(m) = "L2Update"
    PROVE  LET done == B!HandleMessage(a, m, now)
           IN /\ IsBitstamp(done.adapter) /\ ~IsCrossed(done.adapter.book)
              /\ Sent(done.adapter, Viewed(v, done.items))
              /\ Current(done.adapter, Viewed(v, done.items))
              /\ done.adapter.awaiting => done.adapter.delay > 0 /\ Fresh(done.adapter)
<1> DEFINE done == B!HandleMessage(a, m, now)
           nb == B!ProcessMsg(a.book, m)
           c == [a EXCEPT !.book = nb]
           ts == IF B!TimestampMs(m) = B!None THEN now ELSE B!TimestampMs(m)[1]
<1>0. PICK filter \in Filters, delay \in Nat, b \in BitstampBooks, buffer \in Seq(Deltas),
           awaiting \in BOOLEAN, requested \in BOOLEAN : \E prev :
               a = BitstampForm(filter, delay, b, prev, buffer, awaiting, requested)
  BY DEF IsBitstamp
<1>1. PICK prev : a = BitstampForm(filter, delay, b, prev, buffer, awaiting, requested)
  BY <1>0
<1>2. /\ a.kinds = {"lob"} /\ a.filter = filter /\ a.delay = delay /\ a.book = b /\ a.prev = prev
      /\ a.buffer = buffer /\ (a.awaiting <=> awaiting) /\ (a.requested <=> requested)
  BY <1>1, BitstampFields2
<1>3. nb \in BitstampBooks /\ ~IsCrossed(nb)
  <2>1. m.data # B!None /\ m.data[1] = data
    BY DEF B!None
  <2>2. nb = B!ApplyOrderbook(b, data)
    BY <1>2, <2>1, Zenon DEF B!ProcessMsg
  <2> QED BY <2>2, BitstampApplied
<1>4. done = B!HandleLob(a, m, now)
  <2>1. B!MessageType(m) \in {"L2Snapshot", "L2Update"} /\ "lob" \in a.kinds
    BY <1>2
  <2> QED BY <2>1, Zenon DEF B!HandleMessage
<1>5. done = IF a.awaiting /\ a.delay > 0 THEN B!Silent(B!Buffered(a, m))
             ELSE IF c.book.resync THEN B!Silent(B!ResetLocal(c)) ELSE B!EmitLob(c, ts)
  BY <1>4, Zenon DEF B!HandleLob
<1> HIDE DEF nb, ts
<1>6. c = BitstampForm(filter, delay, nb, prev, buffer, awaiting, requested)
  <2>1. c = WithBook(a, nb)
    BY DEF WithBook
  <2> HIDE DEF c
  <2> QED BY <1>1, <2>1, BitstampReplaces
<1> HIDE DEF c, done
<1>7. IsBitstamp(c)
  BY <1>3, <1>6, Zenon DEF IsBitstamp
<1>8. /\ c.book = nb /\ c.filter = filter /\ c.prev = prev /\ (c.awaiting <=> awaiting)
      /\ {"book", "filter", "prev"} \subseteq DOMAIN c
  BY <1>6, BitstampFields2
<1>9. CASE a.awaiting
  <2> DEFINE x == a.buffer \o m.data
             y == a.requested \/ Len(x) >= a.delay
             z == B!Buffered(a, m)
  <2>1. done = [adapter |-> z, items |-> <<>>]
    BY <1>5, <1>9, Zenon DEF B!Silent
  <2>2. z = WithBuffer(a, x, y)
    BY Zenon DEF B!Buffered, WithBuffer
  <2>3. x \in Seq(Deltas) /\ y \in BOOLEAN
    BY <1>2
  <2> HIDE DEF x, y, z
  <2>4. z = BitstampForm(filter, delay, b, prev, x, awaiting, y)
    <3>1. WithBuffer(BitstampForm(filter, delay, b, prev, buffer, awaiting, requested), x, y) =
             BitstampForm(filter, delay, b, prev, x, awaiting, y)
      BY BitstampBuffers
    <3> QED BY <1>1, <2>2, <3>1, Zenon
  <2>5. IsBitstamp(z)
    BY <2>3, <2>4, Zenon DEF IsBitstamp
  <2>6. z.book = a.book /\ z.prev = a.prev /\ z.delay = a.delay
    BY <1>2, <2>4, BitstampFields2
  <2>7. Fresh(z) /\ z.delay > 0
    BY <1>9, <2>6 DEF Fresh
  <2>8. Sent(z, v) /\ Current(z, v) /\ ~IsCrossed(z.book)
    BY <2>7, FreshFacts
  <2>9. done.adapter = z /\ Viewed(v, done.items) = v
    BY <2>1 DEF Viewed
  <2> QED BY <2>5, <2>7, <2>8, <2>9 DEF done
<1>10. CASE ~a.awaiting /\ nb.resync
  <2> DEFINE z == B!ResetLocal(c)
  <2>1. done = [adapter |-> z, items |-> <<>>]
    <3>1. c.book.resync /\ ~a.awaiting
      BY <1>8, <1>10
    <3> QED BY <1>5, <3>1, Zenon DEF B!Silent
  <2>2. IsBitstamp(z) /\ Fresh(z) /\ ~z.awaiting
    BY <1>2, <1>7, <1>8, <1>10, BitstampReset
  <2>3. Sent(z, v) /\ Current(z, v) /\ ~IsCrossed(z.book)
    BY <2>2, FreshFacts
  <2> HIDE DEF z
  <2>4. done.adapter = z /\ Viewed(v, done.items) = v
    BY <2>1 DEF Viewed
  <2> QED BY <2>2, <2>3, <2>4 DEF done
<1>11. CASE ~a.awaiting /\ ~nb.resync
  <2>1. done = Emitted(c, LobItemOf(c.book, c.filter, ts))
    <3>1. done = B!Emitted(c, B!LobItemOf(c.book, c.filter, ts))
      <4>1. done = B!EmitLob(c, ts)
        BY <1>5, <1>8, <1>11
      <4> QED BY <4>1, Zenon DEF B!EmitLob, B!ToLobItem
    <3> QED BY <3>1, BitstampItemIs, BitstampEmittedIs
  <2>2. Sent(c, v)
    BY <1>2, <1>8 DEF Sent
  <2>3. /\ done.adapter = c \/ \E p : done.adapter = [c EXCEPT !.prev = p]
        /\ Sent(done.adapter, Viewed(v, done.items))
        /\ Current(done.adapter, Viewed(v, done.items))
    BY <1>8, <2>1, <2>2, EmittedFacts
  <2>4. \E p : done.adapter = BitstampForm(filter, delay, nb, p, buffer, awaiting, requested)
    <3>1. done.adapter = c \/ \E p : done.adapter = WithPrev(c, p)
      BY <2>3, Zenon DEF WithPrev
    <3> DEFINE old == BitstampForm(filter, delay, nb, prev, buffer, awaiting, requested)
    <3>2. done.adapter = old \/ \E p : done.adapter = WithPrev(old, p)
      BY <1>6, <3>1, Zenon
    <3>3. \A p : WithPrev(old, p) = BitstampForm(filter, delay, nb, p, buffer, awaiting, requested)
      BY BitstampReplaces
    <3> QED BY <3>2, <3>3, Zenon
  <2>5. PICK p : done.adapter = BitstampForm(filter, delay, nb, p, buffer, awaiting, requested)
    BY <2>4
  <2>6. IsBitstamp(done.adapter)
    BY <1>3, <2>5, Zenon DEF IsBitstamp
  <2>7. done.adapter.book = nb /\ (done.adapter.awaiting <=> awaiting)
    BY <2>5, BitstampFields2
  <2> QED BY <1>2, <1>3, <1>11, <2>3, <2>6, <2>7 DEF done
<1> QED BY <1>9, <1>10, <1>11

\* fetch_snapshot: the adapter stays as it is.
LEMMA BitstampFetched ==
    ASSUME NEW a, NEW data, NEW now
    PROVE  B!FetchSnapshot(a, data, now).adapter = a
BY DEF B!FetchSnapshot

\* fetch_snapshot_and_merge
LEMMA BitstampMerged ==
    ASSUME NEW a, IsBitstamp(a), a.awaiting => Fresh(a), ~IsCrossed(a.book),
           NEW v, Sent(a, v), Current(a, v), NEW now, NEW data \in Deltas
    PROVE  LET done == B!FetchSnapshotAndMerge(a, data, now)
           IN /\ IsBitstamp(done.adapter) /\ ~IsCrossed(done.adapter.book)
              /\ Sent(done.adapter, Viewed(v, done.items))
              /\ Current(done.adapter, Viewed(v, done.items))
              /\ ~done.adapter.awaiting
<1> DEFINE done == B!FetchSnapshotAndMerge(a, data, now)
           first == B!ApplyOrderbook(a.book, data)
           us == B!Relevant(a, data)
           nb == Merged(first, us)
           ts == B!SnapshotMs(data, now)
           c == [a EXCEPT !.book = nb, !.buffer = <<>>, !.awaiting = FALSE, !.requested = FALSE]
<1>0. PICK filter \in Filters, delay \in Nat, b \in BitstampBooks, buffer \in Seq(Deltas),
           awaiting \in BOOLEAN, requested \in BOOLEAN : \E prev :
               a = BitstampForm(filter, delay, b, prev, buffer, awaiting, requested)
  BY DEF IsBitstamp
<1>1. PICK prev : a = BitstampForm(filter, delay, b, prev, buffer, awaiting, requested)
  BY <1>0
<1>2. /\ a.filter = filter /\ a.delay = delay /\ a.book = b /\ a.prev = prev
      /\ a.buffer = buffer /\ (a.awaiting <=> awaiting)
  BY <1>1, BitstampFields2
<1>3. CASE ~a.awaiting
  <2>1. done = [adapter |-> a, items |-> <<>>]
    BY <1>3, Zenon DEF B!FetchSnapshotAndMerge, B!Silent
  <2> HIDE DEF done
  <2>2. done.adapter = a /\ Viewed(v, done.items) = v
    BY <2>1 DEF Viewed
  <2> QED BY <1>3, <2>2 DEF done
<1>4. CASE a.awaiting
  <2>1. us \in Seq(Deltas)
    <3>1. CASE data.micro = B!None
      BY <1>2, <3>1 DEF B!Relevant
    <3>2. CASE data.micro # B!None
      <4> DEFINE S == {d \in ToSet(a.buffer) : d.micro # B!None /\ d.micro[1] >= data.micro[1]}
      <4>1. us = Among(buffer, S)
        <5>1. us = B!Among(a.buffer, {d \in B!ToSet(a.buffer) :
                                          d.micro # B!None /\ d.micro[1] >= data.micro[1]})
          BY <3>2, Zenon DEF B!Relevant
        <5>2. us = Among(a.buffer, S)
          BY <5>1, Zenon DEF B!Among, B!Folded, B!ToSet, Among, Folded, ToSet
        <5> QED BY <1>2, <5>2
      <4> HIDE DEF S
      <4> QED BY <4>1, AmongPicks
    <3> QED BY <3>1, <3>2
  <2>2. first \in BitstampBooks /\ ~IsCrossed(first)
    BY <1>2, BitstampApplied
  <2>3. done = [adapter |-> c, items |-> LobItemOf(nb, a.filter, ts)]
    <3>1. \A x : B!ToLobItem(x, a.filter, ts) = LobItemOf(x, a.filter, ts)
      BY BitstampItemIs DEF B!ToLobItem
    <3>2. done = [adapter |-> c, items |-> B!ToLobItem(nb, a.filter, ts)]
      BY <1>4, Zenon DEF B!FetchSnapshotAndMerge, B!Folded, Merged, Folded
    <3> QED BY <3>1, <3>2, Zenon
  <2> HIDE DEF us, first
  <2>4. nb \in BitstampBooks /\ ~IsCrossed(nb)
    BY <2>1, <2>2, MergedTyped
  <2> HIDE DEF nb, ts
  <2>5. c = WithMerged(a, nb, <<>>, FALSE, FALSE)
    BY Zenon DEF WithMerged
  <2> HIDE DEF c, done
  <2>6. c = BitstampForm(filter, delay, nb, prev, <<>>, FALSE, FALSE)
    <3>1. \A x, y : WithMerged(a, nb, <<>>, x, y) = BitstampForm(filter, delay, nb, prev, <<>>, x, y)
      BY <1>1, BitstampMerges
    <3>2. WithMerged(a, nb, <<>>, FALSE, FALSE) = BitstampForm(filter, delay, nb, prev, <<>>, FALSE, FALSE)
      BY <3>1, Zenon
    <3> QED BY <2>5, <3>2
  <2>7. <<>> \in Seq(Deltas) /\ FALSE \in BOOLEAN
    OBVIOUS
  <2>8. IsBitstamp(c)
    BY <2>4, <2>6, <2>7, Zenon DEF IsBitstamp
  <2>9. c.book = nb /\ c.filter = filter /\ c.prev = prev /\ ~c.awaiting
    BY <2>6 DEF BitstampForm
  <2>10. prev = None
    BY <1>2, <1>4 DEF Fresh
  <2> DEFINE next == Viewed(v, done.items)
             item == LobItemOf(nb, filter, ts)
  <2>11. done.adapter = c /\ done.items = item
    BY <1>2, <2>3
  <2>12. item # None => next # None /\ next[1].bids = item[1].bids /\ next[1].asks = item[1].asks
    <3>1. item # None => item = <<item[1]>>
      BY ItemsOfOneBook
    <3> HIDE DEF item
    <3>2. ASSUME item # None PROVE next # None /\ next[1] = item[1]
      <4> DEFINE x == item[1]
      <4>1. item = <<x>>
        BY <3>1, <3>2
      <4> HIDE DEF x
      <4>2. Last(item) = x /\ item # <<>>
        BY <4>1 DEF Last
      <4>3. next = <<x>>
        BY <2>11, <4>2 DEF Viewed
      <4> HIDE DEF next
      <4> QED BY <4>3 DEF x, None
    <3> QED BY <3>2
  <2>13. \A s : LET y == LobItemOf(nb, filter, s)
                IN y # None => item # None /\ item[1].bids = y[1].bids /\ item[1].asks = y[1].asks
    BY ItemsOfOneBook
  <2> HIDE DEF item, next
  <2>14. Sent(c, next)
    BY <2>9, <2>10 DEF Sent
  <2>15. Current(c, next)
    <3> SUFFICES ASSUME NEW s, LobItemOf(nb, filter, s) # None
                 PROVE  /\ next # None
                        /\ next[1].bids = LobItemOf(nb, filter, s)[1].bids
                        /\ next[1].asks = LobItemOf(nb, filter, s)[1].asks
      BY <2>9 DEF Current
    <3> QED BY <2>12, <2>13
  <2> QED BY <2>4, <2>8, <2>9, <2>11, <2>14, <2>15 DEF done, next
<1> QED BY <1>3, <1>4

(* ---- the Bitvavo adapter ------------------------------------------------------ *)

LEMMA BitvavoUpsertedIs ==
    ASSUME NEW levels, NEW data
    PROVE  V!Upserted(levels, data) = UpsertAll(levels, Parsed(data))
BY Zenon DEF V!Upserted, V!Folded, V!Upsert, V!Without, V!Insert, V!Parsed, V!Among,
     V!ToSet, V!Unreadable, UpsertAll, Folded, Upsert, Without, Insert, Parsed, Among, ToSet,
     Unreadable

LEMMA BitvavoFilledIs ==
    ASSUME NEW levels
    PROVE  V!Filled(levels) = Filled(levels)
BY Zenon DEF V!Filled, V!Folded, V!Insert, V!Parsed, V!Among, V!ToSet, V!EmptySide,
     V!Unreadable, Filled, Folded, Insert, Parsed, Among, ToSet, EmptySide, Unreadable

LEMMA BitvavoItemIs ==
    ASSUME NEW b, NEW filter, NEW ts
    PROVE  V!LobItemOf(b, filter, ts) = LobItemOf(b, filter, ts)
BY Zenon DEF V!LobItemOf, V!KeptByLevel, V!KeptByPct, V!Ascending, V!Sorted,
     V!LobItem, V!Near, V!NoLimit, V!Best, V!Max, V!Min, V!EmptySide, V!None,
     V!Cardinality, LobItemOf, KeptByLevel, KeptByPct, Ascending, Sorted, LobItem, Near,
     NoLimit, Best, Max, Min, EmptySide, None, Cardinality

LEMMA BitvavoEmittedIs ==
    ASSUME NEW a, NEW lob
    PROVE  V!Emitted(a, lob) = Emitted(a, lob)
BY Zenon DEF V!Emitted, V!Repeats, V!None, Emitted, Repeats, None

Updates == [bids : Seq(LevelSet), asks : Seq(LevelSet), from : Nat, to : Nat]

BitvavoBooks == [bids : SideSet, asks : SideSet, last : Seq(Nat), pending : Seq(Updates)]

LEMMA BitvavoUpdated ==
    ASSUME NEW b \in BitvavoBooks, NEW u \in Updates
    PROVE  V!ApplyUpdate(b, u) \in BitvavoBooks
<1> DEFINE x == V!Upserted(b.bids, u.bids)
           y == V!Upserted(b.asks, u.asks)
           nb == V!ApplyUpdate(b, u)
<1>1. x \in SideSet /\ y \in SideSet
  <2>1. u.bids \in Seq(LevelSet) /\ u.asks \in Seq(LevelSet) /\ b.bids \in SideSet /\ b.asks \in SideSet
    BY DEF Updates, BitvavoBooks
  <2>2. Parsed(u.bids) \in Seq(Entry) /\ Parsed(u.asks) \in Seq(Entry)
    BY <2>1, ParsedTyped
  <2> QED BY <2>1, <2>2, UpsertAllTyped, BitvavoUpsertedIs
<1>2. \/ nb = [b EXCEPT !.pending = Append(b.pending, u)]
      \/ nb = b
      \/ nb = [b EXCEPT !.bids = x, !.asks = y, !.last = <<u.to>>]
  BY Zenon DEF V!ApplyUpdate
<1> HIDE DEF x, y, nb
<1>3. Append(b.pending, u) \in Seq(Updates)
  BY DEF BitvavoBooks
<1>4. <<u.to>> \in Seq(Nat)
  BY DEF Updates
<1>5. [b EXCEPT !.pending = Append(b.pending, u)] \in BitvavoBooks
  BY <1>3 DEF BitvavoBooks
<1>6. [b EXCEPT !.bids = x, !.asks = y, !.last = <<u.to>>] \in BitvavoBooks
  BY <1>1, <1>4 DEF BitvavoBooks
<1> QED BY <1>2, <1>5, <1>6 DEF nb

\* The book after the updates kept for it.
Drained(b, us) == Folded(LAMBDA s, u : V!ApplyUpdate(s, u), b, us)

LEMMA DrainedTyped ==
    ASSUME NEW b \in BitvavoBooks, NEW us \in Seq(Updates)
    PROVE  Drained(b, us) \in BitvavoBooks
<1> DEFINE n == Len(us)
           F == [x \in BitvavoBooks \X Updates |-> V!ApplyUpdate(x[1], x[2])]
           Is(g) == g = [i \in 0..n |-> IF i = 0 THEN b ELSE V!ApplyUpdate(g[i - 1], us[i])]
           r == CHOOSE g : Is(g)
<1>1. Drained(b, us) = r[n]
  BY Zenon DEF Drained, Folded
<1>2. n \in Nat
  BY LenProperties
<1>3. \A i \in 1..n : us[i] \in Updates
  BY ElementOfSeq
<1>4. F \in [BitvavoBooks \X Updates -> BitvavoBooks]
  BY BitvavoUpdated
<1>5. \A s \in BitvavoBooks, u \in Updates : F[<<s, u>>] = V!ApplyUpdate(s, u)
  OBVIOUS
<1> HIDE DEF F
<1>7. PICK g \in [0..n -> BitvavoBooks] : Runs(g, F, b, us)
  BY <1>4, RunExists
<1>8. Is(g)
  <2> DEFINE h == [i \in 0..n |-> IF i = 0 THEN b ELSE V!ApplyUpdate(g[i - 1], us[i])]
  <2>1. ASSUME NEW i \in 0..n PROVE g[i] = h[i]
    <3>1. CASE i = 0
      BY <1>7, <3>1 DEF Runs
    <3>2. CASE i # 0
      <4>1. i \in 1..n /\ i - 1 \in 0..n
        BY <1>2, <3>2
      <4>2. g[i - 1] \in BitvavoBooks /\ us[i] \in Updates
        BY <1>3, <1>7, <4>1
      <4>3. g[i] = F[<<g[i - 1], us[i]>>]
        BY <1>7, <4>1 DEF Runs
      <4> QED BY <1>5, <3>2, <4>1, <4>2, <4>3
    <3> QED BY <3>1, <3>2
  <2>2. g = [i \in 0..n |-> g[i]]
    BY <1>7
  <2>3. h = [i \in 0..n |-> h[i]]
    OBVIOUS
  <2> HIDE DEF h
  <2>4. g = h
    BY <2>1, <2>2, <2>3
  <2> QED BY <2>4 DEF h
<1>9. Is(r)
  BY <1>8, Zenon
<1> HIDE DEF r
<1>10. /\ r[0] = b
       /\ \A i \in 1..n : r[i] = V!ApplyUpdate(r[i - 1], us[i])
  <2>1. 0 \in 0..n
    BY <1>2
  <2>2. \A i \in 1..n : i \in 0..n /\ i # 0
    BY <1>2
  <2> QED BY <1>9, <2>1, <2>2, Zenon
<1>11. Steps(r, F, BitvavoBooks, b, us)
  BY <1>3, <1>5, <1>10 DEF Steps
<1>12. r[n] \in BitvavoBooks
  <2>1. n \in 0..n
    BY <1>2
  <2> QED BY <1>4, <1>11, <2>1, RunStays
<1> QED BY <1>1, <1>12

BitvavoForm(filter, b, prev) ==
    [kinds |-> {"lob"}, filter |-> filter, book |-> b, prev |-> prev, trade_seq |-> 0]

IsBitvavo(a) == \E filter \in Filters, b \in BitvavoBooks : \E prev : a = BitvavoForm(filter, b, prev)

LEMMA BitvavoFields ==
    ASSUME NEW f, NEW b, NEW p, NEW x
    PROVE  /\ WithBook(BitvavoForm(f, b, p), x) = BitvavoForm(f, x, p)
           /\ WithPrev(BitvavoForm(f, b, p), x) = BitvavoForm(f, b, x)
BY DEF BitvavoForm, WithBook, WithPrev

\* The item of the new book is sent, or it is the last one.
LEMMA BitvavoEmits ==
    ASSUME NEW a, IsBitvavo(a), NEW v, Sent(a, v), NEW nb \in BitvavoBooks, NEW ts
    PROVE  LET done == V!EmitLob([a EXCEPT !.book = nb], ts)
           IN /\ IsBitvavo(done.adapter)
              /\ Sent(done.adapter, Viewed(v, done.items))
              /\ Current(done.adapter, Viewed(v, done.items))
<1> DEFINE c == [a EXCEPT !.book = nb]
           done == V!EmitLob(c, ts)
<1>0. PICK filter \in Filters, b \in BitvavoBooks : \E prev : a = BitvavoForm(filter, b, prev)
  BY DEF IsBitvavo
<1>1. PICK prev : a = BitvavoForm(filter, b, prev)
  BY <1>0
<1>2. c = BitvavoForm(filter, nb, prev)
  <2>1. c = WithBook(a, nb)
    BY DEF WithBook
  <2> HIDE DEF c
  <2> QED BY <1>1, <2>1, BitvavoFields
<1>3. done = Emitted(c, LobItemOf(c.book, c.filter, ts))
  <2>1. done = V!Emitted(c, V!LobItemOf(c.book, c.filter, ts))
    BY Zenon DEF V!EmitLob, V!ToLobItem
  <2> QED BY <2>1, BitvavoItemIs, BitvavoEmittedIs
<1> HIDE DEF c, done
<1>4. {"book", "filter", "prev"} \subseteq DOMAIN c /\ c.prev = a.prev
  BY <1>1, <1>2 DEF BitvavoForm
<1>5. Sent(c, v)
  BY <1>4 DEF Sent
<1>6. /\ done.adapter = c \/ \E p : done.adapter = [c EXCEPT !.prev = p]
      /\ Sent(done.adapter, Viewed(v, done.items))
      /\ Current(done.adapter, Viewed(v, done.items))
  <2> DEFINE sent == Emitted(c, LobItemOf(c.book, c.filter, ts))
  <2>1. /\ sent.adapter = c \/ \E p : sent.adapter = [c EXCEPT !.prev = p]
        /\ Sent(sent.adapter, Viewed(v, sent.items))
        /\ Current(sent.adapter, Viewed(v, sent.items))
    BY <1>4, <1>5, EmittedFacts
  <2> QED BY <1>3, <2>1, Zenon
<1>7. PICK p : done.adapter = BitvavoForm(filter, nb, p)
  <2>1. done.adapter = c \/ \E x : done.adapter = WithPrev(c, x)
    BY <1>6, Zenon DEF WithPrev
  <2> DEFINE old == BitvavoForm(filter, nb, prev)
  <2>2. done.adapter = old \/ \E x : done.adapter = WithPrev(old, x)
    BY <1>2, <2>1, Zenon
  <2>3. \A x : WithPrev(old, x) = BitvavoForm(filter, nb, x)
    BY BitvavoFields
  <2> QED BY <2>2, <2>3, Zenon
<1>8. IsBitvavo(done.adapter)
  BY <1>7, Zenon DEF IsBitvavo
<1> QED BY <1>6, <1>8 DEF done, c

LEMMA BitvavoSnapshotHandled ==
    ASSUME NEW a, IsBitvavo(a), NEW v, Sent(a, v), NEW now, NEW m, NEW snap, m.response = <<snap>>,
           snap.bids \in Seq(LevelSet), snap.asks \in Seq(LevelSet), snap.mdseqno \in Nat
    PROVE  LET done == V!HandleSnapshot(a, m, now)
           IN /\ IsBitvavo(done.adapter)
              /\ Sent(done.adapter, Viewed(v, done.items))
              /\ Current(done.adapter, Viewed(v, done.items))
<1> DEFINE nb == V!DrainPending(V!ApplySnapshot(a.book, snap))
           ts == V!TsMs(snap.timestamp, now)
<1>1. m.response # V!None /\ m.response[1] = snap
  BY DEF V!None
<1>2. V!HandleSnapshot(a, m, now) = V!EmitLob([a EXCEPT !.book = nb], ts)
  BY <1>1, Zenon DEF V!HandleSnapshot
<1>3. nb \in BitvavoBooks
  <2> DEFINE x == V!Filled(snap.bids)
             y == V!Filled(snap.asks)
             c == V!ApplySnapshot(a.book, snap)
             d == [c EXCEPT !.pending = <<>>]
  <2>1. a.book \in BitvavoBooks
    BY DEF IsBitvavo, BitvavoForm
  <2>2. x \in SideSet /\ y \in SideSet
    BY BitvavoFilledIs, FilledTyped
  <2>3. c = [a.book EXCEPT !.bids = x, !.asks = y, !.last = <<snap.mdseqno>>]
    BY Zenon DEF V!ApplySnapshot
  <2> HIDE DEF x, y, c
  <2>4. <<snap.mdseqno>> \in Seq(Nat)
    OBVIOUS
  <2>5. c \in BitvavoBooks
    BY <2>1, <2>2, <2>3, <2>4 DEF BitvavoBooks
  <2>6. d \in BitvavoBooks /\ c.pending \in Seq(Updates)
    <3>1. <<>> \in Seq(Updates)
      OBVIOUS
    <3>2. c.pending \in Seq(Updates)
      BY <2>5 DEF BitvavoBooks
    <3> DEFINE S == Seq(Updates)
    <3>3. c \in [bids : SideSet, asks : SideSet, last : Seq(Nat), pending : S]
      BY <2>5 DEF BitvavoBooks
    <3> HIDE DEF S
    <3>4. <<>> \in S
      BY <3>1 DEF S
    <3>5. d \in [bids : SideSet, asks : SideSet, last : Seq(Nat), pending : S]
      BY <3>3, <3>4
    <3> QED BY <3>2, <3>5 DEF S, BitvavoBooks
  <2>7. nb = Drained(d, c.pending)
    BY Zenon DEF c, V!DrainPending, V!Folded, Drained, Folded
  <2> HIDE DEF d, nb
  <2> QED BY <2>6, <2>7, DrainedTyped
<1> HIDE DEF nb, ts
<1> QED BY <1>2, <1>3, BitvavoEmits

LEMMA BitvavoUpdateHandled ==
    ASSUME NEW a, IsBitvavo(a), NEW v, Sent(a, v), NEW now, NEW m, V!BookUpdate(m) \in Updates
    PROVE  LET done == V!HandleUpdate(a, m, now)
           IN /\ IsBitvavo(done.adapter)
              /\ Sent(done.adapter, Viewed(v, done.items))
              /\ Current(done.adapter, Viewed(v, done.items))
<1> DEFINE nb == V!ApplyUpdate(a.book, V!BookUpdate(m))
           ts == V!TsMs(m.timestamp, now)
<1>1. V!HandleUpdate(a, m, now) = V!EmitLob([a EXCEPT !.book = nb], ts)
  BY Zenon DEF V!HandleUpdate
<1>2. a.book \in BitvavoBooks
  BY DEF IsBitvavo, BitvavoForm
<1>3. nb \in BitvavoBooks
  BY <1>2, BitvavoUpdated
<1> HIDE DEF nb, ts
<1> QED BY <1>1, <1>3, BitvavoEmits

(* ---- the exchange ----------------------------------------------------------- *)

\* A book both sides of which have prices above 0.
Depths == [Sides -> SideSet]

LEMMA DepthIsBook ==
    ASSUME NEW d \in Depths
    PROVE  IsBook(d) /\ d["bids"] \in SideSet /\ d["asks"] \in SideSet
BY DEF Depths, Sides, IsBook

LEMMA LevelsTyped ==
    ASSUME NEW d \in Depths, NEW side \in Sides
    PROVE  Ascending(d[side]) \in Seq(LevelSet)
<1> DEFINE a == Ascending(d[side])
<1>1. d[side] \in SideSet
  BY DEF Depths
<1>2. Shows(a, DOMAIN d[side], d[side])
  BY <1>1, AscendingShows
<1>3. a \in Seq(Level) /\ \A i \in 1..Len(a) : a[i] \in Level /\ a[i].price \in DOMAIN d[side]
  <2> DEFINE levels == d[side]
             W == DOMAIN levels
  <2> HIDE DEF levels, W, a
  <2>1. Shows(a, W, levels)
    BY <1>2 DEF W, levels
  <2>2. a \in Seq(Level)
    BY <2>1 DEF Shows
  <2>3. \A i \in 1..Len(a) : a[i] \in Level /\ a[i].price \in W
    BY <2>1, ShowsFacts
  <2> QED BY <2>2, <2>3 DEF W, levels
<1>4. \A p \in DOMAIN d[side] : p \in Nat \ {0}
  BY <1>1, SideFacts
<1> HIDE DEF a
<1>5. \A i \in 1..Len(a) : a[i] \in LevelSet
  BY <1>3, <1>4 DEF Level, LevelSet
<1>6. a \in Seq(LevelSet)
  BY <1>3, <1>5
<1> QED BY <1>6 DEF a

LEMMA TopTyped ==
    ASSUME NEW d \in Depths, NEW side \in Sides, NEW n \in Nat
    PROVE  TopLevels(d, side, n) \in Seq(LevelSet)
<1> DEFINE bids == Ascending(d["bids"])
           asks == Ascending(d["asks"])
           s == BestFirst(d, side)
           k == IF n < Len(s) THEN n ELSE Len(s)
<1>1. bids \in Seq(LevelSet) /\ asks \in Seq(LevelSet)
  BY LevelsTyped DEF Sides
<1>2. s = IF side = "bids" THEN Reverse(bids) ELSE asks
  BY DEF BestFirst
<1> HIDE DEF bids, asks, s
<1>3. s \in Seq(LevelSet)
  BY <1>1, <1>2, ReverseFacts
<1>4. TopLevels(d, side, n) = SubSeq(s, 1, k)
  BY DEF s, TopLevels, Take
<1>5. k \in 0..Len(s) /\ Len(s) \in Nat
  BY <1>3
<1> HIDE DEF k
<1>6. SubSeq(s, 1, k) \in Seq(LevelSet)
  <2>1. \A i \in 1..k : i \in 1..Len(s)
    BY <1>5
  <2> QED BY <1>3, <1>5, <2>1, SubSeqProperties
<1> QED BY <1>4, <1>6

\* The levels changed since the last update.
TouchedSets == {t \in SUBSET [side : Sides, price : Nat \ {0}] : IsFiniteSet(t)}

LEMMA ChangesTyped ==
    ASSUME depth \in Depths, touched \in TouchedSets, NEW side \in Sides
    PROVE  Changes(side) \in Seq(LevelSet)
<1> DEFINE T == {l \in touched : l.side = side}
           W == {l.price : l \in T}
           prices == Sorted(W)
           c == [i \in DOMAIN prices |->
                    [price |-> prices[i],
                     size |-> IF prices[i] \in DOMAIN depth[side] THEN depth[side][prices[i]] ELSE 0]]
<1>1. Changes(side) = c
  BY Zenon DEF Changes
<1>2. IsFiniteSet(T) /\ \A l \in T : l.price \in Nat \ {0}
  BY FS_Subset DEF TouchedSets
<1>3. IsFiniteSet(W) /\ W \in SUBSET (Nat \ {0})
  <2> DEFINE f == [l \in T |-> l.price]
  <2>1. f \in [T -> W] /\ \A p \in W : \E l \in T : f[l] = p
    OBVIOUS
  <2>2. W \in SUBSET (Nat \ {0})
    BY <1>2
  <2> HIDE DEF f, T, W
  <2>3. IsFiniteSet(W)
    BY <1>2, <2>1, FS_Surjection DEF Surjection
  <2> QED BY <2>2, <2>3
<1> HIDE DEF T, W
<1>4. Lists(prices, Cardinality(W), W)
  BY <1>3, SortedLists
<1> DEFINE n == Cardinality(W)
<1> HIDE DEF prices, n
<1>5. n \in Nat /\ prices \in [1..n -> W]
  BY <1>4 DEF Lists, n
<1>6. \A p \in DOMAIN depth[side] : depth[side][p] \in Nat
  <2>1. depth[side] \in SideSet
    BY DEF Depths
  <2> QED BY <2>1, SideFacts
<1>7. \A i \in 1..n : c[i] \in LevelSet
  BY <1>3, <1>5, <1>6 DEF LevelSet
<1>8. c \in [1..n -> LevelSet]
  <2>1. DOMAIN c = 1..n /\ c = [i \in 1..n |-> c[i]]
    BY <1>5
  <2> HIDE DEF c
  <2> QED BY <1>7, <2>1
<1> HIDE DEF c
<1> QED BY <1>1, <1>5, <1>8

(* ---- the messages -------------------------------------------------------------- *)

Same(b, d) == b.bids = d.bids /\ b.asks = d.asks

Adapts(e, a) == /\ e = "okx" => IsOkx(a)
                /\ e = "kraken" => IsKraken(a)
                /\ e = "bitstamp" => IsBitstamp(a)
                /\ e = "bitvavo" => IsBitvavo(a)

\* Where it covers no rewritten number, the exchange's checksum is the
\* adapter's own.
LEMMA TextsAgree ==
    ASSUME ~Rewritten
    PROVE  Hashed(ExchangeText, depth, ChecksumDepth) = ChecksumOf(depth, ChecksumDepth)
<1> DEFINE levels(side) == TopLevels(depth, side, ChecksumDepth)
           theirs(side) == Folded(LAMBDA s, l : s \o ExchangeText(l.price) \o ExchangeText(l.size),
                                  <<>>, levels(side))
           ours(side) == Folded(LAMBDA s, l : s \o FormatNumber(l.price) \o FormatNumber(l.size),
                                <<>>, levels(side))
<1>1. ASSUME NEW side \in Sides PROVE theirs(side) = ours(side)
  <2> DEFINE seq == levels(side)
             n == Len(seq)
             they(f, i) == IF i = 0 THEN <<>>
                           ELSE f[i - 1] \o ExchangeText(seq[i].price) \o ExchangeText(seq[i].size)
             we(f, i) == IF i = 0 THEN <<>>
                         ELSE f[i - 1] \o FormatNumber(seq[i].price) \o FormatNumber(seq[i].size)
  <2>1. \A i \in 1..n : /\ ExchangeText(seq[i].price) = FormatNumber(seq[i].price)
                         /\ ExchangeText(seq[i].size) = FormatNumber(seq[i].size)
    BY <1>1 DEF Rewritten, ExchangeText
  <2>3. \A i \in 0..n : i = 0 \/ i \in 1..n
    OBVIOUS
  <2>4. \A f : [i \in 0..n |-> they(f, i)] = [i \in 0..n |-> we(f, i)]
    <3> HIDE DEF seq
    <3> QED BY <2>1, <2>3, Zenon
  <2>5. (CHOOSE f : f = [i \in 0..n |-> they(f, i)]) = (CHOOSE f : f = [i \in 0..n |-> we(f, i)])
    <3> HIDE DEF they, we, n
    <3> QED BY <2>4, Zenon
  <2> QED BY <2>5, Zenon DEF Folded
<1>2. theirs("asks") = ours("asks") /\ theirs("bids") = ours("bids")
  BY <1>1 DEF Sides
<1> QED BY <1>2, Zenon DEF Hashed, ChecksumOf

\* What handling a message leaves, when the exchange's book is d.
Safe(e, a, v, d, done) ==
    /\ Adapts(e, done.adapter)
    /\ Sent(done.adapter, Viewed(v, done.items)) /\ Current(done.adapter, Viewed(v, done.items))
    /\ IsCrossed(done.adapter.book) => e = "bitvavo"
    /\ e = "bitstamp" => (done.adapter.awaiting => done.adapter.delay > 0 /\ Fresh(done.adapter))
    /\ e \in {"okx", "kraken"} /\ done.adapter.book.failed /\ ~a.book.failed =>
          ~Same(done.adapter.book, d) \/ Rewritten

LEMMA OkxTakes ==
    ASSUME NEW a, IsOkx(a), ~IsCrossed(a.book), NEW v, Sent(a, v),
           NEW bids \in Seq(LevelSet), NEW asks \in Seq(LevelSet), NEW type \in {"snapshot", "update"}
    PROVE  Safe("okx", a, v, depth,
                O!HandleMessage(a, O!Message("books", type, <<Book(bids, asks)>>), SystemClock))
<1> DEFINE data == Book(bids, asks)
           m == O!Message("books", type, <<data>>)
           done == O!HandleMessage(a, m, SystemClock)
<1>1. IsBookData(data) /\ data.checksum = <<Hashed(ExchangeText, depth, ChecksumDepth)>>
  BY DEF Book, IsBookData
<1>2. m.data = <<data>> /\ O!MessageType(m) \in {"L2Snapshot", "L2Update"}
  BY DEF O!Message, O!MessageType
<1> HIDE DEF data, m
<1>3. /\ IsOkx(done.adapter) /\ ~IsCrossed(done.adapter.book)
      /\ Sent(done.adapter, Viewed(v, done.items))
      /\ Current(done.adapter, Viewed(v, done.items))
      /\ done.adapter.book.failed /\ ~a.book.failed =>
            /\ data.checksum # O!None
            /\ O!ComputeChecksum(done.adapter.book) # data.checksum[1]
  BY <1>1, <1>2, OkxHandled
<1> HIDE DEF done
<1>4. Same(done.adapter.book, depth) =>
         O!ComputeChecksum(done.adapter.book) = ChecksumOf(depth, ChecksumDepth)
  BY OkxChecksum DEF Same
<1>5. ~Rewritten => data.checksum[1] = ChecksumOf(depth, ChecksumDepth)
  BY <1>1, TextsAgree
<1>6. Safe("okx", a, v, depth, done)
  BY <1>3, <1>4, <1>5 DEF Safe, Adapts
<1> QED BY <1>6 DEF done, m, data

LEMMA KrakenTakes ==
    ASSUME NEW a, IsKraken(a), ~IsCrossed(a.book), NEW v, Sent(a, v), sequence \in Nat,
           NEW bids \in Seq(LevelSet), NEW asks \in Seq(LevelSet), NEW type \in {"snapshot", "update"}
    PROVE  Safe("kraken", a, v, depth,
                K!HandleMessage(a, K!Message("book", type, <<Book(bids, asks)>>, <<sequence + 1>>),
                                  SystemClock))
<1> DEFINE data == Book(bids, asks)
           m == K!Message("book", type, <<data>>, <<sequence + 1>>)
           done == K!HandleMessage(a, m, SystemClock)
<1>1. IsBookData(data) /\ data.checksum = <<Hashed(ExchangeText, depth, ChecksumDepth)>>
  BY DEF Book, IsBookData
<1>2. m.data = <<data>> /\ m.sequence = <<sequence + 1>> /\ m.channel = "book" /\ m.type = type
  BY DEF K!Message
<1> HIDE DEF data, m
<1>3. K!MessageType(m) \in {"L2Snapshot", "L2Update"}
  <2>1. K!NoText # "book"
    BY Zenon DEF K!NoText
  <2> QED BY <1>2, <2>1 DEF K!MessageType
<1>4. m.sequence \in Seq(Nat)
  BY <1>2
<1>5. /\ IsKraken(done.adapter) /\ ~IsCrossed(done.adapter.book)
      /\ Sent(done.adapter, Viewed(v, done.items))
      /\ Current(done.adapter, Viewed(v, done.items))
      /\ done.adapter.book.failed /\ ~a.book.failed =>
            /\ data.checksum # K!None
            /\ K!ComputeChecksum(done.adapter.book) # data.checksum[1]
  BY <1>1, <1>2, <1>3, <1>4, KrakenHandled
<1> HIDE DEF done
<1>6. Same(done.adapter.book, depth) =>
         K!ComputeChecksum(done.adapter.book) = ChecksumOf(depth, ChecksumDepth)
  BY KrakenChecksum DEF Same
<1>7. ~Rewritten => data.checksum[1] = ChecksumOf(depth, ChecksumDepth)
  BY <1>1, TextsAgree
<1>8. Safe("kraken", a, v, depth, done)
  BY <1>5, <1>6, <1>7 DEF Safe, Adapts
<1> QED BY <1>8 DEF done, m, data

LEMMA DeltasTyped ==
    ASSUME NEW bids \in Seq(LevelSet), NEW asks \in Seq(LevelSet), moves \in Nat, Second \in Nat \ {0}
    PROVE  B!BookData(bids, asks, <<moves>>) \in Deltas
<1>1. <<moves>> # B!None
  BY DEF B!None
<1>2. B!BookData(bids, asks, <<moves>>) =
         [bids |-> bids, asks |-> asks, micro |-> <<moves>>, seconds |-> <<moves \div Second>>]
  BY <1>1 DEF B!BookData
<1>3. moves \div Second \in Nat
  OBVIOUS
<1>4. <<moves>> \in Seq(Nat) /\ <<moves \div Second>> \in Seq(Nat)
  BY <1>3
<1> DEFINE S == Seq(Nat)
           n == <<moves \div Second>>
<1> HIDE DEF S, n
<1>5. <<moves>> \in S /\ n \in S
  BY <1>4 DEF S, n
<1>6. [bids |-> bids, asks |-> asks, micro |-> <<moves>>, seconds |-> n] \in
         [bids : Seq(LevelSet), asks : Seq(LevelSet), micro : S, seconds : S]
  BY <1>5
<1> QED BY <1>2, <1>6 DEF Deltas, S, n

LEMMA BitstampTakes ==
    ASSUME NEW a, IsBitstamp(a), ~IsCrossed(a.book), NEW v, Sent(a, v),
           a.awaiting => a.delay > 0 /\ Fresh(a), moves \in Nat, Second \in Nat \ {0},
           NEW bids \in Seq(LevelSet), NEW asks \in Seq(LevelSet)
    PROVE  Safe("bitstamp", a, v, depth,
                B!HandleMessage(a, B!Message("data", "diff_order_book",
                                        <<B!BookData(bids, asks, <<moves>>)>>), SystemClock))
<1> DEFINE data == B!BookData(bids, asks, <<moves>>)
           m == B!Message("data", "diff_order_book", <<data>>)
           done == B!HandleMessage(a, m, SystemClock)
<1>1. data \in Deltas
  BY DeltasTyped
<1> HIDE DEF data
<1>2. m.data = <<data>> /\ m.event = "data" /\ m.channel = "diff_order_book"
  BY DEF B!Message
<1> HIDE DEF m
<1>3. B!MessageType(m) = "L2Update"
  <2>1. B!NoText # "data"
    BY Zenon DEF B!NoText
  <2> QED BY <1>2, <2>1 DEF B!MessageType
<1>4. /\ IsBitstamp(done.adapter) /\ ~IsCrossed(done.adapter.book)
      /\ Sent(done.adapter, Viewed(v, done.items))
      /\ Current(done.adapter, Viewed(v, done.items))
      /\ done.adapter.awaiting => done.adapter.delay > 0 /\ Fresh(done.adapter)
  BY <1>1, <1>2, <1>3, BitstampHandled
<1> HIDE DEF done
<1>5. Safe("bitstamp", a, v, depth, done)
  BY <1>4 DEF Safe, Adapts
<1> QED BY <1>5 DEF done, m, data

LEMMA BitvavoTakesSnapshot ==
    ASSUME NEW a, IsBitvavo(a), NEW v, Sent(a, v), moves \in Nat,
           NEW bids \in Seq(LevelSet), NEW asks \in Seq(LevelSet), NEW ts
    PROVE  Safe("bitvavo", a, v, depth,
                V!HandleMessage(a, V!Snapshot(V!BookSnapshot(bids, asks, moves, ts)), SystemClock))
<1> DEFINE snap == [bids |-> bids, asks |-> asks, mdseqno |-> moves, timestamp |-> ts]
           m == V!Snapshot(V!BookSnapshot(bids, asks, moves, ts))
           done == V!HandleMessage(a, m, SystemClock)
<1>1. m.response = <<snap>> /\ m.action = "getBook"
  BY DEF V!Snapshot, V!BookSnapshot, V!Blank
<1>2. snap.bids \in Seq(LevelSet) /\ snap.asks \in Seq(LevelSet) /\ snap.mdseqno \in Nat
  OBVIOUS
<1> HIDE DEF snap, m
<1>3. V!MessageType(m) = "BookSnapshot"
  BY <1>1 DEF V!MessageType
<1>4. "lob" \in a.kinds
  BY DEF IsBitvavo, BitvavoForm
<1>5. done = V!HandleSnapshot(a, m, SystemClock)
  BY <1>3, <1>4 DEF V!HandleMessage
<1>6. /\ IsBitvavo(done.adapter)
      /\ Sent(done.adapter, Viewed(v, done.items))
      /\ Current(done.adapter, Viewed(v, done.items))
  BY <1>1, <1>2, <1>5, BitvavoSnapshotHandled
<1> HIDE DEF done
<1>7. Safe("bitvavo", a, v, depth, done)
  BY <1>6 DEF Safe, Adapts
<1> QED BY <1>7 DEF done, m

LEMMA BitvavoTakesUpdate ==
    ASSUME NEW a, IsBitvavo(a), NEW v, Sent(a, v), moves \in Nat, published \in Nat,
           NEW bids \in Seq(LevelSet), NEW asks \in Seq(LevelSet), NEW ts
    PROVE  Safe("bitvavo", a, v, depth,
                V!HandleMessage(a, V!Update(bids, asks, <<published + 1>>, <<moves>>, ts),
                                  SystemClock))
<1> DEFINE m == V!Update(bids, asks, <<published + 1>>, <<moves>>, ts)
           done == V!HandleMessage(a, m, SystemClock)
<1>1. /\ m.action = V!NoText /\ m.event = "book" /\ m.bids = bids /\ m.asks = asks
      /\ m.from = <<published + 1>> /\ m.to = <<moves>>
  BY DEF V!Update, V!Blank
<1> HIDE DEF m
<1>2. V!MessageType(m) = "BookUpdate"
  <2>1. V!NoText # "getBook" /\ V!NoText # "authenticate" /\ V!NoText # "book"
    BY Zenon DEF V!NoText
  <2> QED BY <1>1, <2>1 DEF V!MessageType
<1>3. V!BookUpdate(m) \in Updates
  <2>1. <<published + 1>> # V!None /\ <<moves>> # V!None
    BY DEF V!None
  <2>2. V!OrZero(m.from) = published + 1 /\ V!OrZero(m.to) = moves
    BY <1>1, <2>1 DEF V!OrZero
  <2> QED BY <1>1, <2>2 DEF V!BookUpdate, Updates
<1>4. "lob" \in a.kinds
  BY DEF IsBitvavo, BitvavoForm
<1>5. done = V!HandleUpdate(a, m, SystemClock)
  BY <1>2, <1>4 DEF V!HandleMessage
<1>6. /\ IsBitvavo(done.adapter)
      /\ Sent(done.adapter, Viewed(v, done.items))
      /\ Current(done.adapter, Viewed(v, done.items))
  BY <1>3, <1>5, BitvavoUpdateHandled
<1> HIDE DEF done
<1>7. Safe("bitvavo", a, v, depth, done)
  BY <1>6 DEF Safe, Adapts
<1> QED BY <1>7 DEF done, m

(* ---- the invariant --------------------------------------------------------------- *)

Feeds == {"okx", "kraken", "bitstamp", "bitvavo"}

\* Only Bitvavo's book may be crossed, and only once it has strayed.
Uncrossed(e, a, st) == IsCrossed(a.book) => e = "bitvavo" /\ st

\* Bitstamp's item of a REST snapshot is not kept in prev: nothing else has
\* been sent by then.
Unsent(e, o, a) == e = "bitstamp" => /\ a.awaiting => a.delay > 0
                                     /\ o \/ a.awaiting => Fresh(a)

\* The checksum fails first on a book that is not the exchange's, or on a text.
Tells(e, a, b, st) ==
    e \in {"okx", "kraken"} /\ ~a.book.failed /\ b.book.failed => st \/ Rewritten

MarketOK(d, t, mo, pu) == d \in Depths /\ ~IsCrossed(d) /\ t \in TouchedSets /\ mo \in Nat /\ pu \in Nat

DataInv ==
    /\ exchange \in Feeds /\ sequence \in Nat
    /\ MarketOK(depth, touched, moves, published)
    /\ Adapts(exchange, adapter)
    /\ Sent(adapter, view) /\ Current(adapter, view)
    /\ Uncrossed(exchange, adapter, strayed)
    /\ Unsent(exchange, owed, adapter)

LEMMA TakesIs ==
    ASSUME NEW done, Takes(done)
    PROVE  adapter' = done.adapter /\ view' = Viewed(view, done.items)
BY Zenon DEF Takes, Last, Viewed

\* Handling a message keeps the invariant's part about the adapter.
LEMMA SafeKeeps ==
    ASSUME NEW e \in Feeds, NEW a, NEW v, NEW d, NEW done, Safe(e, a, v, d, done), ~IsCrossed(d),
           NEW b, NEW w, b = done.adapter, w = Viewed(v, done.items),
           NEW st, ~Same(b.book, d) => st
    PROVE  /\ Adapts(e, b) /\ Sent(b, w) /\ Current(b, w)
           /\ Uncrossed(e, b, st) /\ Tells(e, a, b, st)
           /\ e = "bitstamp" => (b.awaiting => b.delay > 0 /\ Fresh(b))
<1>1. Adapts(e, b) /\ Sent(b, w) /\ Current(b, w)
  BY DEF Safe
<1>2. Uncrossed(e, b, st)
  <2>1. Same(b.book, d) => (IsCrossed(b.book) <=> IsCrossed(d))
    BY SameSidesCross DEF Same
  <2> QED BY <2>1 DEF Safe, Uncrossed
<1>3. Tells(e, a, b, st)
  BY DEF Safe, Tells
<1> QED BY <1>1, <1>2, <1>3 DEF Safe

LEMMA DataInit == ASSUME AdaptersConstants, Init PROVE DataInv
<1>1. PICK filter \in Configured, delay \in SnapshotDelays :
          adapter = CASE exchange = "okx"      -> O!NewAdapter({"lob"}, filter)
                          [] exchange = "kraken"   -> K!NewAdapter({"lob"}, filter)
                          [] exchange = "bitstamp" -> B!NewAdapter({"lob"}, filter, delay)
                          [] exchange = "bitvavo"  -> V!NewAdapter({"lob"}, filter)
  BY Zenon DEF Init
<1>2. /\ exchange \in Exchanges /\ depth = Opening /\ moves = 1 /\ touched = {} /\ published = 1
      /\ sequence = 0 /\ up = FALSE /\ owed = FALSE /\ view = None /\ strayed = FALSE
  BY Zenon DEF Init, None
<1>3. exchange \in Feeds /\ filter \in Filters /\ delay \in Nat
  BY <1>2 DEF AdaptersConstants, Feeds
<1>4. MarketOK(depth, touched, moves, published)
  <2>1. Opening \in Depths
    <3>1. Opening \in [Sides -> UNION {[S -> Sizes] : S \in {S \in SUBSET Prices : IsFiniteSet(S)}}]
      BY Zenon DEF AdaptersConstants, Sides
    <3>2. Prices \in SUBSET (Nat \ {0}) /\ Sizes \in SUBSET Nat
      BY DEF AdaptersConstants
    <3>3. ASSUME NEW S \in SUBSET Prices, IsFiniteSet(S), NEW f \in [S -> Sizes] PROVE f \in SideSet
      <4>1. IsFiniteSet(S)
        BY <3>3, Zenon DEF IsFiniteSet
      <4>2. S \in Finites /\ f \in [S -> Nat]
        BY <3>2, <4>1 DEF Finites
      <4> QED BY <4>2, IsSide
    <3>4. ASSUME NEW side \in Sides PROVE Opening[side] \in SideSet
      <4>1. Opening[side] \in UNION {[S -> Sizes] : S \in {S \in SUBSET Prices : IsFiniteSet(S)}}
        BY <3>1
      <4>2. PICK S \in {S \in SUBSET Prices : IsFiniteSet(S)} : Opening[side] \in [S -> Sizes]
        BY <4>1, Zenon
      <4>3. S \in SUBSET Prices /\ IsFiniteSet(S)
        OBVIOUS
      <4> QED BY <3>3, <4>2, <4>3
    <3>5. Opening = [side \in Sides |-> Opening[side]]
      BY <3>1
    <3> QED BY <3>4, <3>5 DEF Depths
  <2>2. ~IsCrossed(Opening)
    BY DEF AdaptersConstants
  <2>3. {} \in TouchedSets
    BY FS_EmptySet DEF TouchedSets
  <2> QED BY <1>2, <2>1, <2>2, <2>3 DEF MarketOK
<1>5. CASE exchange = "okx"
  <2> DEFINE nb == [bids |-> EmptySide, asks |-> EmptySide, resync |-> FALSE, failed |-> FALSE]
  <2>1. adapter = O!NewAdapter({"lob"}, filter)
    BY <1>1, <1>5
  <2>2. O!NewBook = nb
    BY Zenon DEF O!NewBook, O!EmptySide, EmptySide
  <2>3. adapter = [kinds |-> {"lob"}, filter |-> filter, book |-> nb, prev |-> None]
    BY <2>1, <2>2, Zenon DEF O!NewAdapter, O!None, None
  <2>4. nb \in OkxBooks /\ nb.bids = EmptySide /\ nb.asks = EmptySide /\ ~nb.failed
    BY EmptyIsSide DEF OkxBooks
  <2> HIDE DEF nb
  <2>5. IsOkx(adapter)
    BY <1>3, <2>3, <2>4, Zenon DEF IsOkx
  <2>6. adapter.book = nb /\ adapter.prev = None
    BY <2>3
  <2>7. Fresh(adapter)
    BY <2>4, <2>6 DEF Fresh
  <2>8. Sent(adapter, view) /\ Current(adapter, view) /\ ~IsCrossed(adapter.book)
    BY <2>7, FreshFacts
  <2> QED BY <1>2, <1>3, <1>4, <1>5, <2>4, <2>5, <2>6, <2>8
          DEF DataInv, Adapts, Uncrossed, Unsent
<1>6. CASE exchange = "kraken"
  <2> DEFINE nb == [bids |-> EmptySide, asks |-> EmptySide, last |-> None,
                    resync |-> FALSE, failed |-> FALSE]
  <2>1. adapter = K!NewAdapter({"lob"}, filter)
    BY <1>1, <1>6
  <2>2. K!NewBook = nb
    BY Zenon DEF K!NewBook, K!EmptySide, EmptySide, K!None, None
  <2>3. adapter = [kinds |-> {"lob"}, filter |-> filter, book |-> nb, prev |-> None]
    BY <2>1, <2>2, Zenon DEF K!NewAdapter, K!None, None
  <2>4. nb \in KrakenBooks /\ nb.bids = EmptySide /\ nb.asks = EmptySide /\ ~nb.failed
    <3>1. None \in Seq(Nat)
      BY DEF None
    <3> QED BY <3>1, EmptyIsSide DEF KrakenBooks
  <2> HIDE DEF nb
  <2>5. IsKraken(adapter)
    BY <1>3, <2>3, <2>4, Zenon DEF IsKraken
  <2>6. adapter.book = nb /\ adapter.prev = None
    BY <2>3
  <2>7. Fresh(adapter)
    BY <2>4, <2>6 DEF Fresh
  <2>8. Sent(adapter, view) /\ Current(adapter, view) /\ ~IsCrossed(adapter.book)
    BY <2>7, FreshFacts
  <2> QED BY <1>2, <1>3, <1>4, <1>6, <2>4, <2>5, <2>6, <2>8
          DEF DataInv, Adapts, Uncrossed, Unsent
<1>7. CASE exchange = "bitstamp"
  <2> DEFINE nb == [bids |-> EmptySide, asks |-> EmptySide, resync |-> FALSE]
  <2>1. adapter = B!NewAdapter({"lob"}, filter, delay)
    BY <1>1, <1>7
  <2>2. B!NewBook = nb
    BY Zenon DEF B!NewBook, B!EmptySide, EmptySide
  <2>3. adapter = BitstampForm(filter, delay, nb, None, <<>>, FALSE, FALSE)
    BY <2>1, <2>2, Zenon DEF B!NewAdapter, B!None, None, BitstampForm
  <2>4. nb \in BitstampBooks /\ nb.bids = EmptySide /\ nb.asks = EmptySide
    BY EmptyIsSide DEF BitstampBooks
  <2> HIDE DEF nb
  <2>5. IsBitstamp(adapter)
    <3>1. <<>> \in Seq(Deltas) /\ FALSE \in BOOLEAN
      OBVIOUS
    <3> QED BY <1>3, <2>3, <2>4, <3>1, Zenon DEF IsBitstamp
  <2>6. adapter.book = nb /\ adapter.prev = None /\ ~adapter.awaiting
    BY <2>3 DEF BitstampForm
  <2>7. Fresh(adapter)
    BY <2>4, <2>6 DEF Fresh
  <2>8. Sent(adapter, view) /\ Current(adapter, view) /\ ~IsCrossed(adapter.book)
    BY <2>7, FreshFacts
  <2> QED BY <1>2, <1>3, <1>4, <1>7, <2>5, <2>6, <2>7, <2>8
          DEF DataInv, Adapts, Uncrossed, Unsent
<1>8. CASE exchange = "bitvavo"
  <2> DEFINE nb == [bids |-> EmptySide, asks |-> EmptySide, last |-> None, pending |-> <<>>]
  <2>1. adapter = V!NewAdapter({"lob"}, filter)
    BY <1>1, <1>8
  <2>2. V!NewBook = nb
    BY Zenon DEF V!NewBook, V!EmptySide, EmptySide, V!None, None
  <2>3. adapter = BitvavoForm(filter, nb, None)
    BY <2>1, <2>2, Zenon DEF V!NewAdapter, V!None, None, BitvavoForm
  <2>4. nb \in BitvavoBooks /\ nb.bids = EmptySide /\ nb.asks = EmptySide
    <3>1. None \in Seq(Nat) /\ <<>> \in Seq(Updates)
      BY DEF None
    <3> DEFINE S == Seq(Updates)
    <3> HIDE DEF S
    <3>2. nb \in [bids : SideSet, asks : SideSet, last : Seq(Nat), pending : S]
      BY <3>1, EmptyIsSide DEF S
    <3> QED BY <3>2 DEF BitvavoBooks, S
  <2> HIDE DEF nb
  <2>5. IsBitvavo(adapter)
    BY <1>3, <2>3, <2>4, Zenon DEF IsBitvavo
  <2>6. adapter.book = nb /\ adapter.prev = None
    BY <2>3 DEF BitvavoForm
  <2>7. Fresh(adapter)
    BY <2>4, <2>6 DEF Fresh
  <2>8. Sent(adapter, view) /\ Current(adapter, view) /\ ~IsCrossed(adapter.book)
    BY <2>7, FreshFacts
  <2> QED BY <1>2, <1>3, <1>4, <1>8, <2>5, <2>6, <2>8
          DEF DataInv, Adapts, Uncrossed, Unsent
<1> QED BY <1>3, <1>5, <1>6, <1>7, <1>8 DEF Feeds

(* ---- the steps ------------------------------------------------------------------- *)

LEMMA MovesKeeps == ASSUME AdaptersConstants, DataInv, Moves PROVE DataInv'
<1>1. PICK side \in Sides, price \in Prices, size \in Sizes \cup {0} :
          /\ depth' = [depth EXCEPT ![side] = Upsert(@, [price |-> price, size |-> size])]
          /\ ~IsCrossed(depth')
          /\ touched' = touched \cup {[side |-> side, price |-> price]}
  BY DEF Moves
<1>2. /\ moves' = moves + 1 /\ published' = published /\ sequence' = sequence
      /\ exchange' = exchange /\ adapter' = adapter /\ up' = up /\ owed' = owed
      /\ view' = view /\ strayed' = strayed
  BY DEF Moves
<1>3. price \in Nat \ {0} /\ size \in Nat
  <2>1. Prices \subseteq Nat \ {0} /\ Sizes \subseteq Nat \ {0}
    BY Zenon DEF AdaptersConstants
  <2> QED BY <1>1, <2>1
<1>4. depth' \in Depths
  <2> DEFINE l == [price |-> price, size |-> size]
             x == Upsert(depth[side], l)
  <2>1. depth \in Depths
    BY DEF DataInv, MarketOK
  <2>2. depth[side] \in SideSet
    BY <2>1 DEF Depths
  <2>3. x \in SideSet
    BY <1>3, <2>2, UpsertIsSide
  <2>4. depth' = [depth EXCEPT ![side] = x]
    BY <1>1, Zenon
  <2> HIDE DEF x
  <2> QED BY <2>1, <2>3, <2>4 DEF Depths
<1>5. touched' \in TouchedSets
  <2>1. touched \in SUBSET [side : Sides, price : Nat \ {0}] /\ IsFiniteSet(touched)
    BY DEF DataInv, MarketOK, TouchedSets
  <2>2. IsFiniteSet(touched')
    BY <1>1, <2>1, FS_AddElement
  <2> QED BY <1>1, <1>3, <2>1, <2>2 DEF TouchedSets
<1>6. MarketOK(depth', touched', moves', published')
  <2>1. ~IsCrossed(depth')
    BY <1>1
  <2>2. moves' \in Nat /\ published' \in Nat
    BY <1>2 DEF DataInv, MarketOK
  <2> QED BY <1>4, <1>5, <2>1, <2>2 DEF MarketOK
<1> QED BY <1>2, <1>6 DEF DataInv

\* The market while an update covers its changes.
LEMMA CoveredKeeps ==
    ASSUME MarketOK(depth, touched, moves, published),
           touched' = {}, published' = moves, depth' = depth, moves' = moves
    PROVE  MarketOK(depth', touched', moves', published')
<1>1. {} \in TouchedSets
  BY FS_EmptySet DEF TouchedSets
<1> QED BY <1>1 DEF MarketOK

LEMMA LosesKeeps == ASSUME DataInv, LosesUpdate PROVE DataInv'
<1>1. /\ sequence' = sequence + 1 /\ exchange' = exchange /\ adapter' = adapter
      /\ up' = up /\ owed' = owed /\ view' = view /\ strayed' = strayed
      /\ touched' = {} /\ published' = moves /\ depth' = depth /\ moves' = moves
  BY DEF LosesUpdate, Covered
<1>2. MarketOK(depth', touched', moves', published')
  BY <1>1, CoveredKeeps DEF DataInv
<1>3. sequence' \in Nat
  BY <1>1 DEF DataInv
<1> QED BY <1>1, <1>2, <1>3 DEF DataInv

LEMMA ConnectKeeps == ASSUME DataInv, Connect PROVE DataInv'
<1>1. /\ ~up /\ up' = TRUE /\ sequence' = 0 /\ exchange' = exchange
      /\ owed' = (exchange # "bitstamp" \/ B!FetchesAtOnce(adapter))
      /\ view' = view /\ strayed' = strayed
      /\ touched' = {} /\ published' = moves /\ depth' = depth /\ moves' = moves
  BY DEF Connect, Covered
<1>2. adapter' = IF exchange = "bitstamp" THEN B!OnConnect(adapter) ELSE adapter
  BY DEF Connect
<1>3. MarketOK(depth', touched', moves', published')
  BY <1>1, CoveredKeeps DEF DataInv
<1>4. CASE exchange = "bitstamp"
  <2> DEFINE c == B!OnConnect(adapter)
  <2>1. IsBitstamp(adapter) /\ (adapter.awaiting => adapter.delay > 0)
    BY <1>4 DEF DataInv, Adapts, Unsent
  <2>2. IsBitstamp(c) /\ Fresh(c) /\ (c.awaiting => c.delay > 0)
    BY <2>1, BitstampConnected
  <2>3. adapter' = c
    BY <1>2, <1>4
  <2> HIDE DEF c
  <2>4. Sent(c, view) /\ Current(c, view) /\ ~IsCrossed(c.book)
    BY <2>2, FreshFacts
  <2>5. Adapts("bitstamp", c) /\ Uncrossed("bitstamp", c, strayed)
    BY <2>2, <2>4 DEF Adapts, Uncrossed
  <2>6. Unsent("bitstamp", owed', c)
    BY <2>2 DEF Unsent
  <2> QED BY <1>1, <1>3, <1>4, <2>3, <2>4, <2>5, <2>6 DEF DataInv
<1>5. CASE exchange # "bitstamp"
  <2>1. adapter' = adapter
    BY <1>2, <1>5
  <2>2. Unsent(exchange, owed', adapter)
    BY <1>5 DEF Unsent
  <2> QED BY <1>1, <1>3, <2>1, <2>2 DEF DataInv
<1> QED BY <1>4, <1>5

LEMMA DisconnectKeeps ==
    ASSUME DataInv, Disconnect
    PROVE  DataInv' /\ Tells(exchange, adapter, adapter', strayed')
<1> DEFINE a == adapter'
<1>1. /\ up' = FALSE /\ owed' = FALSE /\ exchange' = exchange /\ sequence' = sequence
      /\ view' = view /\ strayed' = strayed
      /\ touched' = touched /\ published' = published /\ depth' = depth /\ moves' = moves
  BY DEF Disconnect, market
<1>2. a = CASE exchange = "okx"      -> O!OnReconnect(adapter)
            [] exchange = "kraken"   -> K!OnReconnect(adapter)
            [] exchange = "bitstamp" -> B!OnConnect(adapter)
            [] exchange = "bitvavo"  -> adapter
  BY DEF Disconnect
<1> HIDE DEF a
<1>3. MarketOK(depth', touched', moves', published') /\ sequence' \in Nat
  BY <1>1 DEF DataInv
<1>4. /\ Adapts(exchange, a) /\ Sent(a, view) /\ Current(a, view)
      /\ Uncrossed(exchange, a, strayed) /\ Unsent(exchange, FALSE, a)
      /\ Tells(exchange, adapter, a, strayed)
  <2>1. CASE exchange = "okx"
    <3>1. IsOkx(adapter) /\ a = O!ResetLocal(adapter)
      BY <1>2, <2>1 DEF DataInv, Adapts, O!OnReconnect
    <3>2. IsOkx(a) /\ ~IsCrossed(a.book) /\ ~a.book.failed /\ Sent(a, view) /\ Current(a, view)
      BY <3>1, OkxReset
    <3> QED BY <2>1, <3>2 DEF Adapts, Uncrossed, Unsent, Tells
  <2>2. CASE exchange = "kraken"
    <3>1. IsKraken(adapter) /\ a = K!ResetLocal(adapter)
      BY <1>2, <2>2 DEF DataInv, Adapts, K!OnReconnect
    <3>2. IsKraken(a) /\ ~IsCrossed(a.book) /\ ~a.book.failed /\ Sent(a, view) /\ Current(a, view)
      BY <3>1, KrakenReset
    <3> QED BY <2>2, <3>2 DEF Adapts, Uncrossed, Unsent, Tells
  <2>3. CASE exchange = "bitstamp"
    <3>1. IsBitstamp(adapter) /\ (adapter.awaiting => adapter.delay > 0)
      BY <2>3 DEF DataInv, Adapts, Unsent
    <3>2. a = B!OnConnect(adapter)
      BY <1>2, <2>3
    <3>3. IsBitstamp(a) /\ Fresh(a) /\ (a.awaiting => a.delay > 0)
      BY <3>1, <3>2, BitstampConnected
    <3>4. Sent(a, view) /\ Current(a, view) /\ ~IsCrossed(a.book)
      BY <3>3, FreshFacts
    <3> QED BY <2>3, <3>3, <3>4 DEF Adapts, Uncrossed, Unsent, Tells
  <2>4. CASE exchange = "bitvavo"
    <3>1. a = adapter
      BY <1>2, <2>4
    <3> QED BY <2>4, <3>1 DEF DataInv, Unsent, Tells
  <2> QED BY <2>1, <2>2, <2>3, <2>4 DEF DataInv, Feeds
<1>5. Unsent(exchange, owed', a)
  BY <1>1, <1>4 DEF Unsent
<1> QED BY <1>1, <1>3, <1>4, <1>5 DEF DataInv, a

LEMMA SnapshotKeeps ==
    ASSUME AdaptersConstants, DataInv, SendsSnapshot
    PROVE  DataInv' /\ Tells(exchange, adapter, adapter', strayed')
<1> DEFINE done == Handled(SnapshotMessage)
           bids == AllLevels("bids")
           asks == AllLevels("asks")
<1>1. /\ up /\ owed /\ exchange # "bitstamp" /\ owed' = FALSE /\ sequence' = sequence + 1
      /\ Takes(done) /\ (strayed' <=> ~SameBook)
      /\ exchange' = exchange /\ up' = up
  BY DEF SendsSnapshot
<1>2. IF exchange = "bitvavo"
      THEN touched' = touched /\ published' = published /\ depth' = depth /\ moves' = moves
      ELSE touched' = {} /\ published' = moves /\ depth' = depth /\ moves' = moves
  BY DEF SendsSnapshot, Covered, market
<1>3. depth' = depth /\ MarketOK(depth', touched', moves', published') /\ sequence' \in Nat
  BY <1>1, <1>2, CoveredKeeps DEF DataInv
<1>4. depth \in Depths /\ ~IsCrossed(depth) /\ moves \in Nat
  BY DEF DataInv, MarketOK
<1>5. bids \in Seq(LevelSet) /\ asks \in Seq(LevelSet)
  BY <1>4, LevelsTyped DEF AllLevels, Sides
<1>6. Safe(exchange, adapter, view, depth, done)
  <2>1. CASE exchange = "okx"
    <3>1. IsOkx(adapter) /\ ~IsCrossed(adapter.book) /\ Sent(adapter, view)
      BY <2>1 DEF DataInv, Adapts, Uncrossed
    <3>2. done = O!HandleMessage(adapter, O!Message("books", "snapshot", <<Book(bids, asks)>>),
                                   SystemClock)
      BY <2>1 DEF Handled, SnapshotMessage
    <3> HIDE DEF done, bids, asks
    <3> QED BY <1>5, <2>1, <3>1, <3>2, OkxTakes
  <2>2. CASE exchange = "kraken"
    <3>1. /\ IsKraken(adapter) /\ ~IsCrossed(adapter.book) /\ Sent(adapter, view)
          /\ sequence \in Nat
      BY <2>2 DEF DataInv, Adapts, Uncrossed
    <3>2. done = K!HandleMessage(adapter, K!Message("book", "snapshot", <<Book(bids, asks)>>,
                                                            <<sequence + 1>>), SystemClock)
      BY <2>2 DEF Handled, SnapshotMessage
    <3> HIDE DEF done, bids, asks
    <3> QED BY <1>5, <2>2, <3>1, <3>2, KrakenTakes
  <2>3. CASE exchange = "bitvavo"
    <3> DEFINE n == V!GetBookDepth(adapter)
               tops(side) == TopLevels(depth, side, n)
    <3>1. IsBitvavo(adapter) /\ Sent(adapter, view)
      BY <2>3 DEF DataInv, Adapts
    <3>2. n \in Nat
      <4>1. PICK filter \in Filters, b \in BitvavoBooks : \E prev : adapter = BitvavoForm(filter, b, prev)
        BY <3>1 DEF IsBitvavo
      <4>2. adapter.filter = filter
        BY <4>1 DEF BitvavoForm
      <4>3. filter.level \in Nat \cup {V!NoLimit}
        BY DEF AdaptersConstants, NoLimit, V!NoLimit
      <4> QED BY <4>2, <4>3 DEF V!GetBookDepth
    <3> HIDE DEF n
    <3>3. tops("bids") \in Seq(LevelSet) /\ tops("asks") \in Seq(LevelSet)
      BY <1>4, <3>2, TopTyped DEF Sides
    <3>4. done = V!HandleMessage(adapter,
                    V!Snapshot(V!BookSnapshot(tops("bids"), tops("asks"), moves, <<moves * Millisecond>>)),
                    SystemClock)
      BY <2>3 DEF Handled, SnapshotMessage, n
    <3> HIDE DEF done, tops
    <3> QED BY <1>4, <2>3, <3>1, <3>3, <3>4, BitvavoTakesSnapshot
  <2> QED BY <1>1, <2>1, <2>2, <2>3 DEF DataInv, Feeds
<1> HIDE DEF done
<1>7. adapter' = done.adapter /\ view' = Viewed(view, done.items)
  BY <1>1, TakesIs
<1>8. ~Same(adapter'.book, depth) => strayed'
  BY <1>1 DEF SameBook, Same
<1>10. exchange \in Feeds
  BY DEF DataInv
<1>11. /\ Adapts(exchange, adapter') /\ Sent(adapter', view') /\ Current(adapter', view')
       /\ Uncrossed(exchange, adapter', strayed')
       /\ Tells(exchange, adapter, adapter', strayed')
  BY <1>4, <1>6, <1>7, <1>8, <1>10, SafeKeeps
<1>12. Unsent(exchange, owed', adapter')
  BY <1>1 DEF Unsent
<1> QED BY <1>1, <1>3, <1>10, <1>11, <1>12 DEF DataInv

LEMMA UpdateKeeps ==
    ASSUME AdaptersConstants, DataInv, SendsUpdate
    PROVE  DataInv' /\ Tells(exchange, adapter, adapter', strayed')
<1>1. PICK noise \in Noise : Takes(Handled(UpdateMessage(noise)))
  BY DEF SendsUpdate
<1> DEFINE done == Handled(UpdateMessage(noise))
           bids == Changes("bids") \o noise
           asks == noise \o Changes("asks")
<1>2. /\ up /\ ~Fetching /\ (exchange \in {"okx", "kraken"} => ~owed)
      /\ owed' = owed /\ sequence' = sequence + 1
      /\ Takes(done) /\ (strayed' <=> strayed \/ ~SameBook)
      /\ exchange' = exchange /\ up' = up
      /\ touched' = {} /\ published' = moves /\ depth' = depth /\ moves' = moves
  BY <1>1 DEF SendsUpdate, Covered
<1>3. MarketOK(depth', touched', moves', published') /\ sequence' \in Nat
  BY <1>2, CoveredKeeps DEF DataInv
<1>4. depth \in Depths /\ ~IsCrossed(depth) /\ moves \in Nat /\ published \in Nat /\ touched \in TouchedSets
  BY DEF DataInv, MarketOK
<1>5. bids \in Seq(LevelSet) /\ asks \in Seq(LevelSet)
  <2> DEFINE x == Changes("bids")
             y == Changes("asks")
  <2>1. x \in Seq(LevelSet) /\ y \in Seq(LevelSet)
    BY <1>4, ChangesTyped DEF Sides
  <2>2. noise \in Seq(LevelSet)
    <3> DEFINE l == [price |-> Unreadable, size |-> 10]
    <3>1. noise = <<>> \/ noise = <<l>>
      BY DEF Noise, Unreadable
    <3>2. l \in LevelSet
      BY DEF LevelSet
    <3> HIDE DEF l
    <3>3. <<>> \in Seq(LevelSet) /\ <<l>> \in Seq(LevelSet)
      BY <3>2
    <3> QED BY <3>1, <3>3, Zenon
  <2> HIDE DEF x, y
  <2> QED BY <2>1, <2>2 DEF x, y
<1>6. /\ Book(bids, asks).bids = bids /\ Book(bids, asks).asks = asks
      /\ Second \in Nat \ {0}
  BY DEF Book, AdaptersConstants
<1>7. Safe(exchange, adapter, view, depth, done)
  <2>1. CASE exchange = "okx"
    <3>1. IsOkx(adapter) /\ ~IsCrossed(adapter.book) /\ Sent(adapter, view)
      BY <2>1 DEF DataInv, Adapts, Uncrossed
    <3>2. done = O!HandleMessage(adapter, O!Message("books", "update", <<Book(bids, asks)>>),
                                   SystemClock)
      BY <2>1 DEF Handled, UpdateMessage
    <3> HIDE DEF done, bids, asks
    <3> QED BY <1>5, <2>1, <3>1, <3>2, OkxTakes
  <2>2. CASE exchange = "kraken"
    <3>1. /\ IsKraken(adapter) /\ ~IsCrossed(adapter.book) /\ Sent(adapter, view)
          /\ sequence \in Nat
      BY <2>2 DEF DataInv, Adapts, Uncrossed
    <3>2. done = K!HandleMessage(adapter, K!Message("book", "update", <<Book(bids, asks)>>,
                                                            <<sequence + 1>>), SystemClock)
      BY <2>2 DEF Handled, UpdateMessage
    <3> HIDE DEF done, bids, asks
    <3> QED BY <1>5, <2>2, <3>1, <3>2, KrakenTakes
  <2>3. CASE exchange = "bitstamp"
    <3>1. /\ IsBitstamp(adapter) /\ ~IsCrossed(adapter.book) /\ Sent(adapter, view)
          /\ adapter.awaiting => adapter.delay > 0 /\ Fresh(adapter)
      BY <2>3 DEF DataInv, Adapts, Uncrossed, Unsent
    <3>2. done = B!HandleMessage(adapter,
                    B!Message("data", "diff_order_book", <<B!BookData(bids, asks, <<moves>>)>>),
                    SystemClock)
      BY <1>6, <2>3 DEF Handled, UpdateMessage
    <3> HIDE DEF done, bids, asks
    <3> QED BY <1>4, <1>5, <1>6, <2>3, <3>1, <3>2, BitstampTakes
  <2>4. CASE exchange = "bitvavo"
    <3>1. IsBitvavo(adapter) /\ Sent(adapter, view)
      BY <2>4 DEF DataInv, Adapts
    <3>2. done = V!HandleMessage(adapter,
                    V!Update(bids, asks, <<published + 1>>, <<moves>>, <<moves * Millisecond>>),
                    SystemClock)
      BY <1>6, <2>4 DEF Handled, UpdateMessage
    <3> HIDE DEF done, bids, asks
    <3> QED BY <1>4, <1>5, <2>4, <3>1, <3>2, BitvavoTakesUpdate
  <2> QED BY <2>1, <2>2, <2>3, <2>4 DEF DataInv, Feeds
<1> HIDE DEF done
<1>8. adapter' = done.adapter /\ view' = Viewed(view, done.items)
  BY <1>2, TakesIs
<1>9. ~Same(adapter'.book, depth) => strayed'
  BY <1>2 DEF SameBook, Same
<1>11. exchange \in Feeds
  BY DEF DataInv
<1>12. /\ Adapts(exchange, adapter') /\ Sent(adapter', view') /\ Current(adapter', view')
       /\ Uncrossed(exchange, adapter', strayed')
       /\ Tells(exchange, adapter, adapter', strayed')
       /\ exchange = "bitstamp" => (adapter'.awaiting => adapter'.delay > 0 /\ Fresh(adapter'))
  BY <1>4, <1>7, <1>8, <1>9, <1>11, SafeKeeps
<1>14. Unsent(exchange, owed', adapter')
  <2>1. exchange = "bitstamp" => ~owed
    BY <1>2 DEF Fetching
  <2> QED BY <1>2, <1>12, <2>1 DEF Unsent
<1> QED BY <1>2, <1>3, <1>11, <1>12, <1>14 DEF DataInv

LEMMA RestKeeps == ASSUME AdaptersConstants, DataInv, RestAnswers PROVE DataInv'
<1> DEFINE first == B!FetchSnapshot(adapter, RestSnapshot, SystemClock)
           merge == B!FetchSnapshotAndMerge(adapter, RestSnapshot, SystemClock)
           done == IF owed THEN first ELSE merge
<1>1. /\ up /\ exchange = "bitstamp" /\ owed' = FALSE /\ sequence' = sequence
      /\ Takes(done) /\ exchange' = exchange /\ up' = up
      /\ touched' = touched /\ published' = published /\ depth' = depth /\ moves' = moves
  BY DEF RestAnswers, Fetching, market
<1>2. MarketOK(depth', touched', moves', published') /\ sequence' \in Nat
  BY <1>1 DEF DataInv
<1>3. depth \in Depths /\ moves \in Nat /\ Second \in Nat \ {0}
  BY DEF DataInv, MarketOK, AdaptersConstants
<1>4. RestSnapshot \in Deltas
  <2>1. AllLevels("bids") \in Seq(LevelSet) /\ AllLevels("asks") \in Seq(LevelSet)
    BY <1>3, LevelsTyped DEF AllLevels, Sides
  <2> QED BY <1>3, <2>1, DeltasTyped DEF RestSnapshot
<1>5. /\ IsBitstamp(adapter) /\ ~IsCrossed(adapter.book)
      /\ Sent(adapter, view) /\ Current(adapter, view)
      /\ adapter.awaiting => adapter.delay > 0
      /\ owed \/ adapter.awaiting => Fresh(adapter)
  BY <1>1 DEF DataInv, Adapts, Uncrossed, Unsent
<1>6. adapter' = done.adapter /\ view' = Viewed(view, done.items)
  <2> HIDE DEF done
  <2> QED BY <1>1, TakesIs
<1>7. /\ IsBitstamp(adapter') /\ ~IsCrossed(adapter'.book)
      /\ Sent(adapter', view') /\ Current(adapter', view')
      /\ adapter'.awaiting => adapter'.delay > 0 /\ Fresh(adapter')
  <2>1. CASE owed
    <3>1. done = first /\ Fresh(adapter)
      BY <1>5, <2>1
    <3>2. adapter' = adapter
      BY <1>6, <3>1, BitstampFetched
    <3>3. Sent(adapter, view') /\ Current(adapter, view')
      BY <3>1, FreshFacts
    <3> QED BY <1>5, <3>1, <3>2, <3>3
  <2>2. CASE ~owed
    <3>1. done = merge
      BY <2>2
    <3>2. /\ IsBitstamp(merge.adapter) /\ ~IsCrossed(merge.adapter.book)
          /\ Sent(merge.adapter, Viewed(view, merge.items))
          /\ Current(merge.adapter, Viewed(view, merge.items))
          /\ ~merge.adapter.awaiting
      BY <1>4, <1>5, BitstampMerged
    <3> HIDE DEF done, merge
    <3> QED BY <1>6, <3>1, <3>2
  <2> QED BY <2>1, <2>2
<1>8. /\ Adapts("bitstamp", adapter') /\ Uncrossed("bitstamp", adapter', strayed')
      /\ Unsent("bitstamp", owed', adapter')
  BY <1>1, <1>7 DEF Adapts, Uncrossed, Unsent
<1> QED BY <1>1, <1>2, <1>7, <1>8 DEF DataInv, Feeds

LEMMA DataStays == ASSUME DataInv, UNCHANGED vars PROVE DataInv'
<1>1. /\ exchange' = exchange /\ adapter' = adapter /\ depth' = depth /\ moves' = moves
      /\ touched' = touched /\ published' = published /\ sequence' = sequence /\ up' = up
      /\ owed' = owed /\ view' = view /\ strayed' = strayed
  BY DEF vars, market
<1> QED BY <1>1 DEF DataInv

LEMMA DataInvariant == ASSUME AdaptersConstants PROVE Spec => []DataInv
<1>1. Init => DataInv
  BY DataInit
<1>2. DataInv /\ [Next]_(vars) => DataInv'
  BY MovesKeeps, ConnectKeeps, SnapshotKeeps, UpdateKeeps, LosesKeeps, RestKeeps, DisconnectKeeps,
     DataStays DEF Next
<1> QED BY <1>1, <1>2, PTL DEF Spec

(* ---- the properties -------------------------------------------------------------- *)

\* What reading book b answers.
Reading(r, b, pct) ==
    /\ \A side \in Sides : /\ r.best[side] = Best(b, side)
                           /\ r.within[side] = LevelsWithinPct(b, side, pct)
    /\ r.spread = Spread(b)

LEMMA OkxReadsIs == ASSUME NEW b, NEW pct PROVE Reading(O!Reads(b, pct), b, pct)
<1>1. \A side : O!Best(b, side) = Best(b, side)
  BY Zenon DEF O!Best, O!Max, O!Min, O!EmptySide, O!None, Best, Max, Min, EmptySide, None
<1>2. \A side : O!LevelsWithinPct(b, side, pct) = LevelsWithinPct(b, side, pct)
  BY Zenon DEF O!LevelsWithinPct, O!BestFirst, O!Ascending, O!Sorted, O!Among, O!Folded,
     O!ToSet, O!Near, O!Reverse, O!Best, O!Max, O!Min, O!EmptySide, O!None, O!Cardinality,
     LevelsWithinPct, BestFirst, Ascending, Sorted, Among, Folded,
     ToSet, Near, Reverse, Best, Max, Min, EmptySide, None, Cardinality
<1>3. O!Spread(b) = Spread(b)
  BY Zenon DEF O!Spread, O!Best, O!Max, O!Min, O!EmptySide, O!None,
     Spread, Best, Max, Min, EmptySide, None
<1>4. O!Sides = Sides
  BY DEF O!Sides, Sides
<1> QED BY <1>1, <1>2, <1>3, <1>4 DEF O!Reads, O!ReadsOf, Reading

LEMMA KrakenReadsIs == ASSUME NEW b, NEW pct PROVE Reading(K!Reads(b, pct), b, pct)
<1>1. \A side : K!Best(b, side) = Best(b, side)
  BY Zenon DEF K!Best, K!Max, K!Min, K!EmptySide, K!None, Best, Max, Min, EmptySide, None
<1>2. \A side : K!LevelsWithinPct(b, side, pct) = LevelsWithinPct(b, side, pct)
  BY Zenon DEF K!LevelsWithinPct, K!BestFirst, K!Ascending, K!Sorted, K!Among, K!Folded,
     K!ToSet, K!Near, K!Reverse, K!Best, K!Max, K!Min, K!EmptySide, K!None, K!Cardinality,
     LevelsWithinPct, BestFirst, Ascending, Sorted, Among, Folded,
     ToSet, Near, Reverse, Best, Max, Min, EmptySide, None, Cardinality
<1>3. K!Spread(b) = Spread(b)
  BY Zenon DEF K!Spread, K!Best, K!Max, K!Min, K!EmptySide, K!None,
     Spread, Best, Max, Min, EmptySide, None
<1>4. K!Sides = Sides
  BY DEF K!Sides, Sides
<1> QED BY <1>1, <1>2, <1>3, <1>4 DEF K!Reads, K!ReadsOf, Reading

LEMMA BitstampReadsIs == ASSUME NEW b, NEW pct PROVE Reading(B!Reads(b, pct), b, pct)
<1>1. \A side : B!Best(b, side) = Best(b, side)
  BY Zenon DEF B!Best, B!Max, B!Min, B!EmptySide, B!None, Best, Max, Min, EmptySide, None
<1>2. \A side : B!LevelsWithinPct(b, side, pct) = LevelsWithinPct(b, side, pct)
  BY Zenon DEF B!LevelsWithinPct, B!BestFirst, B!Ascending, B!Sorted, B!Among, B!Folded,
     B!ToSet, B!Near, B!Reverse, B!Best, B!Max, B!Min, B!EmptySide, B!None, B!Cardinality,
     LevelsWithinPct, BestFirst, Ascending, Sorted, Among, Folded,
     ToSet, Near, Reverse, Best, Max, Min, EmptySide, None, Cardinality
<1>3. B!Spread(b) = Spread(b)
  BY Zenon DEF B!Spread, B!Best, B!Max, B!Min, B!EmptySide, B!None,
     Spread, Best, Max, Min, EmptySide, None
<1>4. B!Sides = Sides
  BY DEF B!Sides, Sides
<1> QED BY <1>1, <1>2, <1>3, <1>4 DEF B!Reads, B!ReadsOf, Reading

LEMMA BitvavoReadsIs == ASSUME NEW b, NEW pct PROVE Reading(V!Reads(b, pct), b, pct)
<1>1. \A side : V!Best(b, side) = Best(b, side)
  BY Zenon DEF V!Best, V!Max, V!Min, V!EmptySide, V!None, Best, Max, Min, EmptySide, None
<1>2. \A side : V!LevelsWithinPct(b, side, pct) = LevelsWithinPct(b, side, pct)
  BY Zenon DEF V!LevelsWithinPct, V!BestFirst, V!Ascending, V!Sorted, V!Among, V!Folded,
     V!ToSet, V!Near, V!Reverse, V!Best, V!Max, V!Min, V!EmptySide, V!None, V!Cardinality,
     LevelsWithinPct, BestFirst, Ascending, Sorted, Among, Folded,
     ToSet, Near, Reverse, Best, Max, Min, EmptySide, None, Cardinality
<1>3. V!Spread(b) = Spread(b)
  BY Zenon DEF V!Spread, V!Best, V!Max, V!Min, V!EmptySide, V!None,
     Spread, Best, Max, Min, EmptySide, None
<1>4. V!Sides = Sides
  BY DEF V!Sides, Sides
<1> QED BY <1>1, <1>2, <1>3, <1>4 DEF V!Reads, V!ReadsOf, Reading

LEMMA LooksIs ==
    ASSUME exchange \in Feeds, NEW pct
    PROVE  Reading(Looks(pct), adapter.book, pct)
<1>1. CASE exchange = "okx"
  <2>1. Looks(pct) = O!Reads(adapter.book, pct)
    BY <1>1 DEF Looks
  <2> QED BY <2>1, OkxReadsIs, Zenon
<1>2. CASE exchange = "kraken"
  <2>1. Looks(pct) = K!Reads(adapter.book, pct)
    BY <1>2 DEF Looks
  <2> QED BY <2>1, KrakenReadsIs, Zenon
<1>3. CASE exchange = "bitstamp"
  <2>1. Looks(pct) = B!Reads(adapter.book, pct)
    BY <1>3 DEF Looks
  <2> QED BY <2>1, BitstampReadsIs, Zenon
<1>4. CASE exchange = "bitvavo"
  <2>1. Looks(pct) = V!Reads(adapter.book, pct)
    BY <1>4 DEF Looks
  <2> QED BY <2>1, BitvavoReadsIs, Zenon
<1> QED BY <1>1, <1>2, <1>3, <1>4 DEF Feeds

LEMMA KeptPricesIs ==
    ASSUME NEW b, NEW side, NEW filter
    PROVE  KeptPrices(b, side, filter) = Kept(b, side, filter)
BY Zenon DEF KeptPrices, NoLimit, Cardinality, Kept, WithinPct, Better

LEMMA ShownIsSide ==
    ASSUME NEW levels, NEW b, NEW side, NEW filter, Shows(levels, Kept(b, side, filter), b[side])
    PROVE  IsSideOf(levels, b, side, filter)
<1>1. /\ Len(levels) \in Nat /\ DOMAIN levels = 1..Len(levels)
      /\ \A i \in 1..Len(levels) : levels[i].price \in Kept(b, side, filter)
      /\ \A i, j \in 1..Len(levels) : i < j => levels[i].price < levels[j].price
      /\ \A w \in Kept(b, side, filter) : \E i \in 1..Len(levels) : levels[i].price = w
      /\ \A i \in 1..Len(levels) : levels[i].size = b[side][levels[i].price]
  BY ShowsFacts
<1>2. {levels[i].price : i \in DOMAIN levels} = Kept(b, side, filter)
  BY <1>1
<1> QED BY <1>1, <1>2, KeptPricesIs DEF IsSideOf

LEMMA AdapterHasBook ==
    ASSUME exchange \in Feeds, Adapts(exchange, adapter)
    PROVE  IsBook(adapter.book)
<1>1. CASE exchange = "okx"
  BY <1>1 DEF Adapts, IsOkx, OkxBooks, IsBook
<1>2. CASE exchange = "kraken"
  BY <1>2 DEF Adapts, IsKraken, KrakenBooks, IsBook
<1>3. CASE exchange = "bitstamp"
  BY <1>3 DEF Adapts, IsBitstamp, BitstampForm, BitstampBooks, IsBook
<1>4. CASE exchange = "bitvavo"
  BY <1>4 DEF Adapts, IsBitvavo, BitvavoForm, BitvavoBooks, IsBook
<1> QED BY <1>1, <1>2, <1>3, <1>4 DEF Feeds

\* Whatever the book, an item made of it has exactly the levels the filters
\* keep, with the best bid at one end of its side and below the best ask, which
\* comes first on the other, and there is none only when a side has nothing to
\* show (to_lob_item, full_lob_item and
\* the methods that read the book).
LEMMA ItemsAreFiltered == ASSUME AdaptersConstants, DataInv PROVE ItemIsFiltered
<1> SUFFICES ASSUME NEW filter \in Filters
             PROVE  LET item == LobItemOf(adapter.book, filter, moves)
                    IN IF item = None
                       THEN \E side \in Sides : KeptPrices(adapter.book, side, filter) = {}
                       ELSE LET looks == Looks(filter.pct)
                            IN /\ \A side \in Sides :
                                     /\ item[1][side] # <<>>
                                     /\ IsSideOf(item[1][side], adapter.book, side, filter)
                               /\ looks.best["bids"] \in {<<Head(item[1].bids).price>>,
                                                           <<Last(item[1].bids).price>>}
                               /\ <<Head(item[1].asks).price>> = looks.best["asks"]
                               /\ looks.spread[1] > 0 \/ (exchange = "bitvavo" /\ strayed)
                               /\ filter.pct \in 1..99 /\ filter.level = NoLimit =>
                                     \A side \in Sides :
                                        item[1][side] \in {looks.within[side],
                                                           Reverse(looks.within[side])}
  BY Zenon DEF ItemIsFiltered
<1> DEFINE b == adapter.book
           item == LobItemOf(b, filter, moves)
           looks == Looks(filter.pct)
<1>1. IsBook(b) /\ IsFilter(filter)
  <2>1. Filters \subseteq [level : Nat \cup {NoLimit}, pct : Int]
    BY Zenon DEF AdaptersConstants
  <2> QED BY <2>1, AdapterHasBook DEF DataInv, IsFilter
<1>2. Reading(looks, b, filter.pct)
  BY LooksIs DEF DataInv
<1>3. IF item = None
      THEN \E side \in Sides : Kept(b, side, filter) = {}
      ELSE /\ item = <<item[1]>>
           /\ item[1].bids # <<>> /\ Shows(item[1].bids, Kept(b, "bids", filter), b.bids)
           /\ item[1].asks # <<>> /\ Shows(item[1].asks, Kept(b, "asks", filter), b.asks)
           /\ <<Last(item[1].bids).price>> = Best(b, "bids")
           /\ <<Head(item[1].asks).price>> = Best(b, "asks")
           /\ Spread(b)[1] > 0 \/ IsCrossed(b)
           /\ filter.pct \in 1..99 /\ filter.level = NoLimit =>
                 /\ item[1].bids = Reverse(LevelsWithinPct(b, "bids", filter.pct))
                 /\ item[1].asks = LevelsWithinPct(b, "asks", filter.pct)
  BY <1>1, ItemFacts
<1>4. IsCrossed(b) => exchange = "bitvavo" /\ strayed
  BY DEF DataInv, Uncrossed
<1> HIDE DEF b, item, looks
<1>5. CASE item = None
  <2>1. \E side \in Sides : KeptPrices(b, side, filter) = {}
    BY <1>3, <1>5, KeptPricesIs
  <2> QED BY <1>5, <2>1 DEF b, item
<1>6. CASE item # None
  <2>1. "bids" \in Sides /\ "asks" \in Sides /\ \A side \in Sides : side = "bids" \/ side = "asks"
    BY DEF Sides
  <2>2. /\ item[1]["bids"] = item[1].bids /\ item[1]["asks"] = item[1].asks
        /\ b["bids"] = b.bids /\ b["asks"] = b.asks
    OBVIOUS
  <2>3. /\ IsSideOf(item[1]["bids"], b, "bids", filter) /\ IsSideOf(item[1]["asks"], b, "asks", filter)
        /\ item[1]["bids"] # <<>> /\ item[1]["asks"] # <<>>
    BY <1>3, <1>6, <2>2, ShownIsSide
  <2>4. \A side \in Sides : item[1][side] # <<>> /\ IsSideOf(item[1][side], b, side, filter)
    BY <2>1, <2>3, Zenon
  <2>5. /\ looks.best["bids"] = <<Last(item[1].bids).price>>
        /\ <<Head(item[1].asks).price>> = looks.best["asks"]
        /\ looks.spread[1] > 0 \/ (exchange = "bitvavo" /\ strayed)
    BY <1>2, <1>3, <1>4, <1>6, <2>1 DEF Reading
  <2>6. ASSUME filter.pct \in 1..99, filter.level = NoLimit, NEW side \in Sides
        PROVE  item[1][side] \in {looks.within[side], Reverse(looks.within[side])}
    <3>1. looks.within[side] = LevelsWithinPct(b, side, filter.pct)
      BY <1>2 DEF Reading
    <3>2. /\ item[1]["bids"] = Reverse(LevelsWithinPct(b, "bids", filter.pct))
          /\ item[1]["asks"] = LevelsWithinPct(b, "asks", filter.pct)
      BY <1>3, <1>6, <2>2, <2>6
    <3>3. "bids" # "asks"
      OBVIOUS
    <3> QED BY <2>1, <3>1, <3>2, <3>3, Zenon
  <2> QED BY <1>6, <2>4, <2>5, <2>6 DEF b, item, looks
<1> QED BY <1>5, <1>6

\* Whatever the book, an item made of it has exactly the levels the filters
\* keep, with the best bid at one end of its side and below the best ask, which
\* comes first on the other, and there is none only when a side has nothing to
\* show; only on Bitvavo, after a gap,
\* may it be crossed (to_lob_item, full_lob_item and the methods best_bid,
\* best_ask, spread, levels_within_pct).
THEOREM ItemIsFilteredCorrect == Spec => []ItemIsFiltered
<1>1. DataInv => ItemIsFiltered
  BY AdaptersAssumption, ItemsAreFiltered
<1>2. Spec => []DataInv
  BY AdaptersAssumption, DataInvariant
<1> QED BY <1>1, <1>2, PTL

\* The consumer's last item is the local book of its adapter, sizes included,
\* whatever was lost, refused or reconnected: the comparison with the previous
\* item holds nothing back (emit_lob).
THEOREM ShowsBookCorrect == Spec => []ShowsBook
<1>1. DataInv => ShowsBook
  <2> SUFFICES ASSUME DataInv PROVE ShowsBook
    OBVIOUS
  <2> QED BY DEF DataInv, Current, ShowsBook
<1>2. Spec => []DataInv
  BY AdaptersAssumption, DataInvariant
<1> QED BY <1>1, <1>2, PTL

LEMMA StepsTell ==
    ASSUME AdaptersConstants, DataInv, Next
    PROVE  ChecksumFails => strayed' \/ Rewritten
<1>1. CASE SendsSnapshot \/ SendsUpdate \/ Disconnect
  BY <1>1, SnapshotKeeps, UpdateKeeps, DisconnectKeeps DEF Tells, ChecksumFails
<1>2. CASE Moves \/ LosesUpdate \/ RestAnswers \/ Connect
  <2>1. ASSUME exchange \in {"okx", "kraken"} PROVE adapter' = adapter
    BY <1>2, <2>1 DEF Moves, LosesUpdate, RestAnswers, Fetching, Connect
  <2> QED BY <2>1 DEF ChecksumFails
<1> QED BY <1>1, <1>2 DEF Next

\* A checksum of OKX or Kraken begins to fail only on a book that has differed
\* from the exchange's since the last snapshot, or over a number the exchange
\* writes otherwise than the adapter (process_msg, verify_checksum).
THEOREM ChecksumTellsCorrect == Spec => ChecksumTells
<1>1. DataInv /\ [Next]_vars => [ChecksumFails => strayed' \/ Rewritten]_vars
  BY AdaptersAssumption, StepsTell
<1>2. Spec => []DataInv
  BY AdaptersAssumption, DataInvariant
<1> QED BY <1>1, <1>2, PTL DEF Spec, ChecksumTells
=============================================================================
