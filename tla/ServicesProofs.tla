--------------------------- MODULE ServicesProofs ---------------------------
(***************************************************************************)
(* Theorems about Services, for every value of the constants.              *)
(***************************************************************************)
EXTENDS Services, TopologicalSort, SequenceTheorems, FiniteSetTheorems,
        WellFoundedInduction, TLAPS

-----------------------------------------------------------------------------
(* A sequence without its k-th element.                                    *)
LEMMA ElementRemoved ==
  ASSUME NEW R, NEW s \in Seq(R), NEW k \in 1..Len(s)
  PROVE  LET r == SubSeq(s, 1, k-1) \o SubSeq(s, k+1, Len(s)) IN
         /\ r \in Seq(R) /\ Len(r) = Len(s) - 1
         /\ \A i \in 1..(Len(s)-1) : r[i] = s[IF i < k THEN i ELSE i+1]
<1> DEFINE n == Len(s)
           A == SubSeq(s, 1, k-1)
           B == SubSeq(s, k+1, n)
           r == A \o B
<1>1. n \in Nat /\ DOMAIN s = 1..n /\ k \in 1..n
  OBVIOUS
<1>2. /\ A \in Seq(R) /\ Len(A) = k-1 /\ \A i \in 1..(k-1) : A[i] = s[i]
      /\ B \in Seq(R) /\ Len(B) = n-k /\ \A i \in 1..(n-k) : B[i] = s[k+i]
  <2> HIDE DEF n
  <2>0. k \in Int /\ k-1 \in Int /\ k+1 \in Int /\ n \in Int /\ 1 <= k /\ k <= n
    BY <1>1
  <2>1. /\ \A i \in 1..(k-1) : i \in 1..((k-1)-1+1) /\ 1+i-1 = i
        /\ (IF 1 <= k-1 THEN (k-1)-1+1 ELSE 0) = k-1
        /\ (IF k+1 <= n THEN n-(k+1)+1 ELSE 0) = n-k
    BY <2>0
  <2>2. /\ \A i \in (k+1)..n : s[i] \in R
        /\ \A i \in 1..(k-1) : s[i] \in R
    BY <1>1
  <2>5. \A i \in 1..(n-k) : i \in 1..(n-(k+1)+1) /\ (k+1)+i-1 = k+i
    BY <1>1
  <2>3. /\ A \in Seq(R) /\ Len(A) = IF 1 <= k-1 THEN (k-1)-1+1 ELSE 0
        /\ \A i \in 1..((k-1)-1+1) : A[i] = s[1+i-1]
    BY <2>0, <2>1, <2>2, SubSeqProperties DEF n
  <2>4. /\ B \in Seq(R) /\ Len(B) = IF k+1 <= n THEN n-(k+1)+1 ELSE 0
        /\ \A i \in 1..(n-(k+1)+1) : B[i] = s[(k+1)+i-1]
    BY <2>0, <2>1, <2>2, SubSeqProperties DEF n
  <2> QED
    BY <2>1, <2>2, <2>3, <2>4, <2>5
<1> HIDE DEF A, B
<1>3. /\ r \in Seq(R) /\ Len(r) = Len(A) + Len(B)
      /\ \A i \in 1..(Len(A) + Len(B)) : r[i] = IF i <= Len(A) THEN A[i] ELSE B[i - Len(A)]
  BY <1>2, ConcatProperties
<1> HIDE DEF n, r
<1>4. Len(A) + Len(B) = n - 1
  BY <1>1, <1>2
<1>5. ASSUME NEW i \in 1..(n-1) PROVE r[i] = s[IF i < k THEN i ELSE i+1]
  <2>1. r[i] = IF i <= k-1 THEN A[i] ELSE B[i - (k-1)]
    BY <1>2, <1>3, <1>4
  <2>2. CASE i <= k-1
    BY <1>1, <1>2, <2>1, <2>2
  <2>3. CASE ~(i <= k-1)
    <3>1. i - (k-1) \in 1..(n-k) /\ k + (i - (k-1)) = i + 1 /\ ~(i < k)
      BY <1>1, <2>3
    <3> QED
      BY <1>2, <2>1, <2>3, <3>1
  <2> QED
    BY <2>2, <2>3
<1> QED
  BY <1>3, <1>4, <1>5 DEF r, n, A, B
(* An element enters a sequence before the k-th.                           *)
Inserted(s, k, e) == SubSeq(s, 1, k-1) \o <<e>> \o SubSeq(s, k, Len(s))

LEMMA ElementInserted ==
  ASSUME NEW R, NEW s \in Seq(R), NEW e \in R, NEW k \in Int, 1 <= k, k <= Len(s) + 1
  PROVE  /\ Inserted(s, k, e) \in Seq(R) /\ Len(Inserted(s, k, e)) = Len(s) + 1
         /\ \A i \in 1..(Len(s)+1) :
              Inserted(s, k, e)[i] = IF i < k THEN s[i] ELSE IF i = k THEN e ELSE s[i-1]
<1> DEFINE n == Len(s)
           A == SubSeq(s, 1, k-1)
           B == SubSeq(s, k, n)
           C == A \o <<e>>
           r == C \o B
<1>1. n \in Nat /\ DOMAIN s = 1..n /\ k \in 1..(n+1)
  OBVIOUS
<1>2. /\ A \in Seq(R) /\ Len(A) = k-1 /\ \A i \in 1..(k-1) : A[i] = s[i]
      /\ B \in Seq(R) /\ Len(B) = n+1-k /\ \A i \in 1..(n+1-k) : B[i] = s[k+i-1]
  <2> HIDE DEF n
  <2>0. k \in Int /\ k-1 \in Int /\ n \in Int /\ 1 <= k /\ k <= n+1
    BY <1>1
  <2>1. /\ \A i \in 1..(k-1) : i \in 1..((k-1)-1+1) /\ 1+i-1 = i
        /\ (IF 1 <= k-1 THEN (k-1)-1+1 ELSE 0) = k-1
        /\ (IF k <= n THEN n-k+1 ELSE 0) = n+1-k
    BY <2>0
  <2>2. /\ \A i \in k..n : s[i] \in R
        /\ \A i \in 1..(k-1) : s[i] \in R
    BY <1>1
  <2>5. \A i \in 1..(n+1-k) : i \in 1..(n-k+1)
    BY <1>1
  <2>3. /\ A \in Seq(R) /\ Len(A) = IF 1 <= k-1 THEN (k-1)-1+1 ELSE 0
        /\ \A i \in 1..((k-1)-1+1) : A[i] = s[1+i-1]
    BY <2>0, <2>1, <2>2, SubSeqProperties DEF n
  <2>4. /\ B \in Seq(R) /\ Len(B) = IF k <= n THEN n-k+1 ELSE 0
        /\ \A i \in 1..(n-k+1) : B[i] = s[k+i-1]
    BY <2>0, <2>1, <2>2, SubSeqProperties DEF n
  <2> QED
    BY <2>1, <2>2, <2>3, <2>4, <2>5
<1> HIDE DEF A, B
<1>3. /\ C \in Seq(R) /\ Len(C) = k /\ C[k] = e /\ \A i \in 1..(k-1) : C[i] = s[i]
  <2>1. C = Append(A, e)
    BY <1>2
  <2>2. Append(A, e) \in Seq(R) /\ Len(Append(A, e)) = Len(A) + 1 /\ Append(A, e)[Len(A) + 1] = e
        /\ \A i \in 1..Len(A) : Append(A, e)[i] = A[i]
    BY <1>2
  <2>3. Len(A) + 1 = k
    BY <1>1, <1>2
  <2> HIDE DEF C
  <2> QED
    BY <1>2, <2>1, <2>2, <2>3
<1> HIDE DEF C
<1>4. /\ r \in Seq(R) /\ Len(r) = Len(C) + Len(B)
      /\ \A i \in 1..(Len(C) + Len(B)) : r[i] = IF i <= Len(C) THEN C[i] ELSE B[i - Len(C)]
  BY <1>2, <1>3, ConcatProperties
<1> HIDE DEF n, r
<1>5. Len(C) + Len(B) = n + 1
  BY <1>1, <1>2, <1>3
<1>6. ASSUME NEW i \in 1..(n+1)
      PROVE  r[i] = IF i < k THEN s[i] ELSE IF i = k THEN e ELSE s[i-1]
  <2>1. r[i] = IF i <= k THEN C[i] ELSE B[i - k]
    BY <1>3, <1>4, <1>5
  <2>2. CASE i < k
    <3>1. i \in 1..(k-1) /\ i <= k
      BY <1>1, <2>2
    <3> QED
      BY <1>3, <2>1, <2>2, <3>1
  <2>3. CASE i = k
    <3>1. i <= k /\ ~(i < k)
      BY <1>1, <2>3
    <3> QED
      BY <1>3, <2>1, <2>3, <3>1
  <2>4. CASE i > k
    <3>1. i - k \in 1..(n+1-k) /\ k + (i - k) - 1 = i - 1 /\ ~(i < k) /\ i # k /\ ~(i <= k)
      BY <1>1, <2>4
    <3> QED
      BY <1>2, <2>1, <3>1
  <2> QED
    BY <1>1, <2>2, <2>3, <2>4
<1> QED
  BY <1>4, <1>5, <1>6 DEF r, n, C, A, B, Inserted

(* Numbers have a least one.                                               *)
LEMMA LeastOfNumbers == ASSUME NEW I \in SUBSET Nat, I # {} PROVE \E m \in I : \A i \in I : m <= i
<1> DEFINE R == {ij \in Nat \X Nat : ij[1] < ij[2]}
<1>1. PICK m \in I : \A i \in I : <<i, m>> \notin R
  <2>1. IsWellFoundedOn(R, Nat)
    BY NatLessThanWellFounded DEF OpToRel
  <2> QED
    BY <2>1, WFMin
<1>2. ASSUME NEW i \in I PROVE m <= i
  <2>1. i \in Nat /\ m \in Nat
    OBVIOUS
  <2>2. ~(i < m)
    BY <1>1, <2>1
  <2> QED
    BY <2>1, <2>2
<1> QED
  BY <1>2

LEMMA LeastExists ==
  ASSUME NEW n \in Nat, NEW I \in SUBSET (1..n), I # {}
  PROVE  \E m \in I : \A i \in I : m <= i
<1>1. I \in SUBSET Nat
  OBVIOUS
<1> QED
  BY <1>1, LeastOfNumbers

(* What remove_if leaves: the kept elements, all of them, in their order.  *)
LEMMA KeptInOrder ==
  ASSUME NEW R, NEW s \in Seq(R), NEW K \in SUBSET (DOMAIN s)
  PROVE  /\ Cardinality(K) \in Nat /\ Cardinality(K) <= Len(s)
         /\ Kept(s, K) \in Seq(R) /\ Len(Kept(s, K)) = Cardinality(K)
         /\ DOMAIN Kept(s, K) = 1..Cardinality(K)
         /\ \E e \in [1..Cardinality(K) -> K] :
              /\ \A i, j \in 1..Cardinality(K) : i < j => e[i] < e[j]
              /\ \A k \in K : \E i \in 1..Cardinality(K) : e[i] = k
              /\ \A i \in 1..Cardinality(K) : Kept(s, K)[i] = s[e[i]]
<1> DEFINE n == Cardinality(K)
           upto(k) == {j \in K : j <= k}
           f == [k \in K |-> Cardinality(upto(k))]
           e == [i \in 1..n |-> Nth(K, i)]
<1>1. /\ Len(s) \in Nat /\ DOMAIN s = 1..Len(s) /\ K \subseteq 1..Len(s)
      /\ \A k \in DOMAIN s : s[k] \in R
  OBVIOUS
<1>2. IsFiniteSet(K) /\ n \in Nat /\ n <= Len(s)
  <2>1. \A m \in Nat : IsFiniteSet(1..m) /\ Cardinality(1..m) = m
    BY FS_Interval
  <2> QED
    BY <1>1, <2>1, FS_Subset, FS_CardinalityType
<1>3. ASSUME NEW k \in K PROVE Cardinality(upto(k)) \in 1..n
  <2>1. IsFiniteSet(upto(k)) /\ Cardinality(upto(k)) \in Nat /\ Cardinality(upto(k)) <= n
    BY <1>2, FS_Subset, FS_CardinalityType
  <2>2. upto(k) # {}
    BY <1>1
  <2>3. Cardinality(upto(k)) # 0
    BY <2>1, <2>2, FS_EmptySet
  <2> QED
    BY <1>2, <2>1, <2>3
<1>4. ASSUME NEW k \in K, NEW l \in K, k < l PROVE Cardinality(upto(k)) < Cardinality(upto(l))
  <2>1. upto(k) \subseteq upto(l) /\ l \in upto(l) /\ l \notin upto(k)
    BY <1>1, <1>4
  <2>2. IsFiniteSet(upto(l)) /\ upto(l) # upto(k)
    BY <1>2, <2>1, FS_Subset
  <2>3. /\ Cardinality(upto(k)) <= Cardinality(upto(l))
        /\ Cardinality(upto(k)) # Cardinality(upto(l))
    BY <2>1, <2>2, FS_Subset
  <2>4. Cardinality(upto(k)) \in Int /\ Cardinality(upto(l)) \in Int
    BY <1>3
  <2> QED
    BY <2>3, <2>4
<1>5. f \in [K -> 1..n] /\ \A k, l \in K : k < l => f[k] < f[l]
  BY <1>3, <1>4
<1>6. \A k, l \in K : f[k] = f[l] => k = l
  <2>1. \A k \in K : k \in Int /\ f[k] \in Int
    BY <1>1, <1>2, <1>5
  <2> HIDE DEF f
  <2> QED
    BY <1>5, <2>1
<1>7. \A i \in 1..n : \E k \in K : f[k] = i
  <2>1. IsFiniteSet(1..n) /\ Cardinality(1..n) = n
    BY <1>2, FS_Interval
  <2> HIDE DEF f
  <2>2. f \in Injection(K, 1..n)
    BY <1>5, <1>6 DEF Injection, IsInjective
  <2>3. f \in Surjection(K, 1..n)
    BY <2>1, <2>2, FS_Injection
  <2> QED
    BY <2>3 DEF Surjection
<1>8. ASSUME NEW i \in 1..n PROVE Nth(K, i) \in K /\ f[Nth(K, i)] = i
  <2>1. \E k \in K : Cardinality({j \in K : j <= k}) = i
    BY <1>7
  <2>2. Nth(K, i) \in K /\ Cardinality({j \in K : j <= Nth(K, i)}) = i
    BY <2>1 DEF Nth
  <2> QED
    BY <2>2
<1>9. e \in [1..n -> K] /\ \A i \in 1..n : f[e[i]] = i
  BY <1>8
<1>10. ASSUME NEW i \in 1..n, NEW j \in 1..n, i < j PROVE e[i] < e[j]
  <2>1. e[i] \in K /\ e[j] \in K /\ f[e[i]] = i /\ f[e[j]] = j
    BY <1>9
  <2>2. ASSUME ~(e[i] < e[j]) PROVE FALSE
    <3>1. e[j] < e[i] \/ e[j] = e[i]
      <4>1. e[i] \in Int /\ e[j] \in Int
        BY <1>1, <2>1
      <4> QED
        BY <2>2, <4>1
    <3> HIDE DEF e, f
    <3>2. f[e[j]] < f[e[i]] \/ f[e[j]] = f[e[i]]
      BY <1>5, <2>1, <3>1
    <3>3. i \in Int /\ j \in Int
      BY <1>2
    <3> QED
      BY <1>10, <2>1, <3>2, <3>3
  <2> QED
    BY <2>2
<1>11. ASSUME NEW k \in K PROVE \E i \in 1..n : e[i] = k
  <2> HIDE DEF e, f
  <2>1. f[k] \in 1..n
    BY <1>5
  <2>2. e[f[k]] \in K /\ f[e[f[k]]] = f[k]
    BY <1>9, <2>1
  <2> QED
    BY <1>6, <2>1, <2>2
<1>12. Kept(s, K) = [i \in 1..n |-> s[e[i]]]
  BY DEF Kept
<1> HIDE DEF e
<1>13. Kept(s, K) \in Seq(R) /\ Len(Kept(s, K)) = n /\ DOMAIN Kept(s, K) = 1..n
  <2>1. \A i \in 1..n : s[e[i]] \in R
    BY <1>1, <1>9
  <2> QED
    BY <1>2, <1>12, <2>1
<1> QED
  BY <1>2, <1>9, <1>10, <1>11, <1>12, <1>13

(* How often a value is in a sequence, and at the positions K of it.       *)
CountAt(s, t)    == Cardinality({i \in DOMAIN s : s[i] = t})
CountOf(s, K, t) == Cardinality({k \in K : s[k] = t})

(* What is kept, as a set, and how often each value is.                    *)
LEMMA KeptCounted ==
  ASSUME NEW R, NEW s \in Seq(R), NEW K \in SUBSET (DOMAIN s)
  PROVE  /\ \A x : x \in Range(Kept(s, K)) <=> \E k \in K : x = s[k]
         /\ Kept(s, K) = <<>> <=> K = {}
         /\ \A t : CountAt(Kept(s, K), t) = CountOf(s, K, t)
<1> DEFINE y == Kept(s, K)
           n == Cardinality(K)
<1>1. y \in Seq(R) /\ Len(y) = n /\ DOMAIN y = 1..n /\ n \in Nat /\ IsFiniteSet(K)
  <2>1. y \in Seq(R) /\ Len(y) = n /\ DOMAIN y = 1..n /\ n \in Nat
    BY KeptInOrder
  <2>2. Len(s) \in Nat /\ DOMAIN s = 1..Len(s) /\ \A m \in Nat : IsFiniteSet(1..m)
    BY FS_Interval
  <2> QED
    BY <2>1, <2>2, FS_Subset
<1>2. PICK e \in [1..n -> K] :
           /\ \A i, j \in 1..n : i < j => e[i] < e[j]
           /\ \A k \in K : \E i \in 1..n : e[i] = k
           /\ \A i \in 1..n : y[i] = s[e[i]]
  BY KeptInOrder
<1> HIDE DEF y
<1>3. \A i \in 1..n : e[i] \in K /\ e[i] \in Int /\ i \in Int
  BY <1>1, <1>2
<1>4. \A i, j \in 1..n : e[i] = e[j] => i = j
  <2> SUFFICES ASSUME NEW i \in 1..n, NEW j \in 1..n, e[i] = e[j] PROVE i = j
    OBVIOUS
  <2>1. ~(i < j) /\ ~(j < i)
    BY <1>2, <1>3
  <2> QED
    BY <1>3, <2>1
<1>5. \A x : x \in Range(y) <=> \E k \in K : x = s[k]
  <2>1. \A k \in K : \E i \in 1..n : y[i] = s[k]
    <3> SUFFICES ASSUME NEW k \in K PROVE \E i \in 1..n : y[i] = s[k]
      OBVIOUS
    <3>1. PICK i \in 1..n : e[i] = k
      BY <1>2
    <3> QED
      BY <1>2, <3>1
  <2>2. \A i \in 1..n : \E k \in K : y[i] = s[k]
    BY <1>2, <1>3
  <2>3. \A x : x \in Range(y) <=> \E i \in 1..n : x = y[i]
    BY <1>1 DEF Range
  <2> QED
    BY <2>1, <2>2, <2>3
<1>6. y = <<>> <=> K = {}
  <2>1. y = <<>> <=> n = 0
    BY <1>1
  <2>2. n = 0 <=> K = {}
    BY <1>1, FS_EmptySet
  <2> QED
    BY <2>1, <2>2
<1>7. ASSUME NEW t PROVE Cardinality({i \in 1..n : y[i] = t}) = Cardinality({k \in K : s[k] = t})
  <2> DEFINE A == {i \in 1..n : y[i] = t}
             B == {k \in K : s[k] = t}
             f == [i \in A |-> e[i]]
  <2>1. f \in [A -> B] /\ \A i \in A : f[i] = e[i]
    BY <1>2, <1>3
  <2>2. \A i, j \in A : f[i] = f[j] => i = j
    BY <1>4, <2>1
  <2>3. \A b \in B : \E i \in A : f[i] = b
    <3> SUFFICES ASSUME NEW b \in B PROVE \E i \in A : e[i] = b
      BY <2>1
    <3>1. PICK i \in 1..n : e[i] = b
      BY <1>2
    <3>2. i \in A
      BY <1>2, <3>1
    <3> QED
      BY <3>1, <3>2
  <2>4. IsFiniteSet(B)
    BY <1>1, FS_Subset
  <2> HIDE DEF f, A, B
  <2>5. f \in Injection(A, B) /\ f \in Surjection(A, B)
    BY <2>1, <2>2, <2>3 DEF Injection, IsInjective, Surjection
  <2>6. Cardinality(A) = Cardinality(B)
    BY <2>4, <2>5, FS_Injection
  <2> QED
    BY <2>6 DEF A, B
<1> QED
  BY <1>1, <1>5, <1>6, <1>7 DEF y, CountAt, CountOf

-----------------------------------------------------------------------------
(* Sums.                                                                   *)

(* Among sets there is one that contains none of the others.               *)
LEMMA SmallestSet ==
  ASSUME NEW S, IsFiniteSet(S), NEW B \in SUBSET (SUBSET S), B # {}
  PROVE  \E s \in B : \A t \in B : t \subseteq s => t = s
<1>1. IsWellFoundedOn(StrictSubsetOrdering(S), FiniteSubsetsOf(S))
  BY FS_StrictSubsetOrderingWellFounded
<1>2. B \subseteq FiniteSubsetsOf(S)
  BY FS_Subset DEF FiniteSubsetsOf
<1>3. PICK s \in B : \A t \in B : <<t, s>> \notin StrictSubsetOrdering(S)
  BY <1>1, <1>2, WFMin
<1> QED
  BY <1>3 DEF StrictSubsetOrdering

(* A sum counts units.                                                     *)
Units(f, s) == {p \in s \X Nat : p[2] < f[p[1]]}

LEMMA OneMoreUnits ==
  ASSUME NEW S, NEW f \in [S -> Nat], NEW s \in SUBSET S, NEW x \in s,
         IsFiniteSet(Units(f, s \ {x}))
  PROVE  /\ IsFiniteSet(Units(f, s))
         /\ Cardinality(Units(f, s)) = f[x] + Cardinality(Units(f, s \ {x}))
<1> DEFINE mine == {x} \X (0..(f[x] - 1))
           rest == Units(f, s \ {x})
<1>1. f[x] \in Nat
  OBVIOUS
<1>2. IsFiniteSet(0..(f[x] - 1)) /\ Cardinality(0..(f[x] - 1)) = f[x]
  BY <1>1, FS_Interval
<1>3. IsFiniteSet(mine) /\ Cardinality(mine) = f[x]
  <2>1. IsFiniteSet({x}) /\ Cardinality({x}) = 1
    BY FS_Singleton
  <2> DEFINE I == 0..(f[x] - 1)
             X == {x}
  <2> HIDE DEF I, X
  <2>2. IsFiniteSet(X \X I) /\ Cardinality(X \X I) = Cardinality(X) * Cardinality(I)
    BY <1>2, <2>1, FS_Product DEF I, X
  <2> QED
    BY <1>1, <1>2, <2>1, <2>2 DEF I, X
<1>4. Units(f, s) = rest \cup mine
  <2>1. \A p \in s \X Nat : p[2] < f[p[1]] <=> p \in rest \/ p \in mine
    BY <1>1 DEF Units
  <2> QED
    BY <1>1, <2>1 DEF Units
<1>5. rest \cap mine = {}
  BY DEF Units
<1> HIDE DEF mine, rest
<1>6. /\ IsFiniteSet(rest \cup mine)
      /\ Cardinality(rest \cup mine) = Cardinality(rest) + Cardinality(mine) - Cardinality(rest \cap mine)
  BY <1>3, FS_Union DEF rest
<1>7. Cardinality(rest) \in Nat /\ Cardinality(rest \cap mine) = 0
  BY <1>5, FS_CardinalityType, FS_EmptySet DEF rest
<1>8. Cardinality(rest \cup mine) = f[x] + Cardinality(rest)
  BY <1>1, <1>3, <1>6, <1>7
<1> QED
  BY <1>4, <1>6, <1>8 DEF rest

LEMMA UnitsFinite ==
  ASSUME NEW S, IsFiniteSet(S), NEW f \in [S -> Nat], NEW s \in SUBSET S
  PROVE  IsFiniteSet(Units(f, s)) /\ Cardinality(Units(f, s)) \in Nat
<1> DEFINE B == {t \in SUBSET S : ~IsFiniteSet(Units(f, t))}
<1>1. ASSUME B # {} PROVE FALSE
  <2>0. B \in SUBSET (SUBSET S)
    OBVIOUS
  <2> HIDE DEF B
  <2>1. PICK t \in B : \A u \in B : u \subseteq t => u = t
    BY <1>1, <2>0, SmallestSet
  <2> USE DEF B
  <2>2. CASE t = {}
    <3>1. Units(f, {}) = {}
      BY DEF Units
    <3> QED
      BY <2>1, <2>2, <3>1, FS_EmptySet
  <2>3. CASE t # {}
    <3>1. PICK x \in t : TRUE
      BY <2>3
    <3>2. IsFiniteSet(Units(f, t \ {x}))
      BY <2>1, <3>1
    <3>3. IsFiniteSet(Units(f, t))
      BY <3>1, <3>2, <2>1, OneMoreUnits
    <3> QED
      BY <2>1, <3>3
  <2> QED
    BY <2>2, <2>3
<1> QED
  BY <1>1, FS_CardinalityType

LEMMA SumCounted ==
  ASSUME NEW S, IsFiniteSet(S), NEW f \in [S -> Nat]
  PROVE  SumFunction(f) = Cardinality(Units(f, S))
<1> DEFINE pick(s) == CHOOSE x \in s : TRUE
           step(g) == [s \in SUBSET S |-> IF s = {} THEN 0 ELSE f[pick(s)] + g[s \ {pick(s)}]]
           iter == CHOOSE g : g = step(g)
           count == [s \in SUBSET S |-> Cardinality(Units(f, s))]
<1>1. SumFunction(f) = iter[S]
  <2>1. DOMAIN f = S
    OBVIOUS
  <2> QED
    BY <2>1 DEF SumFunction, SumFunctionOnSet, FoldFunctionOnSet, MapThenFoldSet
<1>2. ASSUME NEW s \in SUBSET S, s # {}
      PROVE  pick(s) \in s /\ count[s] = f[pick(s)] + count[s \ {pick(s)}]
  <2>1. pick(s) \in s
    BY <1>2
  <2>2. IsFiniteSet(Units(f, s \ {pick(s)}))
    BY UnitsFinite
  <2> HIDE DEF pick
  <2>3. Cardinality(Units(f, s)) = f[pick(s)] + Cardinality(Units(f, s \ {pick(s)}))
    BY <2>1, <2>2, OneMoreUnits
  <2> QED
    BY <2>1, <2>3
<1>3. count[{}] = 0
  <2>1. Units(f, {}) = {}
    BY DEF Units
  <2> QED
    BY <2>1, FS_EmptySet
<1> HIDE DEF pick
<1>4. count = step(count)
  <2>1. \A s \in SUBSET S : count[s] = IF s = {} THEN 0 ELSE f[pick(s)] + count[s \ {pick(s)}]
    BY <1>2, <1>3
  <2>2. count = [s \in SUBSET S |-> count[s]]
    OBVIOUS
  <2> HIDE DEF count
  <2> QED
    BY <2>1, <2>2
<1> HIDE DEF count, step
<1>5. iter = step(iter)
  BY <1>4
<1> HIDE DEF iter
<1>6. \A s \in SUBSET S : iter[s] = IF s = {} THEN 0 ELSE f[pick(s)] + iter[s \ {pick(s)}]
  BY <1>5 DEF step
<1> DEFINE B == {s \in SUBSET S : iter[s] # count[s]}
<1>7. ASSUME B # {} PROVE FALSE
  <2>0. B \in SUBSET (SUBSET S)
    OBVIOUS
  <2> HIDE DEF B
  <2>1. PICK s \in B : \A t \in B : t \subseteq s => t = s
    BY <1>7, <2>0, SmallestSet
  <2> USE DEF B
  <2>2. s # {}
    BY <1>3, <1>6, <2>1
  <2>3. pick(s) \in s
    BY <1>2, <2>1, <2>2
  <2>4. s \ {pick(s)} \in SUBSET S /\ s \ {pick(s)} # s /\ s \ {pick(s)} \subseteq s
    BY <2>1, <2>3
  <2>5. iter[s \ {pick(s)}] = count[s \ {pick(s)}]
    BY <2>1, <2>4
  <2> QED
    BY <1>2, <1>6, <2>1, <2>2, <2>5
<1>8. count[S] = Cardinality(Units(f, S))
  BY DEF count
<1> QED
  BY <1>1, <1>7, <1>8

LEMMA SumNat ==
  ASSUME NEW S, IsFiniteSet(S), NEW f \in [S -> Nat] PROVE SumFunction(f) \in Nat
<1>1. S \in SUBSET S
  OBVIOUS
<1> QED
  BY <1>1, SumCounted, UnitsFinite

(* A sum over disjoint sets, and over an element more.                     *)
SumParts(S, T, f, g, h) ==
  /\ IsFiniteSet(S) /\ IsFiniteSet(T) /\ S \cap T = {}
  /\ f \in [S -> Nat] /\ g \in [T -> Nat] /\ h \in [S \cup T -> Nat]
  /\ (\A x \in S : h[x] = f[x]) /\ \A x \in T : h[x] = g[x]

LEMMA SumUnion ==
  ASSUME NEW S, NEW T, NEW f, NEW g, NEW h, SumParts(S, T, f, g, h)
  PROVE  SumFunction(h) = SumFunction(f) + SumFunction(g)
<1> USE DEF SumParts
<1> DEFINE U == Units(f, S)
           V == Units(g, T)
<1>1. Units(h, S \cup T) = U \cup V
  <2>1. \A p \in (S \cup T) \X Nat : p[2] < h[p[1]] <=> p \in U \/ p \in V
    <3>1. \A p \in S \X Nat : p[1] \in S
      OBVIOUS
    <3>2. \A p \in T \X Nat : p[1] \in T
      OBVIOUS
    <3> QED
      BY <3>1, <3>2 DEF Units
  <2> QED
    BY <2>1 DEF Units
<1>2. U \cap V = {}
  BY DEF Units
<1>3. /\ IsFiniteSet(U) /\ Cardinality(U) \in Nat /\ SumFunction(f) = Cardinality(U)
      /\ IsFiniteSet(V) /\ Cardinality(V) \in Nat /\ SumFunction(g) = Cardinality(V)
  <2>1. S \in SUBSET S /\ T \in SUBSET T
    OBVIOUS
  <2> QED
    BY <2>1, UnitsFinite, SumCounted
<1>4. SumFunction(h) = Cardinality(Units(h, S \cup T))
  <2>1. IsFiniteSet(S \cup T)
    BY FS_Union
  <2> QED
    BY <2>1, SumCounted
<1> HIDE DEF U, V
<1>5. Cardinality(U \cup V) = Cardinality(U) + Cardinality(V) - Cardinality(U \cap V)
  BY <1>3, FS_Union
<1>6. Cardinality(U \cap V) = 0
  BY <1>2, FS_EmptySet
<1>7. Cardinality(U \cup V) = Cardinality(U) + Cardinality(V)
  BY <1>3, <1>5, <1>6
<1>8. SumFunction(h) = Cardinality(U \cup V)
  BY <1>1, <1>4
<1> QED
  BY <1>3, <1>7, <1>8

LEMMA SumMore ==
  ASSUME NEW S, IsFiniteSet(S), NEW x, x \notin S,
         NEW f \in [S -> Nat], NEW h \in [S \cup {x} -> Nat], \A y \in S : h[y] = f[y]
  PROVE  SumFunction(h) = SumFunction(f) + h[x]
<1> DEFINE T == S \cup {x}
<1>1. IsFiniteSet(T) /\ T \in SUBSET T /\ x \in T /\ T \ {x} = S
  <2>1. IsFiniteSet(T)
    BY FS_AddElement
  <2> QED
    BY <2>1
<1>2. Units(h, S) = Units(f, S)
  BY DEF Units
<1>3. IsFiniteSet(Units(f, S)) /\ Cardinality(Units(f, S)) \in Nat /\ h[x] \in Nat
  <2>1. S \in SUBSET S
    OBVIOUS
  <2> QED
    BY <2>1, UnitsFinite
<1>4. h \in [T -> Nat]
  OBVIOUS
<1> HIDE DEF T
<1>5. Cardinality(Units(h, T)) = h[x] + Cardinality(Units(h, T \ {x}))
  <2>1. IsFiniteSet(Units(h, T \ {x}))
    BY <1>1, <1>2, <1>3
  <2> QED
    BY <1>1, <1>4, <2>1, OneMoreUnits
<1>6. SumFunction(h) = Cardinality(Units(h, T)) /\ SumFunction(f) = Cardinality(Units(f, S))
  BY <1>1, <1>4, SumCounted
<1>7. Cardinality(Units(h, T \ {x})) = Cardinality(Units(f, S))
  BY <1>1, <1>2
<1> QED
  BY <1>3, <1>5, <1>6, <1>7

(* The same numbers at other places.                                       *)
SumTerms(S, T, e, f, g) ==
  /\ IsFiniteSet(S) /\ IsFiniteSet(T) /\ e \in [S -> T]
  /\ (\A x, y \in S : e[x] = e[y] => x = y) /\ (\A z \in T : \E x \in S : e[x] = z)
  /\ f \in [S -> Nat] /\ g \in [T -> Nat] /\ \A x \in S : f[x] = g[e[x]]

LEMMA SumRenamed ==
  ASSUME NEW S, NEW T, NEW e, NEW f, NEW g, SumTerms(S, T, e, f, g)
  PROVE  SumFunction(f) = SumFunction(g)
<1> USE DEF SumTerms
<1> DEFINE U == Units(f, S)
           V == Units(g, T)
           d == [p \in U |-> <<e[p[1]], p[2]>>]
<1>1. /\ \A p : p \in U <=> p \in S \X Nat /\ p[2] < f[p[1]]
      /\ \A p : p \in V <=> p \in T \X Nat /\ p[2] < g[p[1]]
  BY DEF Units
<1>2. \A p \in U : d[p] = <<e[p[1]], p[2]>> /\ d[p] \in V
  BY <1>1
<1>3. d \in [U -> V]
  BY <1>2
<1>4. \A p, q \in U : d[p] = d[q] => p = q
  <2> SUFFICES ASSUME NEW p \in U, NEW q \in U, d[p] = d[q] PROVE p = q
    OBVIOUS
  <2>1. e[p[1]] = e[q[1]] /\ p[2] = q[2]
    BY <1>2
  <2>2. p \in S \X Nat /\ q \in S \X Nat
    BY <1>1
  <2> QED
    BY <2>1, <2>2
<1>5. \A q \in V : \E p \in U : d[p] = q
  <2> SUFFICES ASSUME NEW q \in V PROVE \E p \in U : d[p] = q
    OBVIOUS
  <2>1. q \in T \X Nat /\ q[2] < g[q[1]]
    BY <1>1
  <2>2. PICK x \in S : e[x] = q[1]
    BY <2>1
  <2>3. <<x, q[2]>> \in U
    BY <1>1, <2>1, <2>2
  <2>4. d[<<x, q[2]>>] = q
    BY <1>2, <2>1, <2>2, <2>3
  <2> QED
    BY <2>3, <2>4
<1>6. IsFiniteSet(V) /\ SumFunction(f) = Cardinality(U) /\ SumFunction(g) = Cardinality(V)
  <2>1. T \in SUBSET T
    OBVIOUS
  <2> QED
    BY <2>1, UnitsFinite, SumCounted
<1> HIDE DEF U, V, d
<1>7. d \in Injection(U, V) /\ d \in Surjection(U, V)
  BY <1>3, <1>4, <1>5 DEF Injection, IsInjective, Surjection
<1>8. Cardinality(U) = Cardinality(V)
  BY <1>6, <1>7, FS_Injection
<1> QED
  BY <1>6, <1>8

-----------------------------------------------------------------------------
(* Kahn's algorithm.                                                       *)

(* ord has each element of V once: some order in which a table iterates.   *)
Lists(ord, V) == ord \in Seq(V) /\ IsInjective(ord) /\ ToSet(ord) = V

LEMMA ListLength ==
  ASSUME NEW V, NEW ord, Lists(ord, V)
  PROVE  IsFiniteSet(V) /\ Cardinality(V) = Len(ord) /\ Len(ord) \in Nat /\ DOMAIN ord = 1..Len(ord)
<1>1. ord \in Seq(V) /\ Len(ord) \in Nat /\ DOMAIN ord = 1..Len(ord)
  BY DEF Lists
<1>2. ord \in Surjection(1..Len(ord), V) /\ ord \in Injection(1..Len(ord), V)
  <2>1. ord \in [1..Len(ord) -> V]
    BY <1>1
  <2> QED
    BY <1>1, <2>1 DEF Lists, ToSet, IsInjective, Surjection, Injection
<1>3. IsFiniteSet(1..Len(ord)) /\ Cardinality(1..Len(ord)) = Len(ord)
  <2>1. \A m \in Nat : IsFiniteSet(1..m) /\ Cardinality(1..m) = m
    BY FS_Interval
  <2> QED
    BY <1>1, <2>1
<1> QED
  BY <1>1, <1>2, <1>3, FS_Surjection

(* What is kept of elements that are there once is there once.             *)
LEMMA KeptOnce ==
  ASSUME NEW V, NEW s \in Seq(V), IsInjective(s), NEW K \in SUBSET (DOMAIN s)
  PROVE  /\ Kept(s, K) \in Seq(V) /\ IsInjective(Kept(s, K))
         /\ \A x : x \in ToSet(Kept(s, K)) <=> \E k \in K : x = s[k]
         /\ \A i, j \in DOMAIN Kept(s, K) :
              i < j => \E k, l \in K : k < l /\ Kept(s, K)[i] = s[k] /\ Kept(s, K)[j] = s[l]
<1> DEFINE y == Kept(s, K)
           n == Cardinality(K)
<1>1. y \in Seq(V) /\ DOMAIN y = 1..n /\ n \in Nat
  BY KeptInOrder
<1>2. PICK e \in [1..n -> K] :
           /\ \A i, j \in 1..n : i < j => e[i] < e[j]
           /\ \A k \in K : \E i \in 1..n : e[i] = k
           /\ \A i \in 1..n : y[i] = s[e[i]]
  BY KeptInOrder
<1> HIDE DEF y, n
<1>3. \A i \in 1..n : e[i] \in K /\ e[i] \in DOMAIN s /\ e[i] \in Int
  BY <1>2
<1>4. ASSUME NEW i \in 1..n, NEW j \in 1..n, y[i] = y[j] PROVE i = j
  <2>1. e[i] = e[j]
    BY <1>2, <1>3, <1>4 DEF IsInjective
  <2>2. ~(i < j) /\ ~(j < i)
    BY <1>2, <1>3, <2>1
  <2> QED
    BY <1>1, <2>2
<1>5. \A x : x \in ToSet(y) <=> \E k \in K : x = s[k]
  <2>1. ASSUME NEW i \in 1..n PROVE e[i] \in K /\ y[i] = s[e[i]]
    BY <1>2, <1>3
  <2>2. ASSUME NEW k \in K PROVE \E i \in 1..n : y[i] = s[k]
    <3>1. PICK i \in 1..n : e[i] = k
      BY <1>2
    <3> QED
      BY <2>1, <3>1
  <2>3. \A x : x \in ToSet(y) <=> \E i \in 1..n : x = y[i]
    BY <1>1 DEF ToSet
  <2> SUFFICES ASSUME NEW x PROVE x \in ToSet(y) <=> \E k \in K : x = s[k]
    OBVIOUS
  <2>4. ASSUME x \in ToSet(y) PROVE \E k \in K : x = s[k]
    <3>1. PICK i \in 1..n : x = y[i]
      BY <2>3, <2>4
    <3> QED
      BY <2>1, <3>1
  <2>5. ASSUME NEW k \in K, x = s[k] PROVE x \in ToSet(y)
    BY <2>2, <2>3, <2>5
  <2> QED
    BY <2>4, <2>5
<1>6. \A i, j \in 1..n : i < j => \E k, l \in K : k < l /\ y[i] = s[k] /\ y[j] = s[l]
  BY <1>2, <1>3
<1>7. IsInjective(y)
  BY <1>1, <1>4 DEF IsInjective
<1> QED
  BY <1>1, <1>5, <1>6, <1>7 DEF y

(* Between two turns of the loop: a node is in the result after all that   *)
(* it depends on, and ready when only these are there.                     *)
EachAfter(V, needs, r) == \A i \in DOMAIN r : \A m \in needs[r[i]] \cap V : \E j \in DOMAIN r : j < i /\ r[j] = m

Turned(V, needs, r, q) ==
  /\ r \in Seq(V) /\ IsInjective(r) /\ EachAfter(V, needs, r)
  /\ q \in Seq(V) /\ IsInjective(q)
  /\ \A n \in V : n \in ToSet(q) <=> n \notin ToSet(r) /\ needs[n] \cap V \subseteq ToSet(r)

LEMMA NoInDegree ==
  ASSUME NEW V, IsFiniteSet(V), NEW needs, NEW n, NEW done
  PROVE  InDegree(V, needs, n, done) = 0 <=> needs[n] \cap V \subseteq done
<1>1. IsFiniteSet((needs[n] \cap V) \ done)
  BY FS_Subset
<1> QED
  BY <1>1, FS_EmptySet DEF InDegree

LEMMA SortStarts ==
  ASSUME NEW V, NEW needs, NEW ord, Lists(ord, V)
  PROVE  Turned(V, needs, Start(V, needs, ord).result, Start(V, needs, ord).ready)
<1> DEFINE K == {i \in DOMAIN ord : InDegree(V, needs, ord[i], {}) = 0}
           q == Kept(ord, K)
<1>1. /\ q \in Seq(V) /\ IsInjective(q)
      /\ \A x : x \in ToSet(q) <=> \E k \in K : x = ord[k]
  BY KeptOnce DEF Lists
<1>2. IsFiniteSet(V)
  BY ListLength
<1>3. ASSUME NEW n \in V PROVE n \in ToSet(q) <=> needs[n] \cap V \subseteq {}
  <2>1. PICK k \in DOMAIN ord : ord[k] = n
    BY DEF Lists, ToSet
  <2>2. \A l \in DOMAIN ord : ord[l] = n => l = k
    BY <2>1 DEF Lists, IsInjective
  <2>3. k \in K <=> needs[n] \cap V \subseteq {}
    BY <1>2, <2>1, NoInDegree
  <2>4. n \in ToSet(q) <=> k \in K
    <3> HIDE DEF q
    <3> QED
      BY <1>1, <2>1, <2>2
  <2> QED
    BY <2>3, <2>4
<1>4. Start(V, needs, ord).result = <<>> /\ Start(V, needs, ord).ready = q
  BY DEF Start
<1> HIDE DEF q
<1>5. <<>> \in Seq(V) /\ DOMAIN <<>> = {} /\ ToSet(<<>>) = {}
  BY DEF ToSet
<1> QED
  BY <1>1, <1>3, <1>4, <1>5 DEF Turned, EachAfter, IsInjective

LEMMA SortTurns ==
  ASSUME NEW V, NEW needs, NEW ord, Lists(ord, V), NEW r, NEW q, Turned(V, needs, r, q), q # <<>>
  PROVE  LET freed == {i \in DOMAIN ord : BecomesReady(V, needs, ord[i], Head(q), ToSet(r))}
         IN  /\ Turned(V, needs, Append(r, Head(q)), Tail(q) \o Kept(ord, freed))
             /\ Len(Append(r, Head(q))) = Len(r) + 1
<1> DEFINE c     == Head(q)
           freed == {i \in DOMAIN ord : BecomesReady(V, needs, ord[i], c, ToSet(r))}
           kept  == Kept(ord, freed)
           tail  == Tail(q)
           s     == Append(r, c)
           z     == tail \o kept
<1>1. /\ r \in Seq(V) /\ Len(r) \in Nat /\ DOMAIN r = 1..Len(r)
      /\ q \in Seq(V) /\ Len(q) \in Nat \ {0} /\ DOMAIN q = 1..Len(q) /\ c = q[1] /\ c \in V
  BY DEF Turned
<1>2. c \notin ToSet(r) /\ needs[c] \cap V \subseteq ToSet(r)
  <2>1. c \in ToSet(q)
    BY <1>1 DEF ToSet
  <2> QED
    BY <1>1, <2>1 DEF Turned
<1>3. /\ s \in Seq(V) /\ Len(s) = Len(r) + 1 /\ DOMAIN s = 1..(Len(r) + 1)
      /\ s[Len(r) + 1] = c /\ \A i \in 1..Len(r) : s[i] = r[i]
  BY <1>1
<1>4. /\ tail \in Seq(V) /\ Len(tail) = Len(q) - 1 /\ DOMAIN tail = 1..(Len(q) - 1)
      /\ \A i \in 1..(Len(q) - 1) : tail[i] = q[i + 1]
  BY <1>1
<1>5. /\ kept \in Seq(V) /\ IsInjective(kept)
      /\ \A x : x \in ToSet(kept) <=> \E k \in freed : x = ord[k]
  BY KeptOnce DEF Lists
<1> HIDE DEF c, s, tail
<1>6. ToSet(s) = ToSet(r) \cup {c}
  <2>1. \A x \in ToSet(s) : x \in ToSet(r) \cup {c}
    BY <1>1, <1>3 DEF ToSet
  <2>2. \A x \in ToSet(r) : x \in ToSet(s)
    BY <1>1, <1>3 DEF ToSet
  <2>3. c \in ToSet(s)
    BY <1>1, <1>3 DEF ToSet
  <2> QED
    BY <2>1, <2>2, <2>3
<1>7. IsInjective(s)
  <2>1. \A i, j \in 1..Len(r) : r[i] = r[j] => i = j
    BY <1>1 DEF Turned, IsInjective
  <2>2. \A i \in 1..Len(r) : r[i] # c
    BY <1>1, <1>2 DEF ToSet
  <2>3. \A i \in 1..(Len(r) + 1) : i \in 1..Len(r) \/ i = Len(r) + 1
    BY <1>1
  <2> QED
    BY <1>3, <2>1, <2>2, <2>3 DEF IsInjective
<1>8. EachAfter(V, needs, s)
  <2> SUFFICES ASSUME NEW i \in DOMAIN s, NEW m \in needs[s[i]] \cap V
               PROVE  \E j \in DOMAIN s : j < i /\ s[j] = m
    BY DEF EachAfter
  <2>1. CASE i \in 1..Len(r)
    <3>1. s[i] = r[i] /\ i \in DOMAIN r
      BY <1>1, <1>3, <2>1
    <3>2. PICK j \in DOMAIN r : j < i /\ r[j] = m
      BY <3>1 DEF Turned, EachAfter
    <3> QED
      BY <1>1, <1>3, <3>2
  <2>2. CASE i = Len(r) + 1
    <3>1. m \in ToSet(r)
      BY <1>2, <1>3, <2>2
    <3>2. PICK j \in DOMAIN r : r[j] = m
      BY <3>1 DEF ToSet
    <3> QED
      BY <1>1, <1>3, <2>2, <3>2
  <2> QED
    BY <1>1, <1>3, <2>1, <2>2
<1>9. \A x : x \in ToSet(tail) <=> x \in ToSet(q) /\ x # c
  <2>1. ASSUME NEW x \in ToSet(tail) PROVE x \in ToSet(q) /\ x # c
    <3>1. PICK i \in 1..(Len(q) - 1) : x = q[i + 1]
      BY <1>4, <2>1 DEF ToSet
    <3>2. i + 1 \in DOMAIN q /\ 1 \in DOMAIN q /\ i + 1 # 1
      BY <1>1
    <3> QED
      BY <1>1, <3>1, <3>2 DEF ToSet, Turned, IsInjective
  <2>2. ASSUME NEW x \in ToSet(q), x # c PROVE x \in ToSet(tail)
    <3>1. PICK i \in 1..Len(q) : x = q[i]
      BY <1>1 DEF ToSet
    <3>2. i - 1 \in 1..(Len(q) - 1) /\ (i - 1) + 1 = i
      BY <1>1, <2>2, <3>1
    <3> QED
      BY <1>4, <3>1, <3>2 DEF ToSet
  <2> QED
    BY <2>1, <2>2
<1>10. ASSUME NEW n \in V
       PROVE  n \in ToSet(kept) <=> c \in needs[n] /\ needs[n] \cap V \subseteq ToSet(r) \cup {c}
  <2>1. PICK k \in DOMAIN ord : ord[k] = n
    BY DEF Lists, ToSet
  <2>2. \A l \in DOMAIN ord : ord[l] = n => l = k
    BY <2>1 DEF Lists, IsInjective
  <2>3. IsFiniteSet(V)
    BY ListLength
  <2>4. k \in freed <=> c \in needs[n] /\ needs[n] \cap V \subseteq ToSet(r) \cup {c}
    BY <2>1, <2>3, NoInDegree DEF BecomesReady
  <2>5. n \in ToSet(kept) <=> k \in freed
    <3> HIDE DEF kept
    <3> QED
      BY <1>5, <2>1, <2>2
  <2> QED
    BY <2>4, <2>5
<1> HIDE DEF kept, freed
(* What a node in the result depends on is there, too.                     *)
<1>11. ASSUME NEW n \in ToSet(r), NEW m \in needs[n] \cap V PROVE m \in ToSet(r)
  <2>1. PICK i \in DOMAIN r : r[i] = n
    BY <1>11 DEF ToSet
  <2> QED
    BY <1>11, <2>1 DEF Turned, EachAfter, ToSet
<1>12. \A n \in V : n \in ToSet(kept) => n \notin ToSet(r) /\ n # c /\ n \notin ToSet(q)
  <2> SUFFICES ASSUME NEW n \in V, n \in ToSet(kept) PROVE n \notin ToSet(r) /\ n # c /\ n \notin ToSet(q)
    OBVIOUS
  <2>1. c \in needs[n] \cap V
    BY <1>1, <1>10
  <2>2. ~(needs[n] \cap V \subseteq ToSet(r))
    BY <1>2, <2>1
  <2>3. n \notin ToSet(q)
    BY <2>2 DEF Turned
  <2> QED
    BY <1>2, <1>11, <2>1, <2>2, <2>3
<1>13. /\ z \in Seq(V) /\ Len(z) = Len(tail) + Len(kept) /\ Len(kept) \in Nat
       /\ \A i \in 1..(Len(tail) + Len(kept)) :
            z[i] = IF i <= Len(tail) THEN tail[i] ELSE kept[i - Len(tail)]
  <2>1. Len(kept) \in Nat
    BY <1>5
  <2> QED
    BY <1>4, <1>5, <2>1, ConcatProperties
<1> HIDE DEF z
<1>14. DOMAIN z = 1..Len(z) /\ DOMAIN kept = 1..Len(kept) /\ Len(tail) \in Nat
  BY <1>4, <1>5, <1>13
<1>15. ToSet(z) = ToSet(tail) \cup ToSet(kept)
  <2>1. ASSUME NEW i \in DOMAIN z PROVE z[i] \in ToSet(tail) \cup ToSet(kept)
    <3>1. CASE i <= Len(tail)
      <4>1. i \in DOMAIN tail /\ z[i] = tail[i]
        BY <1>4, <1>13, <1>14, <3>1
      <4> QED
        BY <4>1 DEF ToSet
    <3>2. CASE ~(i <= Len(tail))
      <4>1. i - Len(tail) \in DOMAIN kept /\ z[i] = kept[i - Len(tail)]
        BY <1>13, <1>14, <3>2
      <4> QED
        BY <4>1 DEF ToSet
    <3> QED
      BY <3>1, <3>2
  <2>2. ASSUME NEW i \in DOMAIN tail PROVE tail[i] \in ToSet(z)
    <3>1. i \in DOMAIN z /\ z[i] = tail[i]
      BY <1>4, <1>13, <1>14
    <3> QED
      BY <3>1 DEF ToSet
  <2>3. ASSUME NEW i \in DOMAIN kept PROVE kept[i] \in ToSet(z)
    <3>1. i + Len(tail) \in 1..(Len(tail) + Len(kept)) /\ ~(i + Len(tail) <= Len(tail))
          /\ (i + Len(tail)) - Len(tail) = i
      BY <1>14
    <3>2. i + Len(tail) \in DOMAIN z /\ z[i + Len(tail)] = kept[i]
      BY <1>13, <1>14, <3>1
    <3> QED
      BY <3>2 DEF ToSet
  <2>4. /\ \A x \in ToSet(z) : x \in ToSet(tail) \cup ToSet(kept)
        /\ \A x \in ToSet(tail) \cup ToSet(kept) : x \in ToSet(z)
    BY <2>1, <2>2, <2>3 DEF ToSet
  <2> QED
    BY <2>4
<1>16. IsInjective(z)
  <2> SUFFICES ASSUME NEW i \in DOMAIN z, NEW j \in DOMAIN z, z[i] = z[j] PROVE i = j
    BY DEF IsInjective
  <2>1. CASE i <= Len(tail) /\ j <= Len(tail)
    <3>1. /\ z[i] = q[i + 1] /\ z[j] = q[j + 1] /\ i + 1 \in DOMAIN q /\ j + 1 \in DOMAIN q
          /\ i \in Int /\ j \in Int
      BY <1>1, <1>4, <1>13, <1>14, <2>1
    <3>2. i + 1 = j + 1
      BY <3>1 DEF Turned, IsInjective
    <3> QED
      BY <3>1, <3>2
  <2>2. CASE i > Len(tail) /\ j > Len(tail)
    <3>1. /\ z[i] = kept[i - Len(tail)] /\ z[j] = kept[j - Len(tail)]
          /\ i - Len(tail) \in DOMAIN kept /\ j - Len(tail) \in DOMAIN kept
          /\ i \in Int /\ j \in Int
      BY <1>13, <1>14, <2>2
    <3>2. i - Len(tail) = j - Len(tail)
      BY <1>5, <3>1 DEF IsInjective
    <3> QED
      BY <1>14, <3>1, <3>2
  <2>3. ASSUME NEW a \in DOMAIN z, NEW b \in DOMAIN z, a <= Len(tail), b > Len(tail) PROVE z[a] # z[b]
    <3>0. a \in 1..(Len(tail) + Len(kept)) /\ a \in 1..Len(tail)
      BY <1>13, <1>14, <2>3
    <3>1. a \in DOMAIN tail /\ z[a] = tail[a]
      BY <1>4, <1>13, <2>3, <3>0
    <3>3. b - Len(tail) \in DOMAIN kept /\ z[b] = kept[b - Len(tail)]
      BY <1>13, <1>14, <2>3
    <3>2. z[a] \in ToSet(q) /\ z[b] \in ToSet(kept) /\ z[b] \in V
      BY <1>5, <1>9, <3>1, <3>3 DEF ToSet
    <3> QED
      BY <1>12, <3>2
  <2> QED
    BY <1>14, <2>1, <2>2, <2>3
<1>17. ASSUME NEW n \in V
       PROVE  n \in ToSet(z) <=> n \notin ToSet(s) /\ needs[n] \cap V \subseteq ToSet(s)
  <2>1. n \in ToSet(q) <=> n \notin ToSet(r) /\ needs[n] \cap V \subseteq ToSet(r)
    BY DEF Turned
  <2>2. n \in ToSet(z) <=> (n \in ToSet(q) /\ n # c) \/ n \in ToSet(kept)
    BY <1>9, <1>15
  <2>3. n \in ToSet(kept) => n \notin ToSet(r) /\ n # c
    BY <1>12
  <2>4. c \notin needs[n] /\ needs[n] \cap V \subseteq ToSet(r) \cup {c} => needs[n] \cap V \subseteq ToSet(r)
    OBVIOUS
  <2>5. needs[n] \cap V \subseteq ToSet(r) => needs[n] \cap V \subseteq ToSet(r) \cup {c}
    OBVIOUS
  <2> QED
    BY <1>6, <1>10, <2>1, <2>2, <2>3, <2>4, <2>5
<1> QED
  BY <1>3, <1>7, <1>8, <1>13, <1>16, <1>17 DEF Turned, z, s, c, tail, kept, freed

(* The loop, for n turns.                                                  *)
Turns(f, V, needs, ord, n) ==
  f = [k \in 0..n |-> IF k = 0 THEN Start(V, needs, ord) ELSE Pop(V, needs, ord, f[k - 1])]

LEMMA TurnsExist ==
  ASSUME NEW V, NEW needs, NEW ord, NEW N \in Nat PROVE \E f : Turns(f, V, needs, ord, N)
<1> DEFINE D == {n \in Nat : ~\E f : Turns(f, V, needs, ord, n)}
<1>1. ASSUME D # {} PROVE FALSE
  <2>1. D \in SUBSET Nat
    OBVIOUS
  <2>2. PICK n \in D : \A m \in D : n <= m
    BY <1>1, <2>1, LeastOfNumbers
  <2>3. n \in Nat /\ ~\E f : Turns(f, V, needs, ord, n)
    OBVIOUS
  <2>4. CASE n = 0
    <3> DEFINE g == [k \in 0..0 |-> Start(V, needs, ord)]
    <3>1. g = [k \in 0..0 |-> IF k = 0 THEN Start(V, needs, ord) ELSE Pop(V, needs, ord, g[k - 1])]
      OBVIOUS
    <3> HIDE DEF g
    <3>2. Turns(g, V, needs, ord, 0)
      BY <3>1 DEF Turns
    <3> QED
      BY <2>3, <2>4, <3>2
  <2>5. CASE n # 0
    <3>1. n - 1 \in Nat /\ n - 1 \notin D
      BY <2>2, <2>3, <2>5
    <3>2. PICK f : Turns(f, V, needs, ord, n - 1)
      BY <3>1
    <3> DEFINE g == [k \in 0..n |-> IF k = n THEN Pop(V, needs, ord, f[n - 1]) ELSE f[k]]
    <3>3. \A k \in 0..(n - 1) : f[k] = IF k = 0 THEN Start(V, needs, ord) ELSE Pop(V, needs, ord, f[k - 1])
      BY <3>2 DEF Turns
    <3>4. ASSUME NEW k \in 0..n
          PROVE  g[k] = IF k = 0 THEN Start(V, needs, ord) ELSE Pop(V, needs, ord, g[k - 1])
      <4>1. k # n => k \in 0..(n - 1) /\ g[k] = f[k]
        BY <2>3
      <4>2. k # 0 => k - 1 \in 0..n /\ k - 1 # n /\ g[k - 1] = f[k - 1]
        BY <2>3
      <4>3. g[n] = Pop(V, needs, ord, f[n - 1])
        BY <2>3
      <4> HIDE DEF g
      <4> QED
        BY <2>5, <3>3, <4>1, <4>2, <4>3
    <3>5. g = [k \in 0..n |-> g[k]]
      BY Zenon
    <3> HIDE DEF g
    <3>6. Turns(g, V, needs, ord, n)
      BY <3>4, <3>5 DEF Turns
    <3> QED
      BY <2>3, <3>6
  <2> QED
    BY <2>4, <2>5
<1> QED
  BY <1>1

Sorting(V, needs, st, k) ==
  /\ Turned(V, needs, st.result, st.ready)
  /\ Len(st.result) = k \/ st.ready = <<>>

LEMMA EveryTurn ==
  ASSUME NEW V, NEW needs, NEW ord, Lists(ord, V), NEW N \in Nat, NEW f, Turns(f, V, needs, ord, N),
         NEW k \in 0..N
  PROVE  Sorting(V, needs, f[k], k)
<1> DEFINE D == {n \in 0..N : ~Sorting(V, needs, f[n], n)}
<1>1. ASSUME D # {} PROVE FALSE
  <2>1. D \in SUBSET Nat
    OBVIOUS
  <2>2. PICK n \in D : \A m \in D : n <= m
    BY <1>1, <2>1, LeastOfNumbers
  <2>3. n \in 0..N /\ ~Sorting(V, needs, f[n], n)
    OBVIOUS
  <2>4. f[n] = IF n = 0 THEN Start(V, needs, ord) ELSE Pop(V, needs, ord, f[n - 1])
    BY <2>3 DEF Turns
  <2>5. n # 0
    <3> SUFFICES ASSUME n = 0 PROVE FALSE
      OBVIOUS
    <3>1. Turned(V, needs, f[n].result, f[n].ready)
      BY <2>4, SortStarts
    <3>2. Len(f[n].result) = 0
      BY <2>4 DEF Start
    <3> QED
      BY <2>3, <3>1, <3>2 DEF Sorting
  <2>6. n - 1 \in 0..N /\ n - 1 \notin D
    BY <2>2, <2>3, <2>5
  <2> DEFINE st == f[n - 1]
  <2>7. Sorting(V, needs, st, n - 1)
    BY <2>6
  <2> HIDE DEF st
  <2>8. f[n] = Pop(V, needs, ord, st)
    BY <2>4, <2>5 DEF st
  <2>9. CASE st.ready = <<>>
    <3>1. f[n] = st
      BY <2>8, <2>9 DEF Pop
    <3> QED
      BY <2>3, <2>7, <2>9, <3>1 DEF Sorting
  <2>10. CASE st.ready # <<>>
    <3> DEFINE freed == {i \in DOMAIN ord : BecomesReady(V, needs, ord[i], Head(st.ready), ToSet(st.result))}
    <3>1. /\ f[n].result = Append(st.result, Head(st.ready))
          /\ f[n].ready = Tail(st.ready) \o Kept(ord, freed)
      BY <2>8, <2>10 DEF Pop
    <3>5. Turned(V, needs, st.result, st.ready)
      BY <2>7 DEF Sorting
    <3>6. /\ Turned(V, needs, Append(st.result, Head(st.ready)), Tail(st.ready) \o Kept(ord, freed))
          /\ Len(Append(st.result, Head(st.ready))) = Len(st.result) + 1
      BY <2>10, <3>5, SortTurns
    <3> HIDE DEF freed
    <3>2. Turned(V, needs, f[n].result, f[n].ready) /\ Len(f[n].result) = Len(st.result) + 1
      BY <3>1, <3>6, Zenon
    <3>3. Len(st.result) = n - 1
      BY <2>7, <2>10 DEF Sorting
    <3>4. Len(f[n].result) = n
      BY <2>3, <3>2, <3>3
    <3> QED
      BY <2>3, <3>2, <3>4 DEF Sorting
  <2> QED
    BY <2>9, <2>10
<1> QED
  BY <1>1

(* The sort gives nodes at most once, each after all that it depends on,   *)
(* and all of them exactly if there is no cycle.                           *)
LEMMA SortedInOrder ==
  ASSUME NEW V, NEW needs, NEW ord, Lists(ord, V)
  PROVE  LET s == Sorted(V, needs, ord) IN
         /\ s \in Seq(V) /\ IsInjective(s) /\ EachAfter(V, needs, s)
         /\ Len(s) = Cardinality(V) => ToSet(s) = V
         /\ Len(s) = Cardinality(V) <=> Acyclic(V, needs)
<1> DEFINE N == Len(ord)
           f == CHOOSE g : Turns(g, V, needs, ord, N)
           s == Sorted(V, needs, ord)
           q == f[N].ready
<1>1. IsFiniteSet(V) /\ Cardinality(V) = N /\ N \in Nat
  BY ListLength
<1>2. Turns(f, V, needs, ord, N)
  BY <1>1, TurnsExist
<1>3. s = f[N].result
  BY DEF Sorted, Turns
<1> HIDE DEF N, f
<1>4. N \in 0..N
  BY <1>1
<1>5. Turned(V, needs, s, q) /\ (Len(s) = N \/ q = <<>>)
  BY <1>1, <1>2, <1>3, <1>4, EveryTurn DEF Sorting
<1> HIDE DEF s, q
<1>6. /\ s \in Seq(V) /\ IsInjective(s) /\ EachAfter(V, needs, s)
      /\ DOMAIN s = 1..Len(s) /\ Len(s) \in Nat
  BY <1>5 DEF Turned
<1>7. ASSUME Len(s) = N PROVE ToSet(s) = V
  <2>1. s \in Injection(1..N, V)
    <3>1. s \in [1..N -> V]
      BY <1>6, <1>7
    <3> QED
      BY <1>6, <1>7, <3>1 DEF Injection, IsInjective
  <2>2. Cardinality(1..N) = N
    <3>1. \A m \in Nat : Cardinality(1..m) = m
      BY FS_Interval
    <3> QED
      BY <1>1, <3>1
  <2>3. s \in Surjection(1..N, V)
    BY <1>1, <2>1, <2>2, FS_Injection
  <2> QED
    BY <1>6, <1>7, <2>3 DEF Surjection, ToSet
<1>8. ASSUME Len(s) = N PROVE Acyclic(V, needs)
  <2> SUFFICES ASSUME NEW S \in (SUBSET V) \ {{}} PROVE \E n \in S : needs[n] \cap S = {}
    BY DEF Acyclic
  <2> DEFINE I == {i \in 1..N : s[i] \in S}
  <2>1. I # {} /\ I \in SUBSET Nat
    <3>1. PICK m \in S : m \in ToSet(s)
      BY <1>7, <1>8
    <3>2. PICK i \in DOMAIN s : s[i] = m
      BY <3>1 DEF ToSet
    <3>3. i \in I
      BY <1>6, <1>8, <3>2
    <3> QED
      BY <3>3
  <2>2. PICK i \in I : \A j \in I : i <= j
    <3> HIDE DEF I
    <3> QED
      BY <2>1, LeastOfNumbers
  <2>3. ASSUME NEW m \in needs[s[i]] \cap S PROVE FALSE
    <3>1. PICK j \in DOMAIN s : j < i /\ s[j] = m
      BY <1>6, <1>8, <2>3 DEF EachAfter
    <3>2. j \in I
      BY <1>6, <1>8, <3>1
    <3> QED
      BY <1>1, <2>2, <3>1, <3>2
  <2> QED
    BY <2>3
<1>9. ASSUME Len(s) # N, Acyclic(V, needs) PROVE FALSE
  <2> DEFINE S == V \ ToSet(s)
  <2>1. S # {}
    <3> SUFFICES ASSUME S = {} PROVE FALSE
      OBVIOUS
    <3>1. ToSet(s) = V
      BY <1>6 DEF ToSet
    <3>2. Lists(s, V)
      BY <1>6, <3>1 DEF Lists
    <3> QED
      BY <1>1, <1>9, <3>2, ListLength
  <2>2. PICK n \in S : needs[n] \cap S = {}
    BY <1>9, <2>1 DEF Acyclic
  <2>3. n \in V /\ n \notin ToSet(s) /\ needs[n] \cap V \subseteq ToSet(s)
    BY <2>2
  <2>4. n \in ToSet(q)
    BY <1>5, <2>3 DEF Turned
  <2>5. ToSet(q) = {}
    BY <1>5, <1>9 DEF ToSet
  <2> QED
    BY <2>4, <2>5
<1> QED
  BY <1>1, <1>6, <1>7, <1>8, <1>9 DEF s
-----------------------------------------------------------------------------
(* All that one plugin needs.                                              *)

Grown(needs, S) == S \cup UNION {DependenciesOf(needs, m) : m \in S}

Searched(f, needs, p, n) == f = [k \in 0..n |-> IF k = 0 THEN {p} ELSE Grown(needs, f[k - 1])]

LEMMA SearchExists ==
  ASSUME NEW needs, NEW p, NEW N \in Nat PROVE \E f : Searched(f, needs, p, N)
<1> DEFINE D == {n \in Nat : ~\E f : Searched(f, needs, p, n)}
<1>1. ASSUME D # {} PROVE FALSE
  <2>1. D \in SUBSET Nat
    OBVIOUS
  <2>2. PICK n \in D : \A m \in D : n <= m
    BY <1>1, <2>1, LeastOfNumbers
  <2>3. n \in Nat /\ ~\E f : Searched(f, needs, p, n)
    OBVIOUS
  <2>4. CASE n = 0
    <3> DEFINE g == [k \in 0..0 |-> {p}]
    <3>1. g = [k \in 0..0 |-> IF k = 0 THEN {p} ELSE Grown(needs, g[k - 1])]
      OBVIOUS
    <3> HIDE DEF g
    <3>2. Searched(g, needs, p, 0)
      BY <3>1 DEF Searched
    <3> QED
      BY <2>3, <2>4, <3>2
  <2>5. CASE n # 0
    <3>1. n - 1 \in Nat /\ n - 1 \notin D
      BY <2>2, <2>3, <2>5
    <3>2. PICK f : Searched(f, needs, p, n - 1)
      BY <3>1
    <3> DEFINE g == [k \in 0..n |-> IF k = n THEN Grown(needs, f[n - 1]) ELSE f[k]]
    <3>3. \A k \in 0..(n - 1) : f[k] = IF k = 0 THEN {p} ELSE Grown(needs, f[k - 1])
      BY <3>2 DEF Searched
    <3>4. ASSUME NEW k \in 0..n PROVE g[k] = IF k = 0 THEN {p} ELSE Grown(needs, g[k - 1])
      <4>1. k # n => k \in 0..(n - 1) /\ g[k] = f[k]
        BY <2>3
      <4>2. k # 0 => k - 1 \in 0..n /\ k - 1 # n /\ g[k - 1] = f[k - 1]
        BY <2>3
      <4>3. g[n] = Grown(needs, f[n - 1])
        BY <2>3
      <4> HIDE DEF g
      <4> QED
        BY <2>5, <3>3, <4>1, <4>2, <4>3
    <3>5. g = [k \in 0..n |-> g[k]]
      BY Zenon
    <3> HIDE DEF g
    <3>6. Searched(g, needs, p, n)
      BY <3>4, <3>5 DEF Searched
    <3> QED
      BY <2>3, <3>6
  <2> QED
    BY <2>4, <2>5
<1> QED
  BY <1>1

ClosedUnder(needs, S) == \A m \in S : DependenciesOf(needs, m) \subseteq S

(* After k rounds the search from p is over or has found more than k nodes; *)
(* what it finds, but for p, something that it found depends on.            *)
Searching(needs, p, all, S, k) ==
  /\ p \in S /\ S \subseteq all
  /\ \A x \in S \ {p} : \E y \in S : x \in DependenciesOf(needs, y)
  /\ ClosedUnder(needs, S) \/ Cardinality(S) > k

LEMMA SearchRound ==
  ASSUME NEW needs, NEW p, NEW all, IsFiniteSet(all), \A m \in all : DependenciesOf(needs, m) \subseteq all,
         NEW S, NEW k \in Nat, Searching(needs, p, all, S, k)
  PROVE  Searching(needs, p, all, Grown(needs, S), k + 1)
<1> DEFINE G == Grown(needs, S)
<1>1. S \subseteq G /\ \A x : x \in G <=> x \in S \/ \E m \in S : x \in DependenciesOf(needs, m)
  BY DEF Grown
<1> HIDE DEF G
<1>2. p \in G /\ G \subseteq all
  BY <1>1 DEF Searching
<1>3. \A x \in G \ {p} : \E y \in G : x \in DependenciesOf(needs, y)
  BY <1>1 DEF Searching
<1>4. CASE ClosedUnder(needs, S)
  <2>1. G = S
    BY <1>1, <1>4 DEF ClosedUnder
  <2> QED
    BY <1>2, <1>3, <1>4, <2>1 DEF Searching, G
<1>5. CASE ~ClosedUnder(needs, S)
  <2>1. Cardinality(S) > k
    BY <1>5 DEF Searching
  <2>2. PICK x \in G : x \notin S
    BY <1>1, <1>5 DEF ClosedUnder
  <2>3. IsFiniteSet(G) /\ IsFiniteSet(S)
    BY <1>1, <1>2, FS_Subset
  <2>4. /\ Cardinality(S \cup {x}) = Cardinality(S) + 1
        /\ Cardinality(S \cup {x}) <= Cardinality(G)
    <3>1. S \cup {x} \subseteq G /\ IsFiniteSet(S \cup {x})
      BY <1>1, <2>2, <2>3, FS_AddElement
    <3> QED
      BY <2>2, <2>3, <3>1, FS_AddElement, FS_Subset
  <2>5. Cardinality(S) \in Nat /\ Cardinality(G) \in Nat
    BY <2>3, FS_CardinalityType
  <2>6. Cardinality(G) > k + 1
    BY <2>1, <2>4, <2>5
  <2> QED
    BY <1>2, <1>3, <2>6 DEF Searching, G
<1> QED
  BY <1>4, <1>5

(* The search finds p and all it depends on, directly or not, and nothing  *)
(* else.                                                                   *)
LEMMA SearchedNodes ==
  ASSUME NEW R, IsFiniteSet(R), NEW D \in SUBSET R, NEW needs \in [D -> SUBSET R], NEW p \in D
  PROVE  LET V == NodesFrom(needs, p) IN
         /\ p \in V /\ V \subseteq R /\ ClosedUnder(needs, V)
         /\ \A x \in V \ {p} : \E y \in V : x \in DependenciesOf(needs, y)
<1> DEFINE all == DOMAIN needs \cup UNION {needs[n] : n \in DOMAIN needs}
           N   == Cardinality(all)
           f   == CHOOSE g : Searched(g, needs, p, N)
           V   == NodesFrom(needs, p)
<1>1. all \subseteq R /\ p \in all
  OBVIOUS
<1>2. \A m \in all : DependenciesOf(needs, m) \subseteq all
  BY DEF DependenciesOf
<1>3. IsFiniteSet(all) /\ N \in Nat
  BY <1>1, FS_Subset, FS_CardinalityType
<1>4. V = f[N]
  BY DEF NodesFrom, Searched, Grown
<1> HIDE DEF all, V
<1>5. Searched(f, needs, p, N)
  BY <1>3, SearchExists
<1> HIDE DEF f
<1>6. \A k \in 0..N : f[k] = IF k = 0 THEN {p} ELSE Grown(needs, f[k - 1])
  BY <1>5 DEF Searched
<1> DEFINE E == {k \in 0..N : ~Searching(needs, p, all, f[k], k)}
<1>7. ASSUME E # {} PROVE FALSE
  <2>1. E \in SUBSET Nat
    BY <1>3
  <2>2. PICK k \in E : \A m \in E : k <= m
    BY <1>7, <2>1, LeastOfNumbers
  <2>3. k \in 0..N /\ ~Searching(needs, p, all, f[k], k)
    OBVIOUS
  <2>4. CASE k = 0
    <3>1. f[k] = {p} /\ Cardinality({p}) = 1
      BY <1>6, <2>3, <2>4, FS_Singleton
    <3>2. Searching(needs, p, all, {p}, 0)
      BY <1>1, <3>1 DEF Searching
    <3> QED
      BY <2>3, <2>4, <3>1, <3>2
  <2>5. CASE k # 0
    <3>1. k - 1 \in 0..N /\ k - 1 \notin E /\ k - 1 \in Nat /\ (k - 1) + 1 = k
      BY <1>3, <2>2, <2>3, <2>5
    <3>2. Searching(needs, p, all, f[k - 1], k - 1)
      BY <3>1
    <3>3. f[k] = Grown(needs, f[k - 1])
      BY <1>6, <2>3, <2>5
    <3> DEFINE l == k - 1
               S == f[k - 1]
    <3> HIDE DEF l, S
    <3>4. Searching(needs, p, all, Grown(needs, S), l + 1)
      BY <1>2, <1>3, <3>1, <3>2, SearchRound DEF l, S
    <3> QED
      BY <2>3, <3>1, <3>3, <3>4 DEF l, S
  <2> QED
    BY <2>4, <2>5
<1>8. Searching(needs, p, all, V, N)
  BY <1>3, <1>4, <1>7
<1>9. ~(Cardinality(V) > N)
  <2>1. V \subseteq all
    BY <1>8 DEF Searching
  <2> QED
    BY <1>3, <2>1, FS_Subset, FS_CardinalityType
<1> QED
  BY <1>1, <1>8, <1>9 DEF Searching, V

LEMMA ListsOf ==
  ASSUME NEW S, IsFiniteSet(S), NEW ord \in SetToSeqs(S) PROVE Lists(ord, S)
<1> DEFINE n == Cardinality(S)
<1>1. n \in Nat /\ ord \in [1..n -> S] /\ IsInjective(ord)
  BY FS_CardinalityType DEF SetToSeqs
<1>2. IsFiniteSet(1..n) /\ Cardinality(1..n) = n
  <2>1. \A m \in Nat : IsFiniteSet(1..m) /\ Cardinality(1..m) = m
    BY FS_Interval
  <2> HIDE DEF n
  <2> QED
    BY <1>1, <2>1
<1> HIDE DEF n
<1>3. ord \in Seq(S) /\ DOMAIN ord = 1..n
  BY <1>1
<1>4. ord \in Injection(1..n, S)
  BY <1>1, <1>3 DEF IsInjective, Injection
<1>5. ord \in Surjection(1..n, S)
  BY <1>2, <1>4, FS_Injection DEF n
<1> QED
  BY <1>1, <1>3, <1>5 DEF Lists, ToSet, Surjection

(* Of an order of all nodes, the last depends on none but earlier ones, so *)
(* nothing depends on it: it is the node the search began with.            *)
LEMMA NothingNeedsRoot ==
  ASSUME NEW V, NEW needs, NEW p \in V, NEW s \in Seq(V), IsInjective(s), ToSet(s) = V,
         \A x \in V \ {p} : \E y \in V : x \in needs[y], EachAfter(V, needs, s)
  PROVE  \A y \in V : p \notin needs[y]
<1>1. DOMAIN s = 1..Len(s) /\ Len(s) \in Nat
  OBVIOUS
<1>2. Len(s) # 0
  BY <1>1 DEF ToSet
<1> DEFINE x == s[Len(s)]
<1>3. Len(s) \in DOMAIN s /\ x \in V
  BY <1>1, <1>2
<1>4. ASSUME NEW y \in V, x \in needs[y] PROVE FALSE
  <2>1. PICK i \in DOMAIN s : s[i] = y
    BY DEF ToSet
  <2>2. PICK j \in DOMAIN s : j < i /\ s[j] = x
    BY <1>3, <1>4, <2>1 DEF EachAfter
  <2>3. j = Len(s)
    BY <1>3, <2>2 DEF IsInjective
  <2> QED
    BY <1>1, <2>1, <2>2, <2>3
<1>5. x = p
  BY <1>3, <1>4
<1> QED
  BY <1>4, <1>5

(* resolve() and resolveDependencies() give all that p needs in order, or  *)
(* say that there is a cycle.                                              *)
LEMMA ResolvedInOrder ==
  ASSUME NEW R, IsFiniteSet(R), NEW D \in SUBSET R, NEW needs \in [D -> SUBSET R], NEW p \in D,
         NEW ord \in SetToSeqs(R)
  PROVE  IF Acyclic(NodesFrom(needs, p), GraphFrom(needs, p))
           THEN IsResolution(needs, p, Resolution(needs, needs[p], R, p, ord))
           ELSE Resolution(needs, needs[p], R, p, ord) = Circular
<1> DEFINE V     == NodesFrom(needs, p)
           graph == GraphFrom(needs, p)
           kept  == Kept(ord, {i \in DOMAIN ord : ord[i] \in V})
           topo == Sorted(V, graph, kept)
           s     == Kept(topo, {i \in DOMAIN topo : topo[i] # p})
           res   == Resolution(needs, needs[p], R, p, ord)
<1>1. /\ p \in V /\ V \subseteq R /\ ClosedUnder(needs, V)
      /\ \A x \in V \ {p} : \E y \in V : x \in DependenciesOf(needs, y)
  BY SearchedNodes
<1>2. \A n \in V : graph[n] = DependenciesOf(needs, n)
  BY DEF GraphFrom
<1>3. res = IF Len(topo) # Cardinality(V) THEN Circular ELSE s
  <2>1. needs[p] \ R = {}
    OBVIOUS
  <2> QED
    BY <2>1 DEF Resolution
<1> HIDE DEF V, graph
<1>4. Lists(ord, R)
  BY ListsOf
<1>5. Lists(kept, V)
  <2> DEFINE K == {i \in DOMAIN ord : ord[i] \in V}
  <2>1. /\ kept \in Seq(R) /\ IsInjective(kept)
        /\ \A x : x \in ToSet(kept) <=> \E k \in K : x = ord[k]
    BY <1>4, KeptOnce DEF Lists
  <2>2. \A x \in V : \E k \in K : x = ord[k]
    BY <1>1, <1>4 DEF Lists, ToSet
  <2>3. \A k \in K : ord[k] \in V
    OBVIOUS
  <2> HIDE DEF K, kept
  <2>4. ToSet(kept) = V
    BY <2>1, <2>2, <2>3
  <2>5. kept \in Seq(V)
    <3>1. \A i \in 1..Len(kept) : kept[i] \in V
      BY <2>1, <2>4 DEF ToSet
    <3> QED
      BY <2>1, <3>1
  <2> QED
    BY <2>1, <2>4, <2>5 DEF Lists
<1> HIDE DEF kept
<1>6. /\ topo \in Seq(V) /\ IsInjective(topo) /\ EachAfter(V, graph, topo)
      /\ Len(topo) = Cardinality(V) => ToSet(topo) = V
      /\ Len(topo) = Cardinality(V) <=> Acyclic(V, graph)
  BY <1>5, SortedInOrder
<1> HIDE DEF topo
<1>7. CASE ~Acyclic(V, graph)
  BY <1>3, <1>6, <1>7 DEF V, graph
<1>8. CASE Acyclic(V, graph)
  <2>1. res = s /\ ToSet(topo) = V
    BY <1>3, <1>6, <1>8
  <2>2. \A y \in V : p \notin DependenciesOf(needs, y)
    BY <1>1, <1>2, <1>6, <2>1, NothingNeedsRoot
  <2> DEFINE K == {i \in DOMAIN topo : topo[i] # p}
  <2>3. /\ s \in Seq(V) /\ IsInjective(s)
        /\ \A x : x \in ToSet(s) <=> \E k \in K : x = topo[k]
        /\ \A i, j \in DOMAIN s : i < j => \E k, l \in K : k < l /\ s[i] = topo[k] /\ s[j] = topo[l]
    <3>1. K \in SUBSET (DOMAIN topo) /\ s = Kept(topo, K) /\ topo \in Seq(V) /\ IsInjective(topo)
      BY <1>6
    <3> HIDE DEF K, s
    <3> QED
      BY <3>1, KeptOnce
  <2>4. \A x : (\E k \in K : x = topo[k]) <=> x \in V \ {p}
    BY <2>1 DEF ToSet
  <2> HIDE DEF K, s
  <2>5. ToSet(s) = V \ {p}
    BY <2>3, <2>4
  <2>6. ASSUME NEW i \in DOMAIN s, NEW j \in DOMAIN s, s[j] \in DependenciesOf(needs, s[i]) PROVE j < i
    <3>1. s[i] \in V /\ s[j] \in V /\ i \in Nat /\ j \in Nat
      BY <2>3
    <3>2. s[j] \in graph[s[i]] \cap V
      BY <1>2, <2>6, <3>1
    <3>3. PICK a \in DOMAIN topo : topo[a] = s[i]
      BY <2>1, <3>1 DEF ToSet
    <3>4. PICK b \in DOMAIN topo : b < a /\ topo[b] = s[j]
      BY <1>6, <3>2, <3>3 DEF EachAfter
    <3>5. a \in Nat /\ b \in Nat
      BY <1>6
    <3>6. ASSUME i < j PROVE FALSE
      <4>1. PICK k \in DOMAIN topo, l \in DOMAIN topo : k < l /\ s[i] = topo[k] /\ s[j] = topo[l]
        BY <2>3, <3>6 DEF K
      <4>2. k = a /\ l = b
        BY <1>6, <3>3, <3>4, <4>1 DEF IsInjective
      <4> QED
        BY <3>4, <3>5, <4>1, <4>2
    <3>7. ASSUME i = j PROVE FALSE
      <4>1. a = b
        BY <1>6, <3>3, <3>4, <3>7 DEF IsInjective
      <4> QED
        BY <3>4, <3>5, <4>1
    <3> QED
      BY <3>1, <3>6, <3>7
  <2>7. ASSUME NEW m \in {p} \cup ToSet(s) PROVE DependenciesOf(needs, m) \subseteq ToSet(s)
    <3>1. m \in V
      BY <1>1, <2>5, <2>7
    <3>2. DependenciesOf(needs, m) \subseteq V /\ p \notin DependenciesOf(needs, m)
      BY <1>1, <2>2, <3>1 DEF ClosedUnder
    <3> QED
      BY <2>5, <3>2
  <2>8. IsResolution(needs, p, s)
    BY <2>3, <2>5, <2>6, <2>7 DEF IsResolution, V
  <2> QED
    BY <1>8, <2>1, <2>8 DEF V, graph
<1> QED
  BY <1>7, <1>8
-----------------------------------------------------------------------------
(* core/PluginLoader.  Every entry has a handle of its library.  What the  *)
(* owner has still to treat is an order of the dependencies: of what was   *)
(* there when it was resolved and was not loaded or unloaded since, all    *)
(* that is in its initial state is in that order, and while the plugins    *)
(* are shut down, all that is initialised.                                 *)
LibraryEntries(l) == {n \in Names : plugins[n] = l}

HandlesKept ==
  /\ IsFiniteSet(Loader!Loaded)
  /\ \A n \in Names : plugins[n] # NoLib => NameOf[plugins[n]] = n
  /\ \A l \in Names : Cardinality(LibraryEntries(l)) <= handles[l]

Ordering ==
  /\ pc = "initializing" =>
       /\ order # <<>>
       /\ \A n \in settled : state[n] = "Loaded" => n \in ToSet(order)
       /\ \A i, j \in DOMAIN order :
            order[i] \in settled /\ order[j] \in settled /\ order[j] \in Loader!DepsOf(order[i]) => j < i
  /\ pc = "stopping" =>
       /\ \A n \in Names : state[n] = "Initialized" => n \in ToSet(order)
       /\ sorted => \A i, j \in DOMAIN order :
            order[i] \in settled /\ order[j] \in settled /\ order[j] \in Loader!DepsOf(order[i]) => i < j

NamedLikeFiles == \A l \in Names : NameOf[l] = l

LoaderInv ==
  /\ Loader!TypeOK /\ Loader!LoaderAssumption
  /\ HandlesKept /\ Ordering
  /\ NamedLikeFiles => Loader!LibrariesKept

(* Both modules are instances of TopologicalSort.                          *)
LEMMA LoaderSorts ==
  /\ \A V, d, ord : Loader!Sorted(V, d, ord) = Sorted(V, d, ord)
  /\ \A V, d : Loader!Acyclic(V, d) <=> Acyclic(V, d)
  /\ \A S : Loader!SetToSeqs(S) = SetToSeqs(S)
  /\ \A s : Loader!ToSet(s) = ToSet(s)
  /\ \A s : Loader!Reverse(s) = Reverse(s)
<1>1. \A V, d, ord : Loader!Sorted(V, d, ord) = Sorted(V, d, ord)
  BY DEF Loader!Cardinality, Cardinality, Loader!Sorted, Sorted, Loader!Start, Start, Loader!Pop, Pop, Loader!Kept, Kept, Loader!Nth, Nth,
         Loader!BecomesReady, BecomesReady, Loader!InDegree, InDegree, Loader!ToSet, ToSet
<1>2. \A V, d : Loader!Acyclic(V, d) <=> Acyclic(V, d)
  BY DEF Loader!Acyclic, Acyclic
<1>3. \A S : Loader!SetToSeqs(S) = SetToSeqs(S)
  BY DEF Loader!Cardinality, Cardinality, Loader!SetToSeqs, SetToSeqs, Loader!IsInjective, IsInjective
<1>4. (\A s : Loader!ToSet(s) = ToSet(s)) /\ (\A s : Loader!Reverse(s) = Reverse(s))
  BY DEF Loader!ToSet, ToSet, Loader!Reverse, Reverse
<1> QED
  BY <1>1, <1>2, <1>3, <1>4

(* What resolveDependencyOrder() gives.                                    *)
LEMMA ResolvedLoaded ==
  ASSUME IsFiniteSet(Loader!Loaded), NEW ord \in Loader!SetToSeqs(Loader!Loaded)
  PROVE  LET o == Loader!Resolve(ord)
             V == Loader!Loaded
         IN  /\ Lists(ord, V) /\ o \in Seq(V) /\ DOMAIN o = 1..Len(o) /\ Len(o) \in Nat
             /\ Loader!IsOrder(o) <=> Loader!Acyclic(V, Loader!GraphDeps)
             /\ Loader!IsOrder(o) =>
                  /\ ToSet(o) = V
                  /\ \A i, j \in DOMAIN o : o[j] \in Loader!DepsOf(o[i]) => j < i
<1> DEFINE V == Loader!Loaded
           d == Loader!GraphDeps
           o == Loader!Resolve(ord)
<1>1. Lists(ord, V)
  BY ListsOf, LoaderSorts
<1>2. o = Sorted(V, d, ord)
  BY LoaderSorts DEF Loader!Resolve
<1>3. Loader!IsOrder(o) <=> Len(o) = Cardinality(V)
  BY DEF Loader!IsOrder, Loader!Cardinality, Cardinality
<1>4. \A n \in V : d[n] = Loader!DepsOf(n)
  BY DEF Loader!GraphDeps
<1>5. Loader!Acyclic(V, d) <=> Acyclic(V, d)
  BY LoaderSorts
<1> HIDE DEF V, d, o
<1>6. /\ o \in Seq(V) /\ IsInjective(o) /\ EachAfter(V, d, o)
      /\ Len(o) = Cardinality(V) => ToSet(o) = V
      /\ Len(o) = Cardinality(V) <=> Acyclic(V, d)
  BY <1>1, <1>2, SortedInOrder
<1>7. ASSUME NEW i \in DOMAIN o, NEW j \in DOMAIN o, o[j] \in Loader!DepsOf(o[i]) PROVE j < i
  <2>1. o[i] \in V /\ o[j] \in V
    BY <1>6
  <2>2. o[j] \in d[o[i]] \cap V
    BY <1>4, <1>7, <2>1
  <2>3. PICK k \in DOMAIN o : k < i /\ o[k] = o[j]
    BY <1>6, <2>2 DEF EachAfter
  <2> QED
    BY <1>6, <2>3 DEF IsInjective
<1>8. DOMAIN o = 1..Len(o) /\ Len(o) \in Nat
  BY <1>6
<1> QED
  BY <1>1, <1>3, <1>5, <1>6, <1>7, <1>8 DEF V, d, o

LEMMA LoaderCounts ==
  /\ \A S : Loader!Cardinality(S) = Cardinality(S)
  /\ \A l : {n \in Names : plugins[n] = l} = LibraryEntries(l)
BY DEF Loader!Cardinality, Cardinality, LibraryEntries

LEMMA LibrariesCounted ==
  Loader!LibrariesKept <=> ~dropped /\ ~unmapped /\ \A l \in Names : handles[l] = Cardinality(LibraryEntries(l))
BY LoaderCounts DEF Loader!LibrariesKept

LEMMA EntriesFinite ==
  ASSUME LoaderInv, NEW l \in Names
  PROVE  IsFiniteSet(LibraryEntries(l)) /\ Cardinality(LibraryEntries(l)) \in Nat
<1>1. LibraryEntries(l) \subseteq Loader!Loaded
  BY DEF LibraryEntries, Loader!Loaded, LoaderInv, Loader!LoaderAssumption
<1> QED
  BY <1>1, FS_Subset, FS_CardinalityType DEF LoaderInv, HandlesKept

(* Loading and unloading by other threads leaves an order as it is.        *)
LEMMA OrderingStays ==
  ASSUME Ordering, UNCHANGED <<deps, pc, order, sorted>>,
         \A n \in settled' : n \in settled /\ plugins'[n] = plugins[n] /\ state'[n] = state[n],
         \A n \in Names : state'[n] = "Initialized" => state[n] = "Initialized"
  PROVE  Ordering'
BY DEF Ordering, Loader!DepsOf, ToSet

LEMMA StoreStep ==
  ASSUME LoaderInv, NEW l \in Names, Loader!Store(l), handles[l] < MaxHandles,
         plugins[l] = NoLib \/ plugins[NameOf[l]] = NoLib,
         dropped' = (dropped \/ state[NameOf[l]] = "Initialized"),
         UNCHANGED <<deps, pc, order, sorted, unmapped>>
  PROVE  LoaderInv'
<1> DEFINE m == NameOf[l]
<1>1. /\ m \in Names /\ l # NoLib /\ NoLib \notin Names
      /\ plugins \in [Names -> Names \cup {NoLib}] /\ handles \in [Names -> 0..MaxHandles] /\ MaxHandles \in Nat
  BY DEF LoaderInv, Loader!TypeOK, Loader!LoaderAssumption
<1>2. /\ plugins' = [plugins EXCEPT ![m] = l] /\ state' = [state EXCEPT ![m] = "Loaded"]
      /\ handles' = [handles EXCEPT ![l] = handles[l] + 1] /\ settled' = settled \ {m}
  BY DEF Loader!Store, Loader!SetState
<1> HIDE DEF m
<1>3. Loader!TypeOK'
  <2>1. plugins' \in [Names -> Names \cup {NoLib}] /\ handles' \in [Names -> 0..MaxHandles]
    BY <1>1, <1>2
  <2>2. /\ state' \in [Names -> {"Unloaded", "Loaded", "Initialized", "Stopped", "Error"}]
        /\ \A n \in Names : state'[n] = "Unloaded" <=> plugins'[n] = NoLib
    BY <1>1, <1>2 DEF LoaderInv, Loader!TypeOK
  <2>3. dropped' \in BOOLEAN
    BY DEF LoaderInv, Loader!TypeOK
  <2> QED
    BY <1>2, <2>1, <2>2, <2>3 DEF LoaderInv, Loader!TypeOK
<1>4. \A k \in Names : LibraryEntries(k)' = IF k = l THEN LibraryEntries(l) \cup {m} ELSE LibraryEntries(k) \ {m}
  BY <1>1, <1>2 DEF LibraryEntries
<1>5. /\ Loader!Loaded' = Loader!Loaded \cup {m}
      /\ IsFiniteSet(Loader!Loaded')
  <2>1. Loader!Loaded' = Loader!Loaded \cup {m}
    BY <1>1, <1>2 DEF Loader!Loaded
  <2> QED
    BY <2>1, FS_AddElement DEF LoaderInv, HandlesKept
<1>6. \A k \in Names : Cardinality(LibraryEntries(k)') <= handles'[k]
  <2> SUFFICES ASSUME NEW k \in Names PROVE Cardinality(LibraryEntries(k)') <= handles'[k]
    OBVIOUS
  <2>1. /\ IsFiniteSet(LibraryEntries(k)) /\ Cardinality(LibraryEntries(k)) \in Nat
        /\ Cardinality(LibraryEntries(k)) <= handles[k] /\ handles[k] \in Nat
    BY <1>1, EntriesFinite DEF LoaderInv, HandlesKept
  <2>2. CASE k = l
    <3>1. Cardinality(LibraryEntries(k) \cup {m}) = IF m \in LibraryEntries(k) THEN Cardinality(LibraryEntries(k))
                                                                     ELSE Cardinality(LibraryEntries(k)) + 1
      BY <2>1, FS_AddElement
    <3>2. Cardinality(LibraryEntries(k)') = Cardinality(LibraryEntries(k) \cup {m})
      BY <1>4, <2>2
    <3>3. handles'[k] = handles[k] + 1
      BY <1>1, <1>2, <2>2
    <3> QED
      BY <2>1, <3>1, <3>2, <3>3
  <2>3. CASE k # l
    <3>1. Cardinality(LibraryEntries(k) \ {m}) <= Cardinality(LibraryEntries(k))
          /\ Cardinality(LibraryEntries(k) \ {m}) \in Nat
      BY <2>1, FS_Subset, FS_CardinalityType
    <3>2. Cardinality(LibraryEntries(k)') = Cardinality(LibraryEntries(k) \ {m})
      BY <1>4, <2>3
    <3>3. handles'[k] = handles[k]
      BY <1>1, <1>2, <2>3
    <3> QED
      BY <2>1, <3>1, <3>2, <3>3
  <2> QED
    BY <2>2, <2>3
<1>7. HandlesKept'
  <2>1. \A n \in Names : plugins'[n] # NoLib => NameOf[plugins'[n]] = n
    BY <1>1, <1>2 DEF LoaderInv, HandlesKept, m
  <2> QED
    BY <1>5, <1>6, <2>1 DEF HandlesKept
<1>8. Ordering'
  <2>1. \A n \in settled' : n \in settled /\ plugins'[n] = plugins[n] /\ state'[n] = state[n]
    BY <1>1, <1>2 DEF LoaderInv, Loader!TypeOK
  <2>2. \A n \in Names : state'[n] = "Initialized" => state[n] = "Initialized"
    BY <1>1, <1>2 DEF LoaderInv, Loader!TypeOK
  <2> QED
    BY <2>1, <2>2, OrderingStays DEF LoaderInv
<1>9. ASSUME NamedLikeFiles PROVE Loader!LibrariesKept'
  <2>1. m = l /\ plugins[l] = NoLib
    BY <1>9 DEF NamedLikeFiles, m
  <2>2. ~dropped' /\ ~unmapped'
    <3>1. state[l] = "Unloaded"
      BY <2>1 DEF LoaderInv, Loader!TypeOK
    <3>2. ~dropped /\ ~unmapped
      BY <1>9 DEF LoaderInv, Loader!LibrariesKept
    <3> QED
      BY <2>1, <3>1, <3>2 DEF m
  <2>3. ASSUME NEW k \in Names PROVE handles'[k] = Cardinality(LibraryEntries(k)')
    <3>1. handles[k] = Cardinality(LibraryEntries(k)) /\ IsFiniteSet(LibraryEntries(k)) /\ Cardinality(LibraryEntries(k)) \in Nat
      BY <1>9, EntriesFinite, LibrariesCounted DEF LoaderInv
    <3>2. l \notin LibraryEntries(k)
      BY <1>1, <2>1 DEF LibraryEntries
    <3>3. CASE k = l
      <4>1. Cardinality(LibraryEntries(l) \cup {l}) = Cardinality(LibraryEntries(l)) + 1
        BY <3>1, <3>2, <3>3, FS_AddElement
      <4> QED
        BY <1>1, <1>2, <1>4, <2>1, <3>1, <3>3, <4>1
    <3>4. CASE k # l
      <4>1. LibraryEntries(k)' = LibraryEntries(k)
        BY <1>4, <2>1, <3>2, <3>4
      <4> QED
        BY <1>1, <1>2, <3>1, <3>4, <4>1
    <3> QED
      BY <3>3, <3>4
  <2>4. \A k \in Names : handles'[k] = Loader!Cardinality({n \in Names : plugins'[n] = k})
    BY <2>3, LoaderCounts DEF LibraryEntries
  <2> QED
    BY <2>2, <2>4 DEF Loader!LibrariesKept
<1> QED
  BY <1>3, <1>7, <1>8, <1>9 DEF LoaderInv, NamedLikeFiles

LEMMA UnloadStep ==
  ASSUME LoaderInv, NEW m \in Names, Loader!Unload(m) PROVE LoaderInv'
<1> DEFINE l == plugins[m]
<1>1. /\ l \in Names /\ l # NoLib /\ NoLib \notin Names
      /\ plugins \in [Names -> Names \cup {NoLib}] /\ handles \in [Names -> 0..MaxHandles] /\ MaxHandles \in Nat
  BY DEF LoaderInv, Loader!TypeOK, Loader!LoaderAssumption, Loader!Unload
<1>2. /\ plugins' = [plugins EXCEPT ![m] = NoLib] /\ state' = [state EXCEPT ![m] = "Unloaded"]
      /\ handles' = [handles EXCEPT ![l] = handles[l] - 1] /\ settled' = settled \ {m}
      /\ UNCHANGED <<deps, pc, order, sorted, dropped, unmapped>>
  BY DEF Loader!Unload, Loader!SetState, Loader!loop
<1> HIDE DEF l
<1>4. \A k \in Names : LibraryEntries(k)' = LibraryEntries(k) \ {m} /\ (m \in LibraryEntries(k) <=> k = l)
  BY <1>1, <1>2 DEF LibraryEntries, l
<1>5. ASSUME NEW k \in Names
      PROVE  /\ IsFiniteSet(LibraryEntries(k)) /\ Cardinality(LibraryEntries(k)) \in Nat
             /\ Cardinality(LibraryEntries(k)) <= handles[k] /\ handles[k] \in Nat
             /\ Cardinality(LibraryEntries(k)') = IF k = l THEN Cardinality(LibraryEntries(k)) - 1 ELSE Cardinality(LibraryEntries(k))
             /\ handles'[k] = IF k = l THEN handles[k] - 1 ELSE handles[k]
             /\ k = l => Cardinality(LibraryEntries(k)) > 0
  <2>1. /\ IsFiniteSet(LibraryEntries(k)) /\ Cardinality(LibraryEntries(k)) \in Nat
        /\ Cardinality(LibraryEntries(k)) <= handles[k] /\ handles[k] \in Nat
    BY <1>1, EntriesFinite DEF LoaderInv, HandlesKept
  <2>2. LibraryEntries(k)' = LibraryEntries(k) \ {m} /\ (m \in LibraryEntries(k) <=> k = l)
    BY <1>4
  <2>3. Cardinality(LibraryEntries(k) \ {m}) = IF k = l THEN Cardinality(LibraryEntries(k)) - 1 ELSE Cardinality(LibraryEntries(k))
    BY <2>1, <2>2, FS_RemoveElement
  <2>4. k = l => Cardinality(LibraryEntries(k)) # 0
    BY <2>1, <2>2, FS_EmptySet
  <2>5. handles'[k] = IF k = l THEN handles[k] - 1 ELSE handles[k]
    BY <1>1, <1>2
  <2> QED
    BY <2>1, <2>2, <2>3, <2>4, <2>5
<1>3. Loader!TypeOK'
  <2>1. plugins' \in [Names -> Names \cup {NoLib}]
    BY <1>1, <1>2
  <2>4. handles' \in [Names -> 0..MaxHandles]
    <3>1. handles[l] - 1 \in 0..MaxHandles
      <4>1. handles[l] \in 0..MaxHandles /\ handles[l] > 0
        BY <1>1, <1>5
      <4> QED
        BY <1>1, <4>1
    <3> QED
      BY <1>1, <1>2, <3>1
  <2>2. /\ state' \in [Names -> {"Unloaded", "Loaded", "Initialized", "Stopped", "Error"}]
        /\ \A n \in Names : state'[n] = "Unloaded" <=> plugins'[n] = NoLib
    BY <1>1, <1>2 DEF LoaderInv, Loader!TypeOK
  <2> QED
    BY <1>2, <2>1, <2>2, <2>4 DEF LoaderInv, Loader!TypeOK
<1>7. HandlesKept'
  <2>1. \A n \in Names : plugins'[n] # NoLib => NameOf[plugins'[n]] = n
    BY <1>1, <1>2 DEF LoaderInv, HandlesKept
  <2>2. Loader!Loaded' \subseteq Loader!Loaded
    BY <1>1, <1>2 DEF Loader!Loaded
  <2>3. IsFiniteSet(Loader!Loaded')
    BY <2>2, FS_Subset DEF LoaderInv, HandlesKept
  <2>4. \A k \in Names : Cardinality(LibraryEntries(k)') <= handles'[k]
    BY <1>5
  <2> QED
    BY <2>1, <2>3, <2>4 DEF HandlesKept
<1>8. Ordering'
  <2>1. \A n \in settled' : n \in settled /\ plugins'[n] = plugins[n] /\ state'[n] = state[n]
    BY <1>1, <1>2 DEF LoaderInv, Loader!TypeOK
  <2>2. \A n \in Names : state'[n] = "Initialized" => state[n] = "Initialized"
    BY <1>1, <1>2 DEF LoaderInv, Loader!TypeOK
  <2> QED
    BY <1>2, <2>1, <2>2, OrderingStays DEF LoaderInv
<1>9. ASSUME NamedLikeFiles PROVE Loader!LibrariesKept'
  <2>1. ~dropped /\ ~unmapped /\ \A k \in Names : handles[k] = Cardinality(LibraryEntries(k))
    BY <1>9, LibrariesCounted DEF LoaderInv
  <2>2. \A k \in Names : handles'[k] = Cardinality(LibraryEntries(k)')
    BY <1>5, <2>1
  <2>4. \A k \in Names : handles'[k] = Loader!Cardinality({n \in Names : plugins'[n] = k})
    BY <2>2, LoaderCounts DEF LibraryEntries
  <2> QED
    BY <1>2, <2>1, <2>4 DEF Loader!LibrariesKept
<1> QED
  BY <1>2, <1>3, <1>7, <1>8, <1>9 DEF LoaderInv, NamedLikeFiles

LEMMA RefuseStep ==
  ASSUME LoaderInv, NEW l \in Names, Loader!RefuseDuplicate(l) PROVE LoaderInv'
<1>1. /\ UNCHANGED <<deps, plugins, state, handles, pc, order, sorted, settled, dropped>>
      /\ unmapped' = (unmapped \/ handles[l] = 0) /\ plugins[NameOf[l]] # NoLib
  BY DEF Loader!RefuseDuplicate, Loader!table, Loader!loop
<1>2. Loader!TypeOK'
  BY <1>1 DEF LoaderInv, Loader!TypeOK
<1>3. HandlesKept'
  BY <1>1 DEF LoaderInv, HandlesKept, LibraryEntries, Loader!Loaded
<1>4. Ordering'
  BY <1>1, OrderingStays DEF LoaderInv
<1>5. ASSUME NamedLikeFiles PROVE Loader!LibrariesKept'
  <2>1. plugins[l] # NoLib /\ NameOf[plugins[l]] = l /\ plugins[l] \in Names
    BY <1>1, <1>5 DEF NamedLikeFiles, LoaderInv, HandlesKept, Loader!TypeOK
  <2>2. plugins[l] = l
    BY <1>5, <2>1 DEF NamedLikeFiles
  <2>3. l \in LibraryEntries(l)
    BY <2>2 DEF LibraryEntries
  <2>4. Cardinality(LibraryEntries(l)) # 0
    BY <2>3, EntriesFinite, FS_EmptySet
  <2>5. ~dropped /\ ~unmapped /\ \A k \in Names : handles[k] = Cardinality(LibraryEntries(k))
    BY <1>5, LibrariesCounted DEF LoaderInv
  <2>6. ~unmapped'
    BY <1>1, <2>4, <2>5
  <2> QED
    BY <1>1, <1>5, <2>6 DEF LoaderInv, Loader!LibrariesKept
<1> QED
  BY <1>2, <1>3, <1>4, <1>5 DEF LoaderInv, NamedLikeFiles

(* One of the loops goes on to the next plugin.                            *)
LEMMA NextInOrder ==
  ASSUME NEW S, NEW s \in Seq(S), s # <<>>
  PROVE  LET t == Tail(s) IN
         /\ Head(s) \in S /\ Head(s) = s[1] /\ 1 \in DOMAIN s
         /\ t \in Seq(S) /\ (Len(s) = 1 <=> t = <<>>)
         /\ \A i \in DOMAIN t : i \in Int /\ i + 1 \in DOMAIN s /\ t[i] = s[i + 1]
         /\ \A x : x \in ToSet(s) <=> x = Head(s) \/ x \in ToSet(t)
<1> DEFINE t == Tail(s)
<1>1. /\ Len(s) \in Nat \ {0} /\ DOMAIN s = 1..Len(s) /\ Head(s) = s[1] /\ Head(s) \in S
      /\ t \in Seq(S) /\ Len(t) = Len(s) - 1 /\ DOMAIN t = 1..(Len(s) - 1)
      /\ \A i \in 1..(Len(s) - 1) : t[i] = s[i + 1]
  OBVIOUS
<1>2. Len(s) = 1 <=> t = <<>>
  <2> HIDE DEF t
  <2>1. t = <<>> => Len(t) = 0
    OBVIOUS
  <2>2. Len(t) = 0 => t = <<>>
    BY <1>1, EmptySeq
  <2> QED
    BY <1>1, <2>1, <2>2
<1> HIDE DEF t
<1>3. \A i \in DOMAIN t : i \in Int /\ i + 1 \in DOMAIN s /\ t[i] = s[i + 1]
  BY <1>1
<1>4. ASSUME NEW x \in ToSet(s), x # s[1] PROVE x \in ToSet(t)
  <2>1. PICK i \in 1..Len(s) : s[i] = x
    BY <1>1, <1>4 DEF ToSet
  <2>2. i - 1 \in 1..(Len(s) - 1) /\ (i - 1) + 1 = i
    BY <1>1, <1>4, <2>1
  <2> QED
    BY <1>1, <2>1, <2>2 DEF ToSet
<1>5. \A x \in ToSet(t) : x \in ToSet(s)
  BY <1>3 DEF ToSet
<1>6. s[1] \in ToSet(s) /\ 1 \in DOMAIN s
  BY <1>1 DEF ToSet
<1> QED
  BY <1>1, <1>2, <1>3, <1>4, <1>5, <1>6 DEF t

LEMMA AdvanceStep ==
  ASSUME LoaderInv, pc = "initializing", Loader!Advance,
         \/ state[Head(order)] # "Loaded" /\ state' = state
         \/ state[Head(order)] = "Loaded" /\ state' = [state EXCEPT ![Head(order)] = "Initialized"]
  PROVE  LoaderInv'
<1> DEFINE h == Head(order)
           t == Tail(order)
<1>1. /\ order' = t /\ pc' = IF Len(order) = 1 THEN "idle" ELSE pc
      /\ UNCHANGED <<deps, plugins, handles, sorted, settled, dropped, unmapped>>
  BY DEF Loader!Advance, Loader!history
<1>2. order \in Seq(Names) /\ order # <<>>
  BY DEF LoaderInv, Loader!TypeOK, Ordering
<1>3. /\ h \in Names /\ h = order[1] /\ 1 \in DOMAIN order
      /\ t \in Seq(Names) /\ (Len(order) = 1 <=> t = <<>>)
      /\ \A i \in DOMAIN t : i \in Int /\ i + 1 \in DOMAIN order /\ t[i] = order[i + 1]
      /\ \A x : x \in ToSet(order) <=> x = h \/ x \in ToSet(t)
  BY <1>2, NextInOrder
<1> HIDE DEF h, t
<1>4. \A n \in Names : n # h => state'[n] = state[n]
  BY <1>3 DEF LoaderInv, Loader!TypeOK, h
<1>5. state'[h] # "Loaded"
  BY <1>3 DEF LoaderInv, Loader!TypeOK, h
<1>6. Loader!TypeOK'
  <2>1. /\ state' \in [Names -> {"Unloaded", "Loaded", "Initialized", "Stopped", "Error"}]
        /\ \A n \in Names : state'[n] = "Unloaded" <=> plugins'[n] = NoLib
    BY <1>1, <1>3 DEF LoaderInv, Loader!TypeOK, h
  <2>2. order' \in Seq(Names) /\ (pc' = "idle" => order' = <<>>) /\ pc' \in {"idle", "initializing", "stopping"}
    BY <1>1, <1>3
  <2> QED
    BY <1>1, <2>1, <2>2 DEF LoaderInv, Loader!TypeOK
<1>7. HandlesKept'
  BY <1>1 DEF LoaderInv, HandlesKept, LibraryEntries, Loader!Loaded
<1>8. Ordering'
  <2> SUFFICES ASSUME pc' = "initializing" PROVE Ordering'
    BY <1>1 DEF Ordering
  <2>1. order' # <<>>
    BY <1>1, <1>3
  <2>2. ASSUME NEW n \in settled', state'[n] = "Loaded" PROVE n \in ToSet(order')
    <3>1. n \in Names /\ n # h /\ n \in settled
      BY <1>1, <1>5, <2>2 DEF LoaderInv, Loader!TypeOK
    <3>2. n \in ToSet(order)
      BY <1>4, <2>2, <3>1 DEF LoaderInv, Ordering
    <3> QED
      BY <1>1, <1>3, <3>1, <3>2
  <2>3. ASSUME NEW i \in DOMAIN order', NEW j \in DOMAIN order', order'[i] \in settled', order'[j] \in settled',
               order'[j] \in deps'[plugins'[order'[i]]]
        PROVE  j < i
    <3>1. /\ i \in Int /\ j \in Int /\ i + 1 \in DOMAIN order /\ j + 1 \in DOMAIN order
          /\ order'[i] = order[i + 1] /\ order'[j] = order[j + 1]
      BY <1>1, <1>3
    <3>2. j + 1 < i + 1
      BY <1>1, <2>3, <3>1 DEF LoaderInv, Ordering, Loader!DepsOf
    <3> QED
      BY <3>1, <3>2
  <2> QED
    BY <2>1, <2>2, <2>3 DEF Ordering, Loader!DepsOf
<1>9. Loader!LibrariesKept => Loader!LibrariesKept'
  BY <1>1 DEF Loader!LibrariesKept
<1> QED
  BY <1>1, <1>6, <1>7, <1>8, <1>9 DEF LoaderInv, NamedLikeFiles

LEMMA InitializeFailsStep ==
  ASSUME LoaderInv, Loader!InitializeFails PROVE LoaderInv'
<1> DEFINE h == Head(order)
<1>1. /\ order' = <<>> /\ pc' = "idle" /\ state' = [state EXCEPT ![h] = "Error"] /\ state[h] = "Loaded"
      /\ UNCHANGED <<deps, plugins, handles, sorted, settled, dropped, unmapped>>
  BY DEF Loader!InitializeFails, Loader!SetState, Loader!history
<1>2. h \in Names
  BY NextInOrder DEF LoaderInv, Loader!TypeOK, Ordering, Loader!InitializeFails
<1> HIDE DEF h
<1>3. Loader!TypeOK'
  BY <1>1, <1>2 DEF LoaderInv, Loader!TypeOK
<1>4. HandlesKept' /\ Ordering'
  BY <1>1 DEF LoaderInv, HandlesKept, LibraryEntries, Loader!Loaded, Ordering
<1>5. Loader!LibrariesKept => Loader!LibrariesKept'
  BY <1>1 DEF Loader!LibrariesKept
<1> QED
  BY <1>1, <1>3, <1>4, <1>5 DEF LoaderInv, NamedLikeFiles

LEMMA BeginInitializeStep ==
  ASSUME LoaderInv, Loader!BeginInitialize PROVE LoaderInv'
<1>1. PICK ord \in Loader!SetToSeqs(Loader!Loaded) :
        /\ Loader!IsOrder(Loader!Resolve(ord)) /\ order' = Loader!Resolve(ord)
        /\ pc' = IF Loader!Resolve(ord) = <<>> THEN "idle" ELSE "initializing"
  BY DEF Loader!BeginInitialize
<1> DEFINE o == Loader!Resolve(ord)
<1>2. /\ sorted' = TRUE /\ settled' = Loader!Loaded
      /\ UNCHANGED <<deps, plugins, state, handles, dropped, unmapped>>
  BY DEF Loader!BeginInitialize, Loader!table
<1>3. /\ o \in Seq(Loader!Loaded) /\ ToSet(o) = Loader!Loaded
      /\ \A i, j \in DOMAIN o : o[j] \in Loader!DepsOf(o[i]) => j < i
  BY <1>1, ResolvedLoaded DEF LoaderInv, HandlesKept
<1>4. order' = o /\ pc' = IF o = <<>> THEN "idle" ELSE "initializing"
  BY <1>1
<1> HIDE DEF o
<1>5. Loader!Loaded \subseteq Names
  BY DEF Loader!Loaded
<1>6. Loader!TypeOK'
  <2>1. order' \in Seq(Names)
    <3>1. Seq(Loader!Loaded) \subseteq Seq(Names)
      BY <1>5
    <3> QED
      BY <1>3, <1>4, <3>1
  <2> QED
    BY <1>2, <1>4, <1>5, <2>1 DEF LoaderInv, Loader!TypeOK
<1>7. HandlesKept'
  BY <1>2 DEF LoaderInv, HandlesKept, LibraryEntries, Loader!Loaded
<1>8. Ordering'
  <2>1. pc' # "stopping" /\ (pc' = "initializing" => order' # <<>>)
    BY <1>4
  <2>2. \A n \in settled' : n \in ToSet(order')
    BY <1>2, <1>3, <1>4
  <2>3. \A i, j \in DOMAIN order' : order'[j] \in deps'[plugins'[order'[i]]] => j < i
    BY <1>2, <1>3, <1>4 DEF Loader!DepsOf
  <2> QED
    BY <2>1, <2>2, <2>3 DEF Ordering, Loader!DepsOf
<1>9. Loader!LibrariesKept => Loader!LibrariesKept'
  BY <1>2 DEF Loader!LibrariesKept
<1> QED
  BY <1>2, <1>6, <1>7, <1>8, <1>9 DEF LoaderInv, NamedLikeFiles

LEMMA Reversed ==
  ASSUME NEW S, NEW s \in Seq(S)
  PROVE  /\ Reverse(s) \in Seq(S) /\ DOMAIN Reverse(s) = 1..Len(s) /\ ToSet(Reverse(s)) = ToSet(s)
         /\ \A i \in 1..Len(s) : Len(s) - i + 1 \in DOMAIN s /\ Reverse(s)[i] = s[Len(s) - i + 1]
<1> DEFINE r == Reverse(s)
<1>1. Len(s) \in Nat /\ DOMAIN s = 1..Len(s)
  OBVIOUS
<1>2. r = [i \in 1..Len(s) |-> s[Len(s) - i + 1]]
  BY <1>1 DEF Reverse
<1>3. \A i \in 1..Len(s) : Len(s) - i + 1 \in 1..Len(s) /\ Len(s) - (Len(s) - i + 1) + 1 = i
  BY <1>1
<1>4. \A i \in 1..Len(s) : r[i] = s[Len(s) - i + 1] /\ r[i] \in S
  BY <1>1, <1>2, <1>3
<1>5. r \in Seq(S) /\ DOMAIN r = 1..Len(s)
  BY <1>1, <1>2, <1>4
<1> HIDE DEF r
<1>6. \A i \in 1..Len(s) : \E j \in 1..Len(s) : s[i] = r[j]
  <2> SUFFICES ASSUME NEW i \in 1..Len(s) PROVE \E j \in 1..Len(s) : s[i] = r[j]
    OBVIOUS
  <2>1. r[Len(s) - i + 1] = s[i]
    BY <1>3, <1>4
  <2> QED
    BY <1>3, <2>1
<1>7. ToSet(r) = ToSet(s)
  <2>1. \A i \in 1..Len(s) : r[i] \in ToSet(s)
    BY <1>1, <1>3, <1>4 DEF ToSet
  <2>2. \A i \in 1..Len(s) : s[i] \in ToSet(r)
    BY <1>5, <1>6 DEF ToSet
  <2> QED
    BY <1>1, <1>5, <2>1, <2>2 DEF ToSet
<1> QED
  BY <1>1, <1>3, <1>4, <1>5, <1>7 DEF r

LEMMA BeginShutdownStep ==
  ASSUME LoaderInv, Loader!BeginShutdown PROVE LoaderInv'
<1>1. PICK ord \in Loader!SetToSeqs(Loader!Loaded) :
        /\ sorted' = Loader!IsOrder(Loader!Resolve(ord))
        /\ order' = IF Loader!IsOrder(Loader!Resolve(ord)) THEN Loader!Reverse(Loader!Resolve(ord)) ELSE ord
  BY DEF Loader!BeginShutdown
<1> DEFINE o == Loader!Resolve(ord)
           isOrder == Loader!IsOrder(o)
<1>2. /\ pc' = "stopping" /\ settled' = Loader!Loaded
      /\ UNCHANGED <<deps, plugins, state, handles, dropped, unmapped>>
  BY DEF Loader!BeginShutdown, Loader!table
<1>3. /\ Lists(ord, Loader!Loaded) /\ o \in Seq(Loader!Loaded) /\ DOMAIN o = 1..Len(o) /\ Len(o) \in Nat
      /\ isOrder =>
           /\ ToSet(o) = Loader!Loaded
           /\ \A i, j \in DOMAIN o : o[j] \in Loader!DepsOf(o[i]) => j < i
  BY ResolvedLoaded DEF LoaderInv, HandlesKept
<1>4. isOrder \in BOOLEAN
  BY DEF Loader!IsOrder
<1>5. sorted' = isOrder /\ order' = IF isOrder THEN Reverse(o) ELSE ord
  BY <1>1, LoaderSorts
<1> HIDE DEF o, isOrder
<1>6. Loader!Loaded \subseteq Names
  BY DEF Loader!Loaded
<1>7. order' \in Seq(Loader!Loaded) /\ ToSet(order') = Loader!Loaded
  BY <1>3, <1>5, Reversed DEF Lists
<1>8. Loader!TypeOK'
  <2>1. order' \in Seq(Names)
    <3>1. Seq(Loader!Loaded) \subseteq Seq(Names)
      BY <1>6
    <3> QED
      BY <1>7, <3>1
  <2>2. sorted' \in BOOLEAN
    BY <1>4, <1>5
  <2> QED
    BY <1>2, <1>6, <2>1, <2>2 DEF LoaderInv, Loader!TypeOK
<1>9. HandlesKept'
  BY <1>2 DEF LoaderInv, HandlesKept, LibraryEntries, Loader!Loaded
<1>10. Ordering'
  <2>1. ASSUME NEW n \in Names, state'[n] = "Initialized" PROVE n \in ToSet(order')
    <3>1. n \in Loader!Loaded
      BY <1>2, <2>1 DEF Loader!Loaded, LoaderInv, Loader!TypeOK
    <3> QED
      BY <1>7, <3>1
  <2>2. ASSUME sorted', NEW i \in DOMAIN order', NEW j \in DOMAIN order', order'[j] \in deps'[plugins'[order'[i]]]
        PROVE  i < j
    <3>1. isOrder /\ order' = Reverse(o)
      BY <1>5, <2>2
    <3>2. /\ i \in 1..Len(o) /\ j \in 1..Len(o)
          /\ Len(o) - i + 1 \in DOMAIN o /\ order'[i] = o[Len(o) - i + 1]
          /\ Len(o) - j + 1 \in DOMAIN o /\ order'[j] = o[Len(o) - j + 1]
      BY <1>3, <3>1, Reversed
    <3>3. Len(o) - j + 1 < Len(o) - i + 1
      BY <1>2, <1>3, <2>2, <3>1, <3>2 DEF Loader!DepsOf
    <3> QED
      BY <1>3, <3>2, <3>3
  <2> QED
    BY <1>2, <2>1, <2>2 DEF Ordering, Loader!DepsOf
<1>11. Loader!LibrariesKept => Loader!LibrariesKept'
  BY <1>2 DEF Loader!LibrariesKept
<1> QED
  BY <1>2, <1>8, <1>9, <1>10, <1>11 DEF LoaderInv, NamedLikeFiles

LEMMA StopNextStep ==
  ASSUME LoaderInv, Loader!StopNext PROVE LoaderInv'
<1> DEFINE h == Head(order)
           t == Tail(order)
<1>1. /\ pc = "stopping" /\ order # <<>> /\ order' = t
      /\ state' = IF state[h] = "Initialized" THEN [state EXCEPT ![h] = "Stopped"] ELSE state
      /\ UNCHANGED <<deps, plugins, handles, pc, sorted, settled, dropped, unmapped>>
  BY DEF Loader!StopNext, Loader!SetState, Loader!history
<1>2. order \in Seq(Names) /\ order # <<>>
  BY <1>1 DEF LoaderInv, Loader!TypeOK
<1>3. /\ h \in Names /\ h = order[1] /\ 1 \in DOMAIN order
      /\ t \in Seq(Names)
      /\ \A i \in DOMAIN t : i \in Int /\ i + 1 \in DOMAIN order /\ t[i] = order[i + 1]
      /\ \A x : x \in ToSet(order) <=> x = h \/ x \in ToSet(t)
  BY <1>2, NextInOrder
<1> HIDE DEF h, t
<1>4. (\A n \in Names : n # h => state'[n] = state[n]) /\ state'[h] # "Initialized"
  BY <1>1, <1>3 DEF LoaderInv, Loader!TypeOK
<1>5. Loader!TypeOK'
  <2>1. /\ state' \in [Names -> {"Unloaded", "Loaded", "Initialized", "Stopped", "Error"}]
        /\ \A n \in Names : state'[n] = "Unloaded" <=> plugins'[n] = NoLib
    BY <1>1, <1>3 DEF LoaderInv, Loader!TypeOK
  <2> QED
    BY <1>1, <1>3, <2>1 DEF LoaderInv, Loader!TypeOK
<1>6. HandlesKept'
  BY <1>1 DEF LoaderInv, HandlesKept, LibraryEntries, Loader!Loaded
<1>7. Ordering'
  <2>1. ASSUME NEW n \in Names, state'[n] = "Initialized" PROVE n \in ToSet(order')
    <3>1. n # h /\ n \in ToSet(order)
      BY <1>1, <1>4, <2>1 DEF LoaderInv, Ordering
    <3> QED
      BY <1>1, <1>3, <3>1
  <2>2. ASSUME sorted', NEW i \in DOMAIN order', NEW j \in DOMAIN order', order'[i] \in settled', order'[j] \in settled',
               order'[j] \in deps'[plugins'[order'[i]]]
        PROVE  i < j
    <3>1. /\ i \in Int /\ j \in Int /\ i + 1 \in DOMAIN order /\ j + 1 \in DOMAIN order
          /\ order'[i] = order[i + 1] /\ order'[j] = order[j + 1]
      BY <1>1, <1>3
    <3>2. i + 1 < j + 1
      BY <1>1, <2>2, <3>1 DEF LoaderInv, Ordering, Loader!DepsOf
    <3> QED
      BY <3>1, <3>2
  <2> QED
    BY <1>1, <2>1, <2>2 DEF Ordering, Loader!DepsOf
<1>8. Loader!LibrariesKept => Loader!LibrariesKept'
  BY <1>1 DEF Loader!LibrariesKept
<1> QED
  BY <1>1, <1>5, <1>6, <1>7, <1>8 DEF LoaderInv, NamedLikeFiles

LEMMA CloseAllStep ==
  ASSUME LoaderInv, Loader!CloseAll PROVE LoaderInv'
<1>1. /\ pc = "stopping" /\ order = <<>> /\ pc' = "idle" /\ settled' = {}
      /\ dropped' = (dropped \/ \E n \in Names : state[n] = "Initialized")
      /\ plugins' = [n \in Names |-> NoLib] /\ state' = [n \in Names |-> "Unloaded"]
      /\ UNCHANGED <<deps, order, sorted, unmapped>>
  BY DEF Loader!CloseAll
<1>2. handles' = [l \in Names |-> handles[l] - Cardinality(LibraryEntries(l))]
  BY LoaderCounts DEF Loader!CloseAll
<1>3. ASSUME NEW l \in Names
      PROVE  /\ handles'[l] \in 0..MaxHandles /\ LibraryEntries(l)' = {} /\ Cardinality(LibraryEntries(l)') = 0
             /\ handles[l] = Cardinality(LibraryEntries(l)) => handles'[l] = 0
  <2>1. /\ Cardinality(LibraryEntries(l)) \in Nat /\ Cardinality(LibraryEntries(l)) <= handles[l]
        /\ handles[l] \in 0..MaxHandles /\ MaxHandles \in Nat
    BY EntriesFinite DEF LoaderInv, HandlesKept, Loader!TypeOK, Loader!LoaderAssumption
  <2>2. handles'[l] = handles[l] - Cardinality(LibraryEntries(l))
    BY <1>2
  <2>3. LibraryEntries(l)' = {}
    BY <1>1 DEF LibraryEntries, LoaderInv, Loader!LoaderAssumption
  <2>4. Cardinality(LibraryEntries(l)') = 0
    BY <2>3, FS_EmptySet
  <2> QED
    BY <2>1, <2>2, <2>3, <2>4
<1>4. Loader!TypeOK'
  <2>1. handles' \in [Names -> 0..MaxHandles]
    BY <1>2, <1>3
  <2>2. dropped' \in BOOLEAN
    BY <1>1
  <2> QED
    BY <1>1, <2>1, <2>2 DEF LoaderInv, Loader!TypeOK
<1>5. HandlesKept'
  <2>1. Loader!Loaded' = {}
    BY <1>1 DEF Loader!Loaded
  <2>2. \A l \in Names : Cardinality(LibraryEntries(l)') <= handles'[l]
    BY <1>3 DEF LoaderInv, Loader!LoaderAssumption
  <2>3. \A n \in Names : plugins'[n] = NoLib
    BY <1>1
  <2> QED
    BY <2>1, <2>2, <2>3, FS_EmptySet DEF HandlesKept
<1>6. Ordering'
  BY <1>1 DEF Ordering
<1>7. ASSUME NamedLikeFiles PROVE Loader!LibrariesKept'
  <2>1. ~dropped /\ ~unmapped /\ \A k \in Names : handles[k] = Cardinality(LibraryEntries(k))
    BY <1>7, LibrariesCounted DEF LoaderInv
  <2>2. \A n \in Names : state[n] # "Initialized"
    BY <1>1 DEF LoaderInv, Ordering, ToSet
  <2>3. \A k \in Names : handles'[k] = Cardinality(LibraryEntries(k)')
    BY <1>3, <2>1
  <2>4. \A k \in Names : handles'[k] = Loader!Cardinality({n \in Names : plugins'[n] = k})
    BY <2>3, LoaderCounts DEF LibraryEntries
  <2> QED
    BY <1>1, <2>1, <2>2, <2>4 DEF Loader!LibrariesKept
<1> QED
  BY <1>1, <1>4, <1>5, <1>6, <1>7 DEF LoaderInv, NamedLikeFiles

LEMMA LoaderStep == ASSUME LoaderInv, Loader!Next PROVE LoaderInv'
<1>1. ASSUME NEW l \in Names, Loader!Load(l) PROVE LoaderInv'
  BY <1>1, StoreStep DEF Loader!Load, Loader!loop
<1>2. ASSUME NEW l \in Names, Loader!LoadFromPath(l) PROVE LoaderInv'
  <2>1. state[NameOf[l]] = "Unloaded" /\ dropped \in BOOLEAN
    BY <1>2 DEF Loader!LoadFromPath, LoaderInv, Loader!TypeOK, Loader!LoaderAssumption
  <2>2. dropped' = (dropped \/ state[NameOf[l]] = "Initialized")
    BY <1>2, <2>1 DEF Loader!LoadFromPath
  <2> QED
    BY <1>2, <2>2, StoreStep DEF Loader!LoadFromPath, Loader!loop
<1>3. ASSUME Loader!SkipInitialize \/ Loader!Initialize PROVE LoaderInv'
  BY <1>3, AdvanceStep DEF Loader!SkipInitialize, Loader!Initialize, Loader!SetState
<1> QED
  BY <1>1, <1>2, <1>3, RefuseStep, UnloadStep, BeginInitializeStep, InitializeFailsStep, BeginShutdownStep,
     StopNextStep, CloseAllStep DEF Loader!Next

LEMMA LoaderStarts == ASSUME Loader!Init, Loader!LoaderAssumption PROVE LoaderInv
<1>1. /\ plugins = [n \in Names |-> NoLib] /\ state = [n \in Names |-> "Unloaded"]
      /\ handles = [l \in Names |-> 0] /\ pc = "idle" /\ order = <<>> /\ sorted = TRUE
      /\ settled = {} /\ dropped = FALSE /\ unmapped = FALSE /\ deps \in [Names -> SUBSET Names]
  BY DEF Loader!Init, Loader!LoaderAssumption
<1>2. Loader!TypeOK
  <2>1. 0 \in 0..MaxHandles
    BY DEF Loader!LoaderAssumption
  <2>2. handles \in [Names -> 0..MaxHandles]
    BY <1>1, <2>1
  <2>3. /\ plugins \in [Names -> Names \cup {NoLib}]
        /\ state \in [Names -> {"Unloaded", "Loaded", "Initialized", "Stopped", "Error"}]
        /\ \A n \in Names : state[n] = "Unloaded" <=> plugins[n] = NoLib
    BY <1>1
  <2>4. order \in Seq(Names)
    BY <1>1
  <2> QED
    BY <1>1, <2>2, <2>3, <2>4 DEF Loader!TypeOK
<1>3. Loader!Loaded = {}
  BY <1>1 DEF Loader!Loaded
<1>4. ASSUME NEW l \in Names PROVE Cardinality(LibraryEntries(l)) = 0
  <2>1. LibraryEntries(l) = {}
    BY <1>1 DEF LibraryEntries, Loader!LoaderAssumption
  <2> QED
    BY <2>1, FS_EmptySet
<1>5. HandlesKept
  BY <1>1, <1>3, <1>4, FS_EmptySet DEF HandlesKept
<1>6. Ordering
  BY <1>1 DEF Ordering
<1>7. Loader!LibrariesKept
  BY <1>1, <1>4, LibrariesCounted
<1> QED
  BY <1>2, <1>5, <1>6, <1>7 DEF LoaderInv

LEMMA LoaderOrders == ASSUME LoaderInv PROVE Loader!OrderUnlessCycle
BY ResolvedLoaded DEF LoaderInv, HandlesKept, Loader!OrderUnlessCycle

(* A step takes the next of its order: what it needs is not in the rest.   *)
LEMMA StepsInOrder ==
  ASSUME LoaderInv, Loader!Next
  PROVE  \A n, m \in settled :
           /\ state[n] = "Loaded" /\ state'[n] = "Initialized" /\ m \in Loader!DepsOf(n) => state[m] # "Loaded"
           /\ sorted /\ pc = "stopping" /\ state[n] = "Initialized" /\ state'[n] = "Stopped"
                /\ n \in Loader!DepsOf(m) => state[m] # "Initialized"
<1> SUFFICES ASSUME NEW n \in settled, NEW m \in settled
             PROVE  /\ state[n] = "Loaded" /\ state'[n] = "Initialized" /\ m \in Loader!DepsOf(n)
                         => state[m] # "Loaded"
                    /\ sorted /\ pc = "stopping" /\ state[n] = "Initialized" /\ state'[n] = "Stopped"
                         /\ n \in Loader!DepsOf(m) => state[m] # "Initialized"
  OBVIOUS
<1>1. n \in Names /\ m \in Names /\ state \in [Names -> {"Unloaded", "Loaded", "Initialized", "Stopped", "Error"}]
  BY DEF LoaderInv, Loader!TypeOK
<1>2. CASE state'[n] = state[n]
  BY <1>2
<1>3. ASSUME NEW l \in Names, Loader!Load(l) \/ Loader!LoadFromPath(l) PROVE state'[n] = state[n] \/ state'[n] = "Loaded"
  <2>1. state' = [state EXCEPT ![NameOf[l]] = "Loaded"]
    BY <1>3 DEF Loader!Load, Loader!LoadFromPath, Loader!Store, Loader!SetState
  <2> QED
    BY <1>1, <2>1
<1>4. ASSUME NEW l \in Names, Loader!Unload(l) PROVE state'[n] = state[n] \/ state'[n] = "Unloaded"
  <2>1. state' = [state EXCEPT ![l] = "Unloaded"]
    BY <1>4 DEF Loader!Unload, Loader!SetState
  <2> QED
    BY <1>1, <2>1
<1>5. ASSUME NEW l \in Names, Loader!RefuseDuplicate(l) PROVE state' = state
  BY <1>5 DEF Loader!RefuseDuplicate, Loader!table
<1>6. ASSUME Loader!BeginInitialize \/ Loader!SkipInitialize \/ Loader!BeginShutdown PROVE state' = state
  BY <1>6 DEF Loader!BeginInitialize, Loader!SkipInitialize, Loader!BeginShutdown, Loader!table
<1>7. ASSUME Loader!InitializeFails PROVE state'[n] = state[n] \/ state'[n] = "Error"
  <2>1. state' = [state EXCEPT ![Head(order)] = "Error"]
    BY <1>7 DEF Loader!InitializeFails, Loader!SetState
  <2> QED
    BY <1>1, <2>1
<1>8. ASSUME Loader!CloseAll PROVE state'[n] = "Unloaded"
  BY <1>1, <1>8 DEF Loader!CloseAll
<1>9. CASE Loader!Initialize
  <2>1. /\ pc = "initializing" /\ state' = [state EXCEPT ![Head(order)] = "Initialized"]
    BY <1>9 DEF Loader!Initialize, Loader!SetState
  <2> SUFFICES ASSUME n = Head(order), state[m] = "Loaded", m \in Loader!DepsOf(n) PROVE FALSE
    BY <1>1, <2>1
  <2>2. order \in Seq(Names) /\ order # <<>>
    BY <2>1 DEF LoaderInv, Loader!TypeOK, Ordering
  <2>3. n = order[1] /\ 1 \in DOMAIN order
    BY <2>2, NextInOrder
  <2>4. PICK j \in DOMAIN order : order[j] = m
    BY <2>1 DEF LoaderInv, Ordering, ToSet
  <2>5. j < 1
    BY <2>1, <2>3, <2>4 DEF LoaderInv, Ordering
  <2> QED
    BY <2>2, <2>5
<1>10. CASE Loader!StopNext
  <2>1. /\ pc = "stopping" /\ order # <<>>
        /\ state' = IF state[Head(order)] = "Initialized" THEN [state EXCEPT ![Head(order)] = "Stopped"] ELSE state
    BY <1>10 DEF Loader!StopNext, Loader!SetState
  <2> SUFFICES ASSUME n = Head(order), sorted, state[m] = "Initialized", n \in Loader!DepsOf(m) PROVE FALSE
    BY <1>1, <2>1
  <2>2. order \in Seq(Names)
    BY DEF LoaderInv, Loader!TypeOK
  <2>3. n = order[1] /\ 1 \in DOMAIN order
    BY <2>1, <2>2, NextInOrder
  <2>4. PICK j \in DOMAIN order : order[j] = m
    BY <1>1, <2>1 DEF LoaderInv, Ordering, ToSet
  <2>5. j < 1
    BY <2>1, <2>3, <2>4 DEF LoaderInv, Ordering
  <2> QED
    BY <2>2, <2>5
<1> QED
  BY <1>2, <1>3, <1>4, <1>5, <1>6, <1>7, <1>8, <1>9, <1>10 DEF Loader!Next

LEMMA LoaderInvHolds == Spec => []LoaderInv
<1>1. Init => LoaderInv
  BY LoaderStarts, ServiceConstants DEF Init
<1>2. LoaderInv /\ [Next]_services => LoaderInv'
  <2> SUFFICES ASSUME LoaderInv, [Next]_services PROVE LoaderInv'
    OBVIOUS
  <2>1. CASE Loader!Next
    BY <2>1, LoaderStep
  <2>2. CASE UNCHANGED loaderVars
    BY <2>2 DEF loaderVars, LoaderInv, Loader!TypeOK, HandlesKept, LibraryEntries, Ordering, NamedLikeFiles,
                Loader!Loaded, Loader!DepsOf, Loader!LibrariesKept
  <2> QED
    BY <2>1, <2>2 DEF Next, ServiceStep, PluginStep, RemoteStep, WatchStep, services, pluginSide
<1> QED
  BY <1>1, <1>2, PTL DEF Spec

(* What resolves a plugin's dependencies is an instance, too.              *)
LEMMA ManagerOrders == Manager!ResolutionOrdered
<1>1. \A V, d, ord : Manager!Sorted(V, d, ord) = Sorted(V, d, ord)
  BY DEF Manager!Cardinality, Cardinality, Manager!Sorted, Sorted, Manager!Start, Start, Manager!Pop, Pop,
         Manager!Kept, Kept, Manager!Nth, Nth, Manager!BecomesReady, BecomesReady, Manager!InDegree, InDegree,
         Manager!ToSet, ToSet
<1>2. \A V, d : Manager!Acyclic(V, d) <=> Acyclic(V, d)
  BY DEF Manager!Acyclic, Acyclic
<1>3. \A S : Manager!SetToSeqs(S) = SetToSeqs(S)
  BY DEF Manager!Cardinality, Cardinality, Manager!SetToSeqs, SetToSeqs, Manager!IsInjective, IsInjective
<1>4. \A d, p : Manager!NodesFrom(d, p) = NodesFrom(d, p)
  BY DEF Manager!Cardinality, Cardinality, Manager!NodesFrom, NodesFrom, Manager!DependenciesOf, DependenciesOf
<1>5. \A d, p : Manager!GraphFrom(d, p) = GraphFrom(d, p)
  BY <1>4 DEF Manager!GraphFrom, GraphFrom, Manager!DependenciesOf, DependenciesOf
<1>6. \A s, K : Manager!Kept(s, K) = Kept(s, K)
  BY DEF Manager!Cardinality, Cardinality, Manager!Kept, Kept, Manager!Nth, Nth
<1>7. \A S : Manager!Cardinality(S) = Cardinality(S)
  BY DEF Manager!Cardinality, Cardinality
<1>8. ASSUME NEW d, NEW r, NEW k, NEW p, NEW ord
      PROVE  Manager!Resolution(d, r, k, p, ord) = Resolution(d, r, k, p, ord)
  <2> DEFINE W      == Manager!NodesFrom(d, p)
             orderM == Manager!Sorted(W, Manager!GraphFrom(d, p), Manager!Kept(ord, {i \in DOMAIN ord : ord[i] \in W}))
             V      == NodesFrom(d, p)
             orderV == Sorted(V, GraphFrom(d, p), Kept(ord, {i \in DOMAIN ord : ord[i] \in V}))
  <2>1. W = V
    BY <1>4
  <2>2. orderM = orderV
    <3>1. Manager!Kept(ord, {i \in DOMAIN ord : ord[i] \in W}) = Kept(ord, {i \in DOMAIN ord : ord[i] \in V})
      BY <1>6, <2>1
    <3>2. Manager!GraphFrom(d, p) = GraphFrom(d, p)
      BY <1>5
    <3> HIDE DEF W, V
    <3> QED
      BY <1>1, <2>1, <3>1, <3>2
  <2>3. Manager!Kept(orderM, {i \in DOMAIN orderM : orderM[i] # p})
          = Kept(orderV, {i \in DOMAIN orderV : orderV[i] # p})
    <3> HIDE DEF orderM, orderV
    <3> QED
      BY <1>6, <2>2
  <2>4. Resolution(d, r, k, p, ord) =
          IF Len(orderV) # Cardinality(V) THEN Circular
          ELSE IF r \ k # {} THEN Missing
          ELSE Kept(orderV, {i \in DOMAIN orderV : orderV[i] # p})
    BY DEF Resolution
  <2>5. Manager!Resolution(d, r, k, p, ord) =
          IF Len(orderM) # Manager!Cardinality(W) THEN Manager!Circular
          ELSE IF r \ k # {} THEN Manager!Missing
          ELSE Manager!Kept(orderM, {i \in DOMAIN orderM : orderM[i] # p})
    BY DEF Manager!Resolution
  <2> HIDE DEF W, V, orderM, orderV
  <2>6. Manager!Cardinality(W) = Cardinality(V)
    BY <1>7, <2>1
  <2> QED
    BY <2>2, <2>3, <2>4, <2>5, <2>6 DEF Manager!Circular, Circular, Manager!Missing, Missing
<1>9. \A d, p, s : Manager!IsResolution(d, p, s) <=> IsResolution(d, p, s)
  BY <1>4 DEF Manager!IsResolution, IsResolution, Manager!IsInjective, IsInjective, Manager!ToSet, ToSet,
              Manager!DependenciesOf, DependenciesOf
<1>10. IsFiniteSet(ResolvedIds)
  BY ServiceConstants DEF Manager!ManagerAssumption, Manager!IsFiniteSet, IsFiniteSet
<1>11. ASSUME NEW D \in SUBSET ResolvedIds, NEW d \in [D -> SUBSET ResolvedIds], NEW p \in D,
              NEW ord \in Manager!SetToSeqs(ResolvedIds)
       PROVE  IF Manager!Acyclic(Manager!NodesFrom(d, p), Manager!GraphFrom(d, p))
                THEN Manager!IsResolution(d, p, Manager!Resolution(d, d[p], ResolvedIds, p, ord))
                ELSE Manager!Resolution(d, d[p], ResolvedIds, p, ord) = Manager!Circular
  <2>1. ord \in SetToSeqs(ResolvedIds)
    BY <1>3
  <2>2. IF Acyclic(NodesFrom(d, p), GraphFrom(d, p))
          THEN IsResolution(d, p, Resolution(d, d[p], ResolvedIds, p, ord))
          ELSE Resolution(d, d[p], ResolvedIds, p, ord) = Circular
    BY <1>10, <2>1, ResolvedInOrder
  <2> QED
    BY <1>2, <1>4, <1>5, <1>8, <1>9, <2>2 DEF Manager!Circular, Circular
<1> QED
  BY <1>11 DEF Manager!ResolutionOrdered

(* The orders in which plugins are initialised, and what one plugin needs  *)
(* is resolved, are complete unless there is a cycle and follow the        *)
(* dependencies, for any plugins, dependencies and iteration of the tables *)
(* (PluginLoader::topologicalSort, DependencyResolver::resolve,            *)
(* PluginManager::resolveDependencies).                                    *)
THEOREM OrderUnlessCycleHolds == Spec => []OrderUnlessCycle
<1>1. LoaderInv => OrderUnlessCycle
  BY LoaderOrders, ManagerOrders DEF OrderUnlessCycle
<1> QED
  BY <1>1, LoaderInvHolds, PTL

(* Initialisation goes up the dependencies and shutdown down, for any      *)
(* plugins, whatever other threads load and unload between the steps       *)
(* (PluginLoader::initializeAll, shutdownAll).                             *)
THEOREM OrderRespectedHolds == Spec => OrderRespected
<1> DEFINE Respected ==
      \A n, m \in settled :
        /\ state[n] = "Loaded" /\ state'[n] = "Initialized" /\ m \in Loader!DepsOf(n) => state[m] # "Loaded"
        /\ sorted /\ pc = "stopping" /\ state[n] = "Initialized" /\ state'[n] = "Stopped"
             /\ n \in Loader!DepsOf(m) => state[m] # "Initialized"
<1>1. LoaderInv /\ [Next]_services => [Respected]_(Loader!vars)
  <2> SUFFICES ASSUME LoaderInv, Next PROVE Respected \/ UNCHANGED loaderVars
    BY DEF services, pluginSide, loaderVars, Loader!vars, Loader!table, Loader!loop, Loader!history
  <2>1. CASE Loader!Next
    BY <2>1, StepsInOrder
  <2> QED
    BY <2>1 DEF Next, ServiceStep, PluginStep, RemoteStep, WatchStep, pluginSide
<1> QED
  BY <1>1, LoaderInvHolds, PTL DEF Spec, OrderRespected, Loader!OrderRespected
-----------------------------------------------------------------------------
(* Updates.                                                                *)

InOrder(v) == v = FirstVersion \/ (v \in DOMAIN progress /\ progress[v] = "Installed")

(* UpdatesRevert, and that a rollback does not lead to the version it      *)
(* marks as rolled back.                                                   *)
UpdateInv ==
  /\ replacedBy \in [Updates -> Updates \cup {FirstVersion, NoUpdate}]
  /\ currentVersion \in Updates \cup {FirstVersion}
  /\ InOrder(currentVersion)
  /\ previousVersion # NoUpdate =>
       /\ currentVersion \in Updates /\ previousVersion = replacedBy[currentVersion]
       /\ InOrder(previousVersion)
       /\ previousVersion # currentVersion \/ previousVersion = FirstVersion
  /\ previousVersion \in Updates \cup {FirstVersion, NoUpdate}

LEMMA UpdateStep == ASSUME UpdateInv, Updating!Next PROVE UpdateInv'
<1> USE DEF Updating!Known, Updating!SetStatus, Updating!others, Updating!versionState
<1>1. ASSUME NEW v \in Updates, Updating!DownloadUpdate(v) PROVE UpdateInv'
  BY <1>1 DEF Updating!DownloadUpdate, UpdateInv, InOrder
<1>2. ASSUME NEW v \in Updates, Updating!InstallUpdate(v) PROVE UpdateInv'
  BY <1>2 DEF Updating!InstallUpdate, Updating!Ready, UpdateInv, InOrder
<1>3. ASSUME NEW v \in Updates, Updating!InstallFails(v) PROVE UpdateInv'
  BY <1>3 DEF Updating!InstallFails, Updating!Ready, UpdateInv, InOrder
<1>4. ASSUME NEW v \in Updates, Updating!CancelUpdate(v) PROVE UpdateInv'
  BY <1>4 DEF Updating!CancelUpdate, Updating!Restrict, UpdateInv, InOrder
<1>5. ASSUME Updating!Rollback PROVE UpdateInv'
  BY <1>5 DEF Updating!Rollback, UpdateInv, InOrder
<1>6. ASSUME UNCHANGED <<progress, currentVersion, previousVersion, replacedBy>>
      PROVE  UpdateInv'
  BY <1>6 DEF UpdateInv, InOrder
<1> QED
  BY <1>1, <1>2, <1>3, <1>4, <1>5, <1>6 DEF Updating!Next, Updating!AddAvailableUpdate,
     Updating!SetCompatibilityMatrix, Updating!StageRollout, Updating!DownloadSignature,
     Updating!InstallSignature

(* The running version and the one a rollback leads to are in order, and   *)
(* the latter is the one it replaced, for any versions and any sequence of *)
(* calls (UpdateManager::installUpdate, rollback, ...).                    *)
THEOREM UpdatesRevertHolds == Spec => []UpdatesRevert
<1>1. Init => UpdateInv
  BY DEF Init, Updating!Init, UpdateInv, InOrder
<1>2. UpdateInv /\ [Next]_services => UpdateInv'
  <2> SUFFICES ASSUME UpdateInv, [Next]_services PROVE UpdateInv'
    OBVIOUS
  <2>1. CASE Updating!Next
    BY <2>1, UpdateStep
  <2>2. CASE UNCHANGED updatingVars
    BY <2>2 DEF updatingVars, UpdateInv, InOrder
  <2> QED
    BY <2>1, <2>2 DEF Next, ServiceStep, PluginStep, RemoteStep, WatchStep, services, serviceSide
<1>3. UpdateInv => UpdatesRevert
  BY DEF UpdateInv, InOrder, UpdatesRevert, Updating!UpdatesRevert, Updating!Known
<1> QED
  BY <1>1, <1>2, <1>3, PTL DEF Spec
-----------------------------------------------------------------------------
(* Versions of a plugin.                                                   *)

VersionEntries == [version : PluginVersions, active : BOOLEAN,
                   previous : PluginVersions \cup {NoPlugin}]

(* ActiveIsCurrent, and what it takes: every previous version is that of   *)
(* an entry, so that a rollback finds one to mark; and the last entry is   *)
(* the one that replaced `replaced'.                                       *)
VersionInv ==
  /\ versions \in Seq(VersionEntries)
  /\ current = NoPlugin => versions = <<>>
  /\ current # NoPlugin => \E i \in DOMAIN versions : versions[i].active
  /\ \A i \in DOMAIN versions :
       /\ versions[i].active => versions[i].version = current
       /\ versions[i].previous \in Version!Installed \cup {NoPlugin}
  /\ replaced # NoPlugin =>
       /\ versions # <<>> /\ versions[Len(versions)].active
       /\ versions[Len(versions)].previous = replaced

LEMMA InstallStep ==
  ASSUME VersionInv, NEW v \in PluginVersions, Version!Install(v)
  PROVE  VersionInv'
<1> DEFINE new == [version |-> v, previous |-> current, active |-> TRUE]
           old == Version!Deactivated
           n   == Len(versions)
<1>1. /\ v # NoPlugin /\ current \in PluginVersions \cup {NoPlugin}
      /\ current \in Version!Installed \cup {NoPlugin}
  <2>1. v # NoPlugin
    BY ServiceConstants DEF Version!VersionsAssumption
  <2>2. CASE current # NoPlugin
    <3>1. PICK i \in DOMAIN versions : versions[i].active
      BY <2>2 DEF VersionInv
    <3>2. versions[i].version = current /\ versions[i] \in VersionEntries
      BY <3>1 DEF VersionInv
    <3> QED
      BY <2>1, <3>2 DEF VersionEntries, Version!Installed
  <2> QED
    BY <2>1, <2>2
<1>2. /\ old \in Seq(VersionEntries) /\ Len(old) = n /\ n \in Nat
      /\ \A i \in 1..n : old[i] = [versions[i] EXCEPT !.active = FALSE]
  <2>1. n \in Nat /\ DOMAIN versions = 1..n /\ versions \in [1..n -> VersionEntries]
    BY DEF VersionInv
  <2>2. old \in [1..n -> VersionEntries]
    BY <2>1 DEF Version!Deactivated, VersionEntries
  <2> QED
    BY <2>1, <2>2 DEF Version!Deactivated
<1>3. /\ versions' = Append(old, new) /\ new \in VersionEntries
      /\ current' = v /\ replaced' = current
  BY <1>1 DEF Version!Install, VersionEntries
<1>4. /\ versions' \in Seq(VersionEntries) /\ Len(versions') = n + 1
      /\ DOMAIN versions' = 1..(n+1) /\ versions'[n+1] = new
      /\ \A i \in 1..n : versions'[i] = [versions[i] EXCEPT !.active = FALSE]
  <2> HIDE DEF old, new
  <2> QED
    BY <1>2, <1>3
<1>5. /\ DOMAIN versions = 1..n
      /\ \A i \in 1..n : versions[i] \in VersionEntries
  BY DEF VersionInv
<1>6. Version!Installed \subseteq Version!Installed'
  <2>1. ASSUME NEW i \in 1..n PROVE versions'[i].version = versions[i].version
    BY <1>4, <1>5 DEF VersionEntries
  <2> QED
    BY <1>2, <1>4, <1>5, <2>1 DEF Version!Installed
<1>7. ASSUME NEW i \in DOMAIN versions'
      PROVE  /\ versions'[i].active => versions'[i].version = current'
             /\ versions'[i].previous \in Version!Installed' \cup {NoPlugin}
  <2>1. CASE i = n + 1
    BY <2>1, <1>1, <1>3, <1>4, <1>6
  <2>2. CASE i \in 1..n
    <3>1. ~versions'[i].active /\ versions'[i].previous = versions[i].previous
      BY <2>2, <1>4, <1>5 DEF VersionEntries
    <3> QED
      BY <2>2, <3>1, <1>5, <1>6 DEF VersionInv
  <2> QED
    BY <2>1, <2>2, <1>2, <1>4
<1> QED
  <2>1. versions' # <<>> /\ versions'[n+1].active /\ versions'[n+1].previous = current
        /\ n + 1 \in DOMAIN versions'
    BY <1>2, <1>4
  <2> HIDE DEF new, old
  <2> QED
    BY <2>1, <1>1, <1>3, <1>4, <1>7 DEF VersionInv

LEMMA SwitchStep ==
  ASSUME VersionInv, NEW v \in Version!Installed, Version!SwitchTo(v)
  PROVE  VersionInv'
<1> DEFINE n == Len(versions)
<1>1. /\ n \in Nat /\ DOMAIN versions = 1..n /\ versions \in [1..n -> VersionEntries]
  BY DEF VersionInv
<1>2. /\ versions' \in [1..n -> VersionEntries] /\ current' = v /\ replaced' = NoPlugin
      /\ \A i \in 1..n : /\ versions'[i].active = (versions[i].version = v)
                         /\ versions'[i].version = versions[i].version
                         /\ versions'[i].previous = versions[i].previous
  BY <1>1 DEF Version!SwitchTo, Version!Activated, VersionEntries
<1>3. versions' \in Seq(VersionEntries) /\ DOMAIN versions' = 1..n
  BY <1>1, <1>2
<1>4. Version!Installed' = Version!Installed
  BY <1>1, <1>2, <1>3 DEF Version!Installed
<1>5. v # NoPlugin /\ \E i \in 1..n : versions'[i].active
  BY <1>1, <1>2, ServiceConstants
  DEF Version!Installed, Version!VersionsAssumption, VersionEntries
<1> QED
  BY <1>1, <1>2, <1>3, <1>4, <1>5 DEF VersionInv

(* The last active entry exists once one is active.                        *)
LEMMA LastActiveExists ==
  ASSUME VersionInv, \E i \in DOMAIN versions : versions[i].active
  PROVE  /\ Version!LastActive \in DOMAIN versions /\ versions[Version!LastActive].active
         /\ \A j \in DOMAIN versions : versions[j].active => j <= Version!LastActive
<1> DEFINE n == Len(versions)
           S == {i \in DOMAIN versions : versions[i].active}
<1>1. DOMAIN versions = 1..n /\ n \in Nat
  BY DEF VersionInv
<1>2. S # {} /\ S \in SUBSET Int /\ \A x \in S : x <= n
  BY <1>1
<1>3. PICK m \in S : \A j \in S : j <= m
  <2> DEFINE T == {n - i : i \in S}
             R == {ij \in Nat \X Nat : ij[1] < ij[2]}
  <2>1. T \subseteq Nat /\ T # {}
    BY <1>1, <1>2
  <2>2. PICK x \in T : \A y \in T : <<y, x>> \notin R
    <3>1. IsWellFoundedOn(R, Nat)
      BY NatLessThanWellFounded DEF OpToRel
    <3> QED
      BY <2>1, <3>1, WFMin
  <2>3. PICK m \in S : x = n - m
    OBVIOUS
  <2>4. ASSUME NEW j \in S PROVE j <= m
    <3>1. n - j \in T /\ n - j \in Nat /\ x \in Nat /\ j \in Int /\ m \in Int /\ n \in Nat
      BY <1>1, <1>2, <2>1
    <3>2. ~(n - j < x)
      BY <3>1, <2>2
    <3> HIDE DEF n, S, T
    <3> QED
      BY <2>3, <3>1, <3>2
  <2> QED
    BY <2>4
<1> QED
  BY <1>3 DEF Version!LastActive

LEMMA PreviousInstalled ==
  ASSUME VersionInv, Version!PreviousVersion # NoPlugin
  PROVE  Version!PreviousVersion \in Version!Installed
<1>1. \E i \in DOMAIN versions : versions[i].active
  BY DEF Version!PreviousVersion
<1> DEFINE a == Version!LastActive
<1>2. a \in DOMAIN versions
  BY <1>1, LastActiveExists
<1>3. DOMAIN versions = 1..Len(versions) /\ Len(versions) \in Nat
  BY DEF VersionInv
<1>4. a > 1 => a - 1 \in DOMAIN versions
  BY <1>2, <1>3
<1>5. versions[a].previous \in Version!Installed \cup {NoPlugin}
  BY <1>2 DEF VersionInv
<1> QED
  BY <1>1, <1>2, <1>4, <1>5 DEF Version!PreviousVersion, Version!Installed

LEMMA VersionStep == ASSUME VersionInv, Version!Next PROVE VersionInv'
<1>1. ASSUME NEW v \in PluginVersions, Version!RegisterVersion(v) PROVE VersionInv'
  BY <1>1, InstallStep DEF Version!RegisterVersion
<1>2. ASSUME NEW v \in PluginVersions, Version!MigrateToVersion(v) PROVE VersionInv'
  BY <1>2, InstallStep, SwitchStep DEF Version!MigrateToVersion
<1>3. ASSUME Version!Rollback PROVE VersionInv'
  BY <1>3, PreviousInstalled, SwitchStep DEF Version!Rollback
<1>4. ASSUME Version!RemoveVersionHistory PROVE VersionInv'
  BY <1>4 DEF Version!RemoveVersionHistory, VersionInv
<1> QED
  BY <1>1, <1>2, <1>3, <1>4 DEF Version!Next

LEMMA VersionImplies == VersionInv => Version!ActiveIsCurrent
<1> SUFFICES ASSUME VersionInv PROVE Version!ActiveIsCurrent
  OBVIOUS
<1>1. DOMAIN versions = 1..Len(versions) /\ Len(versions) \in Nat
  BY DEF VersionInv
<1>2. ASSUME replaced # NoPlugin PROVE Version!PreviousVersion = replaced
  <2>1. /\ Len(versions) \in DOMAIN versions /\ versions[Len(versions)].active
        /\ versions[Len(versions)].previous = replaced
    BY <1>1, <1>2 DEF VersionInv
  <2>2. Version!LastActive = Len(versions)
    BY <1>1, <2>1, LastActiveExists
  <2> QED
    BY <1>2, <2>1, <2>2 DEF Version!PreviousVersion
<1> QED
  BY <1>1, <1>2 DEF VersionInv, Version!ActiveIsCurrent, Version!Tracked

(* Versions of a policy: ActiveIsDistributed, with the numbers counted from *)
(* the first version, so that a new one is not the active one.             *)
PolicyEntries == [version : Int, active : BOOLEAN]

PolicyInv ==
  /\ policyVersions \in Seq(PolicyEntries)
  /\ distributed = NoPolicy => policyVersions = <<>> /\ ~misled
  /\ distributed # NoPolicy => distributed \in Int /\ CloudPolicy!Known(distributed)
  /\ \A i \in DOMAIN policyVersions :
       /\ policyVersions[i].version = policyVersions[1].version + i - 1
       /\ policyVersions[i].active <=> policyVersions[i].version = distributed /\ ~misled

LEMMA PolicyStep == ASSUME PolicyInv, CloudPolicy!Next PROVE PolicyInv'
<1> DEFINE n == Len(policyVersions)
<1>1. /\ n \in Nat /\ DOMAIN policyVersions = 1..n
      /\ policyVersions \in [1..n -> PolicyEntries]
  BY DEF PolicyInv
<1>2. ASSUME NEW v \in FirstVersions, CloudPolicy!DistributePolicy(v) PROVE PolicyInv'
  <2>1. v \in Int /\ v # NoPolicy
    BY ServiceConstants DEF CloudPolicy!CloudPolicyAssumption
  <2>2. /\ policyVersions' = <<[version |-> v, active |-> TRUE]>>
        /\ distributed' = v /\ misled' = misled /\ ~misled
    BY <1>2 DEF CloudPolicy!DistributePolicy, PolicyInv
  <2> QED
    BY <2>1, <2>2 DEF PolicyInv, PolicyEntries, CloudPolicy!Known
<1>3. ASSUME CloudPolicy!CreatePolicyVersion PROVE PolicyInv'
  <2> DEFINE new == [version |-> policyVersions[n].version + 1, active |-> FALSE]
  <2>1. /\ policyVersions' = Append(policyVersions, new) /\ distributed # NoPolicy
        /\ distributed' = distributed /\ misled' = misled
    BY <1>3 DEF CloudPolicy!CreatePolicyVersion
  <2>2. PICK k \in 1..n : policyVersions[k].version = distributed
    BY <1>1, <2>1 DEF PolicyInv, CloudPolicy!Known
  <2>3. /\ n >= 1 /\ policyVersions[1].version \in Int /\ policyVersions[n].version \in Int
        /\ policyVersions[n].version = policyVersions[1].version + n - 1
        /\ distributed = policyVersions[1].version + k - 1
    <3>1. 1 \in 1..n /\ n \in 1..n /\ n >= 1
      BY <1>1, <2>2
    <3>2. \A i \in 1..n : policyVersions[i].version \in Int
      BY <1>1 DEF PolicyEntries
    <3>3. \A i \in 1..n : policyVersions[i].version = policyVersions[1].version + i - 1
      BY <1>1 DEF PolicyInv
    <3> QED
      BY <2>2, <3>1, <3>2, <3>3
  <2>4. /\ new \in PolicyEntries /\ new.version = policyVersions[1].version + (n + 1) - 1
        /\ new.version # distributed /\ new.active = FALSE
    BY <1>1, <2>2, <2>3 DEF PolicyEntries
  <2> HIDE DEF new
  <2>5. /\ policyVersions' \in Seq(PolicyEntries) /\ DOMAIN policyVersions' = 1..(n+1)
        /\ policyVersions'[n+1] = new
        /\ \A i \in 1..n : policyVersions'[i] = policyVersions[i]
    BY <1>1, <2>1, <2>4 DEF PolicyInv
  <2>6. policyVersions'[1] = policyVersions[1] /\ policyVersions'[k] = policyVersions[k]
        /\ k \in DOMAIN policyVersions'
    BY <1>1, <2>2, <2>3, <2>5
  <2>7. ASSUME NEW i \in 1..(n+1)
        PROVE  /\ policyVersions'[i].version = policyVersions'[1].version + i - 1
               /\ policyVersions'[i].active <=>
                     policyVersions'[i].version = distributed' /\ ~misled'
    <3>1. CASE i = n + 1
      BY <3>1, <2>1, <2>4, <2>5, <2>6
    <3>2. CASE i \in 1..n
      BY <3>2, <1>1, <2>1, <2>5, <2>6 DEF PolicyInv
    <3> QED
      BY <1>1, <3>1, <3>2
  <2>8. CloudPolicy!Known(distributed)'
    BY <2>1, <2>2, <2>6 DEF CloudPolicy!Known
  <2> QED
    BY <2>1, <2>5, <2>7, <2>8 DEF PolicyInv
<1>4. ASSUME NEW v \in Int, CloudPolicy!ActivatePolicyVersion(v) PROVE PolicyInv'
  <2>1. /\ policyVersions' \in [1..n -> PolicyEntries]
        /\ \A i \in 1..n : /\ policyVersions'[i].version = policyVersions[i].version
                            /\ policyVersions'[i].active = (policyVersions[i].version = v)
    BY <1>1, <1>4 DEF CloudPolicy!ActivatePolicyVersion, CloudPolicy!Marked, PolicyEntries
  <2>2. policyVersions' \in Seq(PolicyEntries) /\ DOMAIN policyVersions' = 1..n
    BY <1>1, <2>1
  <2>3. \A x : CloudPolicy!Known(x) <=> \E i \in 1..n : policyVersions'[i].version = x
    BY <1>1, <2>1 DEF CloudPolicy!Known
  <2>4. /\ distributed # NoPolicy /\ distributed' = IF CloudPolicy!Known(v) THEN v ELSE distributed
        /\ misled' = ~CloudPolicy!Known(v) /\ v # NoPolicy
    BY <1>4, ServiceConstants DEF CloudPolicy!ActivatePolicyVersion, CloudPolicy!CloudPolicyAssumption
  <2>5. distributed' # NoPolicy /\ distributed' \in Int /\ CloudPolicy!Known(distributed)'
    BY <2>2, <2>3, <2>4 DEF PolicyInv, CloudPolicy!Known
  <2>6. ASSUME NEW i \in 1..n
        PROVE  /\ policyVersions'[i].version = policyVersions'[1].version + i - 1
               /\ policyVersions'[i].active <=>
                     policyVersions'[i].version = distributed' /\ ~misled'
    <3>1. policyVersions'[i].version = policyVersions'[1].version + i - 1
      <4>1. 1 \in 1..n
        BY <1>1
      <4> QED
        BY <4>1, <1>1, <2>1 DEF PolicyInv
    <3>2. policyVersions'[i].active = (policyVersions'[i].version = v)
      BY <2>1
    <3>3. CASE CloudPolicy!Known(v)
      <4>1. distributed' = v /\ misled' = FALSE
        BY <3>3, <2>4
      <4> QED
        BY <3>1, <3>2, <4>1
    <3>4. CASE ~CloudPolicy!Known(v)
      <4>1. misled' = TRUE /\ policyVersions'[i].version # v
        BY <3>4, <2>3, <2>4
      <4> QED
        BY <3>1, <3>2, <4>1
    <3> QED
      BY <3>3, <3>4
  <2> QED
    BY <2>2, <2>5, <2>6 DEF PolicyInv
<1>5. ASSUME NEW e \in CloudEndpoints, CloudPolicy!AcknowledgePolicy(e) PROVE PolicyInv'
  BY <1>5 DEF CloudPolicy!AcknowledgePolicy, PolicyInv, CloudPolicy!Known
<1>6. ASSUME CloudPolicy!RemovePolicy PROVE PolicyInv'
  BY <1>6 DEF CloudPolicy!RemovePolicy, PolicyInv
<1>7. \A f \in FirstVersions, k \in 0..MaxPolicyVersions : f + k \in Int
  BY ServiceConstants DEF CloudPolicy!CloudPolicyAssumption
<1> QED
  BY <1>2, <1>3, <1>4, <1>5, <1>6, <1>7 DEF CloudPolicy!Next

LEMMA PolicyImplies == PolicyInv => CloudPolicy!ActiveIsDistributed
<1> SUFFICES ASSUME PolicyInv PROVE CloudPolicy!ActiveIsDistributed
  OBVIOUS
<1>1. /\ Len(policyVersions) \in Nat /\ DOMAIN policyVersions = 1..Len(policyVersions)
      /\ \A i \in DOMAIN policyVersions : policyVersions[i].version \in Int
  <2>1. \A i \in DOMAIN policyVersions : policyVersions[i] \in PolicyEntries
    BY DEF PolicyInv
  <2> QED
    BY <2>1 DEF PolicyInv, PolicyEntries
<1>2. ASSUME NEW i \in DOMAIN policyVersions, i > 1
      PROVE  policyVersions[i].version = policyVersions[i - 1].version + 1
  <2>1. i - 1 \in DOMAIN policyVersions /\ 1 \in DOMAIN policyVersions
    BY <1>1, <1>2
  <2> QED
    BY <1>1, <1>2, <2>1 DEF PolicyInv
<1> QED
  BY <1>2 DEF PolicyInv, CloudPolicy!ActiveIsDistributed

(* A tracked plugin has an active entry, only entries of its current       *)
(* version are active, and a rollback after an installation finds what it  *)
(* replaced, however registerVersion, migrateToVersion and rollback mix;   *)
(* and the active version of a policy is the distributed one, unless the   *)
(* last activation was of a version that does not exist.                   *)
THEOREM ActiveIsCurrentHolds == Spec => []ActiveIsCurrent
<1>1. Init => VersionInv /\ PolicyInv
  BY DEF Init, Version!Init, VersionInv, Version!Installed, CloudPolicy!Init, PolicyInv
<1>2. VersionInv /\ [Next]_services => VersionInv'
  <2> SUFFICES ASSUME VersionInv, [Next]_services PROVE VersionInv'
    OBVIOUS
  <2>1. CASE Version!Next
    BY <2>1, VersionStep
  <2>2. CASE UNCHANGED versionVars
    BY <2>2 DEF versionVars, VersionInv, Version!Installed
  <2> QED
    BY <2>1, <2>2 DEF Next, ServiceStep, PluginStep, RemoteStep, WatchStep, services, pluginSide
<1>3. PolicyInv /\ [Next]_services => PolicyInv'
  <2> SUFFICES ASSUME PolicyInv, [Next]_services PROVE PolicyInv'
    OBVIOUS
  <2>1. CASE CloudPolicy!Next
    BY <2>1, PolicyStep
  <2>2. CASE UNCHANGED cloudPolicyVars
    BY <2>2 DEF cloudPolicyVars, PolicyInv, CloudPolicy!Known
  <2> QED
    BY <2>1, <2>2 DEF Next, ServiceStep, PluginStep, RemoteStep, WatchStep, services, remoteSide
<1>4. VersionInv /\ PolicyInv => ActiveIsCurrent
  BY VersionImplies, PolicyImplies DEF ActiveIsCurrent
<1> QED
  BY <1>1, <1>2, <1>3, <1>4, PTL DEF Spec
-----------------------------------------------------------------------------
(* Deliveries to webhooks.                                                 *)

Deliveries == [hook : Webhooks, status : {"Delivered", "Retrying", "Failed"},
               attempts : Nat, successes : Nat, byHand : Nat]

(* What RetriesBounded says of one delivery, and that every call by hand   *)
(* was an attempt.                                                         *)
Bounded(d) ==
  /\ d.successes = IF d.status = "Delivered" THEN 1 ELSE 0
  /\ d.status = "Retrying" => d.attempts < MaxRetries[d.hook]
  /\ d.attempts - d.byHand <= IF MaxRetries[d.hook] > 1 THEN MaxRetries[d.hook] ELSE 1

WebhookInv ==
  /\ subscribed \subseteq Webhooks
  /\ deliveries \in Seq({d \in Deliveries : Bounded(d)})

LEMMA FirstSending ==
  ASSUME NEW h \in Webhooks, NEW ok \in BOOLEAN
  PROVE  Webhook!Sent(Webhook!New(h), ok) \in {d \in Deliveries : Bounded(d)}
<1> DEFINE e == Webhook!Sent(Webhook!New(h), ok)
           m == MaxRetries[h]
<1>1. m \in Int
  BY ServiceConstants DEF Webhook!WebhookAssumption
<1>2. e = [hook |-> h, status |-> Webhook!After(h, 1, ok), attempts |-> 1,
           successes |-> IF ok THEN 1 ELSE 0, byHand |-> 0]
  <2>1. 0 + (IF ok THEN 1 ELSE 0) = IF ok THEN 1 ELSE 0
    OBVIOUS
  <2> DEFINE s == Webhook!After(h, 1, ok)
             r == [hook |-> h, status |-> "Pending", attempts |-> 0, successes |-> 0, byHand |-> 0]
             k == IF ok THEN 1 ELSE 0
  <2>2. e = [r EXCEPT !.attempts = 1, !.status = s, !.successes = k]
    BY <2>1 DEF Webhook!Sent, Webhook!New
  <2> HIDE DEF s, k, e
  <2>3. e = [hook |-> h, status |-> s, attempts |-> 1, successes |-> k, byHand |-> 0]
    BY <2>2
  <2> QED
    BY <2>3 DEF s, k
<1>3. Webhook!After(h, 1, ok) = IF ok THEN "Delivered" ELSE IF 1 < m THEN "Retrying" ELSE "Failed"
  BY DEF Webhook!After
<1>4. /\ e.hook = h /\ e.attempts = 1 /\ e.byHand = 0
      /\ e.successes = (IF ok THEN 1 ELSE 0)
      /\ e.status = IF ok THEN "Delivered" ELSE IF 1 < m THEN "Retrying" ELSE "Failed"
      /\ e \in Deliveries
  BY <1>2, <1>3 DEF Deliveries
<1> HIDE DEF e
<1>5. Bounded(e)
  BY <1>1, <1>4 DEF Bounded
<1> QED
  BY <1>4, <1>5 DEF e

(* Sending again is right for what is retried and has attempts left, and   *)
(* by hand for whatever has not been delivered.                            *)
LEMMA SendingAgain ==
  ASSUME NEW d \in Deliveries, Bounded(d), NEW ok \in BOOLEAN
  PROVE  /\ d.status = "Retrying" =>
              Webhook!Sent(d, ok) \in {x \in Deliveries : Bounded(x)}
         /\ Webhook!Open(d) =>
              Webhook!SentByHand(d, ok) \in {x \in Deliveries : Bounded(x)}
<1>1. /\ MaxRetries[d.hook] \in Int /\ d.attempts \in Nat /\ d.byHand \in Nat
      /\ d.attempts + 1 \in Nat /\ d.byHand + 1 \in Nat /\ d.hook \in Webhooks
  BY ServiceConstants DEF Webhook!WebhookAssumption, Deliveries
<1>2. Webhook!Open(d) => d.successes = 0
  BY DEF Webhook!Open, Bounded
<1>3. d.status = "Retrying" => d.attempts < MaxRetries[d.hook]
  BY DEF Bounded
<1>4. d.attempts - d.byHand <= IF MaxRetries[d.hook] > 1 THEN MaxRetries[d.hook] ELSE 1
  BY DEF Bounded
<1>5. ASSUME Webhook!Open(d)
      PROVE  LET e == Webhook!Sent(d, ok) IN
             /\ e \in Deliveries /\ e.attempts = d.attempts + 1 /\ e.byHand = d.byHand
             /\ e.hook = d.hook
             /\ e.status = (IF ok THEN "Delivered"
                            ELSE IF d.attempts + 1 < MaxRetries[d.hook] THEN "Retrying"
                            ELSE "Failed")
             /\ e.successes = IF ok THEN 1 ELSE 0
  <2> DEFINE e == Webhook!Sent(d, ok)
  <2>1. Webhook!After(d.hook, d.attempts + 1, ok)
          = (IF ok THEN "Delivered"
             ELSE IF d.attempts + 1 < MaxRetries[d.hook] THEN "Retrying" ELSE "Failed")
    BY DEF Webhook!After
  <2>2. e = [hook |-> d.hook, status |-> Webhook!After(d.hook, d.attempts + 1, ok),
             attempts |-> d.attempts + 1, successes |-> IF ok THEN 1 ELSE 0,
             byHand |-> d.byHand]
    <3> DEFINE s == Webhook!After(d.hook, d.attempts + 1, ok)
               k == IF ok THEN 1 ELSE 0
    <3>1. d.successes + k = k
      BY <1>2, <1>5
    <3>2. d = [hook |-> d.hook, status |-> d.status, attempts |-> d.attempts,
               successes |-> d.successes, byHand |-> d.byHand]
      BY DEF Deliveries
    <3>3. e = [d EXCEPT !.attempts = d.attempts + 1, !.status = s, !.successes = k]
      BY <3>1 DEF Webhook!Sent
    <3> HIDE DEF s, k, e
    <3>4. e = [hook |-> d.hook, status |-> s, attempts |-> d.attempts + 1, successes |-> k,
               byHand |-> d.byHand]
      BY <3>2, <3>3
    <3> QED
      BY <3>4 DEF s, k, e
  <2> QED
    BY <1>1, <2>1, <2>2 DEF Deliveries
<1>6. d.status = "Retrying" => Webhook!Open(d)
  BY DEF Webhook!Open
<1>7. ASSUME d.status = "Retrying"
      PROVE  Webhook!Sent(d, ok) \in {x \in Deliveries : Bounded(x)}
  BY <1>1, <1>3, <1>4, <1>5, <1>6, <1>7 DEF Bounded
<1>8. ASSUME Webhook!Open(d)
      PROVE  Webhook!SentByHand(d, ok) \in {x \in Deliveries : Bounded(x)}
  <2> DEFINE e == Webhook!Sent(d, ok)
             f == [e EXCEPT !.byHand = @ + 1]
  <2>1. /\ f \in Deliveries /\ f.attempts = d.attempts + 1 /\ f.byHand = d.byHand + 1
        /\ f.hook = e.hook /\ f.status = e.status /\ f.successes = e.successes
    <3> HIDE DEF e
    <3>1. e \in Deliveries /\ e.attempts = d.attempts + 1 /\ e.byHand = d.byHand
      BY <1>5, <1>8 DEF e
    <3> QED
      BY <1>1, <3>1 DEF Deliveries
  <2>2. e.hook = d.hook /\ e.successes = (IF ok THEN 1 ELSE 0)
        /\ e.status = (IF ok THEN "Delivered"
                       ELSE IF d.attempts + 1 < MaxRetries[d.hook] THEN "Retrying"
                       ELSE "Failed")
    BY <1>5, <1>8
  <2> HIDE DEF e, f
  <2>3. Bounded(f)
    BY <1>1, <1>4, <2>1, <2>2 DEF Bounded
  <2> QED
    BY <2>1, <2>3 DEF f, e, Webhook!SentByHand
<1> QED
  BY <1>7, <1>8

LEMMA HooksInSequence ==
  ASSUME NEW S \in SUBSET Webhooks PROVE Webhook!SetToSeq(S) \in Seq(S)
<1>1. IsFiniteSet(S)
  <2>1. IsFiniteSet(Webhooks)
    BY ServiceConstants DEF Webhook!WebhookAssumption, Webhook!IsFiniteSet, IsFiniteSet
  <2> QED
    BY <2>1, FS_Subset
<1>2. PICK f : f \in Bijection(1..Cardinality(S), S)
  BY <1>1, FS_CardinalityType DEF ExistsBijection
<1>3. f \in [1..Cardinality(S) -> S] /\ Webhook!IsInjective(f)
  BY <1>2 DEF Bijection, Injection, IsInjective, Webhook!IsInjective
<1>4. Webhook!Cardinality(S) = Cardinality(S)
  BY DEF Webhook!Cardinality, Cardinality
<1>5. Webhook!SetToSeq(S) \in [1..Cardinality(S) -> S]
  BY <1>3, <1>4 DEF Webhook!SetToSeq
<1> QED
  BY <1>1, <1>5, FS_CardinalityType

LEMMA WebhookStep == ASSUME WebhookInv, Webhook!Next PROVE WebhookInv'
<1> DEFINE D == {d \in Deliveries : Bounded(d)}
           n == Len(deliveries)
<1>1. /\ n \in Nat /\ DOMAIN deliveries = 1..n /\ deliveries \in [1..n -> D]
      /\ deliveries \in Seq(D)
  BY DEF WebhookInv
<1>2. ASSUME NEW h \in Webhooks, Webhook!Subscribe(h) \/ Webhook!Unsubscribe(h)
      PROVE  WebhookInv'
  BY <1>2 DEF Webhook!Subscribe, Webhook!Unsubscribe, WebhookInv
<1>3. ASSUME NEW t \in Topics, Webhook!TriggerEvent(t) PROVE WebhookInv'
  <2> DEFINE S == {h \in subscribed : t \in Asks[h]}
             hs == Webhook!SetToSeq(S)
  <2>1. S \in SUBSET Webhooks
    BY DEF WebhookInv
  <2>2. hs \in Seq(S)
    BY <2>1, HooksInSequence
  <2>3. PICK ok \in [DOMAIN hs -> BOOLEAN] :
           deliveries' = deliveries \o
             [i \in DOMAIN hs |-> Webhook!Sent(Webhook!New(hs[i]), ok[i])]
    BY <1>3 DEF Webhook!TriggerEvent
  <2> HIDE DEF hs, S
  <2> DEFINE more == [i \in DOMAIN hs |-> Webhook!Sent(Webhook!New(hs[i]), ok[i])]
  <2>4. ASSUME NEW i \in DOMAIN hs
        PROVE  Webhook!Sent(Webhook!New(hs[i]), ok[i]) \in D
    <3>1. hs[i] \in Webhooks /\ ok[i] \in BOOLEAN
      BY <2>1, <2>2, <2>3
    <3> QED
      BY <3>1, FirstSending
  <2>5. more \in Seq(D)
    <3> HIDE DEF D
    <3>1. DOMAIN hs = 1..Len(hs) /\ Len(hs) \in Nat
      BY <2>2
    <3>2. more \in [1..Len(hs) -> D]
      BY <2>4, <3>1
    <3> HIDE DEF more
    <3> QED
      BY <3>1, <3>2
  <2>6. deliveries' \in Seq(D)
    <3>1. deliveries' = deliveries \o more
      BY <2>3
    <3> HIDE DEF more, D
    <3> QED
      BY <1>1, <2>5, <3>1
  <2> QED
    BY <1>3, <2>6 DEF Webhook!TriggerEvent, WebhookInv
<1>4. ASSUME NEW j \in DOMAIN deliveries, Webhook!RetryDelivery(j) PROVE WebhookInv'
  <2>1. PICK ok \in BOOLEAN :
           deliveries' = [deliveries EXCEPT ![j] = Webhook!SentByHand(deliveries[j], ok)]
    BY <1>4 DEF Webhook!RetryDelivery
  <2> DEFINE new == Webhook!SentByHand(deliveries[j], ok)
  <2>2. deliveries[j] \in Deliveries /\ Bounded(deliveries[j]) /\ Webhook!Open(deliveries[j])
    BY <1>1, <1>4 DEF Webhook!RetryDelivery
  <2>3. new \in D
    BY <2>2, SendingAgain
  <2>4. deliveries' \in Seq(D)
    <3>1. deliveries' = [deliveries EXCEPT ![j] = new]
      BY <2>1
    <3> HIDE DEF new, D
    <3>2. deliveries' \in [1..n -> D]
      BY <1>1, <2>3, <3>1
    <3> QED
      BY <1>1, <3>2
  <2> QED
    BY <1>4, <2>4 DEF Webhook!RetryDelivery, WebhookInv
<1>5. ASSUME Webhook!ProcessRetryQueue PROVE WebhookInv'
  <2>1. PICK ok \in [DOMAIN deliveries -> BOOLEAN] :
           deliveries' = [i \in DOMAIN deliveries |-> Webhook!Retried(deliveries[i], ok[i])]
    BY <1>5 DEF Webhook!ProcessRetryQueue
  <2>2. ASSUME NEW i \in 1..n PROVE Webhook!Retried(deliveries[i], ok[i]) \in D
    <3> DEFINE d == deliveries[i]
    <3>1. d \in Deliveries /\ Bounded(d) /\ ok[i] \in BOOLEAN
      BY <1>1, <2>1
    <3> HIDE DEF d
    <3>2. d.status = "Retrying" => Webhook!Sent(d, ok[i]) \in D
      BY <3>1, SendingAgain
    <3>3. d.status = "Retrying" => [d EXCEPT !.status = "Failed"] \in D
      BY <3>1 DEF Deliveries, Bounded
    <3>4. Webhook!Retried(d, ok[i]) \in D
      <4> HIDE DEF D
      <4>1. d \in D
        BY <3>1 DEF D
      <4> QED
        BY <3>2, <3>3, <4>1 DEF Webhook!Retried
    <3> QED
      BY <3>4 DEF d
  <2>3. deliveries' \in Seq(D)
    <3> HIDE DEF D
    <3>1. deliveries' \in [1..n -> D]
      BY <1>1, <2>1, <2>2
    <3> QED
      BY <1>1, <3>1
  <2> QED
    BY <1>5, <2>3 DEF Webhook!ProcessRetryQueue, WebhookInv
<1> QED
  BY <1>2, <1>3, <1>4, <1>5 DEF Webhook!Next

(* A receiver that has answered with success is not sent the delivery      *)
(* again, and the policy bounds the attempts, however the queue, calls by  *)
(* hand and unsubscriptions mix (WebhookManager::deliverWebhook,           *)
(* processRetryQueue, retryDelivery).                                      *)
THEOREM RetriesBoundedHolds == Spec => []RetriesBounded
<1>1. Init => WebhookInv
  BY DEF Init, Webhook!Init, WebhookInv
<1>2. WebhookInv /\ [Next]_services => WebhookInv'
  <2> SUFFICES ASSUME WebhookInv, [Next]_services PROVE WebhookInv'
    OBVIOUS
  <2>1. CASE Webhook!Next
    BY <2>1, WebhookStep
  <2>2. CASE UNCHANGED webhookVars
    BY <2>2 DEF webhookVars, WebhookInv
  <2> QED
    BY <2>1, <2>2 DEF Next, ServiceStep, PluginStep, RemoteStep, WatchStep, services, serviceSide
<1>3. WebhookInv => RetriesBounded
  <2> SUFFICES ASSUME WebhookInv, NEW i \in DOMAIN deliveries PROVE Bounded(deliveries[i])
    BY DEF RetriesBounded, Webhook!RetriesBounded, Bounded
  <2> QED
    BY DEF WebhookInv
<1> QED
  BY <1>1, <1>2, <1>3, PTL DEF Spec
-----------------------------------------------------------------------------
(* Dispatches of events.                                                   *)

Frames == [event : Events, due : SUBSET Subs, handling : Subs \cup {NoSub},
           stopped : BOOLEAN, called : Seq(Subs), present : SUBSET Subs,
           stayed : SUBSET Subs]

(* A dispatch has called, or has still to call, just those that were       *)
(* present when it began; and what is due comes after what was called.     *)
InTurn(f) ==
  /\ Bus!ToSet(f.called) \cup f.due = f.present
  /\ Bus!ToSet(f.called) \cap f.due = {}
  /\ Bus!IsInjective(f.called)
  /\ \A j, k \in DOMAIN f.called : j < k => Filter[f.called[j]].min >= Filter[f.called[k]].min
  /\ \A j \in DOMAIN f.called : \A s \in f.due : Filter[f.called[j]].min >= Filter[s].min
  /\ f.stayed \subseteq f.present

Dispatches == {f \in Frames : InTurn(f)}

BusInv == subscribers \subseteq Subs /\ stack \in [Threads -> Seq(Dispatches)]

LEMMA NewDispatch ==
  ASSUME NEW e \in Events, NEW M \in SUBSET Subs
  PROVE  [event |-> e, due |-> M, handling |-> NoSub, stopped |-> FALSE,
          called |-> <<>>, present |-> M, stayed |-> M] \in Dispatches
BY DEF Dispatches, Frames, InTurn, Bus!ToSet, Bus!IsInjective

LEMMA NextCalled ==
  ASSUME NEW f \in Dispatches, NEW s \in f.due,
         \A x \in f.due : Filter[x].min <= Filter[s].min
  PROVE  [f EXCEPT !.due = f.due \ {s}, !.handling = s, !.called = Append(f.called, s)]
            \in Dispatches
<1> DEFINE c == f.called
           n == Len(c)
           d == Append(c, s)
           g == [f EXCEPT !.due = f.due \ {s}, !.handling = s, !.called = d]
<1>1. /\ f \in Frames /\ InTurn(f) /\ s \in Subs /\ c \in Seq(Subs)
      /\ n \in Nat /\ DOMAIN c = 1..n
  BY DEF Dispatches, Frames
<1>2. /\ d \in Seq(Subs) /\ DOMAIN d = 1..(n+1) /\ d[n+1] = s
      /\ \A i \in 1..n : d[i] = c[i]
  <2> HIDE DEF c
  <2> QED
    BY <1>1
<1>3. /\ g \in Frames /\ g.due = f.due \ {s} /\ g.called = d /\ g.present = f.present
      /\ g.stayed = f.stayed
  <2> HIDE DEF d
  <2> QED
    BY <1>1, <1>2 DEF Frames
<1>4. Bus!ToSet(d) = Bus!ToSet(c) \cup {s}
  <2> HIDE DEF c, d
  <2>1. \A i \in 1..(n+1) : i \in 1..n \/ i = n+1
    BY <1>1
  <2>2. \A i \in 1..n : i \in 1..(n+1)
    BY <1>1
  <2>3. n+1 \in 1..(n+1)
    BY <1>1
  <2> QED
    BY <1>1, <1>2, <2>1, <2>2, <2>3 DEF Bus!ToSet
<1>5. s \notin Bus!ToSet(c)
  BY <1>1 DEF InTurn
<1>6. Bus!IsInjective(d)
  <2> SUFFICES ASSUME NEW i \in 1..(n+1), NEW j \in 1..(n+1), d[i] = d[j] PROVE i = j
    BY <1>2 DEF Bus!IsInjective
  <2>1. \A k \in 1..n : d[k] # s
    BY <1>1, <1>2, <1>5 DEF Bus!ToSet
  <2>2. \A k, m \in 1..n : c[k] = c[m] => k = m
    BY <1>1 DEF InTurn, Bus!IsInjective
  <2>3. (i \in 1..n \/ i = n+1) /\ (j \in 1..n \/ j = n+1)
    BY <1>1
  <2> HIDE DEF c, d
  <2> QED
    BY <1>2, <2>1, <2>2, <2>3
<1>7. ASSUME NEW j \in DOMAIN d, NEW k \in DOMAIN d, j < k
      PROVE  Filter[d[j]].min >= Filter[d[k]].min
  <2>1. j \in 1..n /\ (k \in 1..n \/ k = n+1)
    BY <1>1, <1>2, <1>7
  <2>2. CASE k \in 1..n
    <3>1. d[j] = c[j] /\ d[k] = c[k]
      BY <1>2, <2>1, <2>2
    <3> QED
      BY <1>1, <1>7, <2>1, <2>2, <3>1 DEF InTurn
  <2>3. CASE k = n+1
    <3>1. d[j] = c[j] /\ d[k] = s
      BY <1>2, <2>1, <2>3
    <3> QED
      BY <1>1, <2>1, <3>1 DEF InTurn
  <2> QED
    BY <2>1, <2>2, <2>3
<1>8. ASSUME NEW j \in DOMAIN d, NEW x \in f.due \ {s}
      PROVE  Filter[d[j]].min >= Filter[x].min
  <2>1. j \in 1..n \/ j = n+1
    BY <1>1, <1>2
  <2>2. CASE j \in 1..n
    BY <1>1, <1>2, <2>2 DEF InTurn
  <2>3. CASE j = n+1
    BY <1>2, <2>3
  <2> QED
    BY <2>1, <2>2, <2>3
<1>9. Bus!ToSet(d) \cup (f.due \ {s}) = f.present /\ Bus!ToSet(d) \cap (f.due \ {s}) = {}
      /\ f.stayed \subseteq f.present
  <2> HIDE DEF d, c
  <2> QED
    BY <1>1, <1>4 DEF InTurn, c
<1>10. InTurn(g)
  <2> HIDE DEF d, g
  <2> QED
    BY <1>3, <1>6, <1>7, <1>8, <1>9 DEF InTurn
<1> QED
  BY <1>3, <1>10 DEF Dispatches

(* The innermost dispatch is changed, or left.                             *)
LEMMA TopOfStack ==
  ASSUME NEW q \in Seq(Dispatches), q # <<>>
  PROVE  /\ Bus!Last(q) \in Dispatches /\ Bus!Front(q) \in Seq(Dispatches)
         /\ \A f \in Dispatches : Append(Bus!Front(q), f) \in Seq(Dispatches)
<1>1. Len(q) \in Nat /\ Len(q) >= 1
  BY EmptySeq
<1>2. Bus!Front(q) \in Seq(Dispatches)
  BY <1>1 DEF Bus!Front
<1> QED
  BY <1>1, <1>2 DEF Bus!Last

LEMMA BusStep == ASSUME BusInv, Bus!Next PROVE BusInv'
<1>1. ASSUME NEW s \in Subs, Bus!Subscribe(s) PROVE BusInv'
  BY <1>1 DEF Bus!Subscribe, BusInv
<1>2. ASSUME NEW gone, Bus!Forget(gone) PROVE BusInv'
  <2>1. ASSUME NEW t \in Threads
        PROVE  [i \in DOMAIN stack[t] |-> [stack[t][i] EXCEPT !.stayed = @ \ gone]]
                  \in Seq(Dispatches)
    <3> DEFINE q == stack[t]
               n == Len(q)
    <3>1. q \in Seq(Dispatches) /\ n \in Nat /\ DOMAIN q = 1..n
      BY DEF BusInv
    <3>2. ASSUME NEW f \in Dispatches PROVE [f EXCEPT !.stayed = @ \ gone] \in Dispatches
      <4> DEFINE g == [f EXCEPT !.stayed = @ \ gone]
      <4>1. /\ g \in Frames /\ g.stayed \subseteq f.stayed /\ g.due = f.due
            /\ g.called = f.called /\ g.present = f.present
        BY DEF Dispatches, Frames
      <4>2. InTurn(f)
        BY DEF Dispatches
      <4> HIDE DEF g
      <4>3. InTurn(g)
        BY <4>1, <4>2 DEF InTurn
      <4> QED
        BY <4>1, <4>3 DEF Dispatches, g
    <3> DEFINE r == [i \in DOMAIN q |-> [q[i] EXCEPT !.stayed = @ \ gone]]
    <3>3. r \in [1..n -> Dispatches]
      BY <3>1, <3>2
    <3> HIDE DEF r
    <3>4. r \in Seq(Dispatches)
      BY <3>1, <3>3
    <3> QED
      BY <3>4 DEF r
  <2> QED
    BY <1>2, <2>1 DEF Bus!Forget, BusInv
<1>3. ASSUME NEW t \in Threads, NEW e \in Events, Bus!Publish(t, e) PROVE BusInv'
  <2>1. Bus!Matching(e) \in SUBSET Subs
    BY DEF Bus!Matching, BusInv
  <2> DEFINE f == [event |-> e, due |-> Bus!Matching(e), handling |-> NoSub, stopped |-> FALSE,
                   called |-> <<>>, present |-> Bus!Matching(e), stayed |-> Bus!Matching(e)]
  <2>2. f \in Dispatches
    BY <2>1, NewDispatch
  <2>3. stack' = [stack EXCEPT ![t] = Append(stack[t], f)]
    BY <1>3 DEF Bus!Publish
  <2> HIDE DEF f
  <2>4. Append(stack[t], f) \in Seq(Dispatches)
    BY <2>2 DEF BusInv
  <2> QED
    BY <1>3, <2>3, <2>4 DEF Bus!Publish, BusInv
<1>4. ASSUME NEW t \in Threads, NEW f \in Dispatches, Bus!Dispatching(t), Bus!SetTop(t, f),
             UNCHANGED subscribers
      PROVE  BusInv'
  <2>1. stack[t] \in Seq(Dispatches) /\ stack[t] # <<>>
    BY <1>4 DEF BusInv, Bus!Dispatching
  <2>2. Append(Bus!Front(stack[t]), f) \in Seq(Dispatches)
    BY <2>1, TopOfStack
  <2> QED
    BY <1>4, <2>2 DEF Bus!SetTop, BusInv
<1>5. ASSUME NEW t \in Threads, Bus!Dispatching(t), Bus!Pop(t), UNCHANGED subscribers
      PROVE  BusInv'
  <2>1. stack[t] \in Seq(Dispatches) /\ stack[t] # <<>>
    BY <1>5 DEF BusInv, Bus!Dispatching
  <2>2. Bus!Front(stack[t]) \in Seq(Dispatches)
    BY <2>1, TopOfStack
  <2> QED
    BY <1>5, <2>2 DEF Bus!Pop, BusInv
<1>6. ASSUME NEW t \in Threads, Bus!Dispatching(t) PROVE Bus!Top(t) \in Dispatches
  <2>1. stack[t] \in Seq(Dispatches) /\ stack[t] # <<>>
    BY <1>6 DEF BusInv, Bus!Dispatching
  <2> QED
    BY <2>1, TopOfStack DEF Bus!Top
<1>7. ASSUME NEW t \in Threads, Bus!CallHandler(t) PROVE BusInv'
  <2>1. Bus!Dispatching(t) /\ Bus!Top(t) \in Dispatches
    BY <1>6, <1>7 DEF Bus!CallHandler
  <2> DEFINE f == Bus!Top(t)
  <2>2. PICK s \in f.due :
           /\ \A x \in f.due : Filter[x].min <= Filter[s].min
           /\ Bus!SetTop(t, [f EXCEPT !.due = f.due \ {s}, !.handling = s,
                                     !.called = Append(f.called, s)])
    BY <1>7 DEF Bus!CallHandler, Bus!Due
  <2> HIDE DEF f
  <2>3. [f EXCEPT !.due = f.due \ {s}, !.handling = s, !.called = Append(f.called, s)]
           \in Dispatches
    BY <2>1, <2>2, NextCalled DEF f
  <2> QED
    BY <1>4, <1>7, <2>1, <2>2, <2>3 DEF Bus!CallHandler
<1>8. ASSUME NEW f \in Dispatches
      PROVE  /\ [f EXCEPT !.stopped = TRUE] \in Dispatches
             /\ [f EXCEPT !.handling = NoSub] \in Dispatches
  BY DEF Dispatches, Frames, InTurn
<1>9. ASSUME NEW t \in Threads, Bus!StopPropagation(t) \/ Bus!HandlerReturns(t) PROVE BusInv'
  <2>1. Bus!Dispatching(t) /\ Bus!Top(t) \in Dispatches
    BY <1>6, <1>9 DEF Bus!StopPropagation, Bus!HandlerReturns, Bus!Handling
  <2> QED
    BY <1>4, <1>8, <1>9, <2>1 DEF Bus!StopPropagation, Bus!HandlerReturns
<1>10. ASSUME NEW t \in Threads, Bus!HandlerThrows(t) \/ Bus!PublishReturns(t) PROVE BusInv'
  BY <1>5, <1>10 DEF Bus!HandlerThrows, Bus!PublishReturns, Bus!Handling
<1> QED
  BY <1>1, <1>2, <1>3, <1>7, <1>9, <1>10 DEF Bus!Next, Bus!Unsubscribe, Bus!Clear

(* Every subscriber that stays is called, none twice, none that came       *)
(* later, in the order of the thresholds, whatever threads and handlers    *)
(* subscribe, unsubscribe and publish meanwhile (EventBus::publish).       *)
THEOREM EventsDeliveredHolds == Spec => []EventsDelivered
<1>1. Init => BusInv
  BY DEF Init, Bus!Init, BusInv
<1>2. BusInv /\ [Next]_services => BusInv'
  <2> SUFFICES ASSUME BusInv, [Next]_services PROVE BusInv'
    OBVIOUS
  <2>1. CASE Bus!Next
    BY <2>1, BusStep
  <2>2. CASE UNCHANGED busVars
    BY <2>2 DEF busVars, BusInv
  <2> QED
    BY <2>1, <2>2 DEF Next, ServiceStep, PluginStep, RemoteStep, WatchStep, services, serviceSide
<1>3. BusInv => EventsDelivered
  <2> SUFFICES ASSUME BusInv, NEW t \in Threads, NEW i \in DOMAIN stack[t]
               PROVE  LET f == stack[t][i] IN
                      /\ Bus!IsInjective(f.called) /\ Bus!ToSet(f.called) \subseteq f.present
                      /\ \A j, k \in DOMAIN f.called :
                           j < k => Filter[f.called[j]].min >= Filter[f.called[k]].min
                      /\ (f.handling = NoSub /\ f.due = {} /\ ~f.stopped) =>
                            f.stayed \subseteq Bus!ToSet(f.called)
    BY DEF EventsDelivered, Bus!EventsDelivered
  <2>1. stack[t][i] \in Dispatches
    BY DEF BusInv
  <2> QED
    BY <2>1 DEF Dispatches, InTurn
<1> QED
  BY <1>1, <1>2, <1>3, PTL DEF Spec
-----------------------------------------------------------------------------
(* Decisions of the firewall.                                              *)

(* What the order, the ids and the counts rest on.                         *)
FilterInv ==
  /\ \E R : rules \in Seq(R)
  /\ \A i \in DOMAIN rules : rules[i].priority \in Int /\ rules[i].action \in Filtered!Verdicts
  /\ \A i, j \in DOMAIN rules : rules[i].id = rules[j].id => i = j
  /\ Filtered!Sorted(rules)
  /\ defaultAction \in Filtered!Verdicts
  /\ stats \in [Filtered!Verdicts \cup {"Total"} -> Nat]
  /\ stats["Total"] = stats["Allow"] + stats["Block"] + stats["Log"]
  /\ deciding \in [Filtering -> Filtered!Verdicts \cup {"None"}]
  /\ IsFiniteSet(Filtered!InFlight)
  /\ decided = stats["Total"] + Cardinality(Filtered!InFlight)

(* The least index is what SelectInSeq() gives.                            *)
LEMMA LeastIndex ==
  ASSUME NEW n \in Nat, NEW I \in SUBSET (1..n), I # {}
  PROVE  Filtered!Min(I) \in I /\ \A i \in I : Filtered!Min(I) <= i
<1>1. PICK m \in I : \A i \in I : m <= i
  BY LeastExists
<1> QED
  BY <1>1 DEF Filtered!Min

LEMMA DecidingRule ==
  ASSUME FilterInv, NEW p
  PROVE  LET I == {i \in DOMAIN rules : rules[i].enabled /\ Filtered!MatchesRule(rules[i], p)} IN
         /\ I = {} => Filtered!Deciding(p) = 0
         /\ I # {} => /\ Filtered!Deciding(p) \in I
                      /\ \A i \in I : Filtered!Deciding(p) <= i
<1> DEFINE I == {i \in DOMAIN rules : rules[i].enabled /\ Filtered!MatchesRule(rules[i], p)}
<1>1. Len(rules) \in Nat /\ DOMAIN rules = 1..Len(rules)
  BY DEF FilterInv
<1>2. I = {i \in 1..Len(rules) : rules[i].enabled /\ Filtered!MatchesRule(rules[i], p)}
  BY <1>1
<1>3. Filtered!Deciding(p) = IF I # {} THEN Filtered!Min(I) ELSE 0
  BY <1>2 DEF Filtered!Deciding, Filtered!SelectInSeq
<1> HIDE DEF I
<1>4. I \subseteq 1..Len(rules)
  BY <1>2
<1> QED
  BY <1>1, <1>3, <1>4, LeastIndex DEF I

(* A packet's action is one of the rules' or the default.                  *)
LEMMA Verdict == ASSUME FilterInv, NEW p PROVE Filtered!EvaluatePacket(p) \in Filtered!Verdicts
  BY DecidingRule DEF Filtered!EvaluatePacket, FilterInv

(* What changes the rules only.                                            *)
LEMMA RulesStep ==
  ASSUME FilterInv, UNCHANGED <<stats, deciding, decided>>, defaultAction' \in Filtered!Verdicts,
         NEW R, rules' \in Seq(R),
         \A i \in DOMAIN rules' : rules'[i].priority \in Int /\ rules'[i].action \in Filtered!Verdicts,
         \A i, j \in DOMAIN rules' : rules'[i].id = rules'[j].id => i = j,
         \A i, j \in DOMAIN rules' : i < j => rules'[i].priority <= rules'[j].priority
  PROVE  FilterInv'
<1>1. Filtered!InFlight' = Filtered!InFlight
  BY DEF Filtered!InFlight
<1>2. Filtered!Sorted(rules')
  BY DEF Filtered!Sorted
<1> QED
  BY <1>1, <1>2 DEF FilterInv, Filtered!Sorted

LEMMA EnterStep ==
  ASSUME FilterInv, NEW id, NEW shape, shape.priority \in Int, shape.action \in Filtered!Verdicts,
         Filtered!Enter(id, shape), UNCHANGED <<defaultAction, stats, deciding, decided>>
  PROVE  FilterInv'
<1> DEFINE n == Len(rules)
           r == Filtered!Rule(id, shape)
           s == Append(rules, r)
<1>1. n \in Nat /\ DOMAIN rules = 1..n
  BY DEF FilterInv
<1>2. CASE UNCHANGED rules
  BY <1>2, RulesStep DEF FilterInv, Filtered!Sorted
<1>3. CASE Filtered!Unused(id) /\ rules' \in Filtered!SortRules(s)
  <2>1. r.id = id /\ r.priority \in Int /\ r.action \in Filtered!Verdicts
    BY DEF Filtered!Rule
  <2> HIDE DEF r
  <2>2. /\ DOMAIN s = 1..(n+1) /\ s[n+1] = r /\ \A i \in 1..n : s[i] = rules[i]
    BY <1>1
  <2> HIDE DEF s
  <2>3. PICK f \in [DOMAIN s -> DOMAIN s] :
          /\ Filtered!IsInjective(f) /\ Filtered!Sorted([i \in DOMAIN s |-> s[f[i]]])
          /\ rules' = [i \in DOMAIN s |-> s[f[i]]]
    BY <1>3 DEF Filtered!SortRules
  <2>4. /\ DOMAIN rules' = 1..(n+1) /\ Len(rules') = n+1
        /\ \A i \in 1..(n+1) : f[i] \in 1..(n+1) /\ rules'[i] = s[f[i]]
    BY <1>1, <2>2, <2>3
  <2>5. \A k \in 1..(n+1) : k \in 1..n \/ k = n+1
    BY <1>1
  <2>6. \A k \in 1..(n+1) : s[k].priority \in Int /\ s[k].action \in Filtered!Verdicts
    BY <1>1, <2>1, <2>2, <2>5 DEF FilterInv
  <2>7. ASSUME NEW k \in 1..(n+1), NEW m \in 1..(n+1), s[k].id = s[m].id PROVE k = m
    <3>1. \A i \in 1..n : rules[i].id # id
      BY <1>1, <1>3 DEF Filtered!Unused
    <3> QED
      BY <1>1, <2>1, <2>2, <2>5, <2>7, <3>1 DEF FilterInv
  <2>8. \A i, j \in 1..(n+1) : f[i] = f[j] => i = j
    BY <2>2, <2>3 DEF Filtered!IsInjective
  <2>9. \A i, j \in 1..(n+1) : rules'[i].id = rules'[j].id => i = j
    BY <2>4, <2>7, <2>8
  <2>10. \A i, j \in DOMAIN rules' : i < j => rules'[i].priority <= rules'[j].priority
    BY <2>3 DEF Filtered!Sorted
  <2> DEFINE R == {s[k] : k \in 1..(n+1)}
  <2>12. rules' \in Seq(R)
    <3>1. rules' \in [1..(n+1) -> R]
      BY <2>2, <2>3
    <3> HIDE DEF R
    <3>2. n + 1 \in Nat
      BY <1>1
    <3> QED
      BY <3>1, <3>2
  <2> HIDE DEF R
  <2>11. \A i \in 1..(n+1) : rules'[i].priority \in Int /\ rules'[i].action \in Filtered!Verdicts
    BY <2>4, <2>6
  <2>13. n + 1 \in Nat /\ defaultAction' \in Filtered!Verdicts
    BY <1>1 DEF FilterInv
  <2> QED
    BY <2>4, <2>9, <2>10, <2>11, <2>12, <2>13, RulesStep
<1> QED
  BY <1>2, <1>3 DEF Filtered!Enter

LEMMA RemoveRuleStep ==
  ASSUME FilterInv, NEW k \in DOMAIN rules, Filtered!RemoveRule(k) PROVE FilterInv'
<1> DEFINE n == Len(rules)
<1>0. PICK R : rules \in Seq(R)
  BY DEF FilterInv
<1>1. n \in Nat /\ DOMAIN rules = 1..n /\ k \in 1..n
  BY <1>0
<1>2. rules' = SubSeq(rules, 1, k-1) \o SubSeq(rules, k+1, n)
  BY DEF Filtered!RemoveRule, Filtered!RemoveAt
<1> DEFINE At(i) == IF i < k THEN i ELSE i+1
<1>3. rules' \in Seq(R) /\ Len(rules') = n-1 /\ \A i \in 1..(n-1) : rules'[i] = rules[At(i)]
  BY <1>0, <1>1, <1>2, ElementRemoved
<1>4. DOMAIN rules' = 1..(n-1)
  BY <1>3
<1>5. \A i \in 1..(n-1) : At(i) \in 1..n
  BY <1>1
<1>6. /\ \A i, j \in 1..(n-1) : At(i) = At(j) => i = j
      /\ \A i, j \in 1..(n-1) : i < j => At(i) < At(j)
  BY <1>1
<1> HIDE DEF At
<1>7. \A i \in 1..(n-1) : rules'[i].priority \in Int /\ rules'[i].action \in Filtered!Verdicts
  BY <1>1, <1>3, <1>4, <1>5 DEF FilterInv
<1>8. \A i, j \in 1..(n-1) : rules'[i].id = rules'[j].id => i = j
  BY <1>1, <1>3, <1>4, <1>5, <1>6 DEF FilterInv
<1>9. ASSUME NEW i \in 1..(n-1), NEW j \in 1..(n-1), i < j
      PROVE  rules'[i].priority <= rules'[j].priority
  <2>1. At(i) \in DOMAIN rules /\ At(j) \in DOMAIN rules /\ At(i) < At(j)
    BY <1>1, <1>5, <1>6, <1>9
  <2>2. rules[At(i)].priority <= rules[At(j)].priority
    BY <2>1 DEF FilterInv, Filtered!Sorted
  <2> QED
    BY <1>3, <2>2
<1>10. n - 1 \in Nat /\ defaultAction' \in Filtered!Verdicts /\ UNCHANGED <<stats, deciding, decided>>
  BY <1>1 DEF Filtered!RemoveRule, FilterInv
<1> QED
  BY <1>3, <1>4, <1>7, <1>8, <1>9, <1>10, RulesStep

LEMMA DecideStep ==
  ASSUME FilterInv, NEW t \in Filtering, NEW p, Filtered!Decide(t, p) PROVE FilterInv'
<1>1. Filtered!EvaluatePacket(p) \in Filtered!Verdicts /\ "None" \notin Filtered!Verdicts
  BY Verdict DEF Filtered!Verdicts
<1>2. /\ deciding' = [deciding EXCEPT ![t] = Filtered!EvaluatePacket(p)] /\ deciding[t] = "None"
      /\ decided' = decided + 1 /\ UNCHANGED <<rules, defaultAction, stats>>
  BY DEF Filtered!Decide
<1>3. deciding \in [Filtering -> Filtered!Verdicts \cup {"None"}]
  BY DEF FilterInv
<1>4. deciding' \in [Filtering -> Filtered!Verdicts \cup {"None"}]
  BY <1>1, <1>2, <1>3
<1>5. Filtered!InFlight' = Filtered!InFlight \cup {t} /\ t \notin Filtered!InFlight
  BY <1>1, <1>2, <1>3 DEF Filtered!InFlight
<1>6. IsFiniteSet(Filtered!InFlight') /\ Cardinality(Filtered!InFlight') = Cardinality(Filtered!InFlight) + 1
      /\ Cardinality(Filtered!InFlight) \in Nat
  BY <1>5, FS_AddElement, FS_CardinalityType DEF FilterInv
<1>7. decided' = stats["Total"] + Cardinality(Filtered!InFlight')
  <2>1. stats["Total"] \in Nat /\ decided = stats["Total"] + Cardinality(Filtered!InFlight)
    BY DEF FilterInv
  <2> QED
    BY <1>2, <1>6, <2>1
<1> QED
  BY <1>2, <1>4, <1>6, <1>7 DEF FilterInv

LEMMA CountStep ==
  ASSUME FilterInv, NEW t \in Filtering, Filtered!Count(t) PROVE FilterInv'
<1> DEFINE v == deciding[t]
<1>1. /\ stats' = [stats EXCEPT !["Total"] = stats["Total"] + 1, ![v] = stats[v] + 1]
      /\ deciding' = [deciding EXCEPT ![t] = "None"] /\ v \in {"Allow", "Block", "Log"}
      /\ UNCHANGED <<rules, defaultAction, decided>>
  BY DEF Filtered!Count, FilterInv, Filtered!Verdicts
<1>2. deciding \in [Filtering -> Filtered!Verdicts \cup {"None"}]
      /\ stats \in [{"Allow", "Block", "Log", "Total"} -> Nat]
  BY DEF FilterInv, Filtered!Verdicts
<1>3. deciding' \in [Filtering -> Filtered!Verdicts \cup {"None"}]
  BY <1>1, <1>2
<1>4. Filtered!InFlight' = Filtered!InFlight \ {t} /\ t \in Filtered!InFlight
  BY <1>1, <1>2 DEF Filtered!InFlight
<1>5. IsFiniteSet(Filtered!InFlight') /\ Cardinality(Filtered!InFlight') = Cardinality(Filtered!InFlight) - 1
      /\ Cardinality(Filtered!InFlight) \in Nat
  BY <1>4, FS_RemoveElement, FS_CardinalityType DEF FilterInv
<1>6. /\ stats' \in [{"Allow", "Block", "Log", "Total"} -> Nat]
      /\ stats'["Total"] = stats["Total"] + 1 /\ stats'[v] = stats[v] + 1
      /\ \A x \in {"Allow", "Block", "Log"} : x # v => stats'[x] = stats[x]
  BY <1>1, <1>2
<1>7. stats'["Total"] = stats'["Allow"] + stats'["Block"] + stats'["Log"]
  <2>1. stats["Total"] = stats["Allow"] + stats["Block"] + stats["Log"]
    BY DEF FilterInv
  <2>2. stats["Allow"] \in Nat /\ stats["Block"] \in Nat /\ stats["Log"] \in Nat
    BY <1>2
  <2> HIDE DEF v
  <2> QED
    BY <1>1, <1>6, <2>1, <2>2
<1>8. decided' = stats'["Total"] + Cardinality(Filtered!InFlight')
  <2>1. stats["Total"] \in Nat /\ decided = stats["Total"] + Cardinality(Filtered!InFlight)
    BY DEF FilterInv
  <2> QED
    BY <1>1, <1>5, <1>6, <2>1
<1> QED
  BY <1>1, <1>3, <1>5, <1>6, <1>7, <1>8 DEF FilterInv, Filtered!Verdicts

LEMMA ResetStatsStep == ASSUME FilterInv, Filtered!ResetStats PROVE FilterInv'
<1>1. stats' = [v \in Filtered!Verdicts \cup {"Total"} |-> 0]
      /\ decided' = Cardinality(Filtered!InFlight) /\ UNCHANGED <<rules, defaultAction, deciding>>
  BY DEF Filtered!ResetStats, Filtered!NoStats, Filtered!Cardinality, Cardinality
<1>2. Filtered!InFlight' = Filtered!InFlight
  BY <1>1 DEF Filtered!InFlight
<1>3. Cardinality(Filtered!InFlight) \in Nat
  BY FS_CardinalityType DEF FilterInv
<1> QED
  BY <1>1, <1>2, <1>3 DEF FilterInv, Filtered!Verdicts

LEMMA FilterStep == ASSUME FilterInv, Filtered!Next PROVE FilterInv'
<1>1. \A shape \in Shapes : shape.priority \in Int /\ shape.action \in Filtered!Verdicts
  BY ServiceConstants DEF Filtered!FirewallAssumption
<1>2. ASSUME NEW shape \in Shapes, NEW id, Filtered!AddRule(id, shape) PROVE FilterInv'
  BY <1>1, <1>2, EnterStep DEF Filtered!AddRule
<1>3. ASSUME NEW shape \in Shapes, Filtered!AddNumbered(shape) PROVE FilterInv'
  BY <1>1, <1>3, EnterStep DEF Filtered!AddNumbered
<1>4. ASSUME NEW ip \in Blockable, Filtered!BlockIP(ip) \/ Filtered!AllowIP(ip) PROVE FilterInv'
  <2>1. \A a \in {"Block", "Allow"} : /\ Filtered!ForAddress(ip, a).priority \in Int
                                       /\ Filtered!ForAddress(ip, a).action \in Filtered!Verdicts
    BY DEF Filtered!ForAddress, Filtered!Verdicts
  <2> QED
    BY <1>4, <2>1, EnterStep DEF Filtered!BlockIP, Filtered!AllowIP, Filtered!AddNumbered
<1>5. ASSUME NEW i \in DOMAIN rules, NEW on \in BOOLEAN, Filtered!SetEnabled(i, on) PROVE FilterInv'
  <2>1. /\ rules' = [rules EXCEPT ![i].enabled = on]
        /\ UNCHANGED <<defaultAction, stats, deciding, decided>>
    BY <1>5 DEF Filtered!SetEnabled
  <2>3. PICK R : rules \in Seq(R)
    BY DEF FilterInv
  <2>4. rules' \in Seq(R \cup {[rules[i] EXCEPT !.enabled = on]})
    BY <2>1, <2>3
  <2>2. /\ DOMAIN rules' = DOMAIN rules
        /\ \A j \in DOMAIN rules : /\ rules'[j].priority = rules[j].priority
                                    /\ rules'[j].action = rules[j].action
                                    /\ rules'[j].id = rules[j].id
    BY <2>1 DEF FilterInv
  <2> QED
    BY <2>1, <2>2, <2>4, RulesStep DEF FilterInv, Filtered!Sorted
<1>6. ASSUME NEW a \in Filtered!Verdicts, Filtered!SetDefaultAction(a) PROVE FilterInv'
  BY <1>6, RulesStep DEF Filtered!SetDefaultAction, FilterInv, Filtered!Sorted
<1> QED
  BY <1>2, <1>3, <1>4, <1>5, <1>6, RemoveRuleStep, DecideStep, CountStep, ResetStatsStep
  DEF Filtered!Next

LEMMA FilterInit == ASSUME Filtered!Init PROVE FilterInv
<1>1. rules = <<>> /\ <<>> \in Seq({}) /\ DOMAIN <<>> = {}
  BY DEF Filtered!Init
<1>2. Filtered!InFlight = {} /\ IsFiniteSet({}) /\ Cardinality({}) = 0
  BY FS_EmptySet DEF Filtered!Init, Filtered!InFlight
<1> QED
  BY <1>1, <1>2 DEF Filtered!Init, FilterInv, Filtered!NoStats, Filtered!Verdicts, Filtered!Sorted

LEMMA FilterImplies == ASSUME FilterInv PROVE Filtered!DecidedByPriority
<1>1. ASSUME NEW p \in Packets
      PROVE  LET matching == {r \in Filtered!ToSet(rules) : r.enabled /\ Filtered!MatchesRule(r, p)}
             IN IF matching = {} THEN Filtered!EvaluatePacket(p) = defaultAction
                ELSE \E r \in matching : /\ r.action = Filtered!EvaluatePacket(p)
                                         /\ \A q \in matching : r.priority <= q.priority
  <2> DEFINE I == {i \in DOMAIN rules : rules[i].enabled /\ Filtered!MatchesRule(rules[i], p)}
             M == {r \in Filtered!ToSet(rules) : r.enabled /\ Filtered!MatchesRule(r, p)}
             d == Filtered!Deciding(p)
  <2>1. M = {rules[i] : i \in I}
    BY DEF Filtered!ToSet
  <2>2. /\ I = {} => d = 0
        /\ I # {} => d \in I /\ \A i \in I : d <= i
    BY DecidingRule
  <2>3. DOMAIN rules = 1..Len(rules) /\ Len(rules) \in Nat /\ I \subseteq DOMAIN rules
    BY DEF FilterInv
  <2> HIDE DEF I, M, d
  <2>4. CASE I = {}
    BY <2>1, <2>2, <2>4 DEF Filtered!EvaluatePacket, M, d
  <2>5. CASE I # {}
    <3>1. d \in I /\ d # 0 /\ d \in DOMAIN rules
      BY <2>2, <2>3, <2>5
    <3>2. Filtered!EvaluatePacket(p) = rules[d].action
      BY <3>1 DEF Filtered!EvaluatePacket, d
    <3>3. ASSUME NEW i \in I PROVE rules[d].priority <= rules[i].priority
      <4>1. d < i \/ d = i
        BY <2>2, <2>3, <3>1
      <4> QED
        BY <2>3, <3>1, <4>1 DEF FilterInv, Filtered!Sorted
    <3> QED
      BY <2>1, <3>1, <3>2, <3>3 DEF M
  <2> QED
    BY <2>4, <2>5
<1>2. stats["Total"] + Filtered!Cardinality(Filtered!InFlight) = decided
  BY DEF FilterInv, Filtered!Cardinality, Cardinality
<1> QED
  BY <1>1, <1>2 DEF Filtered!DecidedByPriority, FilterInv
-----------------------------------------------------------------------------
(* Indicators.                                                             *)

(* In the matcher as it is in the table.                                   *)
IntelFound(id) == /\ id \in DOMAIN iocStore /\ iocStore[id] = iocs[id]
             /\ Intel!Entries(id, iocs[id]) \subseteq index

IngestCalls == [at : {"idle", "adding", "entering"}, before : Nat, feed : Seq(Intel!IOC),
          added : SUBSET Nat, copy : SUBSET (Nat \X Intel!IOC)]

IntelTypeInv ==
  /\ nextIOCId \in Nat \ {0}
  /\ iocs \in [DOMAIN iocs -> Intel!IOC] /\ DOMAIN iocs \subseteq 1..nextIOCId - 1
  /\ ingest \in [Ingesting -> IngestCalls]
  /\ \A t \in Ingesting : \A i \in DOMAIN ingest[t].feed : ingest[t].feed[i].active

(* An undisturbed IOC is the same wherever it has come to.                 *)
MatcherInv ==
  /\ \A t \in Ingesting : \A c \in ingest[t].copy :
       c[1] \notin disturbed => c[1] \in DOMAIN iocs /\ c[2] = iocs[c[1]]
  /\ \A e \in index : e.id \notin disturbed => e.id \in DOMAIN iocs /\ e \in Intel!Entries(e.id, iocs[e.id])

(* An ingestion's IOCs have numbers above the size it began with; after    *)
(* the copy each is still to be entered or found already.                  *)
IngestInv(t) ==
  /\ ingest[t].at = "adding" =>
       /\ ingest[t].before < nextIOCId
       /\ \A id \in ingest[t].added : id > ingest[t].before
       /\ \A id \in ingest[t].added \ disturbed : id \in DOMAIN iocs /\ iocs[id].active
  /\ ingest[t].at = "entering" =>
       \A id \in ingest[t].added \ disturbed :
         id \in DOMAIN iocs /\ (<<id, iocs[id]>> \in ingest[t].copy \/ IntelFound(id))

IntelInv ==
  /\ IntelTypeInv /\ MatcherInv
  /\ \A t \in Ingesting : IngestInv(t)
  /\ \A id \in ingested \ disturbed : id \in DOMAIN iocs /\ IntelFound(id)
(* The numbers given out are more than the IOCs left.                      *)
LEMMA SizeBelowNumber ==
  ASSUME IntelTypeInv PROVE Cardinality(DOMAIN iocs) \in Nat /\ Cardinality(DOMAIN iocs) < nextIOCId
<1>1. /\ IsFiniteSet(1..nextIOCId - 1) /\ Cardinality(1..nextIOCId - 1) = nextIOCId - 1
  BY FS_Interval DEF IntelTypeInv
<1>2. /\ IsFiniteSet(DOMAIN iocs) /\ Cardinality(DOMAIN iocs) <= nextIOCId - 1
  BY <1>1, FS_Subset DEF IntelTypeInv
<1> QED
  BY <1>2, FS_CardinalityType DEF IntelTypeInv

(* addIOC() leaves what is there, and numbers grow.                        *)
LEMMA AddedIOC ==
  ASSUME Intel!ThreatIntelAssumption, IntelTypeInv, NEW id \in ChosenIds \cup {0}, NEW ioc \in Intel!IOC, Intel!AddIOC(id, ioc)
  PROVE  /\ nextIOCId' \in Nat \ {0} /\ nextIOCId <= nextIOCId'
         /\ iocs' \in [DOMAIN iocs' -> Intel!IOC] /\ DOMAIN iocs' \subseteq 1..nextIOCId' - 1
         /\ \A i \in DOMAIN iocs : i \in DOMAIN iocs' /\ iocs'[i] = iocs[i]
         /\ (id = 0 /\ ~Intel!Refused(0, ioc)) =>
              nextIOCId' = nextIOCId + 1 /\ nextIOCId \in DOMAIN iocs' /\ iocs'[nextIOCId] = ioc
<1>1. CASE Intel!Refused(id, ioc)
  BY <1>1 DEF Intel!AddIOC, Intel!managing, IntelTypeInv
<1>2. CASE ~Intel!Refused(id, ioc)
  <2> DEFINE n == Intel!Number(id)
  <2>1. n \in Nat \ {0} /\ n \notin DOMAIN iocs /\ n < nextIOCId' /\ nextIOCId <= nextIOCId'
        /\ nextIOCId' \in Nat \ {0} /\ (id = 0 => n = nextIOCId /\ nextIOCId' = nextIOCId + 1)
    BY <1>2 DEF Intel!Number, Intel!AddIOC, Intel!Refused, IntelTypeInv, Intel!ThreatIntelAssumption
  <2>2. iocs' = [i \in DOMAIN iocs \cup {n} |-> IF i = n THEN ioc ELSE iocs[i]]
    BY <1>2 DEF Intel!AddIOC, Intel!With
  <2>3. DOMAIN iocs' = {n} \cup DOMAIN iocs /\ iocs'[n] = ioc
    BY <2>2
  <2>4. \A i \in DOMAIN iocs : iocs'[i] = iocs[i]
    BY <2>1, <2>2
  <2>5. iocs' \in [DOMAIN iocs' -> Intel!IOC]
    BY <2>2, <2>3 DEF IntelTypeInv
  <2> HIDE DEF n
  <2> QED
    BY <2>1, <2>3, <2>4, <2>5 DEF IntelTypeInv
<1> QED
  BY <1>1, <1>2

(* What leaves calls and the matcher alone and changes no undisturbed IOC  *)
(* preserves the invariant.                                                *)
LEMMA TableOnlyStep ==
  ASSUME IntelInv, UNCHANGED <<index, iocStore, ingest, ingested>>,
         nextIOCId' \in Nat \ {0}, nextIOCId <= nextIOCId',
         iocs' \in [DOMAIN iocs' -> Intel!IOC], DOMAIN iocs' \subseteq 1..nextIOCId' - 1,
         disturbed \subseteq disturbed',
         \A id \in DOMAIN iocs \ disturbed' : id \in DOMAIN iocs' /\ iocs'[id] = iocs[id]
  PROVE  IntelInv'
<1> USE DEF IntelInv
<1>1. IntelTypeInv'
  BY DEF IntelTypeInv
<1>2. MatcherInv'
  BY DEF MatcherInv
<1>3. \A id \in DOMAIN iocs \ disturbed' : IntelFound(id) => IntelFound(id)'
  BY DEF IntelFound
<1>4. ASSUME NEW t \in Ingesting PROVE IngestInv(t)'
  <2>1. CASE ingest[t].at = "adding"
    <3>1. ingest[t].before \in Nat /\ nextIOCId \in Nat
      BY DEF IntelTypeInv, IngestCalls
    <3> QED
      BY <2>1, <3>1 DEF IngestInv
  <2>2. CASE ingest[t].at # "adding"
    BY <1>3, <2>2 DEF IngestInv
  <2> QED
    BY <2>1, <2>2
<1> QED
  BY <1>1, <1>2, <1>3, <1>4

LEMMA AddByHandStep ==
  ASSUME Intel!ThreatIntelAssumption, IntelInv,
         NEW id \in ChosenIds \cup {0}, NEW ioc \in ByHand, Intel!AddByHand(id, ioc)
  PROVE  IntelInv'
<1>1. IntelTypeInv /\ ioc \in Intel!IOC /\ Intel!AddIOC(id, ioc)
  BY DEF IntelInv, Intel!AddByHand, Intel!ThreatIntelAssumption
<1> QED
  BY <1>1, AddedIOC, TableOnlyStep DEF Intel!AddByHand, Intel!matching

LEMMA EditIOCStep ==
  ASSUME Intel!ThreatIntelAssumption, IntelInv,
         \/ \E id \in DOMAIN iocs : Intel!RemoveIOC(id) \/ \E ioc \in ByHand : Intel!UpdateIOC(id, ioc)
         \/ Intel!ClearManager
  PROVE  IntelInv'
<1>1. IntelTypeInv /\ ByHand \subseteq Intel!IOC
  BY DEF IntelInv, Intel!ThreatIntelAssumption
<1>2. ASSUME NEW id \in DOMAIN iocs, Intel!RemoveIOC(id) PROVE IntelInv'
  BY <1>1, <1>2, TableOnlyStep DEF Intel!RemoveIOC, Intel!matching, IntelTypeInv
<1>3. ASSUME NEW id \in DOMAIN iocs, NEW ioc \in ByHand, Intel!UpdateIOC(id, ioc) PROVE IntelInv'
  BY <1>1, <1>3, TableOnlyStep DEF Intel!UpdateIOC, Intel!matching, IntelTypeInv
<1>4. CASE Intel!ClearManager
  <2>1. DOMAIN iocs' = {} /\ iocs' \in [DOMAIN iocs' -> Intel!IOC]
    BY <1>4 DEF Intel!ClearManager
  <2> QED
    BY <1>1, <1>4, <2>1, TableOnlyStep DEF Intel!ClearManager, Intel!matching, IntelTypeInv
<1> QED
  BY <1>2, <1>3, <1>4

LEMMA ClearMatcherStep ==
  ASSUME IntelInv, Intel!ClearMatcher PROVE IntelInv'
<1> USE DEF IntelInv, Intel!ClearMatcher, Intel!managing
<1>1. IntelTypeInv'
  BY DEF IntelTypeInv
<1>2. MatcherInv'
  BY DEF MatcherInv
<1>3. \A id \in DOMAIN iocs : IntelFound(id) => id \in disturbed'
  BY DEF IntelFound
<1> QED
  BY <1>1, <1>2, <1>3 DEF IngestInv
(* A step of thread t that leaves the table alone.                         *)
LEMMA IngestCallStep ==
  ASSUME IntelInv, UNCHANGED <<Intel!managing, Intel!matching, disturbed>>,
         NEW t \in Ingesting, NEW c \in IngestCalls, ingest' = [ingest EXCEPT ![t] = c],
         \A i \in DOMAIN c.feed : c.feed[i].active,
         \A x \in c.copy : x[1] \notin disturbed => x[1] \in DOMAIN iocs /\ x[2] = iocs[x[1]],
         IngestInv(t)',
         \A id \in ingested' \ disturbed : id \in ingested \/ (id \in DOMAIN iocs /\ IntelFound(id))
  PROVE  IntelInv'
<1> USE DEF IntelInv, Intel!managing, Intel!matching
<1>1. ingest' \in [Ingesting -> IngestCalls] /\ ingest'[t] = c
      /\ \A u \in Ingesting : u # t => ingest'[u] = ingest[u]
  BY DEF IntelTypeInv
<1>2. IntelTypeInv'
  BY <1>1 DEF IntelTypeInv
<1>3. MatcherInv'
  BY <1>1 DEF MatcherInv
<1>4. \A id : IntelFound(id)' <=> IntelFound(id)
  BY DEF IntelFound
<1>5. ASSUME NEW u \in Ingesting, u # t PROVE IngestInv(u)'
  BY <1>1, <1>4, <1>5 DEF IngestInv
<1> QED
  BY <1>2, <1>3, <1>4, <1>5

LEMMA BeginIngestStep ==
  ASSUME Intel!ThreatIntelAssumption, IntelInv, NEW t \in Ingesting,
         Intel!LoadIOCs(t) \/ \E feed \in Feeds : Intel!IngestFeed(t, feed)
  PROVE  IntelInv'
<1>1. ASSUME NEW feed \in Feeds, Intel!IngestFeed(t, feed) PROVE IntelInv'
  <2> DEFINE c == Intel!Call("adding", Intel!Cardinality(DOMAIN iocs), feed, {})
  <2>1. c = [at |-> "adding", before |-> Intel!Cardinality(DOMAIN iocs), feed |-> feed,
             added |-> {}, copy |-> {}]
    BY DEF Intel!Call
  <2>2. Intel!Cardinality(DOMAIN iocs) \in Nat /\ Intel!Cardinality(DOMAIN iocs) < nextIOCId
    BY SizeBelowNumber DEF IntelInv, Intel!Cardinality, Cardinality
  <2>3. c \in IngestCalls /\ \A i \in DOMAIN c.feed : c.feed[i].active
    BY <2>1, <2>2 DEF IngestCalls, Intel!ThreatIntelAssumption
  <2>4. ingest' = [ingest EXCEPT ![t] = c] /\ UNCHANGED <<Intel!managing, Intel!matching, ingested, disturbed>>
    BY <1>1 DEF Intel!IngestFeed, Intel!managing, Intel!matching
  <2>5. ingest'[t] = c
    BY <2>4 DEF IntelInv, IntelTypeInv
  <2> HIDE DEF c
  <2>6. IngestInv(t)'
    BY <2>1, <2>2, <2>4, <2>5 DEF IngestInv, Intel!managing
  <2>7. c.copy = {}
    BY <2>1
  <2> QED
    BY <2>3, <2>4, <2>6, <2>7, IngestCallStep
<1>2. CASE Intel!LoadIOCs(t)
  <2> DEFINE c == Intel!Call("entering", 0, <<>>, Intel!Copy(Intel!Active))
  <2>1. c = [at |-> "entering", before |-> 0, feed |-> <<>>, added |-> {}, copy |-> Intel!Copy(Intel!Active)]
    BY DEF Intel!Call
  <2>2. Intel!Copy(Intel!Active) \subseteq Nat \X Intel!IOC
        /\ \A x \in Intel!Copy(Intel!Active) : x[1] \in DOMAIN iocs /\ x[2] = iocs[x[1]]
    BY DEF Intel!Copy, Intel!Active, IntelInv, IntelTypeInv
  <2>3. c \in IngestCalls /\ \A i \in DOMAIN c.feed : c.feed[i].active
    <3>1. <<>> \in Seq(Intel!IOC) /\ DOMAIN <<>> = {}
      OBVIOUS
    <3>2. c.feed = <<>>
      BY <2>1
    <3> HIDE DEF c
    <3>3. c \in IngestCalls
      BY <2>1, <2>2, <3>1 DEF IngestCalls
    <3>4. \A i \in DOMAIN c.feed : c.feed[i].active
      BY <3>1, <3>2
    <3> QED
      BY <3>3, <3>4
  <2>4. ingest' = [ingest EXCEPT ![t] = c] /\ UNCHANGED <<Intel!managing, Intel!matching, ingested, disturbed>>
    BY <1>2 DEF Intel!LoadIOCs
  <2>5. ingest'[t] = c
    BY <2>4 DEF IntelInv, IntelTypeInv
  <2>6. c.copy = Intel!Copy(Intel!Active) /\ c.added = {} /\ c.at = "entering"
    BY <2>1
  <2> HIDE DEF c
  <2>7. IngestInv(t)'
    BY <2>5, <2>6 DEF IngestInv
  <2> QED
    BY <2>2, <2>3, <2>4, <2>6, <2>7, IngestCallStep
<1> QED
  BY <1>1, <1>2

(* The number an added IOC gets is above the size the ingestion read.      *)
LEMMA AddNextStep ==
  ASSUME Intel!ThreatIntelAssumption, IntelInv, NEW t \in Ingesting, Intel!AddNext(t) PROVE IntelInv'
<1> DEFINE c   == ingest[t]
           ioc == Head(c.feed)
<1>1. c \in IngestCalls /\ c.at = "adding" /\ c.feed \in Seq(Intel!IOC) /\ c.feed # <<>>
  BY DEF Intel!AddNext, IntelInv, IntelTypeInv, IngestCalls
<1>2. ioc \in Intel!IOC /\ ioc.active /\ Tail(c.feed) \in Seq(Intel!IOC)
      /\ \A i \in DOMAIN Tail(c.feed) : Tail(c.feed)[i].active
  BY <1>1 DEF IntelInv, IntelTypeInv
<1>3. IntelTypeInv /\ Intel!AddIOC(0, ioc)
  BY DEF Intel!AddNext, IntelInv
<1>4. /\ nextIOCId' \in Nat \ {0} /\ nextIOCId <= nextIOCId'
      /\ iocs' \in [DOMAIN iocs' -> Intel!IOC] /\ DOMAIN iocs' \subseteq 1..nextIOCId' - 1
      /\ \A i \in DOMAIN iocs : i \in DOMAIN iocs' /\ iocs'[i] = iocs[i]
      /\ ~Intel!Refused(0, ioc) => /\ nextIOCId' = nextIOCId + 1
                              /\ nextIOCId \in DOMAIN iocs' /\ iocs'[nextIOCId] = ioc
  BY <1>2, <1>3, AddedIOC
<1> DEFINE d == [c EXCEPT !.feed = Tail(c.feed),
                          !.added = IF Intel!Refused(0, ioc) THEN c.added ELSE c.added \cup {nextIOCId}]
<1>5. ingest' = [ingest EXCEPT ![t] = d] /\ UNCHANGED <<index, iocStore, ingested, disturbed>>
  BY Zenon DEF Intel!AddNext, Intel!matching
<1>6. /\ d.at = "adding" /\ d.before = c.before /\ d.copy = c.copy /\ d.feed = Tail(c.feed)
      /\ d.added = IF Intel!Refused(0, ioc) THEN c.added ELSE c.added \cup {nextIOCId}
      /\ d \in IngestCalls
  BY <1>1, <1>2, <1>3 DEF IngestCalls, IntelTypeInv
<1> HIDE DEF d
<1>7. ingest' \in [Ingesting -> IngestCalls] /\ ingest'[t] = d
      /\ \A u \in Ingesting : u # t => ingest'[u] = ingest[u]
  BY <1>5, <1>6 DEF IntelInv, IntelTypeInv
<1>8. IntelTypeInv'
  BY <1>2, <1>4, <1>6, <1>7 DEF IntelInv, IntelTypeInv
<1>9. MatcherInv'
  <2>1. \A u \in Ingesting : ingest'[u].copy = ingest[u].copy
    BY <1>6, <1>7
  <2> QED
    BY <1>4, <1>5, <2>1 DEF IntelInv, MatcherInv
<1>10. \A id \in DOMAIN iocs : IntelFound(id) => IntelFound(id)'
  BY <1>4, <1>5 DEF IntelFound
<1>11. IngestInv(t)'
  <2>1. c.before < nextIOCId' /\ nextIOCId > c.before
    <3>1. c.before \in Nat /\ nextIOCId \in Nat
      BY <1>1, <1>3 DEF IngestCalls, IntelTypeInv
    <3>2. c.before < nextIOCId
      BY <1>1 DEF IntelInv, IngestInv
    <3> QED
      BY <1>4, <3>1, <3>2
  <2>2. \A id \in c.added : id > c.before
    BY <1>1 DEF IntelInv, IngestInv
  <2>3. \A id \in c.added \ disturbed : id \in DOMAIN iocs' /\ iocs'[id].active
    BY <1>1, <1>4 DEF IntelInv, IngestInv
  <2> QED
    BY <1>2, <1>4, <1>5, <1>6, <1>7, <2>1, <2>2, <2>3 DEF IngestInv
<1>12. ASSUME NEW u \in Ingesting, u # t PROVE IngestInv(u)'
  <2>1. ingest[u].before \in Nat /\ nextIOCId \in Nat
    BY <1>3 DEF IntelTypeInv, IngestCalls
  <2> QED
    <3>1. CASE ingest[u].at = "adding"
      BY <1>4, <1>5, <1>7, <1>12, <2>1, <3>1 DEF IntelInv, IngestInv
    <3>2. CASE ingest[u].at # "adding"
      BY <1>4, <1>5, <1>7, <1>10, <1>12, <3>2 DEF IntelInv, IngestInv
    <3> QED
      BY <3>1, <3>2
<1> QED
  BY <1>4, <1>5, <1>8, <1>9, <1>10, <1>11, <1>12 DEF IntelInv

LEMMA CopyNewStep ==
  ASSUME IntelInv, NEW t \in Ingesting, Intel!CopyNew(t) PROVE IntelInv'
<1> DEFINE c == ingest[t]
           d == [c EXCEPT !.at = "entering",
                          !.copy = IF c.added = {} THEN {} ELSE Intel!Copy(Intel!NewSince(c.before))]
<1>1. c \in IngestCalls /\ c.at = "adding"
  BY DEF Intel!CopyNew, IntelInv, IntelTypeInv
<1>2. /\ Intel!Copy(Intel!NewSince(c.before)) \subseteq Nat \X Intel!IOC
      /\ \A x \in Intel!Copy(Intel!NewSince(c.before)) : x[1] \in DOMAIN iocs /\ x[2] = iocs[x[1]]
  BY DEF Intel!Copy, Intel!NewSince, Intel!Active, IntelInv, IntelTypeInv
<1>3. ingest' = [ingest EXCEPT ![t] = d] /\ UNCHANGED <<Intel!managing, Intel!matching, ingested, disturbed>>
  BY DEF Intel!CopyNew
<1>4. /\ d \in IngestCalls /\ d.at = "entering" /\ d.feed = c.feed /\ d.added = c.added
      /\ d.copy = IF c.added = {} THEN {} ELSE Intel!Copy(Intel!NewSince(c.before))
  BY <1>1, <1>2 DEF IngestCalls
<1> HIDE DEF d
<1>5. ingest'[t] = d
  BY <1>3 DEF IntelInv, IntelTypeInv
<1>6. ASSUME NEW id \in c.added \ disturbed PROVE id \in DOMAIN iocs /\ <<id, iocs[id]>> \in d.copy
  <2>1. id \in DOMAIN iocs /\ iocs[id].active /\ id > c.before
    BY <1>1 DEF IntelInv, IngestInv
  <2> QED
    BY <1>4, <2>1 DEF Intel!Copy, Intel!NewSince, Intel!Active
<1>7. IngestInv(t)'
  BY <1>3, <1>4, <1>5, <1>6 DEF IngestInv, Intel!managing
<1>8. \A i \in DOMAIN d.feed : d.feed[i].active
  BY <1>4 DEF IntelInv, IntelTypeInv
<1>9. \A x \in d.copy : x[1] \in DOMAIN iocs /\ x[2] = iocs[x[1]]
  BY <1>2, <1>4
<1> QED
  BY <1>3, <1>4, <1>7, <1>8, <1>9, IngestCallStep

LEMMA EnterIOCStep ==
  ASSUME IntelInv, NEW t \in Ingesting, Intel!EnterIOC(t) PROVE IntelInv'
<1> DEFINE c == ingest[t]
<1>1. PICK x \in c.copy :
        /\ iocStore' = Intel!With(iocStore, x[1], x[2])
        /\ index' = index \cup Intel!Entries(x[1], x[2])
        /\ ingest' = [ingest EXCEPT ![t].copy = @ \ {x}]
  BY DEF Intel!EnterIOC
<1>2. UNCHANGED <<iocs, nextIOCId, ingested, disturbed>>
  BY DEF Intel!EnterIOC, Intel!managing
<1>3. c \in IngestCalls /\ x \in Nat \X Intel!IOC
      /\ (x[1] \notin disturbed => x[1] \in DOMAIN iocs /\ x[2] = iocs[x[1]])
  BY DEF IntelInv, IntelTypeInv, MatcherInv, IngestCalls
<1>4. /\ ingest' \in [Ingesting -> IngestCalls]
      /\ \A u \in Ingesting : /\ ingest'[u].at = ingest[u].at /\ ingest'[u].before = ingest[u].before
                               /\ ingest'[u].feed = ingest[u].feed /\ ingest'[u].added = ingest[u].added
                               /\ ingest'[u].copy \subseteq ingest[u].copy
                               /\ ingest[u].copy \subseteq ingest'[u].copy \cup {x}
  BY <1>1, <1>3 DEF IntelInv, IntelTypeInv, IngestCalls
<1>5. IntelTypeInv'
  BY <1>2, <1>4 DEF IntelInv, IntelTypeInv
<1>6. \A e \in Intel!Entries(x[1], x[2]) : e.id = x[1]
  BY DEF Intel!Entries, Intel!Entry
<1>7. MatcherInv'
  BY <1>1, <1>2, <1>3, <1>4, <1>6 DEF IntelInv, MatcherInv
<1>8. /\ DOMAIN iocStore' = DOMAIN iocStore \cup {x[1]}
      /\ \A id \in DOMAIN iocStore' : iocStore'[id] = IF id = x[1] THEN x[2] ELSE iocStore[id]
  BY <1>1 DEF Intel!With
<1>9. \A id \in DOMAIN iocs \ disturbed : IntelFound(id) \/ id = x[1] => IntelFound(id)'
  BY <1>1, <1>2, <1>3, <1>8 DEF IntelFound
<1>10. ASSUME NEW u \in Ingesting PROVE IngestInv(u)'
  <2>1. ASSUME ingest[u].at = "entering", NEW id \in ingest[u].added \ disturbed
        PROVE  id \in DOMAIN iocs /\ (<<id, iocs[id]>> \in ingest'[u].copy \/ IntelFound(id)')
    <3>1. id \in DOMAIN iocs /\ (<<id, iocs[id]>> \in ingest[u].copy \/ IntelFound(id))
      BY <2>1 DEF IntelInv, IngestInv
    <3>2. CASE <<id, iocs[id]>> = x
      BY <1>9, <3>1, <3>2
    <3> QED
      BY <1>4, <1>9, <3>1, <3>2
  <2> QED
    BY <1>2, <1>4, <2>1 DEF IntelInv, IngestInv
<1> QED
  BY <1>2, <1>5, <1>7, <1>9, <1>10 DEF IntelInv

LEMMA IngestReturnsStep ==
  ASSUME IntelInv, NEW t \in Ingesting, Intel!IngestReturns(t) PROVE IntelInv'
<1>1. Intel!Idle = [at |-> "idle", before |-> 0, feed |-> <<>>, added |-> {}, copy |-> {}]
  BY DEF Intel!Idle, Intel!Call
<1>2. <<>> \in Seq(Intel!IOC) /\ DOMAIN <<>> = {}
  OBVIOUS
<1>3. Intel!Idle \in IngestCalls
  BY <1>1, <1>2 DEF IngestCalls
<1>4. Intel!Idle.at = "idle" /\ Intel!Idle.copy = {} /\ \A i \in DOMAIN Intel!Idle.feed : Intel!Idle.feed[i].active
  BY <1>1, <1>2
<1>5. \A id \in ingest[t].added \ disturbed : id \in DOMAIN iocs /\ IntelFound(id)
  BY DEF Intel!IngestReturns, IntelInv, IngestInv
<1>6. ingest'[t] = Intel!Idle
  BY DEF Intel!IngestReturns, IntelInv, IntelTypeInv
<1>7. IngestInv(t)'
  BY <1>4, <1>6 DEF IngestInv
<1> QED
  BY <1>3, <1>4, <1>5, <1>7, IngestCallStep DEF Intel!IngestReturns
(* What the matcher makes of an IOC whose entries it has, and no others.   *)
LEMMA MatchedAsCovered ==
  ASSUME NEW id, NEW ioc \in Intel!IOC, NEW v \in Seq(STRING), id \in DOMAIN iocStore,
         Intel!Entries(id, ioc) \subseteq index, \A e \in index : e.id = id => e \in Intel!Entries(id, ioc)
  PROVE  id \in Intel!MatchAll(v) <=> Intel!Covers(ioc, v)
<1> DEFINE HasDomain(d) == \/ ioc.type = "Domain" /\ d = ioc.value
                           \/ ioc.type = "URL" /\ Intel!IsURL(ioc.value) /\ d = Intel!Host(ioc.value)
<1>1. ASSUME NEW map, NEW key
      PROVE  id \in Intel!Listed(map, key) <=> (map = ioc.type /\ key = ioc.value)
                                         \/ (map = "Domain" /\ ioc.type = "URL" /\ HasDomain(key))
  <2>1. Intel!Entry(map, key, id).map = map /\ Intel!Entry(map, key, id).key = key /\ Intel!Entry(map, key, id).id = id
    BY DEF Intel!Entry
  <2>2. ASSUME id \in Intel!Listed(map, key)
        PROVE  (map = ioc.type /\ key = ioc.value) \/ (map = "Domain" /\ ioc.type = "URL" /\ HasDomain(key))
    <3>1. PICK e \in index : e.map = map /\ e.key = key /\ e.id = id
      BY <2>2 DEF Intel!Listed
    <3>2. e \in Intel!Entries(id, ioc)
      BY <3>1
    <3>3. e = Intel!Entry(ioc.type, ioc.value, id)
          \/ (ioc.type = "URL" /\ Intel!IsURL(ioc.value) /\ e = Intel!Entry("Domain", Intel!Host(ioc.value), id))
      BY <3>2 DEF Intel!Entries
    <3> QED
      BY <3>1, <3>3 DEF Intel!Entry
  <2>3. ASSUME (map = ioc.type /\ key = ioc.value) \/ (map = "Domain" /\ ioc.type = "URL" /\ HasDomain(key))
        PROVE  id \in Intel!Listed(map, key)
    <3>1. Intel!Entry(map, key, id) \in index
      BY <2>3 DEF Intel!Entries, Intel!IOC, Intel!Types
    <3> QED
      BY <2>1, <3>1 DEF Intel!Listed
  <2> QED
    BY <2>2, <2>3
<1>2. ASSUME NEW w PROVE id \in Intel!DomainIds(w) <=> \E d : HasDomain(d) /\ Intel!Under(w, d)
  <2>1. id \in Intel!DomainIds(w) <=> \E d : id \in Intel!Listed("Domain", d) /\ Intel!Under(w, d)
    BY DEF Intel!DomainIds, Intel!Listed
  <2> QED
    BY <1>1, <2>1
<1> HIDE DEF HasDomain
<1>3. id \in Intel!SearchTrie(v) <=> ioc.type = "IP" /\ Intel!IsPrefix(ioc.value, v)
  <2>0. \A key : id \in Intel!Listed("IP", key) <=> ioc.type = "IP" /\ key = ioc.value
    BY <1>1
  <2>1. ASSUME id \in Intel!SearchTrie(v) PROVE ioc.type = "IP" /\ Intel!IsPrefix(ioc.value, v)
    <3>1. PICK n \in 0..Len(v) : id \in Intel!Listed("IP", SubSeq(v, 1, n))
      BY <2>1 DEF Intel!SearchTrie, Intel!Reached
    <3>2. ioc.type = "IP" /\ ioc.value = SubSeq(v, 1, n)
      BY <2>0, <3>1
    <3>3. Len(ioc.value) = n /\ SubSeq(ioc.value, 1, n) = SubSeq(v, 1, n)
      BY <3>2
    <3> QED
      BY <3>2, <3>3 DEF Intel!IsPrefix
  <2>2. ASSUME ioc.type = "IP", Intel!IsPrefix(ioc.value, v) PROVE id \in Intel!SearchTrie(v)
    <3> DEFINE n == Len(ioc.value)
    <3>1. ioc.value \in Seq(STRING) /\ n \in 0..Len(v)
      BY <2>2 DEF Intel!IsPrefix, Intel!IOC
    <3>2. SubSeq(ioc.value, 1, n) = ioc.value
      BY <3>1
    <3>3. SubSeq(v, 1, n) = ioc.value
      BY <2>2, <3>1, <3>2 DEF Intel!IsPrefix
    <3>4. Intel!Entry("IP", ioc.value, id) \in index
      BY <2>2 DEF Intel!Entries
    <3>5. n \in Intel!Reached(v)
      BY <3>1, <3>2, <3>3, <3>4 DEF Intel!Reached, Intel!Entry, Intel!IsPrefix
    <3>6. id \in Intel!Listed("IP", SubSeq(v, 1, n))
      BY <2>0, <2>2, <3>3
    <3> QED
      BY <3>5, <3>6 DEF Intel!SearchTrie
  <2> QED
    BY <2>1, <2>2
<1>4. id \in Intel!MatchAll(v) <=>
        \/ ioc.type \in {"Exact", "URL"} /\ v = ioc.value
        \/ ioc.type = "IP" /\ Intel!IsPrefix(ioc.value, v)
        \/ \E d : HasDomain(d) /\ (Intel!Under(v, d) \/ (Intel!IsURL(v) /\ Intel!Under(Intel!Host(v), d)))
  BY <1>1, <1>2, <1>3 DEF Intel!MatchAll, Intel!MatchURL, Intel!Types
<1>5. CASE ioc.type \in {"Domain", "URL"}
  BY <1>4, <1>5 DEF HasDomain, Intel!Covers, Intel!Under
<1>6. CASE ioc.type = "Exact"
  BY <1>4, <1>6 DEF HasDomain, Intel!Covers
<1>7. CASE ioc.type = "IP"
  <2>1. Intel!IsPrefix(ioc.value, ioc.value)
    BY DEF Intel!IsPrefix, Intel!IOC
  <2> QED
    BY <1>4, <1>7, <2>1 DEF HasDomain, Intel!Covers
<1> QED
  BY <1>5, <1>6, <1>7 DEF Intel!IOC, Intel!Types

LEMMA IntelStep == ASSUME IntelInv, Intel!Next PROVE IntelInv'
<1>1. Intel!ThreatIntelAssumption
  BY ServiceConstants
<1> QED
  BY <1>1, AddByHandStep, EditIOCStep, ClearMatcherStep, BeginIngestStep, AddNextStep, CopyNewStep,
     EnterIOCStep, IngestReturnsStep DEF Intel!Next

LEMMA IntelInit == ASSUME Intel!Init PROVE IntelInv
<1>1. Intel!Idle = [at |-> "idle", before |-> 0, feed |-> <<>>, added |-> {}, copy |-> {}]
  BY DEF Intel!Idle, Intel!Call
<1>2. <<>> \in Seq(Intel!IOC) /\ DOMAIN <<>> = {}
  OBVIOUS
<1>3. Intel!Idle \in IngestCalls /\ Intel!Idle.at = "idle" /\ Intel!Idle.copy = {}
      /\ DOMAIN Intel!Idle.feed = {}
  BY <1>1, <1>2 DEF IngestCalls
<1>4. iocs = <<>> /\ iocs \in [DOMAIN iocs -> Intel!IOC]
  BY <1>2 DEF Intel!Init
<1> QED
  BY <1>2, <1>3, <1>4 DEF Intel!Init, IntelInv, IntelTypeInv, MatcherInv, IngestInv

LEMMA IntelImplies == ASSUME IntelInv PROVE Intel!IngestedFound
<1> SUFFICES ASSUME NEW id \in ingested \ disturbed
             PROVE  /\ id \in DOMAIN iocs /\ id \in DOMAIN iocStore /\ iocStore[id] = iocs[id]
                    /\ \A v \in Observed : id \in Intel!MatchAll(v) <=> Intel!Covers(iocs[id], v)
  BY DEF Intel!IngestedFound
<1>1. id \in DOMAIN iocs /\ IntelFound(id) /\ iocs[id] \in Intel!IOC
  BY DEF IntelInv, IntelTypeInv
<1>2. \A e \in index : e.id = id => e \in Intel!Entries(id, iocs[id])
  BY DEF IntelInv, MatcherInv
<1>3. Observed \subseteq Seq(STRING)
  BY ServiceConstants DEF Intel!ThreatIntelAssumption
<1> QED
  BY <1>1, <1>2, <1>3, MatchedAsCovered DEF IntelFound

(* However rules are added, removed, switched and shuffled by the sort, a   *)
(* packet gets the action of a matching rule with precedence, and the      *)
(* statistics add up (RuleEngine::evaluatePacket, PacketFilter); and an    *)
(* indicator that ingestFeed() added and nobody disturbed is matched by    *)
(* exactly what it covers, since the size it is compared with is below     *)
(* every number given out later (ThreatIntelEngine::ingestFeed).           *)
THEOREM NothingOverlookedHolds == Spec => []NothingOverlooked
<1>1. Init => FilterInv /\ IntelInv
  BY FilterInit, IntelInit DEF Init
<1>2. FilterInv /\ IntelInv /\ [Next]_services => FilterInv' /\ IntelInv'
  <2> SUFFICES ASSUME FilterInv, IntelInv, [Next]_services PROVE FilterInv' /\ IntelInv'
    OBVIOUS
  <2>1. Filtered!Next \/ UNCHANGED firewallVars
    BY DEF Next, ServiceStep, PluginStep, RemoteStep, WatchStep, services, watchSide
  <2>2. Intel!Next \/ UNCHANGED intelVars
    BY DEF Next, ServiceStep, PluginStep, RemoteStep, WatchStep, services, watchSide
  <2>3. UNCHANGED firewallVars => FilterInv'
    BY DEF firewallVars, FilterInv, Filtered!InFlight
  <2>4. UNCHANGED intelVars => IntelInv'
    BY DEF intelVars, IntelInv, IntelTypeInv, MatcherInv, IngestInv, IntelFound
  <2> QED
    BY <2>1, <2>2, <2>3, <2>4, FilterStep, IntelStep
<1>3. FilterInv /\ IntelInv => NothingOverlooked
  BY FilterImplies, IntelImplies DEF NothingOverlooked
<1> QED
  BY <1>1, <1>2, <1>3, PTL DEF Spec
-----------------------------------------------------------------------------
(* Queued responses.                                                       *)

QueueEntries == [number : Int, action : Actions, priority : Priorities,
                 requiresApproval : BOOLEAN, asked : BOOLEAN, grants : Nat]
Requests     == [action : Actions, status : {"pending", "approved", "denied"}, rank : Nat]

(* The queue is in the order in which it is to be processed, ...           *)
InTurnOf(q) == \A i, k \in DOMAIN q : i < k => Response!Precedes(q[i], q[k])

(* ... an entry waits exactly as long as no grant of its action is younger,*)
(* and grants are ranked by their number.                                  *)
ResponseInv ==
  /\ actionQueue \in Seq(QueueEntries) /\ approvalRequests \in Seq(Requests)
  /\ nextQueueId \in Int
  /\ InTurnOf(actionQueue)
  /\ \A i \in DOMAIN actionQueue :
       /\ actionQueue[i].number < nextQueueId
       /\ actionQueue[i].grants <= Cardinality(Response!Granted)
       /\ actionQueue[i].requiresApproval <=>
            actionQueue[i].asked /\ ~Response!Approved(actionQueue[i])
  /\ \A a \in Response!Granted : approvalRequests[a].rank <= Cardinality(Response!Granted)

LEMMA GrantsCounted ==
  ASSUME NEW r, r \in Seq(Requests), NEW G, G = {a \in DOMAIN r : r[a].status = "approved"}
  PROVE  IsFiniteSet(G) /\ Cardinality(G) \in Nat
<1>1. Len(r) \in Nat /\ DOMAIN r = 1..Len(r)
  OBVIOUS
<1>2. IsFiniteSet(1..Len(r)) /\ G \in SUBSET (1..Len(r))
  BY <1>1, FS_Interval
<1> QED
  BY <1>2, FS_Subset, FS_CardinalityType

(* Grants stay what they are: nothing changes for an entry.                *)
LEMMA GrantsStay ==
  ASSUME ResponseInv, Response!Granted' = Response!Granted,
         \A a \in Response!Granted : approvalRequests'[a] = approvalRequests[a],
         NEW q
  PROVE  Response!Approved(q)' <=> Response!Approved(q)
BY DEF Response!Approved

LEMMA RequestsStep ==
  ASSUME ResponseInv, approvalRequests' \in Seq(Requests),
         Response!Granted' = Response!Granted,
         \A a \in Response!Granted : approvalRequests'[a] = approvalRequests[a],
         UNCHANGED nextQueueId,
         actionQueue' \in Seq(QueueEntries), InTurnOf(actionQueue'),
         \A i \in DOMAIN actionQueue' : \E k \in DOMAIN actionQueue : actionQueue'[i] = actionQueue[k]
  PROVE  ResponseInv'
<1>1. Cardinality(Response!Granted') = Cardinality(Response!Granted)
  OBVIOUS
<1>2. ASSUME NEW i \in DOMAIN actionQueue'
      PROVE  /\ actionQueue'[i].number < nextQueueId'
             /\ actionQueue'[i].grants <= Cardinality(Response!Granted')
             /\ actionQueue'[i].requiresApproval <=>
                  actionQueue'[i].asked /\ ~Response!Approved(actionQueue[i])'
  <2>1. PICK k \in DOMAIN actionQueue : actionQueue'[i] = actionQueue[k]
    OBVIOUS
  <2>2. Response!Approved(actionQueue[i])' <=> Response!Approved(actionQueue[k])
    BY <2>1 DEF Response!Approved
  <2> QED
    BY <1>1, <2>1, <2>2 DEF ResponseInv
<1>3. \A a \in Response!Granted' : approvalRequests'[a].rank <= Cardinality(Response!Granted')
  BY <1>1 DEF ResponseInv
<1>4. InTurnOf(actionQueue)'
  BY DEF InTurnOf, Response!Precedes
<1> QED
  BY <1>2, <1>3, <1>4 DEF ResponseInv

LEMMA RequestApprovalStep ==
  ASSUME ResponseInv, NEW action \in Actions, Response!RequestApproval(action)
  PROVE  ResponseInv'
<1> DEFINE r == [action |-> action, status |-> "pending", rank |-> 0]
<1>1. /\ approvalRequests' = Append(approvalRequests, r) /\ approvalRequests \in Seq(Requests)
      /\ UNCHANGED <<actionQueue, nextQueueId>>
  BY DEF Response!RequestApproval, ResponseInv
<1>2. r \in Requests /\ r.status # "approved"
  BY DEF Requests
<1> HIDE DEF r
<1>3. /\ approvalRequests' \in Seq(Requests)
      /\ DOMAIN approvalRequests = 1..Len(approvalRequests) /\ Len(approvalRequests) \in Nat
      /\ DOMAIN approvalRequests' = 1..Len(approvalRequests) + 1
      /\ \A a \in 1..Len(approvalRequests) : approvalRequests'[a] = approvalRequests[a]
      /\ approvalRequests'[Len(approvalRequests) + 1] = r
  BY <1>1, <1>2
<1>4. \A a \in 1..Len(approvalRequests) + 1 :
        a \in 1..Len(approvalRequests) \/ a = Len(approvalRequests) + 1
  BY <1>3
<1>5. Response!Granted' = Response!Granted
  BY <1>2, <1>3, <1>4 DEF Response!Granted
<1>6. \A a \in Response!Granted : approvalRequests'[a] = approvalRequests[a]
  BY <1>3 DEF Response!Granted
<1> QED
  BY <1>1, <1>3, <1>5, <1>6, RequestsStep DEF ResponseInv

(* An entry leaves the queue.                                              *)
LEMMA EntryRemoved ==
  ASSUME ResponseInv, NEW k \in DOMAIN actionQueue
  PROVE  LET q == Response!RemoveAt(actionQueue, k) IN
         /\ q \in Seq(QueueEntries) /\ InTurnOf(q)
         /\ \A i \in DOMAIN q : \E m \in DOMAIN actionQueue \ {k} : q[i] = actionQueue[m]
         /\ \A m \in DOMAIN actionQueue \ {k} : \E i \in DOMAIN q : q[i] = actionQueue[m]
<1> DEFINE n == Len(actionQueue)
           q == Response!RemoveAt(actionQueue, k)
           At(i) == IF i < k THEN i ELSE i+1
<1>1. n \in Nat /\ DOMAIN actionQueue = 1..n /\ k \in 1..n /\ actionQueue \in Seq(QueueEntries)
  BY DEF ResponseInv
<1>2. q \in Seq(QueueEntries) /\ Len(q) = n-1 /\ \A i \in 1..(n-1) : q[i] = actionQueue[At(i)]
  BY <1>1, ElementRemoved DEF Response!RemoveAt
<1> HIDE DEF q
<1>3. DOMAIN q = 1..(n-1)
  BY <1>2
<1>4. /\ \A i \in 1..(n-1) : At(i) \in 1..n /\ At(i) # k
      /\ \A i, j \in 1..(n-1) : i < j => At(i) < At(j)
  BY <1>1
<1>5. ASSUME NEW m \in (1..n) \ {k} PROVE \E i \in 1..(n-1) : At(i) = m
  <2>1. CASE m < k
    <3>1. m \in 1..(n-1) /\ At(m) = m
      BY <1>1, <2>1
    <3> QED
      BY <3>1
  <2>2. CASE m > k
    <3>1. m-1 \in 1..(n-1) /\ At(m-1) = m
      BY <1>1, <2>2
    <3> QED
      BY <3>1
  <2> QED
    BY <1>1, <2>1, <2>2
<1> HIDE DEF At, n
<1>6. InTurnOf(q)
  BY <1>1, <1>2, <1>3, <1>4 DEF InTurnOf, ResponseInv
<1> QED
  BY <1>1, <1>2, <1>3, <1>4, <1>5, <1>6 DEF q

LEMMA ProcessStep ==
  ASSUME ResponseInv, Response!ProcessNextAction PROVE ResponseInv'
<1>1. PICK k \in DOMAIN actionQueue : actionQueue' = Response!RemoveAt(actionQueue, k)
  BY DEF Response!ProcessNextAction
<1>2. UNCHANGED <<approvalRequests, nextQueueId>>
  BY DEF Response!ProcessNextAction
<1>3. Response!Granted' = Response!Granted
  BY <1>2 DEF Response!Granted
<1>4. approvalRequests' \in Seq(Requests)
  BY <1>2 DEF ResponseInv
<1> QED
  BY <1>1, <1>2, <1>3, <1>4, EntryRemoved, RequestsStep

LEMMA DenyStep ==
  ASSUME ResponseInv, NEW a \in DOMAIN approvalRequests, Response!DenyAction(a) PROVE ResponseInv'
<1>1. /\ approvalRequests \in Seq(Requests) /\ approvalRequests[a].status = "pending"
      /\ approvalRequests' = [approvalRequests EXCEPT ![a].status = "denied"]
      /\ UNCHANGED nextQueueId
  BY DEF Response!DenyAction, Response!Pending, ResponseInv
<1>2. /\ approvalRequests' \in Seq(Requests) /\ DOMAIN approvalRequests' = DOMAIN approvalRequests
      /\ approvalRequests'[a].status = "denied"
      /\ \A b \in DOMAIN approvalRequests \ {a} : approvalRequests'[b] = approvalRequests[b]
  <2>1. [approvalRequests[a] EXCEPT !.status = "denied"] \in Requests
    <3>1. approvalRequests[a] \in Requests
      BY <1>1
    <3>2. \A r \in Requests : [r EXCEPT !.status = "denied"] \in Requests
      BY DEF Requests
    <3> QED
      BY <3>1, <3>2
  <2>2. approvalRequests' = [approvalRequests EXCEPT ![a] = [approvalRequests[a] EXCEPT !.status = "denied"]]
    BY <1>1
  <2>3. approvalRequests' \in Seq(Requests)
    BY <1>1, <2>1, <2>2
  <2> QED
    BY <1>1, <2>1, <2>2, <2>3 DEF Requests
<1>3. Response!Granted' = Response!Granted /\ a \notin Response!Granted
  BY <1>1, <1>2 DEF Response!Granted
<1>4. \A b \in Response!Granted : approvalRequests'[b] = approvalRequests[b]
  BY <1>2, <1>3 DEF Response!Granted
<1>5. CASE UNCHANGED actionQueue
  BY <1>1, <1>2, <1>3, <1>4, <1>5, RequestsStep DEF ResponseInv
<1>6. ASSUME NEW k \in DOMAIN actionQueue, actionQueue' = Response!RemoveAt(actionQueue, k)
      PROVE  ResponseInv'
  BY <1>1, <1>2, <1>3, <1>4, <1>6, EntryRemoved, RequestsStep
<1> DEFINE I == {i \in DOMAIN actionQueue : actionQueue[i].action = approvalRequests[a].action}
<1>7. /\ I = {} => UNCHANGED actionQueue
      /\ I # {} => actionQueue' = Response!RemoveAt(actionQueue, Response!Min(I)) \/ UNCHANGED actionQueue
  BY DEF Response!DenyAction, Response!SelectInSeq
<1>8. I # {} => Response!Min(I) \in DOMAIN actionQueue
  <2>1. Len(actionQueue) \in Nat /\ DOMAIN actionQueue = 1..Len(actionQueue)
    BY DEF ResponseInv
  <2> QED
    BY <2>1, LeastExists DEF Response!Min
<1> QED
  BY <1>5, <1>6, <1>7, <1>8

(* Where queueAction() enters an action, what is before has at least its   *)
(* priority, and what is behind has less.                                  *)
LEMMA EntryPlace ==
  ASSUME ResponseInv, NEW p \in Int
  PROVE  LET f == Response!FirstLower(p)
             k == IF f = 0 THEN Len(actionQueue) + 1 ELSE f IN
         /\ k \in 1..Len(actionQueue) + 1
         /\ \A i \in DOMAIN actionQueue : i < k => actionQueue[i].priority >= p
         /\ \A i \in DOMAIN actionQueue : i >= k => actionQueue[i].priority < p
<1> DEFINE n == Len(actionQueue)
           I == {i \in DOMAIN actionQueue : actionQueue[i].priority < p}
           f == Response!FirstLower(p)
           k == IF f = 0 THEN n + 1 ELSE f
<1> SUFFICES /\ k \in 1..n + 1
             /\ \A i \in DOMAIN actionQueue : i < k => actionQueue[i].priority >= p
             /\ \A i \in DOMAIN actionQueue : i >= k => actionQueue[i].priority < p
  OBVIOUS
<1>1. n \in Nat /\ DOMAIN actionQueue = 1..n
  BY DEF ResponseInv
<1>2. \A i \in 1..n : actionQueue[i].priority \in Int
  <2>1. \A i \in 1..n : actionQueue[i] \in QueueEntries
    BY DEF ResponseInv
  <2> QED
    BY <2>1, ServiceConstants DEF QueueEntries, Response!OrchestratorAssumption
<1>3. f = IF I # {} THEN Response!Min(I) ELSE 0
  BY DEF Response!FirstLower, Response!SelectInSeq
<1>4. \A i, j \in 1..n : i < j => actionQueue[i].priority >= actionQueue[j].priority
  BY <1>1, <1>2 DEF ResponseInv, InTurnOf, Response!Precedes
<1> HIDE DEF n
<1>5. CASE I = {}
  <2>1. f = 0 /\ n + 1 \in 1..n + 1 /\ \A i \in 1..n : ~(actionQueue[i].priority < p) /\ ~(i >= n+1)
    BY <1>1, <1>3, <1>5
  <2>2. \A i \in 1..n : actionQueue[i].priority >= p
    BY <1>2, <2>1
  <2>3. k = n + 1
    BY <2>1
  <2> HIDE DEF k
  <2>4. \A i \in 1..n : i < k /\ ~(i >= k)
    BY <1>1, <2>3
  <2> QED
    BY <1>1, <2>1, <2>2, <2>3, <2>4
<1>6. CASE I # {}
  <2>1. PICK m \in I : \A i \in I : m <= i
    BY <1>1, <1>6, LeastExists
  <2>2. f \in I /\ \A i \in I : f <= i
    BY <1>3, <1>6, <2>1 DEF Response!Min
  <2> HIDE DEF f
  <2>3. f \in 1..n /\ f # 0 /\ f \in 1..n+1 /\ actionQueue[f].priority < p
    BY <1>1, <2>2
  <2>4. ASSUME NEW i \in 1..n, i < f PROVE actionQueue[i].priority >= p
    <3>1. i \notin I
      BY <1>1, <2>2, <2>3, <2>4
    <3> QED
      BY <1>1, <1>2, <3>1
  <2>5. ASSUME NEW i \in 1..n, i >= f PROVE actionQueue[i].priority < p
    <3>1. i = f \/ f < i
      BY <2>3, <2>5
    <3> QED
      BY <1>2, <1>4, <2>3, <3>1
  <2>6. k = f
    BY <2>3
  <2> HIDE DEF k
  <2> QED
    BY <1>1, <2>3, <2>4, <2>5, <2>6
<1> QED
  BY <1>5, <1>6

LEMMA QueueStep ==
  ASSUME ResponseInv, NEW action \in Actions, NEW p \in Priorities, NEW b \in BOOLEAN,
         Response!QueueAction(action, p, b)
  PROVE  ResponseInv'
<1> DEFINE n == Len(actionQueue)
           f == Response!FirstLower(p)
           k == IF f = 0 THEN n + 1 ELSE f
           e == [number |-> nextQueueId, action |-> action, priority |-> p,
                 requiresApproval |-> b, asked |-> b, grants |-> Cardinality(Response!Granted)]
           At(i) == IF i < k THEN i ELSE i-1
<1>1. n \in Nat /\ DOMAIN actionQueue = 1..n /\ actionQueue \in Seq(QueueEntries)
  BY DEF ResponseInv
<1>2. /\ p \in Int /\ nextQueueId \in Int /\ nextQueueId' = nextQueueId + 1
      /\ UNCHANGED approvalRequests
  BY ServiceConstants DEF ResponseInv, Response!OrchestratorAssumption, Response!QueueAction
<1>3. Cardinality(Response!Granted) \in Nat
  BY GrantsCounted DEF ResponseInv, Response!Granted
<1>4. e \in QueueEntries
  BY <1>2, <1>3 DEF QueueEntries
<1>5. actionQueue' = SubSeq(actionQueue, 1, k-1) \o <<e>> \o SubSeq(actionQueue, k, n)
  BY DEF Response!QueueAction, Response!InsertAt, Response!Cardinality, Cardinality
<1>6. /\ k \in 1..n + 1
      /\ \A i \in 1..n : i < k => actionQueue[i].priority >= p
      /\ \A i \in 1..n : i >= k => actionQueue[i].priority < p
  BY <1>1, <1>2, EntryPlace
<1>e. /\ e.number = nextQueueId /\ e.priority = p /\ e.requiresApproval = b /\ e.asked = b
      /\ e.action = action /\ e.grants = Cardinality(Response!Granted)
  OBVIOUS
<1> HIDE DEF k, e
<1>7. /\ actionQueue' \in Seq(QueueEntries) /\ Len(actionQueue') = n + 1
      /\ \A i \in 1..(n+1) :
           actionQueue'[i] = IF i < k THEN actionQueue[i] ELSE IF i = k THEN e ELSE actionQueue[i-1]
  <2> DEFINE r == Inserted(actionQueue, k, e)
  <2>1. /\ r \in Seq(QueueEntries) /\ Len(r) = Len(actionQueue) + 1
        /\ \A i \in 1..(Len(actionQueue)+1) :
             r[i] = IF i < k THEN actionQueue[i] ELSE IF i = k THEN e ELSE actionQueue[i-1]
    <3>1. k \in Int /\ 1 <= k /\ k <= Len(actionQueue) + 1
      BY <1>1, <1>6
    <3> QED
      BY <1>1, <1>4, <3>1, ElementInserted
  <2>2. actionQueue' = r
    BY <1>5 DEF Inserted
  <2> HIDE DEF r
  <2> QED
    BY <2>1, <2>2
<1>8. DOMAIN actionQueue' = 1..(n+1)
  BY <1>7
<1> HIDE DEF n
<1>9. /\ \A i \in 1..(n+1) \ {k} : At(i) \in 1..n /\ actionQueue'[i] = actionQueue[At(i)]
      /\ actionQueue'[k] = e
  <2>1. \A i \in 1..(n+1) \ {k} : At(i) \in 1..n /\ (i < k => At(i) = i) /\ (~(i < k) => At(i) = i-1)
    BY <1>1, <1>6
  <2>2. ~(k < k)
    BY <1>6
  <2> HIDE DEF At
  <2> QED
    BY <1>6, <1>7, <2>1, <2>2
<1>10. /\ \A i, j \in 1..(n+1) \ {k} : i < j => At(i) < At(j)
       /\ \A i \in 1..(n+1) \ {k} : i < k => At(i) < k
       /\ \A i \in 1..(n+1) \ {k} : k < i => At(i) >= k
  BY <1>1, <1>6
<1> HIDE DEF At
<1>11. ASSUME NEW i \in 1..(n+1), NEW j \in 1..(n+1), i < j
       PROVE  Response!Precedes(actionQueue'[i], actionQueue'[j])
  <2>1. CASE i # k /\ j # k
    <3>1. At(i) \in 1..n /\ At(j) \in 1..n /\ At(i) < At(j)
      BY <1>9, <1>10, <1>11, <2>1
    <3>2. Response!Precedes(actionQueue[At(i)], actionQueue[At(j)])
      BY <1>1, <3>1 DEF ResponseInv, InTurnOf
    <3> QED
      BY <1>9, <2>1, <3>2
  <2>2. CASE i # k /\ j = k
    <3>1. At(i) \in 1..n /\ At(i) < k /\ actionQueue'[i] = actionQueue[At(i)]
      BY <1>9, <1>10, <1>11, <2>2
    <3>2. actionQueue[At(i)] \in QueueEntries /\ actionQueue[At(i)].number < nextQueueId
      BY <1>1, <3>1 DEF ResponseInv
    <3>3. actionQueue[At(i)].priority >= p /\ actionQueue[At(i)].priority \in Int
      BY <1>6, <3>1, <3>2, ServiceConstants DEF QueueEntries, Response!OrchestratorAssumption
    <3>4. actionQueue[At(i)].priority > p \/ actionQueue[At(i)].priority = p
      BY <1>2, <3>3
    <3> QED
      BY <1>e, <1>9, <2>2, <3>1, <3>2, <3>4 DEF Response!Precedes
  <2>3. CASE i = k
    <3>1. At(j) \in 1..n /\ At(j) >= k /\ j # k /\ actionQueue'[j] = actionQueue[At(j)]
      BY <1>6, <1>9, <1>10, <1>11, <2>3
    <3>2. actionQueue[At(j)] \in QueueEntries /\ actionQueue[At(j)].priority < p
      BY <1>1, <1>6, <3>1
    <3>3. actionQueue[At(j)].priority \in Int
      BY <3>2, ServiceConstants DEF QueueEntries, Response!OrchestratorAssumption
    <3>4. p > actionQueue[At(j)].priority
      BY <1>2, <3>2, <3>3
    <3> QED
      BY <1>e, <1>9, <2>3, <3>1, <3>4 DEF Response!Precedes
  <2> QED
    BY <2>1, <2>2, <2>3
<1>12. Response!Granted' = Response!Granted
  BY <1>2 DEF Response!Granted
<1>13. ASSUME NEW q PROVE Response!Approved(q)' <=> Response!Approved(q)
  BY <1>2, <1>12 DEF Response!Approved
<1>14. ~Response!Approved(e)
  <2>1. ASSUME NEW a \in Response!Granted PROVE ~(approvalRequests[a].rank > Cardinality(Response!Granted))
    <3>1. approvalRequests[a] \in Requests
      BY DEF ResponseInv, Response!Granted
    <3>2. approvalRequests[a].rank \in Nat
      BY <3>1 DEF Requests
    <3>3. approvalRequests[a].rank <= Cardinality(Response!Granted)
      BY DEF ResponseInv
    <3> QED
      BY <1>3, <3>2, <3>3
  <2> QED
    BY <1>e, <2>1 DEF Response!Approved
<1>15. ASSUME NEW i \in 1..(n+1)
       PROVE  /\ actionQueue'[i].number < nextQueueId'
              /\ actionQueue'[i].grants <= Cardinality(Response!Granted')
              /\ actionQueue'[i].requiresApproval <=>
                   actionQueue'[i].asked /\ ~Response!Approved(actionQueue[i])'
  <2>1. CASE i = k
    <3>1. actionQueue'[i] = e
      BY <1>9, <2>1
    <3>2. Response!Approved(actionQueue[i])' <=> Response!Approved(e)
      BY <1>2, <1>12, <3>1 DEF Response!Approved
    <3>3. nextQueueId < nextQueueId' /\ Cardinality(Response!Granted) <= Cardinality(Response!Granted')
      BY <1>2, <1>3, <1>12
    <3> QED
      BY <1>e, <1>14, <3>1, <3>2, <3>3
  <2>2. CASE i # k
    <3>1. At(i) \in DOMAIN actionQueue /\ actionQueue'[i] = actionQueue[At(i)]
      BY <1>1, <1>9, <2>2
    <3>2. Response!Approved(actionQueue[i])' <=> Response!Approved(actionQueue[At(i)])
      BY <1>2, <1>12, <3>1 DEF Response!Approved
    <3>3. actionQueue[At(i)].number \in Int /\ actionQueue[At(i)].number < nextQueueId
      <4>1. actionQueue[At(i)] \in QueueEntries
        BY <1>1, <3>1
      <4> QED
        BY <3>1, <4>1 DEF ResponseInv, QueueEntries
    <3>4. actionQueue[At(i)].number < nextQueueId'
      BY <1>2, <3>3
    <3>5. actionQueue[At(i)].grants <= Cardinality(Response!Granted')
      BY <1>12, <3>1 DEF ResponseInv
    <3>6. actionQueue[At(i)].requiresApproval <=>
                  actionQueue[At(i)].asked /\ ~Response!Approved(actionQueue[At(i)])
      BY <3>1 DEF ResponseInv
    <3> QED
      BY <3>1, <3>2, <3>4, <3>5, <3>6
  <2> QED
    BY <2>1, <2>2
<1>16. InTurnOf(actionQueue)'
  BY <1>8, <1>11 DEF InTurnOf, Response!Precedes
<1>17. /\ nextQueueId' \in Int /\ approvalRequests' \in Seq(Requests)
       /\ \A a \in Response!Granted' : approvalRequests'[a].rank <= Cardinality(Response!Granted')
  BY <1>2, <1>12 DEF ResponseInv
<1> QED
  BY <1>7, <1>8, <1>15, <1>16, <1>17 DEF ResponseInv

(* A grant frees what is queued of its action, and ranks above the others. *)
LEMMA ApproveStep ==
  ASSUME ResponseInv, NEW a \in DOMAIN approvalRequests, Response!ApproveAction(a)
  PROVE  ResponseInv'
<1> DEFINE G == Response!Granted
           g == Cardinality(Response!Granted)
<1>x. PICK x : x = approvalRequests[a].action
  OBVIOUS
<1>1. /\ approvalRequests \in Seq(Requests) /\ approvalRequests[a] \in Requests
      /\ approvalRequests[a].status = "pending" /\ actionQueue \in Seq(QueueEntries)
      /\ UNCHANGED nextQueueId /\ nextQueueId \in Int
  BY DEF Response!ApproveAction, Response!Pending, ResponseInv
<1>2. IsFiniteSet(G) /\ g \in Nat
  BY GrantsCounted DEF ResponseInv, Response!Granted
<1>3. /\ approvalRequests' \in Seq(Requests) /\ DOMAIN approvalRequests' = DOMAIN approvalRequests
      /\ approvalRequests'[a].status = "approved" /\ approvalRequests'[a].rank = g + 1
      /\ approvalRequests'[a].action = x
      /\ \A b \in DOMAIN approvalRequests \ {a} : approvalRequests'[b] = approvalRequests[b]
  <2> DEFINE r == [approvalRequests[a] EXCEPT !.status = "approved", !.rank = g + 1]
  <2>1. \A q \in Requests : \A c \in Nat :
          /\ [q EXCEPT !.status = "approved", !.rank = c] \in Requests
          /\ [q EXCEPT !.status = "approved", !.rank = c].status = "approved"
          /\ [q EXCEPT !.status = "approved", !.rank = c].rank = c
          /\ [q EXCEPT !.status = "approved", !.rank = c].action = q.action
    BY DEF Requests
  <2>2. approvalRequests' = [approvalRequests EXCEPT ![a] = r]
    <3>1. approvalRequests' = [approvalRequests EXCEPT ![a].status = "approved", ![a].rank = g + 1]
      BY DEF Response!ApproveAction, Response!Cardinality, Cardinality
    <3> QED
      BY <1>1, <3>1
  <2>3. r \in Requests /\ r.status = "approved" /\ r.rank = g + 1 /\ r.action = x
    <3>1. g + 1 \in Nat
      BY <1>2
    <3> QED
      BY <1>x, <1>1, <2>1, <3>1
  <2> HIDE DEF r
  <2> QED
    BY <1>1, <2>2, <2>3
<1>4. Response!Granted' = G \cup {a} /\ a \notin G
  BY <1>1, <1>3 DEF Response!Granted
<1>5. Cardinality(Response!Granted') = g + 1
  BY <1>2, <1>4, FS_AddElement
<1>6. \A b \in G : approvalRequests'[b] = approvalRequests[b]
  BY <1>3, <1>4 DEF Response!Granted
<1> DEFINE Freed(q) == [q EXCEPT !.requiresApproval = @ /\ q.action # x]
<1>7. /\ actionQueue' = [i \in DOMAIN actionQueue |-> Freed(actionQueue[i])]
      /\ DOMAIN actionQueue = 1..Len(actionQueue) /\ Len(actionQueue) \in Nat
  BY <1>1, <1>x DEF Response!ApproveAction
<1>8. ASSUME NEW q \in QueueEntries
      PROVE  /\ Freed(q) \in QueueEntries
             /\ Freed(q).number = q.number /\ Freed(q).action = q.action
             /\ Freed(q).priority = q.priority /\ Freed(q).asked = q.asked
             /\ Freed(q).grants = q.grants
             /\ Freed(q).requiresApproval <=> q.requiresApproval /\ q.action # x
  BY DEF QueueEntries
<1> HIDE DEF Freed
<1>9. actionQueue' \in Seq(QueueEntries) /\ DOMAIN actionQueue' = DOMAIN actionQueue
  BY <1>1, <1>7, <1>8
<1>10. ASSUME NEW i \in DOMAIN actionQueue
       PROVE  actionQueue[i] \in QueueEntries /\ actionQueue'[i] = Freed(actionQueue[i])
  BY <1>1, <1>7
<1>11. InTurnOf(actionQueue)'
  BY <1>8, <1>9, <1>10 DEF InTurnOf, ResponseInv, Response!Precedes
<1>12. ASSUME NEW q \in QueueEntries, q.grants <= g,
              NEW r, r.action = q.action, r.grants = q.grants
       PROVE  Response!Approved(r)' <=> Response!Approved(q) \/ q.action = x
  <2>1. q.grants \in Nat
    BY DEF QueueEntries
  <2>2. g + 1 > q.grants
    BY <1>2, <1>12, <2>1
  <2> QED
    BY <1>3, <1>4, <1>6, <1>12, <2>2 DEF Response!Approved
<1>13. ASSUME NEW i \in DOMAIN actionQueue
       PROVE  /\ actionQueue'[i].number < nextQueueId'
              /\ actionQueue'[i].grants <= Cardinality(Response!Granted')
              /\ actionQueue'[i].requiresApproval <=>
                   actionQueue'[i].asked /\ ~Response!Approved(actionQueue[i])'
  <2> DEFINE q == actionQueue[i]
  <2>1. /\ q \in QueueEntries /\ q.number < nextQueueId /\ q.grants <= g
        /\ q.requiresApproval <=> q.asked /\ ~Response!Approved(q)
    BY <1>10 DEF ResponseInv
  <2>2. Response!Approved(actionQueue[i])' <=> Response!Approved(q) \/ q.action = x
    <3>1. PICK r : r = actionQueue'[i]
      OBVIOUS
    <3>2. r.action = q.action /\ r.grants = q.grants
      BY <1>8, <1>10, <2>1, <3>1
    <3>3. Response!Approved(actionQueue[i])' <=> Response!Approved(r)'
      BY <3>1 DEF Response!Approved
    <3>4. Response!Approved(r)' <=> Response!Approved(q) \/ q.action = x
      BY <1>12, <2>1, <3>2
    <3> QED
      BY <3>3, <3>4
  <2>3. /\ actionQueue'[i] = Freed(q)
    BY <1>10
  <2> HIDE DEF q
  <2>4. q.grants \in Nat
    BY <2>1 DEF QueueEntries
  <2>5. q.grants <= Cardinality(Response!Granted')
    BY <1>2, <1>5, <2>1, <2>4
  <2>6. actionQueue'[i].number < nextQueueId' /\ actionQueue'[i].grants <= Cardinality(Response!Granted')
    BY <1>1, <1>8, <2>1, <2>3, <2>5
  <2>7. /\ actionQueue'[i].requiresApproval <=> q.requiresApproval /\ q.action # x
        /\ actionQueue'[i].asked = q.asked
    BY <1>8, <2>1, <2>3
  <2> QED
    BY <2>1, <2>2, <2>6, <2>7
<1>14. ASSUME NEW b \in Response!Granted'
       PROVE  approvalRequests'[b].rank <= Cardinality(Response!Granted')
  <2>1. CASE b = a
    BY <1>2, <1>3, <1>5, <2>1
  <2>2. CASE b # a
    <3>1. b \in G /\ approvalRequests'[b] = approvalRequests[b]
      BY <1>4, <1>6, <2>2
    <3>2. approvalRequests[b] \in Requests /\ approvalRequests[b].rank <= g
      BY <3>1 DEF ResponseInv, Response!Granted
    <3>3. approvalRequests[b].rank \in Nat
      BY <3>2 DEF Requests
    <3>4. approvalRequests[b].rank <= g + 1
      BY <1>2, <3>2, <3>3
    <3> QED
      BY <1>5, <3>1, <3>4
  <2> QED
    BY <2>1, <2>2
<1> QED
  BY <1>1, <1>3, <1>9, <1>11, <1>13, <1>14 DEF ResponseInv

LEMMA ResponseStep == ASSUME ResponseInv, Response!Next PROVE ResponseInv'
<1>1. ASSUME UNCHANGED <<actionQueue, approvalRequests, nextQueueId>> PROVE ResponseInv'
  BY <1>1 DEF ResponseInv, InTurnOf, Response!Precedes, Response!Granted, Response!Approved
<1>2. ASSUME NEW action \in Actions, Response!ExecuteAction(action) \/ Response!RollbackAction(action)
      PROVE  ResponseInv'
  BY <1>1, <1>2 DEF Response!ExecuteAction, Response!RollbackAction
<1> QED
  BY <1>2, RequestApprovalStep, QueueStep, ProcessStep, DenyStep, ApproveStep DEF Response!Next

(* What is processed is first in turn among those that do not wait.        *)
LEMMA ProcessedFirst ==
  ASSUME ResponseInv, Response!ProcessNextAction, NEW i \in DOMAIN actionQueue,
         actionQueue' = Response!RemoveAt(actionQueue, i)
  PROVE  LET q == actionQueue[i] IN
         /\ q.asked => Response!Approved(q)
         /\ \A p \in Response!ToSet(actionQueue) :
              Response!Precedes(p, q) => p.asked /\ ~Response!Approved(p)
<1> DEFINE I == {k \in DOMAIN actionQueue : ~actionQueue[k].requiresApproval}
<1>1. /\ actionQueue \in Seq(QueueEntries) /\ Len(actionQueue) \in Nat
      /\ DOMAIN actionQueue = 1..Len(actionQueue)
  BY DEF ResponseInv
<1>2. PICK m \in DOMAIN actionQueue :
        /\ m = IF I # {} THEN Response!Min(I) ELSE 0
        /\ actionQueue' = Response!RemoveAt(actionQueue, m)
  BY DEF Response!ProcessNextAction, Response!SelectInSeq
<1>3. m \in I /\ \A k \in I : m <= k
  <2>1. I # {}
    BY <1>1, <1>2
  <2>2. PICK l \in I : \A k \in I : l <= k
    BY <1>1, <2>1, LeastExists
  <2> QED
    BY <1>2, <2>1, <2>2 DEF Response!Min
<1>4. ASSUME NEW j \in DOMAIN actionQueue, NEW k \in DOMAIN actionQueue,
             Response!Precedes(actionQueue[j], actionQueue[k])
      PROVE  j < k
  <2>1. \A l \in DOMAIN actionQueue : actionQueue[l].priority \in Int /\ actionQueue[l].number \in Int
    <3>1. \A l \in DOMAIN actionQueue : actionQueue[l] \in QueueEntries
      BY <1>1
    <3> QED
      BY <3>1, ServiceConstants DEF QueueEntries, Response!OrchestratorAssumption
  <2>2. ~Response!Precedes(actionQueue[k], actionQueue[j]) /\ actionQueue[j] # actionQueue[k]
    BY <1>4, <2>1 DEF Response!Precedes
  <2>3. ~(k < j) /\ j # k
    BY <2>2 DEF ResponseInv, InTurnOf
  <2> QED
    BY <1>1, <2>3
<1>8. actionQueue' = Response!RemoveAt(actionQueue, m)
  BY <1>2
<1>5. i = m
  <2> SUFFICES ASSUME i # m PROVE FALSE
    OBVIOUS
  <2>1. PICK j \in DOMAIN actionQueue' : actionQueue'[j] = actionQueue[m]
    BY EntryRemoved
  <2>2. PICK k \in DOMAIN actionQueue \ {m} : actionQueue'[j] = actionQueue[k]
    BY <1>8, <2>1, EntryRemoved
  <2>3. Response!Precedes(actionQueue[k], actionQueue[m]) \/ Response!Precedes(actionQueue[m], actionQueue[k])
    BY <1>1, <2>2 DEF ResponseInv, InTurnOf
  <2> QED
    BY <1>1, <1>4, <2>1, <2>2, <2>3
<1>6. actionQueue[m].asked => Response!Approved(actionQueue[m])
  BY <1>1, <1>3 DEF ResponseInv
<1>7. ASSUME NEW k \in DOMAIN actionQueue, Response!Precedes(actionQueue[k], actionQueue[m])
      PROVE  actionQueue[k].asked /\ ~Response!Approved(actionQueue[k])
  <2>1. k < m
    BY <1>4, <1>7
  <2>2. k \notin I
    BY <1>1, <1>3, <2>1
  <2>3. actionQueue[k].requiresApproval
    BY <1>1, <2>2
  <2> QED
    BY <2>3 DEF ResponseInv
<1> QED
  BY <1>5, <1>6, <1>7 DEF Response!ToSet

(* Queued actions are processed by priority and then in the order they     *)
(* came, each that asked for an approval only after one that is younger    *)
(* than itself, for any actions, priorities and calls                      *)
(* (ResponseOrchestrator::queueAction, approveAction, denyAction,          *)
(* processNextAction).                                                     *)
THEOREM ProcessedInTurnHolds == Spec => ProcessedInTurn
<1>1. Init => ResponseInv
  <2> SUFFICES ASSUME Init PROVE ResponseInv
    OBVIOUS
  <2>1. actionQueue = <<>> /\ approvalRequests = <<>> /\ nextQueueId = 1
    BY DEF Init, Response!Init
  <2>2. /\ DOMAIN actionQueue = {} /\ DOMAIN approvalRequests = {} /\ nextQueueId \in Int
        /\ actionQueue \in Seq(QueueEntries) /\ approvalRequests \in Seq(Requests)
    BY <2>1
  <2> QED
    BY <2>2 DEF ResponseInv, InTurnOf, Response!Granted
<1>2. ResponseInv /\ [Next]_services => ResponseInv'
  <2> SUFFICES ASSUME ResponseInv, [Next]_services PROVE ResponseInv'
    OBVIOUS
  <2>1. CASE Response!Next
    BY <2>1, ResponseStep
  <2>2. CASE UNCHANGED responseVars
    BY <2>2 DEF responseVars, ResponseInv, InTurnOf, Response!Precedes, Response!Granted, Response!Approved
  <2> QED
    BY <2>1, <2>2 DEF Next, ServiceStep, PluginStep, RemoteStep, WatchStep, services, serviceSide
<1>3. ResponseInv =>
        \A i \in DOMAIN actionQueue :
          (Response!ProcessNextAction /\ actionQueue' = Response!RemoveAt(actionQueue, i)) =>
            LET q == actionQueue[i] IN
            /\ q.asked => Response!Approved(q)
            /\ \A p \in Response!ToSet(actionQueue) :
                 Response!Precedes(p, q) => p.asked /\ ~Response!Approved(p)
  BY ProcessedFirst
<1> QED
  BY <1>1, <1>2, <1>3, PTL DEF Spec, ProcessedInTurn, Response!ProcessedInTurn

-----------------------------------------------------------------------------
(* Hooks of plugins.                                                       *)

ManagerInv ==
  /\ pluginState \in [Ids -> Manager!Active \cup {"Unknown", "Unloaded"}]
  /\ manifests \in [Ids -> Manager!Manifests \cup {NoManifest}]
  /\ hooks \in [Hooks -> Nat] /\ irregular \subseteq Hooks
  /\ \A h \in Hooks \ irregular : hooks[h] = Cardinality(Manager!Contributors(h))

(* A step of plugin p makes it a contributor of a hook, or not.            *)
LEMMA ContributorsOf ==
  ASSUME ManagerInv, NEW p \in Ids, NEW h,
         \A q \in Ids \ {p} : pluginState'[q] = pluginState[q] /\ manifests'[q] = manifests[q]
  PROVE  LET C == Manager!Contributors(h)
             D == Manager!Contributors(h)' IN
         /\ D = IF Manager!IsActive(p)' /\ h \in Manager!HooksOf(p)' THEN C \cup {p} ELSE C \ {p}
         /\ Cardinality(C) \in Nat
         /\ p \notin C => Cardinality(C \cup {p}) = Cardinality(C) + 1 /\ C \ {p} = C
         /\ p \in C => C \cup {p} = C
<1> DEFINE C == Manager!Contributors(h)
           D == Manager!Contributors(h)'
<1>1. \A q \in Ids \ {p} :
        /\ Manager!IsActive(q)' = Manager!IsActive(q) /\ Manager!HooksOf(q)' = Manager!HooksOf(q)
  BY DEF Manager!IsActive, Manager!HooksOf
<1>2. D = IF Manager!IsActive(p)' /\ h \in Manager!HooksOf(p)' THEN C \cup {p} ELSE C \ {p}
  BY <1>1 DEF Manager!Contributors
<1>3. IsFiniteSet(Ids) /\ C \subseteq Ids
  BY ServiceConstants DEF Manager!ManagerAssumption, Manager!IsFiniteSet, IsFiniteSet, Manager!Contributors
<1> HIDE DEF C, D
<1>4. IsFiniteSet(C) /\ Cardinality(C) \in Nat
  BY <1>3, FS_Subset, FS_CardinalityType
<1>5. p \notin C => Cardinality(C \cup {p}) = Cardinality(C) + 1
  BY <1>4, FS_AddElement
<1> QED
  BY <1>2, <1>4, <1>5 DEF C, D

(* The cases of a step: a hook of p gets one more, ...                     *)
LEMMA LoadedHooks ==
  ASSUME ManagerInv, NEW p \in Ids, Manager!LoadPlugin(p) PROVE ManagerInv'
<1>1. /\ pluginState' = [pluginState EXCEPT ![p] = "Loaded"] /\ manifests' = manifests
      /\ hooks' = [h \in Hooks |-> IF h \in Manager!HooksOf(p) THEN hooks[h] + 1 ELSE hooks[h]]
      /\ irregular' = IF Manager!IsActive(p) THEN irregular \cup Manager!HooksOf(p) ELSE irregular
  BY DEF Manager!LoadPlugin, Manager!WithHooks
<1>2. /\ pluginState' \in [Ids -> Manager!Active \cup {"Unknown", "Unloaded"}] /\ manifests' = manifests
      /\ Manager!HooksOf(p)' = Manager!HooksOf(p) /\ Manager!IsActive(p)'
      /\ \A q \in Ids \ {p} : pluginState'[q] = pluginState[q] /\ manifests'[q] = manifests[q]
  BY <1>1 DEF ManagerInv, Manager!HooksOf, Manager!IsActive, Manager!Active
<1>3. hooks' \in [Hooks -> Nat] /\ irregular \subseteq irregular' /\ irregular' \subseteq Hooks
  <2>1. Manager!HooksOf(p) \subseteq Hooks
    BY DEF ManagerInv, Manager!HooksOf, Manager!Manifests
  <2> QED
    BY <1>1, <2>1 DEF ManagerInv
<1>4. ASSUME NEW h \in Hooks \ irregular' PROVE hooks'[h] = Cardinality(Manager!Contributors(h)')
  <2> DEFINE C == Manager!Contributors(h)
             D == Manager!Contributors(h)'
  <2>0. /\ D = IF Manager!IsActive(p)' /\ h \in Manager!HooksOf(p)' THEN C \cup {p} ELSE C \ {p}
        /\ Cardinality(C) \in Nat
        /\ p \notin C => Cardinality(C \cup {p}) = Cardinality(C) + 1 /\ C \ {p} = C
        /\ p \in C => C \cup {p} = C
    <3>1. \A q \in Ids \ {p} : pluginState'[q] = pluginState[q] /\ manifests'[q] = manifests[q]
      BY <1>2
    <3> QED
      BY <3>1, ContributorsOf
  <2>1. D = IF h \in Manager!HooksOf(p) THEN C \cup {p} ELSE C \ {p}
    BY <1>2, <2>0
  <2>2. hooks[h] = Cardinality(C)
    BY <1>3, <1>4 DEF ManagerInv
  <2>3. p \in C <=> Manager!IsActive(p) /\ h \in Manager!HooksOf(p)
    BY DEF Manager!Contributors
  <2> HIDE DEF C, D
  <2> QED
    BY <1>1, <1>4, <2>0, <2>1, <2>2, <2>3 DEF D
<1> QED
  BY <1>2, <1>3, <1>4 DEF ManagerInv

(* ... or a hook that only p has becomes what it is after the step.        *)
LEMMA ReplacedHooks ==
  ASSUME ManagerInv, NEW p \in Ids, NEW s \in {"Loaded", "Unloaded"}, Manager!IsActive(p),
         pluginState' = [pluginState EXCEPT ![p] = s], manifests' = manifests,
         hooks' = [h \in Hooks |-> IF h \in Manager!HooksOf(p)
                                     THEN IF s = "Loaded" THEN 1 ELSE 0 ELSE hooks[h]],
         irregular' = irregular \cup Manager!Shared(p)
  PROVE  ManagerInv'
<1>1. /\ pluginState' \in [Ids -> Manager!Active \cup {"Unknown", "Unloaded"}]
      /\ Manager!HooksOf(p)' = Manager!HooksOf(p) /\ (Manager!IsActive(p)' <=> s = "Loaded")
      /\ \A q \in Ids \ {p} : pluginState'[q] = pluginState[q] /\ manifests'[q] = manifests[q]
  BY DEF ManagerInv, Manager!HooksOf, Manager!IsActive, Manager!Active
<1>2. hooks' \in [Hooks -> Nat] /\ irregular \subseteq irregular' /\ irregular' \subseteq Hooks
  <2>1. Manager!HooksOf(p) \subseteq Hooks
    BY DEF ManagerInv, Manager!HooksOf, Manager!Manifests
  <2> QED
    BY <2>1 DEF ManagerInv, Manager!Shared
<1>3. ASSUME NEW h \in Hooks \ irregular' PROVE hooks'[h] = Cardinality(Manager!Contributors(h)')
  <2> DEFINE C == Manager!Contributors(h)
             D == Manager!Contributors(h)'
  <2>0. /\ D = IF Manager!IsActive(p)' /\ h \in Manager!HooksOf(p)' THEN C \cup {p} ELSE C \ {p}
        /\ Cardinality(C) \in Nat
        /\ p \notin C => Cardinality(C \cup {p}) = Cardinality(C) + 1 /\ C \ {p} = C
        /\ p \in C => C \cup {p} = C
    <3>1. \A q \in Ids \ {p} : pluginState'[q] = pluginState[q] /\ manifests'[q] = manifests[q]
      BY <1>1
    <3> QED
      BY <3>1, ContributorsOf
  <2>1. D = IF s = "Loaded" /\ h \in Manager!HooksOf(p) THEN C \cup {p} ELSE C \ {p}
    BY <1>1, <2>0
  <2>2. hooks[h] = Cardinality(C)
    BY <1>2, <1>3 DEF ManagerInv
  <2>3. p \in C <=> h \in Manager!HooksOf(p)
    BY DEF Manager!Contributors
  <2>4. h \in Manager!HooksOf(p) => C = {p}
    BY <1>3 DEF Manager!Shared
  <2>5. Cardinality({}) = 0 /\ Cardinality({p}) = 1
    BY FS_EmptySet, FS_Singleton
  <2> HIDE DEF C, D
  <2>6. CASE h \in Manager!HooksOf(p) /\ s = "Loaded"
    <3>1. D = {p} /\ hooks'[h] = 1
      BY <1>3, <2>1, <2>4, <2>6
    <3> QED
      BY <2>5, <3>1 DEF D
  <2>7. CASE h \in Manager!HooksOf(p) /\ s # "Loaded"
    <3>1. D = {} /\ hooks'[h] = 0
      BY <1>3, <2>1, <2>4, <2>7
    <3> QED
      BY <2>5, <3>1 DEF D
  <2>8. CASE h \notin Manager!HooksOf(p)
    <3>1. D = C /\ hooks'[h] = hooks[h]
      BY <1>3, <2>1, <2>3, <2>8
    <3> QED
      BY <2>2, <3>1 DEF D
  <2> QED
    BY <2>6, <2>7, <2>8
<1> QED
  BY <1>1, <1>2, <1>3 DEF ManagerInv

LEMMA SwitchedHooks ==
  ASSUME ManagerInv, NEW p \in Ids, Manager!EnablePlugin(p) \/ Manager!DisablePlugin(p)
  PROVE  ManagerInv'
<1>1. /\ \A q \in Ids : Manager!IsActive(q)' = Manager!IsActive(q)
      /\ pluginState' \in [Ids -> Manager!Active \cup {"Unknown", "Unloaded"}]
  BY DEF ManagerInv, Manager!EnablePlugin, Manager!DisablePlugin, Manager!IsActive, Manager!Active
<1>2. manifests' = manifests /\ hooks' = hooks /\ irregular' = irregular
  BY DEF Manager!EnablePlugin, Manager!DisablePlugin
<1>3. \A h \in Hooks : Manager!Contributors(h)' = Manager!Contributors(h)
  BY <1>1, <1>2 DEF Manager!Contributors, Manager!HooksOf
<1> QED
  BY <1>1, <1>2, <1>3 DEF ManagerInv

LEMMA ManifestHooks ==
  ASSUME ManagerInv, NEW p \in Ids, NEW m \in Manager!Manifests, Manager!RegisterManifest(p, m)
  PROVE  ManagerInv'
<1>1. /\ manifests' = [manifests EXCEPT ![p] = m] /\ pluginState' = pluginState /\ hooks' = hooks
      /\ irregular' = IF Manager!IsActive(p)
           THEN irregular \cup (Manager!HooksOf(p) \ m.hooks) \cup (m.hooks \ Manager!HooksOf(p))
           ELSE irregular
  BY DEF Manager!RegisterManifest
<1>2. m # NoManifest /\ m.hooks \subseteq Hooks
  BY ServiceConstants DEF Manager!ManagerAssumption, Manager!Manifests
<1>3. /\ manifests' \in [Ids -> Manager!Manifests \cup {NoManifest}] /\ irregular \subseteq irregular'
      /\ Manager!HooksOf(p)' = m.hooks /\ (Manager!IsActive(p)' <=> Manager!IsActive(p))
      /\ \A q \in Ids \ {p} : pluginState'[q] = pluginState[q] /\ manifests'[q] = manifests[q]
  BY <1>1, <1>2 DEF ManagerInv, Manager!HooksOf, Manager!IsActive
<1>4. irregular' \subseteq Hooks
  <2>1. Manager!HooksOf(p) \subseteq Hooks
    BY DEF ManagerInv, Manager!HooksOf, Manager!Manifests
  <2> QED
    BY <1>1, <1>2, <2>1 DEF ManagerInv
<1>5. ASSUME NEW h \in Hooks \ irregular' PROVE hooks'[h] = Cardinality(Manager!Contributors(h)')
  <2> DEFINE C == Manager!Contributors(h)
             D == Manager!Contributors(h)'
  <2>0. /\ D = IF Manager!IsActive(p)' /\ h \in Manager!HooksOf(p)' THEN C \cup {p} ELSE C \ {p}
        /\ Cardinality(C) \in Nat
        /\ p \notin C => Cardinality(C \cup {p}) = Cardinality(C) + 1 /\ C \ {p} = C
        /\ p \in C => C \cup {p} = C
    <3>1. \A q \in Ids \ {p} : pluginState'[q] = pluginState[q] /\ manifests'[q] = manifests[q]
      BY <1>3
    <3> QED
      BY <3>1, ContributorsOf
  <2>1. D = IF Manager!IsActive(p) /\ h \in m.hooks THEN C \cup {p} ELSE C \ {p}
    BY <1>3, <2>0
  <2>2. hooks[h] = Cardinality(C)
    BY <1>3, <1>5 DEF ManagerInv
  <2>3. p \in C <=> Manager!IsActive(p) /\ h \in Manager!HooksOf(p)
    BY DEF Manager!Contributors
  <2> HIDE DEF C, D
  <2>4. D = C
    BY <1>1, <1>5, <2>1, <2>3
  <2> QED
    BY <1>1, <2>2, <2>4 DEF D
<1> QED
  BY <1>1, <1>3, <1>4, <1>5 DEF ManagerInv

(* A hook is registered as often as active plugins contribute it, for any  *)
(* plugins, manifests and calls, with the exceptions the property names    *)
(* (PluginManager::loadPlugin, unloadPlugin, reloadPlugin).                *)
THEOREM HooksFollowPluginsHolds == Spec => []Manager!HooksFollowPlugins
<1>1. Init => ManagerInv
  <2> SUFFICES ASSUME Init PROVE ManagerInv
    OBVIOUS
  <2>1. /\ pluginState = [p \in Ids |-> "Unknown"] /\ manifests = [p \in Ids |-> NoManifest]
        /\ hooks = [h \in Hooks |-> 0] /\ irregular = {}
    BY DEF Init, Manager!Init
  <2>2. \A h \in Hooks : Manager!Contributors(h) = {}
    BY <2>1 DEF Manager!Contributors, Manager!IsActive, Manager!Active
  <2> QED
    BY <2>1, <2>2, FS_EmptySet DEF ManagerInv
<1>2. ManagerInv /\ [Next]_services => ManagerInv'
  <2> SUFFICES ASSUME ManagerInv, [Next]_services PROVE ManagerInv'
    OBVIOUS
  <2>1. ASSUME NEW p \in Ids, Manager!UnloadPlugin(p) PROVE ManagerInv'
    BY <2>1, ReplacedHooks DEF Manager!UnloadPlugin, Manager!Releasable
  <2>2. ASSUME NEW p \in Ids, Manager!ReloadPlugin(p) PROVE ManagerInv'
    BY <2>2, ReplacedHooks DEF Manager!ReloadPlugin, Manager!Releasable
  <2>3. CASE Manager!Next
    BY <2>1, <2>2, <2>3, LoadedHooks, SwitchedHooks, ManifestHooks DEF Manager!Next
  <2>4. CASE UNCHANGED managerVars
    BY <2>4 DEF managerVars, ManagerInv, Manager!Contributors, Manager!IsActive, Manager!HooksOf
  <2> QED
    BY <2>3, <2>4 DEF Next, ServiceStep, PluginStep, RemoteStep, WatchStep, services, pluginSide
<1>3. ManagerInv => Manager!HooksFollowPlugins
  BY DEF ManagerInv, Manager!HooksFollowPlugins, Manager!Cardinality, Cardinality
<1> QED
  BY <1>1, <1>2, <1>3, PTL DEF Spec

(* No initialised plugin is destroyed without its shutdown, every entry    *)
(* keeps its library open and no other handle is kept (PluginLoader::load, *)
(* loadFromPath, unload, shutdownAll), if plugins are named like their     *)
(* files; and hooks follow the plugins.                                    *)
THEOREM PluginsAccountedHolds == NamedLikeFiles /\ Spec => []PluginsAccounted
<1>1. NamedLikeFiles /\ LoaderInv /\ Manager!HooksFollowPlugins => PluginsAccounted
  BY DEF LoaderInv, PluginsAccounted
<1>2. NamedLikeFiles => []NamedLikeFiles
  <2>1. NamedLikeFiles => NamedLikeFiles'
    BY DEF NamedLikeFiles
  <2> QED
    BY <2>1, PTL
<1> QED
  BY <1>1, <1>2, LoaderInvHolds, HooksFollowPluginsHolds, PTL
-----------------------------------------------------------------------------
(* Detonation jobs.                                                        *)

Statuses  == {"Queued", "Running", "Completed", "Failed", "Timeout"}
JobRecord == [status : Statuses, high : BOOLEAN]
With(s)   == {j \in DOMAIN jobs : jobs[j].status = s}

(* What the counters count, with what a job has gone through: none is      *)
(* started twice, none that timed out runs again, and a cancelled one      *)
(* stays failed.                                                           *)
CountersTold ==
  /\ \A h \in {left, started, timedOut, cancelled} : h \subseteq DOMAIN jobs
  /\ totalProcessed = Cardinality(started)
  /\ totalCompleted = Cardinality(With("Completed"))
  /\ totalFailed = Cardinality(timedOut) + Cardinality(With("Failed") \ cancelled)
  /\ With("Running") \cup With("Completed") \cup timedOut \subseteq started
  /\ timedOut \cap (With("Running") \cup With("Completed")) = {}
  /\ started \cap With("Queued") = {} /\ cancelled \subseteq With("Failed")

QueueTold ==
  /\ queue \in Seq(DOMAIN jobs) /\ \A i, k \in DOMAIN queue : queue[i] = queue[k] => i = k
  /\ {queue[i] : i \in DOMAIN queue} = DOMAIN jobs \ (left \cup cancelled)
  /\ \A i, k \in DOMAIN queue : i < k /\ jobs[queue[k]].high => jobs[queue[i]].high

JobsInv == jobs \in Seq(JobRecord) /\ CountersTold /\ QueueTold

LEMMA JobsIn ==
  ASSUME JobsInv
  PROVE  /\ Len(jobs) \in Nat /\ DOMAIN jobs = 1..Len(jobs)
         /\ \A j \in DOMAIN jobs : jobs[j] \in JobRecord /\ jobs[j].status \in Statuses
         /\ \A S : S \subseteq DOMAIN jobs => IsFiniteSet(S) /\ Cardinality(S) \in Nat
         /\ Len(queue) \in Nat /\ DOMAIN queue = 1..Len(queue)
         /\ \A i \in DOMAIN queue : queue[i] \in DOMAIN jobs
<1>1. Len(jobs) \in Nat /\ DOMAIN jobs = 1..Len(jobs) /\ \A j \in DOMAIN jobs : jobs[j] \in JobRecord
  BY DEF JobsInv
<1>2. \A j \in DOMAIN jobs : jobs[j].status \in Statuses
  BY <1>1 DEF JobRecord
<1>3. ASSUME NEW S, S \subseteq DOMAIN jobs PROVE IsFiniteSet(S) /\ Cardinality(S) \in Nat
  <2>1. \A m \in Nat : IsFiniteSet(1..m)
    BY FS_Interval
  <2> QED
    BY <1>1, <1>3, <2>1, FS_Subset, FS_CardinalityType
<1>4. queue \in Seq(DOMAIN jobs)
  BY DEF JobsInv, QueueTold
<1> QED
  BY <1>1, <1>2, <1>3, <1>4

LEMMA JobsImply == ASSUME JobsInv PROVE Detonation!DetonationTypeOK /\ Detonation!JobsAccounted
<1>1. With("Completed") \subseteq DOMAIN jobs /\ With("Failed") \ cancelled \subseteq DOMAIN jobs
  BY DEF With
<1>2. totalProcessed \in Nat /\ totalCompleted \in Nat /\ totalFailed \in Nat
  <2>1. /\ Cardinality(started) \in Nat /\ Cardinality(timedOut) \in Nat
        /\ Cardinality(With("Completed")) \in Nat
        /\ Cardinality(With("Failed") \ cancelled) \in Nat
    BY <1>1, JobsIn DEF JobsInv, CountersTold
  <2> QED
    BY <2>1 DEF JobsInv, CountersTold
<1>3. Detonation!DetonationTypeOK
  BY <1>2 DEF JobsInv, Detonation!DetonationTypeOK, CountersTold, QueueTold, JobRecord, Statuses
<1>4. \A s : Detonation!With(s) = With(s)
  BY DEF Detonation!With, Detonation!Status, With
<1>5. Detonation!JobsAccounted
  BY <1>4 DEF JobsInv, Detonation!JobsAccounted, CountersTold, QueueTold, Detonation!IsInjective,
     Detonation!Range, Detonation!Cardinality, Cardinality
<1> QED
  BY <1>3, <1>5

(* One job more in a set of jobs.                                          *)
LEMMA CountedJob ==
  ASSUME JobsInv, NEW S, S \subseteq DOMAIN jobs, NEW j \in DOMAIN jobs \ S
  PROVE  Cardinality(S \cup {j}) = Cardinality(S) + 1 /\ Cardinality(S) \in Nat
<1>1. IsFiniteSet(S) /\ Cardinality(S) \in Nat
  BY JobsIn
<1> QED
  BY <1>1, FS_AddElement

(* A job that takes another status keeps its place in the queue.           *)
LEMMA MarkedJob ==
  ASSUME JobsInv, NEW j \in DOMAIN jobs, NEW s \in Statuses, Detonation!Mark(j, s)
  PROVE  /\ jobs' \in Seq(JobRecord) /\ DOMAIN jobs' = DOMAIN jobs
         /\ \A k \in DOMAIN jobs : jobs'[k].high = jobs[k].high
         /\ jobs'[j].status = s
         /\ \A k \in DOMAIN jobs \ {j} : jobs'[k].status = jobs[k].status
         /\ UNCHANGED <<queue, left, cancelled>> => QueueTold'
<1>1. jobs \in Seq(JobRecord) /\ \A k \in DOMAIN jobs : jobs[k] \in JobRecord
  BY JobsIn DEF JobsInv
<1>2. jobs' = [jobs EXCEPT ![j].status = s]
  BY DEF Detonation!Mark
<1>3. [jobs[j] EXCEPT !.status = s] \in JobRecord
  BY <1>1 DEF JobRecord
<1>4. jobs' = [jobs EXCEPT ![j] = [jobs[j] EXCEPT !.status = s]]
  BY <1>2
<1>5. jobs' \in Seq(JobRecord) /\ DOMAIN jobs' = DOMAIN jobs
  BY <1>1, <1>3, <1>4
<1>6. jobs'[j] = [jobs[j] EXCEPT !.status = s] /\ \A k \in DOMAIN jobs \ {j} : jobs'[k] = jobs[k]
  BY <1>1, <1>4
<1>7. jobs'[j].status = s /\ jobs'[j].high = jobs[j].high
  BY <1>1, <1>6 DEF JobRecord
<1>8. \A k \in DOMAIN jobs : jobs'[k].high = jobs[k].high
  BY <1>6, <1>7
<1>9. ASSUME UNCHANGED <<queue, left, cancelled>> PROVE QueueTold'
  BY <1>5, <1>8, <1>9, JobsIn DEF JobsInv, QueueTold
<1> QED
  BY <1>5, <1>6, <1>7, <1>8, <1>9

LEMMA MarkedSets ==
  ASSUME JobsInv, NEW j \in DOMAIN jobs, NEW s \in Statuses, Detonation!Mark(j, s)
  PROVE  \A t : With(t)' = IF t = s THEN With(t) \cup {j} ELSE With(t) \ {j}
<1>1. \A t : With(t)' = {k \in DOMAIN jobs' : jobs'[k].status = t}
  BY DEF With
<1> QED
  BY <1>1, MarkedJob DEF With

LEMMA StartJobStep ==
  ASSUME JobsInv, NEW j \in DOMAIN jobs, Detonation!StartJob(j) PROVE JobsInv'
<1>1. /\ jobs[j].status = "Queued" /\ Detonation!Mark(j, "Running")
      /\ totalProcessed' = totalProcessed + 1 /\ started' = started \cup {j}
      /\ UNCHANGED <<queue, totalCompleted, totalFailed, left, timedOut, cancelled>>
  BY DEF Detonation!StartJob, Detonation!Status
<1>2. /\ jobs' \in Seq(JobRecord) /\ DOMAIN jobs' = DOMAIN jobs /\ QueueTold'
      /\ \A t : With(t)' = IF t = "Running" THEN With(t) \cup {j} ELSE With(t) \ {j}
  BY <1>1, MarkedJob, MarkedSets DEF Statuses
<1>3. j \in With("Queued") /\ j \notin With("Completed") /\ j \notin With("Failed")
  BY <1>1 DEF With
<1>4. Cardinality(started \cup {j}) = Cardinality(started) + 1
  BY <1>3, CountedJob DEF JobsInv, CountersTold
<1>5. CountersTold'
  BY <1>1, <1>2, <1>3, <1>4 DEF JobsInv, CountersTold
<1> QED
  BY <1>2, <1>5 DEF JobsInv

LEMMA CompleteJobStep ==
  ASSUME JobsInv, NEW j \in DOMAIN jobs, Detonation!CompleteJob(j) PROVE JobsInv'
<1>1. /\ jobs[j].status = "Running" /\ Detonation!Mark(j, "Completed")
      /\ totalCompleted' = totalCompleted + 1
      /\ UNCHANGED <<queue, totalProcessed, totalFailed, left, started, timedOut, cancelled>>
  BY DEF Detonation!CompleteJob, Detonation!Status, Detonation!history
<1>2. /\ jobs' \in Seq(JobRecord) /\ DOMAIN jobs' = DOMAIN jobs /\ QueueTold'
      /\ \A t : With(t)' = IF t = "Completed" THEN With(t) \cup {j} ELSE With(t) \ {j}
  BY <1>1, MarkedJob, MarkedSets DEF Statuses
<1>3. j \in With("Running") /\ j \notin With("Completed") /\ j \notin With("Failed")
  BY <1>1 DEF With
<1>4. Cardinality(With("Completed") \cup {j}) = Cardinality(With("Completed")) + 1
  BY <1>3, CountedJob DEF With
<1>5. CountersTold'
  BY <1>1, <1>2, <1>3, <1>4 DEF JobsInv, CountersTold
<1> QED
  BY <1>2, <1>5 DEF JobsInv

LEMMA FailJobStep ==
  ASSUME JobsInv, NEW j \in DOMAIN jobs, Detonation!FailJob(j) PROVE JobsInv'
<1>1. /\ jobs[j].status \notin {"Completed", "Failed"} /\ Detonation!Mark(j, "Failed")
      /\ totalFailed' = totalFailed + 1
      /\ UNCHANGED <<queue, totalProcessed, totalCompleted, left, started, timedOut, cancelled>>
  BY DEF Detonation!FailJob, Detonation!Status, Detonation!history
<1>2. /\ jobs' \in Seq(JobRecord) /\ DOMAIN jobs' = DOMAIN jobs /\ QueueTold'
      /\ \A t : With(t)' = IF t = "Failed" THEN With(t) \cup {j} ELSE With(t) \ {j}
  BY <1>1, MarkedJob, MarkedSets DEF Statuses
<1>3. j \notin With("Completed") /\ j \notin With("Failed") /\ j \notin cancelled
  BY <1>1 DEF With, JobsInv, CountersTold
<1> DEFINE F == With("Failed") \ cancelled
<1>4. Cardinality(F \cup {j}) = Cardinality(F) + 1 /\ Cardinality(F) \in Nat
  BY <1>3, CountedJob DEF With
<1>5. Cardinality(timedOut) \in Nat
  BY JobsIn DEF JobsInv, CountersTold
<1>6. (With("Failed") \cup {j}) \ cancelled = F \cup {j}
  BY <1>3
<1>7. totalFailed' = Cardinality(timedOut) + Cardinality(F \cup {j})
  BY <1>1, <1>4, <1>5 DEF JobsInv, CountersTold
<1>8. CountersTold'
  BY <1>1, <1>2, <1>3, <1>6, <1>7 DEF JobsInv, CountersTold
<1> QED
  BY <1>2, <1>8 DEF JobsInv

LEMMA TimeoutJobStep ==
  ASSUME JobsInv, NEW j \in DOMAIN jobs, Detonation!TimeoutJob(j) PROVE JobsInv'
<1>1. /\ jobs[j].status = "Running" /\ Detonation!Mark(j, "Timeout")
      /\ totalFailed' = totalFailed + 1 /\ timedOut' = timedOut \cup {j}
      /\ UNCHANGED <<queue, totalProcessed, totalCompleted, left, started, cancelled>>
  BY DEF Detonation!TimeoutJob, Detonation!Status
<1>2. /\ jobs' \in Seq(JobRecord) /\ DOMAIN jobs' = DOMAIN jobs /\ QueueTold'
      /\ \A t : With(t)' = IF t = "Timeout" THEN With(t) \cup {j} ELSE With(t) \ {j}
  BY <1>1, MarkedJob, MarkedSets DEF Statuses
<1>3. j \in With("Running") /\ j \notin With("Completed") /\ j \notin With("Failed")
  BY <1>1 DEF With
<1>4. Cardinality(timedOut \cup {j}) = Cardinality(timedOut) + 1 /\ Cardinality(timedOut) \in Nat
  BY <1>3, CountedJob DEF JobsInv, CountersTold
<1>5. Cardinality(With("Failed") \ cancelled) \in Nat
  BY JobsIn DEF With
<1>6. totalFailed' = Cardinality(timedOut \cup {j}) + Cardinality(With("Failed") \ cancelled)
  BY <1>1, <1>4, <1>5 DEF JobsInv, CountersTold
<1>7. CountersTold'
  BY <1>1, <1>2, <1>3, <1>6 DEF JobsInv, CountersTold
<1> QED
  BY <1>2, <1>7 DEF JobsInv

(* A cancelled job leaves the queue, wherever it is.                       *)
LEMMA CancelJobStep ==
  ASSUME JobsInv, NEW j \in DOMAIN jobs, Detonation!CancelJob(j) PROVE JobsInv'
<1>1. /\ jobs[j].status \notin {"Completed", "Failed"} /\ Detonation!Mark(j, "Failed")
      /\ queue' = Detonation!Kept(queue, {i \in DOMAIN queue : queue[i] # j})
      /\ cancelled' = cancelled \cup {j}
      /\ UNCHANGED <<totalProcessed, totalCompleted, totalFailed, left, started, timedOut>>
  BY DEF Detonation!CancelJob, Detonation!Status, Detonation!counters
<1>2. /\ jobs' \in Seq(JobRecord) /\ DOMAIN jobs' = DOMAIN jobs
      /\ \A k \in DOMAIN jobs : jobs'[k].high = jobs[k].high
      /\ \A t : With(t)' = IF t = "Failed" THEN With(t) \cup {j} ELSE With(t) \ {j}
  BY <1>1, MarkedJob, MarkedSets DEF Statuses
<1>3. j \notin With("Completed") /\ j \notin With("Failed")
  BY <1>1 DEF With
<1>4. CountersTold'
  <2>1. (With("Failed") \cup {j}) \ (cancelled \cup {j}) = With("Failed") \ cancelled
    BY <1>3
  <2> QED
    BY <1>1, <1>2, <1>3, <2>1 DEF JobsInv, CountersTold
<1>5. QueueTold'
  <2> DEFINE K == {i \in DOMAIN queue : queue[i] # j}
             n == Cardinality(K)
             D == DOMAIN jobs
  <2>1. queue \in Seq(D) /\ K \in SUBSET (DOMAIN queue)
    BY DEF JobsInv, QueueTold
  <2>2. queue' = Kept(queue, K)
    BY <1>1 DEF Detonation!Kept, Detonation!Nth, Kept, Nth, Detonation!Cardinality, Cardinality
  <2> HIDE DEF K, D
  <2>3. queue' \in Seq(D) /\ DOMAIN queue' = 1..n /\ n \in Nat
    <3>1. Kept(queue, K) \in Seq(D) /\ DOMAIN Kept(queue, K) = 1..n /\ n \in Nat
      BY <2>1, KeptInOrder
    <3> QED
      BY <2>2, <3>1
  <2>4. PICK e \in [1..n -> K] :
             /\ \A i, k \in 1..n : i < k => e[i] < e[k]
             /\ \A k \in K : \E i \in 1..n : e[i] = k
             /\ \A i \in 1..n : queue'[i] = queue[e[i]]
    <3>1. PICK e \in [1..n -> K] :
               /\ \A i, k \in 1..n : i < k => e[i] < e[k]
               /\ \A k \in K : \E i \in 1..n : e[i] = k
               /\ \A i \in 1..n : Kept(queue, K)[i] = queue[e[i]]
      BY <2>1, KeptInOrder
    <3> QED
      BY <2>2, <3>1
  <2> HIDE DEF n
  <2>5. \A i \in 1..n : e[i] \in DOMAIN queue /\ queue[e[i]] # j
    BY <2>4 DEF K
  <2>6. \A i, k \in 1..n : queue'[i] = queue'[k] => i = k
    <3> SUFFICES ASSUME NEW i \in 1..n, NEW k \in 1..n, queue'[i] = queue'[k] PROVE i = k
      OBVIOUS
    <3>1. e[i] = e[k]
      BY <2>4, <2>5 DEF JobsInv, QueueTold
    <3>2. e[i] \in Int /\ e[k] \in Int /\ i \in Int /\ k \in Int
      BY <2>3, <2>5, JobsIn
    <3>3. ~(i < k) /\ ~(k < i)
      BY <2>4, <3>1, <3>2
    <3> QED
      BY <3>2, <3>3
  <2>7. {queue'[i] : i \in 1..n} = {queue[i] : i \in DOMAIN queue} \ {j}
    <3>1. \A x \in {queue[i] : i \in DOMAIN queue} \ {j} : \E i \in 1..n : queue'[i] = x
      <4> SUFFICES ASSUME NEW k \in DOMAIN queue, queue[k] # j
                   PROVE  \E i \in 1..n : queue'[i] = queue[k]
        OBVIOUS
      <4>1. k \in K
        BY DEF K
      <4>2. PICK i \in 1..n : e[i] = k
        BY <2>4, <4>1
      <4> QED
        BY <2>4, <4>2
    <3>2. \A i \in 1..n : queue'[i] \in {queue[k] : k \in DOMAIN queue} \ {j}
      BY <2>4, <2>5
    <3> QED
      BY <3>1, <3>2
  <2>8. \A i, k \in 1..n : i < k /\ jobs'[queue'[k]].high => jobs'[queue'[i]].high
    <3> SUFFICES ASSUME NEW i \in 1..n, NEW k \in 1..n, i < k, jobs'[queue'[k]].high
                 PROVE  jobs'[queue'[i]].high
      OBVIOUS
    <3>1. e[i] \in DOMAIN queue /\ e[k] \in DOMAIN queue /\ e[i] < e[k]
      BY <2>4, <2>5
    <3>2. queue'[i] = queue[e[i]] /\ queue'[k] = queue[e[k]]
      BY <2>4
    <3>3. queue[e[i]] \in DOMAIN jobs /\ queue[e[k]] \in DOMAIN jobs
      BY <3>1, JobsIn
    <3>4. jobs[queue[e[k]]].high => jobs[queue[e[i]]].high
      BY <3>1 DEF JobsInv, QueueTold
    <3> QED
      BY <1>2, <3>2, <3>3, <3>4
  <2>9. queue' \in Seq(DOMAIN jobs') /\ DOMAIN queue' = 1..n
    BY <1>2, <2>3 DEF D
  <2>10. {queue'[i] : i \in 1..n} = DOMAIN jobs' \ (left' \cup cancelled')
    BY <1>1, <1>2, <2>7 DEF JobsInv, QueueTold
  <2> QED
    BY <2>6, <2>8, <2>9, <2>10 DEF QueueTold
<1> QED
  BY <1>2, <1>4, <1>5 DEF JobsInv

(* A new job waits, in front of all others or behind them.                 *)
LEMMA EnqueueJobStep ==
  ASSUME JobsInv, NEW high \in BOOLEAN, Detonation!EnqueueJob(high) PROVE JobsInv'
<1> DEFINE j == Len(jobs) + 1
           m == Len(queue)
<1>1. /\ jobs' = Append(jobs, [status |-> "Queued", high |-> high])
      /\ queue' = IF high THEN <<j>> \o queue ELSE Append(queue, j)
      /\ UNCHANGED <<totalProcessed, totalCompleted, totalFailed, left, started, timedOut, cancelled>>
  BY DEF Detonation!EnqueueJob, Detonation!counters, Detonation!history
<1>2. /\ DOMAIN jobs = 1..Len(jobs) /\ Len(jobs) \in Nat /\ m \in Nat /\ DOMAIN queue = 1..m
      /\ \A i \in DOMAIN queue : queue[i] \in DOMAIN jobs
      /\ queue \in Seq(DOMAIN jobs) /\ jobs \in Seq(JobRecord)
  BY JobsIn DEF JobsInv, QueueTold
<1>3. [status |-> "Queued", high |-> high] \in JobRecord
  BY DEF JobRecord, Statuses
<1>4. /\ jobs' \in Seq(JobRecord) /\ DOMAIN jobs' = DOMAIN jobs \cup {j} /\ j \notin DOMAIN jobs
      /\ \A k \in DOMAIN jobs : jobs'[k] = jobs[k]
      /\ jobs'[j] = [status |-> "Queued", high |-> high]
  BY <1>1, <1>2, <1>3
<1> HIDE DEF j, m
<1>5. jobs'[j].status = "Queued" /\ jobs'[j].high = high
  BY <1>4
<1>6. /\ With("Queued")' = With("Queued") \cup {j}
      /\ \A t : t # "Queued" => With(t)' = With(t)
  BY <1>4, <1>5 DEF With
<1>7. CountersTold'
  <2>1. With("Running")' = With("Running") /\ With("Completed")' = With("Completed")
        /\ With("Failed")' = With("Failed")
    BY <1>6
  <2>2. j \notin started
    BY <1>4 DEF JobsInv, CountersTold
  <2> QED
    BY <1>1, <1>4, <1>6, <2>1, <2>2 DEF JobsInv, CountersTold
<1>8. QueueTold'
  <2>0. {queue[i] : i \in DOMAIN queue} \cup {j} = DOMAIN jobs' \ (left' \cup cancelled')
    <3>1. j \notin left /\ j \notin cancelled
      BY <1>4 DEF JobsInv, CountersTold
    <3>2. {queue[i] : i \in DOMAIN queue} = DOMAIN jobs \ (left \cup cancelled)
      BY DEF JobsInv, QueueTold
    <3> QED
      BY <1>1, <1>4, <3>1, <3>2
  <2>1. CASE high
    <3>1. /\ queue' \in Seq(DOMAIN jobs') /\ DOMAIN queue' = 1..(m + 1)
          /\ \A i \in 1..(m + 1) : queue'[i] = IF i = 1 THEN j ELSE queue[i - 1]
      <4>1. /\ <<j>> \in Seq(DOMAIN jobs') /\ queue \in Seq(DOMAIN jobs')
            /\ Len(<<j>>) = 1 /\ <<j>>[1] = j
        BY <1>2, <1>4
      <4>2. /\ <<j>> \o queue \in Seq(DOMAIN jobs') /\ Len(<<j>> \o queue) = 1 + m
            /\ \A i \in 1..(1 + m) : (<<j>> \o queue)[i] = IF i <= 1 THEN <<j>>[i] ELSE queue[i - 1]
        BY <4>1, ConcatProperties DEF m
      <4>3. \A i \in 1..(m + 1) : i <= 1 <=> i = 1
        BY <1>2
      <4> QED
        BY <1>1, <1>2, <2>1, <4>1, <4>2, <4>3
    <3>2. \A i, k \in 1..(m + 1) : queue'[i] = queue'[k] => i = k
      <4>1. \A i \in 1..(m + 1) : i # 1 => /\ i - 1 \in DOMAIN queue /\ queue[i - 1] # j
                                            /\ queue'[i] = queue[i - 1]
        BY <1>2, <1>4, <3>1
      <4> SUFFICES ASSUME NEW i \in 1..(m + 1), NEW k \in 1..(m + 1), queue'[i] = queue'[k]
                   PROVE  i = k
        OBVIOUS
      <4>2. CASE i = 1 \/ k = 1
        <5>1. queue'[1] = j
          BY <1>2, <3>1
        <5> QED
          BY <4>1, <4>2, <5>1
      <4>3. CASE i # 1 /\ k # 1
        <5>1. i - 1 = k - 1
          BY <4>1, <4>3 DEF JobsInv, QueueTold
        <5> QED
          BY <1>2, <5>1
      <4> QED
        BY <4>2, <4>3
    <3>3. {queue'[i] : i \in 1..(m + 1)} = {queue[i] : i \in DOMAIN queue} \cup {j}
      <4>1. \A k \in DOMAIN queue : k + 1 \in 1..(m + 1) /\ queue'[k + 1] = queue[k]
        BY <1>2, <3>1
      <4>2. 1 \in 1..(m + 1) /\ queue'[1] = j
        BY <1>2, <3>1
      <4>3. \A i \in 1..(m + 1) : i # 1 => i - 1 \in DOMAIN queue /\ queue'[i] = queue[i - 1]
        BY <1>2, <3>1
      <4> QED
        BY <4>1, <4>2, <4>3
    <3>4. \A i, k \in 1..(m + 1) : i < k /\ jobs'[queue'[k]].high => jobs'[queue'[i]].high
      <4> SUFFICES ASSUME NEW i \in 1..(m + 1), NEW k \in 1..(m + 1), i < k, jobs'[queue'[k]].high
                   PROVE  jobs'[queue'[i]].high
        OBVIOUS
      <4>1. CASE i = 1
        BY <1>5, <2>1, <3>1, <4>1
      <4>2. CASE i # 1
        <5>1. i - 1 \in DOMAIN queue /\ k - 1 \in DOMAIN queue /\ i - 1 < k - 1 /\ k # 1
          BY <1>2, <4>2
        <5>2. queue'[i] = queue[i - 1] /\ queue'[k] = queue[k - 1]
          BY <3>1, <4>2, <5>1
        <5>3. queue[i - 1] \in DOMAIN jobs /\ queue[k - 1] \in DOMAIN jobs
          BY <1>2, <5>1
        <5>4. jobs[queue[k - 1]].high => jobs[queue[i - 1]].high
          BY <5>1 DEF JobsInv, QueueTold
        <5> QED
          BY <1>4, <5>2, <5>3, <5>4
      <4> QED
        BY <4>1, <4>2
    <3>5. {queue'[i] : i \in DOMAIN queue'} = DOMAIN jobs' \ (left' \cup cancelled')
      BY <2>0, <3>1, <3>3
    <3> QED
      BY <3>1, <3>2, <3>4, <3>5 DEF QueueTold
  <2>2. CASE ~high
    <3>1. /\ queue' \in Seq(DOMAIN jobs') /\ DOMAIN queue' = 1..(m + 1)
          /\ \A i \in 1..(m + 1) : queue'[i] = IF i = m + 1 THEN j ELSE queue[i]
      <4>1. queue \in Seq(DOMAIN jobs') /\ j \in DOMAIN jobs'
        BY <1>2, <1>4
      <4> QED
        BY <1>1, <1>2, <2>2, <4>1 DEF m
    <3>2. \A i \in 1..(m + 1) : i # m + 1 => i \in DOMAIN queue /\ queue[i] # j
      BY <1>2, <1>4
    <3>3. \A i, k \in 1..(m + 1) : queue'[i] = queue'[k] => i = k
      BY <3>1, <3>2 DEF JobsInv, QueueTold
    <3>4. {queue'[i] : i \in 1..(m + 1)} = {queue[i] : i \in DOMAIN queue} \cup {j}
      <4>1. \A k \in DOMAIN queue : k \in 1..(m + 1) /\ queue'[k] = queue[k]
        BY <1>2, <3>1
      <4>2. m + 1 \in 1..(m + 1) /\ queue'[m + 1] = j
        BY <1>2, <3>1
      <4>3. \A i \in 1..(m + 1) : i # m + 1 => i \in DOMAIN queue /\ queue'[i] = queue[i]
        BY <3>1, <3>2
      <4> QED
        BY <4>1, <4>2, <4>3
    <3>5. \A i, k \in 1..(m + 1) : i < k /\ jobs'[queue'[k]].high => jobs'[queue'[i]].high
      <4> SUFFICES ASSUME NEW i \in 1..(m + 1), NEW k \in 1..(m + 1), i < k, jobs'[queue'[k]].high
                   PROVE  jobs'[queue'[i]].high
        OBVIOUS
      <4>1. k # m + 1
        BY <1>5, <2>2, <3>1
      <4>2. i \in DOMAIN queue /\ k \in DOMAIN queue
        BY <1>2, <4>1
      <4>3. queue'[i] = queue[i] /\ queue'[k] = queue[k] /\ queue[i] \in DOMAIN jobs
            /\ queue[k] \in DOMAIN jobs
        BY <1>2, <3>1, <4>2
      <4>4. jobs[queue[k]].high => jobs[queue[i]].high
        BY <4>2 DEF JobsInv, QueueTold
      <4> QED
        BY <1>4, <4>3, <4>4
    <3>6. {queue'[i] : i \in DOMAIN queue'} = DOMAIN jobs' \ (left' \cup cancelled')
      BY <2>0, <3>1, <3>4
    <3> QED
      BY <3>1, <3>3, <3>5, <3>6 DEF QueueTold
  <2> QED
    BY <2>1, <2>2
<1> QED
  BY <1>4, <1>7, <1>8 DEF JobsInv

(* Jobs taken from the queue, one or all.                                  *)
LEMMA DequeueStep ==
  ASSUME JobsInv, Detonation!DequeueNextJob \/ Detonation!ClearQueue PROVE JobsInv'
<1>1. /\ UNCHANGED <<jobs, totalProcessed, totalCompleted, totalFailed, started, timedOut, cancelled>>
      /\ queue # <<>>
      /\ \/ queue' = Tail(queue) /\ left' = left \cup {Head(queue)}
         \/ queue' = <<>> /\ left' = left \cup {queue[i] : i \in DOMAIN queue}
  BY DEF Detonation!DequeueNextJob, Detonation!ClearQueue, Detonation!counters, Detonation!Range
<1> DEFINE m == Len(queue)
<1>2. /\ m \in Nat /\ DOMAIN queue = 1..m /\ queue \in Seq(DOMAIN jobs)
      /\ \A i \in DOMAIN queue : queue[i] \in DOMAIN jobs
  BY JobsIn DEF JobsInv, QueueTold
<1>3. m # 0
  BY <1>1, <1>2
<1>4. Head(queue) = queue[1] /\ 1 \in DOMAIN queue
  BY <1>1, <1>2, <1>3
<1>5. left' \subseteq DOMAIN jobs
  BY <1>1, <1>2, <1>4 DEF JobsInv, CountersTold
<1>6. CountersTold'
  BY <1>1, <1>5 DEF JobsInv, CountersTold, With
<1>7. QueueTold'
  <2>1. CASE queue' = <<>> /\ left' = left \cup {queue[i] : i \in DOMAIN queue}
    <3>1. queue' \in Seq(DOMAIN jobs') /\ DOMAIN queue' = {}
      BY <1>1, <2>1
    <3>2. DOMAIN jobs' \ (left' \cup cancelled') = {}
      BY <1>1, <2>1 DEF JobsInv, QueueTold
    <3> QED
      BY <3>1, <3>2 DEF QueueTold
  <2>2. CASE queue' = Tail(queue) /\ left' = left \cup {Head(queue)}
    <3>1. /\ queue' \in Seq(DOMAIN jobs) /\ DOMAIN queue' = 1..(m - 1)
          /\ \A i \in 1..(m - 1) : i + 1 \in DOMAIN queue /\ queue'[i] = queue[i + 1]
      BY <1>1, <1>2, <1>3, <2>2
    <3> HIDE DEF m
    <3>2. \A i, k \in 1..(m - 1) : queue'[i] = queue'[k] => i = k
      <4> SUFFICES ASSUME NEW i \in 1..(m - 1), NEW k \in 1..(m - 1), queue'[i] = queue'[k]
                   PROVE  i = k
        OBVIOUS
      <4>1. i + 1 = k + 1
        BY <3>1 DEF JobsInv, QueueTold
      <4> QED
        BY <1>2, <4>1
    <3>3. {queue'[i] : i \in 1..(m - 1)} = {queue[i] : i \in DOMAIN queue} \ {queue[1]}
      <4>1. \A k \in DOMAIN queue : k = 1 \/ (k - 1 \in 1..(m - 1) /\ queue'[k - 1] = queue[k])
        <5> SUFFICES ASSUME NEW k \in DOMAIN queue, k # 1
                     PROVE  k - 1 \in 1..(m - 1) /\ queue'[k - 1] = queue[k]
          OBVIOUS
        <5>1. k - 1 \in 1..(m - 1) /\ (k - 1) + 1 = k
          BY <1>2
        <5> QED
          BY <3>1, <5>1
      <4>2. \A i \in 1..(m - 1) : queue[i + 1] # queue[1]
        <5> SUFFICES ASSUME NEW i \in 1..(m - 1), queue[i + 1] = queue[1] PROVE FALSE
          OBVIOUS
        <5>1. i + 1 = 1
          BY <1>4, <3>1 DEF JobsInv, QueueTold
        <5> QED
          BY <1>2, <5>1
      <4>3. \A i \in 1..(m - 1) : queue'[i] \in {queue[k] : k \in DOMAIN queue} \ {queue[1]}
        BY <3>1, <4>2
      <4>4. \A x \in {queue[k] : k \in DOMAIN queue} \ {queue[1]} : \E i \in 1..(m - 1) : queue'[i] = x
        BY <4>1
      <4> QED
        BY <4>3, <4>4
    <3>4. \A i, k \in 1..(m - 1) : i < k /\ jobs[queue'[k]].high => jobs[queue'[i]].high
      <4> SUFFICES ASSUME NEW i \in 1..(m - 1), NEW k \in 1..(m - 1), i < k, jobs[queue'[k]].high
                   PROVE  jobs[queue'[i]].high
        OBVIOUS
      <4>1. i + 1 < k + 1 /\ i + 1 \in DOMAIN queue /\ k + 1 \in DOMAIN queue
        BY <1>2, <3>1
      <4> QED
        BY <3>1, <4>1 DEF JobsInv, QueueTold
    <3>5. {queue'[i] : i \in DOMAIN queue'} = DOMAIN jobs' \ (left' \cup cancelled')
      BY <1>1, <1>4, <2>2, <3>1, <3>3 DEF JobsInv, QueueTold
    <3>6. jobs' = jobs
      BY <1>1
    <3> QED
      BY <3>1, <3>2, <3>4, <3>5, <3>6 DEF QueueTold
  <2> QED
    BY <1>1, <2>1, <2>2
<1> QED
  BY <1>1, <1>6, <1>7 DEF JobsInv

LEMMA JobsStep == ASSUME JobsInv, Detonation!Next PROVE JobsInv'
  BY EnqueueJobStep, StartJobStep, CompleteJobStep, FailJobStep, CancelJobStep, TimeoutJobStep,
     DequeueStep DEF Detonation!Next

LEMMA JobsInit == ASSUME Detonation!Init PROVE JobsInv
<1>1. /\ jobs = <<>> /\ queue = <<>> /\ left = {} /\ started = {} /\ timedOut = {} /\ cancelled = {}
      /\ totalProcessed = 0 /\ totalCompleted = 0 /\ totalFailed = 0
  BY DEF Detonation!Init
<1>2. \A s : With(s) = {}
  BY <1>1 DEF With
<1>3. Cardinality({}) = 0
  BY FS_EmptySet
<1>4. jobs \in Seq(JobRecord) /\ queue \in Seq(DOMAIN jobs) /\ DOMAIN queue = {} /\ DOMAIN jobs = {}
  BY <1>1
<1>5. CountersTold
  <2>1. /\ With("Completed") = {} /\ With("Running") = {} /\ With("Queued") = {}
        /\ With("Failed") = {} /\ With("Failed") \ cancelled = {}
    BY <1>2
  <2>2. Cardinality(started) = 0 /\ Cardinality(timedOut) = 0 /\ Cardinality(With("Completed")) = 0
        /\ Cardinality(With("Failed") \ cancelled) = 0
    BY <1>1, <1>3, <2>1
  <2> QED
    BY <1>1, <2>1, <2>2 DEF CountersTold
<1> QED
  BY <1>1, <1>4, <1>5 DEF JobsInv, QueueTold

(* The queue, the statuses and the counters of the detonation jobs agree,  *)
(* however calls that change one of them each are mixed.                   *)
THEOREM JobsAccountedHolds == Spec => []JobsAccounted
<1>1. Init => JobsInv
  BY JobsInit DEF Init
<1>2. JobsInv /\ [Next]_services => JobsInv'
  <2> SUFFICES ASSUME JobsInv, [Next]_services PROVE JobsInv'
    OBVIOUS
  <2>1. CASE Detonation!Next
    BY <2>1, JobsStep
  <2>2. CASE UNCHANGED detonationVars
    BY <2>2 DEF detonationVars, JobsInv, CountersTold, QueueTold, With
  <2> QED
    BY <2>1, <2>2 DEF Next, ServiceStep, PluginStep, RemoteStep, WatchStep, services, serviceSide
<1>3. JobsInv => JobsAccounted
  BY JobsImply DEF JobsAccounted
<1> QED
  BY <1>1, <1>2, <1>3, PTL DEF Spec
-----------------------------------------------------------------------------
(* The audit log.                                                          *)

Audited == [id : 1..MaxEvents, previous : 0..MaxEvents, time : 0..MaxTime]

(* Entries s in the order of their ids, each chained to the one that was   *)
(* the last when it was logged; start is the first since the log was       *)
(* empty.  Unless the clock was set back, only old entries have gone: the  *)
(* rest are all that were logged from some one on.                         *)
Chained(s, next, start) ==
  /\ s \in Seq(Audited)
  /\ \A i, j \in DOMAIN s : i < j => s[i].id < s[j].id /\ s[i].id <= s[j].previous
  /\ \A i \in DOMAIN s : /\ start <= s[i].id /\ s[i].id < next /\ s[i].previous < s[i].id
                         /\ (s[i].previous = 0) <=> (s[i].id = start)

Unbroken(s, next, until) ==
  /\ \A i, j \in DOMAIN s : i < j => s[i].time <= s[j].time
  /\ \A i \in DOMAIN s : s[i].time <= until
  /\ \A i \in DOMAIN s : i < Len(s) => s[i + 1].id = s[i].id + 1
  /\ s # <<>> => s[Len(s)].id = next - 1

AuditInv ==
  /\ nextId \in 1..MaxEvents + 1 /\ first \in 1..MaxEvents + 1
  /\ policy \in Policies /\ now \in 0..MaxTime /\ setBack \in BOOLEAN
  /\ Chained(entries, nextId, first)
  /\ ~setBack => Unbroken(entries, nextId, now)

LEMMA AuditConstants ==
  /\ MaxEvents \in Nat /\ MaxTime \in Nat
  /\ \A p \in Policies : p.maxAge \in Int /\ p.maxEntries \in Nat
  BY ServiceConstants DEF Audit!AuditAssumption

LEMMA EntriesOf ==
  ASSUME NEW s \in Seq(Audited)
  PROVE  /\ Len(s) \in Nat /\ DOMAIN s = 1..Len(s)
         /\ \A i \in DOMAIN s : /\ s[i] \in Audited /\ s[i].id \in Nat /\ s[i].previous \in Nat
                                /\ s[i].time \in Nat
<1>1. Len(s) \in Nat /\ DOMAIN s = 1..Len(s) /\ \A i \in DOMAIN s : s[i] \in Audited
  OBVIOUS
<1> QED
  BY <1>1, AuditConstants DEF Audited

(* What keeps some entries, in order, keeps the chain; what keeps the last *)
(* ones keeps it unbroken.                                                 *)
LEMMA ChainedPart ==
  ASSUME NEW s \in Seq(Audited), NEW r \in Seq(Audited), NEW next, NEW start,
         NEW g \in [DOMAIN r -> DOMAIN s], \A i \in DOMAIN r : r[i] = s[g[i]],
         \A i, j \in DOMAIN r : i < j => g[i] < g[j],
         Chained(s, next, start)
  PROVE  /\ Chained(r, next, start)
         /\ \A until : /\ Unbroken(s, next, until) /\ (r # <<>> => g[Len(r)] = Len(s))
                       /\ \A i \in DOMAIN r : i < Len(r) => g[i + 1] = g[i] + 1
                       => Unbroken(r, next, until)
<1>1. \A i \in DOMAIN r : g[i] \in DOMAIN s
  OBVIOUS
<1>2. Len(r) \in Nat /\ DOMAIN r = 1..Len(r) /\ Len(s) \in Nat /\ DOMAIN s = 1..Len(s)
  OBVIOUS
<1>3. Chained(r, next, start)
  BY <1>1 DEF Chained
<1>4. ASSUME NEW until, Unbroken(s, next, until),
             \A i \in DOMAIN r : i < Len(r) => g[i + 1] = g[i] + 1,
             r # <<>> => g[Len(r)] = Len(s)
      PROVE  Unbroken(r, next, until)
  <2>1. \A i, j \in DOMAIN r : i < j => r[i].time <= r[j].time
    BY <1>1, <1>4 DEF Unbroken
  <2>2. \A i \in DOMAIN r : r[i].time <= until
    BY <1>1, <1>4 DEF Unbroken
  <2>3. ASSUME NEW i \in DOMAIN r, i < Len(r) PROVE r[i + 1].id = r[i].id + 1
    <3>1. i + 1 \in DOMAIN r /\ g[i + 1] = g[i] + 1
      BY <1>2, <1>4, <2>3
    <3>2. g[i] \in DOMAIN s /\ g[i] + 1 \in DOMAIN s /\ g[i] < Len(s)
      BY <1>1, <1>2, <3>1
    <3> QED
      BY <1>4, <3>1, <3>2 DEF Unbroken
  <2>4. ASSUME r # <<>> PROVE r[Len(r)].id = next - 1
    <3>1. Len(r) \in DOMAIN r
      BY <1>2, <2>4
    <3>2. s # <<>>
      BY <1>1, <1>2, <3>1
    <3> QED
      BY <1>4, <2>4, <3>1, <3>2 DEF Unbroken
  <2> QED
    BY <2>1, <2>2, <2>3, <2>4 DEF Unbroken
<1> QED
  BY <1>3, <1>4

(* Among entries in the order of their times the old ones come first.      *)
LEMMA YoungOnes ==
  ASSUME NEW s \in Seq(Audited), NEW K \in SUBSET (DOMAIN s), NEW next, NEW start,
         Chained(s, next, start)
  PROVE  LET y == Kept(s, K) IN
         /\ y \in Seq(Audited) /\ Chained(y, next, start)
         /\ \A until : Unbroken(s, next, until) /\ (\A i, j \in DOMAIN s : i < j /\ i \in K => j \in K)
                       => Unbroken(y, next, until)
<1> DEFINE y == Kept(s, K)
           n == Cardinality(K)
<1>1. y \in Seq(Audited) /\ Len(y) = n /\ DOMAIN y = 1..n /\ n \in Nat
  BY KeptInOrder
<1>2. PICK e \in [1..n -> K] :
           /\ \A i, j \in 1..n : i < j => e[i] < e[j]
           /\ \A k \in K : \E i \in 1..n : e[i] = k
           /\ \A i \in 1..n : y[i] = s[e[i]]
  BY KeptInOrder
<1> HIDE DEF y, n
<1>3. Len(s) \in Nat /\ DOMAIN s = 1..Len(s) /\ e \in [DOMAIN y -> DOMAIN s]
  BY <1>1, <1>2
<1>4. \A i \in 1..n : e[i] \in Int /\ e[i] \in K
  BY <1>2, <1>3
<1>5. Chained(y, next, start)
  BY <1>1, <1>2, <1>3, ChainedPart
<1>6. ASSUME NEW until, Unbroken(s, next, until), \A i, j \in DOMAIN s : i < j /\ i \in K => j \in K
      PROVE  Unbroken(y, next, until)
  <2>1. ASSUME NEW i \in DOMAIN y, i < Len(y) PROVE e[i + 1] = e[i] + 1
    <3>1. i + 1 \in 1..n /\ i \in 1..n
      BY <1>1, <2>1
    <3>2. e[i] < e[i + 1]
      BY <1>2, <3>1
    <3>3. e[i] + 1 \in DOMAIN s /\ e[i] \in DOMAIN s /\ e[i] < e[i] + 1
      BY <1>3, <1>4, <3>1, <3>2
    <3>4. e[i] + 1 \in K
      BY <1>4, <1>6, <3>1, <3>3
    <3>5. PICK j \in 1..n : e[j] = e[i] + 1
      BY <1>2, <3>4
    <3>6. ~(j < i) /\ j # i
      <4>1. j < i => e[j] < e[i]
        BY <1>2, <3>1
      <4> QED
        BY <1>4, <3>1, <3>5, <4>1
    <3>7. ~(i + 1 < j)
      <4>1. i + 1 < j => e[i + 1] < e[j]
        BY <1>2, <3>1
      <4> QED
        BY <1>4, <3>1, <3>2, <3>5, <4>1
    <3>8. j = i + 1
      BY <1>1, <3>1, <3>6, <3>7
    <3> QED
      BY <3>5, <3>8
  <2>2. ASSUME y # <<>> PROVE e[Len(y)] = Len(s)
    <3>1. n \in 1..n
      BY <1>1, <2>2
    <3>2. e[n] = Len(s) \/ (e[n] < Len(s) /\ Len(s) \in DOMAIN s /\ e[n] \in DOMAIN s)
      BY <1>3, <1>4, <3>1
    <3>3. CASE e[n] < Len(s) /\ Len(s) \in DOMAIN s /\ e[n] \in DOMAIN s
      <4>1. Len(s) \in K
        BY <1>4, <1>6, <3>1, <3>3
      <4>2. PICK j \in 1..n : e[j] = Len(s)
        BY <1>2, <4>1
      <4>3. j < n => e[j] < e[n]
        BY <1>2, <3>1
      <4> QED
        BY <1>1, <1>3, <1>4, <3>1, <3>3, <4>2, <4>3
    <3> QED
      BY <1>1, <3>2, <3>3
  <2>3. \A c : /\ Unbroken(s, next, c) /\ (y # <<>> => e[Len(y)] = Len(s))
               /\ \A i \in DOMAIN y : i < Len(y) => e[i + 1] = e[i] + 1
               => Unbroken(y, next, c)
    <3>1. y \in Seq(Audited) /\ e \in [DOMAIN y -> DOMAIN s]
      BY <1>1, <1>3
    <3>2. /\ \A i \in DOMAIN y : y[i] = s[e[i]]
          /\ \A i, j \in DOMAIN y : i < j => e[i] < e[j]
      BY <1>1, <1>2
    <3> QED
      BY <3>1, <3>2, ChainedPart, Zenon
  <2> QED
    BY <1>6, <2>1, <2>2, <2>3
<1> QED
  BY <1>1, <1>5, <1>6 DEF y

(* enforceRetention() takes the old ones and then the first ones.          *)
LEMMA RetainedChain ==
  ASSUME policy \in Policies, now \in Nat, NEW s \in Seq(Audited), NEW next, NEW start,
         Chained(s, next, start)
  PROVE  /\ Chained(Audit!Retained(s), next, start)
         /\ Unbroken(s, next, now) => Unbroken(Audit!Retained(s), next, now)
<1> DEFINE K == {i \in DOMAIN s : now - s[i].time <= policy.maxAge}
           y == Kept(s, K)
           x == Len(y) - policy.maxEntries
<1>1. Audit!Retained(s) = IF ~policy.enabled THEN s
                          ELSE IF x > 0 THEN SubSeq(y, x + 1, Len(y)) ELSE y
  <2>1. y = Audit!Kept(s, K)
    BY DEF Audit!Kept, Audit!Nth, Kept, Nth, Audit!Cardinality, Cardinality
  <2> QED
    BY <2>1 DEF Audit!Retained
<1>2. K \in SUBSET (DOMAIN s)
  OBVIOUS
<1>3. Unbroken(s, next, now) => \A i, j \in DOMAIN s : i < j /\ i \in K => j \in K
  <2>1. policy.maxAge \in Int /\ \A i \in DOMAIN s : s[i].time \in Nat
    BY AuditConstants, EntriesOf
  <2> QED
    BY <2>1 DEF Unbroken
<1> HIDE DEF K
<1>4. /\ y \in Seq(Audited) /\ Chained(y, next, start)
      /\ Unbroken(s, next, now) => Unbroken(y, next, now)
  BY <1>2, <1>3, YoungOnes
<1> HIDE DEF y
<1>5. ASSUME x > 0 PROVE LET r == SubSeq(y, x + 1, Len(y)) IN
                         Chained(r, next, start) /\ (Unbroken(y, next, now) => Unbroken(r, next, now))
  <2> DEFINE r == SubSeq(y, x + 1, Len(y))
             g == [i \in DOMAIN r |-> x + i]
             m == policy.maxEntries
  <2>1. m \in Nat /\ Len(y) \in Nat /\ x \in Nat /\ x + 1 \in Int /\ m = Len(y) - x
    BY <1>4, <1>5, AuditConstants
  <2>2. r \in Seq(Audited) /\ Len(r) = m /\ \A i \in 1..m : r[i] = y[x + i]
    <3>1. Len(r) = IF x + 1 <= Len(y) THEN Len(y) - (x + 1) + 1 ELSE 0
      BY <1>4, <1>5, <2>1
    <3> QED
      BY <1>4, <1>5, <2>1, <3>1
  <2>3. DOMAIN r = 1..m /\ DOMAIN y = 1..Len(y)
    BY <1>4, <2>1, <2>2
  <2>4. \A i \in 1..m : x + i \in DOMAIN y
    <3> HIDE DEF x, m
    <3> QED
      BY <2>1, <2>3
  <2> HIDE DEF r, x, m
  <2>5. /\ g \in [DOMAIN r -> DOMAIN y] /\ \A i \in DOMAIN r : g[i] = x + i
    BY <2>3, <2>4
  <2> HIDE DEF g
  <2>6. /\ \A i \in DOMAIN r : r[i] = y[g[i]]
        /\ \A i, j \in DOMAIN r : i < j => g[i] < g[j]
        /\ \A i \in DOMAIN r : i < Len(r) => g[i + 1] = g[i] + 1
    BY <2>1, <2>2, <2>3, <2>5
  <2>7. r # <<>> => g[Len(r)] = Len(y)
    BY <2>1, <2>2, <2>3, <2>5
  <2>8. Chained(r, next, start) /\ (Unbroken(y, next, now) => Unbroken(r, next, now))
    BY <1>4, <2>2, <2>5, <2>6, <2>7, ChainedPart
  <2> QED
    BY <2>8 DEF r
<1> HIDE DEF x
<1> QED
  BY <1>1, <1>4, <1>5

LEMMA LogEventStep == ASSUME AuditInv, Audit!LogEvent PROVE AuditInv'
<1> DEFINE e == [id |-> nextId, previous |-> Audit!Latest(entries), time |-> now]
           logged == Append(entries, e)
           n == Len(entries)
<1>1. /\ nextId <= MaxEvents /\ nextId' = nextId + 1
      /\ entries' = IF Len(logged) > policy.maxEntries THEN Audit!Retained(logged) ELSE logged
      /\ first' = IF entries = <<>> THEN nextId ELSE first
      /\ UNCHANGED <<policy, now, setBack>>
  BY DEF Audit!LogEvent
<1>2. /\ n \in Nat /\ DOMAIN entries = 1..n /\ entries \in Seq(Audited)
      /\ \A i \in DOMAIN entries : /\ entries[i] \in Audited /\ entries[i].id \in Nat
                                   /\ entries[i].previous \in Nat /\ entries[i].time \in Nat
  BY EntriesOf DEF AuditInv, Chained
<1>3. /\ Chained(entries, nextId, first) /\ nextId \in Nat /\ nextId >= 1 /\ first \in Nat /\ first >= 1
      /\ now \in Nat /\ MaxEvents \in Nat /\ MaxTime \in Nat /\ now <= MaxTime /\ first <= MaxEvents + 1
  BY AuditConstants DEF AuditInv
<1>4. /\ e.id = nextId /\ e.time = now
      /\ e.previous = IF entries = <<>> THEN 0 ELSE entries[n].id
  BY DEF Audit!Latest
<1>5. entries # <<>> => n \in DOMAIN entries /\ entries[n].id < nextId /\ entries[n].id >= first
  BY <1>2, <1>3 DEF Chained
<1>6. e.previous \in Nat /\ e.previous < nextId /\ (e.previous = 0 <=> nextId = first')
  <2>1. CASE entries = <<>>
    BY <1>1, <1>3, <1>4, <2>1
  <2>2. CASE entries # <<>>
    <3>1. e.previous = entries[n].id /\ first' = first
      BY <1>1, <1>4, <2>2
    <3> QED
      BY <1>2, <1>3, <1>5, <2>2, <3>1
  <2> QED
    BY <2>1, <2>2
<1>7. e \in Audited
  BY <1>1, <1>3, <1>4, <1>6 DEF Audited
<1> HIDE DEF e
<1>8. /\ logged \in Seq(Audited) /\ Len(logged) = n + 1 /\ DOMAIN logged = 1..(n + 1)
      /\ \A i \in DOMAIN entries : logged[i] = entries[i]
      /\ logged[n + 1] = e
  BY <1>2, <1>7
<1>9. \A i \in 1..(n + 1) : i = n + 1 \/ i \in DOMAIN entries
  BY <1>2
<1> HIDE DEF logged, n
<1>10. Chained(logged, nextId + 1, first')
  <2>1. ASSUME NEW i \in 1..(n + 1), NEW j \in 1..(n + 1), i < j
        PROVE  logged[i].id < logged[j].id /\ logged[i].id <= logged[j].previous
    <3>1. i \in DOMAIN entries
      BY <1>2, <2>1
    <3>2. CASE j \in DOMAIN entries
      BY <1>3, <1>8, <2>1, <3>1, <3>2 DEF Chained
    <3>3. CASE j = n + 1
      <4>1. entries[i].id < nextId /\ entries # <<>>
        BY <1>2, <1>3, <3>1 DEF Chained
      <4>2. i = n \/ (i < n /\ n \in DOMAIN entries)
        BY <1>2, <3>1 DEF n
      <4>3. entries[i].id <= entries[n].id
        <5>1. i < n /\ n \in DOMAIN entries => entries[i].id < entries[n].id
          BY <1>3, <3>1 DEF Chained
        <5>2. n \in DOMAIN entries /\ entries[i].id \in Nat /\ entries[n].id \in Nat
          BY <1>2, <1>5, <3>1, <4>1
        <5> QED
          BY <4>2, <5>1, <5>2
      <4> QED
        BY <1>4, <1>8, <3>1, <3>3, <4>1, <4>3
    <3> QED
      BY <1>9, <3>2, <3>3
  <2>2. ASSUME NEW i \in 1..(n + 1)
        PROVE  /\ first' <= logged[i].id /\ logged[i].id < nextId + 1
               /\ logged[i].previous < logged[i].id
               /\ (logged[i].previous = 0) <=> (logged[i].id = first')
    <3>1. CASE i = n + 1
      <4>1. first' <= nextId
        <5>1. entries # <<>> => first < nextId
          BY <1>2, <1>3, <1>5
        <5> QED
          BY <1>1, <1>3, <5>1
      <4> QED
        BY <1>3, <1>4, <1>6, <1>8, <3>1, <4>1
    <3>2. CASE i \in DOMAIN entries
      <4>1. entries # <<>> /\ first' = first
        BY <1>1, <1>2, <3>2
      <4> QED
        BY <1>2, <1>3, <1>8, <3>2, <4>1 DEF Chained
    <3> QED
      BY <1>9, <3>1, <3>2
  <2> QED
    BY <1>8, <2>1, <2>2 DEF Chained
<1>11. ASSUME Unbroken(entries, nextId, now) PROVE Unbroken(logged, nextId + 1, now)
  <2>1. \A i \in 1..(n + 1) : logged[i].time <= now
    BY <1>3, <1>4, <1>8, <1>9, <1>11 DEF Unbroken
  <2>2. ASSUME NEW i \in 1..(n + 1), NEW j \in 1..(n + 1), i < j
        PROVE  logged[i].time <= logged[j].time
    <3>1. i \in DOMAIN entries
      BY <1>2, <2>2
    <3>2. CASE j = n + 1
      BY <1>4, <1>8, <2>1, <3>2
    <3>3. CASE j \in DOMAIN entries
      BY <1>8, <1>11, <2>2, <3>1, <3>3 DEF Unbroken
    <3> QED
      BY <1>9, <3>2, <3>3
  <2>3. ASSUME NEW i \in 1..(n + 1), i < n + 1 PROVE logged[i + 1].id = logged[i].id + 1
    <3>1. i \in DOMAIN entries /\ i + 1 \in 1..(n + 1)
      BY <1>2, <2>3
    <3>2. CASE i = n
      <4>1. entries # <<>>
        BY <1>2, <3>1
      <4>2. entries[n].id = nextId - 1
        BY <1>11, <4>1 DEF Unbroken, n
      <4> QED
        BY <1>3, <1>4, <1>8, <3>1, <3>2, <4>2
    <3>3. CASE i # n
      <4>1. i < n /\ i + 1 \in DOMAIN entries
        BY <1>2, <3>1, <3>3
      <4> QED
        BY <1>8, <1>11, <3>1, <4>1 DEF Unbroken, n
    <3> QED
      BY <3>2, <3>3
  <2>4. logged[Len(logged)].id = (nextId + 1) - 1
    BY <1>3, <1>4, <1>8
  <2> QED
    BY <1>8, <2>1, <2>2, <2>3, <2>4 DEF Unbroken
<1>12. /\ Chained(Audit!Retained(logged), nextId + 1, first')
       /\ Unbroken(logged, nextId + 1, now) => Unbroken(Audit!Retained(logged), nextId + 1, now)
  BY <1>3, <1>8, <1>10, RetainedChain DEF AuditInv
<1>13. Chained(entries', nextId', first')
  BY <1>1, <1>10, <1>12
<1>14. ~setBack' => Unbroken(entries', nextId', now')
  BY <1>1, <1>11, <1>12 DEF AuditInv
<1>15. /\ nextId' \in 1..MaxEvents + 1 /\ first' \in 1..MaxEvents + 1
  BY <1>1, <1>3
<1> QED
  BY <1>1, <1>13, <1>14, <1>15 DEF AuditInv

LEMMA AuditStep == ASSUME AuditInv, Audit!Next PROVE AuditInv'
<1>1. CASE Audit!EnforceRetention
  <2>1. entries' = Audit!Retained(entries) /\ UNCHANGED <<nextId, policy, now, first, setBack>>
    BY <1>1 DEF Audit!EnforceRetention
  <2>2. now \in Nat /\ entries \in Seq(Audited)
    BY AuditConstants DEF AuditInv, Chained
  <2>3. /\ Chained(Audit!Retained(entries), nextId, first)
        /\ Unbroken(entries, nextId, now) => Unbroken(Audit!Retained(entries), nextId, now)
    BY <2>2, RetainedChain DEF AuditInv
  <2> QED
    BY <2>1, <2>3 DEF AuditInv
<1>2. CASE Audit!ClockChanges
  <2>1. /\ now' \in 0..MaxTime /\ setBack' = (setBack \/ now' < now)
        /\ UNCHANGED <<entries, nextId, policy, first>>
    BY <1>2 DEF Audit!ClockChanges
  <2>2. ~setBack' => Unbroken(entries, nextId, now')
    <3> SUFFICES ASSUME ~setBack' PROVE Unbroken(entries, nextId, now')
      OBVIOUS
    <3>0. ~setBack /\ ~(now' < now)
      BY <2>1, Zenon
    <3>1. now <= now' /\ now \in Int /\ now' \in Int /\ Unbroken(entries, nextId, now)
      BY <2>1, <3>0, AuditConstants DEF AuditInv
    <3>2. \A i \in DOMAIN entries : entries[i].time \in Nat
      BY EntriesOf DEF AuditInv, Chained
    <3> QED
      BY <3>1, <3>2 DEF Unbroken
  <2>3. setBack' \in BOOLEAN
    BY <2>1
  <2> QED
    BY <2>1, <2>2, <2>3 DEF AuditInv
<1>3. ASSUME NEW p \in Policies, Audit!SetRetentionPolicy(p) PROVE AuditInv'
  BY <1>3 DEF Audit!SetRetentionPolicy, AuditInv
<1> QED
  BY <1>1, <1>2, <1>3, LogEventStep DEF Audit!Next

LEMMA AuditImplies == ASSUME AuditInv PROVE Audit!AuditTypeOK /\ Audit!ChainTellsHoles
<1> DEFINE n == Len(entries)
<1>1. /\ n \in Nat /\ DOMAIN entries = 1..n
      /\ \A i \in DOMAIN entries : entries[i].id \in Nat /\ entries[i].previous \in Nat
  BY EntriesOf DEF AuditInv, Chained
<1>2. Audit!AuditTypeOK
  BY DEF AuditInv, Audit!AuditTypeOK, Chained, Audited
<1>3. Chained(entries, nextId, first) /\ first \in Nat /\ nextId \in Nat /\ first >= 1
  BY AuditConstants DEF AuditInv
<1>4. \A i, j \in DOMAIN entries : i < j => entries[i].id < entries[j].id
  BY <1>3 DEF Chained
<1>5. ASSUME Audit!Complete PROVE Audit!ChainVerifies
  <2> SUFFICES ASSUME NEW i \in DOMAIN entries
               PROVE  entries[i].previous = IF i = 1 THEN 0 ELSE entries[i - 1].id
    BY DEF Audit!ChainVerifies
  <2>0. entries # <<>> /\ {entries[k].id : k \in DOMAIN entries} = first..(nextId - 1)
    BY <1>1, <1>5 DEF Audit!Complete, Audit!IdsOf
  <2>1. CASE i = 1
    <3>1. first <= entries[1].id /\ entries[1].id < nextId
      BY <1>3, <2>1 DEF Chained
    <3>2. first \in first..(nextId - 1)
      BY <1>1, <1>3, <2>1, <3>1
    <3>3. PICK k \in DOMAIN entries : entries[k].id = first
      BY <2>0, <3>2
    <3>4. k = 1
      <4>1. k = 1 \/ 1 < k
        BY <1>1
      <4> QED
        BY <1>1, <1>3, <1>4, <2>1, <3>1, <3>3, <4>1
    <3> QED
      BY <1>3, <2>1, <3>3, <3>4 DEF Chained
  <2>2. CASE i # 1
    <3>1. i - 1 \in DOMAIN entries /\ i - 1 < i
      BY <1>1, <2>2
    <3>2. /\ first <= entries[i - 1].id /\ entries[i - 1].id < entries[i].id
          /\ entries[i].id < nextId /\ entries[i].previous < entries[i].id
          /\ entries[i - 1].id <= entries[i].previous
      BY <1>3, <1>4, <3>1 DEF Chained
    <3>3. entries[i].id - 1 \in first..(nextId - 1)
      BY <1>1, <1>3, <3>1, <3>2
    <3>4. PICK k \in DOMAIN entries : entries[k].id = entries[i].id - 1
      BY <2>0, <3>3
    <3>5. k = i - 1
      <4>1. k < i - 1 => entries[k].id < entries[i - 1].id
        BY <1>4, <3>1
      <4>2. i < k => entries[i].id < entries[k].id
        BY <1>4
      <4>3. /\ entries[k].id \in Nat /\ entries[i].id \in Nat /\ entries[i - 1].id \in Nat
            /\ k \in Nat /\ i \in Nat
        BY <1>1, <3>1
      <4>4. ~(k < i - 1) /\ ~(i < k) /\ k # i
        BY <3>2, <3>4, <4>1, <4>2, <4>3
      <4> QED
        BY <4>3, <4>4
    <3> QED
      BY <1>1, <2>2, <3>1, <3>2, <3>4, <3>5
  <2> QED
    BY <2>1, <2>2
<1>6. ASSUME Audit!ChainVerifies, ~setBack PROVE Audit!Complete
  <2> SUFFICES ASSUME entries # <<>> PROVE {entries[k].id : k \in DOMAIN entries} = first..(nextId - 1)
    BY DEF Audit!Complete, Audit!IdsOf
  <2>1. 1 \in DOMAIN entries /\ n \in DOMAIN entries /\ Unbroken(entries, nextId, now)
    BY <1>1, <1>6 DEF AuditInv
  <2>2. entries[1].id = first /\ entries[n].id = nextId - 1
    BY <1>3, <1>6, <2>1 DEF Audit!ChainVerifies, Chained, Unbroken
  <2>3. \A k \in DOMAIN entries : entries[k].id \in first..(nextId - 1)
    BY <1>1, <1>3 DEF Chained
  <2>4. ASSUME NEW x \in first..(nextId - 1) PROVE \E k \in DOMAIN entries : entries[k].id = x
    <3> DEFINE S == {k \in DOMAIN entries : entries[k].id >= x}
    <3>1. S \in SUBSET (1..n) /\ n \in S
      BY <1>1, <1>3, <2>1, <2>2
    <3>2. PICK k \in S : \A l \in S : k <= l
      BY <1>1, <3>1, LeastExists
    <3>3. CASE k = 1
      BY <1>1, <1>3, <2>2, <3>3
    <3>4. CASE k # 1
      <4>1. k - 1 \in DOMAIN entries /\ k - 1 \notin S /\ k - 1 < n /\ k - 1 < Len(entries)
        BY <1>1, <3>2, <3>4
      <4>2. entries[(k - 1) + 1].id = entries[k - 1].id + 1
        BY <2>1, <4>1 DEF Unbroken
      <4>3. (k - 1) + 1 = k /\ entries[k - 1].id < x
        BY <1>1, <1>3, <4>1
      <4> QED
        BY <1>1, <1>3, <3>2, <4>1, <4>2, <4>3
    <3> QED
      BY <3>3, <3>4
  <2> QED
    BY <2>3, <2>4
<1> QED
  BY <1>2, <1>4, <1>5, <1>6 DEF Audit!ChainTellsHoles

LEMMA AuditInit == ASSUME Audit!Init PROVE AuditInv
<1>1. /\ entries = <<>> /\ nextId = 1 /\ first = 1 /\ now = 0 /\ setBack = FALSE /\ policy \in Policies
  BY DEF Audit!Init
<1>2. entries \in Seq(Audited) /\ DOMAIN entries = {}
  BY <1>1
<1>3. Chained(entries, nextId, first) /\ Unbroken(entries, nextId, now)
  BY <1>1, <1>2 DEF Chained, Unbroken
<1>4. nextId \in 1..MaxEvents + 1 /\ now \in 0..MaxTime
  BY <1>1, AuditConstants
<1> QED
  BY <1>1, <1>3, <1>4 DEF AuditInv

(* The audit log stays in order, verifyChainIntegrity() accepts a log from *)
(* which nothing is missing, and, unless the clock was set back, no other, *)
(* whatever the policies, the times and the order of the calls.            *)
THEOREM ChainTellsHolesHolds == Spec => []ChainTellsHoles
<1>1. Init => AuditInv
  BY AuditInit DEF Init
<1>2. AuditInv /\ [Next]_services => AuditInv'
  <2> SUFFICES ASSUME AuditInv, [Next]_services PROVE AuditInv'
    OBVIOUS
  <2>1. CASE Audit!Next
    BY <2>1, AuditStep
  <2>2. CASE UNCHANGED auditVars
    BY <2>2 DEF auditVars, AuditInv
  <2> QED
    BY <2>1, <2>2 DEF Next, ServiceStep, PluginStep, RemoteStep, WatchStep, services, serviceSide
<1>3. AuditInv => ChainTellsHoles
  BY AuditImplies DEF ChainTellsHoles
<1> QED
  BY <1>1, <1>2, <1>3, PTL DEF Spec
-----------------------------------------------------------------------------
(* Alerts and the index of their repetitions.                              *)

AlertRecord == [id : 1..MaxAlertId, key : AlertKeys, time : 1..MaxClock,
                status : {"New", "Acknowledged", "Resolved"}]

(* Alerts s are numbered up to the next number and in the order of their   *)
(* times; the index has the time of the newest of every key.               *)
Listed(s, next) ==
  /\ s \in Seq(AlertRecord)
  /\ \A i, j \in DOMAIN s : i < j => s[i].time < s[j].time
  /\ \A i \in DOMAIN s : s[i].id = next - 1 - (Len(s) - i)

Indexed(s, ix) ==
  /\ \A i \in DOMAIN s : s[i].key \in DOMAIN ix /\ s[i].time <= ix[s[i].key]
  /\ \A k \in DOMAIN ix : \E i \in DOMAIN s : s[i].key = k /\ s[i].time = ix[k]

AlertInv ==
  /\ Alerting!AlertTypeOK /\ Len(alerts) <= maxCapacity
  /\ \A i \in DOMAIN alerts : alerts[i].time <= clock
  /\ Listed(alerts, nextAlertId) /\ Indexed(alerts, dedupIndex)

LEMMA AlertConstants == 
  /\ MaxAlertId \in Nat /\ MaxClock \in Nat /\ MaxClock >= 1 /\ MaxRepeats \in Nat
  /\ DefaultWindow \in Windows /\ Windows \subseteq Nat
  /\ DefaultCapacity \in Capacities /\ Capacities \subseteq Nat
  BY ServiceConstants DEF Alerting!AlertAssumption

LEMMA AlertsOf ==
  ASSUME NEW s \in Seq(AlertRecord)
  PROVE  /\ Len(s) \in Nat /\ DOMAIN s = 1..Len(s)
         /\ \A i \in DOMAIN s : /\ s[i] \in AlertRecord /\ s[i].id \in Nat
                                /\ s[i].key \in AlertKeys /\ s[i].time \in Nat
<1>1. Len(s) \in Nat /\ DOMAIN s = 1..Len(s) /\ \A i \in DOMAIN s : s[i] \in AlertRecord
  OBVIOUS
<1> QED
  BY <1>1, AlertConstants DEF AlertRecord

(* r is s without its first g alerts, which the index forgets.             *)
Without(s, g, r) == /\ r \in Seq(AlertRecord) /\ g \in 0..Len(s) /\ Len(r) = Len(s) - g
                    /\ \A i \in DOMAIN r : r[i] = s[g + i]
Forgotten(s, g, ix) == Alerting!Evict({s[i] : i \in 1..g}, ix)

(* When the oldest alerts go, the index forgets exactly what has no alert  *)
(* any more.                                                               *)
LEMMA EvictedOldest ==
  ASSUME NEW s, NEW ix, NEW next \in Nat, NEW g, NEW r, NEW ev,
         Listed(s, next), Indexed(s, ix), Without(s, g, r), ev = Forgotten(s, g, ix)
  PROVE  /\ Listed(r, next) /\ Indexed(r, ev)
         /\ DOMAIN ev \subseteq DOMAIN ix /\ \A k \in DOMAIN ev : ev[k] = ix[k]
<1> DEFINE gone == {s[i] : i \in 1..g}
           kept == {k \in DOMAIN ix : \A a \in gone : a.key = k => ix[k] # a.time}
<1>0. /\ r \in Seq(AlertRecord) /\ g \in 0..Len(s) /\ Len(r) = Len(s) - g
      /\ \A i \in DOMAIN r : r[i] = s[g + i]
      /\ s \in Seq(AlertRecord)
  BY DEF Without, Listed
<1>1. ev = [k \in kept |-> ix[k]]
  BY DEF Forgotten, Alerting!Evict, Alerting!Restrict
<1>2. /\ Len(s) \in Nat /\ DOMAIN s = 1..Len(s) /\ Len(r) \in Nat /\ DOMAIN r = 1..Len(r) /\ g \in Nat
      /\ \A i \in DOMAIN s : s[i].time \in Nat
  BY <1>0, AlertsOf
<1>3. \A i \in DOMAIN r : g + i \in DOMAIN s /\ g < g + i
  BY <1>0, <1>2
<1>4. Listed(r, next)
  <2>1. \A i, j \in DOMAIN r : i < j => r[i].time < r[j].time
    <3> SUFFICES ASSUME NEW i \in DOMAIN r, NEW j \in DOMAIN r, i < j PROVE r[i].time < r[j].time
      OBVIOUS
    <3>1. g + i < g + j
      BY <1>2
    <3> QED
      BY <1>0, <1>3, <3>1 DEF Listed
  <2>2. \A i \in DOMAIN r : r[i].id = next - 1 - (Len(r) - i)
    <3> SUFFICES ASSUME NEW i \in DOMAIN r PROVE r[i].id = next - 1 - (Len(r) - i)
      OBVIOUS
    <3>1. r[i].id = next - 1 - (Len(s) - (g + i))
      BY <1>0, <1>3 DEF Listed
    <3> QED
      BY <1>0, <1>2, <3>1
  <2> QED
    BY <1>0, <2>1, <2>2 DEF Listed
<1>5. ASSUME NEW i \in DOMAIN r PROVE r[i].key \in kept /\ r[i].time <= ix[r[i].key]
  <2>1. r[i] = s[g + i] /\ g + i \in DOMAIN s
    BY <1>0, <1>3
  <2>2. r[i].key \in DOMAIN ix /\ r[i].time <= ix[r[i].key]
    BY <2>1 DEF Indexed
  <2>3. ASSUME NEW a \in gone, a.key = r[i].key PROVE ix[r[i].key] # a.time
    <3>1. PICK j \in 1..g : a = s[j]
      OBVIOUS
    <3>2. j \in DOMAIN s /\ j < g + i
      BY <1>2, <2>1
    <3>3. a.time < r[i].time /\ a.time \in Nat /\ r[i].time \in Nat
      BY <1>2, <2>1, <3>1, <3>2 DEF Listed
    <3> QED
      BY <2>2, <3>3
  <2> QED
    BY <2>2, <2>3
<1>6. ASSUME NEW k \in kept PROVE \E i \in DOMAIN r : r[i].key = k /\ r[i].time = ix[k]
  <2>1. PICK j \in DOMAIN s : s[j].key = k /\ s[j].time = ix[k]
    BY DEF Indexed
  <2>2. ~(j \in 1..g)
    BY <2>1
  <2>3. j - g \in DOMAIN r /\ g + (j - g) = j
    BY <1>0, <1>2, <2>2
  <2> QED
    BY <1>0, <2>1, <2>3
<1>7. DOMAIN ev = kept /\ kept \subseteq DOMAIN ix /\ \A k \in kept : ev[k] = ix[k]
  BY <1>1
<1> HIDE DEF kept
<1>8. \A i \in DOMAIN r : r[i].key \in DOMAIN ev /\ r[i].time <= ev[r[i].key]
  BY <1>5, <1>7
<1>9. \A k \in DOMAIN ev : \E i \in DOMAIN r : r[i].key = k /\ r[i].time = ev[k]
  <2> SUFFICES ASSUME NEW k \in DOMAIN ev
               PROVE  \E i \in DOMAIN r : r[i].key = k /\ r[i].time = ev[k]
    OBVIOUS
  <2>1. k \in kept /\ ev[k] = ix[k]
    BY <1>7
  <2> QED
    BY <1>6, <2>1
<1> QED
  BY <1>4, <1>7, <1>8, <1>9 DEF Indexed

LEMMA GenerateAlertStep ==
  ASSUME AlertInv, NEW k \in AlertKeys, Alerting!GenerateAlert(k) PROVE AlertInv'
<1> DEFINE e == [id |-> nextAlertId, key |-> k, time |-> clock, status |-> "New"]
           all == Append(alerts, e)
           noted == Alerting!Put(dedupIndex, k, clock)
           n == Len(alerts)
<1>1. /\ ~Alerting!IsDuplicate(k) /\ Alerting!Fresh /\ nextAlertId <= MaxAlertId
      /\ IF Len(all) > maxCapacity
           THEN alerts' = Tail(all) /\ dedupIndex' = Alerting!Evict({Head(all)}, noted)
           ELSE alerts' = all /\ dedupIndex' = noted
      /\ nextAlertId' = nextAlertId + 1
      /\ UNCHANGED <<dedupWindow, maxCapacity, deduplicated, clock>>
  BY DEF Alerting!GenerateAlert
<1>2. /\ nextAlertId \in 1..MaxAlertId /\ clock \in 1..MaxClock /\ maxCapacity \in Nat
      /\ nextAlertId \in Nat /\ clock \in Nat /\ alerts \in Seq(AlertRecord) /\ n <= maxCapacity
      /\ DOMAIN dedupIndex \subseteq AlertKeys
      /\ \A x \in DOMAIN dedupIndex : dedupIndex[x] \in 1..MaxClock
  BY <1>1, AlertConstants DEF AlertInv, Alerting!AlertTypeOK, Listed
<1>3. /\ n \in Nat /\ DOMAIN alerts = 1..n
      /\ \A i \in DOMAIN alerts : /\ alerts[i].key \in AlertKeys /\ alerts[i].time \in Nat
                                  /\ alerts[i].id \in Nat
  BY <1>2, AlertsOf
<1>4. e \in AlertRecord /\ e.id = nextAlertId /\ e.key = k /\ e.time = clock
  BY <1>2 DEF AlertRecord
<1> HIDE DEF e
<1>5. /\ all \in Seq(AlertRecord) /\ Len(all) = n + 1 /\ DOMAIN all = 1..(n + 1)
      /\ \A i \in DOMAIN alerts : all[i] = alerts[i]
      /\ all[n + 1] = e /\ Head(all) = all[1]
      /\ Tail(all) \in Seq(AlertRecord) /\ Len(Tail(all)) = n
      /\ \A i \in 1..n : Tail(all)[i] = all[1 + i]
  <2>1. all \in Seq(AlertRecord) /\ Len(all) = n + 1
    BY <1>2, <1>3, <1>4
  <2> QED
    BY <1>2, <1>3, <1>4, <2>1
<1>6. \A i \in 1..(n + 1) : i = n + 1 \/ i \in DOMAIN alerts
  BY <1>3
<1>7. /\ DOMAIN noted = DOMAIN dedupIndex \cup {k} /\ noted[k] = clock
      /\ \A x \in DOMAIN dedupIndex : x # k => noted[x] = dedupIndex[x]
  BY DEF Alerting!Put
<1> HIDE DEF all, noted
<1>8. \A i \in DOMAIN alerts : alerts[i].time < clock
  <2> SUFFICES ASSUME NEW i \in DOMAIN alerts PROVE alerts[i].time < clock
    OBVIOUS
  <2>1. n \in DOMAIN alerts /\ alerts[n].time < clock
    <3>1. alerts # <<>> /\ n \in DOMAIN alerts
      BY <1>3
    <3> QED
      BY <1>1, <3>1 DEF Alerting!Fresh, Alerting!Last
  <2>2. i < n => alerts[i].time < alerts[n].time
    BY <2>1 DEF AlertInv, Listed
  <2> QED
    BY <1>2, <1>3, <2>1, <2>2
<1> HIDE DEF n
<1>9. Listed(all, nextAlertId + 1)
  <2>1. ASSUME NEW i \in 1..(n + 1), NEW j \in 1..(n + 1), i < j PROVE all[i].time < all[j].time
    <3>1. i \in DOMAIN alerts
      BY <1>3, <2>1
    <3>2. CASE j = n + 1
      BY <1>4, <1>5, <1>8, <3>1, <3>2
    <3>3. CASE j \in DOMAIN alerts
      BY <1>5, <2>1, <3>1, <3>3 DEF AlertInv, Listed
    <3> QED
      BY <1>6, <3>2, <3>3
  <2>2. ASSUME NEW i \in 1..(n + 1) PROVE all[i].id = (nextAlertId + 1) - 1 - (Len(all) - i)
    <3>1. CASE i = n + 1
      BY <1>2, <1>3, <1>4, <1>5, <3>1
    <3>2. CASE i \in DOMAIN alerts
      <4>1. all[i].id = nextAlertId - 1 - (n - i)
        BY <1>5, <3>2 DEF AlertInv, Listed, n
      <4> QED
        BY <1>2, <1>3, <1>5, <3>2, <4>1
    <3> QED
      BY <1>6, <3>1, <3>2
  <2> QED
    BY <1>5, <2>1, <2>2 DEF Listed
<1>10. Indexed(all, noted)
  <2>1. ASSUME NEW i \in 1..(n + 1) PROVE all[i].key \in DOMAIN noted /\ all[i].time <= noted[all[i].key]
    <3>1. CASE i = n + 1
      BY <1>2, <1>4, <1>5, <1>7, <3>1
    <3>2. CASE i \in DOMAIN alerts
      <4>1. alerts[i].key \in DOMAIN dedupIndex /\ alerts[i].time <= dedupIndex[alerts[i].key]
        BY <3>2 DEF AlertInv, Indexed
      <4> QED
        BY <1>2, <1>3, <1>5, <1>7, <1>8, <3>2, <4>1
    <3> QED
      BY <1>6, <3>1, <3>2
  <2>2. ASSUME NEW x \in DOMAIN noted
        PROVE  \E i \in 1..(n + 1) : all[i].key = x /\ all[i].time = noted[x]
    <3>1. CASE x = k
      <4>1. n + 1 \in 1..(n + 1)
        BY <1>3
      <4> QED
        BY <1>4, <1>5, <1>7, <3>1, <4>1
    <3>2. CASE x # k
      <4>1. x \in DOMAIN dedupIndex /\ noted[x] = dedupIndex[x]
        BY <1>7, <3>2
      <4>2. PICK i \in DOMAIN alerts : alerts[i].key = x /\ alerts[i].time = dedupIndex[x]
        BY <4>1 DEF AlertInv, Indexed
      <4>3. i \in 1..(n + 1)
        BY <1>3
      <4> QED
        BY <1>5, <4>1, <4>2, <4>3
    <3> QED
      BY <3>1, <3>2
  <2> QED
    BY <1>5, <2>1, <2>2 DEF Indexed
<1>11. \A i \in 1..(n + 1) : all[i].time <= clock
  BY <1>2, <1>3, <1>4, <1>5, <1>6, <1>8
<1>12. /\ DOMAIN noted \subseteq AlertKeys
       /\ \A x \in DOMAIN noted : noted[x] \in 1..MaxClock
  BY <1>2, <1>7
<1>13. nextAlertId' \in 1..MaxAlertId + 1
  BY <1>1, <1>2, AlertConstants
<1>14. CASE Len(all) > maxCapacity
  <2>0. {all[1]} = {all[i] : i \in 1..1}
    <3>1. 1..1 = {1}
      OBVIOUS
    <3> QED
      BY <3>1
  <2>1. alerts' = Tail(all) /\ dedupIndex' = Alerting!Evict({all[i] : i \in 1..1}, noted)
    BY <1>1, <1>5, <1>14, <2>0
  <2>2. 1 \in 0..Len(all) /\ nextAlertId + 1 \in Nat
    BY <1>2, <1>3, <1>5
  <2>3. /\ Tail(all) \in Seq(AlertRecord) /\ Len(Tail(all)) = Len(all) - 1
        /\ \A i \in DOMAIN Tail(all) : Tail(all)[i] = all[1 + i]
    BY <1>3, <1>5
  <2>4. /\ Listed(alerts', nextAlertId + 1) /\ Indexed(alerts', dedupIndex')
        /\ DOMAIN dedupIndex' \subseteq DOMAIN noted
        /\ \A x \in DOMAIN dedupIndex' : dedupIndex'[x] = noted[x]
    <3>1. Without(all, 1, alerts')
      BY <2>1, <2>2, <2>3 DEF Without
    <3>2. dedupIndex' = Forgotten(all, 1, noted)
      BY <2>1 DEF Forgotten
    <3> QED
      BY <1>9, <1>10, <2>2, <3>1, <3>2, EvictedOldest
  <2>5. DOMAIN alerts' = 1..n /\ \A i \in 1..n : alerts'[i].time <= clock
    BY <1>3, <1>5, <1>11, <2>1, <2>3
  <2>6. Len(alerts') <= maxCapacity
    BY <1>2, <1>5, <2>1 DEF n
  <2>7. /\ DOMAIN dedupIndex' \subseteq AlertKeys
        /\ \A x \in DOMAIN dedupIndex' : dedupIndex'[x] \in 1..MaxClock
    BY <1>12, <2>4
  <2>8. alerts' \in Seq(AlertRecord)
    BY <1>5, <2>1
  <2> QED
    BY <1>1, <1>2, <1>13, <2>4, <2>5, <2>6, <2>7, <2>8 DEF AlertInv, Alerting!AlertTypeOK, AlertRecord
<1>15. CASE ~(Len(all) > maxCapacity)
  <2>1. alerts' = all /\ dedupIndex' = noted /\ Len(all) <= maxCapacity
    BY <1>1, <1>2, <1>3, <1>5, <1>15
  <2> QED
    BY <1>1, <1>2, <1>5, <1>9, <1>10, <1>11, <1>12, <1>13, <2>1
    DEF AlertInv, Alerting!AlertTypeOK, AlertRecord
<1> QED
  BY <1>14, <1>15

LEMMA SetStatusStep ==
  ASSUME AlertInv, NEW i \in DOMAIN alerts, NEW status \in {"Acknowledged", "Resolved"},
         Alerting!SetStatus(i, status)
  PROVE  AlertInv'
<1>1. /\ alerts' = [alerts EXCEPT ![i].status = status]
      /\ UNCHANGED <<dedupIndex, dedupWindow, maxCapacity, nextAlertId, deduplicated, clock>>
  BY DEF Alerting!SetStatus
<1>2. /\ alerts \in Seq(AlertRecord) /\ DOMAIN alerts = 1..Len(alerts)
      /\ \A j \in DOMAIN alerts : alerts[j] \in AlertRecord
  BY AlertsOf DEF AlertInv, Listed
<1> DEFINE e == [alerts[i] EXCEPT !.status = status]
<1>3. e \in AlertRecord /\ e.id = alerts[i].id /\ e.key = alerts[i].key /\ e.time = alerts[i].time
  BY <1>2 DEF AlertRecord
<1>4. alerts' = [alerts EXCEPT ![i] = e]
  BY <1>1
<1> HIDE DEF e
<1>5. alerts' \in Seq(AlertRecord) /\ DOMAIN alerts' = DOMAIN alerts /\ Len(alerts') = Len(alerts)
  BY <1>2, <1>3, <1>4
<1>6. \A j \in DOMAIN alerts : /\ alerts'[j].id = alerts[j].id /\ alerts'[j].key = alerts[j].key
                               /\ alerts'[j].time = alerts[j].time
  BY <1>3, <1>4
<1>7. Listed(alerts', nextAlertId)
  BY <1>5, <1>6 DEF AlertInv, Listed
<1>8. Indexed(alerts', dedupIndex)
  <2>1. Indexed(alerts, dedupIndex)
    BY DEF AlertInv
  <2>2. \A j \in DOMAIN alerts' :
          alerts'[j].key \in DOMAIN dedupIndex /\ alerts'[j].time <= dedupIndex[alerts'[j].key]
    BY <1>5, <1>6, <2>1 DEF Indexed
  <2>3. \A k \in DOMAIN dedupIndex :
          \E j \in DOMAIN alerts' : alerts'[j].key = k /\ alerts'[j].time = dedupIndex[k]
    BY <1>5, <1>6, <2>1 DEF Indexed
  <2> QED
    BY <2>2, <2>3 DEF Indexed
<1>9. \A j \in DOMAIN alerts' : alerts'[j].time <= clock
  BY <1>5, <1>6 DEF AlertInv
<1> QED
  BY <1>1, <1>5, <1>7, <1>8, <1>9 DEF AlertInv, Alerting!AlertTypeOK, AlertRecord

LEMMA SetMaxCapacityStep ==
  ASSUME AlertInv, NEW m \in Capacities, Alerting!SetMaxCapacity(m) PROVE AlertInv'
<1> DEFINE n == Len(alerts)
           g == IF n > m THEN n - m ELSE 0
<1>1. /\ maxCapacity' = m /\ alerts' = SubSeq(alerts, g + 1, n)
      /\ dedupIndex' = Alerting!Evict(Alerting!ToSet(SubSeq(alerts, 1, g)), dedupIndex)
      /\ UNCHANGED <<dedupWindow, nextAlertId, deduplicated, clock>>
  BY DEF Alerting!SetMaxCapacity
<1>2. /\ m \in Nat /\ n \in Nat /\ alerts \in Seq(AlertRecord) /\ DOMAIN alerts = 1..n
      /\ nextAlertId \in Nat
  BY AlertConstants, AlertsOf DEF AlertInv, Alerting!AlertTypeOK, Listed
<1>3. g \in 0..n /\ n - g <= m
  BY <1>2
<1> HIDE DEF g, n
<1>4. /\ alerts' \in Seq(AlertRecord) /\ Len(alerts') = n - g
      /\ \A i \in DOMAIN alerts' : alerts'[i] = alerts[g + i]
  <2>1. /\ \A i \in (g + 1)..n : alerts[i] \in AlertRecord
        /\ g + 1 \in Int /\ n \in Int
    BY <1>2, <1>3
  <2>2. /\ alerts' \in Seq(AlertRecord) /\ Len(alerts') = IF g + 1 <= n THEN n - (g + 1) + 1 ELSE 0
        /\ \A i \in 1..(n - (g + 1) + 1) : alerts'[i] = alerts[(g + 1) + i - 1]
    BY <1>1, <2>1, SubSeqProperties
  <2>3. (IF g + 1 <= n THEN n - (g + 1) + 1 ELSE 0) = n - g /\ n - (g + 1) + 1 = n - g
    BY <1>2, <1>3
  <2>4. \A i \in 1..(n - g) : (g + 1) + i - 1 = g + i
    BY <1>2, <1>3
  <2>5. DOMAIN alerts' = 1..(n - g)
    BY <2>2, <2>3
  <2> QED
    BY <2>2, <2>3, <2>4, <2>5
<1>5. Alerting!ToSet(SubSeq(alerts, 1, g)) = {alerts[i] : i \in 1..g}
  <2>1. /\ \A i \in 1..g : alerts[i] \in AlertRecord
        /\ g \in Int
    BY <1>2, <1>3
  <2>2. /\ SubSeq(alerts, 1, g) \in Seq(AlertRecord)
        /\ Len(SubSeq(alerts, 1, g)) = IF 1 <= g THEN g - 1 + 1 ELSE 0
        /\ \A i \in 1..(g - 1 + 1) : SubSeq(alerts, 1, g)[i] = alerts[1 + i - 1]
    BY <2>1, SubSeqProperties
  <2>3. (IF 1 <= g THEN g - 1 + 1 ELSE 0) = g /\ g - 1 + 1 = g /\ \A i \in 1..g : 1 + i - 1 = i
    BY <1>3
  <2>4. DOMAIN SubSeq(alerts, 1, g) = 1..g /\ \A i \in 1..g : SubSeq(alerts, 1, g)[i] = alerts[i]
    BY <2>2, <2>3
  <2> QED
    BY <2>4 DEF Alerting!ToSet
<1>6. /\ Listed(alerts', nextAlertId) /\ Indexed(alerts', dedupIndex')
      /\ DOMAIN dedupIndex' \subseteq DOMAIN dedupIndex
      /\ \A x \in DOMAIN dedupIndex' : dedupIndex'[x] = dedupIndex[x]
  <2>1. /\ Listed(alerts, nextAlertId) /\ Indexed(alerts, dedupIndex)
        /\ dedupIndex' = Alerting!Evict({alerts[i] : i \in 1..g}, dedupIndex)
    BY <1>1, <1>5 DEF AlertInv, n, g
  <2>2. g \in 0..Len(alerts) /\ Len(alerts') = Len(alerts) - g
    BY <1>3, <1>4 DEF n
  <2>3. Without(alerts, g, alerts')
    BY <1>4, <2>2 DEF Without
  <2>4. dedupIndex' = Forgotten(alerts, g, dedupIndex)
    BY <2>1 DEF Forgotten
  <2>5. Listed(alerts, nextAlertId) /\ Indexed(alerts, dedupIndex) /\ nextAlertId \in Nat
    BY <1>2, <2>1
  <2> QED
    BY <2>3, <2>4, <2>5, EvictedOldest
<1>7. \A i \in DOMAIN alerts' : alerts'[i].time <= clock
  <2>1. \A i \in DOMAIN alerts' : g + i \in DOMAIN alerts
    <3>1. DOMAIN alerts' = 1..(n - g)
      BY <1>4
    <3> QED
      BY <1>2, <1>3, <3>1
  <2> QED
    BY <1>4, <2>1 DEF AlertInv
<1> QED
  BY <1>1, <1>3, <1>4, <1>6, <1>7 DEF AlertInv, Alerting!AlertTypeOK, AlertRecord

LEMMA AlertStep == ASSUME AlertInv, Alerting!Next PROVE AlertInv'
<1>1. ASSUME NEW k \in AlertKeys, Alerting!Suppress(k) PROVE AlertInv'
  <2>1. /\ deduplicated < MaxRepeats /\ deduplicated' = deduplicated + 1
        /\ UNCHANGED <<alerts, dedupIndex, dedupWindow, maxCapacity, nextAlertId, clock>>
    BY <1>1 DEF Alerting!Suppress
  <2>2. deduplicated' \in 0..MaxRepeats
    BY <2>1, AlertConstants DEF AlertInv, Alerting!AlertTypeOK
  <2> QED
    BY <2>1, <2>2 DEF AlertInv, Alerting!AlertTypeOK
<1>2. ASSUME NEW w \in Windows, Alerting!SetDeduplicationWindow(w) PROVE AlertInv'
  BY <1>2 DEF Alerting!SetDeduplicationWindow, AlertInv, Alerting!AlertTypeOK
<1>3. CASE Alerting!Clear
  <2>1. /\ alerts' = <<>> /\ DOMAIN dedupIndex' = {} /\ deduplicated' = 0
        /\ UNCHANGED <<dedupWindow, maxCapacity, nextAlertId, clock>>
    BY <1>3 DEF Alerting!Clear
  <2>2. alerts' \in Seq(AlertRecord) /\ Len(alerts') = 0 /\ DOMAIN alerts' = {}
    BY <2>1
  <2>3. Listed(alerts', nextAlertId) /\ Indexed(alerts', dedupIndex')
    BY <2>1, <2>2 DEF Listed, Indexed
  <2>4. 0 <= maxCapacity /\ 0 \in 0..MaxRepeats
    BY AlertConstants DEF AlertInv, Alerting!AlertTypeOK
  <2> QED
    BY <2>1, <2>2, <2>3, <2>4 DEF AlertInv, Alerting!AlertTypeOK, AlertRecord
<1>4. CASE Alerting!Tick
  <2>1. /\ clock < MaxClock /\ clock' = clock + 1
        /\ UNCHANGED <<alerts, dedupIndex, dedupWindow, maxCapacity, nextAlertId, deduplicated>>
    BY <1>4 DEF Alerting!Tick
  <2>2. clock' \in 1..MaxClock /\ clock \in Nat
    BY <2>1, AlertConstants DEF AlertInv, Alerting!AlertTypeOK
  <2>3. \A i \in DOMAIN alerts : alerts[i].time <= clock'
    <3>1. \A i \in DOMAIN alerts : alerts[i].time \in Nat
      BY AlertsOf DEF AlertInv, Listed
    <3> QED
      BY <2>1, <2>2, <3>1 DEF AlertInv
  <2> QED
    BY <2>1, <2>2, <2>3 DEF AlertInv, Alerting!AlertTypeOK
<1> QED
  BY <1>1, <1>2, <1>3, <1>4, GenerateAlertStep, SetStatusStep, SetMaxCapacityStep DEF Alerting!Next

LEMMA AlertInit == ASSUME Alerting!Init PROVE AlertInv
<1>1. /\ alerts = <<>> /\ DOMAIN dedupIndex = {} /\ nextAlertId = 1 /\ deduplicated = 0 /\ clock = 1
      /\ dedupWindow = DefaultWindow /\ maxCapacity = DefaultCapacity
  BY DEF Alerting!Init
<1>2. alerts \in Seq(AlertRecord) /\ Len(alerts) = 0 /\ DOMAIN alerts = {}
  BY <1>1
<1>3. Listed(alerts, nextAlertId) /\ Indexed(alerts, dedupIndex)
  BY <1>1, <1>2 DEF Listed, Indexed
<1>4. /\ 0 <= maxCapacity /\ 0 \in 0..MaxRepeats /\ 1 \in 1..MaxClock /\ 1 \in 1..MaxAlertId + 1
  BY <1>1, AlertConstants
<1> QED
  BY <1>1, <1>2, <1>3, <1>4, AlertConstants DEF AlertInv, Alerting!AlertTypeOK, AlertRecord

LEMMA AlertImplies == ASSUME AlertInv PROVE Alerting!RepeatsHaveAnAlert
<1>1. /\ alerts \in Seq(AlertRecord) /\ Len(alerts) \in Nat /\ DOMAIN alerts = 1..Len(alerts)
      /\ \A i \in DOMAIN alerts : alerts[i].time \in Nat /\ alerts[i].id \in Nat
  BY AlertsOf DEF AlertInv, Listed
<1>2. clock \in Nat /\ dedupWindow \in Nat /\ nextAlertId \in Nat
      /\ \A k \in DOMAIN dedupIndex : dedupIndex[k] \in Nat
  BY AlertConstants DEF AlertInv, Alerting!AlertTypeOK
<1>3. ASSUME NEW k \in AlertKeys
      PROVE  Alerting!IsDuplicate(k) <=>
               \E i \in DOMAIN alerts : alerts[i].key = k /\ clock - alerts[i].time < dedupWindow
  <2>1. ASSUME k \in DOMAIN dedupIndex, clock - dedupIndex[k] < dedupWindow
        PROVE  \E i \in DOMAIN alerts : alerts[i].key = k /\ clock - alerts[i].time < dedupWindow
    BY <2>1 DEF AlertInv, Indexed
  <2>2. ASSUME NEW i \in DOMAIN alerts, alerts[i].key = k, clock - alerts[i].time < dedupWindow
        PROVE  k \in DOMAIN dedupIndex /\ clock - dedupIndex[k] < dedupWindow
    <3>1. k \in DOMAIN dedupIndex /\ alerts[i].time <= dedupIndex[k]
      BY <2>2 DEF AlertInv, Indexed
    <3>2. alerts[i].time \in Nat /\ dedupIndex[k] \in Nat
      BY <1>1, <1>2, <3>1
    <3> QED
      BY <1>2, <2>2, <3>1, <3>2
  <2> QED
    BY <2>1, <2>2 DEF Alerting!IsDuplicate
<1>4. ASSUME NEW i \in 1..Len(alerts) - 1 PROVE alerts[i + 1].id = alerts[i].id + 1
  <2>1. i \in DOMAIN alerts /\ i + 1 \in DOMAIN alerts
    BY <1>1
  <2>2. /\ alerts[i].id = nextAlertId - 1 - (Len(alerts) - i)
        /\ alerts[i + 1].id = nextAlertId - 1 - (Len(alerts) - (i + 1))
    BY <2>1 DEF AlertInv, Listed
  <2> QED
    BY <1>1, <1>2, <2>2
<1> QED
  BY <1>3, <1>4 DEF Alerting!RepeatsHaveAnAlert, AlertInv
-----------------------------------------------------------------------------
(* Attempts within windows.                                                *)

Attempts == [time : 0..MaxSeconds, port : Nat]

(* What a map of attempts holds of one source.                            *)
Known(map, s) == IF s \in DOMAIN map THEN Range(map[s]) ELSE {}
Recent(A, limit) == {a \in A : seconds - a.time <= limit}

TrackerOK(map) == DOMAIN map \subseteq Sources /\ \A s \in DOMAIN map : map[s] \in Seq(Attempts)

ScansTold ==
  /\ TrackerOK(portScanTracker) /\ attempted \in [Sources -> SUBSET Attempts]
  /\ \A s \in Sources : /\ Known(portScanTracker, s) \subseteq attempted[s]
                        /\ Recent(attempted[s], ScanWindow) \subseteq Known(portScanTracker, s)

FloodAt(times, sec, counts, windows) ==
  /\ times \in Seq(0..MaxSeconds) /\ \A i \in DOMAIN times : times[i] <= sec
  /\ \A t \in 0..sec :
       /\ CountAt(times, t) <= counts[t]
       /\ (\A w \in windows : sec - t <= w) => CountAt(times, t) = counts[t]
  /\ \A t \in 0..MaxSeconds : t > sec => counts[t] = 0

FloodsTold ==
  /\ DOMAIN floodTracker \subseteq Targets /\ \A d \in DOMAIN floodTracker : floodTracker[d] # <<>>
  /\ flooded \in [Targets -> [0..MaxSeconds -> Nat]] /\ asked \in [Targets -> SUBSET FloodWindows]
  /\ \A d \in Targets : FloodAt(Intrusion!Remembered(d), seconds, flooded[d], asked[d])

AlertsTold ==
  /\ raised \in Nat
  /\ Len(idsAlerts) = IF raised < KMaxAlerts THEN raised ELSE KMaxAlerts
  /\ idsAlerts = [i \in 1..Len(idsAlerts) |-> raised - Len(idsAlerts) + i]

IntrusionInv ==
  /\ idsRules \in Seq(IDSRules) /\ seconds \in 0..MaxSeconds
  /\ ScansTold /\ FloodsTold /\ AlertsTold

LEMMA IntrusionConstants ==
  /\ ScanWindow \in Nat /\ CleanupWindow \in Nat /\ ScanWindow <= CleanupWindow
  /\ FloodWindows \subseteq Int /\ KMaxAlerts \in Nat /\ KMaxAlerts >= 1
  /\ Ports \subseteq Seq(Nat) /\ MaxSeconds \in Nat
  BY ServiceConstants DEF Intrusion!IntrusionAssumption

(* Pruning keeps the attempts that are not older than the window.          *)
LEMMA SinceOf ==
  ASSUME NEW s \in Seq(Attempts), NEW window \in Int, seconds \in Nat
  PROVE  LET r == Intrusion!Since(s, window) IN
         /\ r \in Seq(Attempts)
         /\ Range(r) = Recent(Range(s), window)
<1> DEFINE K == {i \in DOMAIN s : s[i].time >= seconds - window}
           r == Intrusion!Since(s, window)
<1>1. r = Kept(s, K)
  BY DEF Intrusion!Since, Intrusion!Kept, Intrusion!Nth, Kept, Nth, Intrusion!Cardinality, Cardinality
<1>2. K \in SUBSET (DOMAIN s)
  OBVIOUS
<1>3. r \in Seq(Attempts)
  BY <1>1, <1>2, KeptInOrder
<1>4. \A x : x \in Range(r) <=> \E k \in K : x = s[k]
  BY <1>1, <1>2, KeptCounted
<1>5. \A i \in DOMAIN s : s[i].time >= seconds - window <=> seconds - s[i].time <= window
  <2>1. \A i \in DOMAIN s : s[i].time \in Int
    <3>1. \A i \in DOMAIN s : s[i] \in Attempts
      OBVIOUS
    <3> QED
      BY <3>1, IntrusionConstants DEF Attempts
  <2> QED
    BY <2>1
<1>6. \A x : x \in Range(s) <=> \E i \in DOMAIN s : x = s[i]
  BY DEF Range
<1> HIDE DEF r
<1>7. \A x : x \in Range(r) <=> x \in Recent(Range(s), window)
  BY <1>4, <1>5, <1>6 DEF Recent
<1> QED
  BY <1>3, <1>7 DEF r

LEMMA PrunedOf ==
  ASSUME IntrusionInv
  PROVE  /\ TrackerOK(Intrusion!Pruned)
         /\ \A s \in Sources : Known(Intrusion!Pruned, s) = Recent(Known(portScanTracker, s), CleanupWindow)
<1> DEFINE P == Intrusion!Pruned
           m == portScanTracker
           S(s) == Intrusion!Since(m[s], CleanupWindow)
<1>1. P = [s \in {q \in DOMAIN m : S(q) # <<>>} |-> S(s)]
  BY DEF Intrusion!Pruned
<1>2. /\ DOMAIN P = {q \in DOMAIN m : S(q) # <<>>}
      /\ \A s \in DOMAIN P : P[s] = S(s)
  BY <1>1
<1>3. ASSUME NEW s \in DOMAIN m
      PROVE  /\ S(s) \in Seq(Attempts)
             /\ Range(S(s)) = Recent(Known(m, s), CleanupWindow)
  <2>1. m[s] \in Seq(Attempts) /\ seconds \in Nat /\ CleanupWindow \in Int
    BY IntrusionConstants DEF IntrusionInv, ScansTold, TrackerOK
  <2> DEFINE r == Intrusion!Since(m[s], CleanupWindow)
  <2>2. r \in Seq(Attempts) /\ Range(r) = Recent(Range(m[s]), CleanupWindow)
    BY <2>1, SinceOf
  <2> QED
    BY <2>2 DEF Known
<1>4. TrackerOK(P)
  BY <1>2, <1>3 DEF TrackerOK, IntrusionInv, ScansTold
<1>5. ASSUME NEW s \in Sources PROVE Known(P, s) = Recent(Known(m, s), CleanupWindow)
  <2>1. CASE s \in DOMAIN P
    BY <1>2, <1>3, <2>1 DEF Known
  <2>2. CASE s \in DOMAIN m /\ s \notin DOMAIN P
    <3>1. S(s) = <<>>
      BY <1>2, <2>2
    <3>2. Range(S(s)) = {}
      BY <3>1 DEF Range
    <3>3. Recent(Known(m, s), CleanupWindow) = {}
      BY <1>3, <2>2, <3>2
    <3> QED
      BY <2>2, <3>3 DEF Known
  <2>3. CASE s \notin DOMAIN m
    BY <1>2, <2>3 DEF Known, Recent
  <2> QED
    BY <2>1, <2>2, <2>3
<1> QED
  BY <1>4, <1>5

(* The list of alerts keeps the latest, whatever number comes at once.     *)
LEMMA AlertMore ==
  ASSUME AlertsTold, NEW n \in Nat, Intrusion!Alert(n) PROVE AlertsTold'
<1> DEFINE L == Len(idsAlerts)
           new == [i \in 1..n |-> raised + i]
           all == idsAlerts \o new
           g == IF Len(all) > KMaxAlerts THEN Len(all) - KMaxAlerts ELSE 0
<1>1. idsAlerts' = SubSeq(all, g + 1, Len(all)) /\ raised' = raised + n
  BY DEF Intrusion!Alert
<1>2. /\ raised \in Nat /\ KMaxAlerts \in Nat /\ KMaxAlerts >= 1
      /\ L = (IF raised < KMaxAlerts THEN raised ELSE KMaxAlerts) /\ L \in Nat
      /\ idsAlerts = [i \in 1..L |-> raised - L + i]
  BY IntrusionConstants DEF AlertsTold
<1>3. /\ idsAlerts \in Seq(Int) /\ new \in Seq(Int) /\ Len(new) = n
      /\ \A i \in 1..L : idsAlerts[i] = raised - L + i
      /\ \A i \in 1..n : new[i] = raised + i
  <2>1. \A i \in 1..L : raised - L + i \in Int
    BY <1>2
  <2>2. \A i \in 1..n : raised + i \in Int
    BY <1>2
  <2> HIDE DEF L
  <2>3. idsAlerts \in Seq(Int)
    BY <1>2, <2>1
  <2> QED
    BY <1>2, <2>2, <2>3
<1> HIDE DEF new
<1>4. /\ all \in Seq(Int) /\ Len(all) = L + n
      /\ \A i \in 1..(L + n) : all[i] = raised - L + i
  <2>1. /\ all \in Seq(Int) /\ Len(all) = L + n
        /\ \A i \in 1..(L + n) : all[i] = IF i <= L THEN idsAlerts[i] ELSE new[i - L]
    BY <1>3, ConcatProperties
  <2> HIDE DEF all, L
  <2>2. ASSUME NEW i \in 1..(L + n) PROVE all[i] = raised - L + i
    <3>1. CASE i <= L
      <4>1. i \in 1..L
        BY <1>2, <3>1
      <4> QED
        BY <1>3, <2>1, <3>1, <4>1
    <3>2. CASE ~(i <= L)
      <4>1. i - L \in 1..n /\ raised + (i - L) = raised - L + i
        BY <1>2, <3>2
      <4> QED
        BY <1>3, <2>1, <3>2, <4>1
    <3> QED
      BY <3>1, <3>2
  <2> QED
    BY <2>1, <2>2
<1> HIDE DEF all, L
<1>5. /\ g \in Nat /\ g <= L + n /\ g + 1 \in Int
      /\ L + n - g = IF raised + n < KMaxAlerts THEN raised + n ELSE KMaxAlerts
  BY <1>2, <1>4
<1> HIDE DEF g
<1>6. /\ idsAlerts' \in Seq(Int) /\ Len(idsAlerts') = L + n - g
      /\ \A i \in 1..(L + n - g) : idsAlerts'[i] = raised - L + (g + i)
  <2>1. \A i \in (g + 1)..(L + n) : all[i] \in Int
    BY <1>2, <1>4, <1>5
  <2>2. /\ idsAlerts' \in Seq(Int)
        /\ Len(idsAlerts') = IF g + 1 <= L + n THEN (L + n) - (g + 1) + 1 ELSE 0
        /\ \A i \in 1..((L + n) - (g + 1) + 1) : idsAlerts'[i] = all[(g + 1) + i - 1]
    BY <1>1, <1>2, <1>4, <1>5, <2>1, SubSeqProperties
  <2>3. /\ (IF g + 1 <= L + n THEN (L + n) - (g + 1) + 1 ELSE 0) = L + n - g
        /\ (L + n) - (g + 1) + 1 = L + n - g
    BY <1>2, <1>5
  <2>4. \A i \in 1..(L + n - g) : (g + 1) + i - 1 = g + i /\ g + i \in 1..(L + n)
    BY <1>2, <1>5
  <2> QED
    BY <1>4, <2>2, <2>3, <2>4
<1>7. \A i \in 1..(L + n - g) : raised - L + (g + i) = (raised + n) - (L + n - g) + i
  BY <1>2, <1>5
<1>8. idsAlerts' = [i \in 1..Len(idsAlerts') |-> raised' - Len(idsAlerts') + i]
  BY <1>1, <1>6, <1>7
<1>9. Len(idsAlerts') = IF raised' < KMaxAlerts THEN raised' ELSE KMaxAlerts
  BY <1>1, <1>5, <1>6
<1>10. raised' \in Nat
  BY <1>1, <1>2
<1> QED
  BY <1>8, <1>9, <1>10 DEF AlertsTold

LEMMA EvaluateStep ==
  ASSUME IntrusionInv, NEW p, Intrusion!Evaluate(p) PROVE IntrusionInv'
<1> DEFINE m == Cardinality({i \in DOMAIN idsRules : idsRules[i] \in RulesMatching[p]})
<1>1. /\ portScanTracker' = Intrusion!Pruned /\ Intrusion!Alert(m)
      /\ UNCHANGED <<idsRules, floodTracker, seconds, attempted, flooded, asked>>
  BY DEF Intrusion!Evaluate, Intrusion!histories, Intrusion!Cardinality, Cardinality
<1>2. m \in Nat
  <2>1. Len(idsRules) \in Nat /\ DOMAIN idsRules = 1..Len(idsRules)
    BY DEF IntrusionInv
  <2>2. \A l \in Nat : IsFiniteSet(1..l)
    BY FS_Interval
  <2> QED
    BY <2>1, <2>2, FS_Subset, FS_CardinalityType
<1> HIDE DEF m
<1>3. AlertsTold'
  BY <1>1, <1>2, AlertMore DEF IntrusionInv
<1>4. ScansTold'
  <2>1. \A s \in Sources : /\ Known(Intrusion!Pruned, s) \subseteq attempted[s]
                           /\ Recent(attempted[s], ScanWindow) \subseteq Known(Intrusion!Pruned, s)
    <3> SUFFICES ASSUME NEW s \in Sources
                 PROVE  /\ Known(Intrusion!Pruned, s) \subseteq attempted[s]
                        /\ Recent(attempted[s], ScanWindow) \subseteq Known(Intrusion!Pruned, s)
      OBVIOUS
    <3>1. Known(Intrusion!Pruned, s) = Recent(Known(portScanTracker, s), CleanupWindow)
      BY PrunedOf
    <3>2. \A a \in attempted[s] : seconds - a.time \in Int
      BY IntrusionConstants DEF IntrusionInv, ScansTold, Attempts
    <3>3. Recent(attempted[s], ScanWindow) \subseteq Recent(attempted[s], CleanupWindow)
      BY <3>2, IntrusionConstants DEF Recent
    <3> QED
      BY <3>1, <3>3 DEF IntrusionInv, ScansTold, Recent
  <2>2. TrackerOK(portScanTracker')
    BY <1>1, PrunedOf
  <2> QED
    BY <1>1, <2>1, <2>2 DEF ScansTold, IntrusionInv, Recent
<1>5. FloodsTold'
  BY <1>1 DEF IntrusionInv, FloodsTold, FloodAt, Intrusion!Remembered
<1> QED
  BY <1>1, <1>3, <1>4, <1>5 DEF IntrusionInv

LEMMA PortScanStep ==
  ASSUME IntrusionInv, NEW s \in Sources, NEW ports \in Ports, Intrusion!DetectPortScan(s, ports)
  PROVE  IntrusionInv'
<1> DEFINE P == Intrusion!Pruned
           before == IF s \in DOMAIN P THEN P[s] ELSE <<>>
           entered == [i \in DOMAIN ports |-> [time |-> seconds, port |-> ports[i]]]
           both == before \o entered
           attempts == Intrusion!Since(both, ScanWindow)
           n == IF Cardinality({a.port : a \in Intrusion!Range(attempts)}) > ScanThreshold THEN 1 ELSE 0
<1>1. /\ portScanTracker' = Intrusion!Put(P, s, attempts) /\ Intrusion!Alert(n)
      /\ attempted' = [attempted EXCEPT ![s] = @ \cup Range(entered)]
      /\ UNCHANGED <<idsRules, floodTracker, seconds, flooded, asked>>
  BY DEF Intrusion!DetectPortScan, Intrusion!Cardinality, Cardinality, Intrusion!Range, Range
<1>2. n \in Nat
  OBVIOUS
<1> HIDE DEF n
<1>3. AlertsTold'
  BY <1>1, <1>2, AlertMore DEF IntrusionInv
<1>4. seconds \in 0..MaxSeconds /\ seconds \in Nat /\ MaxSeconds \in Nat
  BY IntrusionConstants DEF IntrusionInv
<1>5. entered \in Seq(Attempts)
  <2>1. ports \in Seq(Nat)
    BY IntrusionConstants
  <2>2. Len(ports) \in Nat /\ DOMAIN ports = 1..Len(ports) /\ \A i \in 1..Len(ports) : ports[i] \in Nat
    BY <2>1
  <2>3. \A i \in 1..Len(ports) : [time |-> seconds, port |-> ports[i]] \in Attempts
    BY <1>4, <2>2 DEF Attempts
  <2>4. entered = [i \in 1..Len(ports) |-> [time |-> seconds, port |-> ports[i]]]
    BY <2>2
  <2> HIDE DEF entered
  <2> QED
    BY <2>2, <2>3, <2>4
<1>6. before \in Seq(Attempts) /\ Range(before) = Known(P, s)
  <2>1. CASE s \in DOMAIN P
    BY <2>1, PrunedOf DEF TrackerOK, Known
  <2>2. CASE s \notin DOMAIN P
    BY <2>2 DEF Known, Range
  <2> QED
    BY <2>1, <2>2
<1> HIDE DEF before, entered
<1>7. both \in Seq(Attempts) /\ Range(both) = Range(before) \cup Range(entered)
  <2>1. /\ both \in Seq(Attempts) /\ Len(both) = Len(before) + Len(entered)
        /\ \A i \in 1..(Len(before) + Len(entered)) :
              both[i] = IF i <= Len(before) THEN before[i] ELSE entered[i - Len(before)]
    BY <1>5, <1>6, ConcatProperties
  <2>2. /\ Len(before) \in Nat /\ DOMAIN before = 1..Len(before)
        /\ Len(entered) \in Nat /\ DOMAIN entered = 1..Len(entered)
    BY <1>5, <1>6
  <2>3. DOMAIN both = 1..(Len(before) + Len(entered))
    BY <2>1
  <2> HIDE DEF both
  <2>4. ASSUME NEW x \in Range(both) PROVE x \in Range(before) \cup Range(entered)
    <3>1. PICK i \in 1..(Len(before) + Len(entered)) : x = both[i]
      BY <2>3 DEF Range
    <3>2. CASE i <= Len(before)
      <4>1. i \in DOMAIN before
        BY <2>2, <3>2
      <4> QED
        BY <2>1, <3>1, <3>2, <4>1 DEF Range
    <3>3. CASE ~(i <= Len(before))
      <4>1. i - Len(before) \in DOMAIN entered
        BY <2>2, <3>3
      <4> QED
        BY <2>1, <3>1, <3>3, <4>1 DEF Range
    <3> QED
      BY <3>2, <3>3
  <2>5. ASSUME NEW x \in Range(before) PROVE x \in Range(both)
    <3>1. PICK i \in DOMAIN before : x = before[i]
      BY DEF Range
    <3>2. i \in 1..(Len(before) + Len(entered)) /\ i <= Len(before)
      BY <2>2
    <3> QED
      BY <2>1, <2>3, <3>1, <3>2 DEF Range
  <2>6. ASSUME NEW x \in Range(entered) PROVE x \in Range(both)
    <3>1. PICK i \in DOMAIN entered : x = entered[i]
      BY DEF Range
    <3>2. /\ Len(before) + i \in 1..(Len(before) + Len(entered)) /\ ~(Len(before) + i <= Len(before))
          /\ (Len(before) + i) - Len(before) = i
      BY <2>2
    <3>3. both[Len(before) + i] = entered[i]
      BY <2>1, <3>2
    <3> QED
      BY <2>3, <3>1, <3>2, <3>3 DEF Range
  <2> QED
    BY <2>1, <2>4, <2>5, <2>6
<1> HIDE DEF both
<1>8. attempts \in Seq(Attempts) /\ Range(attempts) = Recent(Range(both), ScanWindow)
  <2>1. ScanWindow \in Int
    BY IntrusionConstants
  <2> QED
    BY <1>4, <1>7, <2>1, SinceOf
<1> HIDE DEF attempts
<1>9. /\ DOMAIN portScanTracker' = DOMAIN P \cup {s} /\ portScanTracker'[s] = attempts
      /\ \A q \in DOMAIN P : q # s => portScanTracker'[q] = P[q]
  BY <1>1 DEF Intrusion!Put
<1>10. TrackerOK(portScanTracker')
  BY <1>8, <1>9, PrunedOf DEF TrackerOK
<1>11. Range(entered) \subseteq Attempts
  BY <1>5 DEF Range
<1>12. attempted' \in [Sources -> SUBSET Attempts]
  BY <1>1, <1>11 DEF IntrusionInv, ScansTold
<1>13. ASSUME NEW q \in Sources
       PROVE  /\ Known(portScanTracker', q) \subseteq attempted'[q]
              /\ Recent(attempted'[q], ScanWindow) \subseteq Known(portScanTracker', q)
  <2>1. Known(P, q) = Recent(Known(portScanTracker, q), CleanupWindow)
    BY PrunedOf
  <2>2. \A a \in attempted[q] : seconds - a.time \in Int
    BY IntrusionConstants DEF IntrusionInv, ScansTold, Attempts
  <2>3. /\ Known(portScanTracker, q) \subseteq attempted[q]
        /\ Recent(attempted[q], ScanWindow) \subseteq Known(portScanTracker, q)
    BY DEF IntrusionInv, ScansTold
  <2>4. Known(P, q) \subseteq attempted[q] /\ Recent(attempted[q], ScanWindow) \subseteq Known(P, q)
    <3>1. Recent(attempted[q], ScanWindow) \subseteq Recent(attempted[q], CleanupWindow)
      BY <2>2, IntrusionConstants DEF Recent
    <3> QED
      BY <2>1, <2>3, <3>1 DEF Recent
  <2>5. CASE q = s
    <3>1. Known(portScanTracker', s) = Recent(Known(P, s) \cup Range(entered), ScanWindow)
      BY <1>6, <1>7, <1>8, <1>9 DEF Known
    <3>2. attempted'[s] = attempted[s] \cup Range(entered)
      BY <1>1 DEF IntrusionInv, ScansTold
    <3> QED
      BY <2>4, <2>5, <3>1, <3>2 DEF Recent
  <2>6. CASE q # s
    <3>1. Known(portScanTracker', q) = Known(P, q)
      BY <1>9, <2>6 DEF Known
    <3>2. attempted'[q] = attempted[q]
      BY <1>1, <2>6 DEF IntrusionInv, ScansTold
    <3> QED
      BY <2>4, <3>1, <3>2
  <2> QED
    BY <2>5, <2>6
<1>14. ScansTold'
  BY <1>1, <1>10, <1>12, <1>13 DEF ScansTold, Recent
<1>15. FloodsTold'
  BY <1>1 DEF IntrusionInv, FloodsTold, FloodAt, Intrusion!Remembered
<1> QED
  BY <1>1, <1>3, <1>14, <1>15 DEF IntrusionInv

LEMMA FloodStep ==
  ASSUME IntrusionInv, NEW d \in Targets, NEW count \in FloodCounts, NEW window \in FloodWindows,
         Intrusion!DetectFlood(d, count, window)
  PROVE  IntrusionInv'
<1> DEFINE before == Intrusion!Remembered(d)
           all == Append(before, seconds)
           K == {i \in DOMAIN all : all[i] >= seconds - window}
           times == Kept(all, K)
           n == IF times # <<>> /\ Len(times) >= count THEN 1 ELSE 0
           T == 0..MaxSeconds
           m == Len(before)
<1>1. /\ floodTracker' = IF times = <<>> THEN Intrusion!Restrict(floodTracker, DOMAIN floodTracker \ {d})
                         ELSE Intrusion!Put(floodTracker, d, times)
      /\ Intrusion!Alert(n)
      /\ flooded' = [flooded EXCEPT ![d][seconds] = @ + 1]
      /\ asked' = [asked EXCEPT ![d] = @ \cup {window}]
      /\ UNCHANGED <<idsRules, portScanTracker, seconds, attempted>>
  <2>1. times = Intrusion!Within(all, window)
    BY DEF Intrusion!Within, Intrusion!Kept, Intrusion!Nth, Kept, Nth, Intrusion!Cardinality, Cardinality
  <2>2. before = IF d \in DOMAIN floodTracker THEN floodTracker[d] ELSE <<>>
    BY DEF Intrusion!Remembered
  <2> HIDE DEF times, before
  <2> QED
    BY <2>1, <2>2 DEF Intrusion!DetectFlood
<1>2. n \in Nat
  OBVIOUS
<1> HIDE DEF n
<1>3. AlertsTold'
  BY <1>1, <1>2, AlertMore DEF IntrusionInv
<1>4. ScansTold'
  BY <1>1 DEF IntrusionInv, ScansTold, Recent
<1>5. /\ seconds \in T /\ seconds \in Nat /\ MaxSeconds \in Nat /\ window \in Int
      /\ flooded \in [Targets -> [T -> Nat]] /\ asked \in [Targets -> SUBSET FloodWindows]
      /\ FloodAt(before, seconds, flooded[d], asked[d])
  BY IntrusionConstants DEF IntrusionInv, FloodsTold
<1>6. /\ before \in Seq(T) /\ m \in Nat /\ DOMAIN before = 1..m
      /\ \A i \in 1..m : before[i] \in T /\ before[i] <= seconds
  <2>1. before \in Seq(T) /\ \A i \in DOMAIN before : before[i] <= seconds
    BY <1>5 DEF FloodAt
  <2> HIDE DEF before, T
  <2>2. m \in Nat /\ DOMAIN before = 1..m /\ \A i \in DOMAIN before : before[i] \in T
    BY <2>1
  <2> QED
    BY <2>1, <2>2
<1> HIDE DEF before, T
<1>7. /\ all \in Seq(T) /\ DOMAIN all = 1..(m + 1) /\ all[m + 1] = seconds
      /\ \A i \in 1..m : all[i] = before[i]
  BY <1>5, <1>6
<1> HIDE DEF all, m
<1>8. K \in SUBSET (DOMAIN all)
  OBVIOUS
<1> HIDE DEF K
<1>8a. all \in Seq(T)
  BY <1>7
<1>9. times \in Seq(T)
  BY <1>8, <1>8a, KeptInOrder
<1>10. \A x : x \in Range(times) <=> \E k \in K : x = all[k]
  BY <1>8, <1>8a, KeptCounted
<1>11. \A i \in DOMAIN times : times[i] <= seconds
  <2> SUFFICES ASSUME NEW i \in DOMAIN times PROVE times[i] <= seconds
    OBVIOUS
  <2>1. times[i] \in Range(times)
    BY DEF Range
  <2>2. PICK k \in K : times[i] = all[k]
    BY <1>10, <2>1
  <2>3. k \in 1..(m + 1)
    BY <1>7, <1>8
  <2>4. k = m + 1 \/ k \in 1..m
    BY <1>6, <2>3
  <2> QED
    BY <1>5, <1>6, <1>7, <2>2, <2>4
<1>12. \A t : CountAt(times, t) = CountOf(all, K, t)
  BY <1>8, <1>8a, KeptCounted
<1> HIDE DEF times
<1>12a. \A k : k \in K <=> k \in 1..(m + 1) /\ all[k] >= seconds - window
  BY <1>7 DEF K
<1>12b. \A k \in 1..(m + 1) : k = m + 1 \/ k \in 1..m
  BY <1>6
<1>13. ASSUME NEW t \in 0..seconds
       PROVE  /\ t < seconds - window => CountAt(times, t) = 0
              /\ t >= seconds - window =>
                   CountAt(times, t) = CountAt(before, t) + (IF t = seconds THEN 1 ELSE 0)
              /\ CountAt(before, t) \in Nat
  <2> DEFINE A == {i \in DOMAIN before : before[i] = t}
             B == {k \in K : all[k] = t}
  <2>0. t \in Int /\ seconds - window \in Int /\ m + 1 \in 1..(m + 1) /\ m + 1 \notin 1..m
    BY <1>5, <1>6
  <2>1. IsFiniteSet(A) /\ Cardinality(A) \in Nat /\ m + 1 \notin A
    <3>1. \A l \in Nat : IsFiniteSet(1..l)
      BY FS_Interval
    <3>2. IsFiniteSet(1..m) /\ A \subseteq 1..m
      BY <1>6, <3>1
    <3> QED
      BY <2>0, <3>2, FS_Subset, FS_CardinalityType
  <2>2. CountAt(times, t) = Cardinality(B) /\ CountAt(before, t) = Cardinality(A)
    BY <1>12 DEF CountAt, CountOf
  <2>3. t < seconds - window => B = {}
    BY <1>12a, <2>0
  <2>4. t >= seconds - window /\ t = seconds => B = A \cup {m + 1}
    <3> SUFFICES ASSUME t >= seconds - window, t = seconds PROVE B = A \cup {m + 1}
      OBVIOUS
    <3>1. \A k : k \in B <=> k \in 1..(m + 1) /\ all[k] = t
      BY <1>12a, <2>0
    <3>2. \A k : k \in A <=> k \in 1..m /\ all[k] = t
      BY <1>6, <1>7
    <3>3. \A k \in 1..m : k \in 1..(m + 1)
      BY <1>6
    <3> HIDE DEF A, B
    <3>4. \A k : k \in B <=> k \in A \/ k = m + 1
      BY <1>7, <1>12b, <2>0, <3>1, <3>2, <3>3
    <3> QED
      BY <3>4
  <2>5. t >= seconds - window /\ t # seconds => B = A
    <3> SUFFICES ASSUME t >= seconds - window, t # seconds PROVE B = A
      OBVIOUS
    <3>1. \A k : k \in B <=> k \in 1..(m + 1) /\ all[k] = t
      BY <1>12a, <2>0
    <3>2. \A k : k \in A <=> k \in 1..m /\ all[k] = t
      BY <1>6, <1>7
    <3>3. \A k \in 1..m : k \in 1..(m + 1)
      BY <1>6
    <3> HIDE DEF A, B
    <3>4. \A k : k \in B <=> k \in A
      BY <1>7, <1>12b, <2>0, <3>1, <3>2, <3>3
    <3> QED
      BY <3>4
  <2> HIDE DEF A, B
  <2>6. Cardinality({}) = 0 /\ Cardinality(A \cup {m + 1}) = Cardinality(A) + 1
    BY <2>1, FS_AddElement, FS_EmptySet
  <2>7. t < seconds - window => CountAt(times, t) = 0
    BY <2>2, <2>3, <2>6
  <2>8. t >= seconds - window /\ t = seconds => CountAt(times, t) = CountAt(before, t) + 1
    BY <2>2, <2>4, <2>6
  <2>9. t >= seconds - window /\ t # seconds => CountAt(times, t) = CountAt(before, t) + 0
    BY <2>1, <2>2, <2>5
  <2> QED
    BY <2>1, <2>2, <2>7, <2>8, <2>9
<1>14. /\ flooded' \in [Targets -> [T -> Nat]]
       /\ \A t \in T : flooded'[d][t] = flooded[d][t] + (IF t = seconds THEN 1 ELSE 0)
       /\ \A q \in Targets : q # d => flooded'[q] = flooded[q]
  <2>1. \A t \in T : flooded[d][t] \in Nat
    BY <1>5
  <2> QED
    BY <1>1, <1>5, <2>1
<1>15. /\ asked' \in [Targets -> SUBSET FloodWindows] /\ asked'[d] = asked[d] \cup {window}
       /\ \A q \in Targets : q # d => asked'[q] = asked[q]
  BY <1>1, <1>5
<1>16. seconds' = seconds
  BY <1>1
<1>17. FloodAt(times, seconds, flooded'[d], asked'[d])
  <2>1. ASSUME NEW t \in 0..seconds
        PROVE  /\ CountAt(times, t) <= flooded'[d][t]
               /\ (\A w \in asked'[d] : seconds - t <= w) => CountAt(times, t) = flooded'[d][t]
    <3>0. t \in T /\ flooded[d][t] \in Nat
      BY <1>5 DEF T
    <3>1. /\ CountAt(before, t) <= flooded[d][t]
          /\ (\A w \in asked[d] : seconds - t <= w) => CountAt(before, t) = flooded[d][t]
      BY <1>5 DEF FloodAt
    <3>2. flooded'[d][t] = flooded[d][t] + (IF t = seconds THEN 1 ELSE 0)
      BY <1>14, <3>0
    <3>3. CASE t < seconds - window
      <4>1. ~(seconds - t <= window)
        BY <1>5, <3>3
      <4>2. ~(\A w \in asked'[d] : seconds - t <= w)
        BY <1>15, <4>1
      <4>3. CountAt(times, t) = 0
        BY <1>13, <3>3
      <4> QED
        BY <3>0, <3>2, <4>2, <4>3
    <3>4. CASE t >= seconds - window
      <4>1. CountAt(times, t) = CountAt(before, t) + (IF t = seconds THEN 1 ELSE 0)
        BY <1>13, <3>4
      <4>2. (\A w \in asked'[d] : seconds - t <= w) => (\A w \in asked[d] : seconds - t <= w)
        BY <1>15
      <4>3. CountAt(before, t) \in Nat
        BY <1>13
      <4> QED
        BY <3>0, <3>1, <3>2, <4>1, <4>2, <4>3
    <3>5. t < seconds - window \/ t >= seconds - window
      BY <1>5
    <3> QED
      BY <3>3, <3>4, <3>5
  <2>2. \A t \in T : t > seconds => flooded'[d][t] = 0
    <3>1. \A t \in T : t > seconds => flooded[d][t] = 0
      BY <1>5 DEF FloodAt, T
    <3> QED
      BY <1>5, <1>14, <3>1
  <2>3. times \in Seq(0..MaxSeconds)
    BY <1>9 DEF T
  <2>4. \A t \in 0..MaxSeconds : t > seconds => flooded'[d][t] = 0
    BY <2>2 DEF T
  <2> QED
    BY <1>11, <2>1, <2>3, <2>4 DEF FloodAt
<1>18. Intrusion!Remembered(d)' = times
  <2>1. CASE times = <<>>
    <3>1. d \notin DOMAIN floodTracker'
      BY <1>1, <2>1 DEF Intrusion!Restrict
    <3> QED
      BY <2>1, <3>1 DEF Intrusion!Remembered
  <2>2. CASE times # <<>>
    <3>1. d \in DOMAIN floodTracker' /\ floodTracker'[d] = times
      BY <1>1, <2>2 DEF Intrusion!Put
    <3> QED
      BY <3>1 DEF Intrusion!Remembered
  <2> QED
    BY <2>1, <2>2
<1>19. /\ DOMAIN floodTracker' \subseteq Targets
       /\ \A q \in DOMAIN floodTracker' : floodTracker'[q] # <<>>
       /\ \A q \in Targets : q # d => (q \in DOMAIN floodTracker' <=> q \in DOMAIN floodTracker)
       /\ \A q \in DOMAIN floodTracker : q # d => floodTracker'[q] = floodTracker[q]
  <2>0. DOMAIN floodTracker \subseteq Targets /\ \A q \in DOMAIN floodTracker : floodTracker[q] # <<>>
    BY DEF IntrusionInv, FloodsTold
  <2>1. CASE times = <<>>
    <3>1. /\ DOMAIN floodTracker' = DOMAIN floodTracker \ {d}
          /\ \A q \in DOMAIN floodTracker \ {d} : floodTracker'[q] = floodTracker[q]
      BY <1>1, <2>1 DEF Intrusion!Restrict
    <3> QED
      BY <2>0, <3>1
  <2>2. CASE times # <<>>
    <3>1. /\ DOMAIN floodTracker' = DOMAIN floodTracker \cup {d} /\ floodTracker'[d] = times
          /\ \A q \in DOMAIN floodTracker \ {d} : floodTracker'[q] = floodTracker[q]
      BY <1>1, <2>2 DEF Intrusion!Put
    <3> QED
      BY <2>0, <2>2, <3>1
  <2> QED
    BY <2>1, <2>2
<1>20. ASSUME NEW q \in Targets
       PROVE  FloodAt(Intrusion!Remembered(q), seconds, flooded[q], asked[q])'
  <2>1. CASE q = d
    BY <1>16, <1>17, <1>18, <2>1
  <2>2. CASE q # d
    <3>1. Intrusion!Remembered(q)' = Intrusion!Remembered(q)
      BY <1>19, <2>2 DEF Intrusion!Remembered
    <3>2. FloodAt(Intrusion!Remembered(q), seconds, flooded[q], asked[q])
      BY DEF IntrusionInv, FloodsTold
    <3>3. flooded'[q] = flooded[q] /\ asked'[q] = asked[q]
      BY <1>14, <1>15, <2>2
    <3> QED
      BY <1>16, <3>1, <3>2, <3>3
  <2> QED
    BY <2>1, <2>2
<1>21. FloodsTold'
  BY <1>14, <1>15, <1>19, <1>20 DEF FloodsTold, T
<1> QED
  BY <1>1, <1>3, <1>4, <1>21 DEF IntrusionInv

LEMMA TickStep == ASSUME IntrusionInv, Intrusion!Tick PROVE IntrusionInv'
<1>1. /\ seconds < MaxSeconds /\ seconds' = seconds + 1
      /\ UNCHANGED <<idsRules, portScanTracker, floodTracker, idsAlerts, attempted, flooded, asked,
                     raised, calls>>
  BY DEF Intrusion!Tick, Intrusion!histories
<1>2. /\ seconds \in 0..MaxSeconds /\ seconds \in Nat /\ MaxSeconds \in Nat /\ seconds' \in 0..MaxSeconds
      /\ ScanWindow \in Nat /\ seconds' \in Nat
  BY <1>1, IntrusionConstants DEF IntrusionInv
<1>3. ScansTold'
  <2>1. ASSUME NEW s \in Sources PROVE Recent(attempted[s], ScanWindow)' \subseteq Known(portScanTracker, s)
    <3>1. \A a \in attempted[s] : a.time \in Int
      BY <1>2 DEF IntrusionInv, ScansTold, Attempts
    <3>2. Recent(attempted[s], ScanWindow)' \subseteq Recent(attempted[s], ScanWindow)
      BY <1>1, <1>2, <3>1 DEF Recent
    <3> QED
      BY <3>2 DEF IntrusionInv, ScansTold
  <2>2. /\ TrackerOK(portScanTracker') /\ attempted' \in [Sources -> SUBSET Attempts]
        /\ \A s \in Sources : Known(portScanTracker', s) \subseteq attempted'[s]
    BY <1>1 DEF IntrusionInv, ScansTold
  <2>3. \A s \in Sources : Known(portScanTracker', s) = Known(portScanTracker, s)
    BY <1>1
  <2> QED
    BY <2>1, <2>2, <2>3 DEF ScansTold
<1>4. ASSUME NEW d \in Targets
      PROVE  FloodAt(Intrusion!Remembered(d), seconds, flooded[d], asked[d])'
  <2> DEFINE r == Intrusion!Remembered(d)
  <2>1. FloodAt(r, seconds, flooded[d], asked[d]) /\ flooded[d] \in [0..MaxSeconds -> Nat] /\ asked[d] \subseteq FloodWindows
    BY DEF IntrusionInv, FloodsTold
  <2>2. r' = r
    BY <1>1 DEF Intrusion!Remembered
  <2> HIDE DEF r
  <2>3. /\ r \in Seq(0..MaxSeconds)
        /\ \A i \in DOMAIN r : r[i] <= seconds /\ r[i] \in 0..MaxSeconds
    <3>1. r \in Seq(0..MaxSeconds) /\ \A i \in DOMAIN r : r[i] <= seconds
      BY <2>1 DEF FloodAt
    <3>2. \A S : r \in Seq(S) => \A i \in DOMAIN r : r[i] \in S
      OBVIOUS
    <3> QED
      BY <3>1, <3>2
  <2>4. \A i \in DOMAIN r : r[i] <= seconds' /\ r[i] # seconds'
    BY <1>1, <1>2, <2>3
  <2>5. \A t \in 0..MaxSeconds : t > seconds' => flooded[d][t] = 0
    BY <1>1, <1>2, <2>1 DEF FloodAt
  <2>6. ASSUME NEW t \in 0..seconds'
        PROVE  /\ CountAt(r, t) <= flooded[d][t]
               /\ (\A w \in asked[d] : seconds' - t <= w) => CountAt(r, t) = flooded[d][t]
    <3>1. CASE t = seconds'
      <4>1. flooded[d][t] = 0
        BY <1>1, <1>2, <2>1, <3>1 DEF FloodAt
      <4>2. {i \in DOMAIN r : r[i] = t} = {}
        BY <2>4, <3>1
      <4>3. CountAt(r, t) = 0
        BY <4>2, FS_EmptySet DEF CountAt
      <4> QED
        BY <4>1, <4>3
    <3>2. CASE t # seconds'
      <4>1. t \in 0..seconds
        BY <1>1, <1>2, <3>2
      <4>2. (\A w \in asked[d] : seconds' - t <= w) => (\A w \in asked[d] : seconds - t <= w)
        <5>1. \A w \in asked[d] : w \in Int
          BY <2>1, IntrusionConstants
        <5>2. \A w \in asked[d] : seconds' - t <= w => seconds - t <= w
          BY <1>1, <1>2, <4>1, <5>1
        <5> QED
          BY <5>2
      <4> QED
        BY <2>1, <4>1, <4>2 DEF FloodAt
    <3> QED
      BY <3>1, <3>2
  <2>7. flooded' = flooded /\ asked' = asked
    BY <1>1
  <2> QED
    <3>1. FloodAt(r, seconds', flooded[d], asked[d])
      BY <2>3, <2>4, <2>5, <2>6 DEF FloodAt
    <3> QED
      BY <2>2, <2>7, <3>1 DEF r
<1>5. FloodsTold'
  BY <1>1, <1>4 DEF IntrusionInv, FloodsTold
<1>6. AlertsTold'
  BY <1>1 DEF IntrusionInv, AlertsTold
<1> QED
  BY <1>1, <1>2, <1>3, <1>5, <1>6 DEF IntrusionInv

LEMMA IntrusionStep == ASSUME IntrusionInv, Intrusion!Next PROVE IntrusionInv'
<1>1. ASSUME NEW r \in IDSRules, Intrusion!AddRule(r) \/ Intrusion!RemoveRule(r) PROVE IntrusionInv'
  <2> DEFINE K == {i \in DOMAIN idsRules : idsRules[i] # r}
  <2>1. /\ idsRules' = Append(idsRules, r) \/ idsRules' = Kept(idsRules, K)
        /\ UNCHANGED <<portScanTracker, floodTracker, idsAlerts, seconds, attempted, flooded, asked, raised>>
    BY <1>1 DEF Intrusion!AddRule, Intrusion!RemoveRule, Intrusion!histories, Intrusion!Kept,
       Intrusion!Nth, Kept, Nth, Intrusion!Cardinality, Cardinality
  <2>2. idsRules \in Seq(IDSRules) /\ K \in SUBSET (DOMAIN idsRules)
    BY DEF IntrusionInv
  <2>3. Kept(idsRules, K) \in Seq(IDSRules)
    BY <2>2, KeptInOrder
  <2> HIDE DEF K
  <2>4. idsRules' \in Seq(IDSRules)
    BY <2>1, <2>2, <2>3
  <2>5. ScansTold' /\ FloodsTold' /\ AlertsTold'
    BY <2>1 DEF IntrusionInv, ScansTold, FloodsTold, AlertsTold, FloodAt, Recent, Intrusion!Remembered
  <2> QED
    BY <2>1, <2>4, <2>5 DEF IntrusionInv
<1>2. CASE Intrusion!ClearAlerts
  <2>1. /\ idsAlerts' = <<>> /\ raised' = 0
        /\ UNCHANGED <<idsRules, portScanTracker, floodTracker, seconds, attempted, flooded, asked>>
    BY <1>2 DEF Intrusion!ClearAlerts, Intrusion!histories
  <2>2. ScansTold' /\ FloodsTold'
    BY <2>1 DEF IntrusionInv, ScansTold, FloodsTold, FloodAt, Recent, Intrusion!Remembered
  <2>3. AlertsTold'
    <3>1. Len(idsAlerts') = 0 /\ 0 < KMaxAlerts
      BY <2>1, IntrusionConstants
    <3>2. idsAlerts' = [i \in 1..0 |-> 0 - 0 + i]
      BY <2>1
    <3> QED
      BY <2>1, <3>1, <3>2 DEF AlertsTold
  <2> QED
    BY <2>1, <2>2, <2>3 DEF IntrusionInv
<1> QED
  BY <1>1, <1>2, EvaluateStep, PortScanStep, FloodStep, TickStep DEF Intrusion!Next

LEMMA IntrusionInit == ASSUME Intrusion!Init PROVE IntrusionInv
<1>1. /\ idsRules = <<>> /\ DOMAIN portScanTracker = {} /\ DOMAIN floodTracker = {}
      /\ idsAlerts = <<>> /\ seconds = 0 /\ raised = 0
      /\ attempted = [s \in Sources |-> {}] /\ asked = [d \in Targets |-> {}]
      /\ flooded = [d \in Targets |-> [i \in 0..MaxSeconds |-> 0]]
  BY DEF Intrusion!Init
<1>2. ScansTold
  BY <1>1 DEF ScansTold, TrackerOK, Known, Recent
<1>3. ASSUME NEW d \in Targets
      PROVE  FloodAt(Intrusion!Remembered(d), seconds, flooded[d], asked[d])
  <2>1. Intrusion!Remembered(d) = <<>>
    BY <1>1 DEF Intrusion!Remembered
  <2>2. \A t : CountAt(<<>>, t) = 0
    <3>1. \A t : {i \in DOMAIN <<>> : <<>>[i] = t} = {}
      OBVIOUS
    <3> QED
      BY <3>1, FS_EmptySet DEF CountAt
  <2>3. \A t \in 0..MaxSeconds : flooded[d][t] = 0
    BY <1>1
  <2>4. 0..seconds \subseteq 0..MaxSeconds
    BY <1>1, IntrusionConstants
  <2>5. <<>> \in Seq(0..MaxSeconds) /\ DOMAIN <<>> = {}
    OBVIOUS
  <2> QED
    BY <2>1, <2>2, <2>3, <2>4, <2>5 DEF FloodAt
<1>4. FloodsTold
  BY <1>1, <1>3 DEF FloodsTold
<1>5. AlertsTold
  <2>1. Len(idsAlerts) = 0 /\ 0 < KMaxAlerts
    BY <1>1, IntrusionConstants
  <2>2. idsAlerts = [i \in 1..0 |-> 0 - 0 + i]
    BY <1>1
  <2> QED
    BY <1>1, <2>1, <2>2 DEF AlertsTold
<1>6. idsRules \in Seq(IDSRules) /\ seconds \in 0..MaxSeconds
  BY <1>1, IntrusionConstants
<1> QED
  BY <1>2, <1>4, <1>5, <1>6 DEF IntrusionInv

LEMMA IntrusionImplies ==
  ASSUME IntrusionInv PROVE Intrusion!IntrusionTypeOK /\ Intrusion!WindowsExact
<1>1. Intrusion!IntrusionTypeOK
  <2>1. ASSUME NEW d \in DOMAIN floodTracker
        PROVE  floodTracker[d] \in Seq(0..MaxSeconds) /\ floodTracker[d] # <<>>
    <3>1. d \in Targets /\ floodTracker[d] # <<>> /\ FloodAt(Intrusion!Remembered(d), seconds, flooded[d], asked[d])
      BY DEF IntrusionInv, FloodsTold
    <3> QED
      BY <3>1 DEF FloodAt, Intrusion!Remembered
  <2> QED
    BY <2>1 DEF Intrusion!IntrusionTypeOK, IntrusionInv, ScansTold, TrackerOK, FloodsTold, AlertsTold
<1>2. ASSUME NEW s \in Sources
      PROVE  {a \in Known(portScanTracker, s) : seconds - a.time <= ScanWindow}
               = {a \in attempted[s] : seconds - a.time <= ScanWindow}
  BY DEF IntrusionInv, ScansTold, Recent
<1>3. \A s \in Sources : Known(portScanTracker, s)
        = IF s \in DOMAIN portScanTracker THEN Intrusion!Range(portScanTracker[s]) ELSE {}
  BY DEF Known, Range, Intrusion!Range
<1>4. ASSUME NEW d \in Targets, NEW t \in 0..seconds
      PROVE  LET times == CountAt(Intrusion!Remembered(d), t) IN
             /\ times <= flooded[d][t]
             /\ (\A w \in asked[d] : seconds - t <= w) => times = flooded[d][t]
  BY DEF IntrusionInv, FloodsTold, FloodAt
<1>5. ASSUME NEW d \in Targets, NEW t \in 0..seconds
      PROVE  LET times == Cardinality({i \in DOMAIN Intrusion!Remembered(d) : Intrusion!Remembered(d)[i] = t})
             IN /\ times <= flooded[d][t]
                /\ (\A w \in asked[d] : seconds - t <= w) => times = flooded[d][t]
  BY <1>4 DEF CountAt
<1>6. /\ idsAlerts = [i \in 1..Len(idsAlerts) |-> raised - Len(idsAlerts) + i]
      /\ Len(idsAlerts) = IF raised < KMaxAlerts THEN raised ELSE KMaxAlerts
  BY DEF IntrusionInv, AlertsTold
<1>7. ASSUME NEW s \in Sources
      PROVE  LET known == IF s \in DOMAIN portScanTracker THEN Intrusion!Range(portScanTracker[s]) ELSE {}
             IN {a \in known : seconds - a.time <= ScanWindow}
                  = {a \in attempted[s] : seconds - a.time <= ScanWindow}
  BY <1>2, <1>3
<1> QED
  BY <1>1, <1>5, <1>6, <1>7 DEF Intrusion!WindowsExact, Intrusion!Cardinality, Cardinality

(* A repetition is suppressed only for an alert that is there, whatever    *)
(* the windows, the capacities and the changes of status in between; scans *)
(* and floods are judged by all that happened within their windows, and    *)
(* the list holds the latest alerts (AlertManager::generateAlert,          *)
(* IntrusionDetector::detectPortScan, detectSYNFlood, detectBruteForce).   *)
THEOREM WindowsRespectedHolds == Spec => []WindowsRespected
<1> DEFINE Inv == AlertInv /\ IntrusionInv
<1>1. Init => Inv
  BY AlertInit, IntrusionInit DEF Init
<1>2. Inv /\ [Next]_services => Inv'
  <2> SUFFICES ASSUME Inv, [Next]_services PROVE Inv'
    OBVIOUS
  <2>1. Alerting!Next => AlertInv'
    BY AlertStep
  <2>2. Intrusion!Next => IntrusionInv'
    BY IntrusionStep
  <2>3. UNCHANGED alertVars => AlertInv'
    BY DEF alertVars, AlertInv, Alerting!AlertTypeOK
  <2>4. UNCHANGED intrusionVars => IntrusionInv'
    BY DEF intrusionVars, IntrusionInv, ScansTold, FloodsTold, AlertsTold, Recent,
       Intrusion!Remembered
  <2>5. Alerting!Next \/ UNCHANGED alertVars
    BY DEF Next, ServiceStep, PluginStep, RemoteStep, WatchStep, services, watchSide
  <2>6. Intrusion!Next \/ UNCHANGED intrusionVars
    BY DEF Next, ServiceStep, PluginStep, RemoteStep, WatchStep, services, watchSide
  <2> QED
    BY <2>1, <2>2, <2>3, <2>4, <2>5, <2>6
<1>3. Inv => WindowsRespected
  BY AlertImplies, IntrusionImplies DEF WindowsRespected
<1> QED
  BY <1>1, <1>2, <1>3, PTL DEF Spec
-----------------------------------------------------------------------------
(* Batches of telemetry.                                                   *)

EventItems  == [number : 1..MaxItems, size : Sizes]
MetricItems == [number : 1..MaxItems]

(* The numbers of a queue q and of the parts f[b] of the batches are in    *)
(* one line.                                                               *)
Rising(s)    == \A i, j \in DOMAIN s : i < j => s[i].number < s[j].number
Before(s, t) == \A i \in DOMAIN s, j \in DOMAIN t : s[i].number < t[j].number
InLine(q, f) ==
  /\ Rising(q)
  /\ \A b \in DOMAIN f : Rising(f[b]) /\ Before(f[b], q)
  /\ \A b, c \in DOMAIN f : b < c => Before(f[b], f[c])

EventsOf  == [b \in DOMAIN batches |-> batches[b].events]
MetricsOf == [b \in DOMAIN batches |-> batches[b].metrics]
LengthsOf == [b \in DOMAIN batches |-> Len(batches[b].events) + Len(batches[b].metrics)]

Batches == [events : Seq(EventItems), metrics : Seq(MetricItems), totalSize : Nat, limits : Limits]
WithinLimits(x) ==
  /\ Len(x.events) + Len(x.metrics) <= x.limits.items
  /\ Len(x.events) <= 1 \/ x.totalSize <= x.limits.bytes
  /\ x.totalSize = Transport!Bytes(x.events)

(* What the statistics count.                                              *)
Counted ==
  /\ Len(eventQueue) + Len(metricQueue) + Cardinality(flushed) + Cardinality(cleared)
       + SumFunction(LengthsOf) = nextItem - 1
  /\ sent.batches + Cardinality(DOMAIN batches) = nextBatch - 1
  /\ sent.events = Cardinality(Transport!SentEvents)
  /\ sent.bytes = SumFunction([x \in Transport!SentEvents |-> x.size])

Told == {x.number : x \in Transport!Held \cup Transport!Ended}

TransportInv ==
  /\ Transport!TransportTypeOK
  /\ nextBatch \in Nat \ {0} /\ batches \in [DOMAIN batches -> Batches]
  /\ \A b \in DOMAIN batches : WithinLimits(batches[b])
  /\ InLine(eventQueue, EventsOf) /\ InLine(metricQueue, MetricsOf)
  /\ Told = 1..(nextItem - 1) /\ Transport!Held \cap Transport!Ended = {}
  /\ Transport!Ended \subseteq EventItems \cup MetricItems
  /\ IsFiniteSet(flushed) /\ IsFiniteSet(cleared)
  /\ Counted

LEMMA TransportConstants ==
  /\ MaxItems \in Nat /\ Sizes \subseteq Nat /\ Limits \subseteq [items : Nat, bytes : Nat]
  BY ServiceConstants DEF Transport!TransportAssumption

(* Events have a size, metrics do not.                                     *)
LEMMA ItemsApart ==
  /\ \A x \in EventItems : "size" \in DOMAIN x /\ x.size \in Nat /\ x.number \in 1..MaxItems
  /\ \A x \in MetricItems : "size" \notin DOMAIN x /\ x.number \in 1..MaxItems
  BY TransportConstants DEF EventItems, MetricItems

LEMMA SumsOfTransport ==
  /\ \A s : Transport!Bytes(s) = SumFunction([i \in DOMAIN s |-> s[i].size])
  /\ Transport!SumFunction(LengthsOf) = SumFunction(LengthsOf)
  /\ Transport!SumFunction([x \in Transport!SentEvents |-> x.size])
       = SumFunction([x \in Transport!SentEvents |-> x.size])
  BY DEF Transport!Bytes, Transport!SumFunction, Transport!SumFunctionOnSet,
     Transport!FoldFunctionOnSet, Transport!MapThenFoldSet,
     SumFunction, SumFunctionOnSet, FoldFunctionOnSet, MapThenFoldSet

LEMMA LineLonger ==
  ASSUME NEW R, NEW q \in Seq(R), NEW f, NEW x, InLine(q, f),
         \A i \in DOMAIN q : q[i].number < x.number,
         \A b \in DOMAIN f : \A i \in DOMAIN f[b] : f[b][i].number < x.number
  PROVE  InLine(Append(q, x), f)
<1> DEFINE r == Append(q, x)
           n == Len(q)
<1>1. n \in Nat /\ DOMAIN q = 1..n /\ DOMAIN r = 1..(n + 1) /\ r[n + 1] = x
      /\ \A i \in 1..n : r[i] = q[i]
  OBVIOUS
<1>2. \A i \in 1..(n + 1) : i = n + 1 \/ i \in 1..n
  BY <1>1
<1> HIDE DEF r, n
<1>3. Rising(r)
  <2> SUFFICES ASSUME NEW i \in 1..(n + 1), NEW j \in 1..(n + 1), i < j PROVE r[i].number < r[j].number
    BY <1>1 DEF Rising
  <2>1. i \in 1..n
    BY <1>1
  <2>2. CASE j \in 1..n
    BY <1>1, <2>1, <2>2 DEF InLine, Rising
  <2>3. CASE j = n + 1
    BY <1>1, <2>1, <2>3
  <2> QED
    BY <1>2, <2>2, <2>3
<1>4. ASSUME NEW b \in DOMAIN f PROVE Before(f[b], r)
  <2> SUFFICES ASSUME NEW i \in DOMAIN f[b], NEW j \in 1..(n + 1) PROVE f[b][i].number < r[j].number
    BY <1>1 DEF Before
  <2>1. CASE j \in 1..n
    BY <1>1, <2>1 DEF InLine, Before
  <2>2. CASE j = n + 1
    BY <1>1, <2>2
  <2> QED
    BY <1>2, <2>1, <2>2
<1> QED
  BY <1>3, <1>4 DEF InLine, r

(* The first k of a queue go into a batch behind all others.               *)
LEMMA LineTaken ==
  ASSUME NEW R, NEW q \in Seq(R), NEW f, NEW k \in 0..Len(q), InLine(q, f),
         NEW g, NEW n, DOMAIN g = DOMAIN f \cup {n}, \A b \in DOMAIN f : g[b] = f[b] /\ b < n /\ ~(n < b),
         n \notin DOMAIN f, ~(n < n), g[n] = SubSeq(q, 1, k)
  PROVE  InLine(SubSeq(q, k + 1, Len(q)), g)
<1> DEFINE s == SubSeq(q, 1, k)
           t == SubSeq(q, k + 1, Len(q))
<1>1. /\ Len(q) \in Nat /\ k \in Nat /\ DOMAIN q = 1..Len(q)
      /\ DOMAIN s = 1..k /\ \A i \in 1..k : s[i] = q[i] /\ i \in DOMAIN q
      /\ DOMAIN t = 1..(Len(q) - k)
      /\ \A i \in 1..(Len(q) - k) : t[i] = q[k + i] /\ k + i \in DOMAIN q
  <2>1. Len(q) \in Nat /\ k \in Nat /\ DOMAIN q = 1..Len(q) /\ k <= Len(q)
    OBVIOUS
  <2>2. DOMAIN s = 1..k /\ \A i \in 1..k : s[i] = q[i]
    BY <2>1
  <2>3. DOMAIN t = 1..(Len(q) - k) /\ \A i \in 1..(Len(q) - k) : t[i] = q[k + i]
    BY <2>1
  <2> QED
    BY <2>1, <2>2, <2>3
<1> HIDE DEF s, t
<1>2. Rising(s) /\ Rising(t) /\ Before(s, t)
  <2>0. Rising(q)
    BY DEF InLine
  <2>1. \A i \in 1..k, j \in 1..(Len(q) - k) : i < k + j
    BY <1>1
  <2>2. \A i, j \in 1..(Len(q) - k) : i < j => k + i < k + j
    BY <1>1
  <2>3. Rising(s)
    BY <1>1, <2>0 DEF Rising
  <2>4. Rising(t)
    <3> SUFFICES ASSUME NEW i \in 1..(Len(q) - k), NEW j \in 1..(Len(q) - k), i < j
                 PROVE  t[i].number < t[j].number
      BY <1>1 DEF Rising
    <3>1. k + i < k + j
      BY <2>2
    <3>2. k + i \in DOMAIN q /\ k + j \in DOMAIN q /\ t[i] = q[k + i] /\ t[j] = q[k + j]
      BY <1>1
    <3> DEFINE a == k + i
               b == k + j
    <3> HIDE DEF a, b
    <3>3. q[a].number < q[b].number
      BY <2>0, <3>1, <3>2 DEF Rising, a, b
    <3> QED
      BY <3>2, <3>3 DEF a, b
  <2>5. Before(s, t)
    <3> SUFFICES ASSUME NEW i \in 1..k, NEW j \in 1..(Len(q) - k)
                 PROVE  s[i].number < t[j].number
      BY <1>1 DEF Before
    <3>1. i < k + j
      BY <2>1
    <3>2. i \in DOMAIN q /\ k + j \in DOMAIN q /\ s[i] = q[i] /\ t[j] = q[k + j]
      BY <1>1
    <3> DEFINE b == k + j
    <3> HIDE DEF b
    <3>3. q[i].number < q[b].number
      BY <2>0, <3>1, <3>2 DEF Rising, b
    <3> QED
      BY <3>2, <3>3 DEF b
  <2> QED
    BY <2>3, <2>4, <2>5
<1>3. \A b \in DOMAIN f : Before(f[b], s) /\ Before(f[b], t)
  <2>1. \A b \in DOMAIN f : Before(f[b], q)
    BY DEF InLine
  <2>2. \A b \in DOMAIN f : Before(f[b], s)
    BY <1>1, <2>1 DEF Before
  <2>3. \A b \in DOMAIN f : Before(f[b], t)
    <3> SUFFICES ASSUME NEW b \in DOMAIN f, NEW i \in DOMAIN f[b], NEW j \in 1..(Len(q) - k)
                 PROVE  f[b][i].number < t[j].number
      BY <1>1 DEF Before
    <3>1. k + j \in DOMAIN q /\ t[j] = q[k + j]
      BY <1>1
    <3> QED
      BY <2>1, <3>1 DEF Before
  <2> QED
    BY <2>2, <2>3
<1> QED
  BY <1>2, <1>3 DEF InLine, s, t

LEMMA LineLeft ==
  ASSUME NEW q, NEW f, NEW g, InLine(q, f), DOMAIN g \subseteq DOMAIN f,
         \A b \in DOMAIN g : g[b] = f[b]
  PROVE  InLine(q, g) /\ InLine(<<>>, g)
<1>1. Rising(<<>>) /\ \A s : Before(s, <<>>)
  BY DEF Rising, Before
<1> QED
  BY <1>1 DEF InLine

(* Rising sequences have no element twice.                                 *)
LEMMA RisingDistinct ==
  ASSUME NEW R, NEW s \in Seq(R), Rising(s), \A r \in R : r.number \in Int
  PROVE  /\ \A i, j \in DOMAIN s : s[i] = s[j] => i = j
         /\ IsFiniteSet(Range(s)) /\ Cardinality(Range(s)) = Len(s) /\ Len(s) \in Nat
         /\ Range(s) \subseteq R
<1>1. Len(s) \in Nat /\ DOMAIN s = 1..Len(s) /\ \A i \in DOMAIN s : s[i] \in R
  OBVIOUS
<1>2. \A i, j \in DOMAIN s : s[i] = s[j] => i = j
  <2> SUFFICES ASSUME NEW i \in DOMAIN s, NEW j \in DOMAIN s, s[i] = s[j] PROVE i = j
    OBVIOUS
  <2>1. s[i].number \in Int /\ s[j].number \in Int /\ s[i].number = s[j].number
    BY <1>1
  <2>2. ~(i < j) /\ ~(j < i)
    BY <2>1 DEF Rising
  <2> QED
    BY <1>1, <2>2
<1>3. Range(s) \subseteq R
  BY <1>1 DEF Range
<1>4. IsFiniteSet(1..Len(s)) /\ Cardinality(1..Len(s)) = Len(s)
  BY <1>1, FS_Interval
<1>5. s \in [1..Len(s) -> Range(s)] /\ \A x \in Range(s) : \E i \in 1..Len(s) : s[i] = x
  BY <1>1 DEF Range
<1>6. s \in Surjection(1..Len(s), Range(s)) /\ s \in Injection(1..Len(s), Range(s))
  BY <1>1, <1>2, <1>5 DEF Surjection, Injection, IsInjective
<1> DEFINE I == 1..Len(s)
           T == Range(s)
<1> HIDE DEF I, T
<1>7. s \in Surjection(I, T) /\ s \in Injection(I, T) /\ IsFiniteSet(I)
  BY <1>4, <1>6 DEF I, T
<1>8. IsFiniteSet(T)
  BY <1>7, FS_Surjection
<1>9. Cardinality(T) = Cardinality(I)
  BY <1>7, <1>8, FS_Surjection
<1> QED
  BY <1>1, <1>2, <1>3, <1>4, <1>8, <1>9 DEF I, T

(* What is held is in a queue or in a batch.                               *)
LEMMA HeldWhere ==
  /\ \A x : x \in Transport!Held <=>
       \/ x \in Range(eventQueue) \/ x \in Range(metricQueue)
       \/ \E b \in DOMAIN batches : x \in Range(batches[b].events) \/ x \in Range(batches[b].metrics)
  /\ \A s : Transport!Range(s) = Range(s)
<1>1. \A s : Transport!Range(s) = Range(s)
  BY DEF Transport!Range, Range
<1> QED
  BY <1>1 DEF Transport!Held

LEMMA TransportFacts ==
  ASSUME TransportInv
  PROVE  /\ eventQueue \in Seq(EventItems) /\ metricQueue \in Seq(MetricItems)
         /\ Len(eventQueue) \in Nat /\ Len(metricQueue) \in Nat
         /\ nextItem \in 1..(MaxItems + 1) /\ nextItem \in Nat /\ nextBatch \in Nat
         /\ IsFiniteSet(DOMAIN batches) /\ nextBatch \notin DOMAIN batches
         /\ Cardinality(DOMAIN batches) \in Nat
         /\ \A b \in DOMAIN batches : b \in Nat /\ b < nextBatch
         /\ LengthsOf \in [DOMAIN batches -> Nat] /\ SumFunction(LengthsOf) \in Nat
         /\ Cardinality(flushed) \in Nat /\ Cardinality(cleared) \in Nat
         /\ \A x \in Transport!Held \cup Transport!Ended : x.number \in 1..(nextItem - 1)
<1>1. /\ eventQueue \in Seq(EventItems) /\ metricQueue \in Seq(MetricItems)
      /\ nextItem \in 1..(MaxItems + 1) /\ nextBatch \in Nat
      /\ DOMAIN batches \subseteq 1..(nextBatch - 1)
  BY DEF TransportInv, Transport!TransportTypeOK, EventItems, MetricItems
<1>2. nextItem \in Nat
  BY <1>1, TransportConstants
<1>3. \A b \in DOMAIN batches : b \in Nat /\ b < nextBatch
  BY <1>1
<1>4. IsFiniteSet(DOMAIN batches) /\ Cardinality(DOMAIN batches) \in Nat
  <2>1. IsFiniteSet(1..(nextBatch - 1))
    BY <1>1, FS_Interval
  <2> QED
    BY <1>1, <2>1, FS_Subset, FS_CardinalityType
<1>5. LengthsOf \in [DOMAIN batches -> Nat]
  <2> SUFFICES ASSUME NEW b \in DOMAIN batches
               PROVE  Len(batches[b].events) + Len(batches[b].metrics) \in Nat
    BY DEF LengthsOf
  <2>1. batches[b] \in Batches
    BY DEF TransportInv
  <2>2. batches[b].events \in Seq(EventItems) /\ batches[b].metrics \in Seq(MetricItems)
    BY <2>1 DEF Batches
  <2>3. Len(batches[b].events) \in Nat /\ Len(batches[b].metrics) \in Nat
    BY <2>2
  <2> DEFINE m == Len(batches[b].events)
             n == Len(batches[b].metrics)
  <2> HIDE DEF m, n
  <2>4. m \in Nat /\ n \in Nat
    BY <2>3 DEF m, n
  <2>5. m + n \in Nat
    BY <2>4
  <2> QED
    BY <2>5 DEF m, n
<1>6. \A x \in Transport!Held \cup Transport!Ended : x.number \in 1..(nextItem - 1)
  BY DEF TransportInv, Told
<1>7. Cardinality(flushed) \in Nat /\ Cardinality(cleared) \in Nat
  BY FS_CardinalityType DEF TransportInv
<1>8. Len(eventQueue) \in Nat /\ Len(metricQueue) \in Nat
  BY <1>1
<1>9. nextBatch \notin DOMAIN batches
  BY <1>1, <1>3
<1> QED
  BY <1>1, <1>2, <1>3, <1>4, <1>5, <1>6, <1>7, <1>8, <1>9, SumNat

(* An item that comes has a number of its own.                             *)
LEMMA EnqueueStep ==
  ASSUME TransportInv, nextItem <= MaxItems, nextItem' = nextItem + 1,
         NEW x, x.number = nextItem,
         \/ /\ x \in EventItems /\ eventQueue' = Append(eventQueue, x) /\ UNCHANGED metricQueue
         \/ /\ x \in MetricItems /\ metricQueue' = Append(metricQueue, x) /\ UNCHANGED eventQueue,
         UNCHANGED <<batches, enabled, limits, sent, nextBatch, flushed, cleared>>
  PROVE  TransportInv'
<1>0. /\ eventQueue \in Seq(EventItems) /\ metricQueue \in Seq(MetricItems)
      /\ nextItem \in 1..(MaxItems + 1) /\ nextItem \in Nat /\ MaxItems \in Nat
  BY TransportFacts, TransportConstants
<1>1. Transport!TransportTypeOK'
  <2>1. eventQueue' \in Seq(EventItems) /\ metricQueue' \in Seq(MetricItems)
    <3>1. CASE x \in EventItems /\ eventQueue' = Append(eventQueue, x) /\ UNCHANGED metricQueue
      BY <1>0, <3>1
    <3>2. CASE x \in MetricItems /\ metricQueue' = Append(metricQueue, x) /\ UNCHANGED eventQueue
      BY <1>0, <3>2
    <3> QED
      BY <3>1, <3>2
  <2>2. nextItem' \in 1..(MaxItems + 1)
    BY <1>0
  <2> QED
    BY <2>1, <2>2 DEF TransportInv, Transport!TransportTypeOK, EventItems, MetricItems
<1>2. /\ EventsOf' = EventsOf /\ MetricsOf' = MetricsOf /\ LengthsOf' = LengthsOf
      /\ Transport!Ended' = Transport!Ended /\ Transport!SentEvents' = Transport!SentEvents
  BY DEF EventsOf, MetricsOf, LengthsOf, Transport!Ended, Transport!SentEvents
<1>3. \A y : y \in Transport!Held' <=> y \in Transport!Held \/ y = x
  <2>1. \A R : \A s \in Seq(R) : \A z : z \in Range(Append(s, x)) <=> z \in Range(s) \/ z = x
    <3> SUFFICES ASSUME NEW R, NEW s \in Seq(R), NEW z
                 PROVE  z \in Range(Append(s, x)) <=> z \in Range(s) \/ z = x
      OBVIOUS
    <3>1. /\ Len(s) \in Nat /\ DOMAIN s = 1..Len(s) /\ DOMAIN Append(s, x) = 1..(Len(s) + 1)
          /\ Append(s, x)[Len(s) + 1] = x /\ \A i \in 1..Len(s) : Append(s, x)[i] = s[i]
      OBVIOUS
    <3>2. \A i : i \in 1..(Len(s) + 1) <=> i \in 1..Len(s) \/ i = Len(s) + 1
      BY <3>1
    <3> QED
      BY <3>1, <3>2 DEF Range
  <2>2. \A y : y \in Transport!Held' <=>
          \/ y \in Range(eventQueue') \/ y \in Range(metricQueue')
          \/ \E b \in DOMAIN batches : y \in Range(batches[b].events) \/ y \in Range(batches[b].metrics)
    BY HeldWhere DEF Transport!Held, Transport!Range, Range
  <2>3. \A y : (y \in Range(eventQueue') \/ y \in Range(metricQueue'))
                 <=> (y \in Range(eventQueue) \/ y \in Range(metricQueue) \/ y = x)
    <3>1. \A z : z \in Range(Append(eventQueue, x)) <=> z \in Range(eventQueue) \/ z = x
      BY <1>0, <2>1
    <3>2. \A z : z \in Range(Append(metricQueue, x)) <=> z \in Range(metricQueue) \/ z = x
      BY <1>0, <2>1
    <3> QED
      BY <3>1, <3>2
  <2> QED
    BY <2>2, <2>3, HeldWhere
<1>4. \A y \in Transport!Held \cup Transport!Ended : y.number < nextItem
  BY <1>0, TransportFacts
<1>5. Told' = 1..(nextItem' - 1) /\ Transport!Held' \cap Transport!Ended' = {}
  <2>1. \A n : n \in Told' <=> n \in Told \/ n = nextItem
    BY <1>2, <1>3 DEF Told
  <2>2. Told = 1..(nextItem - 1) /\ Transport!Held \cap Transport!Ended = {}
    BY DEF TransportInv
  <2>3. x \notin Transport!Ended
    BY <1>0, <1>4
  <2>4. \A n : n \in 1..(nextItem' - 1) <=> n \in 1..(nextItem - 1) \/ n = nextItem
    BY <1>0
  <2>5. Told' = 1..(nextItem' - 1)
    BY <2>1, <2>2, <2>4
  <2> QED
    BY <1>2, <1>3, <2>2, <2>3, <2>5
<1>6. InLine(eventQueue, EventsOf)' /\ InLine(metricQueue, MetricsOf)'
  <2>1. InLine(eventQueue, EventsOf) /\ InLine(metricQueue, MetricsOf)
    BY DEF TransportInv
  <2>2. /\ \A i \in DOMAIN eventQueue : eventQueue[i].number < x.number
        /\ \A i \in DOMAIN metricQueue : metricQueue[i].number < x.number
        /\ \A b \in DOMAIN EventsOf : \A i \in DOMAIN EventsOf[b] : EventsOf[b][i].number < x.number
        /\ \A b \in DOMAIN MetricsOf : \A i \in DOMAIN MetricsOf[b] : MetricsOf[b][i].number < x.number
    <3>1. /\ \A i \in DOMAIN eventQueue : eventQueue[i] \in Transport!Held
          /\ \A i \in DOMAIN metricQueue : metricQueue[i] \in Transport!Held
      BY HeldWhere DEF Range
    <3>2. \A b \in DOMAIN batches : /\ \A i \in DOMAIN batches[b].events : batches[b].events[i] \in Transport!Held
                                    /\ \A i \in DOMAIN batches[b].metrics : batches[b].metrics[i] \in Transport!Held
      BY HeldWhere DEF Range
    <3> QED
      BY <1>4, <3>1, <3>2 DEF EventsOf, MetricsOf
  <2>3. CASE eventQueue' = Append(eventQueue, x) /\ UNCHANGED metricQueue
    <3>1. InLine(Append(eventQueue, x), EventsOf)
      BY <1>0, <2>1, <2>2, LineLonger
    <3> QED
      BY <1>2, <2>1, <2>3, <3>1
  <2>4. CASE metricQueue' = Append(metricQueue, x) /\ UNCHANGED eventQueue
    <3>1. InLine(Append(metricQueue, x), MetricsOf)
      BY <1>0, <2>1, <2>2, LineLonger
    <3> QED
      BY <1>2, <2>1, <2>4, <3>1
  <2> QED
    BY <2>3, <2>4
<1>7. Counted'
  <2>1. Len(eventQueue') + Len(metricQueue') = Len(eventQueue) + Len(metricQueue) + 1
    BY <1>0
  <2>2. /\ Len(eventQueue) + Len(metricQueue) + Cardinality(flushed) + Cardinality(cleared)
             + SumFunction(LengthsOf) = nextItem - 1
        /\ Len(eventQueue) \in Nat /\ Len(metricQueue) \in Nat /\ SumFunction(LengthsOf) \in Nat
        /\ Cardinality(flushed) \in Nat /\ Cardinality(cleared) \in Nat
    BY TransportFacts DEF Counted, TransportInv
  <2>3. /\ Cardinality(flushed') = Cardinality(flushed) /\ Cardinality(cleared') = Cardinality(cleared)
        /\ SumFunction(LengthsOf)' = SumFunction(LengthsOf)
    BY <1>2
  <2>4. Len(eventQueue') + Len(metricQueue') + Cardinality(flushed') + Cardinality(cleared')
             + SumFunction(LengthsOf)' = nextItem' - 1
    <3> DEFINE l == Len(eventQueue) + Len(metricQueue)
               c == Cardinality(flushed)
               d == Cardinality(cleared)
               n == SumFunction(LengthsOf)
    <3>1. l \in Nat
      BY <2>2
    <3> HIDE DEF l, c, d, n
    <3>2. l + c + d + n = nextItem - 1 /\ c \in Nat /\ d \in Nat /\ n \in Nat
      BY <2>2 DEF l, c, d, n
    <3>3. (l + 1) + c + d + n = nextItem' - 1
      BY <1>0, <3>1, <3>2
    <3> QED
      BY <2>1, <2>3, <3>3 DEF l, c, d, n
  <2>5. sent.batches + Cardinality(DOMAIN batches) = nextBatch - 1
        /\ sent.events = Cardinality(Transport!SentEvents)
        /\ sent.bytes = SumFunction([y \in Transport!SentEvents |-> y.size])
    BY DEF Counted, TransportInv
  <2> QED
    BY <1>2, <2>4, <2>5 DEF Counted
<1>8. \A b \in DOMAIN batches' : WithinLimits(batches'[b])
  BY DEF TransportInv
<1> QED
  BY <1>1, <1>2, <1>5, <1>6, <1>7, <1>8 DEF TransportInv

(* createBatch() takes a number of events that fits.                       *)
LEMMA FittingNumber ==
  ASSUME TransportInv
  PROVE  LET room == Transport!Least(Len(eventQueue), limits.items)
             k == Transport!Max({n \in 0..room : \A i \in 0..n : Transport!Fits(i)})
         IN k \in 0..room /\ room \in Nat /\ Transport!Fits(k)
<1> DEFINE room == Transport!Least(Len(eventQueue), limits.items)
           F == {n \in 0..room : \A i \in 0..n : Transport!Fits(i)}
<1>1. room \in Nat
  <2>1. Len(eventQueue) \in Nat
    BY TransportFacts
  <2>2. limits.items \in Nat
    BY TransportConstants DEF TransportInv, Transport!TransportTypeOK
  <2> QED
    BY <2>1, <2>2 DEF Transport!Least
<1> HIDE DEF room
<1>2. 0 \in F
  <2>1. \A i \in 0..0 : Transport!Fits(i)
    BY DEF Transport!Fits
  <2> QED
    BY <1>1, <2>1
<1>3. \E k \in F : \A n \in F : k >= n
  <2> DEFINE I == {i \in 1..(room + 1) : room + 1 - i \in F}
  <2>1. room + 1 \in I /\ I \in SUBSET (1..(room + 1)) /\ room + 1 \in Nat
    BY <1>1, <1>2
  <2>2. \E m \in I : \A i \in I : m <= i
    <3> HIDE DEF I
    <3> QED
      BY <2>1, LeastExists
  <2>3. PICK m \in I : \A i \in I : m <= i
    BY <2>2
  <2>4. \A n \in F : n \in 0..room /\ room + 1 - n \in 1..(room + 1) /\ room + 1 - (room + 1 - n) = n
    BY <1>1
  <2> HIDE DEF F
  <2>5. \A n \in F : m <= room + 1 - n
    BY <2>3, <2>4
  <2>6. room + 1 - m \in F /\ m \in 1..(room + 1)
    BY <2>3
  <2> QED
    BY <1>1, <2>4, <2>5, <2>6
<1> DEFINE k == Transport!Max(F)
<1>4. k \in F
  <2> HIDE DEF F
  <2> QED
    BY <1>3 DEF Transport!Max
<1>5. k \in 0..room /\ Transport!Fits(k)
  <2> HIDE DEF k
  <2> QED
    BY <1>1, <1>4
<1> QED
  BY <1>1, <1>5 DEF room

LEMMA BytesNat ==
  ASSUME NEW s \in Seq(EventItems) PROVE Transport!Bytes(s) \in Nat
<1>1. Len(s) \in Nat /\ DOMAIN s = 1..Len(s) /\ \A i \in DOMAIN s : s[i] \in EventItems
  OBVIOUS
<1>2. [i \in DOMAIN s |-> s[i].size] \in [DOMAIN s -> Nat]
  BY <1>1, ItemsApart
<1>3. IsFiniteSet(DOMAIN s)
  BY <1>1, FS_Interval
<1> QED
  BY <1>2, <1>3, SumNat, SumsOfTransport

(* A queue in two parts.                                                   *)
LEMMA Parted ==
  ASSUME NEW R, NEW q \in Seq(R), NEW k \in 0..Len(q)
  PROVE  LET s == SubSeq(q, 1, k)
             t == SubSeq(q, k + 1, Len(q))
         IN /\ s \in Seq(R) /\ t \in Seq(R) /\ Len(s) = k /\ Len(t) = Len(q) - k
            /\ \A x : x \in Range(q) <=> x \in Range(s) \/ x \in Range(t)
<1> DEFINE s == SubSeq(q, 1, k)
           t == SubSeq(q, k + 1, Len(q))
<1>0. Len(q) \in Nat /\ k \in Nat /\ DOMAIN q = 1..Len(q) /\ k <= Len(q) /\ Len(q) - k \in Nat
  OBVIOUS
<1>1. \A i \in 1..Len(q) : q[i] \in R
  OBVIOUS
<1> DEFINE n == Len(q)
<1> HIDE DEF n
<1>2. /\ s \in Seq(R) /\ Len(s) = k /\ DOMAIN s = 1..k
      /\ \A i \in 1..k : s[i] = q[i] /\ i \in 1..n
  BY <1>0 DEF n
<1>3. /\ t \in Seq(R) /\ Len(t) = n - k /\ DOMAIN t = 1..(n - k)
      /\ \A i \in 1..(n - k) : t[i] = q[k + i] /\ k + i \in 1..n
  <2>0. n \in Nat /\ k \in Nat /\ k <= n /\ \A i \in (k + 1)..n : q[i] \in R
    BY <1>0, <1>1 DEF n
  <2>1. /\ SubSeq(q, k + 1, n) \in Seq(R)
        /\ Len(SubSeq(q, k + 1, n)) = IF k + 1 <= n THEN n - (k + 1) + 1 ELSE 0
        /\ \A i \in 1..(n - (k + 1) + 1) : SubSeq(q, k + 1, n)[i] = q[k + 1 + i - 1]
    BY <2>0, SubSeqProperties
  <2>2. t = SubSeq(q, k + 1, n)
    BY DEF n
  <2> HIDE DEF t
  <2>3. Len(t) = n - k /\ t \in Seq(R)
    BY <2>0, <2>1, <2>2
  <2>4. DOMAIN t = 1..(n - k)
    BY <2>3
  <2>5. \A i \in 1..(n - k) : i \in 1..(n - (k + 1) + 1) /\ k + 1 + i - 1 = k + i /\ k + i \in 1..n
    BY <2>0
  <2>6. \A i \in 1..(n - k) : t[i] = q[k + i]
    BY <2>1, <2>2, <2>5
  <2> QED
    BY <2>3, <2>4, <2>5, <2>6
<1> HIDE DEF s, t
<1>5. n \in Nat /\ k \in Nat /\ k <= n /\ DOMAIN q = 1..n
  BY <1>0 DEF n
<1>6. ASSUME NEW x PROVE x \in Range(q) <=> x \in Range(s) \/ x \in Range(t)
  <2>1. ASSUME x \in Range(q) PROVE x \in Range(s) \/ x \in Range(t)
    <3>1. PICK i \in 1..n : q[i] = x
      BY <1>5, <2>1 DEF Range
    <3>2. CASE i <= k
      <4>1. i \in 1..k
        BY <1>5, <3>2
      <4> QED
        BY <1>2, <3>1, <4>1 DEF Range
    <3>3. CASE ~(i <= k)
      <4>1. i - k \in 1..(n - k) /\ k + (i - k) = i
        BY <1>5, <3>3
      <4>2. t[i - k] = x
        BY <1>3, <3>1, <4>1
      <4> QED
        BY <1>3, <4>1, <4>2 DEF Range
    <3> QED
      BY <3>2, <3>3
  <2>2. ASSUME x \in Range(s) PROVE x \in Range(q)
    BY <1>5, <1>2, <2>2 DEF Range
  <2>3. ASSUME x \in Range(t) PROVE x \in Range(q)
    BY <1>5, <1>3, <2>3 DEF Range
  <2> QED
    BY <2>1, <2>2, <2>3
<1> QED
  BY <1>2, <1>3, <1>6 DEF s, t, n

(* What InLine() tells of elements: they are in one place.                 *)
LEMMA LineApart ==
  ASSUME NEW R, \A r \in R : r.number \in Int, NEW q \in Seq(R), NEW f, InLine(q, f),
         \A b \in DOMAIN f : f[b] \in Seq(R) /\ b \in Int
  PROVE  /\ \A b \in DOMAIN f : Range(f[b]) \cap Range(q) = {}
         /\ \A b, c \in DOMAIN f : b # c => Range(f[b]) \cap Range(f[c]) = {}
<1>1. ASSUME NEW s \in Seq(R), NEW t \in Seq(R), Before(s, t) PROVE Range(s) \cap Range(t) = {}
  <2> SUFFICES ASSUME NEW i \in DOMAIN s, NEW j \in DOMAIN t, s[i] = t[j] PROVE FALSE
    BY DEF Range
  <2>1. s[i].number < t[j].number /\ s[i].number = t[j].number
    BY <1>1 DEF Before
  <2>2. s[i] \in R
    OBVIOUS
  <2> QED
    BY <2>1, <2>2
<1>2. ASSUME NEW b \in DOMAIN f PROVE Range(f[b]) \cap Range(q) = {}
  <2>1. f[b] \in Seq(R) /\ Before(f[b], q)
    BY DEF InLine
  <2> QED
    BY <1>1, <2>1
<1>3. ASSUME NEW b \in DOMAIN f, NEW c \in DOMAIN f, b # c PROVE Range(f[b]) \cap Range(f[c]) = {}
  <2>1. b < c \/ c < b
    BY <1>3
  <2>2. f[b] \in Seq(R) /\ f[c] \in Seq(R) /\ (Before(f[b], f[c]) \/ Before(f[c], f[b]))
    BY <2>1 DEF InLine
  <2>3. Range(f[b]) \cap Range(f[c]) = {} \/ Range(f[c]) \cap Range(f[b]) = {}
    BY <1>1, <2>2
  <2> QED
    BY <2>3
<1> QED
  BY <1>2, <1>3

LEMMA CreateBatchStep == ASSUME TransportInv, Transport!CreateBatch PROVE TransportInv'
<1> DEFINE room == Transport!Least(Len(eventQueue), limits.items)
           k == Transport!Max({n \in 0..room : \A i \in 0..n : Transport!Fits(i)})
           m == Transport!Least(Len(metricQueue), limits.items - k)
           events  == SubSeq(eventQueue, 1, k)
           metrics == SubSeq(metricQueue, 1, m)
           more    == SubSeq(eventQueue, k + 1, Len(eventQueue))
           other   == SubSeq(metricQueue, m + 1, Len(metricQueue))
           batch == [events |-> events, metrics |-> metrics,
                     totalSize |-> Transport!Bytes(events), limits |-> limits]
           D == DOMAIN batches
<1>1. /\ batches' = [b \in D \cup {nextBatch} |-> IF b = nextBatch THEN batch ELSE batches[b]]
      /\ eventQueue' = more /\ metricQueue' = other /\ nextBatch' = nextBatch + 1
      /\ UNCHANGED <<enabled, limits, sent, nextItem, flushed, cleared>>
  BY DEF Transport!CreateBatch
<1>2. k \in 0..room /\ room \in Nat /\ Transport!Fits(k)
  BY FittingNumber
<1>3. limits \in Limits /\ limits.items \in Nat /\ limits.bytes \in Nat
  BY TransportConstants DEF TransportInv, Transport!TransportTypeOK
<1>4. /\ eventQueue \in Seq(EventItems) /\ metricQueue \in Seq(MetricItems)
      /\ Len(eventQueue) \in Nat /\ Len(metricQueue) \in Nat
      /\ IsFiniteSet(D) /\ nextBatch \notin D /\ nextBatch \in Nat /\ Cardinality(D) \in Nat
      /\ \A b \in D : b \in Nat /\ b < nextBatch
  BY TransportFacts
<1>5. room <= Len(eventQueue) /\ room <= limits.items
  BY <1>3, <1>4 DEF Transport!Least
<1> HIDE DEF room
<1>6. k \in 0..Len(eventQueue) /\ k \in Nat /\ k <= limits.items
  <2> HIDE DEF k
  <2> QED
    BY <1>2, <1>3, <1>4, <1>5
<1>7. k <= 1 \/ Transport!Bytes(events) <= limits.bytes
  <2> HIDE DEF k
  <2> QED
    BY <1>2 DEF Transport!Fits
<1> HIDE DEF k
<1>8. m \in 0..Len(metricQueue) /\ m \in Nat /\ k + m <= limits.items
  BY <1>3, <1>4, <1>6 DEF Transport!Least
<1> HIDE DEF m
<1>9. /\ events \in Seq(EventItems) /\ more \in Seq(EventItems) /\ Len(events) = k
      /\ Len(more) = Len(eventQueue) - k
      /\ \A x : x \in Range(eventQueue) <=> x \in Range(events) \/ x \in Range(more)
  BY <1>4, <1>6, Parted
<1>10. /\ metrics \in Seq(MetricItems) /\ other \in Seq(MetricItems) /\ Len(metrics) = m
       /\ Len(other) = Len(metricQueue) - m
       /\ \A x : x \in Range(metricQueue) <=> x \in Range(metrics) \/ x \in Range(other)
  BY <1>4, <1>8, Parted
<1>11. InLine(eventQueue, EventsOf)' /\ InLine(metricQueue, MetricsOf)'
  <2>1. InLine(eventQueue, EventsOf) /\ InLine(metricQueue, MetricsOf)
    BY DEF TransportInv
  <2>2. /\ DOMAIN EventsOf = D /\ DOMAIN MetricsOf = D
        /\ DOMAIN EventsOf' = D \cup {nextBatch} /\ DOMAIN MetricsOf' = D \cup {nextBatch}
    BY <1>1 DEF EventsOf, MetricsOf
  <2>3. /\ \A b \in D : EventsOf'[b] = EventsOf[b] /\ MetricsOf'[b] = MetricsOf[b]
        /\ EventsOf'[nextBatch] = events /\ MetricsOf'[nextBatch] = metrics
    BY <1>1, <1>4 DEF EventsOf, MetricsOf
  <2>4. ~(nextBatch < nextBatch) /\ \A b \in D : b < nextBatch /\ ~(nextBatch < b)
    BY <1>4
  <2> DEFINE EO == EventsOf'
             MO == MetricsOf'
  <2> HIDE DEF EO, MO
  <2> DEFINE E == EventsOf
             M == MetricsOf
  <2>a. /\ DOMAIN EO = DOMAIN E \cup {nextBatch} /\ \A b \in DOMAIN E : EO[b] = E[b] /\ b < nextBatch /\ ~(nextBatch < b)
        /\ nextBatch \notin DOMAIN E /\ ~(nextBatch < nextBatch) /\ InLine(eventQueue, E)
        /\ EO[nextBatch] = SubSeq(eventQueue, 1, k)
    BY <1>4, <2>1, <2>2, <2>3, <2>4 DEF EO
  <2>b. /\ DOMAIN MO = DOMAIN M \cup {nextBatch} /\ \A b \in DOMAIN M : MO[b] = M[b] /\ b < nextBatch /\ ~(nextBatch < b)
        /\ nextBatch \notin DOMAIN M /\ ~(nextBatch < nextBatch) /\ InLine(metricQueue, M)
        /\ MO[nextBatch] = SubSeq(metricQueue, 1, m)
    BY <1>4, <2>1, <2>2, <2>3, <2>4 DEF MO
  <2> HIDE DEF E, M
  <2>5. InLine(SubSeq(eventQueue, k + 1, Len(eventQueue)), EO)
    BY <1>4, <1>6, <2>a, LineTaken
  <2>6. InLine(SubSeq(metricQueue, m + 1, Len(metricQueue)), MO)
    BY <1>4, <1>8, <2>b, LineTaken
  <2> QED
    BY <1>1, <2>5, <2>6 DEF EO, MO
<1> HIDE DEF events, metrics, more, other
<1>12. batch \in Batches /\ WithinLimits(batch)
  <2>1. Transport!Bytes(events) \in Nat
    BY <1>9, BytesNat
  <2> QED
    BY <1>3, <1>6, <1>7, <1>8, <1>9, <1>10, <2>1 DEF Batches, WithinLimits
<1> HIDE DEF batch
<1>13. /\ batches' \in [DOMAIN batches' -> Batches]
       /\ \A b \in DOMAIN batches' : WithinLimits(batches'[b])
  BY <1>1, <1>12 DEF TransportInv
<1>14. Transport!TransportTypeOK'
  <2>1. DOMAIN batches' \subseteq 1..(nextBatch' - 1)
    <3>1. DOMAIN batches' = D \cup {nextBatch} /\ D \subseteq 1..(nextBatch - 1) /\ nextBatch >= 1
      <4>1. DOMAIN batches' = D \cup {nextBatch}
        BY <1>1
      <4>2. D \subseteq 1..(nextBatch - 1)
        BY DEF TransportInv, Transport!TransportTypeOK
      <4>3. nextBatch >= 1
        BY DEF TransportInv
      <4> QED
        BY <4>1, <4>2, <4>3
    <3> QED
      BY <1>1, <1>4, <3>1
  <2> QED
    BY <1>1, <1>9, <1>10, <2>1 DEF TransportInv, Transport!TransportTypeOK, EventItems, MetricItems
<1>15. \A x : x \in Transport!Held' <=> x \in Transport!Held
  <2>1. \A x : x \in Transport!Held' <=>
          \/ x \in Range(more) \/ x \in Range(other)
          \/ \E b \in DOMAIN batches' : x \in Range(batches'[b].events) \/ x \in Range(batches'[b].metrics)
    <3>1. \A s : Transport!Range(s) = Range(s)
      BY HeldWhere
    <3>2. Transport!Held' =
            Range(more) \cup Range(other)
              \cup UNION {Range(batches'[b].events) \cup Range(batches'[b].metrics) : b \in DOMAIN batches'}
      BY <1>1 DEF Transport!Held, Transport!Range, Range
    <3> QED
      BY <3>2
  <2>2. /\ DOMAIN batches' = D \cup {nextBatch} /\ batches'[nextBatch].events = events
        /\ batches'[nextBatch].metrics = metrics /\ \A b \in D : batches'[b] = batches[b]
    BY <1>1, <1>4 DEF batch
  <2>3. \A x : x \in Transport!Held' <=>
          \/ x \in Range(more) \/ x \in Range(other) \/ x \in Range(events) \/ x \in Range(metrics)
          \/ \E b \in D : x \in Range(batches[b].events) \/ x \in Range(batches[b].metrics)
    BY <2>1, <2>2
  <2> QED
    <3> SUFFICES ASSUME NEW x PROVE x \in Transport!Held' <=> x \in Transport!Held
      OBVIOUS
    <3> DEFINE inBatch == \E b \in D : x \in Range(batches[b].events) \/ x \in Range(batches[b].metrics)
    <3>1. x \in Transport!Held' <=>
            \/ x \in Range(more) \/ x \in Range(other) \/ x \in Range(events) \/ x \in Range(metrics)
            \/ inBatch
      BY <2>3
    <3>2. x \in Transport!Held <=> x \in Range(eventQueue) \/ x \in Range(metricQueue) \/ inBatch
      BY HeldWhere
    <3> HIDE DEF inBatch
    <3> QED
      BY <1>9, <1>10, <3>1, <3>2
<1>16. /\ Transport!Held' = Transport!Held /\ Transport!Ended' = Transport!Ended
       /\ Transport!SentEvents' = Transport!SentEvents /\ nextItem' = nextItem
  BY <1>1, <1>15 DEF Transport!Ended, Transport!SentEvents
<1>17. Counted'
  <2>1. SumFunction(LengthsOf)' = SumFunction(LengthsOf) + (k + m)
    <3> DEFINE h == LengthsOf'
    <3>1. /\ LengthsOf \in [D -> Nat] /\ DOMAIN h = D \cup {nextBatch}
          /\ \A b \in D : h[b] = LengthsOf[b]
          /\ h[nextBatch] = k + m
      <4>1. LengthsOf \in [D -> Nat]
        BY TransportFacts
      <4>2. /\ DOMAIN batches' = D \cup {nextBatch} /\ batches'[nextBatch].events = events
            /\ batches'[nextBatch].metrics = metrics /\ \A b \in D : batches'[b] = batches[b]
        BY <1>1, <1>4 DEF batch
      <4>3. h = [b \in DOMAIN batches' |-> Len(batches'[b].events) + Len(batches'[b].metrics)]
        BY DEF LengthsOf
      <4>4. Len(batches'[nextBatch].events) + Len(batches'[nextBatch].metrics) = k + m
        BY <1>9, <1>10, <4>2
      <4>5. \A b \in D : h[b] = LengthsOf[b]
        BY <4>2, <4>3 DEF LengthsOf
      <4> HIDE DEF h
      <4>6. DOMAIN h = D \cup {nextBatch} /\ h[nextBatch] = k + m
        BY <4>2, <4>3, <4>4
      <4> QED
        BY <4>1, <4>5, <4>6
    <3>2. h = [b \in DOMAIN h |-> h[b]]
      BY DEF LengthsOf
    <3> HIDE DEF h
    <3>3. k + m \in Nat
      BY <1>6, <1>8
    <3>4. h \in [D \cup {nextBatch} -> Nat]
      BY <3>1, <3>2, <3>3
    <3>5. SumFunction(h) = SumFunction(LengthsOf) + h[nextBatch]
      <4> DEFINE f == LengthsOf
      <4>1. IsFiniteSet(D) /\ nextBatch \notin D /\ f \in [D -> Nat] /\ \A b \in D : h[b] = f[b]
        BY <1>4, <3>1
      <4> HIDE DEF D, f
      <4>2. SumFunction(h) = SumFunction(f) + h[nextBatch]
        BY <3>4, <4>1, SumMore
      <4> QED
        BY <4>2 DEF f
    <3> QED
      BY <3>1, <3>5 DEF h
  <2>2. Cardinality(DOMAIN batches') = Cardinality(D) + 1
    <3>1. DOMAIN batches' = D \cup {nextBatch}
      BY <1>1
    <3> QED
      BY <1>4, <3>1, FS_AddElement
  <2> DEFINE l == Len(eventQueue)
             g == Len(metricQueue)
             c == Cardinality(flushed)
             d == Cardinality(cleared)
             n == SumFunction(LengthsOf)
             p == Cardinality(D)
  <2>3. l + g + c + d + n = nextItem - 1 /\ sent.batches + p = nextBatch - 1
    BY DEF TransportInv, Counted
  <2>4. l \in Nat /\ g \in Nat /\ c \in Nat /\ d \in Nat /\ n \in Nat /\ p \in Nat
    BY TransportFacts
  <2>5. sent.batches \in Nat /\ nextItem \in Nat
    BY TransportFacts DEF TransportInv, Transport!TransportTypeOK
  <2>6. Len(eventQueue)' = l - k /\ Len(metricQueue)' = g - m
    BY <1>1, <1>9, <1>10
  <2> HIDE DEF l, g, c, d, n, p
  <2>7. (l - k) + (g - m) + c + d + (n + (k + m)) = nextItem - 1
    BY <1>6, <1>8, <2>3, <2>4, <2>5
  <2>8. sent.batches + (p + 1) = nextBatch + 1 - 1
    BY <1>4, <2>3, <2>4, <2>5
  <2>9. /\ Len(eventQueue') + Len(metricQueue') + Cardinality(flushed') + Cardinality(cleared')
            + SumFunction(LengthsOf)' = nextItem' - 1
        /\ sent'.batches + Cardinality(DOMAIN batches') = nextBatch' - 1
    <3>1. /\ Len(eventQueue') = l - k /\ Len(metricQueue') = g - m
          /\ Cardinality(flushed') = c /\ Cardinality(cleared') = d
          /\ SumFunction(LengthsOf)' = n + (k + m) /\ nextItem' = nextItem
      BY <1>1, <2>1, <2>6 DEF l, g, c, d, n
    <3>2. /\ sent'.batches = sent.batches /\ Cardinality(DOMAIN batches') = p + 1
          /\ nextBatch' = nextBatch + 1
      BY <1>1, <2>2 DEF p
    <3>3. Len(eventQueue') + Len(metricQueue') + Cardinality(flushed') + Cardinality(cleared')
            + SumFunction(LengthsOf)' = (l - k) + (g - m) + c + d + (n + (k + m))
      BY <3>1, Zenon
    <3>4. nextItem' - 1 = nextItem - 1 /\ nextBatch' - 1 = nextBatch + 1 - 1
      <4>1. nextItem' = nextItem /\ nextBatch' = nextBatch + 1
        BY <1>1
      <4> QED
        BY <1>4, <2>5, <4>1
    <3>5. sent'.batches + Cardinality(DOMAIN batches') = sent.batches + (p + 1)
      BY <3>2, Zenon
    <3> QED
      BY <2>7, <2>8, <3>3, <3>4, <3>5, Zenon
  <2>10. /\ sent.events = Cardinality(Transport!SentEvents)
         /\ sent.bytes = SumFunction([y \in Transport!SentEvents |-> y.size])
    BY DEF Counted, TransportInv
  <2>11. sent' = sent
    BY <1>1
  <2> QED
    BY <1>16, <2>9, <2>10, <2>11 DEF Counted
<1>18. Told' = Told
  BY <1>16 DEF Told
<1>19. /\ nextBatch' \in Nat \ {0} /\ IsFiniteSet(flushed') /\ IsFiniteSet(cleared')
  BY <1>1, <1>4 DEF TransportInv
<1> QED
  BY <1>11, <1>13, <1>14, <1>16, <1>17, <1>18, <1>19 DEF TransportInv

(* Three sets that have nothing in common.                                 *)
LEMMA CountedApart ==
  ASSUME NEW X, NEW E, NEW M, IsFiniteSet(X), IsFiniteSet(E), IsFiniteSet(M),
         X \cap E = {}, X \cap M = {}, E \cap M = {}
  PROVE  /\ IsFiniteSet(X \cup E \cup M)
         /\ Cardinality(X \cup E \cup M) = Cardinality(X) + Cardinality(E) + Cardinality(M)
<1>1. \A S, T : IsFiniteSet(S) /\ IsFiniteSet(T) /\ S \cap T = {} =>
        /\ IsFiniteSet(S \cup T) /\ Cardinality(S \cup T) = Cardinality(S) + Cardinality(T)
  <2> SUFFICES ASSUME NEW S, NEW T, IsFiniteSet(S), IsFiniteSet(T), S \cap T = {}
               PROVE  IsFiniteSet(S \cup T) /\ Cardinality(S \cup T) = Cardinality(S) + Cardinality(T)
    OBVIOUS
  <2>1. /\ IsFiniteSet(S \cup T)
        /\ Cardinality(S \cup T) = Cardinality(S) + Cardinality(T) - Cardinality(S \cap T)
    BY FS_Union
  <2>2. Cardinality(S \cap T) = 0 /\ Cardinality(S) \in Nat /\ Cardinality(T) \in Nat
    BY FS_EmptySet, FS_CardinalityType
  <2> QED
    BY <2>1, <2>2
<1>2. (X \cup E) \cap M = {}
  OBVIOUS
<1> DEFINE Y == X \cup E
<1>3. IsFiniteSet(Y) /\ Cardinality(Y) = Cardinality(X) + Cardinality(E)
  BY <1>1
<1> HIDE DEF Y
<1>4. IsFiniteSet(Y \cup M) /\ Cardinality(Y \cup M) = Cardinality(Y) + Cardinality(M)
  BY <1>1, <1>2, <1>3 DEF Y
<1> QED
  BY <1>3, <1>4 DEF Y

(* Events and metrics, taken from where they are held, are not elsewhere.  *)
LEMMA PlacesApart ==
  ASSUME TransportInv
  PROVE  /\ \A b \in DOMAIN batches :
              /\ batches[b].events \in Seq(EventItems) /\ batches[b].metrics \in Seq(MetricItems)
              /\ batches[b].totalSize \in Nat
              /\ Rising(batches[b].events) /\ Rising(batches[b].metrics)
              /\ Range(batches[b].events) \cap Range(eventQueue) = {}
              /\ Range(batches[b].metrics) \cap Range(metricQueue) = {}
         /\ \A b, c \in DOMAIN batches : b # c =>
              /\ Range(batches[b].events) \cap Range(batches[c].events) = {}
              /\ Range(batches[b].metrics) \cap Range(batches[c].metrics) = {}
<1>1. \A b \in DOMAIN batches :
        /\ batches[b].events \in Seq(EventItems) /\ batches[b].metrics \in Seq(MetricItems)
        /\ batches[b].totalSize \in Nat /\ b \in Int
  <2> SUFFICES ASSUME NEW b \in DOMAIN batches
               PROVE /\ batches[b].events \in Seq(EventItems) /\ batches[b].metrics \in Seq(MetricItems)
                     /\ batches[b].totalSize \in Nat /\ b \in Int
    OBVIOUS
  <2>1. batches[b] \in Batches /\ b \in Nat
    BY TransportFacts DEF TransportInv
  <2> QED
    BY <2>1 DEF Batches
<1>2. /\ InLine(eventQueue, EventsOf) /\ InLine(metricQueue, MetricsOf)
      /\ eventQueue \in Seq(EventItems) /\ metricQueue \in Seq(MetricItems)
  BY TransportFacts DEF TransportInv
<1>3. (\A r \in EventItems : r.number \in Int) /\ \A r \in MetricItems : r.number \in Int
  <2>1. \A n \in 1..MaxItems : n \in Int
    BY TransportConstants
  <2> QED
    BY <2>1, ItemsApart
<1> DEFINE E == EventsOf
           M == MetricsOf
           D == DOMAIN batches
<1>4. /\ DOMAIN E = D /\ DOMAIN M = D
      /\ \A b \in D : E[b] = batches[b].events /\ M[b] = batches[b].metrics
  BY DEF EventsOf, MetricsOf
<1>5. /\ \A b \in DOMAIN E : E[b] \in Seq(EventItems) /\ b \in Int
      /\ \A b \in DOMAIN M : M[b] \in Seq(MetricItems) /\ b \in Int
  BY <1>1, <1>4
<1>6. InLine(eventQueue, E) /\ InLine(metricQueue, M)
  BY <1>2
<1> HIDE DEF E, M, D
<1>7. /\ \A b \in DOMAIN E : Range(E[b]) \cap Range(eventQueue) = {}
      /\ \A b, c \in DOMAIN E : b # c => Range(E[b]) \cap Range(E[c]) = {}
  BY <1>2, <1>3, <1>5, <1>6, LineApart
<1>8. /\ \A b \in DOMAIN M : Range(M[b]) \cap Range(metricQueue) = {}
      /\ \A b, c \in DOMAIN M : b # c => Range(M[b]) \cap Range(M[c]) = {}
  BY <1>2, <1>3, <1>5, <1>6, LineApart
<1>9. \A b \in D : Rising(E[b]) /\ Rising(M[b])
  BY <1>4, <1>6 DEF InLine
<1> QED
  BY <1>1, <1>4, <1>7, <1>8, <1>9 DEF D

LEMMA ClearQueueStep == ASSUME TransportInv, Transport!ClearQueue PROVE TransportInv'
<1> DEFINE E == Range(eventQueue)
           M == Range(metricQueue)
<1>1. /\ eventQueue' = <<>> /\ metricQueue' = <<>> /\ cleared' = cleared \cup E \cup M
      /\ UNCHANGED <<batches, enabled, limits, sent, nextItem, nextBatch, flushed>>
  BY HeldWhere DEF Transport!ClearQueue
<1>2. /\ eventQueue \in Seq(EventItems) /\ metricQueue \in Seq(MetricItems)
      /\ Rising(eventQueue) /\ Rising(metricQueue)
  BY TransportFacts DEF TransportInv, InLine
<1>3. (\A r \in EventItems : r.number \in Int) /\ \A r \in MetricItems : r.number \in Int
  <2>1. \A n \in 1..MaxItems : n \in Int
    BY TransportConstants
  <2> QED
    BY <2>1, ItemsApart
<1>4. /\ IsFiniteSet(E) /\ Cardinality(E) = Len(eventQueue) /\ E \subseteq EventItems
      /\ IsFiniteSet(M) /\ Cardinality(M) = Len(metricQueue) /\ M \subseteq MetricItems
  BY <1>2, <1>3, RisingDistinct
<1>5. /\ \A x : x \in Transport!Held <=> x \in E \/ x \in M \/ x \in Transport!Held'
      /\ \A x : x \in Transport!Held' <=>
           \E b \in DOMAIN batches : x \in Range(batches[b].events) \/ x \in Range(batches[b].metrics)
  <2>1. Transport!Held' =
          Range(<<>>) \cup Range(<<>>)
            \cup UNION {Range(batches[b].events) \cup Range(batches[b].metrics) : b \in DOMAIN batches}
    BY <1>1 DEF Transport!Held, Transport!Range, Range
  <2>2. Range(<<>>) = {}
    BY DEF Range
  <2>3. \A x : x \in Transport!Held' <=>
           \E b \in DOMAIN batches : x \in Range(batches[b].events) \/ x \in Range(batches[b].metrics)
    BY <2>1, <2>2
  <2> QED
    BY <2>3, HeldWhere
<1>6. \A x : x \in Transport!Ended' <=> x \in Transport!Ended \/ x \in E \/ x \in M
  BY <1>1 DEF Transport!Ended
<1>7. Transport!Held \cap Transport!Ended = {} /\ Transport!Ended \subseteq EventItems \cup MetricItems
  BY DEF TransportInv
<1> HIDE DEF E, M
<1>8. E \cap M = {}
  BY <1>4, ItemsApart
<1>9. cleared \cap E = {} /\ cleared \cap M = {}
  BY <1>5, <1>7 DEF Transport!Ended
<1>10. /\ IsFiniteSet(cleared')
       /\ Cardinality(cleared') = Cardinality(cleared) + Cardinality(E) + Cardinality(M)
  <2>1. IsFiniteSet(cleared)
    BY DEF TransportInv
  <2> QED
    <3>1. /\ IsFiniteSet(cleared \cup E \cup M)
          /\ Cardinality(cleared \cup E \cup M) = Cardinality(cleared) + Cardinality(E) + Cardinality(M)
      BY <1>4, <1>8, <1>9, <2>1, CountedApart
    <3>2. cleared' = cleared \cup E \cup M
      BY <1>1
    <3> QED
      BY <3>1, <3>2, Zenon
<1>11. Transport!Held' \cap Transport!Ended' = {} /\ Transport!Ended' \subseteq EventItems \cup MetricItems
  <2>1. ASSUME NEW b \in DOMAIN batches
        PROVE  /\ Range(batches[b].events) \cap E = {} /\ Range(batches[b].metrics) \cap M = {}
               /\ Range(batches[b].events) \cap M = {} /\ Range(batches[b].metrics) \cap E = {}
    <3>1. /\ batches[b].events \in Seq(EventItems) /\ batches[b].metrics \in Seq(MetricItems)
          /\ Range(batches[b].events) \cap E = {} /\ Range(batches[b].metrics) \cap M = {}
      BY PlacesApart DEF E, M
    <3>2. Range(batches[b].events) \subseteq EventItems /\ Range(batches[b].metrics) \subseteq MetricItems
      BY <3>1 DEF Range
    <3> QED
      BY <1>4, <3>1, <3>2, ItemsApart
  <2>2. \A x : x \in Transport!Held' => x \notin E /\ x \notin M
    BY <1>5, <2>1
  <2> QED
    BY <1>4, <1>5, <1>6, <1>7, <2>2
<1>12. Told' = Told
  <2>1. \A x : x \in Transport!Held' \cup Transport!Ended' <=> x \in Transport!Held \cup Transport!Ended
    BY <1>5, <1>6
  <2>2. Transport!Held' \cup Transport!Ended' = Transport!Held \cup Transport!Ended
    BY <2>1
  <2> QED
    BY <2>2 DEF Told
<1>13. EventsOf' = EventsOf /\ MetricsOf' = MetricsOf /\ LengthsOf' = LengthsOf
       /\ Transport!SentEvents' = Transport!SentEvents
  BY <1>1 DEF EventsOf, MetricsOf, LengthsOf, Transport!SentEvents
<1>14. InLine(eventQueue, EventsOf)' /\ InLine(metricQueue, MetricsOf)'
  <2>1. InLine(eventQueue, EventsOf) /\ InLine(metricQueue, MetricsOf)
    BY DEF TransportInv
  <2>2. InLine(<<>>, EventsOf) /\ InLine(<<>>, MetricsOf)
    BY <2>1, LineLeft
  <2> QED
    BY <1>1, <1>13, <2>2
<1>15. Counted'
  <2> DEFINE l == Len(eventQueue)
             g == Len(metricQueue)
             c == Cardinality(flushed)
             d == Cardinality(cleared)
             n == SumFunction(LengthsOf)
  <2>1. l + g + c + d + n = nextItem - 1
    BY DEF TransportInv, Counted
  <2>2. l \in Nat /\ g \in Nat /\ c \in Nat /\ d \in Nat /\ n \in Nat
    BY TransportFacts
  <2>3. Len(eventQueue)' = 0 /\ Len(metricQueue)' = 0
    BY <1>1
  <2>4. Cardinality(cleared') = d + l + g
    BY <1>4, <1>10
  <2> HIDE DEF l, g, c, d, n
  <2>5. 0 + 0 + c + (d + l + g) + n = nextItem - 1
    BY <2>1, <2>2
  <2>6. Cardinality(flushed') = c /\ SumFunction(LengthsOf)' = n /\ nextItem' = nextItem
    BY <1>1, <1>13 DEF c, n
  <2>7. Len(eventQueue)' + Len(metricQueue)' + Cardinality(flushed') + Cardinality(cleared')
          + SumFunction(LengthsOf)' = nextItem' - 1
    BY <2>3, <2>4, <2>5, <2>6, Zenon
  <2>8. /\ sent.batches + Cardinality(DOMAIN batches) = nextBatch - 1
        /\ sent.events = Cardinality(Transport!SentEvents)
        /\ sent.bytes = SumFunction([y \in Transport!SentEvents |-> y.size])
    BY DEF Counted, TransportInv
  <2> QED
    BY <1>1, <1>13, <2>7, <2>8 DEF Counted
<1>16. Transport!TransportTypeOK'
  <2>1. eventQueue' \in Seq(EventItems) /\ metricQueue' \in Seq(MetricItems)
    BY <1>1
  <2> QED
    BY <1>1, <2>1 DEF TransportInv, Transport!TransportTypeOK, EventItems, MetricItems
<1>17. \A b \in DOMAIN batches' : WithinLimits(batches'[b])
  BY <1>1 DEF TransportInv
<1> QED
  BY <1>1, <1>10, <1>11, <1>12, <1>14, <1>15, <1>16, <1>17 DEF TransportInv

(* The statistics get the events of a batch, and their bytes.              *)
LEMMA SentMore ==
  ASSUME TransportInv, NEW s \in Seq(EventItems), Rising(s), NEW S, IsFiniteSet(S),
         S \subseteq EventItems, S \cap Range(s) = {}
  PROVE  /\ Cardinality(S \cup Range(s)) = Cardinality(S) + Len(s)
         /\ SumFunction([x \in S \cup Range(s) |-> x.size])
              = SumFunction([x \in S |-> x.size]) + Transport!Bytes(s)
<1> DEFINE T == Range(s)
           f == [x \in S |-> x.size]
           h == [x \in S \cup T |-> x.size]
           g == [x \in T |-> x.size]
           t == [i \in DOMAIN s |-> s[i].size]
<1>1. \A r \in EventItems : r.number \in Int /\ r.size \in Nat
  <2>1. \A n \in 1..MaxItems : n \in Int
    BY TransportConstants
  <2> QED
    BY <2>1, ItemsApart
<1>2. /\ \A i, j \in DOMAIN s : s[i] = s[j] => i = j
      /\ IsFiniteSet(T) /\ Cardinality(T) = Len(s) /\ Len(s) \in Nat
      /\ T \subseteq EventItems
  BY <1>1, RisingDistinct
<1>3. /\ f \in [S -> Nat] /\ g \in [T -> Nat] /\ h \in [S \cup T -> Nat]
      /\ \A x \in S : h[x] = f[x]
      /\ \A x \in T : h[x] = g[x]
  BY <1>1, <1>2
<1>4. SumFunction(g) = Transport!Bytes(s)
  <2>1. DOMAIN s = 1..Len(s) /\ \A i \in DOMAIN s : s[i] \in EventItems
    OBVIOUS
  <2>2. IsFiniteSet(DOMAIN s)
    BY <1>2, <2>1, FS_Interval
  <2>3. t \in [DOMAIN s -> Nat] /\ \A i \in DOMAIN s : t[i] = s[i].size
    BY <1>1, <2>1
  <2>4. s \in [DOMAIN s -> T] /\ (\A i \in DOMAIN s : t[i] = g[s[i]])
        /\ \A z \in T : \E i \in DOMAIN s : s[i] = z
    BY <2>1, <2>3 DEF Range
  <2>5. SumFunction(t) = Transport!Bytes(s)
    BY SumsOfTransport
  <2> DEFINE I == DOMAIN s
  <2> HIDE DEF I, T, f, g, h, t
  <2>6. SumFunction(t) = SumFunction(g)
    <3>1. /\ IsFiniteSet(I) /\ t \in [I -> Nat] /\ s \in [I -> T]
          /\ \A i, j \in I : s[i] = s[j] => i = j
          /\ \A i \in I : t[i] = g[s[i]]
          /\ \A z \in T : \E i \in I : s[i] = z
          /\ IsFiniteSet(T) /\ g \in [T -> Nat]
      BY <1>2, <1>3, <2>2, <2>3, <2>4 DEF I
    <3>2. SumTerms(I, T, s, t, g)
      BY <3>1 DEF SumTerms
    <3> QED
      BY <3>2, SumRenamed
  <2> QED
    BY <2>5, <2>6
<1>5. S \cap T = {}
  OBVIOUS
<1> HIDE DEF f, g, h, T
<1>6. SumFunction(h) = SumFunction(f) + SumFunction(g)
  <2>1. IsFiniteSet(T)
    BY <1>2
  <2> QED
    <3>1. SumParts(S, T, f, g, h)
      BY <1>3, <1>5, <2>1 DEF SumParts
    <3> QED
      BY <3>1, SumUnion
<1>7. Cardinality(S \cup T) = Cardinality(S) + Cardinality(T)
  <2>1. Cardinality(S \cup T) = Cardinality(S) + Cardinality(T) - Cardinality(S \cap T)
    BY <1>2, FS_Union
  <2>2. Cardinality(S \cap T) = 0 /\ Cardinality(S) \in Nat /\ Cardinality(T) \in Nat
    BY <1>2, <1>5, FS_EmptySet, FS_CardinalityType
  <2> QED
    BY <2>1, <2>2
<1> QED
  BY <1>2, <1>4, <1>6, <1>7 DEF T, f, h

LEMMA FlushBatchStep ==
  ASSUME TransportInv, NEW b \in DOMAIN batches, Transport!FlushBatch(b) PROVE TransportInv'
<1> DEFINE D == DOMAIN batches
           ev == batches[b].events
           me == batches[b].metrics
           E == Range(ev)
           M == Range(me)
           size == batches[b].totalSize
<1>1. /\ sent' = [batches |-> sent.batches + 1, events |-> sent.events + Len(ev),
                  bytes |-> sent.bytes + size]
      /\ flushed' = flushed \cup E \cup M
      /\ batches' = [c \in D \ {b} |-> batches[c]]
      /\ UNCHANGED <<eventQueue, metricQueue, enabled, limits, nextItem, nextBatch, cleared>>
  BY HeldWhere DEF Transport!FlushBatch
<1>2. /\ ev \in Seq(EventItems) /\ me \in Seq(MetricItems) /\ Rising(ev) /\ Rising(me)
      /\ size \in Nat
      /\ E \cap Range(eventQueue) = {} /\ M \cap Range(metricQueue) = {}
      /\ \A c \in D : c # b => /\ E \cap Range(batches[c].events) = {}
                               /\ M \cap Range(batches[c].metrics) = {}
  BY PlacesApart
<1>3. size = Transport!Bytes(ev)
  BY DEF TransportInv, WithinLimits
<1>4. (\A r \in EventItems : r.number \in Int) /\ \A r \in MetricItems : r.number \in Int
  <2>1. \A n \in 1..MaxItems : n \in Int
    BY TransportConstants
  <2> QED
    BY <2>1, ItemsApart
<1>5. /\ DOMAIN batches' = D \ {b} /\ \A c \in D \ {b} : batches'[c] = batches[c]
  BY <1>1
<1>6. /\ \A x : x \in Transport!Held <=> x \in E \/ x \in M \/ x \in Transport!Held'
      /\ \A x : x \in Transport!Held' <=>
           \/ x \in Range(eventQueue) \/ x \in Range(metricQueue)
           \/ \E c \in D \ {b} : x \in Range(batches[c].events) \/ x \in Range(batches[c].metrics)
  <2>1. Transport!Held' =
          Range(eventQueue) \cup Range(metricQueue)
            \cup UNION {Range(batches'[c].events) \cup Range(batches'[c].metrics) : c \in DOMAIN batches'}
    BY <1>1 DEF Transport!Held, Transport!Range, Range
  <2>2. \A x : x \in Transport!Held' <=>
           \/ x \in Range(eventQueue) \/ x \in Range(metricQueue)
           \/ \E c \in D \ {b} : x \in Range(batches[c].events) \/ x \in Range(batches[c].metrics)
    BY <1>5, <2>1
  <2> QED
    BY <2>2, HeldWhere
<1> HIDE DEF ev, me, size, D
<1>7. /\ IsFiniteSet(E) /\ Cardinality(E) = Len(ev) /\ E \subseteq EventItems /\ Len(ev) \in Nat
      /\ IsFiniteSet(M) /\ Cardinality(M) = Len(me) /\ M \subseteq MetricItems /\ Len(me) \in Nat
  BY <1>2, <1>4, RisingDistinct
<1>8. \A x : x \in Transport!Ended' <=> x \in Transport!Ended \/ x \in E \/ x \in M
  BY <1>1 DEF Transport!Ended
<1>9. Transport!Held \cap Transport!Ended = {} /\ Transport!Ended \subseteq EventItems \cup MetricItems
  BY DEF TransportInv
<1>10. \A x : x \in EventItems => x \notin MetricItems
  BY ItemsApart
<1>11. \A x \in Transport!Held' : x \notin E /\ x \notin M
  <2>1. Range(eventQueue) \subseteq EventItems /\ Range(metricQueue) \subseteq MetricItems
    <3>1. eventQueue \in Seq(EventItems) /\ metricQueue \in Seq(MetricItems)
      BY TransportFacts
    <3> QED
      BY <3>1 DEF Range
  <2>2. ASSUME NEW c \in D
        PROVE  Range(batches[c].events) \subseteq EventItems /\ Range(batches[c].metrics) \subseteq MetricItems
    <3>1. batches[c].events \in Seq(EventItems) /\ batches[c].metrics \in Seq(MetricItems)
      BY PlacesApart DEF D
    <3> QED
      BY <3>1 DEF Range
  <2> HIDE DEF E, M
  <2>3. ASSUME NEW x, x \in Range(eventQueue) \/ x \in Range(metricQueue) PROVE x \notin E /\ x \notin M
    BY <1>2, <1>7, <1>10, <2>1, <2>3
  <2>4. ASSUME NEW x, NEW c \in D \ {b}, x \in Range(batches[c].events) \/ x \in Range(batches[c].metrics)
        PROVE x \notin E /\ x \notin M
    BY <1>2, <1>7, <1>10, <2>2, <2>4
  <2> QED
    BY <1>6, <2>3, <2>4
<1> HIDE DEF E, M
<1>12. flushed \cap E = {} /\ flushed \cap M = {} /\ E \cap M = {}
  BY <1>6, <1>7, <1>9, <1>10 DEF Transport!Ended
<1>13. /\ IsFiniteSet(flushed')
       /\ Cardinality(flushed') = Cardinality(flushed) + Len(ev) + Len(me)
  <2>0. IsFiniteSet(flushed)
    BY DEF TransportInv
  <2>1. /\ IsFiniteSet(flushed \cup E \cup M)
        /\ Cardinality(flushed \cup E \cup M) = Cardinality(flushed) + Cardinality(E) + Cardinality(M)
    <3>1. IsFiniteSet(E) /\ IsFiniteSet(M)
      BY <1>7
    <3> QED
      BY <1>12, <2>0, <3>1, CountedApart
  <2>2. flushed' = flushed \cup E \cup M
    BY <1>1
  <2> QED
    BY <1>7, <2>1, <2>2, Zenon
<1>14. /\ Transport!Held' \cap Transport!Ended' = {}
       /\ Transport!Ended' \subseteq EventItems \cup MetricItems
  BY <1>6, <1>7, <1>8, <1>9, <1>11
<1>15. Told' = Told
  <2>1. \A x : x \in Transport!Held' \cup Transport!Ended' <=> x \in Transport!Held \cup Transport!Ended
    BY <1>6, <1>8
  <2>2. Transport!Held' \cup Transport!Ended' = Transport!Held \cup Transport!Ended
    BY <2>1
  <2> QED
    BY <2>2 DEF Told
<1>16. InLine(eventQueue, EventsOf)' /\ InLine(metricQueue, MetricsOf)'
  <2>1. InLine(eventQueue, EventsOf) /\ InLine(metricQueue, MetricsOf)
    BY DEF TransportInv
  <2> DEFINE EO == EventsOf'
             MO == MetricsOf'
  <2>2. /\ DOMAIN EO \subseteq DOMAIN EventsOf /\ \A c \in DOMAIN EO : EO[c] = EventsOf[c]
        /\ DOMAIN MO \subseteq DOMAIN MetricsOf /\ \A c \in DOMAIN MO : MO[c] = MetricsOf[c]
    BY <1>5 DEF EventsOf, MetricsOf, D
  <2> HIDE DEF EO, MO
  <2>3. InLine(eventQueue, EO) /\ InLine(metricQueue, MO)
    BY <2>1, <2>2, LineLeft
  <2> QED
    BY <1>1, <2>3 DEF EO, MO
<1>17. SumFunction(LengthsOf) = SumFunction(LengthsOf)' + (Len(ev) + Len(me)) /\ SumFunction(LengthsOf)' \in Nat
  <2> DEFINE f == LengthsOf'
             h == LengthsOf
             S == D \ {b}
  <2>1. h \in [D -> Nat] /\ IsFiniteSet(D) /\ b \in D
    BY TransportFacts DEF D
  <2>2. f = [c \in DOMAIN batches' |-> Len(batches'[c].events) + Len(batches'[c].metrics)]
    BY DEF LengthsOf
  <2>3. h[b] = Len(ev) + Len(me)
    BY <2>1 DEF LengthsOf, ev, me, D
  <2>4. \A c \in D : h[c] = Len(batches[c].events) + Len(batches[c].metrics)
    BY DEF LengthsOf, D
  <2> HIDE DEF f, h
  <2>5. DOMAIN f = S /\ f = [c \in S |-> f[c]] /\ \A c \in S : f[c] = h[c]
    BY <1>5, <2>2, <2>4
  <2>6. S \cup {b} = D /\ b \notin S /\ IsFiniteSet(S)
    BY <2>1, FS_Subset
  <2> HIDE DEF S
  <2>7. f \in [S -> Nat] /\ h \in [S \cup {b} -> Nat]
    <3>1. \A c \in S : f[c] \in Nat
      BY <2>1, <2>5, <2>6
    <3> QED
      BY <2>1, <2>5, <2>6, <3>1
  <2>8. SumFunction(h) = SumFunction(f) + h[b]
    BY <2>5, <2>6, <2>7, SumMore
  <2>9. SumFunction(f) \in Nat
    BY <2>6, <2>7, SumNat
  <2> QED
    BY <2>3, <2>8, <2>9 DEF f, h
<1>18. /\ Cardinality(Transport!SentEvents') = Cardinality(Transport!SentEvents) + Len(ev)
       /\ SumFunction([y \in Transport!SentEvents' |-> y.size])
            = SumFunction([y \in Transport!SentEvents |-> y.size]) + size
  <2> DEFINE S == Transport!SentEvents
             T == Transport!SentEvents'
             f == [y \in S |-> y.size]
             h == [y \in S \cup E |-> y.size]
  <2>1. S = {x \in flushed : "size" \in DOMAIN x} /\ T = {x \in flushed' : "size" \in DOMAIN x}
    BY DEF Transport!SentEvents
  <2>2. T = S \cup E
    BY <1>1, <1>7, <2>1, ItemsApart
  <2>3. IsFiniteSet(S) /\ S \subseteq EventItems /\ S \cap E = {}
    <3>1. IsFiniteSet(flushed) /\ S \subseteq flushed
      BY <2>1 DEF TransportInv
    <3>2. IsFiniteSet(S)
      BY <3>1, FS_Subset
    <3>3. S \subseteq EventItems
      BY <1>9, <2>1, ItemsApart DEF Transport!Ended
    <3> QED
      BY <1>12, <3>1, <3>2, <3>3
  <2>4. /\ f = [y \in S |-> y.size] /\ h = [y \in S \cup Range(ev) |-> y.size]
    BY DEF E
  <2> HIDE DEF S, T, f, h
  <2>5. S \cap Range(ev) = {}
    BY <2>3 DEF E
  <2>6. /\ Cardinality(S \cup Range(ev)) = Cardinality(S) + Len(ev)
        /\ SumFunction(h) = SumFunction(f) + Transport!Bytes(ev)
    BY <1>2, <2>3, <2>5, SentMore DEF f, h, E
  <2>7. h = [y \in T |-> y.size]
    BY <2>2 DEF h
  <2>8. Cardinality(T) = Cardinality(S) + Len(ev)
    BY <2>2, <2>6 DEF E
  <2> QED
    BY <1>3, <2>4, <2>6, <2>7, <2>8 DEF S, T
<1>19. Counted'
  <2> DEFINE l == Len(eventQueue)
             g == Len(metricQueue)
             c == Cardinality(flushed)
             d == Cardinality(cleared)
             n == SumFunction(LengthsOf)'
             u == Len(ev)
             v == Len(me)
             p == Cardinality(D \ {b})
  <2>1. l + g + c + d + (n + (u + v)) = nextItem - 1
    BY <1>17 DEF TransportInv, Counted
  <2>2. l \in Nat /\ g \in Nat /\ c \in Nat /\ d \in Nat /\ n \in Nat /\ u \in Nat /\ v \in Nat
    BY <1>7, <1>17, TransportFacts
  <2>3. Cardinality(flushed') = c + u + v
    BY <1>13
  <2>4. /\ IsFiniteSet(D) /\ b \in D /\ Cardinality(D) \in Nat /\ sent.batches \in Nat
        /\ sent.batches + Cardinality(D) = nextBatch - 1
    BY TransportFacts DEF D, TransportInv, Transport!TransportTypeOK, Counted
  <2>5. p = Cardinality(D) - 1
    BY <2>4, FS_RemoveElement
  <2>6. sent'.batches = sent.batches + 1 /\ DOMAIN batches' = D \ {b}
    BY <1>1, <1>5
  <2> HIDE DEF l, g, c, d, n, u, v, p
  <2>7. l + g + (c + u + v) + d + n = nextItem - 1
    BY <2>1, <2>2
  <2>8. (sent.batches + 1) + p = nextBatch - 1
    BY <2>4, <2>5
  <2>9. Len(eventQueue') = l /\ Len(metricQueue') = g /\ Cardinality(cleared') = d
        /\ nextItem' = nextItem /\ nextBatch' = nextBatch
    BY <1>1 DEF l, g, d
  <2>10. Len(eventQueue') + Len(metricQueue') + Cardinality(flushed') + Cardinality(cleared')
          + SumFunction(LengthsOf)' = nextItem' - 1
    BY <2>3, <2>7, <2>9, Zenon DEF n
  <2>11. sent'.batches + Cardinality(DOMAIN batches') = nextBatch' - 1
    BY <2>6, <2>8, <2>9 DEF p
  <2>12. /\ sent'.events = sent.events + u /\ sent'.bytes = sent.bytes + size
         /\ sent.events = Cardinality(Transport!SentEvents)
         /\ sent.bytes = SumFunction([y \in Transport!SentEvents |-> y.size])
    BY <1>1 DEF TransportInv, Counted, u
  <2>13. /\ sent'.events = Cardinality(Transport!SentEvents')
         /\ sent'.bytes = SumFunction([y \in Transport!SentEvents' |-> y.size])
    BY <1>18, <2>12, Zenon DEF u
  <2> QED
    BY <2>10, <2>11, <2>13 DEF Counted
<1>20. Transport!TransportTypeOK'
  <2>1. sent' \in [batches : Nat, events : Nat, bytes : Nat]
    <3>1. sent.batches \in Nat /\ sent.events \in Nat /\ sent.bytes \in Nat
      BY DEF TransportInv, Transport!TransportTypeOK
    <3> QED
      BY <1>1, <1>2, <1>7, <3>1
  <2>2. DOMAIN batches' \subseteq DOMAIN batches
    BY <1>5 DEF D
  <2> QED
    BY <1>1, <2>1, <2>2 DEF TransportInv, Transport!TransportTypeOK
<1>21. /\ batches' \in [DOMAIN batches' -> Batches]
       /\ \A c \in DOMAIN batches' : WithinLimits(batches'[c])
  BY <1>1, <1>5 DEF TransportInv, D
<1>22. nextBatch' \in Nat \ {0} /\ IsFiniteSet(cleared')
  BY <1>1 DEF TransportInv
<1> QED
  BY <1>1, <1>13, <1>14, <1>15, <1>16, <1>19, <1>20, <1>21, <1>22 DEF TransportInv

LEMMA TransportStep == ASSUME TransportInv, Transport!Next PROVE TransportInv'
<1>1. ASSUME NEW size \in Sizes, Transport!EnqueueEvent(size) PROVE TransportInv'
  <2> DEFINE x == [number |-> nextItem, size |-> size]
  <2>1. /\ nextItem <= MaxItems /\ nextItem' = nextItem + 1
        /\ eventQueue' = Append(eventQueue, x)
        /\ UNCHANGED metricQueue
        /\ UNCHANGED <<batches, enabled, limits, sent, nextBatch, flushed, cleared>>
    BY <1>1 DEF Transport!EnqueueEvent, Transport!Enqueue
  <2>2. x \in EventItems /\ x.number = nextItem
    BY <2>1, TransportFacts, TransportConstants DEF EventItems
  <2> HIDE DEF x
  <2> QED
    BY <2>1, <2>2, EnqueueStep
<1>2. CASE Transport!EnqueueMetric
  <2> DEFINE x == [number |-> nextItem]
  <2>1. /\ nextItem <= MaxItems /\ nextItem' = nextItem + 1
        /\ metricQueue' = Append(metricQueue, x)
        /\ UNCHANGED eventQueue
        /\ UNCHANGED <<batches, enabled, limits, sent, nextBatch, flushed, cleared>>
    BY <1>2 DEF Transport!EnqueueMetric, Transport!Enqueue
  <2>2. x \in MetricItems /\ x.number = nextItem
    BY <2>1, TransportFacts, TransportConstants DEF MetricItems
  <2> HIDE DEF x
  <2> QED
    BY <2>1, <2>2, EnqueueStep
<1>3. ASSUME \/ \E on \in BOOLEAN : Transport!SetEnabled(on)
             \/ \E l \in Limits : Transport!SetConfig(l)
      PROVE  TransportInv'
  <2>1. /\ enabled' \in BOOLEAN /\ limits' \in Limits
        /\ UNCHANGED <<eventQueue, metricQueue, batches, sent, nextItem, nextBatch, flushed, cleared>>
    BY <1>3 DEF Transport!SetEnabled, Transport!SetConfig, TransportInv, Transport!TransportTypeOK
  <2>2. /\ EventsOf' = EventsOf /\ MetricsOf' = MetricsOf /\ LengthsOf' = LengthsOf
        /\ Transport!SentEvents' = Transport!SentEvents /\ Transport!Ended' = Transport!Ended
        /\ Transport!Held' = Transport!Held /\ Told' = Told
    BY <2>1 DEF EventsOf, MetricsOf, LengthsOf, Transport!SentEvents, Transport!Ended,
       Transport!Held, Transport!Range, Told
  <2>3. InLine(eventQueue, EventsOf)' /\ InLine(metricQueue, MetricsOf)' /\ Counted'
    BY <2>1, <2>2 DEF TransportInv, Counted
  <2>4. Transport!TransportTypeOK'
    BY <2>1 DEF TransportInv, Transport!TransportTypeOK
  <2> QED
    BY <2>1, <2>2, <2>3, <2>4 DEF TransportInv
<1> QED
  BY <1>1, <1>2, <1>3, CreateBatchStep, ClearQueueStep, FlushBatchStep DEF Transport!Next

LEMMA TransportInit == ASSUME Transport!Init PROVE TransportInv
<1>1. /\ eventQueue = <<>> /\ metricQueue = <<>> /\ DOMAIN batches = {} /\ enabled = TRUE
      /\ limits \in Limits /\ sent = [batches |-> 0, events |-> 0, bytes |-> 0]
      /\ nextItem = 1 /\ nextBatch = 1 /\ flushed = {} /\ cleared = {}
      /\ batches = [b \in {} |-> <<>>]
  BY DEF Transport!Init
<1>2. Transport!TransportTypeOK
  BY <1>1, TransportConstants DEF Transport!TransportTypeOK
<1>3. /\ InLine(eventQueue, EventsOf) /\ InLine(metricQueue, MetricsOf)
      /\ \A b \in DOMAIN batches : WithinLimits(batches[b])
  BY <1>1 DEF InLine, Rising, Before, EventsOf, MetricsOf
<1>4. batches \in [DOMAIN batches -> Batches]
  BY <1>1
<1>5. Transport!Held = {} /\ Transport!Ended = {} /\ Transport!SentEvents = {}
  BY <1>1 DEF Transport!Held, Transport!Ended, Transport!SentEvents, Transport!Range
<1>6. Told = 1..(nextItem - 1)
  BY <1>1, <1>5 DEF Told
<1>7. Counted
  <2>1. IsFiniteSet({}) /\ Cardinality({}) = 0
    BY FS_EmptySet
  <2>2. \A f : f \in [{} -> Nat] => SumFunction(f) = 0
    <3> SUFFICES ASSUME NEW f \in [{} -> Nat] PROVE SumFunction(f) = 0
      OBVIOUS
    <3>1. SumFunction(f) = Cardinality(Units(f, {}))
      BY <2>1, SumCounted
    <3>2. Units(f, {}) = {}
      BY DEF Units
    <3> QED
      BY <2>1, <3>1, <3>2
  <2>3. LengthsOf \in [{} -> Nat]
    BY <1>1 DEF LengthsOf
  <2>4. [x \in Transport!SentEvents |-> x.size] \in [{} -> Nat]
    BY <1>5
  <2>5. SumFunction(LengthsOf) = 0 /\ SumFunction([x \in Transport!SentEvents |-> x.size]) = 0
    BY <2>2, <2>3, <2>4
  <2>6. Len(eventQueue) = 0 /\ Len(metricQueue) = 0
    BY <1>1
  <2> QED
    BY <1>1, <1>5, <2>1, <2>5, <2>6 DEF Counted
<1>8. IsFiniteSet(flushed) /\ IsFiniteSet(cleared)
  BY <1>1, FS_EmptySet
<1>9. nextBatch \in Nat \ {0}
  BY <1>1
<1> QED
  BY <1>2, <1>3, <1>4, <1>5, <1>6, <1>7, <1>8, <1>9 DEF TransportInv

(* Two parts of a line, one after the other.                               *)
LEMMA AscendingParts ==
  ASSUME NEW R, NEW s \in Seq(R), NEW t \in Seq(R), Rising(s), Rising(t), Before(s, t)
  PROVE  Transport!Ascending(s \o t)
<1> DEFINE m == Len(s)
           n == Len(t)
           u == s \o t
<1>1. /\ m \in Nat /\ n \in Nat /\ DOMAIN s = 1..m /\ DOMAIN t = 1..n /\ DOMAIN u = 1..(m + n)
      /\ \A i \in 1..(m + n) : u[i] = IF i <= m THEN s[i] ELSE t[i - m]
  OBVIOUS
<1> HIDE DEF m, n, u
<1>2. ASSUME NEW i \in 1..(m + n), NEW j \in 1..(m + n), i < j PROVE u[i].number < u[j].number
  <2>1. CASE j <= m
    <3>1. i \in 1..m /\ j \in 1..m /\ i <= m
      BY <1>1, <1>2, <2>1
    <3> QED
      BY <1>1, <1>2, <2>1, <3>1 DEF Rising
  <2>2. CASE i <= m /\ ~(j <= m)
    <3>1. i \in 1..m /\ j - m \in 1..n
      BY <1>1, <2>2
    <3>2. u[i] = s[i] /\ u[j] = t[j - m]
      BY <1>1, <2>2
    <3> QED
      BY <1>1, <3>1, <3>2 DEF Before
  <2>3. CASE ~(i <= m) /\ ~(j <= m)
    <3>1. i - m \in 1..n /\ j - m \in 1..n /\ i - m < j - m
      BY <1>1, <1>2, <2>3
    <3>2. u[i] = t[i - m] /\ u[j] = t[j - m]
      BY <1>1, <2>3
    <3> DEFINE a == i - m
               b == j - m
    <3> HIDE DEF a, b
    <3>3. t[a].number < t[b].number
      BY <1>1, <3>1 DEF Rising, a, b
    <3> QED
      BY <3>2, <3>3 DEF a, b
  <2>4. i <= m \/ ~(j <= m)
    BY <1>1, <1>2
  <2> QED
    BY <2>1, <2>2, <2>3, <2>4
<1> QED
  BY <1>1, <1>2 DEF Transport!Ascending, u

LEMMA TransportImplies ==
  ASSUME TransportInv PROVE Transport!TransportTypeOK /\ Transport!BatchesKeepItems
<1>1. {x.number : x \in Transport!Held \cup Transport!Ended} = 1..(nextItem - 1)
  BY DEF TransportInv, Told
<1>2. Len(eventQueue) + Len(metricQueue) + Cardinality(flushed) + Cardinality(cleared)
        + Transport!SumFunction([b \in DOMAIN batches |-> Len(batches[b].events) + Len(batches[b].metrics)])
      = nextItem - 1
  BY SumsOfTransport DEF TransportInv, Counted, LengthsOf
<1>3. ASSUME NEW b \in DOMAIN batches
      PROVE  LET x == batches[b] IN
             /\ Len(x.events) + Len(x.metrics) <= x.limits.items
             /\ Len(x.events) <= 1 \/ x.totalSize <= x.limits.bytes
             /\ Transport!Ascending(x.events \o eventQueue)
             /\ Transport!Ascending(x.metrics \o metricQueue)
             /\ \A c \in DOMAIN batches : b < c =>
                  /\ Transport!Ascending(x.events \o batches[c].events)
                  /\ Transport!Ascending(x.metrics \o batches[c].metrics)
  <2>1. WithinLimits(batches[b])
    BY DEF TransportInv
  <2>2. /\ eventQueue \in Seq(EventItems) /\ metricQueue \in Seq(MetricItems)
        /\ Rising(eventQueue) /\ Rising(metricQueue)
        /\ Before(batches[b].events, eventQueue) /\ Before(batches[b].metrics, metricQueue)
        /\ \A c \in DOMAIN batches : b < c =>
             Before(batches[b].events, batches[c].events) /\ Before(batches[b].metrics, batches[c].metrics)
    BY TransportFacts DEF TransportInv, InLine, EventsOf, MetricsOf
  <2>3. \A c \in DOMAIN batches :
          /\ batches[c].events \in Seq(EventItems) /\ batches[c].metrics \in Seq(MetricItems)
          /\ Rising(batches[c].events) /\ Rising(batches[c].metrics)
    BY PlacesApart
  <2>4. /\ Transport!Ascending(batches[b].events \o eventQueue)
        /\ Transport!Ascending(batches[b].metrics \o metricQueue)
    BY <2>2, <2>3, AscendingParts
  <2>5. ASSUME NEW c \in DOMAIN batches, b < c
        PROVE  /\ Transport!Ascending(batches[b].events \o batches[c].events)
               /\ Transport!Ascending(batches[b].metrics \o batches[c].metrics)
    BY <2>2, <2>3, <2>5, AscendingParts
  <2> QED
    BY <2>1, <2>4, <2>5 DEF WithinLimits
<1>4. /\ sent.batches + Cardinality(DOMAIN batches) = nextBatch - 1
      /\ sent.events = Cardinality(Transport!SentEvents)
      /\ sent.bytes = Transport!SumFunction([x \in Transport!SentEvents |-> x.size])
  BY SumsOfTransport DEF TransportInv, Counted
<1>5. Transport!TransportTypeOK
  BY DEF TransportInv
<1> QED
  BY <1>1, <1>2, <1>3, <1>4, <1>5 DEF Transport!BatchesKeepItems, Transport!Cardinality, Cardinality

(* No telemetry is lost, doubled, reordered or left out of the statistics, *)
(* however batches are made under changing limits, flushed in any order,   *)
(* and queues cleared (TelemetryTransport::createBatch, flushBatch,        *)
(* clearQueue, setConfig).                                                 *)
THEOREM BatchesKeepItemsHolds == Spec => []BatchesKeepItems
<1>1. Init => TransportInv
  BY TransportInit DEF Init
<1>2. TransportInv /\ [Next]_services => TransportInv'
  <2> SUFFICES ASSUME TransportInv, [Next]_services PROVE TransportInv'
    OBVIOUS
  <2>1. CASE Transport!Next
    BY <2>1, TransportStep
  <2>2. CASE UNCHANGED transportVars
    BY <2>2 DEF transportVars, TransportInv, Counted, Told, EventsOf, MetricsOf, LengthsOf,
       Transport!TransportTypeOK, Transport!Held, Transport!Ended, Transport!SentEvents
  <2> QED
    BY <2>1, <2>2 DEF Next, ServiceStep, PluginStep, RemoteStep, WatchStep, services, remoteSide
<1>3. TransportInv => BatchesKeepItems
  BY TransportImplies DEF BatchesKeepItems
<1> QED
  BY <1>1, <1>2, <1>3, PTL DEF Spec
=============================================================================
