--------------------------- MODULE SequenceLemmas ---------------------------
(***************************************************************************)
(* Facts about sequences that the proofs of several components need: what  *)
(* is left of a sequence when an element is taken out (a Go slice that is  *)
(* copied and truncated, a request of a page that is answered), and what   *)
(* it holds when one is added or replaced.                                 *)
(***************************************************************************)
EXTENDS Integers, SequencesExt, SequenceTheorems, FiniteSetTheorems, TLAPS

\* Where the elements are after the one at position k has been taken out.
LEMMA RemoveAtPlaces ==
    ASSUME NEW S, NEW q \in Seq(S), NEW k \in 1..Len(q)
    PROVE  /\ RemoveAt(q, k) \in Seq(S)
           /\ Len(RemoveAt(q, k)) = Len(q) - 1
           /\ \A i \in 1..Len(q) - 1 :
                 RemoveAt(q, k)[i] = IF i < k THEN q[i] ELSE q[i + 1]
<1> DEFINE a == SubSeq(q, 1, k - 1)
           b == SubSeq(q, k + 1, Len(q))
<1>1. RemoveAt(q, k) = a \o b
  BY DEF RemoveAt
<1>2. k \in Nat /\ Len(q) \in Nat /\ k >= 1 /\ k <= Len(q)
  OBVIOUS
<1>3. /\ a \in Seq(S) /\ Len(a) = k - 1
      /\ \A i \in 1..k - 1 : a[i] = q[i]
  <2>1. \A i \in 1..k - 1 : q[i] \in S
    BY <1>2
  <2>2. 1 \in Int /\ k - 1 \in Int
    BY <1>2
  <2>3. /\ a \in Seq(S)
        /\ Len(a) = IF 1 <= k - 1 THEN (k - 1) - 1 + 1 ELSE 0
        /\ \A i \in 1..(k - 1) - 1 + 1 : a[i] = q[1 + i - 1]
    BY <2>1, <2>2, SubSeqProperties, Z3
  <2> HIDE DEF a
  <2> QED
    BY <1>2, <2>3
<1>4. /\ b \in Seq(S) /\ Len(b) = Len(q) - k
      /\ \A i \in 1..Len(q) - k : b[i] = q[k + i]
  <2>1. \A i \in k + 1..Len(q) : q[i] \in S
    BY <1>2
  <2>2. k + 1 \in Int /\ Len(q) \in Int
    BY <1>2
  <2>3. /\ b \in Seq(S)
        /\ Len(b) = IF k + 1 <= Len(q) THEN Len(q) - (k + 1) + 1 ELSE 0
        /\ \A i \in 1..Len(q) - (k + 1) + 1 : b[i] = q[(k + 1) + i - 1]
    BY <2>1, <2>2, SubSeqProperties, Z3
  <2> HIDE DEF b
  <2> QED
    BY <1>2, <2>3
<1> HIDE DEF a, b
<1>5. /\ a \o b \in Seq(S)
      /\ Len(a \o b) = Len(a) + Len(b)
      /\ \A i \in 1..Len(a) + Len(b) :
            (a \o b)[i] = IF i <= Len(a) THEN a[i] ELSE b[i - Len(a)]
  BY <1>3, <1>4, ConcatProperties
<1>6. Len(a) + Len(b) = Len(q) - 1
  BY <1>2, <1>3, <1>4
<1>7. \A i \in 1..Len(q) - 1 : (a \o b)[i] = IF i < k THEN q[i] ELSE q[i + 1]
  BY <1>2, <1>3, <1>4, <1>5, <1>6
<1> QED
  BY <1>1, <1>5, <1>6, <1>7

\* The elements that are left are those at the other positions.
LEMMA RemoveAtRest ==
    ASSUME NEW S, NEW q \in Seq(S), NEW k \in DOMAIN q
    PROVE  /\ RemoveAt(q, k) \in Seq(S)
           /\ Len(RemoveAt(q, k)) = Len(q) - 1
           /\ \A i \in DOMAIN RemoveAt(q, k) :
                 \E j \in DOMAIN q : j # k /\ RemoveAt(q, k)[i] = q[j]
           /\ \A j \in DOMAIN q : j # k =>
                 \E i \in DOMAIN RemoveAt(q, k) : RemoveAt(q, k)[i] = q[j]
<1> DEFINE w == RemoveAt(q, k)
<1>1. k \in 1..Len(q) /\ Len(q) \in Nat /\ DOMAIN q = 1..Len(q)
  OBVIOUS
<1>2. /\ w \in Seq(S) /\ Len(w) = Len(q) - 1
      /\ \A i \in 1..Len(q) - 1 : w[i] = IF i < k THEN q[i] ELSE q[i + 1]
  BY <1>1, RemoveAtPlaces
<1> HIDE DEF w
<1>3. DOMAIN w = 1..Len(q) - 1
  BY <1>2
<1>4. ASSUME NEW i \in DOMAIN w PROVE \E j \in DOMAIN q : j # k /\ w[i] = q[j]
  <2>1. CASE i < k
    BY <1>1, <1>2, <1>3, <2>1
  <2>2. CASE ~(i < k)
    <3>1. i + 1 \in 1..Len(q) /\ i + 1 # k
      BY <1>1, <1>3, <2>2
    <3> QED
      BY <1>1, <1>2, <1>3, <2>2, <3>1
  <2> QED
    BY <2>1, <2>2
<1>5. ASSUME NEW j \in DOMAIN q, j # k PROVE \E i \in DOMAIN w : w[i] = q[j]
  <2>1. CASE j < k
    BY <1>1, <1>2, <1>3, <2>1
  <2>2. CASE j > k
    <3>1. j - 1 \in 1..Len(q) - 1 /\ ~(j - 1 < k) /\ (j - 1) + 1 = j
      BY <1>1, <2>2
    <3>2. w[j - 1] = q[j]
      BY <1>2, <3>1
    <3> QED
      BY <1>3, <3>1, <3>2
  <2> QED
    BY <1>1, <1>5, <2>1, <2>2
<1> QED
  BY <1>2, <1>4, <1>5 DEF w

\* One element more.
LEMMA AppendRest ==
    ASSUME NEW S, NEW q \in Seq(S), NEW x \in S
    PROVE  /\ Append(q, x) \in Seq(S)
           /\ Len(Append(q, x)) = Len(q) + 1
           /\ DOMAIN Append(q, x) = DOMAIN q \cup {Len(q) + 1}
           /\ Len(q) + 1 \notin DOMAIN q
           /\ \A i \in DOMAIN q : Append(q, x)[i] = q[i]
           /\ Append(q, x)[Len(q) + 1] = x
<1> DEFINE a == Append(q, x)
<1>1. /\ a \in Seq(S) /\ Len(a) = Len(q) + 1 /\ Len(q) \in Nat
      /\ \A i \in 1..Len(q) : a[i] = q[i]
      /\ a[Len(q) + 1] = x
  BY AppendProperties
<1> HIDE DEF a
<1>2. DOMAIN q = 1..Len(q) /\ DOMAIN a = 1..Len(q) + 1
  BY <1>1
<1>3. 1..Len(q) + 1 = 1..Len(q) \cup {Len(q) + 1} /\ Len(q) + 1 \notin 1..Len(q)
  BY <1>1
<1> QED
  BY <1>1, <1>2, <1>3 DEF a

\* Two elements that are left were at two positions before.
LEMMA RemoveAtTwo ==
    ASSUME NEW S, NEW q \in Seq(S), NEW k \in DOMAIN q
    PROVE  \A h, i \in DOMAIN RemoveAt(q, k) : h # i =>
              \E m, n \in DOMAIN q :
                 m # n /\ RemoveAt(q, k)[h] = q[m] /\ RemoveAt(q, k)[i] = q[n]
<1> DEFINE w == RemoveAt(q, k)
           at(i) == IF i < k THEN i ELSE i + 1
<1>1. k \in 1..Len(q) /\ Len(q) \in Nat /\ DOMAIN q = 1..Len(q)
  OBVIOUS
<1>2. /\ w \in Seq(S) /\ Len(w) = Len(q) - 1
      /\ \A i \in 1..Len(q) - 1 : w[i] = IF i < k THEN q[i] ELSE q[i + 1]
  BY <1>1, RemoveAtPlaces
<1> HIDE DEF w
<1>3. DOMAIN w = 1..Len(q) - 1
  BY <1>2
<1>4. \A i \in DOMAIN w : at(i) \in DOMAIN q /\ w[i] = q[at(i)]
  BY <1>1, <1>2, <1>3
<1>5. \A h, i \in DOMAIN w : h # i => at(h) # at(i)
  BY <1>1, <1>3
<1> HIDE DEF at
<1>6. \A h, i \in DOMAIN w : h # i =>
         \E m, n \in DOMAIN q : m # n /\ w[h] = q[m] /\ w[i] = q[n]
  BY <1>4, <1>5
<1> QED
  BY <1>6 DEF w

\* The positions of a sequence whose elements are in T.
Places(q, T) == {j \in DOMAIN q : q[j] \in T}

\* When an element is taken out, the other positions with one in T are as many.
LEMMA RemoveAtOthers ==
    ASSUME NEW S, NEW q \in Seq(S), NEW k \in DOMAIN q, NEW T
    PROVE  /\ IsFiniteSet(Places(q, T)) /\ IsFiniteSet(Places(RemoveAt(q, k), T))
           /\ Cardinality(Places(RemoveAt(q, k), T)) = Cardinality(Places(q, T) \ {k})
<1> DEFINE w == RemoveAt(q, k)
           A == {j \in DOMAIN q : q[j] \in T} \ {k}
           B == {i \in DOMAIN w : w[i] \in T}
           f == [j \in A |-> IF j < k THEN j ELSE j - 1]
<1>1. k \in 1..Len(q) /\ Len(q) \in Nat /\ DOMAIN q = 1..Len(q)
  OBVIOUS
<1>2. /\ w \in Seq(S) /\ Len(w) = Len(q) - 1
      /\ \A i \in 1..Len(q) - 1 : w[i] = IF i < k THEN q[i] ELSE q[i + 1]
  BY <1>1, RemoveAtPlaces
<1> HIDE DEF w
<1>3. DOMAIN w = 1..Len(q) - 1
  BY <1>2
<1>4. IsFiniteSet(A) /\ IsFiniteSet(Places(q, T))
  <2>1. IsFiniteSet(1..Len(q))
    BY <1>1, FS_Interval
  <2>2. A \in SUBSET (1..Len(q)) /\ Places(q, T) \in SUBSET (1..Len(q))
    BY <1>1 DEF Places
  <2> QED
    BY <2>1, <2>2, FS_Subset
<1>5. ASSUME NEW j \in A PROVE f[j] \in B /\ w[f[j]] = q[j]
  <2>1. j \in 1..Len(q) /\ q[j] \in T /\ j # k
    BY <1>1
  <2>2. CASE j < k
    <3>1. j \in 1..Len(q) - 1 /\ f[j] = j
      BY <1>1, <2>1, <2>2
    <3>2. w[j] = q[j]
      BY <1>2, <2>2, <3>1
    <3> QED
      BY <1>3, <2>1, <3>1, <3>2
  <2>3. CASE j > k
    <3>1. j - 1 \in 1..Len(q) - 1 /\ f[j] = j - 1 /\ ~(j - 1 < k) /\ (j - 1) + 1 = j
      BY <1>1, <2>1, <2>3
    <3>2. w[j - 1] = q[j]
      BY <1>2, <3>1
    <3> QED
      BY <1>3, <2>1, <3>1, <3>2
  <2> QED
    BY <1>1, <2>1, <2>2, <2>3
<1>6. \A a, b \in A : f[a] = f[b] => a = b
  <2>1. \A a \in A : a \in 1..Len(q) /\ a # k /\ f[a] = IF a < k THEN a ELSE a - 1
    BY <1>1
  <2> HIDE DEF f, A
  <2> QED
    BY <1>1, <2>1
<1>7. \A i \in B : \E j \in A : f[j] = i
  <2> TAKE i \in B
  <2>1. i \in 1..Len(q) - 1 /\ w[i] \in T
    BY <1>3
  <2>2. CASE i < k
    <3>0. i \in 1..Len(q) /\ i # k /\ q[i] \in T
      BY <1>1, <1>2, <2>1, <2>2
    <3>1. i \in A
      BY <1>1, <3>0
    <3>2. f[i] = i
      <4> HIDE DEF A
      <4> QED
        BY <2>2, <3>1
    <3> QED
      BY <3>1, <3>2
  <2>3. CASE ~(i < k)
    <3>1. i + 1 \in 1..Len(q) /\ q[i + 1] \in T /\ ~(i + 1 < k) /\ (i + 1) - 1 = i
      BY <1>1, <1>2, <2>1, <2>3
    <3>2. i + 1 \in A
      <4>1. i + 1 # k
        BY <1>1, <2>1, <2>3
      <4> QED
        BY <1>1, <3>1, <4>1
    <3>3. f[i + 1] = i
      <4> HIDE DEF A
      <4> QED
        BY <3>1, <3>2
    <3> QED
      BY <3>2, <3>3
  <2> QED
    BY <2>2, <2>3
<1>8. f \in Bijection(A, B)
  <2>1. f \in [A -> B] /\ DOMAIN f = A
    BY <1>5
  <2> HIDE DEF f, A, B
  <2> QED
    BY <1>6, <1>7, <2>1 DEF Bijection, Injection, Surjection, IsInjective
<1> HIDE DEF f, A, B
<1>9. IsFiniteSet(B) /\ Cardinality(B) = Cardinality(A)
  BY <1>4, <1>8, FS_Bijection DEF ExistsBijection
<1> QED
  BY <1>4, <1>9 DEF A, B, w, Places

\* Taking out an element that is not in T leaves as many positions with one that is.
LEMMA RemoveAtCount ==
    ASSUME NEW S, NEW q \in Seq(S), NEW k \in DOMAIN q, NEW T, q[k] \notin T
    PROVE  /\ IsFiniteSet(Places(q, T)) /\ IsFiniteSet(Places(RemoveAt(q, k), T))
           /\ Cardinality(Places(RemoveAt(q, k), T)) = Cardinality(Places(q, T))
<1>1. Places(q, T) \ {k} = Places(q, T)
  BY DEF Places
<1> QED
  BY <1>1, RemoveAtOthers

\* Taking out one that is leaves one less.
LEMMA RemoveAtCountLess ==
    ASSUME NEW S, NEW q \in Seq(S), NEW k \in DOMAIN q, NEW T, q[k] \in T
    PROVE  Cardinality(Places(RemoveAt(q, k), T)) = Cardinality(Places(q, T)) - 1
<1>1. k \in Places(q, T)
  BY DEF Places
<1>2. /\ IsFiniteSet(Places(q, T))
      /\ Cardinality(Places(RemoveAt(q, k), T)) = Cardinality(Places(q, T) \ {k})
  BY RemoveAtOthers
<1> QED
  BY <1>1, <1>2, FS_RemoveElement

\* Replacing an element that is not in T by one that is makes one position more.
LEMMA ReplaceCount ==
    ASSUME NEW S, NEW q \in Seq(S), NEW k \in DOMAIN q, NEW x \in S, NEW T,
           q[k] \notin T, x \in T
    PROVE  Cardinality(Places([q EXCEPT ![k] = x], T)) = Cardinality(Places(q, T)) + 1
<1>1. Places([q EXCEPT ![k] = x], T) = Places(q, T) \cup {k} /\ k \notin Places(q, T)
  BY DEF Places
<1>2. IsFiniteSet(Places(q, T))
  BY RemoveAtOthers
<1> QED
  BY <1>1, <1>2, FS_AddElement
=============================================================================
