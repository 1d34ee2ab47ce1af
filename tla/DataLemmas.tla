----------------------------- MODULE DataLemmas -----------------------------
(***************************************************************************)
(* Facts about numbers and sequences that the proofs about the broker and  *)
(* the client cite.  The library's induction theorems take an operator as  *)
(* a parameter, which no installed prover can instantiate; the least       *)
(* element of a set of numbers takes their place.                          *)
(***************************************************************************)
EXTENDS Naturals, Sequences, FiniteSetTheorems, SequenceTheorems, WellFoundedInduction, TLAPS

(* A set of numbers that is not empty has a least element: what a proof by
   induction uses here, for the first request or position where something
   fails.  The sets 0 .. k are finite, and strict inclusion of finite sets is
   well founded. *)
LEMMA NatMin ==
  ASSUME NEW T, T \subseteq Nat, T # {}
  PROVE  \E m \in T : \A n \in T : m <= n
<1> DEFINE F == {0 .. k : k \in T}
<1>1. F \subseteq FiniteSubsetsOf(Nat) /\ F # {}
  <2>1. ASSUME NEW k \in T PROVE 0 .. k \in FiniteSubsetsOf(Nat)
    <3>1. 0 \in Int /\ k \in Int /\ 0 .. k \subseteq Nat
      OBVIOUS
    <3>2. IsFiniteSet(0 .. k)
      BY <3>1, FS_Interval, Zenon
    <3> QED
      BY <3>1, <3>2 DEF FiniteSubsetsOf
  <2> QED
    BY <2>1
<1>2. IsWellFoundedOn(StrictSubsetOrdering(Nat), FiniteSubsetsOf(Nat))
  BY FS_StrictSubsetOrderingWellFounded
<1>3. PICK x \in F : \A y \in F : ~ (<<y, x>> \in StrictSubsetOrdering(Nat))
  <2> HIDE DEF F
  <2> QED
    BY <1>1, <1>2, WFMin
<1>4. PICK m \in T : x = 0 .. m
  BY <1>3
<1>5. ASSUME NEW n \in T, n < m PROVE FALSE
  <2>1. 0 .. n \in F /\ 0 .. n \subseteq 0 .. m /\ 0 .. n # 0 .. m
    BY <1>5
  <2>2. <<0 .. n, x>> \in StrictSubsetOrdering(Nat)
    BY <2>1, <1>4 DEF StrictSubsetOrdering
  <2> QED
    BY <1>3, <2>1, <2>2
<1> QED
  BY <1>5

(* A request belongs to one worker: the numbers v, v + R, v + 2R ... and
   w, w + R, w + 2R ... share none unless v = w. *)
LEMMA OneWorkerEach ==
  ASSUME NEW R \in Nat, NEW v \in 1 .. R, NEW w \in 1 .. R, NEW j \in Nat, NEW k \in Nat,
         v + j * R = w + k * R
  PROVE  v = w
<1>1. CASE j < k
  <2>1. PICK d \in Nat : k = j + 1 + d
    <3>1. k - j - 1 \in Nat /\ k = j + 1 + (k - j - 1)
      BY <1>1
    <3> QED
      BY <3>1
  <2>2. k * R = j * R + R + d * R /\ j * R \in Nat /\ d * R \in Nat
    BY <2>1
  <2> QED
    BY <2>2
<1>2. CASE k < j
  <2>1. PICK d \in Nat : j = k + 1 + d
    <3>1. j - k - 1 \in Nat /\ j = k + 1 + (j - k - 1)
      BY <1>2
    <3> QED
      BY <3>1
  <2>2. j * R = k * R + R + d * R /\ k * R \in Nat /\ d * R \in Nat
    BY <2>1
  <2> QED
    BY <2>2
<1>3. CASE j = k
  <2>1. j * R = k * R /\ j * R \in Nat
    BY <1>3
  <2> QED
    BY <2>1
<1> QED
  BY <1>1, <1>2, <1>3

(* A sequence over a set is one over every larger set. *)
LEMMA SeqGrows ==
  ASSUME NEW S, NEW T, S \subseteq T, NEW s \in Seq(S)
  PROVE  s \in Seq(T)
OBVIOUS

(* Appending, as the proofs use it. *)
LEMMA AppendedSeq ==
  ASSUME NEW S, NEW s \in Seq(S), NEW e \in S
  PROVE  /\ Append(s, e) \in Seq(S) /\ Append(s, e) # <<>>
         /\ Len(Append(s, e)) = Len(s) + 1
         /\ DOMAIN Append(s, e) = DOMAIN s \cup {Len(s) + 1}
         /\ \A i \in DOMAIN s : Append(s, e)[i] = s[i]
         /\ Append(s, e)[Len(s) + 1] = e
OBVIOUS

(* Division with a remainder: n divided by k leaves the remainder of any way to
   write n as a multiple of k and a rest below k. *)
LEMMA RemainderIs ==
  ASSUME NEW k \in Nat \ {0}, NEW n \in Nat, NEW q \in Nat, NEW r \in 0 .. k - 1, n = q * k + r
  PROVE  n % k = r
<1> DEFINE d == n \div k
           e == n % k
<1>1. d \in Nat /\ e \in 0 .. k - 1 /\ n = k * d + e
  OBVIOUS
<1> HIDE DEF d, e
<1>2. (e + 1) + d * k = (r + 1) + q * k
  <2>1. k * d = d * k
    BY <1>1
  <2>2. d * k \in Nat /\ q * k \in Nat
    BY <1>1
  <2> QED
    BY <1>1, <2>1, <2>2
<1>3. e + 1 \in 1 .. k /\ r + 1 \in 1 .. k
  BY <1>1
<1>4. e + 1 = r + 1
  <2> DEFINE v == e + 1
             w == r + 1
  <2>1. k \in Nat /\ v \in 1 .. k /\ w \in 1 .. k /\ v + d * k = w + q * k
    BY <1>2, <1>3
  <2> HIDE DEF v, w
  <2>2. v = w
    <3>1. d \in Nat /\ q \in Nat
      BY <1>1
    <3> QED
      BY <2>1, <3>1, OneWorkerEach, Zenon
  <2> QED
    BY <2>2 DEF v, w
<1>5. e = r
  BY <1>1, <1>4
<1> QED
  BY <1>5 DEF e

(* Of n positions dealt out in turn to m, those that x gets. *)
Round(n, m, x) == {p \in 1 .. n : (p - 1) % m = x - 1}

(* Nobody gets two more than another: all of one's positions but the first are
   one round after a position of the other. *)
LEMMA RoundsAreEven ==
  ASSUME NEW n \in Nat, NEW m \in Nat, NEW i \in 1 .. m, NEW j \in 1 .. m
  PROVE  /\ IsFiniteSet(Round(n, m, i)) /\ Cardinality(Round(n, m, i)) \in Nat
         /\ Cardinality(Round(n, m, i)) <= Cardinality(Round(n, m, j)) + 1
<1> DEFINE P(x) == Round(n, m, x)
           Later == P(i) \ {i}
           f == [p \in Later |-> p - m + j - i]
<1>1. m \in Nat /\ n \in Nat /\ i \in 1 .. m /\ j \in 1 .. m
  OBVIOUS
<1>2. P(i) = {p \in 1 .. n : (p - 1) % m = i - 1} /\ P(j) = {p \in 1 .. n : (p - 1) % m = j - 1}
  BY DEF Round
<1> HIDE DEF P
<1>3. IsFiniteSet(P(i)) /\ IsFiniteSet(P(j))
  <2>1. IsFiniteSet(1 .. n)
    BY <1>1, FS_Interval
  <2>2. P(i) \in SUBSET (1 .. n) /\ P(j) \in SUBSET (1 .. n)
    BY <1>2
  <2> QED
    BY <2>1, <2>2, FS_Subset
<1>4. Cardinality(P(i)) \in Nat /\ Cardinality(P(j)) \in Nat
  BY <1>3, FS_CardinalityType
<1>5. IsFiniteSet(Later) /\ Cardinality(Later) \in {Cardinality(P(i)) - 1, Cardinality(P(i))}
  BY <1>3, FS_RemoveElement
<1>6. ASSUME NEW p \in Later
      PROVE  p - m + j - i \in P(j)
  <2>1. p \in 1 .. n /\ (p - 1) % m = i - 1 /\ p # i
    BY <1>2
  <2>2. PICK q : q = (p - 1) \div m
    OBVIOUS
  <2>3. q \in Nat /\ p - 1 = m * q + (i - 1)
    BY <1>1, <2>1, <2>2
  <2>4. q # 0
    BY <1>1, <2>1, <2>3
  <2>5. PICK r \in Nat : q = r + 1
    <3>1. q - 1 \in Nat /\ q = (q - 1) + 1
      BY <2>3, <2>4
    <3> QED
      BY <3>1
  <2>6. PICK rounds \in Nat : rounds = r * m /\ p = rounds + m + i
    <3>1. m * q = r * m + m /\ r * m \in Nat
      BY <1>1, <2>5
    <3>2. PICK rounds \in Nat : rounds = r * m
      BY <3>1
    <3>3. p - 1 = (rounds + m) + (i - 1)
      BY <2>3, <3>1, <3>2
    <3> QED
      BY <1>1, <2>1, <3>2, <3>3
  <2>7. (p - m + j - i) - 1 = rounds + (j - 1) /\ p - m + j - i \in 1 .. n
    <3>1. p \in 1 .. n /\ p = rounds + m + i
      BY <2>1, <2>6
    <3> QED
      BY <1>1, <3>1
  <2>8. ((p - m + j - i) - 1) % m = j - 1
    <3>1. PICK z : z = (p - m + j - i) - 1
      OBVIOUS
    <3>2. z \in Nat /\ z = r * m + (j - 1)
      BY <1>1, <2>6, <2>7, <3>1
    <3>3. m \in Nat \ {0} /\ j - 1 \in 0 .. m - 1
      BY <1>1
    <3>4. z % m = j - 1
      BY <3>2, <3>3, RemainderIs
    <3> QED
      BY <3>1, <3>4
  <2> QED
    BY <1>2, <2>7, <2>8
<1>7. f \in Injection(Later, P(j))
  <2>1. f \in [Later -> P(j)]
    BY <1>6
  <2>2. ASSUME NEW p \in Later, NEW q \in Later, f[p] = f[q]
        PROVE  p = q
    <3>1. p - m + j - i = q - m + j - i /\ p \in Nat /\ q \in Nat
      BY <1>2, <2>2
    <3> QED
      BY <1>1, <3>1
  <2> QED
    BY <2>1, <2>2 DEF Injection, IsInjective
<1> HIDE DEF Later, f
<1>8. Cardinality(Later) <= Cardinality(P(j))
  BY <1>3, <1>7, FS_Injection
<1> QED
  BY <1>3, <1>4, <1>5, <1>8 DEF P
=============================================================================
