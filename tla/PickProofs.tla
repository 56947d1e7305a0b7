----------------------------- MODULE PickProofs -----------------------------
(***************************************************************************)
(* What Picked and Kept return: which elements, in which order, which of   *)
(* them is first and which is last.  The position of an element that is    *)
(* kept is found by its rank among those that are kept.                    *)
(***************************************************************************)
EXTENDS Picks, Functions, FiniteSetTheorems, WellFoundedInduction, TLAPS

LEMMA LeastExists ==
    ASSUME NEW S, S \subseteq Nat, S # {}
    PROVE  \E x \in S : \A y \in S : x <= y
  <1>0. \E x \in S : \A y \in S : ~ (<<y, x>> \in OpToRel(<, Nat))
    BY NatLessThanWellFounded, WFMin
  <1>1. PICK x \in S : \A y \in S : ~ (<<y, x>> \in OpToRel(<, Nat))
    BY <1>0
  <1>2. ASSUME NEW y \in S PROVE x <= y
    <2>1. ~ (<<y, x>> \in OpToRel(<, Nat))
      BY <1>1
    <2>2. x \in Nat /\ y \in Nat
      OBVIOUS
    <2>3. ~ (y < x)
      BY <2>1, <2>2 DEF OpToRel
    <2>4. QED BY <2>2, <2>3
  <1>3. QED BY <1>2

\* The n elements of k are those of s at the positions S, in their order.
Walk(k, s, S, n, at) ==
    /\ n \in Nat /\ at \in [1 .. n -> S]
    /\ k = [i \in 1 .. n |-> s[at[i]]] /\ Len(k) = n
    /\ \A i, j \in 1 .. n : i < j => at[i] < at[j]
    /\ \A m \in S : \E i \in 1 .. n : at[i] = m

LEMMA PickedFacts ==
    ASSUME NEW T, NEW s \in Seq(T), NEW S, S \subseteq DOMAIN s
    PROVE  Picked(s, S) \in Seq(T) /\ \E n, at : Walk(Picked(s, S), s, S, n, at)
  <1> DEFINE n       == Cardinality(S)
             upTo(k) == {j \in S : j <= k}
             rank    == [k \in S |-> Cardinality(upTo(k))]
             at      == [i \in 1 .. n |-> CHOOSE k \in S : Cardinality(upTo(k)) = i]
  <1>1. Len(s) \in Nat /\ DOMAIN s = 1 .. Len(s)
    OBVIOUS
  <1>2. S \subseteq Int /\ IsFiniteSet(S)
    <2>1. IsFiniteSet(1 .. Len(s))
      BY <1>1, FS_Interval
    <2>2. QED BY <1>1, <2>1, FS_Subset
  <1>3. n \in Nat
    BY <1>2, FS_CardinalityType
  <1>4. \A k \in S : IsFiniteSet(upTo(k)) /\ Cardinality(upTo(k)) \in 1 .. n
    <2>1. ASSUME NEW k \in S PROVE IsFiniteSet(upTo(k)) /\ Cardinality(upTo(k)) \in 1 .. n
      <3>1. upTo(k) \subseteq S /\ k \in upTo(k)
        BY <1>2
      <3>2. IsFiniteSet(upTo(k)) /\ Cardinality(upTo(k)) <= n
        BY <1>2, <3>1, FS_Subset
      <3>3. Cardinality(upTo(k)) \in Nat /\ Cardinality(upTo(k)) # 0
        BY <3>1, <3>2, FS_CardinalityType, FS_EmptySet
      <3>4. QED BY <1>3, <3>2, <3>3
    <2>2. QED BY <2>1
  <1>5. \A k, l \in S : k < l => Cardinality(upTo(k)) < Cardinality(upTo(l))
    <2>1. ASSUME NEW k \in S, NEW l \in S, k < l
          PROVE  Cardinality(upTo(k)) < Cardinality(upTo(l))
      <3>1. upTo(k) \subseteq upTo(l) /\ l \in upTo(l) /\ l \notin upTo(k)
        BY <1>2, <2>1
      <3>2. Cardinality(upTo(k)) <= Cardinality(upTo(l)) /\ Cardinality(upTo(k)) # Cardinality(upTo(l))
        BY <1>4, <3>1, FS_Subset
      <3>3. Cardinality(upTo(k)) \in Nat /\ Cardinality(upTo(l)) \in Nat
        BY <1>4, FS_CardinalityType
      <3>4. QED BY <3>2, <3>3
    <2>2. QED BY <2>1
  <1> HIDE DEF n, upTo
  <1>6. \A k, l \in S : k < l => rank[k] < rank[l]
    BY <1>5
  <1>7. rank \in Surjection(S, 1 .. n)
    <2>1. rank \in [S -> 1 .. n]
      BY <1>4
    <2>2. \A k, l \in S : rank[k] = rank[l] => k = l
      <3>1. \A k \in S : rank[k] \in Int
        BY <1>3, <2>1
      <3> HIDE DEF rank
      <3>2. QED BY <1>2, <1>6, <3>1
    <2>3. rank \in Injection(S, 1 .. n)
      BY <2>1, <2>2 DEF Injection, IsInjective
    <2>4. IsFiniteSet(1 .. n) /\ Cardinality(1 .. n) = n
      BY <1>3, FS_Interval
    <2>5. QED BY <2>3, <2>4, FS_Injection DEF n
  <1>8. \A i \in 1 .. n : at[i] \in S /\ rank[at[i]] = i
    <2>1. ASSUME NEW i \in 1 .. n PROVE at[i] \in S /\ rank[at[i]] = i
      <3>1. PICK k \in S : rank[k] = i
        BY <1>7 DEF Surjection
      <3>2. \E m \in S : Cardinality(upTo(m)) = i
        BY <3>1
      <3>3. at[i] = CHOOSE m \in S : Cardinality(upTo(m)) = i
        OBVIOUS
      <3>4. at[i] \in S /\ Cardinality(upTo(at[i])) = i
        BY <3>2, <3>3
      <3>5. QED BY <3>4
    <2>2. QED BY <2>1
  <1>9. at \in [1 .. n -> S]
    BY <1>8
  <1>10. Picked(s, S) = [i \in 1 .. n |-> s[at[i]]]
    BY DEF Picked, n, upTo
  <1>11. rank \in [S -> 1 .. n]
    BY <1>7 DEF Surjection
  <1> HIDE DEF at, rank
  <1>12. Picked(s, S) \in Seq(T) /\ Len(Picked(s, S)) = n
    <2>1. \A i \in 1 .. n : s[at[i]] \in T
      BY <1>1, <1>9
    <2>2. QED BY <1>3, <1>10, <2>1
  <1>13. \A i, j \in 1 .. n : i < j => at[i] < at[j]
    <2>1. ASSUME NEW i \in 1 .. n, NEW j \in 1 .. n, i < j PROVE at[i] < at[j]
      <3>1. at[i] \in S /\ at[j] \in S /\ rank[at[i]] = i /\ rank[at[j]] = j
        BY <1>8
      <3>2. ~ (at[j] < at[i]) /\ at[i] # at[j]
        BY <1>3, <1>6, <2>1, <3>1
      <3>3. QED BY <1>2, <3>1, <3>2
    <2>2. QED BY <2>1
  <1>14. \A k \in S : \E i \in 1 .. n : at[i] = k
    <2>1. ASSUME NEW k \in S PROVE \E i \in 1 .. n : at[i] = k
      <3>1. rank[k] \in 1 .. n /\ at[rank[k]] \in S /\ rank[at[rank[k]]] = rank[k]
        BY <1>8, <1>11
      <3>2. \A l, m \in S : rank[l] = rank[m] => l = m
        BY <1>2, <1>3, <1>6, <1>11
      <3>3. QED BY <3>1, <3>2
    <2>2. QED BY <2>1
  <1>15. Walk(Picked(s, S), s, S, n, at)
    BY <1>3, <1>9, <1>10, <1>12, <1>13, <1>14 DEF Walk
  <1>16. QED BY <1>12, <1>15

Has(s, x) == \E i \in DOMAIN s : s[i] = x

\* x is the first of the elements of s that are in S.
First(s, S, x) == \E i \in DOMAIN s : s[i] = x /\ x \in S /\ \A j \in 1 .. i - 1 : s[j] \notin S

LEMMA KeptFacts ==
    ASSUME NEW T, NEW s \in Seq(T), NEW S
    PROVE  /\ Kept(s, S) \in Seq(T) /\ Kept(s, S) \in Seq(S)
           /\ \A x : Has(Kept(s, S), x) <=> Has(s, x) /\ x \in S
           /\ IsInjective(s) => IsInjective(Kept(s, S))
           /\ \A U, x : First(Kept(s, S), U, x) => First(s, S \cap U, x)
  <1> DEFINE P == {i \in DOMAIN s : s[i] \in S}
             k == Kept(s, S)
  <1>1. k = Picked(s, P)
    BY DEF Kept
  <1>2. P \subseteq DOMAIN s
    OBVIOUS
  <1> HIDE DEF P
  <1>3. PICK n, at : k \in Seq(T) /\ Walk(k, s, P, n, at)
    BY <1>1, <1>2, PickedFacts
  <1>4. /\ n \in Nat /\ at \in [1 .. n -> P] /\ Len(k) = n /\ k \in Seq(T)
        /\ k = [i \in 1 .. n |-> s[at[i]]]
        /\ \A i, j \in 1 .. n : i < j => at[i] < at[j]
        /\ \A m \in P : \E i \in 1 .. n : at[i] = m
    BY <1>3 DEF Walk
  <1> USE DEF P
  <1>5. DOMAIN k = 1 .. n /\ Len(s) \in Nat /\ DOMAIN s = 1 .. Len(s) /\ P \subseteq 1 .. Len(s)
    BY <1>4
  <1>6. \A i \in 1 .. n : at[i] \in DOMAIN s /\ k[i] = s[at[i]] /\ k[i] \in S
    BY <1>4
  <1>7. \A m \in DOMAIN s : s[m] \in S => \E i \in 1 .. n : at[i] = m /\ k[i] = s[m]
    <2>1. ASSUME NEW m \in DOMAIN s, s[m] \in S PROVE \E i \in 1 .. n : at[i] = m /\ k[i] = s[m]
      <3>1. m \in P
        BY <2>1
      <3>2. PICK i \in 1 .. n : at[i] = m
        BY <1>4, <3>1
      <3>3. QED BY <1>6, <3>2
    <2>2. QED BY <2>1
  <1>8. \A i, j \in 1 .. n : i < j => at[i] < at[j]
    BY <1>4
  <1>9. k \in Seq(T) /\ Len(k) = n
    BY <1>4
  <1> HIDE DEF k, P
  <1>10. k \in Seq(S)
    BY <1>5, <1>6, <1>9
  <1>11. \A x : Has(k, x) <=> Has(s, x) /\ x \in S
    BY <1>5, <1>6, <1>7 DEF Has
  <1>12. ASSUME IsInjective(s) PROVE IsInjective(k)
    <2>1. ASSUME NEW i \in 1 .. n, NEW j \in 1 .. n, k[i] = k[j] PROVE i = j
      <3>1. at[i] = at[j]
        BY <1>6, <1>12, <2>1 DEF IsInjective
      <3>2. at[i] \in Int /\ at[j] \in Int
        BY <1>5, <1>6
      <3>3. ~ (i < j) /\ ~ (j < i)
        BY <1>8, <3>1, <3>2
      <3>4. QED BY <3>3
    <2>2. QED BY <1>5, <2>1 DEF IsInjective
  <1>13. ASSUME NEW U, NEW x, First(k, U, x) PROVE First(s, S \cap U, x)
    <2>1. PICK i \in 1 .. n : k[i] = x /\ x \in U /\ \A j \in 1 .. i - 1 : k[j] \notin U
      BY <1>5, <1>13 DEF First
    <2>2. at[i] \in DOMAIN s /\ s[at[i]] = x /\ x \in S \cap U
      BY <1>6, <2>1
    <2>3. ASSUME NEW m \in 1 .. at[i] - 1, s[m] \in S \cap U PROVE FALSE
      <3>1. m \in DOMAIN s /\ m < at[i] /\ m \in Int /\ at[i] \in Int
        BY <1>5, <2>2, <2>3
      <3>2. PICK j \in 1 .. n : at[j] = m /\ k[j] = s[m]
        BY <1>7, <2>3, <3>1
      <3>3. ~ (i < j) /\ i # j
        BY <1>8, <3>1, <3>2
      <3>4. j \in 1 .. i - 1
        BY <3>3
      <3>5. QED BY <2>1, <2>3, <3>2, <3>4
    <2>4. QED BY <2>2, <2>3 DEF First
  <1>14. QED BY <1>9, <1>10, <1>11, <1>12, <1>13 DEF k

\* The last of the picked elements is the one at the largest position.
LEMMA PickedLast ==
    ASSUME NEW T, NEW s \in Seq(T), NEW S, S \subseteq DOMAIN s, NEW top \in S, \A j \in S : j <= top
    PROVE  /\ Picked(s, S) \in Seq(T) /\ Picked(s, S) # <<>>
           /\ Picked(s, S)[Len(Picked(s, S))] = s[top]
  <1> DEFINE k == Picked(s, S)
  <1>1. PICK n, at : k \in Seq(T) /\ Walk(k, s, S, n, at)
    BY PickedFacts
  <1>2. /\ n \in Nat /\ at \in [1 .. n -> S] /\ Len(k) = n /\ k \in Seq(T)
        /\ k = [i \in 1 .. n |-> s[at[i]]]
        /\ \A i, j \in 1 .. n : i < j => at[i] < at[j]
    BY <1>1 DEF Walk
  <1>3. PICK i \in 1 .. n : at[i] = top
    BY <1>1 DEF Walk
  <1> HIDE DEF k
  <1>4. n \in 1 .. n /\ at[n] \in S /\ S \subseteq Int
    BY <1>2, <1>3
  <1>5. i = n
    <2>1. ~ (at[i] < at[n])
      BY <1>3, <1>4
    <2>2. QED BY <1>2, <1>4, <2>1
  <1>6. k[n] = s[top] /\ k # <<>>
    BY <1>2, <1>3, <1>4, <1>5
  <1>7. QED BY <1>2, <1>6 DEF k
=============================================================================
