--------------------------- MODULE DecisionProofs ---------------------------
(***************************************************************************)
(* Proofs about the decisions of MCDecisions, for every set of commands,   *)
(* profiles, providers, tools, channels and peers, every chain of models   *)
(* and every bound.                                                        *)
(***************************************************************************)
EXTENDS MCDecisions, PickProofs

-----------------------------------------------------------------------------
(* Skipping through lists of profiles                                      *)

\* Distinct keeps the first place of every element.
LEMMA DistinctFacts ==
    ASSUME NEW T, NEW s \in Seq(T)
    PROVE  /\ Distinct(s) \in Seq(T) /\ IsInjective(Distinct(s))
           /\ \A x : Has(Distinct(s), x) <=> Has(s, x)
           /\ \A U, x : First(Distinct(s), U, x) => First(s, U, x)
  <1> DEFINE P == {i \in DOMAIN s : \A j \in 1 .. i - 1 : s[j] # s[i]}
             k == Distinct(s)
  <1>1. k = Picked(s, P)
    BY DEF Distinct
  <1>2. P \subseteq DOMAIN s
    OBVIOUS
  <1> HIDE DEF P
  <1>3. PICK n, at : k \in Seq(T) /\ Walk(k, s, P, n, at)
    BY <1>1, <1>2, PickedFacts
  <1>4. /\ n \in Nat /\ at \in [1 .. n -> P] /\ Len(k) = n /\ k \in Seq(T)
        /\ k = [i \in 1 .. n |-> s[at[i]]]
        /\ \A i, j \in 1 .. n : i < j => at[i] < at[j]
        /\ \A m \in P : \E i \in 1 .. n : at[i] = m
    BY <1>3 DEF Walk
  <1> USE DEF P
  <1>5. DOMAIN k = 1 .. n /\ Len(s) \in Nat /\ DOMAIN s = 1 .. Len(s) /\ P \subseteq 1 .. Len(s)
    BY <1>4
  <1>6. \A i \in 1 .. n : at[i] \in DOMAIN s /\ at[i] \in P /\ k[i] = s[at[i]]
    BY <1>4
  <1>7. \A m \in DOMAIN s : \E p \in P : s[p] = s[m] /\ p <= m
    <2>1. ASSUME NEW m \in DOMAIN s PROVE \E p \in P : s[p] = s[m] /\ p <= m
      <3> DEFINE same == {i \in DOMAIN s : s[i] = s[m]}
      <3>1. same \subseteq Nat /\ same # {}
        BY <1>5
      <3>2. PICK p \in same : \A i \in same : p <= i
        BY <3>1, LeastExists
      <3>3. \A j \in 1 .. p - 1 : s[j] # s[p]
        <4>1. ASSUME NEW j \in 1 .. p - 1, s[j] = s[p] PROVE FALSE
          <5>1. j \in same /\ j \in Int /\ p \in Int /\ j < p
            BY <1>5, <3>1, <4>1
          <5> HIDE DEF same
          <5>2. QED BY <3>2, <5>1
        <4>2. QED BY <4>1
      <3>4. QED BY <3>2, <3>3
    <2>2. QED BY <2>1
  <1>8. \A i, j \in 1 .. n : i < j => at[i] < at[j]
    BY <1>4
  <1>9. k \in Seq(T) /\ Len(k) = n /\ \A m \in P : \E i \in 1 .. n : at[i] = m
    BY <1>4
  <1>10. \A p, q \in P : s[p] = s[q] => p = q
    <2>1. ASSUME NEW p \in P, NEW q \in P, s[p] = s[q], p < q PROVE FALSE
      <3>1. p \in 1 .. q - 1
        BY <1>5, <2>1
      <3>2. QED BY <2>1, <3>1
    <2>2. P \subseteq Int
      BY <1>5
    <2> HIDE DEF P
    <2>3. QED BY <2>1, <2>2
  <1> HIDE DEF k, P
  <1>11. ASSUME NEW x PROVE Has(k, x) <=> Has(s, x)
    <2>1. ASSUME Has(s, x) PROVE Has(k, x)
      <3>1. PICK m \in DOMAIN s : s[m] = x
        BY <2>1 DEF Has
      <3>2. PICK p \in P : s[p] = x
        BY <1>7, <3>1
      <3>3. PICK i \in 1 .. n : at[i] = p
        BY <1>9
      <3>4. QED BY <1>5, <1>6, <3>2, <3>3 DEF Has
    <2>2. QED BY <1>5, <1>6, <2>1 DEF Has
  <1>12. IsInjective(k)
    <2>1. ASSUME NEW i \in 1 .. n, NEW j \in 1 .. n, k[i] = k[j] PROVE i = j
      <3>1. at[i] = at[j] /\ at[i] \in Int
        BY <1>5, <1>6, <1>10, <2>1
      <3>2. ~ (i < j) /\ ~ (j < i)
        BY <1>8, <3>1
      <3>3. QED BY <3>2
    <2>2. QED BY <1>5, <2>1 DEF IsInjective
  <1>13. ASSUME NEW U, NEW x, First(k, U, x) PROVE First(s, U, x)
    <2>1. PICK i \in 1 .. n : k[i] = x /\ x \in U /\ \A j \in 1 .. i - 1 : k[j] \notin U
      BY <1>5, <1>13 DEF First
    <2>2. at[i] \in DOMAIN s /\ s[at[i]] = x
      BY <1>6, <2>1
    <2>3. ASSUME NEW m \in 1 .. at[i] - 1, s[m] \in U PROVE FALSE
      <3>1. m \in DOMAIN s /\ m < at[i] /\ m \in Int /\ at[i] \in Int
        BY <1>5, <2>2, <2>3
      <3>2. PICK p \in P : s[p] = s[m] /\ p <= m
        BY <1>7, <3>1
      <3>3. PICK j \in 1 .. n : at[j] = p
        BY <1>9
      <3>4. k[j] = s[m] /\ p < at[i] /\ p \in Int
        BY <1>5, <1>6, <3>1, <3>2, <3>3
      <3>5. ~ (i < j) /\ i # j
        BY <1>8, <3>1, <3>3, <3>4
      <3>6. j \in 1 .. i - 1
        BY <3>5
      <3>7. QED BY <2>1, <2>3, <3>4, <3>6
    <2>4. QED BY <2>1, <2>2, <2>3 DEF First
  <1>14. QED BY <1>9, <1>11, <1>12, <1>13 DEF k

LEMMA KeptHead ==
    ASSUME NEW T, NEW s \in Seq(T), NEW S, Kept(s, S) # <<>>
    PROVE  First(s, S, Head(Kept(s, S)))
  <1> DEFINE k == Kept(s, S)
  <1>1. k \in Seq(S) /\ \A U, x : First(k, U, x) => First(s, S \cap U, x)
    BY KeptFacts
  <1>2. k # <<>>
    OBVIOUS
  <1> HIDE DEF k
  <1>3. 1 \in DOMAIN k /\ k[1] = Head(k) /\ k[1] \in S
    BY <1>1, <1>2
  <1>4. First(k, S, Head(k))
    BY <1>3 DEF First
  <1>5. First(s, S \cap S, Head(k)) /\ S \cap S = S
    BY <1>1, <1>4
  <1>6. QED BY <1>5 DEF k

LEMMA ConcatFacts ==
    ASSUME NEW T, NEW s \in Seq(T), NEW t \in Seq(T)
    PROVE  /\ s \o t \in Seq(T)
           /\ \A x : Has(s \o t, x) <=> Has(s, x) \/ Has(t, x)
           /\ \A S, x : First(s \o t, S, x) =>
                 \/ First(s, S, x)
                 \/ First(t, S, x) /\ \A y \in S : ~Has(s, y)
  <1> DEFINE k == s \o t
             n == Len(s)
  <1>1. /\ k \in Seq(T) /\ n \in Nat /\ Len(t) \in Nat
        /\ DOMAIN s = 1 .. n /\ DOMAIN t = 1 .. Len(t) /\ DOMAIN k = 1 .. n + Len(t)
        /\ \A i \in 1 .. n : k[i] = s[i]
        /\ \A i \in 1 .. Len(t) : k[n + i] = t[i]
    OBVIOUS
  <1> HIDE DEF k, n
  <1>2. \A i \in DOMAIN k : i \in DOMAIN s \/ (i - n \in DOMAIN t /\ n + (i - n) = i)
    BY <1>1
  <1>3. ASSUME NEW x PROVE Has(k, x) <=> Has(s, x) \/ Has(t, x)
    <2>1. ASSUME Has(k, x) PROVE Has(s, x) \/ Has(t, x)
      <3>1. PICK i \in DOMAIN k : k[i] = x
        BY <2>1 DEF Has
      <3>2. CASE i \in DOMAIN s
        BY <1>1, <3>1, <3>2 DEF Has
      <3>3. CASE i - n \in DOMAIN t /\ n + (i - n) = i
        <4>1. k[n + (i - n)] = t[i - n]
          BY <1>1, <3>3
        <4>2. QED BY <3>1, <3>3, <4>1 DEF Has
      <3>4. QED BY <1>2, <3>2, <3>3
    <2>2. ASSUME Has(s, x) PROVE Has(k, x)
      <3>1. PICK i \in DOMAIN s : s[i] = x
        BY <2>2 DEF Has
      <3>2. i \in DOMAIN k /\ k[i] = x
        BY <1>1, <3>1
      <3>3. QED BY <3>2 DEF Has
    <2>3. ASSUME Has(t, x) PROVE Has(k, x)
      <3>1. PICK i \in DOMAIN t : t[i] = x
        BY <2>3 DEF Has
      <3>2. n + i \in DOMAIN k /\ k[n + i] = x
        BY <1>1, <3>1
      <3>3. QED BY <3>2 DEF Has
    <2>4. QED BY <2>1, <2>2, <2>3
  <1>4. ASSUME NEW S, NEW x, First(k, S, x)
        PROVE  First(s, S, x) \/ (First(t, S, x) /\ \A y \in S : ~Has(s, y))
    <2>1. PICK i \in DOMAIN k : k[i] = x /\ x \in S /\ \A j \in 1 .. i - 1 : k[j] \notin S
      BY <1>4 DEF First
    <2>2. CASE i \in DOMAIN s
      <3>1. s[i] = x /\ \A j \in 1 .. i - 1 : s[j] \notin S
        BY <1>1, <2>1, <2>2
      <3>2. QED BY <2>1, <2>2, <3>1 DEF First
    <2>3. CASE i - n \in DOMAIN t /\ n + (i - n) = i
      <3>1. t[i - n] = x
        <4>1. k[n + (i - n)] = t[i - n]
          BY <1>1, <2>3
        <4>2. QED BY <2>1, <2>3, <4>1
      <3>2. \A j \in 1 .. (i - n) - 1 : t[j] \notin S
        <4>1. ASSUME NEW j \in 1 .. (i - n) - 1 PROVE t[j] \notin S
          <5>1. i \in Int /\ n + j \in 1 .. i - 1 /\ j \in 1 .. Len(t)
            BY <1>1, <2>3, <4>1
          <5>2. k[n + j] = t[j]
            BY <1>1, <5>1
          <5>3. QED BY <2>1, <5>1, <5>2
        <4>2. QED BY <4>1
      <3>3. ASSUME NEW y \in S, Has(s, y) PROVE FALSE
        <4>1. PICK j \in DOMAIN s : s[j] = y
          BY <3>3 DEF Has
        <4>2. j \in 1 .. i - 1 /\ k[j] = y
          BY <1>1, <2>3, <4>1
        <4>3. QED BY <2>1, <4>2
      <3>4. QED BY <2>1, <2>3, <3>1, <3>2, <3>3 DEF First
    <2>4. QED BY <1>2, <2>2, <2>3
  <1>5. QED BY <1>1, <1>3, <1>4 DEF k

-----------------------------------------------------------------------------
(* Stores of auth profiles                                                 *)

Record == [id : Profiles, provider : Providers, token : BOOLEAN, expiresAt : 0 .. Never]
Store == [profiles : Seq(Record), active : [Providers -> Profiles \cup {None}],
          order : [Providers -> Seq(Profiles)]]

\* Every profile is there once, and what is active or ordered is there.
Unique(s) == \A i, j \in DOMAIN s.profiles : s.profiles[i].id = s.profiles[j].id => i = j
Sound(s) ==
    \A p \in Providers :
        /\ s.active[p] = None \/ Stored(s, s.active[p])
        /\ IsInjective(s.order[p]) /\ \A i \in DOMAIN s.order[p] : Stored(s, s.order[p][i])
Stores == {s \in Store : Unique(s) /\ Sound(s)}

LEMMA ProfileFacts ==
    ASSUME NEW s \in Stores
    PROVE  /\ \A i \in DOMAIN s.profiles :
                 /\ s.profiles[i] \in Record /\ s.profiles[i].id \in Profiles
                 /\ Profile(s, s.profiles[i].id) = s.profiles[i]
           /\ \A id : Stored(s, id) => id \in Profiles /\ Profile(s, id) \in Record
           /\ ~Stored(s, None)
  <1>1. s.profiles \in Seq(Record) /\ Unique(s)
    BY DEF Stores, Store
  <1>2. ASSUME NEW i \in DOMAIN s.profiles
        PROVE  /\ s.profiles[i] \in Record /\ s.profiles[i].id \in Profiles
               /\ Profile(s, s.profiles[i].id) = s.profiles[i]
    <2> DEFINE at == {j \in DOMAIN s.profiles : s.profiles[j].id = s.profiles[i].id}
    <2>1. s.profiles[i] \in Record
      BY <1>1
    <2>2. at = {i}
      BY <1>1 DEF Unique
    <2>3. i \in Int
      BY <1>1
    <2>4. Profile(s, s.profiles[i].id) = s.profiles[CHOOSE j \in at : \A k \in at : j <= k]
      BY DEF Profile
    <2> HIDE DEF at
    <2>5. (CHOOSE j \in at : \A k \in at : j <= k) = i
      BY <2>2, <2>3
    <2>6. QED BY <2>1, <2>4, <2>5 DEF Record
  <1>3. \A id : Stored(s, id) => id \in Profiles /\ Profile(s, id) \in Record
    BY <1>2 DEF Stored
  <1>4. QED BY <1>2, <1>3, ModelAccessAssumption

LEMMA EmptyStoreSound == EmptyStore \in Stores
  <1>1. EmptyStore \in Store
    BY DEF EmptyStore, Store
  <1>2. QED BY <1>1 DEF EmptyStore, Stores, Unique, Sound, Stored, IsInjective

\* upsert keeps every profile that there is, and its place.
LEMMA UpsertSound ==
    ASSUME NEW s \in Stores, NEW r \in Record
    PROVE  Upsert(s, r) \in Stores /\ Stored(Upsert(s, r), r.id)
  <1> DEFINE u == Upsert(s, r)
  <1>1. s \in Store /\ Unique(s) /\ Sound(s) /\ s.profiles \in Seq(Record)
    BY DEF Stores, Store
  <1>2. Len(s.profiles) \in Nat /\ DOMAIN s.profiles = 1 .. Len(s.profiles)
    BY <1>1
  <1>3. /\ u \in Store /\ u.active = s.active /\ u.order = s.order
        /\ Unique(u) /\ Stored(u, r.id)
        /\ \A id : Stored(s, id) => Stored(u, id)
    <2>1. CASE Stored(s, r.id)
      <3> DEFINE q == [i \in DOMAIN s.profiles |-> IF s.profiles[i].id = r.id THEN r ELSE s.profiles[i]]
      <3>1. u = [s EXCEPT !.profiles = q]
        BY <2>1 DEF Upsert
      <3>2. q \in Seq(Record) /\ DOMAIN q = DOMAIN s.profiles
            /\ \A i \in DOMAIN q : q[i].id = s.profiles[i].id
        BY <1>1, <1>2
      <3> HIDE DEF q
      <3>3. u \in Store /\ u.active = s.active /\ u.order = s.order /\ u.profiles = q
        BY <1>1, <3>1, <3>2 DEF Store
      <3> HIDE DEF u
      <3>4. \A id : Stored(u, id) <=> Stored(s, id)
        BY <3>2, <3>3 DEF Stored
      <3>5. QED BY <1>1, <2>1, <3>2, <3>3, <3>4 DEF Unique
    <2>2. CASE ~Stored(s, r.id)
      <3> DEFINE q == Append(s.profiles, r)
                 n == Len(s.profiles)
      <3>1. u = [s EXCEPT !.profiles = q]
        BY <2>2 DEF Upsert
      <3>2. q \in Seq(Record) /\ DOMAIN q = 1 .. n + 1 /\ q[n + 1] = r
            /\ \A i \in 1 .. n : q[i] = s.profiles[i]
        BY <1>1, <1>2
      <3> HIDE DEF q
      <3>3. u \in Store /\ u.active = s.active /\ u.order = s.order /\ u.profiles = q
        BY <1>1, <3>1, <3>2 DEF Store
      <3> HIDE DEF u
      <3>4. \A i \in 1 .. n : q[i].id # r.id /\ q[i] = s.profiles[i]
        BY <1>2, <2>2, <3>2 DEF Stored
      <3>5. n \in Nat /\ DOMAIN s.profiles = 1 .. n
        BY <1>2
      <3> HIDE DEF n
      <3>6. \A i \in DOMAIN q : i \in 1 .. n \/ i = n + 1
        BY <3>2, <3>5
      <3>7. Unique(u)
        BY <1>1, <3>2, <3>3, <3>4, <3>5, <3>6 DEF Unique
      <3>8. Stored(u, r.id) /\ \A id : Stored(s, id) => Stored(u, id)
        <4>1. n + 1 \in DOMAIN q /\ \A i \in 1 .. n : i \in DOMAIN q
          BY <3>2, <3>5
        <4>2. QED BY <3>2, <3>3, <3>5, <4>1 DEF Stored
      <3>9. QED BY <3>3, <3>7, <3>8
    <2>3. QED BY <2>1, <2>2
  <1> HIDE DEF u
  <1>4. Sound(u)
    BY <1>1, <1>3 DEF Sound
  <1>5. QED BY <1>3, <1>4 DEF Stores, u

\* remove takes the profile out of all three parts of the store.
LEMMA RemovedSound ==
    ASSUME NEW s \in Stores, NEW id \in Profiles
    PROVE  Removed(s, id) \in Stores
  <1> DEFINE q == Others(s, id)
             a == [p \in Providers |-> IF s.active[p] = id THEN None ELSE s.active[p]]
             o == [p \in Providers |-> Kept(s.order[p], Profiles \ {id})]
             r == Removed(s, id)
  <1>1. s \in Store /\ Unique(s) /\ Sound(s) /\ s.profiles \in Seq(Record)
        /\ s.active \in [Providers -> Profiles \cup {None}] /\ s.order \in [Providers -> Seq(Profiles)]
    BY DEF Stores, Store
  <1>2. /\ q \in Seq(Record)
        /\ \A x : Stored(s, x) /\ x # id => \E i \in DOMAIN q : q[i].id = x
        /\ \A i, j \in DOMAIN q : q[i].id = q[j].id => i = j
    <2> DEFINE P == {i \in DOMAIN s.profiles : s.profiles[i].id # id}
    <2>1. q = Picked(s.profiles, P) /\ P \subseteq DOMAIN s.profiles
      BY DEF Others
    <2> HIDE DEF q
    <2>2. PICK n, at : q \in Seq(Record) /\ Walk(q, s.profiles, P, n, at)
      <3> HIDE DEF P
      <3>1. QED BY <1>1, <2>1, PickedFacts
    <2>3. /\ n \in Nat /\ at \in [1 .. n -> P] /\ DOMAIN q = 1 .. n
          /\ \A i \in 1 .. n : q[i] = s.profiles[at[i]]
          /\ \A i, j \in 1 .. n : i < j => at[i] < at[j]
          /\ \A m \in P : \E i \in 1 .. n : at[i] = m
      <3> HIDE DEF P
      <3>1. QED BY <2>2 DEF Walk
    <2>4. ASSUME NEW x, Stored(s, x), x # id PROVE \E i \in DOMAIN q : q[i].id = x
      <3>1. PICK m \in P : s.profiles[m].id = x
        BY <2>4 DEF Stored
      <3>2. PICK i \in 1 .. n : at[i] = m
        BY <2>3
      <3>3. QED BY <2>3, <3>1, <3>2
    <2>5. ASSUME NEW i \in 1 .. n, NEW j \in 1 .. n, q[i].id = q[j].id PROVE i = j
      <3>1. at[i] \in DOMAIN s.profiles /\ at[j] \in DOMAIN s.profiles
        BY <2>3
      <3>2. at[i] = at[j] /\ at[i] \in Int
        BY <1>1, <2>3, <2>5, <3>1 DEF Unique
      <3>3. ~ (i < j) /\ ~ (j < i)
        BY <2>3, <3>2
      <3>4. QED BY <3>3
    <2>6. QED BY <2>2, <2>3, <2>4, <2>5
  <1>3. ASSUME NEW p \in Providers
        PROVE  /\ o[p] \in Seq(Profiles) /\ IsInjective(o[p])
               /\ \A i \in DOMAIN o[p] : Stored(s, o[p][i]) /\ o[p][i] # id
    <2>1. s.order[p] \in Seq(Profiles) /\ IsInjective(s.order[p])
          /\ \A i \in DOMAIN s.order[p] : Stored(s, s.order[p][i])
      BY <1>1 DEF Sound
    <2> DEFINE k == Kept(s.order[p], Profiles \ {id})
    <2>2. /\ k \in Seq(Profiles) /\ k \in Seq(Profiles \ {id}) /\ IsInjective(k)
          /\ \A x : Has(k, x) <=> Has(s.order[p], x) /\ x \in Profiles \ {id}
      BY <2>1, KeptFacts
    <2>3. o[p] = k
      OBVIOUS
    <2> HIDE DEF k, o
    <2>4. \A i \in DOMAIN k : Has(s.order[p], k[i]) /\ k[i] # id
      BY <2>2 DEF Has
    <2>5. \A i \in DOMAIN k : Stored(s, k[i]) /\ k[i] # id
      BY <2>1, <2>4 DEF Has
    <2>6. QED BY <2>2, <2>3, <2>5
  <1>4. r = [profiles |-> q, active |-> a, order |-> o]
    BY DEF Removed
  <1>5. a \in [Providers -> Profiles \cup {None}]
        /\ \A p \in Providers : a[p] # None => a[p] = s.active[p] /\ a[p] # id
    BY <1>1
  <1>6. o \in [Providers -> Seq(Profiles)]
    BY <1>3
  <1> HIDE DEF q, a, o, r
  <1>7. r \in Store
    BY <1>2, <1>4, <1>5, <1>6 DEF Store
  <1>8. \A x : Stored(s, x) /\ x # id => Stored(r, x)
    BY <1>2, <1>4 DEF Stored
  <1>9. Unique(r)
    BY <1>2, <1>4 DEF Unique
  <1>10. Sound(r)
    BY <1>1, <1>3, <1>4, <1>5, <1>8 DEF Sound
  <1>11. QED BY <1>7, <1>9, <1>10 DEF Stores, r

LEMMA SetActiveSound ==
    ASSUME NEW s \in Stores, NEW p \in Providers, NEW id, Stored(s, id)
    PROVE  SetActive(s, p, id) \in Stores
  <1> DEFINE u == SetActive(s, p, id)
  <1>1. s \in Store /\ Unique(s) /\ Sound(s) /\ id \in Profiles
    BY ProfileFacts DEF Stores
  <1>2. u \in Store /\ u.profiles = s.profiles /\ u.order = s.order
        /\ \A q \in Providers : u.active[q] = IF q = p THEN id ELSE s.active[q]
    BY <1>1 DEF SetActive, Store
  <1> HIDE DEF u
  <1>3. \A x : Stored(u, x) <=> Stored(s, x)
    BY <1>2 DEF Stored
  <1>4. Unique(u) /\ Sound(u)
    BY <1>1, <1>2, <1>3 DEF Unique, Sound
  <1>5. QED BY <1>2, <1>4 DEF Stores, u

LEMMA SetOrderSound ==
    ASSUME NEW s \in Stores, NEW p \in Providers, NEW ids \in Seq(Profiles),
           \A i \in DOMAIN ids : Stored(s, ids[i])
    PROVE  [s EXCEPT !.order[p] = Distinct(ids)] \in Stores
  <1> DEFINE d == Distinct(ids)
             u == [s EXCEPT !.order[p] = d]
  <1>1. s \in Store /\ Unique(s) /\ Sound(s)
    BY DEF Stores
  <1>2. d \in Seq(Profiles) /\ IsInjective(d) /\ \A x : Has(d, x) <=> Has(ids, x)
    BY DistinctFacts
  <1> HIDE DEF d
  <1>3. u \in Store /\ u.profiles = s.profiles /\ u.active = s.active
        /\ \A q \in Providers : u.order[q] = IF q = p THEN d ELSE s.order[q]
    BY <1>1, <1>2 DEF Store
  <1>4. \A i \in DOMAIN d : Stored(s, d[i])
    BY <1>2 DEF Has
  <1> HIDE DEF u
  <1>5. \A x : Stored(u, x) <=> Stored(s, x)
    BY <1>3 DEF Stored
  <1>6. Unique(u) /\ Sound(u)
    BY <1>1, <1>2, <1>3, <1>4, <1>5 DEF Unique, Sound
  <1>7. QED BY <1>3, <1>6 DEF Stores, u, d

-----------------------------------------------------------------------------
(* Commands that edit copies of the store                                  *)

\* A command that is not idle holds a sound store, and sound ones to save after.
Holding == [at : {"loaded", "creating", "saving", "again"}, copy : Stores, then : Seq(Stores)]

AccessInv ==
    /\ now \in 0 .. MaxNow
    /\ file \in Stores \cup {Torn, None}
    /\ cmd \in [Commands -> Holding \cup {Idle}]
    /\ \A c \in Commands : cmd[c].at = "again" => cmd[c].then # <<>>

LEMMA HoldingFacts ==
    ASSUME AccessInv, NEW c \in Commands, cmd[c].at # "idle"
    PROVE  cmd[c] \in Holding /\ cmd[c].copy \in Stores /\ cmd[c].then \in Seq(Stores)
  BY DEF AccessInv, Idle, Holding

\* Whatever an edit is, it saves sound stores.
LEMMA EditKeeps ==
    ASSUME AccessInv, NEW c \in Commands, NEW s \in Stores, NEW then \in Seq(Stores), Edit(c, s, then)
    PROVE  AccessInv'
  <1>1. UNCHANGED now /\ file' = Torn
        /\ cmd' = [cmd EXCEPT ![c] = [at |-> "saving", copy |-> s, then |-> then]]
    BY DEF Edit
  <1>2. [at |-> "saving", copy |-> s, then |-> then] \in Holding
    BY DEF Holding
  <1>3. QED BY <1>1, <1>2 DEF AccessInv

LEMMA AddKeeps == ASSUME AccessInv, NEW c \in Commands, AddProfile(c) PROVE AccessInv'
  <1>1. PICK id \in Profiles, p \in Providers, expires \in now .. Never, token \in BOOLEAN :
            Edit(c, Upsert(cmd[c].copy, [id |-> id, provider |-> p, token |-> token,
                                         expiresAt |-> expires]), <<>>)
    BY DEF AddProfile
  <1>2. cmd[c].copy \in Stores
    BY <1>1, HoldingFacts DEF Edit
  <1>3. expires \in 0 .. Never
    BY ModelAccessAssumption DEF AccessInv, Never
  <1>4. [id |-> id, provider |-> p, token |-> token, expiresAt |-> expires] \in Record
    BY <1>3 DEF Record
  <1>5. Upsert(cmd[c].copy, [id |-> id, provider |-> p, token |-> token, expiresAt |-> expires]) \in Stores
    BY <1>2, <1>4, UpsertSound
  <1>6. <<>> \in Seq(Stores)
    OBVIOUS
  <1>7. QED BY <1>1, <1>5, <1>6, EditKeeps

LEMMA LoginKeeps ==
    ASSUME AccessInv, NEW c \in Commands, NEW id \in Profiles, NEW expires \in 0 .. Never,
           LoggedIn(c, id, expires)
    PROVE  AccessInv'
  <1> DEFINE r == [id |-> id, provider |-> Codex, token |-> TRUE, expiresAt |-> expires]
             s == Upsert(cmd[c].copy, r)
  <1>1. Edit(c, s, <<SetActive(s, Codex, id)>>)
    BY DEF LoggedIn
  <1>2. cmd[c].copy \in Stores
    BY <1>1, HoldingFacts DEF Edit
  <1>3. r \in Record /\ r.id = id /\ Codex \in Providers
    BY ModelAccessAssumption DEF Record
  <1> HIDE DEF r
  <1>4. s \in Stores /\ Stored(s, id)
    BY <1>2, <1>3, UpsertSound
  <1> HIDE DEF s
  <1>5. SetActive(s, Codex, id) \in Stores
    BY <1>3, <1>4, SetActiveSound
  <1>6. <<SetActive(s, Codex, id)>> \in Seq(Stores)
    BY <1>5
  <1>7. QED BY <1>1, <1>4, <1>6, EditKeeps

LEMMA UseKeeps == ASSUME AccessInv, NEW c \in Commands, UseProfile(c) PROVE AccessInv'
  <1>1. PICK id \in Profiles, p \in Providers :
            /\ cmd[c].at = "loaded" /\ Fits(cmd[c].copy, p, id)
            /\ Edit(c, SetActive(cmd[c].copy, p, id), <<>>)
    BY DEF UseProfile
  <1>2. SetActive(cmd[c].copy, p, id) \in Stores
    BY <1>1, HoldingFacts, SetActiveSound DEF Fits
  <1>3. <<>> \in Seq(Stores)
    OBVIOUS
  <1>4. QED BY <1>1, <1>2, <1>3, EditKeeps

LEMMA RemoveKeeps == ASSUME AccessInv, NEW c \in Commands, RemoveProfile(c) PROVE AccessInv'
  <1>1. PICK id \in Profiles :
            cmd[c].at = "loaded" /\ Edit(c, Removed(cmd[c].copy, id), <<>>)
    BY DEF RemoveProfile
  <1>2. Removed(cmd[c].copy, id) \in Stores
    BY <1>1, HoldingFacts, RemovedSound
  <1>3. <<>> \in Seq(Stores)
    OBVIOUS
  <1>4. QED BY <1>1, <1>2, <1>3, EditKeeps

LEMMA OrderKeeps == ASSUME AccessInv, NEW c \in Commands, OrderProfiles(c) PROVE AccessInv'
  <1>1. PICK p \in Providers, ids \in BoundedSeq(Profiles, 2) :
            /\ cmd[c].at = "loaded"
            /\ \A i \in DOMAIN ids : Fits(cmd[c].copy, p, ids[i])
            /\ Edit(c, [cmd[c].copy EXCEPT !.order[p] = Distinct(ids)], <<>>)
    BY DEF OrderProfiles
  <1>2. ids \in Seq(Profiles)
    <2>1. PICK n \in 0 .. 2 : ids \in [1 .. n -> Profiles]
      BY DEF BoundedSeq, SeqOf
    <2>2. n \in Nat
      OBVIOUS
    <2>3. QED BY <2>1, <2>2
  <1>3. \A i \in DOMAIN ids : Stored(cmd[c].copy, ids[i])
    BY <1>1 DEF Fits
  <1>4. [cmd[c].copy EXCEPT !.order[p] = Distinct(ids)] \in Stores
    BY <1>1, <1>2, <1>3, HoldingFacts, SetOrderSound
  <1>5. <<>> \in Seq(Stores)
    OBVIOUS
  <1>6. QED BY <1>1, <1>4, <1>5, EditKeeps

LEMMA CommandKeeps == ASSUME AccessInv, NEW c \in Commands, Command(c) PROVE AccessInv'
  <1>1. CASE Start(c)
    <2>1. file \notin {Torn, None} /\ UNCHANGED <<file, now>>
          /\ cmd' = [cmd EXCEPT ![c] = [at |-> "loaded", copy |-> file, then |-> <<>>]]
      BY <1>1 DEF Start
    <2>2. [at |-> "loaded", copy |-> file, then |-> <<>>] \in Holding
      BY <2>1 DEF AccessInv, Holding
    <2>3. QED BY <2>1, <2>2 DEF AccessInv
  <1>2. CASE DeviceLogin(c)
    <2>1. PICK id \in Profiles, expires \in now + 1 .. Never : LoggedIn(c, id, expires)
      BY <1>2 DEF DeviceLogin
    <2>2. expires \in 0 .. Never
      BY ModelAccessAssumption DEF AccessInv, Never
    <2>3. QED BY <2>1, <2>2, LoginKeeps
  <1>3. CASE ImportLogin(c)
    BY <1>3, LoginKeeps DEF ImportLogin
  <1>4. CASE Flush(c)
    <2>1. cmd[c].at = "saving" /\ file' \in {cmd[c].copy, Torn} /\ UNCHANGED now
          /\ cmd' = [cmd EXCEPT ![c] = IF @.then = <<>> THEN Idle ELSE [@ EXCEPT !.at = "again"]]
      BY <1>4 DEF Flush, Flushed
    <2>2. cmd[c] \in Holding /\ cmd[c].copy \in Stores
      BY <2>1, HoldingFacts
    <2>3. cmd[c].then # <<>> => [cmd[c] EXCEPT !.at = "again"] \in Holding
                                /\ [cmd[c] EXCEPT !.at = "again"].then # <<>>
      BY <2>2 DEF Holding
    <2>4. /\ cmd'[c] = IF cmd[c].then = <<>> THEN Idle ELSE [cmd[c] EXCEPT !.at = "again"]
          /\ \A d \in Commands \ {c} : cmd'[d] = cmd[d]
      BY <2>1 DEF AccessInv
    <2>5. cmd' \in [Commands -> Holding \cup {Idle}]
      BY <2>1, <2>3 DEF AccessInv
    <2>6. \A d \in Commands : cmd'[d].at = "again" => cmd'[d].then # <<>>
      <3>1. Idle.at # "again"
        BY DEF Idle
      <3>2. cmd'[c].at = "again" => cmd'[c].then # <<>>
        BY <2>3, <2>4, <3>1
      <3>3. \A d \in Commands : cmd[d].at = "again" => cmd[d].then # <<>>
        BY DEF AccessInv
      <3>4. QED BY <2>4, <3>2, <3>3
    <2>7. QED BY <2>1, <2>2, <2>5, <2>6 DEF AccessInv
  <1>5. CASE Again(c)
    <2>1. cmd[c].at = "again" /\ file' = Torn /\ UNCHANGED now
          /\ cmd' = [cmd EXCEPT ![c] = [at |-> "saving", copy |-> Head(@.then), then |-> Tail(@.then)]]
      BY <1>5 DEF Again
    <2>2. cmd[c].then \in Seq(Stores) /\ cmd[c].then # <<>>
      BY <2>1, HoldingFacts DEF AccessInv
    <2>3. [at |-> "saving", copy |-> Head(cmd[c].then), then |-> Tail(cmd[c].then)] \in Holding
      BY <2>2 DEF Holding
    <2>4. QED BY <2>1, <2>3 DEF AccessInv
  <1>6. CASE End(c)
    <2>1. UNCHANGED <<file, now>> /\ cmd' = [cmd EXCEPT ![c] = Idle] /\ Idle.at # "again"
      BY <1>6 DEF End, Idle
    <2> HIDE DEF Idle
    <2>2. QED BY <2>1 DEF AccessInv
  <1>6a. CASE Create(c)
    <2>1. file' = Torn /\ UNCHANGED now
          /\ cmd' = [cmd EXCEPT ![c] = [at |-> "creating", copy |-> EmptyStore, then |-> <<>>]]
      BY <1>6a DEF Create
    <2>2. [at |-> "creating", copy |-> EmptyStore, then |-> <<>>] \in Holding
      BY EmptyStoreSound DEF Holding
    <2>3. QED BY <2>1, <2>2 DEF AccessInv
  <1>6b. CASE Created(c)
    <2>1. cmd[c].at = "creating" /\ file' \in {EmptyStore, Torn} /\ UNCHANGED now
          /\ cmd' = [cmd EXCEPT ![c].at = "loaded"]
      BY <1>6b DEF Created, Flushed
    <2>2. [cmd[c] EXCEPT !.at = "loaded"] \in Holding /\ [cmd[c] EXCEPT !.at = "loaded"].at # "again"
      BY <2>1, HoldingFacts DEF Holding
    <2>3. cmd' = [cmd EXCEPT ![c] = [cmd[c] EXCEPT !.at = "loaded"]]
      BY <2>1
    <2>4. file' \in Stores \cup {Torn, None}
      BY <2>1, EmptyStoreSound
    <2>5. QED BY <2>1, <2>2, <2>3, <2>4 DEF AccessInv
  <1>7. QED
    BY <1>1, <1>2, <1>3, <1>4, <1>5, <1>6, <1>6a, <1>6b, AddKeeps, UseKeeps, RemoveKeeps, OrderKeeps DEF Command

LEMMA AccessInductive == Spec => []AccessInv
  <1>1. Init => AccessInv
    <2> SUFFICES ASSUME Init PROVE AccessInv
      OBVIOUS
    <2>1. file = None /\ now \in 0 .. MaxNow /\ cmd = [c \in Commands |-> Idle]
      BY ModelAccessAssumption DEF Init
    <2>2. QED BY <2>1 DEF AccessInv, Idle
  <1>2. AccessInv /\ [Next]_vars => AccessInv'
    <2> SUFFICES ASSUME AccessInv, [Next]_vars PROVE AccessInv'
      OBVIOUS
    <2>1. CASE \E c \in Commands : Command(c)
      BY <2>1, CommandKeeps
    <2>2. CASE Tick
      BY <2>2, ModelAccessAssumption DEF Tick, AccessInv
    <2>3. CASE UNCHANGED <<file, cmd, now>>
      BY <2>3 DEF AccessInv
    <2>3a. CASE CreateForTurn \/ CreatedForTurn
      <3>1. file' \in {EmptyStore, Torn} /\ UNCHANGED <<cmd, now>>
        BY <2>3a DEF CreateForTurn, CreatedForTurn, Flushed
      <3>2. QED BY <3>1, EmptyStoreSound DEF AccessInv
    <2>4. QED
      BY <2>1, <2>2, <2>3, <2>3a DEF Next, Complete, GiveUp, Skip, Ask, Reply, vars
  <1>3. QED BY <1>1, <1>2, PTL DEF Spec

\* What is active and what is ordered names stored profiles, each at most
\* once, in the file and in every copy, for any number of commands that
\* overwrite each other's edits (upsert, remove, setActive,
\* setOrderForProvider).
THEOREM IdsAreStored == Spec => []NoDanglingIds
  <1>1. AccessInv => NoDanglingIds
    <2> SUFFICES ASSUME AccessInv PROVE NoDanglingIds
      OBVIOUS
    <2>1. file \in {Torn, None} \/ Sound(file)
      BY DEF AccessInv, Stores
    <2>2. \A c \in Commands : cmd[c].at = "idle" \/ Sound(cmd[c].copy)
      BY HoldingFacts DEF Stores
    <2>3. QED BY <2>1, <2>2 DEF NoDanglingIds, Sound
  <1>2. QED BY <1>1, AccessInductive, PTL

-----------------------------------------------------------------------------
(* Credentials for a request                                               *)

LEMMA HasNothing ==
    ASSUME NEW T, NEW k \in Seq(T), \A x : ~Has(k, x)
    PROVE  k = <<>>
  <1>1. Len(k) \in Nat /\ DOMAIN k = 1 .. Len(k)
    OBVIOUS
  <1>2. 1 \notin DOMAIN k
    <2>1. 1 \in DOMAIN k => Has(k, k[1])
      BY DEF Has
    <2>2. QED BY <2>1
  <1>3. Len(k) = 0
    BY <1>1, <1>2
  <1>4. QED BY <1>3

\* The lists that Candidates goes through, one behind the other.
Listing(s, p) ==
    LET rest == [i \in DOMAIN s.profiles |-> s.profiles[i].id]
    IN  Kept(<<s.active[p]>>, {id \in Profiles : Stored(s, id)})
        \o Kept(s.order[p], {id \in Profiles : Fits(s, p, id)})
        \o Picked(rest, {i \in DOMAIN rest : s.profiles[i].provider = p})

\* All profiles of the provider are listed, nothing but them and the active
\* one is, and the first of any kind is the active one, or the order's first.
LEMMA ListingFacts ==
    ASSUME NEW s \in Stores, NEW p \in Providers
    PROVE  /\ Listing(s, p) \in Seq(Profiles)
           /\ \A id : Fits(s, p, id) => Has(Listing(s, p), id)
           /\ \A id : Has(Listing(s, p), id) =>
                 Stored(s, id) /\ (Fits(s, p, id) \/ id = s.active[p])
           /\ \A S, id : First(Listing(s, p), S, id) =>
                 /\ Stored(s, s.active[p]) /\ s.active[p] \in S => id = s.active[p]
                 /\ id # s.active[p] =>
                       \A i \in DOMAIN s.order[p] :
                           s.order[p][i] \in S /\ Fits(s, p, s.order[p][i]) =>
                           \E j \in 1 .. i : s.order[p][j] = id
  <1> DEFINE rest == [i \in DOMAIN s.profiles |-> s.profiles[i].id]
             P    == {i \in DOMAIN rest : s.profiles[i].provider = p}
             a    == s.active[p]
             o    == s.order[p]
             SA   == {id \in Profiles : Stored(s, id)}
             SO   == {id \in Profiles : Fits(s, p, id)}
             A    == Kept(<<a>>, SA)
             B    == Kept(o, SO)
             C    == Picked(rest, P)
  <1>1. s \in Store /\ s.profiles \in Seq(Record) /\ a \in Profiles \cup {None} /\ o \in Seq(Profiles)
    BY DEF Stores, Store
  <1>2. \A id : Stored(s, id) => id \in Profiles
    BY ProfileFacts
  <1>3. A \in Seq(SA) /\ \A x : Has(A, x) <=> x = a /\ Stored(s, a)
    <2>1. <<a>> \in Seq(Profiles \cup {None}) /\ \A x : Has(<<a>>, x) <=> x = a
      BY <1>1 DEF Has
    <2>2. A \in Seq(SA) /\ \A x : Has(A, x) <=> Has(<<a>>, x) /\ x \in SA
      <3> DEFINE one == <<a>>
      <3> HIDE DEF a, SA, one
      <3>1. one \in Seq(Profiles \cup {None}) /\ A = Kept(one, SA)
        BY <2>1 DEF one
      <3> HIDE DEF A
      <3>2. A \in Seq(SA) /\ \A x : Has(A, x) <=> Has(one, x) /\ x \in SA
        BY <3>1, KeptFacts
      <3>3. QED BY <3>2 DEF one
    <2>3. QED BY <1>2, <2>1, <2>2
  <1>4. /\ B \in Seq(SO) /\ \A x : Has(B, x) <=> Has(o, x) /\ x \in SO
        /\ \A U, x : First(B, U, x) => First(o, SO \cap U, x)
    <2> HIDE DEF o, SO
    <2>1. QED BY <1>1, KeptFacts
  <1>5. C \in Seq(Profiles) /\ \A x : Has(C, x) <=> Fits(s, p, x)
    <2>1. rest \in Seq(Profiles) /\ DOMAIN rest = DOMAIN s.profiles
          /\ \A i \in DOMAIN rest : rest[i] = s.profiles[i].id
      <3>1. \A i \in DOMAIN s.profiles : s.profiles[i].id \in Profiles
        BY ProfileFacts
      <3>2. Len(s.profiles) \in Nat /\ DOMAIN s.profiles = 1 .. Len(s.profiles)
        BY <1>1
      <3>3. QED BY <3>1, <3>2
    <2>2. \A i \in DOMAIN rest : /\ Stored(s, rest[i]) /\ Profile(s, rest[i]) = s.profiles[i]
      BY <2>1, ProfileFacts DEF Stored
    <2>3. P \subseteq DOMAIN rest
      OBVIOUS
    <2>4. \A i \in DOMAIN rest : i \in P <=> Fits(s, p, rest[i])
      BY <2>2 DEF Fits
    <2> HIDE DEF P
    <2>5. PICK n, at : C \in Seq(Profiles) /\ Walk(C, rest, P, n, at)
      <3> HIDE DEF rest
      <3>1. QED BY <2>1, <2>3, PickedFacts
    <2> HIDE DEF C, rest
    <2>6. /\ n \in Nat /\ at \in [1 .. n -> P] /\ DOMAIN C = 1 .. n
          /\ \A i \in 1 .. n : C[i] = rest[at[i]]
          /\ \A m \in P : \E i \in 1 .. n : at[i] = m
      BY <2>5 DEF Walk
    <2>7. ASSUME NEW x, Has(C, x) PROVE Fits(s, p, x)
      <3>1. PICK i \in 1 .. n : rest[at[i]] = x
        BY <2>6, <2>7 DEF Has
      <3>2. at[i] \in P
        BY <2>6
      <3>3. QED BY <2>3, <2>4, <3>1, <3>2
    <2>8. ASSUME NEW x, Fits(s, p, x) PROVE Has(C, x)
      <3>1. PICK m \in DOMAIN rest : rest[m] = x
        BY <2>1, <2>8 DEF Fits, Stored
      <3>2. m \in P
        BY <2>4, <2>8, <3>1
      <3>3. PICK i \in 1 .. n : at[i] = m
        BY <2>6, <3>2
      <3>4. QED BY <2>6, <3>1, <3>3 DEF Has
    <2>9. QED BY <2>5, <2>7, <2>8
  <1>6. Listing(s, p) = A \o B \o C
    BY DEF Listing
  <1>7. A \in Seq(Profiles) /\ B \in Seq(Profiles)
    <2>1. SA \subseteq Profiles /\ SO \subseteq Profiles
      OBVIOUS
    <2> HIDE DEF A, B, SA, SO
    <2>2. QED BY <1>3, <1>4, <2>1
  <1> HIDE DEF rest, P, SA, A, B, C
  <1>8. /\ A \o B \in Seq(Profiles) /\ Listing(s, p) \in Seq(Profiles)
        /\ \A x : Has(Listing(s, p), x) <=> Has(A \o B, x) \/ Has(C, x)
        /\ \A x : Has(A \o B, x) <=> Has(A, x) \/ Has(B, x)
        /\ \A S, x : First(Listing(s, p), S, x) =>
              First(A \o B, S, x) \/ (First(C, S, x) /\ \A y \in S : ~Has(A \o B, y))
        /\ \A S, x : First(A \o B, S, x) =>
              First(A, S, x) \/ (First(B, S, x) /\ \A y \in S : ~Has(A, y))
    <2>1. /\ A \o B \in Seq(Profiles)
          /\ \A x : Has(A \o B, x) <=> Has(A, x) \/ Has(B, x)
          /\ \A S, x : First(A \o B, S, x) =>
                First(A, S, x) \/ (First(B, S, x) /\ \A y \in S : ~Has(A, y))
      BY <1>7, ConcatFacts
    <2> DEFINE AB == A \o B
    <2>2. AB \in Seq(Profiles) /\ Listing(s, p) = AB \o C
      BY <1>6, <2>1
    <2> HIDE DEF AB
    <2>3. /\ Listing(s, p) \in Seq(Profiles)
          /\ \A x : Has(Listing(s, p), x) <=> Has(AB, x) \/ Has(C, x)
          /\ \A S, x : First(Listing(s, p), S, x) =>
                First(AB, S, x) \/ (First(C, S, x) /\ \A y \in S : ~Has(AB, y))
      BY <1>5, <2>2, ConcatFacts
    <2>4. QED BY <2>1, <2>3 DEF AB
  <1>9. \A id : Fits(s, p, id) => Has(Listing(s, p), id)
    BY <1>5, <1>8
  <1>10. \A id : Has(Listing(s, p), id) => Stored(s, id) /\ (Fits(s, p, id) \/ id = a)
    BY <1>3, <1>4, <1>5, <1>8 DEF Fits
  <1>11. ASSUME NEW S, NEW id, First(Listing(s, p), S, id)
         PROVE  /\ Stored(s, a) /\ a \in S => id = a
                /\ id # a => \A i \in DOMAIN o : o[i] \in S /\ Fits(s, p, o[i]) => \E j \in 1 .. i : o[j] = id
    <2>1. ASSUME First(A, S, id) PROVE id = a
      BY <1>3, <2>1 DEF First, Has
    <2>2. \/ First(A, S, id)
          \/ First(B, S, id) /\ \A y \in S : ~Has(A, y)
          \/ \A y \in S : ~Has(A, y) /\ ~Has(B, y)
      BY <1>8, <1>11
    <2>3. Stored(s, a) /\ a \in S => id = a
      BY <1>3, <2>1, <2>2
    <2>4. ASSUME id # a, NEW i \in DOMAIN o, o[i] \in S, Fits(s, p, o[i])
          PROVE  \E j \in 1 .. i : o[j] = id
      <3>1. o[i] \in SO /\ Has(o, o[i]) /\ Has(B, o[i])
        BY <1>1, <1>4, <2>4 DEF Has
      <3>2. First(B, S, id)
        BY <2>1, <2>2, <2>4, <3>1
      <3>3. First(o, SO \cap S, id)
        BY <1>4, <3>2
      <3>4. PICK j \in DOMAIN o : o[j] = id /\ \A k \in 1 .. j - 1 : o[k] \notin SO \cap S
        BY <3>3 DEF First
      <3>5. i \in Nat /\ j \in Nat /\ i >= 1 /\ j >= 1
        BY <1>1
      <3>6. i \notin 1 .. j - 1
        BY <2>4, <3>1, <3>4
      <3>7. QED BY <3>4, <3>5, <3>6
    <2>5. QED BY <2>3, <2>4
  <1>12. QED BY <1>8, <1>9, <1>10, <1>11

LEMMA CandidatesFacts ==
    ASSUME NEW s \in Stores, NEW p \in Providers
    PROVE  /\ Candidates(s, p) \in Seq(Profiles)
           /\ \A id : Has(Candidates(s, p), id) <=> Has(Listing(s, p), id)
           /\ \A S, id : First(Candidates(s, p), S, id) => First(Listing(s, p), S, id)
  <1>1. Candidates(s, p) = Distinct(Listing(s, p))
    BY DEF Candidates, Listing
  <1>2. Listing(s, p) \in Seq(Profiles)
    BY ListingFacts
  <1>3. QED BY <1>1, <1>2, DistinctFacts

\* What resolveForProvider finds is what Fit asks for.
LEMMA ResolveFits ==
    ASSUME file \in Stores, file \notin {Torn, None}, NEW p \in Providers, Resolve(file, p).source # "missing"
    PROVE  Fit(p, Resolve(file, p))
  <1> DEFINE s       == file
             auth    == Resolve(s, p)
             Token   == {id \in Profiles : Stored(s, id) /\ Profile(s, id).token}
             Fresh   == {id \in Profiles : Stored(s, id) /\ ~Expired(Profile(s, id))}
             c       == Candidates(s, p)
             tokens  == Kept(c, Token)
             live    == Kept(tokens, Fresh)
             has(id) == Stored(s, id) /\ Profile(s, id).token
             own     == {id \in Profiles : /\ has(id) /\ ~Expired(Profile(s, id))
                                           /\ Profile(s, id).provider = p}
             order   == s.order[p]
             active  == s.active[p]
  <1>1. /\ c \in Seq(Profiles)
        /\ \A id : Fits(s, p, id) => Has(c, id)
        /\ \A id : Has(c, id) => Stored(s, id) /\ (Fits(s, p, id) \/ id = active)
        /\ \A S, id : First(c, S, id) =>
              /\ Stored(s, active) /\ active \in S => id = active
              /\ id # active =>
                    \A i \in DOMAIN order : order[i] \in S /\ Fits(s, p, order[i]) =>
                        \E j \in 1 .. i : order[j] = id
    BY CandidatesFacts, ListingFacts
  <1>2. \A id \in Profiles : (id \in Token <=> has(id)) /\ (id \in Fresh <=> Stored(s, id) /\ ~Expired(Profile(s, id)))
    OBVIOUS
  <1>3. \A id : Stored(s, id) => id \in Profiles
    BY ProfileFacts
  <1>4. \A id \in own : Fits(s, p, id) /\ id \in Token /\ id \in Fresh
    BY DEF Fits
  <1>5. /\ tokens \in Seq(Profiles) /\ \A x : Has(tokens, x) <=> Has(c, x) /\ x \in Token
        /\ \A U, x : First(tokens, U, x) => First(c, Token \cap U, x)
    <2> HIDE DEF c, Token
    <2>1. QED BY <1>1, KeptFacts
  <1>6. /\ \A x : Has(live, x) <=> Has(tokens, x) /\ x \in Fresh
        /\ live # <<>> => First(tokens, Fresh, Head(live))
    <2> HIDE DEF tokens, Fresh
    <2>1. QED BY <1>5, KeptFacts, KeptHead
  <1>7. tokens = <<>> => live = <<>>
    <2>1. ASSUME tokens = <<>> PROVE live = <<>>
      <3>1. live \in Seq(Profiles)
        <4> HIDE DEF tokens, Fresh
        <4>1. QED BY <1>5, KeptFacts
      <3>2. \A x : ~Has(live, x)
        <4> HIDE DEF live, Fresh
        <4>1. QED BY <1>6, <2>1 DEF Has
      <3> HIDE DEF live
      <3>3. QED BY <3>1, <3>2, HasNothing
    <2>2. QED BY <2>1
  <1>8. auth = CASE live # <<>> -> Auth("profile", Head(live))
                 [] live = <<>> /\ p \in EnvKeys -> Auth("env", None)
                 [] live = <<>> /\ p \notin EnvKeys /\ tokens # <<>> -> Auth("profile", Head(tokens))
                 [] live = <<>> /\ p \notin EnvKeys /\ tokens = <<>> -> Auth("missing", None)
    <2>1. Resolve(s, p) =
             LET found == IF tokens = <<>> THEN <<>> ELSE live
             IN CASE found # <<>> -> Auth("profile", Head(found))
                  [] found = <<>> /\ p \in EnvKeys -> Auth("env", None)
                  [] found = <<>> /\ p \notin EnvKeys /\ tokens # <<>> -> Auth("profile", Head(tokens))
                  [] found = <<>> /\ p \notin EnvKeys /\ tokens = <<>> -> Auth("missing", None)
      BY DEF Resolve, FirstLive
    <2> HIDE DEF tokens, live
    <2>2. (IF tokens = <<>> THEN <<>> ELSE live) = live
      BY <1>7
    <2>3. QED BY <2>1, <2>2
  <1>9. live = <<>> => own = {}
    <2>1. ASSUME live = <<>>, NEW id \in own PROVE FALSE
      <3>1. Has(live, id)
        BY <1>1, <1>4, <1>5, <1>6
      <3> HIDE DEF live
      <3>2. QED BY <2>1, <3>1 DEF Has
    <2> HIDE DEF live, own
    <2>2. QED BY <2>1
  <1>10. tokens # <<>> => Has(tokens, Head(tokens))
    <2> HIDE DEF tokens
    <2>1. QED BY <1>5 DEF Has
  <1>11. live # <<>> =>
            LET id == Head(live) IN
            /\ has(id) /\ ~Expired(Profile(s, id)) /\ (Fits(s, p, id) \/ id = active)
            /\ active \in own => id = active
            /\ id # active => \A i \in DOMAIN order : order[i] \in own => \E j \in 1 .. i : order[j] = id
    <2>1. ASSUME NEW id, First(tokens, Fresh, id)
          PROVE  /\ has(id) /\ ~Expired(Profile(s, id)) /\ (Fits(s, p, id) \/ id = active)
                 /\ active \in own => id = active
                 /\ id # active => \A i \in DOMAIN order : order[i] \in own => \E j \in 1 .. i : order[j] = id
      <3>1. First(c, Token \cap Fresh, id)
        BY <1>5, <2>1
      <3>2. id \in Token \cap Fresh /\ Has(c, id)
        BY <3>1 DEF First, Has
      <3>3. has(id) /\ ~Expired(Profile(s, id)) /\ (Fits(s, p, id) \/ id = active)
        BY <1>1, <3>2
      <3> HIDE DEF Token, Fresh, c
      <3>4. active \in own => id = active
        BY <1>1, <1>4, <3>1
      <3>5. id # active => \A i \in DOMAIN order : order[i] \in own => \E j \in 1 .. i : order[j] = id
        <4> HIDE DEF own, order, active
        <4>1. QED BY <1>1, <1>4, <3>1
      <3>6. QED BY <3>3, <3>4, <3>5
    <2> HIDE DEF live, tokens, Fresh, own, has
    <2>2. QED BY <1>6, <2>1
  <1> HIDE DEF live, tokens, c, Token, Fresh
  <1>12. CASE live # <<>>
    <2>1. auth = Auth("profile", Head(live))
      BY <1>8, <1>12
    <2>2. auth.source = "profile" /\ auth.id = Head(live)
      BY <2>1 DEF Auth
    <2> HIDE DEF auth
    <2>3. QED BY <1>11, <1>12, <2>2 DEF Fit, auth
  <1>13. CASE live = <<>> /\ p \in EnvKeys
    <2>1. auth = Auth("env", None)
      BY <1>8, <1>13
    <2>2. auth.source = "env" /\ own = {}
      BY <1>9, <1>13, <2>1 DEF Auth
    <2> HIDE DEF auth
    <2>3. QED BY <2>2 DEF Fit, auth
  <1>14. CASE live = <<>> /\ p \notin EnvKeys /\ tokens # <<>>
    <2>1. auth = Auth("profile", Head(tokens))
      BY <1>8, <1>14
    <2>2. auth.source = "profile" /\ auth.id = Head(tokens) /\ own = {}
      BY <1>9, <1>14, <2>1 DEF Auth
    <2>3. Has(c, Head(tokens)) /\ Head(tokens) \in Token
      BY <1>5, <1>10, <1>14
    <2>4. has(Head(tokens)) /\ (Fits(s, p, Head(tokens)) \/ Head(tokens) = active)
      BY <1>1, <2>3 DEF Token
    <2> HIDE DEF auth
    <2>5. QED BY <1>14, <2>2, <2>4 DEF Fit, auth
  <1>15. CASE live = <<>> /\ p \notin EnvKeys /\ tokens = <<>>
    <2>1. auth = Auth("missing", None)
      BY <1>8, <1>15
    <2>2. QED BY <2>1 DEF Auth
  <1>16. QED BY <1>12, <1>13, <1>14, <1>15

\* The models left are references, and one of them is the one that was asked.
TurnInv ==
    turn.at \in {"trying", "creating", "asked"} =>
        turn.left \in Seq(Refs) /\ (turn.at = "asked" => turn.left # <<>>)

LEMMA TurnInductive == Spec => []TurnInv
  <1>1. Init => TurnInv
    BY DEF Init, NoTurn, TurnInv
  <1>2. TurnInv /\ [Next]_vars => TurnInv'
    <2> SUFFICES ASSUME TurnInv, [Next]_vars PROVE TurnInv'
      OBVIOUS
    <2>1. ASSUME turn' = NoTurn PROVE TurnInv'
      BY <2>1 DEF NoTurn, TurnInv
    <2>2. ASSUME turn.at \in {"trying", "asked"}, turn.left # <<>>, turn' = Trying(Tail(turn.left))
          PROVE  TurnInv'
      <3>1. turn'.at = "trying" /\ turn'.left = Tail(turn.left)
        BY <2>2 DEF Trying
      <3>2. turn.left \in Seq(Refs) /\ Tail(turn.left) \in Seq(Refs)
        BY <2>2 DEF TurnInv
      <3>3. QED BY <3>1, <3>2 DEF TurnInv
    <2>3. CASE Complete
      BY <2>3, ModelAccessAssumption DEF Complete, TurnInv
    <2>4. CASE GiveUp
      BY <2>1, <2>4 DEF GiveUp
    <2>5. CASE Skip
      BY <2>2, <2>5 DEF Skip
    <2>6. CASE Ask
      BY <2>6 DEF Ask, TurnInv
    <2>7. CASE Reply
      <3>1. turn.left # <<>>
        BY <2>7 DEF Reply, TurnInv
      <3>2. QED BY <2>1, <2>2, <2>7, <3>1 DEF Reply
    <2>8. CASE UNCHANGED turn
      BY <2>8 DEF TurnInv
    <2>9. (\E c \in Commands : Command(c)) => UNCHANGED turn
      BY DEF Command, Start, Create, Created, AddProfile, DeviceLogin, ImportLogin, LoggedIn,
             UseProfile, RemoveProfile, OrderProfiles, Edit, Flush, Again, End
    <2>9a. CASE CreateForTurn
      <3>1. turn.at = "trying" /\ turn'.at = "creating" /\ turn'.left = turn.left
        BY <2>9a DEF CreateForTurn
      <3>2. QED BY <3>1 DEF TurnInv
    <2>9b. CASE CreatedForTurn
      <3>1. turn.at = "creating" /\ turn'.at = "trying" /\ turn'.left = turn.left
        BY <2>9b DEF CreatedForTurn
      <3>2. QED BY <3>1 DEF TurnInv
    <2>10. QED
      BY <2>9a, <2>9b, <2>3, <2>4, <2>5, <2>6, <2>7, <2>8, <2>9 DEF Next, Tick, vars
  <1>3. QED BY <1>1, <1>2, PTL DEF Spec

\* No request goes out with a token that has expired, nor with the key of the
\* environment, while its provider has a profile with a live one; a live
\* active profile comes first, then the order's; for any profiles, order,
\* chain and commands in between (resolveForProvider, complete).
THEOREM LiveTokensGoOut == Spec => LiveTokensAreSent
  <1> DEFINE Sent == turn'.at = "asked" /\ turn.at # "asked" =>
                         IF file = Torn THEN turn'.auth.source = "env"
                         ELSE Fit(turn'.provider, turn'.auth)
  <1>1. AccessInv /\ TurnInv /\ [Next]_vars => [Sent]_vars
    <2> SUFFICES ASSUME AccessInv, TurnInv, [Next]_vars, turn'.at = "asked", turn.at # "asked"
                 PROVE  IF file = Torn THEN turn'.auth.source = "env"
                        ELSE Fit(turn'.provider, turn'.auth)
      BY DEF Sent
    <2>1. Ask
      <3>1. turn # turn'
        OBVIOUS
      <3>2. NoTurn.at # "asked" /\ \A left : Trying(left).at # "asked"
        BY DEF NoTurn, Trying
      <3>3. ~Complete /\ ~GiveUp /\ ~Skip /\ ~Reply /\ ~Tick
        BY <3>1, <3>2 DEF Complete, GiveUp, Skip, Reply, Tick
      <3>3a. ~CreateForTurn /\ ~CreatedForTurn
        BY DEF CreateForTurn, CreatedForTurn
      <3>4. ~ \E c \in Commands : Command(c)
        BY <3>1 DEF Command, Start, Create, Created, AddProfile, DeviceLogin, ImportLogin, LoggedIn,
                    UseProfile, RemoveProfile, OrderProfiles, Edit, Flush, Again, End
      <3>5. QED BY <3>1, <3>3, <3>3a, <3>4 DEF Next, vars
    <2> DEFINE p == ProviderOf[Head(turn.left)]
    <2>2. p \in Providers
      BY <2>1, ModelAccessAssumption DEF Ask, TurnInv
    <2>3. /\ Resolve(file, p).source # "missing"
          /\ turn'.provider = p /\ turn'.auth = Resolve(file, p)
      BY <2>1 DEF Ask
    <2> HIDE DEF p
    <2>4. CASE file = Torn
      <3>1. Resolve(file, p) = IF p \in EnvKeys THEN Auth("env", None) ELSE Auth("missing", None)
        BY <2>4 DEF Resolve
      <3>2. QED BY <2>3, <2>4, <3>1 DEF Auth
    <2>5. CASE file # Torn
      <3>1. file \in Stores /\ file \notin {Torn, None}
        BY <2>1, <2>5 DEF AccessInv, Ask
      <3>2. QED BY <2>2, <2>3, <2>5, <3>1, ResolveFits
    <2>6. QED BY <2>4, <2>5
  <1>2. QED BY <1>1, AccessInductive, TurnInductive, PTL DEF Spec, LiveTokensAreSent, Sent

-----------------------------------------------------------------------------
(* May a session run a tool?                                               *)

\* A scope without an allow list, and one with: what evaluatePolicy comes to
\* for the three scopes there are.
Allowed(g, c, p, tool) ==
    /\ tool \notin g.deny /\ tool \notin c.deny /\ tool \notin p.deny
    /\ p.allow # {} => tool \in p.allow
    /\ p.allow = {} /\ c.allow # {} => tool \in c.allow
    /\ p.allow = {} /\ c.allow = {} /\ g.allow # {} => tool \in g.allow

LEMMA NarrowestCounts ==
    ASSUME NEW config, NEW context, NEW tool, NEW g, NEW c, NEW p,
           Scopes(config, context) = <<g, c, p>>
    PROVE  EvaluatePolicy(config, context, tool) <=> Allowed(g, c, p, tool)
  <1> DEFINE s == <<g, c, p>>
  <1>1. DOMAIN s = 1 .. 3 /\ s[1] = g /\ s[2] = c /\ s[3] = p
    OBVIOUS
  <1>2. EvaluatePolicy(config, context, tool) <=>
            /\ \A i \in DOMAIN s : tool \notin s[i].deny
            /\ \A i \in AllowScope(s) : tool \in s[i].allow
    BY DEF EvaluatePolicy
  <1> HIDE DEF s
  <1>3. (\A i \in DOMAIN s : tool \notin s[i].deny) <=>
            tool \notin g.deny /\ tool \notin c.deny /\ tool \notin p.deny
    BY <1>1
  <1>4. \A i : i \in AllowScope(s) <=>
            \/ i = 3 /\ p.allow # {}
            \/ i = 2 /\ p.allow = {} /\ c.allow # {}
            \/ i = 1 /\ p.allow = {} /\ c.allow = {} /\ g.allow # {}
    BY <1>1 DEF AllowScope
  <1>5. (\A i \in AllowScope(s) : tool \in s[i].allow) <=>
            /\ p.allow # {} => tool \in p.allow
            /\ p.allow = {} /\ c.allow # {} => tool \in c.allow
            /\ p.allow = {} /\ c.allow = {} /\ g.allow # {} => tool \in g.allow
    BY <1>1, <1>4
  <1>6. QED BY <1>2, <1>3, <1>5 DEF Allowed

\* A question about a tool, whatever the lists.
ToolQuestion == [ask : {"tool"}, dmScope : {"main", "per-peer"}, channel : Channels \cup {Nobody},
                 peer : Peers \cup {Nobody}, global : Scope, legacy : Scope, ofChannel : Scope,
                 ofPeer : Scope]
OfChannel(q) == IF q.channel = Nobody THEN Open ELSE q.ofChannel
OfPeer(q) ==
    IF q.channel = Nobody \/ q.peer = Nobody \/ q.dmScope = "main" THEN Open ELSE q.ofPeer

\* The command runs when its own lists let it and those of the session's
\* scopes do; the lists of the others do not appear.
LEMMA ToolCommandRuns ==
    ASSUME NEW q, NEW others, NEW allow, NEW deny, NEW tool,
           q.channel \in Channels \cup {Nobody}, q.peer \in Peers \cup {Nobody},
           q.dmScope \in {"main", "per-peer"}
    PROVE  ToolCommand(Config(q, others), {tool}, Context(q.dmScope, q.channel, q.peer),
                       allow, deny, tool) = "runs"
           <=> /\ RuntimeToolAllowed(allow, deny, tool)
               /\ Allowed(Global(q), OfChannel(q), OfPeer(q), tool)
  <1> DEFINE config  == Config(q, others)
             context == Context(q.dmScope, q.channel, q.peer)
             policy  == EvaluatePolicy(config, context, tool)
  <1>2. context.channel = q.channel
        /\ context.peer = IF q.dmScope = "main" THEN Nobody ELSE q.peer
    BY DEF Context
  <1>3. /\ Global(config) = Global(q)
        /\ q.channel # Nobody => config.channels[q.channel] = q.ofChannel
        /\ q.channel # Nobody /\ q.peer # Nobody => config.peers[<<q.channel, q.peer>>] = q.ofPeer
    BY DEF Config, Global
  <1> HIDE DEF config, context
  <1>4. Scopes(config, context) = <<Global(q), OfChannel(q), OfPeer(q)>>
    BY <1>2, <1>3 DEF Scopes, OfChannel, OfPeer
  <1>5. policy <=> Allowed(Global(q), OfChannel(q), OfPeer(q), tool)
    BY <1>4, NarrowestCounts
  <1> HIDE DEF policy
  <1>6. CASE RuntimeToolAllowed(allow, deny, tool)
    <2>1. ToolCommand(config, {tool}, context, allow, deny, tool) =
              IF policy THEN "runs" ELSE "denied by access policy"
      BY <1>6 DEF ToolCommand, policy
    <2>2. QED BY <1>5, <1>6, <2>1 DEF config, context
  <1>7. CASE ~RuntimeToolAllowed(allow, deny, tool)
    <2>1. ToolCommand(config, {tool}, context, allow, deny, tool) = "tool_denied_by_runtime_policy"
      BY <1>7 DEF ToolCommand
    <2>2. QED BY <1>7, <2>1 DEF config, context
  <1>8. QED BY <1>6, <1>7

\* A question is asked in an initial state, and stays.
Asked == \/ query = NoQuery \/ query \in ToolQueries \/ query \in CronQueries
         \/ query \in JobQueries

LEMMA QuestionStays == MCSpec => []Asked
  <1>1. MCInit => Asked
    BY DEF MCInit, Asked
  <1>2. Asked /\ [MCNext]_<<vars, query>> => Asked'
    BY DEF Asked, MCNext, Alone
  <1>3. QED BY <1>1, <1>2, PTL DEF MCSpec

\* While no question is asked, a step is one of ModelAccess.
LEMMA CommandsRun == MCSpec => Spec
  <1>1. MCInit => Init
    BY DEF MCInit
  <1>2. [MCNext]_<<vars, query>> => [Next]_vars
    BY DEF MCNext, Next, Command
  <1>3. QED BY <1>1, <1>2, PTL DEF MCSpec, Spec

LEMMA ToolQuestions == ASSUME Asked, query.ask = "tool" PROVE query \in ToolQuestion
  <1>1. query \in ToolQueries
    BY DEF Asked, NoQuery, CronQueries, JobQueries
  <1>2. Lists \subseteq Scope
    BY DEF Lists
  <1>3. QED BY <1>1, <1>2 DEF ToolQueries, ToolQuestion

\* What a deny list names never runs, nor what the narrowest allow list leaves
\* out, which is the one that counts; a peer's lists count when sessions are per peer, and those of
\* others never; for any tools, channels, peers and lists (evaluatePolicy,
\* runtimeToolAllowed, contextFromSessionKey).
THEOREM ToolsAreAllowed == MCSpec => []ToolsFollowPolicy
  <1>1. Asked => ToolsFollowPolicy
    <2> SUFFICES ASSUME Asked, query.ask = "tool",
                        NEW allow \in {{}, {"exec"}, {"read"}, {"*"}},
                        NEW deny \in {{}, {"exec"}, {"read"}, {"*"}}
                 PROVE
        LET q == query
            context == Context(q.dmScope, q.channel, q.peer)
            runs(x, others) ==
                ToolCommand(Config(x, others), {"exec"}, context, allow, deny, "exec") = "runs"
            narrow == q.channel # Nobody /\ q.ofChannel.allow # {}
            peer   == q.channel # Nobody /\ q.peer # Nobody /\ q.dmScope # "main"
            counts == IF peer /\ q.ofPeer.allow # {} THEN q.ofPeer.allow
                      ELSE IF narrow THEN q.ofChannel.allow ELSE Global(q).allow
            base   == runs(q, Open)
        IN  /\ base => /\ allow # {} => Listed(allow, "exec")
                       /\ counts # {} => "exec" \in counts
                       /\ "exec" \notin Global(q).deny /\ ~Listed(deny, "exec")
                       /\ q.channel # Nobody => "exec" \notin q.ofChannel.deny
                       /\ peer => "exec" \notin q.ofPeer.deny
            /\ narrow /\ (NoAllow(q.legacy) = Open => q.legacy = Open) =>
                  base = runs([q EXCEPT !.global = NoAllow(@), !.legacy = NoAllow(@)], Open)
            /\ peer /\ q.ofPeer.allow # {} => base = runs([q EXCEPT !.ofChannel = NoAllow(@)], Open)
            /\ base = runs(q, [allow |-> {"read"}, deny |-> {"exec"}])
            /\ ~peer => base = runs([q EXCEPT !.ofPeer = [allow |-> {"read"}, deny |-> {"exec"}]], Open)
      BY DEF ToolsFollowPolicy
    <2> DEFINE q == query
               context == Context(q.dmScope, q.channel, q.peer)
               runs(x, others) ==
                   ToolCommand(Config(x, others), {"exec"}, context, allow, deny, "exec") = "runs"
               runtime == RuntimeToolAllowed(allow, deny, "exec")
               foreign == [allow |-> {"read"}, deny |-> {"exec"}]
               wide    == [q EXCEPT !.global = NoAllow(@), !.legacy = NoAllow(@)]
               bare    == [q EXCEPT !.ofChannel = NoAllow(@)]
               other   == [q EXCEPT !.ofPeer = foreign]
    <2>1. q \in ToolQuestion
      BY ToolQuestions
    <2>2. /\ q.channel \in Channels \cup {Nobody} /\ q.peer \in Peers \cup {Nobody}
          /\ q.dmScope \in {"main", "per-peer"}
          /\ q.global \in Scope /\ q.legacy \in Scope /\ q.ofChannel \in Scope /\ q.ofPeer \in Scope
      BY <2>1 DEF ToolQuestion
    <2>3. \A s \in Scope : NoAllow(s).allow = {} /\ NoAllow(s).deny = s.deny
      BY DEF Scope, NoAllow
    <2>4. Open.allow = {} /\ Open.deny = {}
      BY DEF Open
    <2>5. /\ wide.channel = q.channel /\ wide.peer = q.peer /\ wide.dmScope = q.dmScope
          /\ wide.ofChannel = q.ofChannel /\ wide.ofPeer = q.ofPeer
          /\ wide.global = NoAllow(q.global) /\ wide.legacy = NoAllow(q.legacy)
      BY <2>1 DEF ToolQuestion
    <2>6. /\ bare.channel = q.channel /\ bare.peer = q.peer /\ bare.dmScope = q.dmScope
          /\ bare.ofChannel = NoAllow(q.ofChannel) /\ bare.ofPeer = q.ofPeer
          /\ bare.global = q.global /\ bare.legacy = q.legacy
      BY <2>1 DEF ToolQuestion
    <2>7. /\ other.channel = q.channel /\ other.peer = q.peer /\ other.dmScope = q.dmScope
          /\ other.ofChannel = q.ofChannel /\ other.global = q.global /\ other.legacy = q.legacy
      BY <2>1 DEF ToolQuestion
    <2> HIDE DEF q, wide, bare, other, foreign
    <2>8. ASSUME NEW x, x.channel = q.channel, x.peer = q.peer, x.dmScope = q.dmScope, NEW others
          PROVE  runs(x, others) <=> runtime /\ Allowed(Global(x), OfChannel(x), OfPeer(x), "exec")
      <3>1. ToolCommand(Config(x, others), {"exec"}, Context(x.dmScope, x.channel, x.peer),
                        allow, deny, "exec") = "runs"
            <=> /\ RuntimeToolAllowed(allow, deny, "exec")
                /\ Allowed(Global(x), OfChannel(x), OfPeer(x), "exec")
        <4>1. /\ x.channel \in Channels \cup {Nobody} /\ x.peer \in Peers \cup {Nobody}
              /\ x.dmScope \in {"main", "per-peer"}
          BY <2>2, <2>8
        <4> HIDE DEF runs, runtime, context
        <4>2. QED BY <4>1, ToolCommandRuns
      <3>2. Context(x.dmScope, x.channel, x.peer) = context
        BY <2>8
      <3> HIDE DEF context
      <3>3. QED BY <3>1, <3>2
    <2>9. \A x, others : runs(x, others) \in BOOLEAN
      OBVIOUS
    <2> HIDE DEF runs, runtime
    <2> DEFINE narrow == q.channel # Nobody /\ q.ofChannel.allow # {}
               peer   == q.channel # Nobody /\ q.peer # Nobody /\ q.dmScope # "main"
               counts == IF peer /\ q.ofPeer.allow # {} THEN q.ofPeer.allow
                         ELSE IF narrow THEN q.ofChannel.allow ELSE Global(q).allow
    <2>10. runs(q, Open) => /\ allow # {} => Listed(allow, "exec")
                            /\ counts # {} => "exec" \in counts
                            /\ "exec" \notin Global(q).deny /\ ~Listed(deny, "exec")
                            /\ q.channel # Nobody => "exec" \notin q.ofChannel.deny
                            /\ peer => "exec" \notin q.ofPeer.deny
      BY <2>4, <2>8 DEF Allowed, OfChannel, OfPeer, RuntimeToolAllowed, runtime
    <2>11. narrow /\ (NoAllow(q.legacy) = Open => q.legacy = Open) => runs(q, Open) = runs(wide, Open)
      <3> SUFFICES ASSUME narrow, NoAllow(q.legacy) = Open => q.legacy = Open
                   PROVE  runs(q, Open) = runs(wide, Open)
        OBVIOUS
      <3>1. OfChannel(wide) = OfChannel(q) /\ OfPeer(wide) = OfPeer(q) /\ OfChannel(q).allow # {}
        BY <2>5 DEF OfChannel, OfPeer
      <3>2. Global(wide).deny = Global(q).deny
        <4>1. NoAllow(Open) = Open
          BY DEF NoAllow, Open
        <4>2. QED BY <2>2, <2>3, <2>5, <4>1 DEF Global
      <3>3. QED BY <2>5, <2>8, <2>9, <3>1, <3>2 DEF Allowed
    <2>12. peer /\ q.ofPeer.allow # {} => runs(q, Open) = runs(bare, Open)
      <3> SUFFICES ASSUME peer, q.ofPeer.allow # {} PROVE runs(q, Open) = runs(bare, Open)
        OBVIOUS
      <3>1. /\ OfPeer(bare) = OfPeer(q) /\ OfPeer(q).allow # {} /\ Global(bare) = Global(q)
            /\ OfChannel(bare).deny = OfChannel(q).deny
        BY <2>2, <2>3, <2>6 DEF OfChannel, OfPeer, Global
      <3>2. QED BY <2>6, <2>8, <2>9, <3>1 DEF Allowed
    <2>13. runs(q, Open) = runs(q, foreign)
      BY <2>8, <2>9
    <2>14. ~peer => runs(q, Open) = runs(other, Open)
      <3> SUFFICES ASSUME ~peer PROVE runs(q, Open) = runs(other, Open)
        OBVIOUS
      <3>1. OfPeer(other) = OfPeer(q) /\ OfChannel(other) = OfChannel(q) /\ Global(other) = Global(q)
        BY <2>7 DEF OfChannel, OfPeer, Global
      <3>2. QED BY <2>7, <2>8, <2>9, <3>1
    <2>15. QED
      BY <2>10, <2>11, <2>12, <2>13, <2>14 DEF q, runs, wide, bare, other, foreign
  <1>2. QED BY <1>1, QuestionStays, PTL

-----------------------------------------------------------------------------
(* When a cron job runs next                                               *)

LEMMA Multiples ==
    ASSUME NEW d \in Nat \ {0}, NEW q \in Int, NEW k \in Int
    PROVE  /\ q * d \in Int
           /\ q < k => q * d + d <= k * d
  <1>1. q * d \in Int /\ k * d \in Int /\ (k - q - 1) * d \in Int
    OBVIOUS
  <1>2. (k - q - 1) * d = k * d - q * d - d
    OBVIOUS
  <1>3. q < k => (k - q - 1) * d >= 0
    OBVIOUS
  <1>4. QED BY <1>1, <1>2, <1>3

LEMMA Quotient ==
    ASSUME NEW x \in Int, NEW d \in Nat \ {0}
    PROVE  /\ x \div d \in Int /\ x % d \in 0 .. d - 1
           /\ x = (x \div d) * d + (x % d)
  OBVIOUS

LEMMA QuotientIs ==
    ASSUME NEW d \in Nat \ {0}, NEW q \in Int, NEW r \in 0 .. d - 1
    PROVE  (q * d + r) \div d = q /\ (q * d + r) % d = r
  <1> DEFINE x == q * d + r
  <1>1. x \in Int /\ r \in Int /\ q * d \in Int
    OBVIOUS
  <1> HIDE DEF x
  <1>2. x \div d \in Int /\ x % d \in 0 .. d - 1 /\ x = (x \div d) * d + (x % d)
    BY <1>1, Quotient
  <1> DEFINE k == x \div d
  <1>3. k \in Int /\ k * d \in Int
    BY <1>2
  <1> HIDE DEF k
  <1>4. ~(q < k) /\ ~(k < q)
    <2>1. q < k => q * d + d <= k * d
      BY <1>3, Multiples
    <2>2. k < q => k * d + d <= q * d
      BY <1>3, Multiples
    <2>3. x = k * d + (x % d)
      BY <1>2 DEF k
    <2>4. x = q * d + r
      BY DEF x
    <2>5. QED BY <1>1, <1>2, <1>3, <2>1, <2>2, <2>3, <2>4
  <1>5. k = q
    BY <1>3, <1>4
  <1>6. QED BY <1>1, <1>2, <1>5 DEF k, x

LEMMA QuotientOfQuotient ==
    ASSUME NEW x \in Int, NEW d \in Nat \ {0}, NEW e \in Nat \ {0}
    PROVE  x \div (d * e) = (x \div d) \div e
  <1> DEFINE m == x \div d
             r == x % d
             q == m \div e
             s == m % e
  <1>1. m \in Int /\ r \in 0 .. d - 1 /\ x = m * d + r
    BY Quotient
  <1>2. q \in Int /\ s \in 0 .. e - 1 /\ m = q * e + s
    BY <1>1, Quotient
  <1> HIDE DEF m, r, q, s
  <1>3. d * e \in Nat \ {0} /\ s * d \in Int /\ q * (d * e) \in Int
    BY <1>2
  <1>4. s * d + r \in 0 .. d * e - 1
    <2>1. s * d + d <= e * d
      BY <1>2, Multiples
    <2>2. s * d >= 0 /\ e * d = d * e
      BY <1>2
    <2>3. QED BY <1>1, <1>3, <2>1, <2>2
  <1>5. x = q * (d * e) + (s * d + r)
    BY <1>1, <1>2
  <1>6. x \div (d * e) = q
    BY <1>3, <1>4, <1>5, <1>2, QuotientIs
  <1>7. QED BY <1>6 DEF q, m

LEMMA Lengths ==
    /\ Seconds \in Nat \ {0} /\ Minutes \in Nat \ {0} /\ Hours \in Nat \ {0} /\ Weekdays \in Nat \ {0}
    /\ Minutes * Hours \in Nat \ {0} /\ Minutes * Hours * Weekdays \in Nat \ {0}
    /\ 2 * Weekdays * Hours * Minutes = 2 * (Minutes * Hours * Weekdays)
  BY CronCalendarAssumption

\* What is wanted in a minute, whatever the second.
OfMinute(m) == <<m % Minutes, (m \div Minutes) % Hours, (m \div (Minutes * Hours)) % Weekdays>>

LEMMA WantedByMinute ==
    ASSUME NEW t \in Int
    PROVE  Wanted(t) = OfMinute(t \div Seconds)
  <1> DEFINE m == t \div Seconds
  <1>1. m \in Int
    BY Lengths, Quotient
  <1>2. /\ Seconds \in Nat \ {0} /\ Minutes \in Nat \ {0} /\ Hours \in Nat \ {0}
        /\ Seconds * Minutes \in Nat \ {0}
    BY Lengths
  <1>3. t \div (Seconds * Minutes) = m \div Minutes
    BY <1>2, QuotientOfQuotient, Zenon
  <1>4. t \div (Seconds * Minutes * Hours) = (t \div (Seconds * Minutes)) \div Hours
    BY <1>2, QuotientOfQuotient, Zenon
  <1> HIDE DEF m
  <1>5. m \div (Minutes * Hours) = (m \div Minutes) \div Hours
    BY <1>1, <1>2, QuotientOfQuotient, Zenon
  <1>6. QED BY <1>3, <1>4, <1>5 DEF Wanted, MinuteOf, HourOf, WeekdayOf, OfMinute, m

LEMMA SameSecond ==
    ASSUME NEW from \in Nat, NEW i \in Nat
    PROVE  /\ Candidate(from, i) \div Seconds = from \div Seconds + 1 + i
           /\ Candidate(from, i) % Seconds = from % Seconds
           /\ Candidate(from, i) \in Nat /\ Candidate(from, i) > from
  <1> DEFINE m == from \div Seconds
             r == from % Seconds
  <1>1. m \in Int /\ r \in 0 .. Seconds - 1 /\ from = m * Seconds + r
    BY Lengths, Quotient
  <1> HIDE DEF m, r
  <1>2. Candidate(from, i) = (m + 1 + i) * Seconds + r
    BY <1>1, Lengths DEF Candidate
  <1>3. m + 1 + i \in Int
    BY <1>1
  <1>4. Candidate(from, i) \div Seconds = m + 1 + i /\ Candidate(from, i) % Seconds = r
    BY <1>1, <1>2, <1>3, Lengths, QuotientIs, Zenon
  <1>5. (1 + i) * Seconds \in Nat /\ (1 + i) * Seconds > 0
    BY Lengths
  <1>6. QED BY <1>5, <1>4 DEF Candidate, m, r

LEMMA EveryMinuteComes ==
    ASSUME NEW n \in Nat, NEW a \in 0 .. Minutes - 1, NEW b \in 0 .. Hours - 1,
           NEW c \in 0 .. Weekdays - 1
    PROVE  \E m \in n + 1 .. n + Minutes * Hours * Weekdays : OfMinute(m) = <<a, b, c>>
  <1> DEFINE day  == Minutes * Hours
             week == Minutes * Hours * Weekdays
             at   == c * day + (b * Minutes + a)
             k    == (n + week - at) \div week
             w    == k * Weekdays + c
             h    == w * Hours + b
             m    == h * Minutes + a
  <1>1. /\ Minutes \in Nat \ {0} /\ Hours \in Nat \ {0} /\ Weekdays \in Nat \ {0}
        /\ day \in Nat \ {0} /\ week \in Nat \ {0}
    BY Lengths
  <1>2. at \in 0 .. week - 1
    <2>1. b * Minutes \in Nat /\ b * Minutes + Minutes <= Hours * Minutes
      BY <1>1, Multiples
    <2>2. b * Minutes + a \in 0 .. day - 1
      BY <1>1, <2>1
    <2> DEFINE s == b * Minutes + a
    <2> HIDE DEF s, day
    <2>3. c * day \in Nat /\ c * day + day <= Weekdays * day
      BY <1>1, Multiples
    <2>4. week = Weekdays * day
      BY <1>1 DEF day
    <2>5. QED BY <1>1, <2>2, <2>3, <2>4 DEF s
  <1>3. /\ k \in Int
        /\ \E r \in 0 .. week - 1 : n + week - at = k * week + r
    <2> DEFINE u == n + week - at
    <2> HIDE DEF week, at
    <2>1. u \in Int
      BY <1>1, <1>2
    <2> HIDE DEF u
    <2>2. QED BY <1>1, <2>1, Quotient DEF u
  <1> HIDE DEF k
  <1>4. w \in Int /\ h \in Int /\ m \in Int
    BY <1>1, <1>3
  <1>5. m = k * week + at
    BY <1>1, <1>3
  <1>6. m \in n + 1 .. n + week
    <2> HIDE DEF m, week, at
    <2>1. PICK r \in 0 .. week - 1 : n + week - at = k * week + r
      BY <1>3
    <2>2. k * week \in Int
      BY <1>1, <1>3
    <2>3. QED BY <1>1, <1>2, <1>4, <1>5, <2>1, <2>2
  <1>7. m % Minutes = a /\ m \div Minutes = h
    <2> HIDE DEF h
    <2>1. QED BY <1>1, <1>4, QuotientIs
  <1>8. h % Hours = b /\ h \div Hours = w
    <2> HIDE DEF w
    <2>1. QED BY <1>1, <1>4, QuotientIs
  <1>9. w % Weekdays = c
    BY <1>1, <1>3, QuotientIs
  <1>10. m \div day = w
    <2> HIDE DEF m, h, w
    <2>1. m \div (Minutes * Hours) = (m \div Minutes) \div Hours
      BY <1>1, <1>4, QuotientOfQuotient, Zenon
    <2>2. QED BY <1>7, <1>8, <2>1
  <1> HIDE DEF m, h, w, week
  <1>11. OfMinute(m) = <<a, b, c>>
    BY <1>7, <1>8, <1>9, <1>10 DEF OfMinute
  <1>12. QED BY <1>6, <1>11 DEF week

LEMMA ParsedFields ==
    ASSUME NEW expr
    PROVE  ParseExpr(expr) \subseteq (0 .. Minutes - 1) \X (0 .. Hours - 1) \X (0 .. Weekdays - 1)
  <1>1. ASSUME NEW field, NEW max PROVE ParseField(field, max) \subseteq 0 .. max - 1
    BY DEF ParseField, FieldRange
  <1>2. QED BY <1>1 DEF ParseExpr

LEMMA RunIsNext ==
    ASSUME NEW expr, NEW from \in Nat
    PROVE  IsNextRun(expr, from, NextRun(expr, from))
  <1> DEFINE P     == ParseExpr(expr)
             n     == from \div Seconds
             week  == Minutes * Hours * Weekdays
             tried == 0 .. 2 * Weekdays * Hours * Minutes - 1
             hits  == {i \in tried : Wanted(Candidate(from, i)) \in P}
             named == {m \in n + 1 .. n + week : Wanted(m * Seconds) \in P}
             run   == NextRun(expr, from)
  <1>1. n \in Nat /\ week \in Nat \ {0} /\ tried = 0 .. 2 * week - 1
    <2>1. from \div Seconds \in Int /\ from = (from \div Seconds) * Seconds + (from % Seconds)
          /\ from % Seconds \in 0 .. Seconds - 1
      BY Lengths, Quotient
    <2>2. from \div Seconds >= 0
      BY <2>1, Lengths
    <2>3. QED BY <2>1, <2>2, Lengths
  <1>2. \A i \in Nat : /\ Candidate(from, i) \div Seconds = n + 1 + i
                       /\ Candidate(from, i) % Seconds = from % Seconds
                       /\ Candidate(from, i) \in Nat /\ Candidate(from, i) > from
                       /\ Wanted(Candidate(from, i)) = OfMinute(n + 1 + i)
    BY SameSecond, WantedByMinute
  <1>3. \A m \in Int : Wanted(m * Seconds) = OfMinute(m)
    <2>1. ASSUME NEW m \in Int PROVE Wanted(m * Seconds) = OfMinute(m)
      <3>1. m * Seconds \in Int /\ m * Seconds = m * Seconds + 0 /\ 0 \in 0 .. Seconds - 1
        BY Lengths
      <3>2. (m * Seconds) \div Seconds = m
        BY <3>1, Lengths, QuotientIs
      <3> DEFINE t == m * Seconds
      <3> HIDE DEF t
      <3>3. QED BY <3>1, <3>2, WantedByMinute DEF t
    <2>2. QED BY <2>1
  <1> HIDE DEF n, week, tried
  <1>4. \A m : m \in named <=> m \in n + 1 .. n + week /\ OfMinute(m) \in P
    BY <1>1, <1>3
  <1>5. \A i : i \in hits <=> i \in 0 .. 2 * week - 1 /\ OfMinute(n + 1 + i) \in P
    <2> HIDE DEF P
    <2>1. \A i : i \in 0 .. 2 * week - 1 => i \in Nat
      BY <1>1
    <2>2. QED BY <1>1, <1>2, <2>1
  <1> HIDE DEF named, hits, P
  <1>6. P # {} => named # {}
    <2> SUFFICES ASSUME P # {} PROVE named # {}
      OBVIOUS
    <2>1. PICK a \in 0 .. Minutes - 1, b \in 0 .. Hours - 1, c \in 0 .. Weekdays - 1 : <<a, b, c>> \in P
      BY ParsedFields DEF P
    <2>2. PICK m \in n + 1 .. n + week : OfMinute(m) = <<a, b, c>>
      BY <1>1, EveryMinuteComes DEF week
    <2> HIDE DEF week
    <2>3. QED BY <1>4, <2>1, <2>2
  <1>7. named # {} => hits # {}
    <2>1. ASSUME NEW m \in named PROVE hits # {}
      <3>1. m - n - 1 \in 0 .. 2 * week - 1 /\ n + 1 + (m - n - 1) = m
        BY <1>1, <1>4
      <3>2. QED BY <1>4, <1>5, <3>1
    <2>2. QED BY <2>1
  <1>8. P = {} => hits = {}
    BY <1>5
  <1>9. run = IF hits = {} THEN -1 ELSE Candidate(from, CHOOSE i \in hits : \A j \in hits : i <= j)
    BY DEF NextRun, hits, tried, P
  <1> HIDE DEF run
  <1>10. CASE P = {}
    <2>1. run = -1
      BY <1>8, <1>9, <1>10
    <2>2. QED BY <1>10, <2>1 DEF IsNextRun, P, run
  <1>11. CASE P # {}
    <2> DEFINE i == CHOOSE i \in hits : \A j \in hits : i <= j
    <2>1. hits # {} /\ hits \subseteq Nat
      BY <1>1, <1>5, <1>6, <1>7, <1>11
    <2>2. i \in hits /\ \A j \in hits : i <= j
      <3>1. \E x \in hits : \A j \in hits : x <= j
        BY <2>1, LeastExists
      <3>2. QED BY <3>1
    <2>3. run = Candidate(from, i)
      BY <1>9, <2>1
    <2> HIDE DEF i
    <2>4. i \in Nat /\ run \div Seconds = n + 1 + i /\ run % Seconds = from % Seconds
          /\ run \in Nat /\ run > from
      BY <1>2, <2>1, <2>2, <2>3
    <2>5. \A m \in named : n + 1 + i <= m
      <3>1. ASSUME NEW m \in named PROVE n + 1 + i <= m
        <4>1. m - n - 1 \in 0 .. 2 * week - 1 /\ n + 1 + (m - n - 1) = m
          BY <1>1, <1>4
        <4>2. m - n - 1 \in hits
          BY <1>4, <1>5, <4>1
        <4>3. QED BY <1>1, <2>2, <2>4, <4>1, <4>2
      <3>2. QED BY <3>1
    <2>6. n + 1 + i \in named
      <3>1. PICK m \in named : TRUE
        BY <1>6, <1>11
      <3>2. m \in n + 1 .. n + week /\ n + 1 + i <= m
        BY <1>4, <2>5
      <3>3. n + 1 + i \in n + 1 .. n + week
        BY <1>1, <2>4, <3>2
      <3>4. QED BY <1>4, <1>5, <2>2, <3>3
    <2>7. run # -1
      BY <2>4
    <2>8. QED
      BY <1>11, <2>4, <2>5, <2>6, <2>7 DEF IsNextRun, named, n, week, P, run
  <1>12. QED BY <1>10, <1>11

\* Whatever the lengths of the calendar's parts, the next run is the first
\* minute that the expression names, none skipped and none twice, and there
\* is one within the two weeks that are searched unless the expression does
\* not parse (parseCronExpr, computeNextCronRun).
THEOREM RunsComeOnTime == MCSpec => []CronRunsOnTime
  <1>1. Asked => CronRunsOnTime
    <2> SUFFICES ASSUME Asked, query.ask = "cron"
                 PROVE  IsNextRun(query.expr, query.from, NextRun(query.expr, query.from))
      BY DEF CronRunsOnTime
    <2>1. query \in CronQueries
      BY DEF Asked, NoQuery, ToolQueries, JobQueries
    <2>2. query.from \in Nat
      BY <2>1 DEF CronQueries
    <2>3. QED BY <2>2, RunIsNext
  <1>2. QED BY <1>1, QuestionStays, PTL

-----------------------------------------------------------------------------
(* From JSON to a job and back                                             *)

LEMMA JobFields ==
    ASSUME NEW j
    PROVE  /\ DOMAIN Job(j) = {"kind", "at", "everyMs", "expr", "sessionTarget", "payloadKind",
                               "text", "sessionKey", "wakeMode", "delivery", "enabled",
                               "deleteAfterRun", "nextRunAt"}
           /\ Job(j).kind = Schedule(j, "kind", "kind", "every")
           /\ Job(j).at = Schedule(j, "at", "at", "")
           /\ Job(j).everyMs = Schedule(j, "everyMs", "everyMs", "")
           /\ Job(j).expr = Schedule(j, "expr", "cron", "")
           /\ Job(j).sessionTarget = Target(j)
           /\ Job(j).payloadKind = PayloadKind(j)
           /\ Job(j).text = Text(j)
           /\ Job(j).sessionKey = Value(j, "sessionKey", IF Target(j) = "main" THEN "main" ELSE JobKey)
           /\ Job(j).wakeMode = Value(j, "wakeMode", "now")
           /\ Job(j).delivery = Value(Part(j, "delivery"), "mode",
                                      IF Target(j) = "isolated" THEN "announce" ELSE "none")
           /\ Job(j).enabled = Value(j, "enabled", TRUE)
           /\ Job(j).deleteAfterRun =
                 Value(j, "deleteAfterRun", Schedule(j, "kind", "kind", "every") = "at")
           /\ Job(j).nextRunAt = Value(j, "nextRunAt", "first")
  BY DEF Job

LEMMA JobsAreEqual ==
    ASSUME NEW j, NEW k,
           Job(j).kind = Job(k).kind, Job(j).at = Job(k).at, Job(j).everyMs = Job(k).everyMs,
           Job(j).expr = Job(k).expr, Job(j).sessionTarget = Job(k).sessionTarget,
           Job(j).payloadKind = Job(k).payloadKind, Job(j).text = Job(k).text,
           Job(j).sessionKey = Job(k).sessionKey, Job(j).wakeMode = Job(k).wakeMode,
           Job(j).delivery = Job(k).delivery, Job(j).enabled = Job(k).enabled,
           Job(j).deleteAfterRun = Job(k).deleteAfterRun, Job(j).nextRunAt = Job(k).nextRunAt
    PROVE  Job(j) = Job(k)
  <1>1. Job(j) = [f \in DOMAIN Job(j) |-> Job(j)[f]] /\ Job(k) = [f \in DOMAIN Job(k) |-> Job(k)[f]]
    BY DEF Job
  <1>2. DOMAIN Job(j) = DOMAIN Job(k) /\ \A f \in DOMAIN Job(j) : Job(j)[f] = Job(k)[f]
    <2> DEFINE a == Job(j)
               b == Job(k)
    <2>1. /\ DOMAIN a = {"kind", "at", "everyMs", "expr", "sessionTarget", "payloadKind",
                         "text", "sessionKey", "wakeMode", "delivery", "enabled",
                         "deleteAfterRun", "nextRunAt"}
          /\ DOMAIN b = DOMAIN a
      BY JobFields
    <2> HIDE DEF a, b
    <2>2. \A f \in DOMAIN a : a[f] = b[f]
      BY <2>1 DEF a, b
    <2>3. QED BY <2>1, <2>2 DEF a, b
  <1>3. QED BY <1>1, <1>2

\* What jobs.json holds of a job.
LEMMA WrittenFields ==
    ASSUME NEW job
    PROVE  LET r == JobToJson(job) IN
           /\ DOMAIN r = {"schedule", "kind", "at", "everyMs", "cron", "sessionTarget",
                          "sessionKey", "payload", "message", "wakeMode", "delivery", "enabled",
                          "deleteAfterRun", "nextRunAt"}
           /\ Part(r, "schedule") = [kind |-> job.kind, at |-> job.at, everyMs |-> job.everyMs,
                                     expr |-> job.expr]
           /\ Part(r, "payload") = [kind |-> job.payloadKind, text |-> job.text,
                                    message |-> job.text]
           /\ Part(r, "delivery") = [mode |-> job.delivery]
           /\ Object("schedule", r) /\ Object("payload", r) /\ Object("delivery", r)
           /\ r.sessionTarget = job.sessionTarget /\ r.sessionKey = job.sessionKey
           /\ r.message = job.text /\ r.wakeMode = job.wakeMode /\ r.enabled = job.enabled
           /\ r.deleteAfterRun = job.deleteAfterRun /\ r.nextRunAt = job.nextRunAt
  <1> DEFINE r == JobToJson(job)
             s == [kind |-> job.kind, at |-> job.at, everyMs |-> job.everyMs, expr |-> job.expr]
             p == [kind |-> job.payloadKind, text |-> job.text, message |-> job.text]
             d == [mode |-> job.delivery]
  <1>1. s # NotObject /\ p # NotObject /\ d # NotObject
    <2>1. "kind" \notin DOMAIN NotObject /\ "mode" \notin DOMAIN NotObject
      BY DEF NotObject
    <2>2. "kind" \in DOMAIN s /\ "kind" \in DOMAIN p /\ "mode" \in DOMAIN d
      OBVIOUS
    <2> HIDE DEF s, p, d
    <2>3. QED BY <2>1, <2>2
  <1>2. /\ r.schedule = s /\ r.payload = p /\ r.delivery = d
        /\ r.sessionTarget = job.sessionTarget /\ r.sessionKey = job.sessionKey
        /\ r.message = job.text /\ r.wakeMode = job.wakeMode /\ r.enabled = job.enabled
        /\ r.deleteAfterRun = job.deleteAfterRun /\ r.nextRunAt = job.nextRunAt
        /\ DOMAIN r = {"schedule", "kind", "at", "everyMs", "cron", "sessionTarget",
                       "sessionKey", "payload", "message", "wakeMode", "delivery", "enabled",
                       "deleteAfterRun", "nextRunAt"}
    BY DEF JobToJson
  <1> HIDE DEF r, s, p, d
  <1>3. QED BY <1>1, <1>2 DEF Part, Object, r, s, p, d


LEMMA ReadsBack ==
    ASSUME NEW j, NEW strict \in BOOLEAN, Accepts(j, strict)
    PROVE  LET r == JobToJson(Job(j)) IN
           Accepts(r, strict) /\ Accepts(r, FALSE) /\ Job(r) = Job(j)
  <1> DEFINE job == Job(j)
             r   == JobToJson(job)
             s   == Part(r, "schedule")
             p   == Part(r, "payload")
             d   == Part(r, "delivery")
  <1>1. /\ job.sessionTarget \in {"main", "isolated"}
        /\ job.payloadKind \in {"systemEvent", "agentTurn"}
        /\ strict /\ job.sessionTarget = "main" => job.delivery = "none"
    <2>1. strict /\ job.sessionTarget = "main" /\ "delivery" \notin DOMAIN j => job.delivery = "none"
      <3>1. "delivery" \notin DOMAIN j => Part(j, "delivery") = [x \in {} |-> Null]
        BY DEF Part, Object
      <3>2. job.sessionTarget = Target(j)
            /\ job.delivery = Value(Part(j, "delivery"), "mode",
                                    IF Target(j) = "isolated" THEN "announce" ELSE "none")
        BY JobFields
      <3> HIDE DEF job
      <3>3. QED BY <3>1, <3>2 DEF Value
    <2>2. QED BY <2>1 DEF Accepts
  <1>2. /\ s = [kind |-> job.kind, at |-> job.at, everyMs |-> job.everyMs, expr |-> job.expr]
        /\ p = [kind |-> job.payloadKind, text |-> job.text, message |-> job.text]
        /\ d = [mode |-> job.delivery]
        /\ DOMAIN r = {"schedule", "kind", "at", "everyMs", "cron", "sessionTarget",
                       "sessionKey", "payload", "message", "wakeMode", "delivery", "enabled",
                       "deleteAfterRun", "nextRunAt"}
        /\ Object("delivery", r)
        /\ r.sessionTarget = job.sessionTarget /\ r.sessionKey = job.sessionKey
        /\ r.message = job.text /\ r.wakeMode = job.wakeMode /\ r.enabled = job.enabled
        /\ r.deleteAfterRun = job.deleteAfterRun /\ r.nextRunAt = job.nextRunAt
    <2> HIDE DEF job
    <2>1. QED BY WrittenFields
  <1> HIDE DEF job, r, s, p, d
  <1>3. Target(r) = job.sessionTarget
    BY <1>1, <1>2 DEF Target, Value, FirstOf
  <1>4. /\ Value(p, "kind", "") = job.payloadKind /\ Value(p, "text", "") = job.text
         /\ Value(p, "message", "") = job.text /\ Value(r, "message", "") = job.text
    BY <1>2 DEF Value
  <1>5. PayloadKind(r) = job.payloadKind
    <2>1. job.payloadKind # ""
      BY <1>1
    <2>2. QED BY <1>4, <2>1 DEF PayloadKind, FirstOf, p
  <1>6. Text(r) = job.text
    BY <1>4 DEF Text, FirstOf, p
  <1>7. /\ Schedule(r, "kind", "kind", "every") = job.kind /\ Schedule(r, "at", "at", "") = job.at
        /\ Schedule(r, "everyMs", "everyMs", "") = job.everyMs
        /\ Schedule(r, "expr", "cron", "") = job.expr
    BY <1>2 DEF Schedule, Value, s
  <1>8. /\ \A e : Value(r, "sessionKey", e) = job.sessionKey
        /\ \A e : Value(r, "wakeMode", e) = job.wakeMode
        /\ \A e : Value(d, "mode", e) = job.delivery
        /\ \A e : Value(r, "enabled", e) = job.enabled
        /\ \A e : Value(r, "deleteAfterRun", e) = job.deleteAfterRun
        /\ \A e : Value(r, "nextRunAt", e) = job.nextRunAt
    BY <1>2 DEF Value
  <1>9. Job(r) = job
    <2>1. /\ Job(r).kind = job.kind /\ Job(r).at = job.at /\ Job(r).everyMs = job.everyMs
          /\ Job(r).expr = job.expr /\ Job(r).sessionTarget = job.sessionTarget
          /\ Job(r).payloadKind = job.payloadKind /\ Job(r).text = job.text
          /\ Job(r).sessionKey = job.sessionKey /\ Job(r).wakeMode = job.wakeMode
          /\ Job(r).delivery = job.delivery /\ Job(r).enabled = job.enabled
          /\ Job(r).deleteAfterRun = job.deleteAfterRun /\ Job(r).nextRunAt = job.nextRunAt
      BY <1>3, <1>5, <1>6, <1>7, <1>8, JobFields DEF d
    <2>2. QED BY <2>1, JobsAreEqual DEF job
  <1>10. Accepts(r, strict) /\ Accepts(r, FALSE)
    BY <1>1, <1>2, <1>9 DEF Accepts, job
  <1>11. QED BY <1>9, <1>10 DEF job, r

\* A patch as the property has them: objects where one is expected, no field
\* nulled but the next run, no empty name of a kind or text.
Plain(patch) ==
    /\ \A f \in DOMAIN patch : patch[f] = Null => f = "nextRunAt"
    /\ \A f \in DOMAIN patch \cap Nested :
          /\ patch[f] # NotObject
          /\ \A g \in DOMAIN patch[f] : patch[f][g] # Null /\ patch[f][g] # ""
    /\ Value(patch, "sessionTarget", "main") # ""

LEMMA OverlaidParts ==
    ASSUME NEW r, NEW patch, Plain(patch), NEW n \in Nested \cap DOMAIN r,
           "kind" \in DOMAIN Part(r, n) \/ "mode" \in DOMAIN Part(r, n),
           Part(r, n) = r[n], r[n] # NotObject
    PROVE  /\ \A g \in DOMAIN r[n] : \A e :
                 Value(Part(MergePatch(r, patch), n), g, e) = Value(Part(patch, n), g, r[n][g])
           /\ \A g \in DOMAIN r[n] : r[n][g] # "" => Value(Part(patch, n), g, r[n][g]) # ""
           /\ Object(n, MergePatch(r, patch))
  <1> DEFINE merged == MergePatch(r, patch)
             over   == Overlay(Part(r, n), patch[n])
  <1>1. n # "nextRunAt"
    BY DEF Nested
  <1>2. Value(patch, n, "") # Null
    BY <1>1, CronJobSpecAssumption DEF Plain, Value
  <1>3. n \in DOMAIN merged
        /\ merged[n] = IF n \notin DOMAIN patch THEN r[n]
                       ELSE IF Object(n, patch) THEN over ELSE patch[n]
    BY <1>2 DEF MergePatch, Left
  <1> HIDE DEF merged
  <1>4. CASE n \notin DOMAIN patch
    <2>1. Part(merged, n) = r[n] /\ Part(patch, n) = [x \in {} |-> Null] /\ Object(n, merged)
      BY <1>3, <1>4 DEF Part, Object
    <2>2. QED BY <2>1 DEF Value, merged
  <1>5. CASE n \in DOMAIN patch
    <2>1. Object(n, patch) /\ Part(patch, n) = patch[n] /\ merged[n] = over
      BY <1>3, <1>5 DEF Plain, Part, Object
    <2>2. \A g \in DOMAIN patch[n] : patch[n][g] # Null /\ patch[n][g] # ""
      BY <1>5 DEF Plain
    <2>3. \A g \in DOMAIN r[n] :
              g \in DOMAIN over /\ over[g] = IF g \in DOMAIN patch[n] THEN patch[n][g] ELSE r[n][g]
      BY <2>2, CronJobSpecAssumption DEF Overlay, Left, Value
    <2> HIDE DEF over
    <2>4. over # NotObject
      <3>1. "kind" \notin DOMAIN NotObject /\ "mode" \notin DOMAIN NotObject
        BY DEF NotObject
      <3>2. "kind" \in DOMAIN over \/ "mode" \in DOMAIN over
        BY <2>3
      <3>3. QED BY <3>1, <3>2
    <2>5. Part(merged, n) = over /\ Object(n, merged)
      BY <1>3, <2>1, <2>4 DEF Part, Object
    <2>6. QED BY <2>1, <2>2, <2>3, <2>5 DEF Value, merged
  <1>6. QED BY <1>4, <1>5

LEMMA PatchedFields ==
    ASSUME NEW r, NEW patch, Plain(patch), NEW f \in DOMAIN r \ Nested
    PROVE  /\ f # "nextRunAt" => \A e : Value(MergePatch(r, patch), f, e) = Value(patch, f, r[f])
           /\ f = "nextRunAt" =>
                 \A e : Value(MergePatch(r, patch), f, e) =
                            IF Value(patch, f, "") = Null THEN e ELSE Value(patch, f, r[f])
  <1> DEFINE merged == MergePatch(r, patch)
  <1>1. f \in DOMAIN merged <=> Value(patch, f, "") # Null
    BY DEF MergePatch, Left
  <1>2. f \in DOMAIN merged => merged[f] = IF f \in DOMAIN patch THEN patch[f] ELSE r[f]
    BY DEF MergePatch
  <1>3. f # "nextRunAt" => Value(patch, f, "") # Null
    BY CronJobSpecAssumption DEF Plain, Value
  <1> HIDE DEF merged
  <1>4. QED BY <1>1, <1>2, <1>3 DEF Value, merged

LEMMA EditedExactly ==
    ASSUME NEW j, NEW patch, Plain(patch), Accepts(j, TRUE)
    PROVE  EditIsExact(j, patch)
  <1> DEFINE old    == Job(j)
             r      == JobToJson(old)
             merged == MergePatch(r, patch)
             field  == IF PayloadKind(merged) = "systemEvent" THEN "text" ELSE "message"
             part(p, f, was) == Value(Part(patch, p), f, was)
             edited(f) ==
                CASE f \in {"kind", "at", "everyMs", "expr"} -> part("schedule", f, old[f])
                  [] f = "payloadKind" -> part("payload", "kind", old[f])
                  [] f = "text"        -> part("payload", field, old[f])
                  [] f = "delivery"    -> part("delivery", "mode", old[f])
                  [] f = "nextRunAt"   -> IF Value(patch, f, "") = Null THEN "first"
                                          ELSE Value(patch, f, old[f])
                  [] OTHER             -> Value(patch, f, old[f])
  <1>1. old.sessionTarget # "" /\ old.payloadKind # "" /\ old.text # ""
    BY DEF Accepts
  <1> HIDE DEF edited
  <1>2. /\ Part(r, "schedule") = [kind |-> old.kind, at |-> old.at, everyMs |-> old.everyMs,
                                  expr |-> old.expr]
        /\ Part(r, "payload") = [kind |-> old.payloadKind, text |-> old.text, message |-> old.text]
        /\ Part(r, "delivery") = [mode |-> old.delivery]
        /\ DOMAIN r = {"schedule", "kind", "at", "everyMs", "cron", "sessionTarget",
                       "sessionKey", "payload", "message", "wakeMode", "delivery", "enabled",
                       "deleteAfterRun", "nextRunAt"}
        /\ Object("delivery", r) /\ Object("schedule", r) /\ Object("payload", r)
        /\ r.sessionTarget = old.sessionTarget /\ r.sessionKey = old.sessionKey
        /\ r.message = old.text /\ r.wakeMode = old.wakeMode /\ r.enabled = old.enabled
        /\ r.deleteAfterRun = old.deleteAfterRun /\ r.nextRunAt = old.nextRunAt
    <2> HIDE DEF old, merged, field, part
    <2>1. QED BY WrittenFields
  <1> HIDE DEF old, r, merged, field
  <1>3. \A n \in Nested : n \in DOMAIN r /\ r[n] = Part(r, n) /\ r[n] # NotObject
    BY <1>2 DEF Nested, Part, Object
  <1>4. ASSUME NEW n \in Nested, "kind" \in DOMAIN r[n] \/ "mode" \in DOMAIN r[n]
        PROVE  /\ \A g \in DOMAIN r[n] : \A e : Value(Part(merged, n), g, e) = part(n, g, r[n][g])
               /\ \A g \in DOMAIN r[n] : r[n][g] # "" => part(n, g, r[n][g]) # ""
    <2>1. /\ n \in Nested \cap DOMAIN r
          /\ "kind" \in DOMAIN Part(r, n) \/ "mode" \in DOMAIN Part(r, n)
          /\ Part(r, n) = r[n] /\ r[n] # NotObject
      BY <1>3, <1>4
    <2>2. /\ \A g \in DOMAIN r[n] : \A e :
                Value(Part(MergePatch(r, patch), n), g, e) = Value(Part(patch, n), g, r[n][g])
          /\ \A g \in DOMAIN r[n] : r[n][g] # "" => Value(Part(patch, n), g, r[n][g]) # ""
      <3> HIDE DEF merged, part
      <3>1. QED BY <2>1, OverlaidParts
    <2>3. QED BY <2>2 DEF merged
  <1>5. \A g \in {"kind", "at", "everyMs", "expr"} : \A e :
            Value(Part(merged, "schedule"), g, e) = part("schedule", g, old[g])
    <2>1. r["schedule"] = [kind |-> old.kind, at |-> old.at, everyMs |-> old.everyMs,
                           expr |-> old.expr]
      BY <1>2, <1>3 DEF Nested
    <2> DEFINE s == r["schedule"]
    <2>2. DOMAIN s = {"kind", "at", "everyMs", "expr"} /\ \A g \in DOMAIN s : s[g] = old[g]
      BY <2>1
    <2> HIDE DEF s, part
    <2>3. QED BY <1>4, <2>2 DEF s, Nested
  <1>6. \A e : /\ Value(Part(merged, "payload"), "kind", e) = part("payload", "kind", old.payloadKind)
               /\ Value(Part(merged, "payload"), "text", e) = part("payload", "text", old.text)
               /\ Value(Part(merged, "payload"), "message", e) = part("payload", "message", old.text)
               /\ part("payload", "kind", old.payloadKind) # ""
               /\ part("payload", "text", old.text) # "" /\ part("payload", "message", old.text) # ""
    <2> DEFINE p == r["payload"]
    <2>1. p = [kind |-> old.payloadKind, text |-> old.text, message |-> old.text]
      BY <1>2, <1>3 DEF Nested
    <2>2. /\ DOMAIN p = {"kind", "text", "message"}
          /\ p["kind"] = old.payloadKind /\ p["text"] = old.text /\ p["message"] = old.text
      BY <2>1
    <2> HIDE DEF p, part
    <2>3. QED BY <1>1, <1>4, <2>2 DEF p, Nested
  <1>7. \A e : Value(Part(merged, "delivery"), "mode", e) = part("delivery", "mode", old.delivery)
    <2> DEFINE d == r["delivery"]
    <2>1. d = [mode |-> old.delivery]
      BY <1>2, <1>3 DEF Nested
    <2>2. DOMAIN d = {"mode"} /\ d["mode"] = old.delivery
      BY <2>1
    <2> HIDE DEF d, part
    <2>3. QED BY <1>4, <2>2 DEF d, Nested
  <1>8. \A e : /\ Value(merged, "sessionTarget", e) = Value(patch, "sessionTarget", old.sessionTarget)
               /\ Value(merged, "sessionKey", e) = Value(patch, "sessionKey", old.sessionKey)
               /\ Value(merged, "wakeMode", e) = Value(patch, "wakeMode", old.wakeMode)
               /\ Value(merged, "enabled", e) = Value(patch, "enabled", old.enabled)
               /\ Value(merged, "deleteAfterRun", e) =
                      Value(patch, "deleteAfterRun", old.deleteAfterRun)
               /\ Value(merged, "nextRunAt", e) =
                      IF Value(patch, "nextRunAt", "") = Null THEN e
                      ELSE Value(patch, "nextRunAt", old.nextRunAt)
    <2>1. {"sessionTarget", "sessionKey", "wakeMode", "enabled", "deleteAfterRun", "nextRunAt"}
              \subseteq DOMAIN r \ Nested
      BY <1>2 DEF Nested
    <2>2. ASSUME NEW f \in {"sessionTarget", "sessionKey", "wakeMode", "enabled", "deleteAfterRun"}
          PROVE  \A e : Value(merged, f, e) = Value(patch, f, r[f])
      <3>1. f \in DOMAIN r \ Nested /\ f # "nextRunAt"
        BY <2>1
      <3> HIDE DEF part
      <3>2. QED BY <3>1, PatchedFields DEF merged
    <2>3. \A e : Value(merged, "nextRunAt", e) =
                     IF Value(patch, "nextRunAt", "") = Null THEN e
                     ELSE Value(patch, "nextRunAt", r["nextRunAt"])
      BY <2>1, PatchedFields DEF merged
    <2>4. QED BY <1>2, <2>2, <2>3
  <1>9. Target(merged) = Value(patch, "sessionTarget", old.sessionTarget)
    <2>1. Value(patch, "sessionTarget", old.sessionTarget) # ""
      BY <1>1 DEF Plain, Value
    <2>2. QED BY <1>8, <2>1 DEF Target, FirstOf
  <1> HIDE DEF part
  <1>10. PayloadKind(merged) = part("payload", "kind", old.payloadKind)
    BY <1>6 DEF PayloadKind, FirstOf
  <1>11. Text(merged) = part("payload", field, old.text)
    <2>1. CASE PayloadKind(merged) = "systemEvent"
      BY <1>6, <2>1 DEF Text, FirstOf, field
    <2>2. CASE PayloadKind(merged) # "systemEvent"
      BY <1>6, <2>2 DEF Text, FirstOf, field
    <2>3. QED BY <2>1, <2>2
  <1>12. /\ Job(merged).kind = part("schedule", "kind", old.kind)
         /\ Job(merged).at = part("schedule", "at", old.at)
         /\ Job(merged).everyMs = part("schedule", "everyMs", old.everyMs)
         /\ Job(merged).expr = part("schedule", "expr", old.expr)
    <2>1. \A flat, e : /\ Schedule(merged, "kind", flat, e) = part("schedule", "kind", old["kind"])
                       /\ Schedule(merged, "at", flat, e) = part("schedule", "at", old["at"])
                       /\ Schedule(merged, "everyMs", flat, e) = part("schedule", "everyMs", old["everyMs"])
                       /\ Schedule(merged, "expr", flat, e) = part("schedule", "expr", old["expr"])
      BY <1>5 DEF Schedule
    <2>2. QED BY <2>1, JobFields
  <1>13. /\ Job(merged).sessionTarget = Value(patch, "sessionTarget", old.sessionTarget)
         /\ Job(merged).payloadKind = part("payload", "kind", old.payloadKind)
         /\ Job(merged).text = part("payload", field, old.text)
         /\ Job(merged).sessionKey = Value(patch, "sessionKey", old.sessionKey)
         /\ Job(merged).wakeMode = Value(patch, "wakeMode", old.wakeMode)
         /\ Job(merged).delivery = part("delivery", "mode", old.delivery)
         /\ Job(merged).enabled = Value(patch, "enabled", old.enabled)
         /\ Job(merged).deleteAfterRun = Value(patch, "deleteAfterRun", old.deleteAfterRun)
         /\ Job(merged).nextRunAt = IF Value(patch, "nextRunAt", "") = Null THEN "first"
                                    ELSE Value(patch, "nextRunAt", old.nextRunAt)
    <2>1. /\ Job(merged).sessionTarget = Target(merged)
          /\ Job(merged).payloadKind = PayloadKind(merged)
          /\ Job(merged).text = Text(merged)
      BY JobFields
    <2>2. \E e : Job(merged).sessionKey = Value(merged, "sessionKey", e)
      BY JobFields
    <2>3. \E e : Job(merged).wakeMode = Value(merged, "wakeMode", e)
      BY JobFields
    <2>4. \E e : Job(merged).delivery = Value(Part(merged, "delivery"), "mode", e)
      BY JobFields
    <2>5. \E e : Job(merged).enabled = Value(merged, "enabled", e)
      BY JobFields
    <2>6. \E e : Job(merged).deleteAfterRun = Value(merged, "deleteAfterRun", e)
      BY JobFields
    <2>7. Job(merged).nextRunAt = Value(merged, "nextRunAt", "first")
      BY JobFields
    <2>8. QED
      BY <1>7, <1>8, <1>9, <1>10, <1>11, <2>1, <2>2, <2>3, <2>4, <2>5, <2>6, <2>7
  <1>14. /\ DOMAIN old = {"kind", "at", "everyMs", "expr", "sessionTarget", "payloadKind", "text",
                          "sessionKey", "wakeMode", "delivery", "enabled", "deleteAfterRun",
                          "nextRunAt"}
         /\ DOMAIN Job(merged) = DOMAIN old
    BY JobFields DEF old
  <1>15. \A f \in DOMAIN old : Job(merged)[f] = edited(f)
    <2> DEFINE new == Job(merged)
    <2> HIDE DEF new
    <2>1. ASSUME NEW f \in {"kind", "at", "everyMs", "expr"} PROVE new[f] = edited(f)
      BY <1>12 DEF new, edited
    <2>2. new["payloadKind"] = edited("payloadKind") /\ new["text"] = edited("text")
      BY <1>13 DEF new, edited
    <2>3. new["delivery"] = edited("delivery") /\ new["nextRunAt"] = edited("nextRunAt")
      BY <1>13 DEF new, edited
    <2>4. ASSUME NEW f \in {"sessionTarget", "sessionKey", "wakeMode", "enabled", "deleteAfterRun"}
          PROVE  new[f] = edited(f)
      BY <1>13 DEF new, edited
    <2>5. QED BY <1>14, <2>1, <2>2, <2>3, <2>4 DEF new
  <1>16. Job(merged) = [f \in DOMAIN old |-> edited(f)]
    <2>1. Job(merged) = [f \in DOMAIN Job(merged) |-> Job(merged)[f]]
      BY DEF Job
    <2> DEFINE new == Job(merged)
    <2> HIDE DEF new
    <2>2. QED BY <1>14, <1>15, <2>1 DEF new
  <1>17. QED BY <1>16 DEF EditIsExact, old, r, merged, field, part, edited

LEMMA PatchesArePlain == ASSUME NEW patch \in Patches PROVE Plain(patch)
  <1>1. \A f \in DOMAIN patch : patch[f] = Null => f = "nextRunAt"
    BY PatchesAssumption
  <1>2. Value(patch, "sessionTarget", "main") # ""
    <2>1. "sessionTarget" \in DOMAIN patch => patch["sessionTarget"] \in {"isolated", "main"}
      BY DEF Patches
    <2>2. QED BY <2>1 DEF Value
  <1>3. ASSUME NEW f \in DOMAIN patch \cap Nested
        PROVE  patch[f] # NotObject /\ \A g \in DOMAIN patch[f] : patch[f][g] # ""
    <2>1. patch[f] \in {[kind |-> "cron", expr |-> "t2"], [at |-> "t2"], [text |-> "new"],
                        [message |-> "new"], [mode |-> "none"], [kind |-> "agentTurn"],
                        [kind |-> "systemEvent", text |-> "new"]}
      BY <1>3 DEF Patches, Nested
    <2> DEFINE v == patch[f]
    <2> HIDE DEF v
    <2>2. DOMAIN v \subseteq {"kind", "expr", "at", "text", "message", "mode"}
      BY <2>1 DEF v
    <2>3. \A g \in DOMAIN v : v[g] \in {"cron", "t2", "new", "none", "agentTurn", "systemEvent"}
      BY <2>1 DEF v
    <2>4. "not an object" \notin DOMAIN v /\ \A g \in DOMAIN v : v[g] # ""
      BY <2>2, <2>3
    <2>5. "not an object" \in DOMAIN NotObject
      BY DEF NotObject
    <2>6. QED BY <2>4, <2>5 DEF v
  <1>4. QED BY <1>1, <1>2, <1>3, PatchesAssumption DEF Plain

\* Any JSON object that is accepted as a job is the same job when jobs.json is
\* read again, held to the contract of addJob or not, and any plain patch of it
\* changes what it names and nothing else (parseJobSpec, jobToJson, mergePatch):
\* so for whatever fields and values j and patch have, and with that for the
\* specs and patches that the property enumerates.
THEOREM JobsStayTheSame ==
    /\ \A j : ReadBack(j, TRUE) /\ ReadBack(j, FALSE)
    /\ \A j, patch : Plain(patch) => EditIsExact(j, patch)
    /\ MCSpec => []JobsKeepTheirSpec
  <1>1. \A j : ReadBack(j, TRUE) /\ ReadBack(j, FALSE)
    BY ReadsBack DEF ReadBack
  <1>2. ASSUME NEW j, NEW patch, Plain(patch) PROVE EditIsExact(j, patch)
    <2>1. ~Accepts(j, TRUE) => EditIsExact(j, patch)
      BY DEF EditIsExact
    <2>2. QED BY <1>2, <2>1, EditedExactly
  <1>3. JobsKeepTheirSpec
    BY <1>1, <1>2, PatchesArePlain DEF JobsKeepTheirSpec
  <1>4. MCSpec => []JobsKeepTheirSpec
    BY <1>3, PTL
  <1>5. QED BY <1>1, <1>2, <1>4
=============================================================================
