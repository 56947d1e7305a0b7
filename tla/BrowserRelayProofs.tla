------------------------ MODULE BrowserRelayProofs ------------------------
(***************************************************************************)
(* Proofs about BrowserRelay, for every set of processes, every site (urls,*)
(* their elements, forms and outcomes) and every value of the bounds.      *)
(*                                                                         *)
(* Every request but a few rebuilds the refs of its target, some more than *)
(* once.  So the proof has three layers: what a rebuild does to the refs   *)
(* of a target (RebuiltFacts), that any chain of rebuilds does the same    *)
(* (FollowsTransitive), and that a request saves a state whose targets are *)
(* sound and whose active target exists (IInv).                            *)
(***************************************************************************)
EXTENDS BrowserRelay, FiniteSetTheorems, WellFoundedInduction, TLAPS

-----------------------------------------------------------------------------
(* The largest of a set of numbers, and its ends as keys of a map.         *)

\* A nonempty set of naturals has a least element.
LEMMA HasLeast ==
    ASSUME NEW S, S \subseteq Nat, S # {}
    PROVE  \E x \in S : \A y \in S : x <= y
<1>1. \E x \in S : \A y \in S : ~ (<<y, x>> \in OpToRel(<, Nat))
    BY NatLessThanWellFounded, WFMin
<1>2. PICK x \in S : \A y \in S : ~ (<<y, x>> \in OpToRel(<, Nat))
    BY <1>1
<1>3. ASSUME NEW y \in S PROVE x <= y
    <2>1. ~ (<<y, x>> \in OpToRel(<, Nat))
        BY <1>2
    <2>2. x \in Nat /\ y \in Nat
        OBVIOUS
    <2>3. ~ (y < x)
        BY <2>1, <2>2 DEF OpToRel
    <2> QED
        BY <2>2, <2>3
<1> QED
    BY <1>3

\* Largest returns the greatest element of a nonempty bounded set of naturals.
LEMMA LargestFacts ==
    ASSUME NEW b \in Nat, NEW S, S \subseteq 0 .. b, S # {}
    PROVE  Largest(S) \in S /\ \A y \in S : y <= Largest(S)
<1> DEFINE T == {b - x : x \in S}
<1>0. \A x \in S : x \in 0 .. b /\ b - x \in Nat
    OBVIOUS
<1>1. T \subseteq Nat /\ T # {}
    BY <1>0
<1>2. PICK m \in T : \A z \in T : m <= z
    BY <1>1, HasLeast
<1>3. PICK x \in S : m = b - x
    BY <1>2
<1>4. ASSUME NEW y \in S PROVE y <= x
    <2>1. b - y \in T
        OBVIOUS
    <2>2. b - x <= b - y
        BY <1>2, <1>3, <2>1
    <2> HIDE DEF T
    <2> QED
        BY <1>0, <2>2
<1> QED
    BY <1>4 DEF Largest

\* FirstKey returns one of the ids.
LEMMA FirstKeyFacts ==
    ASSUME NEW S, S \subseteq Ids, S # {}
    PROVE  FirstKey(S) \in S
<1> DEFINE T == {MapOrder[x] : x \in S}
<1>1. T \subseteq Nat /\ T # {}
    BY BrowserAssumption
<1>2. PICK m \in T : \A z \in T : m <= z
    BY <1>1, HasLeast
<1>3. \E x \in S : \A y \in S : MapOrder[x] <= MapOrder[y]
    BY <1>2
<1> QED
    BY <1>3 DEF FirstKey

\* LastKey returns one of the refs.
LEMMA LastKeyFacts ==
    ASSUME NEW S, S \subseteq 1 .. MaxRef, S # {}
    PROVE  LastKey(S) \in S
<1> DEFINE b == MaxTargets + MaxRef
           T == {b - MapOrder[x] : x \in S}
<1>0. \A x \in S : MapOrder[x] \in 0 .. b
    BY BrowserAssumption
<1>1. b \in Nat
    BY BrowserAssumption
<1> HIDE DEF b
<1>2. T \subseteq Nat /\ T # {}
    <2>1. ASSUME NEW x \in S PROVE b - MapOrder[x] \in Nat
        <3>1. MapOrder[x] \in 0 .. b
            BY <1>0
        <3> QED
            BY <1>1, <3>1
    <2> QED
        BY <2>1
<1>3. PICK m \in T : \A z \in T : m <= z
    BY <1>2, HasLeast
<1>4. PICK x \in S : m = b - MapOrder[x]
    BY <1>3
<1>5. ASSUME NEW y \in S PROVE MapOrder[y] <= MapOrder[x]
    <2>1. b - MapOrder[y] \in T
        OBVIOUS
    <2>2. b - MapOrder[x] <= b - MapOrder[y]
        BY <1>3, <1>4, <2>1
    <2> HIDE DEF T
    <2> QED
        BY <1>0, <1>1, <2>2
<1> QED
    BY <1>5 DEF LastKey

-----------------------------------------------------------------------------
(* What a rebuild does.                                                    *)

\* What every target is at the end of a request too, before the bound of the
\* model on refs is looked at: its numbers are positive and bounded, and a
\* typed value is where it was typed.
Sound(t) ==
    /\ DOMAIN t = {"url", "html", "refs", "forms", "typed"}
    /\ t.url \in Urls /\ t.html \in BOOLEAN
    /\ \E b \in Nat : DOMAIN t.refs \subseteq 1 .. b
    /\ \A r \in DOMAIN t.refs : t.refs[r] \in Element \cup {Document}
    /\ t.forms \in {Forms[u] : u \in Urls} \cup {<<>>}
    /\ \A r \in DOMAIN t.typed : r \in DOMAIN t.refs /\ t.refs[r].sig = t.typed[r]

\* The target is within the bound on refs, where MapOrder is an order.
Bounded(t) == DOMAIN t.refs \subseteq 1 .. MaxRef

\* The refs new may follow the refs old: a number in both names an element with
\* the same signature, one that is new is above all the old, and the numbers
\* do not fall.
Follows(old, new) ==
    /\ \A r \in DOMAIN old \cap DOMAIN new : new[r].sig = old[r].sig
    /\ \A r \in DOMAIN new \ DOMAIN old : \A q \in DOMAIN old : q < r
    /\ \A q \in DOMAIN old : \E r \in DOMAIN new : q <= r

\* The refs a target may have: finitely many positive numbers.
Numbers(refs) == \E b \in Nat : DOMAIN refs \subseteq 1 .. b

LEMMA FollowsItself ==
    ASSUME NEW refs, Numbers(refs) PROVE Follows(refs, refs)
BY DEF Follows, Numbers

\* Rebuilding twice is no worse than rebuilding once: a number that is gone in
\* between does not come back.
LEMMA FollowsTransitive ==
    ASSUME NEW a, NEW b, NEW c, Numbers(a), Numbers(b), Numbers(c),
           Follows(a, b), Follows(b, c)
    PROVE  Follows(a, c)
<1>0. DOMAIN a \subseteq Nat /\ DOMAIN b \subseteq Nat /\ DOMAIN c \subseteq Nat
    BY DEF Numbers
<1>1. ASSUME NEW r \in DOMAIN a \cap DOMAIN c PROVE c[r].sig = a[r].sig
    <2>1. PICK q \in DOMAIN b : r <= q
        BY DEF Follows
    <2>2. r \in DOMAIN b
        BY <1>0, <2>1 DEF Follows
    <2> QED
        BY <2>2 DEF Follows
<1>2. ASSUME NEW r \in DOMAIN c \ DOMAIN a, NEW q \in DOMAIN a PROVE q < r
    <2>1. CASE r \in DOMAIN b
        BY <2>1 DEF Follows
    <2>2. CASE r \notin DOMAIN b
        <3>1. PICK m \in DOMAIN b : q <= m
            BY DEF Follows
        <3>2. m < r
            BY <2>2 DEF Follows
        <3> QED
            BY <1>0, <3>1, <3>2
    <2> QED
        BY <2>1, <2>2
<1>3. ASSUME NEW q \in DOMAIN a PROVE \E r \in DOMAIN c : q <= r
    <2>1. PICK m \in DOMAIN b : q <= m
        BY DEF Follows
    <2>2. PICK r \in DOMAIN c : m <= r
        BY DEF Follows
    <2> QED
        BY <1>0, <2>1, <2>2
<1> QED
    BY <1>1, <1>2, <1>3 DEF Follows

\* NextRef is a number above every ref there is.
LEMMA NextRefFacts ==
    ASSUME NEW refs, Numbers(refs)
    PROVE  /\ NextRef(refs) \in Nat /\ NextRef(refs) >= 1
           /\ \A r \in DOMAIN refs : r < NextRef(refs)
<1> DEFINE S == {0} \cup DOMAIN refs
<1>1. PICK b \in Nat : DOMAIN refs \subseteq 1 .. b
    BY DEF Numbers
<1>2. S \subseteq 0 .. b /\ S # {}
    BY <1>1
<1>3. Largest(S) \in S /\ \A y \in S : y <= Largest(S)
    BY <1>2, LargestFacts
<1>4. Largest(S) \in Nat
    BY <1>2, <1>3
<1>5. NextRef(refs) = Largest(S) + 1
    BY DEF NextRef
<1> HIDE DEF S
<1>6. \A r \in DOMAIN refs : r \in S /\ r \in Nat
    BY <1>1 DEF S
<1> QED
    BY <1>3, <1>4, <1>5, <1>6

\* What a ref names: an element of a page, or its root.
Named == Element \cup {Document}

\* No ref names anything by the signature the root is looked up with.
LEMMA NoneIsDoc == ASSUME NEW el \in Named PROVE el.sig # "doc"
<1>1. CASE el \in Element
    BY <1>1 DEF Element
<1>2. CASE el = Document
    BY <1>2 DEF Document
<1> QED
    BY <1>1, <1>2 DEF Named

\* A target that has been rebuilt is sound, shows at least the root of its
\* page, and its refs follow those it had.
LEMMA RebuiltFacts ==
    ASSUME NEW t, Sound(t), Bounded(t)
    PROVE  /\ Sound(Rebuilt(t)) /\ DOMAIN Rebuilt(t).refs # {}
           /\ Follows(t.refs, Rebuilt(t).refs)
<1> DEFINE els    == <<Document>> \o Elements[t.url][t.html]
           n      == Len(els)
           same   == [i \in DOMAIN els |-> {r \in DOMAIN t.refs : t.refs[r].sig = Key(els[i])}]
           before(i) == {j \in 1 .. i - 1 : same[j] = {}}
           at     == [i \in DOMAIN els |->
                         IF same[i] # {} THEN LastKey(same[i])
                         ELSE NextRef(t.refs) + Cardinality({j \in 1 .. i - 1 : same[j] = {}})]
           refs   == [r \in {at[i] : i \in DOMAIN els} |->
                         els[Largest({i \in DOMAIN els : at[i] = r})]]
           typed  == TypedKept(t.typed, refs)
           forms  == IF t.html THEN Forms[t.url] ELSE <<>>
           new    == [t EXCEPT !.refs = refs, !.typed = typed, !.forms = forms]
<1>1. Rebuilt(t) = new
    BY DEF Rebuilt
<1>2. Document \in Named
    BY DEF Named
<1>3. els \in Seq(Named) /\ DOMAIN els = 1 .. n /\ n \in Nat /\ n >= 1 /\ els[1] = Document
    <2>1. Elements[t.url][t.html] \in Seq(Named)
        <3>1. Elements[t.url][t.html] \in Seq(Element)
            BY BrowserAssumption DEF Sound
        <3> QED
            BY <3>1 DEF Named
    <2>2. <<Document>> \in Seq(Named) /\ Len(<<Document>>) = 1 /\ <<Document>>[1] = Document
        BY <1>2
    <2> QED
        BY <2>1, <2>2
<1>4. \A i \in 1 .. n : els[i] \in Named
    BY <1>3
<1>5. PICK b \in Nat : DOMAIN t.refs \subseteq 1 .. b
    BY DEF Sound
<1>6. Numbers(t.refs) /\ \A r \in DOMAIN t.refs : t.refs[r] \in Named
    BY DEF Sound, Numbers, Named
<1>7. /\ NextRef(t.refs) \in Nat /\ NextRef(t.refs) >= 1
      /\ \A r \in DOMAIN t.refs : r < NextRef(t.refs)
    BY <1>6, NextRefFacts
<1>8. \A i \in 1 .. n : same[i] = {r \in DOMAIN t.refs : t.refs[r].sig = Key(els[i])}
    BY <1>3
<1>9. \A i \in 1 .. n : at[i] = IF same[i] # {} THEN LastKey(same[i])
                                ELSE NextRef(t.refs) + Cardinality(before(i))
    BY <1>3
<1>10. DOMAIN refs = {at[i] : i \in 1 .. n}
    BY <1>3
<1>11. \A r \in DOMAIN refs : refs[r] = els[Largest({i \in 1 .. n : at[i] = r})]
    BY <1>3
<1> HIDE DEF els, n, same, at, refs
<1>12. ASSUME NEW i \in 1 .. n, same[i] # {}
       PROVE  at[i] \in DOMAIN t.refs /\ t.refs[at[i]].sig = Key(els[i])
    <2>1. same[i] \subseteq DOMAIN t.refs
        BY <1>8
    <2>2. same[i] \subseteq 1 .. MaxRef
        BY <2>1 DEF Bounded
    <2>3. LastKey(same[i]) \in same[i]
        BY <1>12, <2>2, LastKeyFacts
    <2> QED
        BY <1>8, <1>9, <1>12, <2>3
<1>13. ASSUME NEW i \in 1 .. n, same[i] = {}
       PROVE  /\ at[i] \in Nat /\ NextRef(t.refs) <= at[i] /\ at[i] <= NextRef(t.refs) + n
    <2>1. IsFiniteSet(1 .. i - 1) /\ Cardinality(1 .. i - 1) <= n
        <3>1. i - 1 \in Int /\ 1 \in Int /\ i - 1 <= n /\ i \in Int /\ n \in Int /\ i >= 1
            BY <1>3
        <3>2. /\ IsFiniteSet(1 .. i - 1)
              /\ Cardinality(1 .. i - 1) = IF 1 > i - 1 THEN 0 ELSE i - 1 - 1 + 1
            BY <3>1, FS_Interval
        <3> QED
            BY <3>1, <3>2, <1>3
    <2>2. before(i) \in SUBSET (1 .. i - 1)
        OBVIOUS
    <2>3. IsFiniteSet(before(i)) /\ Cardinality(before(i)) <= Cardinality(1 .. i - 1)
        BY <2>1, <2>2, FS_Subset
    <2>4. Cardinality(before(i)) \in Nat /\ Cardinality(1 .. i - 1) \in Nat
        BY <2>1, <2>3, FS_CardinalityType
    <2>5. at[i] = NextRef(t.refs) + Cardinality(before(i))
        BY <1>9, <1>13
    <2> HIDE DEF before
    <2> QED
        BY <1>3, <1>7, <2>1, <2>3, <2>4, <2>5
\* Each number names an element that took it: the last that did.
<1>14. ASSUME NEW r \in DOMAIN refs
       PROVE  \E k \in 1 .. n : at[k] = r /\ refs[r] = els[k]
    <2> DEFINE S == {i \in 1 .. n : at[i] = r}
    <2>1. S \subseteq 0 .. n /\ S # {} /\ n \in Nat
        BY <1>3, <1>10
    <2>2. Largest(S) \in S
        BY <2>1, LargestFacts
    <2>3. refs[r] = els[Largest(S)]
        BY <1>11
    <2> QED
        BY <2>2, <2>3
<1>15. ASSUME NEW r \in DOMAIN refs, r \in DOMAIN t.refs
       PROVE  refs[r].sig = t.refs[r].sig
    <2>1. PICK k \in 1 .. n : at[k] = r /\ refs[r] = els[k]
        BY <1>14
    <2>2. same[k] # {}
        BY <1>5, <1>7, <1>13, <1>15, <2>1
    <2>3. t.refs[r].sig = Key(els[k])
        BY <1>12, <2>1, <2>2
    <2>4. t.refs[r].sig # "doc"
        BY <1>6, <1>15, NoneIsDoc
    <2> QED
        BY <2>1, <2>3, <2>4 DEF Key
<1>16. ASSUME NEW r \in DOMAIN refs, r \notin DOMAIN t.refs
       PROVE  NextRef(t.refs) <= r
    <2>1. PICK k \in 1 .. n : at[k] = r
        BY <1>14
    <2> QED
        BY <1>12, <1>13, <1>16, <2>1
\* No ref is kept as "doc", so that the root takes a new number.
<1>17. at[1] \in DOMAIN refs /\ at[1] >= NextRef(t.refs) /\ at[1] \in Nat
    <2>1. 1 \in 1 .. n
        BY <1>3
    <2>2. Key(els[1]) = "doc"
        BY <1>3 DEF Key
    <2>3. same[1] = {}
        BY <1>6, <1>8, <2>1, <2>2, NoneIsDoc
    <2> QED
        BY <1>10, <1>13, <2>1, <2>3
<1>18. \A r \in DOMAIN refs : refs[r] \in Named
    BY <1>4, <1>14
<1>19. DOMAIN refs \subseteq 1 .. (b + NextRef(t.refs) + n)
    <2>1. ASSUME NEW i \in 1 .. n PROVE at[i] \in 1 .. (b + NextRef(t.refs) + n)
        <3>1. CASE same[i] = {}
            BY <1>3, <1>5, <1>7, <1>13, <3>1
        <3>2. CASE same[i] # {}
            BY <1>3, <1>5, <1>7, <1>12, <3>2
        <3> QED
            BY <3>1, <3>2
    <2> QED
        BY <1>10, <2>1
<1>20. Follows(t.refs, refs)
    <2>1. \A q \in DOMAIN t.refs : q \in Nat
        BY <1>5
    <2>2. \A r \in DOMAIN refs : r \in Nat
        BY <1>19
    <2>3. \A r \in DOMAIN refs \ DOMAIN t.refs : \A q \in DOMAIN t.refs : q < r
        BY <1>7, <1>16, <2>1, <2>2
    <2>4. \A q \in DOMAIN t.refs : \E r \in DOMAIN refs : q <= r
        BY <1>7, <1>17, <2>1
    <2> QED
        BY <1>15, <2>3, <2>4 DEF Follows
<1>21. /\ DOMAIN typed = DOMAIN t.typed \cap DOMAIN refs
       /\ \A r \in DOMAIN typed : typed[r] = t.typed[r]
    BY DEF TypedKept
<1> HIDE DEF typed
<1>22. \A r \in DOMAIN typed : r \in DOMAIN refs /\ refs[r].sig = typed[r]
    BY <1>15, <1>21 DEF Sound
<1>23. forms \in {Forms[u] : u \in Urls} \cup {<<>>}
    BY DEF Sound
<1> HIDE DEF forms
<1>24. /\ DOMAIN new = {"url", "html", "refs", "forms", "typed"}
       /\ new.url = t.url /\ new.html = t.html /\ new.refs = refs
       /\ new.forms = forms /\ new.typed = typed
    BY DEF Sound
<1>25. t.url \in Urls /\ t.html \in BOOLEAN
    BY DEF Sound
<1> HIDE DEF new
<1>26. \E m \in Nat : DOMAIN refs \subseteq 1 .. m
    <2>1. b + NextRef(t.refs) + n \in Nat
        BY <1>3, <1>7
    <2> QED
        BY <1>19, <2>1
<1>27. Sound(new)
    BY <1>18, <1>22, <1>23, <1>24, <1>25, <1>26 DEF Sound, Named
<1> QED
    BY <1>1, <1>17, <1>20, <1>24, <1>27

\* What a request may make of the target t: a sound target that shows
\* something and whose refs follow those of t.
Successor(t, w) == Sound(w) /\ DOMAIN w.refs # {} /\ Follows(t.refs, w.refs)

\* Going to a page rebuilds the refs from whatever the load gave.
LEMMA VisitsFacts ==
    ASSUME NEW t, Sound(t), Bounded(t), NEW u \in Urls, NEW w \in Visits(t, u)
    PROVE  Successor(t, w)
<1>1. PICK h \in Loads[u] : w = Rebuilt([t EXCEPT !.url = u, !.html = h])
    BY DEF Visits
<1> DEFINE v == [t EXCEPT !.url = u, !.html = h]
<1>2. h \in BOOLEAN
    BY BrowserAssumption
<1>3. /\ DOMAIN v = {"url", "html", "refs", "forms", "typed"}
      /\ v.url = u /\ v.html = h /\ v.refs = t.refs /\ v.forms = t.forms /\ v.typed = t.typed
    BY DEF Sound
<1> HIDE DEF v
<1>4. Sound(v) /\ Bounded(v)
    BY <1>2, <1>3 DEF Sound, Bounded
<1>5. w = Rebuilt(v)
    BY <1>1 DEF v
<1> QED
    BY <1>3, <1>4, <1>5, RebuiltFacts DEF Successor

\* Submitting a form goes to its action, or leaves the target as it is.
LEMMA SubmitsFacts ==
    ASSUME NEW t, Sound(t), Bounded(t), DOMAIN t.refs # {}, NEW f, NEW w \in Submits(t, f)
    PROVE  Successor(t, w)
<1>1. CASE f \in DOMAIN t.forms /\ t.forms[f].method = "get"
    <2>1. t.forms[f].action \in Urls
        <3>1. t.forms # <<>>
            BY <1>1
        <3>2. PICK u \in Urls : t.forms = Forms[u]
            BY <3>1 DEF Sound
        <3> QED
            BY <1>1, <3>2, BrowserAssumption
    <2>2. w \in Visits(t, t.forms[f].action)
        BY <1>1 DEF Submits
    <2> QED
        BY <2>1, <2>2, VisitsFacts
<1>2. CASE ~(f \in DOMAIN t.forms /\ t.forms[f].method = "get")
    <2>1. w = t
        BY <1>2 DEF Submits
    <2>2. Numbers(t.refs)
        BY DEF Sound, Numbers
    <2> QED
        BY <2>1, <2>2, FollowsItself DEF Successor
<1> QED
    BY <1>1, <1>2

\* One rebuild after another.
LEMMA SuccessorTransitive ==
    ASSUME NEW t, NEW v, NEW w, Numbers(t.refs), Successor(t, v), Successor(v, w)
    PROVE  Successor(t, w)
<1>1. Numbers(v.refs) /\ Numbers(w.refs)
    BY DEF Successor, Sound, Numbers
<1> QED
    BY <1>1, FollowsTransitive DEF Successor

\* Noting a value for a ref of the target, for the element the ref names.
LEMMA NotedFacts ==
    ASSUME NEW t, Sound(t), NEW r \in DOMAIN t.refs
    PROVE  LET v == [t EXCEPT !.typed = With(@, r, t.refs[r].sig)]
           IN  Sound(v) /\ v.refs = t.refs /\ v.url = t.url
<1> DEFINE note == With(t.typed, r, t.refs[r].sig)
           v    == [t EXCEPT !.typed = note]
<1>1. /\ DOMAIN note = {r} \cup DOMAIN t.typed
      /\ \A q \in DOMAIN note : note[q] = IF q = r THEN t.refs[r].sig ELSE t.typed[q]
    BY DEF With
<1> HIDE DEF note
<1>2. /\ DOMAIN v = {"url", "html", "refs", "forms", "typed"}
      /\ v.url = t.url /\ v.html = t.html /\ v.refs = t.refs /\ v.forms = t.forms
      /\ v.typed = note
    BY DEF Sound
<1> HIDE DEF v
<1>3. \A q \in DOMAIN note : q \in DOMAIN t.refs /\ t.refs[q].sig = note[q]
    BY <1>1 DEF Sound
<1>4. Sound(v)
    BY <1>2, <1>3 DEF Sound
<1> QED
    BY <1>2, <1>4 DEF v, note

-----------------------------------------------------------------------------
(* What a request saves.                                                   *)

\* The active target, if there is any target, is one of them.
Active(st) == IF DOMAIN st.targets = {} THEN st.last = None ELSE Exists(st, st.last)

\* What every state is that a process saves or reads.
Good(st) ==
    /\ IsState(st) /\ Active(st)
    /\ \A id \in DOMAIN st.targets : Sound(st.targets[id]) /\ DOMAIN st.targets[id].refs # {}

\* In the state new, the refs of every target that is in st too follow.
Keeps(st, new) ==
    \A id \in DOMAIN st.targets \cap DOMAIN new.targets :
       Follows(st.targets[id].refs, new.targets[id].refs)

\* What is in a file that a save writes.
GoodFile(f) == f \in {None, Torn} \/ Good(f)

\* What a request saves is good and keeps the refs of what the request has read.
GoodSave(p) ==
    saving[p] # None =>
       /\ DOMAIN saving[p] = {"state", "into"} /\ saving[p].into \in {"tmp", "file"}
       /\ copy[p] # None /\ Good(saving[p].state) /\ Keeps(copy[p], saving[p].state)

\* The strengthening of the type invariant that is inductive: the files, what
\* has been read from them and what is being saved are good.
IInv ==
    /\ GoodFile(file) /\ GoodFile(tmp)
    /\ DOMAIN copy = Procs /\ DOMAIN saving = Procs
    /\ \A p \in Procs : (copy[p] = None \/ Good(copy[p])) /\ GoodSave(p)
    /\ requests \in 0 .. MaxRequests
    /\ wait \in [target : Ids, text : Texts, gone : BOOLEAN, seen : BOOLEAN] \cup {None}

\* The request of p saves a good state that keeps the refs of what it read.
SavesGood(p) == \E st : Saves(p, st) /\ Good(st) /\ Keeps(copy[p], st)

LEMMA KeepsItself == ASSUME NEW st, Good(st) PROVE Keeps(st, st)
<1>1. \A id \in DOMAIN st.targets : Numbers(st.targets[id].refs)
    BY DEF Good, Sound, Numbers
<1> QED
    BY <1>1, FollowsItself DEF Keeps

\* A sound target within the bound on refs is well typed.
LEMMA SoundIsTarget ==
    ASSUME NEW t, Sound(t), DOMAIN t.refs \subseteq 1 .. MaxRef
    PROVE  IsTarget(t)
BY DEF Sound, IsTarget

\* A good state stays good when a target of it gives way to a successor.
LEMMA PutFacts ==
    ASSUME NEW st, Good(st), NEW id \in DOMAIN st.targets, NEW t,
           Successor(st.targets[id], t), DOMAIN t.refs \subseteq 1 .. MaxRef
    PROVE  Good(Put(st, id, t)) /\ Keeps(st, Put(st, id, t))
<1> DEFINE targets == With(st.targets, id, t)
           new     == [st EXCEPT !.last = id, !.targets = targets]
<1>1. Put(st, id, t) = new
    BY DEF Put
<1>2. /\ DOMAIN targets = DOMAIN st.targets
      /\ \A i \in DOMAIN targets : targets[i] = IF i = id THEN t ELSE st.targets[i]
    BY DEF With
<1> HIDE DEF targets
<1>3. /\ DOMAIN new = {"counter", "last", "targets"}
      /\ new.counter = st.counter /\ new.last = id /\ new.targets = targets
    BY DEF Good, IsState
<1> HIDE DEF new
<1>4. IsTarget(t) /\ Sound(t) /\ DOMAIN t.refs # {}
    BY SoundIsTarget DEF Successor
<1>5. id \in Ids
    BY BrowserAssumption DEF Good, IsState, Ids
<1>6. IsState(new)
    BY <1>2, <1>3, <1>4, <1>5 DEF Good, IsState
<1>7. Active(new)
    BY <1>2, <1>3 DEF Active, Exists
<1>8. \A i \in DOMAIN new.targets : Sound(new.targets[i]) /\ DOMAIN new.targets[i].refs # {}
    BY <1>2, <1>3, <1>4 DEF Good
<1>9. Keeps(st, new)
    <2> SUFFICES ASSUME NEW i \in DOMAIN st.targets
                 PROVE  Follows(st.targets[i].refs, new.targets[i].refs)
        BY DEF Keeps
    <2>1. CASE i = id
        BY <1>2, <1>3, <2>1 DEF Successor
    <2>2. CASE i # id
        BY <1>2, <1>3, <2>2, KeepsItself DEF Keeps
    <2> QED
        BY <2>1, <2>2
<1> QED
    BY <1>1, <1>6, <1>7, <1>8, <1>9 DEF Good

\* ... and when another target is made the last one used.
LEMMA UseFacts ==
    ASSUME NEW st, Good(st), NEW id \in DOMAIN st.targets
    PROVE  Good(Use(st, id)) /\ Keeps(st, Use(st, id))
<1> DEFINE new == [st EXCEPT !.last = id]
<1>1. /\ DOMAIN new = {"counter", "last", "targets"}
      /\ new.counter = st.counter /\ new.last = id /\ new.targets = st.targets
    BY DEF Good, IsState
<1>2. Use(st, id) = new
    BY DEF Use
<1> HIDE DEF new
<1>3. id \in Ids
    BY BrowserAssumption DEF Good, IsState, Ids
<1>4. IsState(new)
    BY <1>1, <1>3 DEF Good, IsState
<1>5. Active(new)
    BY <1>1 DEF Active, Exists
<1>6. Good(new)
    BY <1>1, <1>4, <1>5 DEF Good
<1>7. Keeps(st, new)
    BY <1>1, KeepsItself DEF Keeps
<1> QED
    BY <1>2, <1>6, <1>7

\* A request on a target saves a good state when it makes a successor of it.
LEMMA OnTargetFacts ==
    ASSUME NEW p, NEW id, NEW after, Good(copy[p]),
           OnTarget(p, id, after),
           \A t \in after : Successor(copy[p].targets[id], t)
    PROVE  SavesGood(p)
<1>1. PICK t \in after : DOMAIN t.refs \subseteq 1 .. MaxRef /\ Saves(p, Put(copy[p], id, t))
    BY DEF OnTarget
<1>2. id \in DOMAIN copy[p].targets
    BY DEF OnTarget, Exists
<1> QED
    BY <1>1, <1>2, PutFacts DEF SavesGood

-----------------------------------------------------------------------------
(* Every request, from what it has read.                                   *)

\* The target of a good state that exists.
LEMMA TargetFacts ==
    ASSUME NEW st, Good(st), NEW id, Exists(st, id)
    PROVE  /\ id \in DOMAIN st.targets /\ id \in Ids /\ id \in Nat
           /\ Sound(st.targets[id]) /\ DOMAIN st.targets[id].refs # {}
           /\ Numbers(st.targets[id].refs) /\ Bounded(st.targets[id])
<1>1. id \in DOMAIN st.targets
    BY DEF Exists
<1>2. Sound(st.targets[id]) /\ DOMAIN st.targets[id].refs # {}
    BY <1>1 DEF Good
<1>3. id \in Ids /\ id \in Nat
    BY <1>1, BrowserAssumption DEF Good, IsState, Ids
<1>4. Bounded(st.targets[id])
    BY <1>1 DEF Good, IsState, IsTarget, Bounded
<1> QED
    BY <1>1, <1>2, <1>3, <1>4 DEF Sound, Numbers

\* A new target gets a number that no target of the state has.
LEMMA OpenFacts ==
    ASSUME NEW p, NEW u \in Urls, Good(copy[p]), Open(p, u)
    PROVE  SavesGood(p)
<1> DEFINE st    == copy[p]
           id    == st.counter + 1
           blank == [url |-> u, html |-> FALSE, refs |-> <<>>, forms |-> <<>>, typed |-> <<>>]
           next  == [st EXCEPT !.counter = id]
<1>1. PICK t \in Visits(blank, u) :
         DOMAIN t.refs \subseteq 1 .. MaxRef /\ Saves(p, Put(next, id, t))
    BY DEF Open
<1>2. Sound(blank) /\ Bounded(blank)
    <2>1. DOMAIN <<>> = {} /\ {} \subseteq 1 .. 0 /\ 0 \in Nat
        OBVIOUS
    <2> QED
        BY <2>1 DEF Sound, Bounded
<1>3. Sound(t) /\ DOMAIN t.refs # {} /\ IsTarget(t)
    <2> HIDE DEF blank
    <2> QED
        BY <1>1, <1>2, VisitsFacts, SoundIsTarget DEF Successor
<1>4. st.counter \in Nat /\ st.counter < MaxTargets /\ id \in Ids
    BY BrowserAssumption DEF Open, Good, IsState, Ids
<1> DEFINE targets == With(st.targets, id, t)
           new     == [next EXCEPT !.last = id, !.targets = targets]
<1>5. /\ DOMAIN targets = {id} \cup DOMAIN st.targets
      /\ \A i \in DOMAIN targets : targets[i] = IF i = id THEN t ELSE st.targets[i]
    BY DEF With
<1>6. Put(next, id, t) = new
    <2>1. next.targets = st.targets
        BY DEF Good, IsState
    <2> HIDE DEF next
    <2> QED
        BY <2>1 DEF Put
<1> HIDE DEF targets
<1>7. /\ DOMAIN new = {"counter", "last", "targets"}
      /\ new.counter = id /\ new.last = id /\ new.targets = targets
    BY DEF Good, IsState
<1> HIDE DEF new
<1>8. DOMAIN st.targets \subseteq 1 .. st.counter
    BY DEF Good, IsState
<1>9. IsState(new)
    <2>1. DOMAIN targets \subseteq 1 .. id /\ id \in 0 .. MaxTargets
        BY <1>4, <1>5, <1>8, BrowserAssumption DEF Ids
    <2>2. \A i \in DOMAIN targets : IsTarget(targets[i])
        BY <1>3, <1>5 DEF Good, IsState
    <2> HIDE DEF id
    <2> QED
        BY <1>4, <1>7, <2>1, <2>2 DEF IsState
<1>10. Active(new)
    <2> HIDE DEF id
    <2> QED
        BY <1>5, <1>7 DEF Active, Exists
<1>11. \A i \in DOMAIN new.targets : Sound(new.targets[i]) /\ DOMAIN new.targets[i].refs # {}
    <2> HIDE DEF id
    <2> QED
        BY <1>3, <1>5, <1>7 DEF Good
<1>12. Keeps(st, new)
    <2>1. \A i \in DOMAIN st.targets : i # id
        BY <1>4, <1>8
    <2>2. Keeps(st, st)
        BY KeepsItself
    <2> HIDE DEF id
    <2> QED
        BY <1>5, <1>7, <2>1, <2>2 DEF Keeps
<1>13. Saves(p, new) /\ Good(new)
    BY <1>1, <1>6, <1>9, <1>10, <1>11 DEF Good
<1> QED
    BY <1>12, <1>13 DEF SavesGood

LEMMA NavigateFacts ==
    ASSUME NEW p, NEW id, NEW u \in Urls, Good(copy[p]), Navigate(p, id, u)
    PROVE  SavesGood(p)
<1>1. Exists(copy[p], id)
    BY DEF Navigate, OnTarget
<1>2. Sound(copy[p].targets[id]) /\ Bounded(copy[p].targets[id])
    BY <1>1, TargetFacts
<1>3. \A t \in Visits(copy[p].targets[id], u) : Successor(copy[p].targets[id], t)
    BY <1>2, VisitsFacts
<1> QED
    BY <1>3, OnTargetFacts DEF Navigate

LEMMA SnapshotFacts ==
    ASSUME NEW p, NEW id, Good(copy[p]), Snapshot(p, id)
    PROVE  SavesGood(p)
<1> DEFINE st == copy[p]
           at == IF id = None /\ ~Exists(st, st.last) /\ DOMAIN st.targets # {}
                 THEN FirstKey(DOMAIN st.targets) ELSE OrLast(st, id)
<1>1. OnTarget(p, at, {Rebuilt(st.targets[at])})
    BY DEF Snapshot
<1> HIDE DEF at
<1>2. Exists(st, at)
    BY <1>1 DEF OnTarget
<1>3. Sound(st.targets[at]) /\ Bounded(st.targets[at])
    BY <1>2, TargetFacts
<1>4. Successor(st.targets[at], Rebuilt(st.targets[at]))
    BY <1>3, RebuiltFacts DEF Successor
<1> QED
    BY <1>1, <1>4, OnTargetFacts

LEMMA ClickFacts ==
    ASSUME NEW p, NEW id, NEW r, Good(copy[p]), Click(p, id, r)
    PROVE  SavesGood(p)
<1> DEFINE t     == copy[p].targets[id]
           el    == t.refs[r]
           after == IF el.submit /\ el.form # None THEN Submits(t, el.form)
                    ELSE IF el.href # None THEN Visits(t, el.href) ELSE {t}
<1>1. Exists(copy[p], id) /\ r \in DOMAIN t.refs /\ OnTarget(p, id, after)
    BY DEF Click
<1>2. Sound(t) /\ DOMAIN t.refs # {} /\ Numbers(t.refs) /\ Bounded(t)
    BY <1>1, TargetFacts
<1>3. el.href \in Urls \cup {None}
    <2>1. el \in Element \cup {Document}
        BY <1>1, <1>2 DEF Sound
    <2> QED
        BY <2>1 DEF Element, Document
<1> HIDE DEF t, el
<1>4. ASSUME NEW w \in after PROVE Successor(t, w)
    <2>1. CASE w \in Submits(t, el.form)
        BY <1>2, <2>1, SubmitsFacts
    <2>2. CASE el.href # None /\ w \in Visits(t, el.href)
        BY <1>2, <1>3, <2>2, VisitsFacts
    <2>3. CASE w = t
        BY <1>2, <2>3, FollowsItself DEF Successor
    <2> QED
        BY <2>1, <2>2, <2>3
<1> HIDE DEF after
<1> QED
    BY <1>1, <1>4, OnTargetFacts DEF t

LEMMA TypeFacts ==
    ASSUME NEW p, NEW id, NEW r, NEW submit, Good(copy[p]), Type(p, id, r, submit)
    PROVE  SavesGood(p)
<1> DEFINE t     == copy[p].targets[id]
           el    == t.refs[r]
           noted == [t EXCEPT !.typed = With(@, r, el.sig)]
           typed == Rebuilt(noted)
           after == IF submit /\ el.form # None THEN Submits(typed, el.form) ELSE {typed}
<1>1. /\ Exists(copy[p], id) /\ r \in DOMAIN t.refs /\ Bounded(typed)
      /\ OnTarget(p, id, after)
    BY DEF Type, Bounded
<1>2. Sound(t) /\ DOMAIN t.refs # {} /\ Numbers(t.refs) /\ Bounded(t)
    BY <1>1, TargetFacts
<1>3. Sound(noted) /\ noted.refs = t.refs /\ Bounded(noted)
    BY <1>1, <1>2, NotedFacts DEF Bounded
<1> HIDE DEF noted
<1>4. Successor(t, typed)
    BY <1>3, RebuiltFacts DEF Successor
<1> HIDE DEF typed, t, el
<1>5. ASSUME NEW w \in after PROVE Successor(t, w)
    <2>1. CASE w \in Submits(typed, el.form)
        <3>1. Successor(typed, w)
            BY <1>1, <1>4, <2>1, SubmitsFacts DEF Successor
        <3> QED
            BY <1>2, <1>4, <3>1, SuccessorTransitive
    <2>2. CASE w = typed
        BY <1>4, <2>2
    <2> QED
        BY <2>1, <2>2
<1> HIDE DEF after
<1> QED
    BY <1>1, <1>5, OnTargetFacts DEF t

LEMMA EvaluateFacts ==
    ASSUME NEW p, NEW id, NEW r, NEW u \in Urls, Good(copy[p]), Evaluate(p, id, r, u)
    PROVE  SavesGood(p)
<1> DEFINE t     == copy[p].targets[id]
           noted == [t EXCEPT !.typed = With(@, r, t.refs[r].sig)]
           typed == IF r = None THEN t ELSE noted
           after == IF u # t.url THEN Visits(typed, u) ELSE {Rebuilt(typed)}
<1>1. /\ Exists(copy[p], id) /\ r \in DOMAIN t.refs \cup {None}
      /\ OnTarget(p, id, after)
    BY DEF Evaluate
<1>2. Sound(t) /\ DOMAIN t.refs # {} /\ Numbers(t.refs) /\ Bounded(t)
    BY <1>1, TargetFacts
<1>3. Sound(typed) /\ typed.refs = t.refs /\ Bounded(typed)
    <2>1. CASE r = None
        BY <1>2, <2>1
    <2>2. CASE r # None
        <3>1. r \in DOMAIN t.refs
            BY <1>1, <2>2
        <3>2. Sound(noted) /\ noted.refs = t.refs
            BY <1>2, <3>1, NotedFacts
        <3> QED
            BY <1>2, <2>2, <3>2 DEF Bounded
    <2> QED
        BY <2>1, <2>2
<1> HIDE DEF typed
<1>4. ASSUME NEW w \in after PROVE Successor(t, w)
    <2>1. CASE w \in Visits(typed, u)
        BY <1>3, <2>1, VisitsFacts DEF Successor
    <2>2. CASE w = Rebuilt(typed)
        BY <1>3, <2>2, RebuiltFacts DEF Successor
    <2> QED
        BY <2>1, <2>2
<1> HIDE DEF after
<1> QED
    BY <1>1, <1>4, OnTargetFacts

LEMMA TouchFacts ==
    ASSUME NEW p, NEW id, Good(copy[p]), Touch(p, id)
    PROVE  SavesGood(p)
<1> DEFINE at == OrLast(copy[p], id)
<1>1. at \in DOMAIN copy[p].targets /\ Saves(p, Use(copy[p], at))
    BY DEF Touch, Exists
<1> HIDE DEF at
<1> QED
    BY <1>1, UseFacts DEF SavesGood

\* Enter does not make its target the active one, and leaves the active one.
LEMMA PressFacts ==
    ASSUME NEW p, NEW id, Good(copy[p]), Press(p, id)
    PROVE  SavesGood(p)
<1> DEFINE st == copy[p]
           at == IF Exists(st, id) THEN id ELSE st.last
<1>1. Exists(st, at)
    BY DEF Press
<1>2. PICK t \in Submits(st.targets[at], 1) :
         DOMAIN t.refs \subseteq 1 .. MaxRef /\ Saves(p, [st EXCEPT !.targets[at] = t])
    BY DEF Press
<1> HIDE DEF at
<1>3. Successor(st.targets[at], t) /\ at \in DOMAIN st.targets
    BY <1>1, <1>2, TargetFacts, SubmitsFacts
<1> DEFINE targets == [st.targets EXCEPT ![at] = t]
           new     == [st EXCEPT !.targets[at] = t]
<1>4. /\ DOMAIN targets = DOMAIN st.targets
      /\ \A i \in DOMAIN targets : targets[i] = IF i = at THEN t ELSE st.targets[i]
    OBVIOUS
<1>5. /\ DOMAIN new = {"counter", "last", "targets"}
      /\ new.counter = st.counter /\ new.last = st.last /\ new.targets = targets
    BY DEF Good, IsState
<1> HIDE DEF targets, new
<1>6. IsTarget(t) /\ Sound(t) /\ DOMAIN t.refs # {}
    BY <1>2, <1>3, SoundIsTarget DEF Successor
<1>7. IsState(new)
    BY <1>4, <1>5, <1>6 DEF Good, IsState
<1>8. Active(new)
    BY <1>4, <1>5 DEF Good, Active, Exists
<1>9. \A i \in DOMAIN new.targets : Sound(new.targets[i]) /\ DOMAIN new.targets[i].refs # {}
    BY <1>4, <1>5, <1>6 DEF Good
<1>10. Keeps(st, new)
    <2>1. Keeps(st, st)
        BY KeepsItself
    <2> QED
        BY <1>3, <1>4, <1>5, <2>1 DEF Keeps, Successor
<1>11. Saves(p, new)
    BY <1>2 DEF new
<1> QED
    BY <1>7, <1>8, <1>9, <1>10, <1>11 DEF Good, SavesGood

\* When the active target is closed, the first of the rest becomes active.
LEMMA CloseFacts ==
    ASSUME NEW p, NEW id, Good(copy[p]), Close(p, id)
    PROVE  SavesGood(p)
<1> DEFINE st      == copy[p]
           at      == OrLast(st, id)
           rest    == DOMAIN st.targets \ {at}
           targets == [i \in rest |-> st.targets[i]]
           last    == IF st.last # at THEN st.last
                      ELSE IF rest = {} THEN None ELSE FirstKey(rest)
           new     == [st EXCEPT !.targets = targets, !.last = last]
<1>1. Exists(st, at) /\ Saves(p, new)
    BY DEF Close
<1>2. at \in DOMAIN st.targets
    BY <1>1 DEF Exists
<1>3. /\ DOMAIN targets = rest
      /\ \A i \in rest : i \in DOMAIN st.targets /\ targets[i] = st.targets[i]
    OBVIOUS
<1>4. rest \subseteq Nat /\ rest \subseteq Ids
    BY BrowserAssumption DEF Good, IsState, Ids
<1>5. IF rest = {} THEN last = None ELSE last \in rest
    <2>1. CASE st.last # at
        BY <1>2, <2>1 DEF Good, Active, Exists
    <2>2. CASE st.last = at /\ rest = {}
        BY <2>2
    <2>3. CASE st.last = at /\ rest # {}
        BY <1>4, <2>3, FirstKeyFacts
    <2> QED
        BY <2>1, <2>2, <2>3
<1> HIDE DEF at, last, targets
<1>6. /\ DOMAIN new = {"counter", "last", "targets"}
      /\ new.counter = st.counter /\ new.last = last /\ new.targets = targets
    BY DEF Good, IsState
<1> HIDE DEF new
<1>7. last \in Ids \cup {None}
    BY <1>4, <1>5
<1>8. IsState(new)
    BY <1>3, <1>6, <1>7 DEF Good, IsState
<1>9. Active(new)
    BY <1>3, <1>5, <1>6 DEF Active, Exists
<1>10. \A i \in DOMAIN new.targets : Sound(new.targets[i]) /\ DOMAIN new.targets[i].refs # {}
    BY <1>3, <1>6 DEF Good
<1>11. Keeps(st, new)
    <2>1. Keeps(st, st)
        BY KeepsItself
    <2> QED
        BY <1>3, <1>6, <2>1 DEF Keeps
<1> QED
    BY <1>1, <1>8, <1>9, <1>10, <1>11 DEF Good, SavesGood

\* A wait that is over makes its target active only when it is still there.
LEMMA WaitEndFacts ==
    ASSUME NEW p, Good(copy[p]), WaitEnd(p)
    PROVE  SavesGood(p)
<1>1. Saves(p, Waited(copy[p], wait))
    BY DEF WaitEnd
<1>2. CASE Exists(copy[p], wait.target)
    BY <1>1, <1>2, UseFacts DEF Waited, Exists, SavesGood
<1>3. CASE ~Exists(copy[p], wait.target)
    BY <1>1, <1>3, KeepsItself DEF Waited, SavesGood
<1> QED
    BY <1>2, <1>3

-----------------------------------------------------------------------------
(* The invariant.                                                          *)

\* Whatever request p makes, it starts with something it has read.
LEMMA RequestHasRead ==
    ASSUME NEW p \in Procs, Request(p) \/ WaitEnd(p)
    PROVE  copy[p] # None
BY DEF Request, Open, Navigate, Snapshot, Touch, Press, Close, Click, Type, Evaluate,
       OnTarget, WaitEnd, Working

LEMMA RequestFacts ==
    ASSUME NEW p \in Procs, IInv, Request(p) \/ WaitEnd(p)
    PROVE  SavesGood(p)
<1>1. Good(copy[p])
    BY RequestHasRead DEF IInv
<1>2. CASE \E u \in Urls : Open(p, u)
    BY <1>1, <1>2, OpenFacts
<1>3. CASE \E id \in Ids, u \in Urls : Navigate(p, id, u)
    BY <1>1, <1>3, NavigateFacts
<1>4. CASE \E id \in Ids \cup {None} : Snapshot(p, id) \/ Touch(p, id)
    BY <1>1, <1>4, SnapshotFacts, TouchFacts
<1>5. CASE \E id \in Ids \cup {None} : Press(p, id) \/ Close(p, id)
    BY <1>1, <1>5, PressFacts, CloseFacts
<1>6. CASE \E id \in Ids, r \in 1 .. MaxRef : Click(p, id, r)
    BY <1>1, <1>6, ClickFacts
<1>7. CASE \E id \in Ids, r \in 1 .. MaxRef, submit \in BOOLEAN : Type(p, id, r, submit)
    BY <1>1, <1>7, TypeFacts
<1>8. CASE \E id \in Ids, r \in (1 .. MaxRef) \cup {None}, u \in Urls : Evaluate(p, id, r, u)
    BY <1>1, <1>8, EvaluateFacts
<1>9. CASE WaitEnd(p)
    BY <1>1, <1>9, WaitEndFacts
<1> QED
    BY <1>2, <1>3, <1>4, <1>5, <1>6, <1>7, <1>8, <1>9 DEF Request

LEMMA RequestLeavesWait ==
    ASSUME NEW p \in Procs, Request(p) PROVE UNCHANGED wait
BY DEF Request, Open, Navigate, Snapshot, Touch, Press, Close, Click, Type, Evaluate, OnTarget

LEMMA EmptyIsGood == Good(Empty)
<1>1. /\ DOMAIN Empty = {"counter", "last", "targets"} /\ Empty.counter = 0
      /\ Empty.last = None /\ DOMAIN Empty.targets = {}
    BY DEF Empty
<1>2. IsState(Empty)
    BY <1>1, BrowserAssumption DEF IsState
<1> QED
    BY <1>1, <1>2 DEF Good, Active

\* Whatever happened to a file, what is read from it is good.
LEMMA ReadIsGood == ASSUME NEW f, GoodFile(f) PROVE Good(Read(f))
BY EmptyIsGood DEF GoodFile, Read

LEMMA InitIInv == ASSUME Init PROVE IInv
<1>1. 0 \in 0 .. MaxRequests
    BY BrowserAssumption
<1> QED
    BY <1>1 DEF Init, IInv, GoodFile, GoodSave

\* A request that begins to save.
LEMMA SavesIInv ==
    ASSUME IInv, NEW p \in Procs, SavesGood(p),
           wait' \in [target : Ids, text : Texts, gone : BOOLEAN, seen : BOOLEAN] \cup {None}
    PROVE  IInv'
<1>1. PICK st : Saves(p, st) /\ Good(st) /\ Keeps(copy[p], st)
    BY DEF SavesGood
<1> DEFINE new == [state |-> st, into |-> "tmp"]
<1>2. GoodFile(file)' /\ GoodFile(tmp)' /\ UNCHANGED <<copy, requests>> /\ copy[p] # None
    BY <1>1 DEF Saves, Working, GoodFile, IInv
<1>3. /\ DOMAIN saving' = Procs
      /\ \A q \in Procs : saving'[q] = IF q = p THEN new ELSE saving[q]
    BY <1>1 DEF Saves, IInv
<1>4. DOMAIN new = {"state", "into"} /\ new.state = st /\ new.into = "tmp"
    OBVIOUS
<1> HIDE DEF new
<1>5. \A q \in Procs : GoodSave(q)'
    BY <1>1, <1>2, <1>3, <1>4 DEF GoodSave, IInv
<1> QED
    BY <1>2, <1>3, <1>5 DEF IInv

\* A request that is over.
LEMMA DoneIInv ==
    ASSUME IInv, NEW p \in Procs, Done(p), GoodFile(file)', GoodFile(tmp)'
    PROVE  IInv'
<1>1. /\ DOMAIN copy' = Procs /\ DOMAIN saving' = Procs
      /\ \A q \in Procs : /\ copy'[q] = IF q = p THEN None ELSE copy[q]
                          /\ saving'[q] = IF q = p THEN None ELSE saving[q]
    BY DEF Done, IInv
<1>2. \A q \in Procs : (copy'[q] = None \/ Good(copy'[q])) /\ GoodSave(q)'
    BY <1>1 DEF IInv, GoodSave
<1> QED
    BY <1>1, <1>2 DEF Done, IInv

\* The steps of a save leave files that are torn, missing or good.
LEMMA SaveIInv == ASSUME IInv, NEW p \in Procs, Save(p) PROVE IInv'
<1>1. CASE Rename(p)
    <2>1. GoodFile(file)' /\ GoodFile(tmp)' /\ Done(p)
        BY <1>1 DEF Rename, IInv, GoodFile
    <2> QED
        BY <2>1, DoneIInv
<1>2. CASE Overwrite(p)
    <2>1. GoodFile(file)' /\ GoodFile(tmp)' /\ Done(p)
        BY <1>2 DEF Overwrite, IInv, GoodFile, GoodSave
    <2> QED
        BY <2>1, DoneIInv
<1>3. CASE Truncate(p)
    <2> DEFINE new == [saving[p] EXCEPT !.into = "file"]
    <2>1. /\ saving[p] # None /\ file' = Torn /\ UNCHANGED <<tmp, copy, wait, requests>>
          /\ saving' = [saving EXCEPT ![p].into = "file"]
        BY <1>3 DEF Truncate
    <2>2. /\ DOMAIN saving' = Procs
          /\ \A q \in Procs : saving'[q] = IF q = p THEN new ELSE saving[q]
        BY <2>1 DEF IInv
    <2>3. DOMAIN saving[p] = {"state", "into"}
        BY <2>1 DEF IInv, GoodSave
    <2>4. DOMAIN new = {"state", "into"} /\ new.state = saving[p].state /\ new.into = "file"
        BY <2>3
    <2> HIDE DEF new
    <2>5. \A q \in Procs : GoodSave(q)'
        BY <2>1, <2>2, <2>4 DEF GoodSave, IInv
    <2>6. GoodFile(file)' /\ GoodFile(tmp)'
        BY <2>1 DEF GoodFile, IInv
    <2> QED
        BY <2>1, <2>2, <2>5, <2>6 DEF IInv
<1> QED
    BY <1>1, <1>2, <1>3 DEF Save

LEMMA NextIInv == ASSUME IInv, [Next]_vars PROVE IInv'
<1> DEFINE Waits == [target : Ids, text : Texts, gone : BOOLEAN, seen : BOOLEAN] \cup {None}
<1>1. ASSUME NEW p \in Procs, Load(p) PROVE IInv'
    <2>1. requests' \in 0 .. MaxRequests
        BY <1>1, BrowserAssumption DEF Load, IInv
    <2>2. /\ DOMAIN copy' = Procs
          /\ \A q \in Procs : copy'[q] = IF q = p THEN Read(file) ELSE copy[q]
        BY <1>1 DEF Load, IInv
    <2>3. Good(Read(file))
        BY ReadIsGood DEF IInv
    <2>4. copy[p] = None /\ UNCHANGED <<file, tmp, saving, wait>>
        BY <1>1 DEF Load
    <2>5. \A q \in Procs : (copy'[q] = None \/ Good(copy'[q])) /\ GoodSave(q)'
        BY <2>2, <2>3, <2>4 DEF IInv, GoodSave
    <2> QED
        BY <2>1, <2>2, <2>4, <2>5 DEF IInv, GoodFile
<1>2. ASSUME NEW p \in Procs, Leave(p) PROVE IInv'
    <2>1. Done(p) /\ GoodFile(file)' /\ GoodFile(tmp)'
        BY <1>2 DEF Leave, IInv, GoodFile
    <2> QED
        BY <2>1, DoneIInv
<1>3. ASSUME NEW p \in Procs, Request(p) PROVE IInv'
    <2>1. wait' \in Waits
        BY <1>3, RequestLeavesWait DEF IInv
    <2> QED
        BY <1>3, <2>1, RequestFacts, SavesIInv
<1>4. ASSUME NEW p \in Procs, WaitEnd(p) PROVE IInv'
    <2>1. wait' \in Waits
        BY <1>4 DEF WaitEnd
    <2> QED
        BY <1>4, <2>1, RequestFacts, SavesIInv
<1>5. ASSUME UNCHANGED <<file, tmp, copy, saving, requests>>, wait' \in Waits PROVE IInv'
    BY <1>5 DEF IInv, GoodFile, GoodSave
<1>6. ASSUME NEW id, NEW text \in Texts, NEW gone \in BOOLEAN, WaitStart(id, text, gone)
      PROVE  IInv'
    <2> DEFINE st == Read(file)
               at == IF Exists(st, id) THEN id ELSE st.last
    <2>1. Exists(st, at) /\ UNCHANGED <<file, tmp, copy, saving, requests>>
          /\ wait' = [target |-> at, text |-> text, gone |-> gone, seen |-> FALSE]
        BY <1>6 DEF WaitStart
    <2>2. Good(st)
        BY ReadIsGood DEF IInv
    <2> HIDE DEF at, st
    <2>3. at \in Ids
        BY <2>1, <2>2, TargetFacts
    <2>4. wait' \in Waits
        BY <2>1, <2>3
    <2> QED
        BY <1>5, <2>1, <2>4
<1>7. ASSUME WaitPoll \/ WaitTimeout PROVE IInv'
    <2>1. wait' \in Waits /\ UNCHANGED <<file, tmp, copy, saving, requests>>
        BY <1>7 DEF WaitPoll, WaitTimeout, IInv
    <2> QED
        BY <1>5, <2>1
<1>8. CASE UNCHANGED vars
    <2>1. wait' \in Waits /\ UNCHANGED <<file, tmp, copy, saving, requests>>
        BY <1>8 DEF vars, IInv
    <2> QED
        BY <1>5, <2>1
<1> QED
    BY <1>1, <1>2, <1>3, <1>4, <1>6, <1>7, <1>8, SaveIInv DEF Next, Wait

LEMMA InvariantHolds == Spec => []IInv
BY InitIInv, NextIInv, PTL DEF Spec

-----------------------------------------------------------------------------
(* The theorems.                                                           *)

\* Every reachable state of the relay is well typed, however saves fail and
\* overtake each other: a file is missing, torn, or holds targets with numbers
\* that were given out, and so does whatever a process has read or saves.
THEOREM TypeCorrect == Spec => []TypeOK
<1>1. ASSUME IInv PROVE TypeOK
    BY <1>1 DEF IInv, TypeOK, Good, GoodFile, GoodSave, IsFile
<1> QED
    BY <1>1, InvariantHolds, PTL

\* Whatever is read from the state file names an existing target as the active
\* one, unless there is none: whatever is closed, by whichever process, while a
\* wait polls, and whatever saves tear or undo.
THEOREM ActiveTarget == Spec => []ActiveTargetExists
<1>1. ASSUME IInv PROVE ActiveTargetExists
    <2>1. Good(Read(file))
        BY <1>1, ReadIsGood DEF IInv
    <2> QED
        BY <2>1 DEF Good, Active, ActiveTargetExists
<1> QED
    BY <1>1, InvariantHolds, PTL

\* A value that was typed is kept only for the element it was typed into.
THEOREM TypedValues == Spec => []TypedWhereItWas
<1>1. ASSUME IInv PROVE TypedWhereItWas
    <2>1. ASSUME NEW st \in ({Read(file)} \cup {copy[p] : p \in Procs}) \ {None} PROVE Good(st)
        BY <1>1, <2>1, ReadIsGood DEF IInv
    <2>2. ASSUME NEW st, Good(st), NEW id \in DOMAIN st.targets,
                 NEW r \in DOMAIN st.targets[id].typed
          PROVE  /\ r \in DOMAIN st.targets[id].refs
                 /\ st.targets[id].refs[r].sig = st.targets[id].typed[r]
        BY <2>2 DEF Good, Sound
    <2> QED
        BY <2>1, <2>2 DEF TypedWhereItWas
<1> QED
    BY <1>1, InvariantHolds, PTL

\* What Follows says of the refs of a target that shows something before and
\* after, in the terms of the highest ref.
LEMMA FollowsIsNoReuse ==
    ASSUME NEW old, NEW new, Numbers(old), Numbers(new),
           DOMAIN old # {}, DOMAIN new # {}, Follows(old, new)
    PROVE  MeanTheSame(old, new)
<1>1. PICK a \in Nat : DOMAIN old \subseteq 1 .. a
    BY DEF Numbers
<1>2. PICK b \in Nat : DOMAIN new \subseteq 1 .. b
    BY DEF Numbers
<1>3. Largest(DOMAIN old) \in DOMAIN old
    <2>1. DOMAIN old \subseteq 0 .. a
        BY <1>1
    <2> QED
        BY <2>1, LargestFacts
<1>4. Largest(DOMAIN new) \in DOMAIN new /\ \A r \in DOMAIN new : r <= Largest(DOMAIN new)
    <2>1. DOMAIN new \subseteq 0 .. b
        BY <1>2
    <2> QED
        BY <2>1, LargestFacts
<1>5. PICK r \in DOMAIN new : Largest(DOMAIN old) <= r
    BY <1>3 DEF Follows
<1>6. /\ Largest(DOMAIN old) \in Nat /\ Largest(DOMAIN new) \in Nat
      /\ \A q \in DOMAIN new : q \in Nat
    BY <1>1, <1>2, <1>3, <1>4
<1>7. Largest(DOMAIN new) >= Largest(DOMAIN old)
    BY <1>4, <1>5, <1>6
<1>8. ASSUME NEW q \in DOMAIN new \ DOMAIN old PROVE q > Largest(DOMAIN old)
    BY <1>3, <1>6 DEF Follows
<1> QED
    BY <1>7, <1>8 DEF Follows, MeanTheSame

\* A ref never comes to mean another element, and no ref is given out twice for
\* one target: through any request, over any pages, what a save puts into the
\* file keeps the refs that its request found there.
THEOREM RefsAreNames == Spec => RefsKeepTheirMeaning
<1> DEFINE Kept(p) ==
               (saving[p] # None /\ saving'[p] = None /\ file' = saving[p].state) =>
                  \A id \in DOMAIN copy[p].targets \cap DOMAIN file'.targets :
                     MeanTheSame(copy[p].targets[id].refs, file'.targets[id].refs)
<1>1. ASSUME NEW p \in Procs, IInv PROVE Kept(p)
    <2> SUFFICES ASSUME saving[p] # None, file' = saving[p].state,
                        NEW id \in DOMAIN copy[p].targets \cap DOMAIN file'.targets
                 PROVE  MeanTheSame(copy[p].targets[id].refs, file'.targets[id].refs)
        OBVIOUS
    <2>1. Good(copy[p]) /\ Good(file') /\ Keeps(copy[p], file')
        BY <1>1 DEF IInv, GoodSave
    <2>2. Numbers(copy[p].targets[id].refs) /\ DOMAIN copy[p].targets[id].refs # {}
        BY <2>1 DEF Good, Sound, Numbers
    <2>3. Numbers(file'.targets[id].refs) /\ DOMAIN file'.targets[id].refs # {}
        BY <2>1 DEF Good, Sound, Numbers
    <2>4. Follows(copy[p].targets[id].refs, file'.targets[id].refs)
        BY <2>1 DEF Keeps
    <2> QED
        BY <2>2, <2>3, <2>4, FollowsIsNoReuse
<1>2. ASSUME IInv PROVE [\A p \in Procs : Kept(p)]_vars
    BY <1>1, <1>2
<1> QED
    BY <1>2, InvariantHolds, PTL DEF RefsKeepTheirMeaning
=============================================================================
