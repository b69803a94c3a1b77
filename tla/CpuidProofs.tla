---------------------------- MODULE CpuidProofs ----------------------------
(***************************************************************************)
(* Proofs about Cpuid, for every set of processors whose registers have    *)
(* the fields of ProcessorsAssumption.                                     *)
(***************************************************************************)
EXTENDS Cpuid, FiniteSetTheorems, WellFoundedInduction, TLAPS

-----------------------------------------------------------------------------
(* Least elements, and insertion into a sequence.                            *)

\* Every set of naturals that is not empty has a least element.
LEMMA Least ==
    ASSUME NEW T, T \subseteq Nat, T # {}
    PROVE  \E x \in T : \A y \in T : x <= y
<1> DEFINE R == OpToRel(<, Nat)
<1>1. IsWellFoundedOn(R, Nat)
  BY NatLessThanWellFounded
<1>2. \A x, y \in Nat : x < y => <<x, y>> \in R
  BY DEF OpToRel
<1> HIDE DEF R
<1>3. \E x \in T : \A y \in T : ~ (<<y, x>> \in R)
  BY <1>1, WFMin
<1>4. PICK x \in T : \A y \in T : ~ (<<y, x>> \in R)
  BY <1>3
<1>5. ASSUME NEW y \in T PROVE x <= y
  <2>1. x \in Nat /\ y \in Nat
    OBVIOUS
  <2>2. ~(y < x)
    BY <1>2, <1>4, <2>1
  <2>3. QED
    BY <2>1, <2>2
<1>6. QED
  BY <1>5

\* r is the list with e at g, and the rest moved up by one
Inserted(r, list, g, e, S) ==
    /\ r \in Seq(S) /\ Len(r) = Len(list) + 1
    /\ \A i \in Nat : 1 <= i /\ i < g => r[i] = list[i]
    /\ r[g] = e
    /\ \A i, k \in Nat : g <= k /\ k <= Len(list) /\ i = k + 1 => r[i] = list[k]

\* Inserting into a sequence moves the rest up by one.
LEMMA InsertFact ==
    ASSUME NEW S, NEW list \in Seq(S), NEW e \in S, NEW g \in Nat, 1 <= g, g <= Len(list) + 1,
           NEW r, r = InsertAt(list, g, e)
    PROVE  Inserted(r, list, g, e, S)
<1> DEFINE u == SubSeq(list, 1, g - 1)
           v == SubSeq(list, g, Len(list))
<1>1. /\ u \in Seq(S) /\ Len(u) = g - 1 /\ \A i \in Nat : 1 <= i /\ i < g => u[i] = list[i]
  OBVIOUS
<1>2. /\ v \in Seq(S) /\ Len(v) = Len(list) - g + 1
      /\ \A i \in Nat : 1 <= i /\ i <= Len(list) - g + 1 => v[i] = list[g + i - 1]
  OBVIOUS
<1>3. r = (u \o <<e>>) \o v
  BY DEF InsertAt
<1> HIDE DEF u, v
<1> DEFINE w == u \o <<e>>
<1>4. /\ w \in Seq(S) /\ Len(w) = g /\ w[g] = e
      /\ \A i \in Nat : 1 <= i /\ i < g => w[i] = list[i]
  BY <1>1
<1> HIDE DEF w
<1>5. r = w \o v
  BY <1>3 DEF w
<1>6. /\ w \o v \in Seq(S) /\ Len(w \o v) = Len(list) + 1
      /\ \A i \in Nat : 1 <= i /\ i <= g => (w \o v)[i] = w[i]
      /\ \A i \in Nat : g < i /\ i <= Len(list) + 1 => (w \o v)[i] = v[i - g]
  BY <1>2, <1>4
<1>7. ASSUME NEW i \in Nat, g < i, i <= Len(list) + 1 PROVE v[i - g] = list[i - 1]
  <2>1. i - g \in Nat /\ 1 <= i - g /\ i - g <= Len(list) - g + 1 /\ g + (i - g) - 1 = i - 1
    BY <1>7
  <2>2. QED
    BY <1>2, <2>1
<1>8. ASSUME NEW i \in Nat, NEW k \in Nat, g <= k, k <= Len(list), i = k + 1 PROVE r[i] = list[k]
  <2>1. g < i /\ i <= Len(list) + 1 /\ i - 1 = k
    BY <1>8
  <2>2. QED
    BY <1>5, <1>6, <1>7, <2>1
<1>9. QED
  BY <1>4, <1>5, <1>6, <1>8 DEF Inserted

-----------------------------------------------------------------------------
(* The order of the two arrays.                                              *)

Entries == [level : Nat, type : Nat, size : Nat, unit : Nat, assoc : Nat, shared : Nat]

\* compare_memdetails() field by field.
Exceeds(d, e) ==
    \/ d.level > e.level
    \/ d.level = e.level /\ d.type > e.type
    \/ d.level = e.level /\ d.type = e.type /\ d.size > e.size
    \/ d.level = e.level /\ d.type = e.type /\ d.size = e.size /\ d.unit > e.unit
    \/ /\ d.level = e.level /\ d.type = e.type /\ d.size = e.size /\ d.unit = e.unit
       /\ d.assoc > e.assoc

\* The comparison of the keys is the comparison field by field.
LEMMA GreaterFact ==
    ASSUME NEW d \in Entries, NEW e \in Entries
    PROVE  Greater(d, e) <=> Exceeds(d, e)
<1> DEFINE Differ(i) == Key(d)[i] > Key(e)[i] /\ \A j \in 1 .. i - 1 : Key(d)[j] = Key(e)[j]
<1>1. /\ Key(d)[1] = d.level /\ Key(d)[2] = d.type /\ Key(d)[3] = d.size
      /\ Key(d)[4] = d.unit /\ Key(d)[5] = d.assoc
  BY DEF Key
<1>2. /\ Key(e)[1] = e.level /\ Key(e)[2] = e.type /\ Key(e)[3] = e.size
      /\ Key(e)[4] = e.unit /\ Key(e)[5] = e.assoc
  BY DEF Key
<1>3. Greater(d, e) <=> \E i \in 1 .. 5 : Differ(i)
  BY DEF Greater
<1>4. Differ(1) <=> d.level > e.level
  BY <1>1, <1>2
<1>5. Differ(2) <=> d.level = e.level /\ d.type > e.type
  BY <1>1, <1>2
<1>6. Differ(3) <=> d.level = e.level /\ d.type = e.type /\ d.size > e.size
  BY <1>1, <1>2
<1>7. Differ(4) <=> /\ d.level = e.level /\ d.type = e.type /\ d.size = e.size
                    /\ d.unit > e.unit
  BY <1>1, <1>2
<1>8. Differ(5) <=> /\ d.level = e.level /\ d.type = e.type /\ d.size = e.size
                    /\ d.unit = e.unit /\ d.assoc > e.assoc
  BY <1>1, <1>2
<1> HIDE DEF Differ
<1>9. (\E i \in 1 .. 5 : Differ(i)) <=> Differ(1) \/ Differ(2) \/ Differ(3) \/ Differ(4) \/ Differ(5)
  <2>1. \A i : i \in 1 .. 5 <=> i = 1 \/ i = 2 \/ i = 3 \/ i = 4 \/ i = 5
    OBVIOUS
  <2>2. QED
    BY ONLY <2>1
<1>10. QED
  BY ONLY <1>3, <1>4, <1>5, <1>6, <1>7, <1>8, <1>9 DEF Exceeds

\* What is less than something that is not above b is not above b.
LEMMA Order ==
    ASSUME NEW a \in Entries, NEW b \in Entries, NEW d \in Entries, Greater(a, d), ~Greater(a, b)
    PROVE  ~Greater(d, b)
<1>1. /\ a.level \in Nat /\ a.type \in Nat /\ a.size \in Nat /\ a.unit \in Nat /\ a.assoc \in Nat
      /\ b.level \in Nat /\ b.type \in Nat /\ b.size \in Nat /\ b.unit \in Nat /\ b.assoc \in Nat
      /\ d.level \in Nat /\ d.type \in Nat /\ d.size \in Nat /\ d.unit \in Nat /\ d.assoc \in Nat
  BY DEF Entries
<1>2. Exceeds(a, d) /\ ~Exceeds(a, b)
  BY GreaterFact
<1>3. ~Exceeds(d, b)
  BY ONLY <1>1, <1>2 DEF Exceeds
<1>4. QED
  BY <1>3, GreaterFact

\* Nothing is above itself.
LEMMA Irreflexive ==
    ASSUME NEW a \in Entries
    PROVE  ~Greater(a, a)
<1>1. /\ a.level \in Nat /\ a.type \in Nat /\ a.size \in Nat /\ a.unit \in Nat /\ a.assoc \in Nat
  BY DEF Entries
<1>2. ~Exceeds(a, a)
  BY ONLY <1>1 DEF Exceeds
<1>3. QED
  BY <1>2, GreaterFact

\* Where add_hwmem() and add_tlb() put the entry: g is the first greater one.
FirstGreater(s, d, g) ==
    /\ g \in Nat /\ 1 <= g /\ g <= Len(s) + 1
    /\ \A i \in DOMAIN s : i < g => ~Greater(s[i], d)
    /\ g <= Len(s) => Greater(s[g], d)

\* Insert puts the entry before the first greater one, and moves the rest.
LEMMA InsertPlace ==
    ASSUME NEW s \in Seq(Entries), NEW d \in Entries, NEW r, r = Insert(s, d)
    PROVE  \E g \in Nat : FirstGreater(s, d, g) /\ Inserted(r, s, g, d, Entries)
<1> DEFINE G == {i \in DOMAIN s : Greater(s[i], d)}
           g == IF G = {} THEN Len(s) + 1 ELSE CHOOSE i \in G : \A j \in G : i <= j
<1>1. r = InsertAt(s, g, d)
  BY DEF Insert
<1>2. G \subseteq Nat
  OBVIOUS
<1>3. CASE G = {}
  <2>1. g = Len(s) + 1
    BY <1>3
  <2>2. FirstGreater(s, d, g)
    BY <1>3, <2>1 DEF FirstGreater
  <2>3. QED
    BY <1>1, <2>2, InsertFact DEF FirstGreater
<1>4. CASE G # {}
  <2>1. g = CHOOSE i \in G : \A j \in G : i <= j
    BY <1>4
  <2>2. \E i \in G : \A j \in G : i <= j
    BY ONLY <1>2, <1>4, Least
  <2>3. g \in G /\ \A j \in G : g <= j
    BY <2>1, <2>2
  <2>4. g \in DOMAIN s /\ Greater(s[g], d) /\ \A j \in DOMAIN s : Greater(s[j], d) => g <= j
    BY <2>3
  <2>5. FirstGreater(s, d, g)
    BY <2>4 DEF FirstGreater
  <2>6. QED
    BY <1>1, <2>5, InsertFact DEF FirstGreater
<1>5. QED
  BY <1>3, <1>4

\* r has the entries of s and d.
Members(r, s, d) ==
    /\ r \in Seq(Entries)
    /\ \A i \in DOMAIN r : r[i] = d \/ \E k \in DOMAIN s : r[i] = s[k]
    /\ \A k \in DOMAIN s : \E i \in DOMAIN r : r[i] = s[k]
    /\ \E i \in DOMAIN r : r[i] = d

\* An entry of the new array is the new one or was there.
LEMMA InsertMembers ==
    ASSUME NEW s \in Seq(Entries), NEW d \in Entries, NEW r, r = Insert(s, d)
    PROVE  Members(r, s, d)
<1>1. PICK g \in Nat : FirstGreater(s, d, g) /\ Inserted(r, s, g, d, Entries)
  BY InsertPlace
<1>2. 1 <= g /\ g <= Len(s) + 1
  BY <1>1 DEF FirstGreater
<1>3. r \in Seq(Entries) /\ Len(r) = Len(s) + 1 /\ r[g] = d
  BY <1>1 DEF Inserted
<1>4. \A i \in Nat : 1 <= i /\ i < g => r[i] = s[i]
  BY <1>1 DEF Inserted
<1>5. \A i, k \in Nat : g <= k /\ k <= Len(s) /\ i = k + 1 => r[i] = s[k]
  BY <1>1 DEF Inserted
<1>6. ASSUME NEW i \in DOMAIN r PROVE r[i] = d \/ \E k \in DOMAIN s : r[i] = s[k]
  <2>1. i \in Nat /\ 1 <= i /\ i <= Len(s) + 1 /\ Len(s) \in Nat
    BY <1>3
  <2>2. CASE i < g
    <3>1. i \in DOMAIN s
      BY <1>2, <2>1, <2>2
    <3>2. QED
      BY <1>4, <2>1, <2>2, <3>1
  <2>3. CASE i = g
    BY <1>3, <2>3
  <2>4. CASE i > g
    <3>1. i - 1 \in DOMAIN s /\ i - 1 \in Nat /\ g <= i - 1 /\ i - 1 <= Len(s) /\ i = (i - 1) + 1
      BY <1>2, <2>1, <2>4
    <3>2. r[i] = s[i - 1]
      BY <1>5, <2>1, <3>1
    <3>3. QED
      BY <3>1, <3>2
  <2>5. QED
    BY <2>1, <2>2, <2>3, <2>4
<1>7. ASSUME NEW k \in DOMAIN s PROVE \E i \in DOMAIN r : r[i] = s[k]
  <2>1. k \in Nat /\ 1 <= k /\ k <= Len(s) /\ Len(s) \in Nat
    OBVIOUS
  <2>2. k \in DOMAIN r /\ k + 1 \in DOMAIN r /\ k + 1 \in Nat
    BY <1>3, <2>1
  <2>3. k < g => r[k] = s[k]
    BY <1>4, <2>1
  <2>4. k >= g => r[k + 1] = s[k]
    BY <1>5, <2>1, <2>2
  <2>5. QED
    BY <2>1, <2>2, <2>3, <2>4
<1>8. g \in DOMAIN r
  BY <1>2, <1>3
<1>9. QED
  BY <1>3, <1>6, <1>7, <1>8 DEF Members

\* Insertion keeps an array in order.
LEMMA InsertSorted ==
    ASSUME NEW s \in Seq(Entries), Sorted(s), NEW d \in Entries, NEW r, r = Insert(s, d)
    PROVE  Sorted(r)
<1>1. PICK g \in Nat : FirstGreater(s, d, g) /\ Inserted(r, s, g, d, Entries)
  BY InsertPlace
<1>2. /\ 1 <= g /\ g <= Len(s) + 1 /\ Len(s) \in Nat
      /\ \A i \in DOMAIN s : i < g => ~Greater(s[i], d)
      /\ g <= Len(s) => Greater(s[g], d)
  BY <1>1 DEF FirstGreater
<1>3. r \in Seq(Entries) /\ Len(r) = Len(s) + 1 /\ r[g] = d
  BY <1>1 DEF Inserted
<1>4. \A i \in Nat : 1 <= i /\ i < g => r[i] = s[i]
  BY <1>1 DEF Inserted
<1>5. \A i, k \in Nat : g <= k /\ k <= Len(s) /\ i = k + 1 => r[i] = s[k]
  BY <1>1 DEF Inserted
<1>6. \A k \in Nat : g <= k /\ k <= Len(s) => ~Greater(d, s[k])
  <2>1. SUFFICES ASSUME NEW k \in Nat, g <= k, k <= Len(s) PROVE ~Greater(d, s[k])
    OBVIOUS
  <2>2. g \in DOMAIN s /\ k \in DOMAIN s /\ s[g] \in Entries /\ s[k] \in Entries
    BY <1>2, <2>1
  <2>3. Greater(s[g], d)
    BY <1>2, <2>1
  <2>4. CASE g = k
    <3>1. ~Greater(s[g], s[g])
      BY <2>2, Irreflexive
    <3>2. QED
      BY <2>2, <2>3, <2>4, <3>1, Order
  <2>5. CASE g < k
    <3>1. ~Greater(s[g], s[k])
      BY <2>2, <2>5 DEF Sorted
    <3>2. QED
      BY <2>2, <2>3, <3>1, Order
  <2>6. QED
    BY <2>1, <2>4, <2>5
<1>7. ASSUME NEW i \in DOMAIN r, NEW j \in DOMAIN r, i < j PROVE ~Greater(r[i], r[j])
  <2>1. /\ i \in Nat /\ 1 <= i /\ i <= Len(s) + 1
        /\ j \in Nat /\ 1 <= j /\ j <= Len(s) + 1
    BY <1>3
  <2>2. CASE j < g
    <3>1. i \in DOMAIN s /\ j \in DOMAIN s
      BY <1>2, <1>7, <2>1, <2>2
    <3>2. r[i] = s[i] /\ r[j] = s[j]
      BY <1>4, <1>7, <2>1, <2>2
    <3>3. QED
      BY <1>7, <3>1, <3>2 DEF Sorted
  <2>3. CASE j = g
    <3>1. i \in DOMAIN s /\ i < g
      BY <1>2, <1>7, <2>1, <2>3
    <3>2. r[i] = s[i] /\ r[j] = d
      BY <1>3, <1>4, <2>1, <2>3, <3>1
    <3>3. QED
      BY <1>2, <3>1, <3>2
  <2>4. CASE j > g
    <3> DEFINE k == j - 1
    <3>1. k \in DOMAIN s /\ k \in Nat /\ g <= k /\ k <= Len(s) /\ j = k + 1
      BY <1>2, <2>1, <2>4
    <3>2. r[j] = s[k]
      BY <1>5, <2>1, <3>1
    <3>3. CASE i < g
      <4>1. i \in DOMAIN s /\ i < k /\ r[i] = s[i]
        BY <1>2, <1>4, <2>1, <3>1, <3>3
      <4>2. QED
        BY <3>1, <3>2, <4>1 DEF Sorted
    <3>4. CASE i = g
      BY <1>3, <1>6, <3>1, <3>2, <3>4
    <3>5. CASE i > g
      <4> DEFINE l == i - 1
      <4>1. l \in DOMAIN s /\ l \in Nat /\ g <= l /\ l <= Len(s) /\ i = l + 1 /\ l < k
        BY <1>2, <1>7, <2>1, <3>5
      <4>2. r[i] = s[l]
        BY <1>5, <2>1, <4>1
      <4>3. QED
        BY <3>1, <3>2, <4>1, <4>2 DEF Sorted
    <3>6. QED
      BY <2>1, <3>3, <3>4, <3>5
  <2>5. QED
    BY <2>1, <2>2, <2>3, <2>4
<1>8. QED
  BY <1>7 DEF Sorted

-----------------------------------------------------------------------------
(* How often a key is in an array.                                           *)

Places(s, k) == {i \in DOMAIN s : Key(s[i]) = k}

\* An array has finitely many entries with a key.
LEMMA PlacesFinite ==
    ASSUME NEW s \in Seq(Entries), NEW k
    PROVE  IsFiniteSet(Places(s, k)) /\ Cardinality(Places(s, k)) \in Nat
<1>1. IsFiniteSet(1 .. Len(s))
  BY FS_Interval
<1>2. Places(s, k) \subseteq 1 .. Len(s)
  BY DEF Places
<1>3. IsFiniteSet(Places(s, k))
  BY ONLY <1>1, <1>2, FS_Subset
<1>4. QED
  BY <1>3, FS_CardinalityType

\* Moving the entries up keeps their number.
LEMMA Moved ==
    ASSUME NEW A, NEW B, IsFiniteSet(A), NEW f \in [A -> B],
           \A x, y \in A : f[x] = f[y] => x = y, \A y \in B : \E x \in A : f[x] = y
    PROVE  IsFiniteSet(B) /\ Cardinality(B) = Cardinality(A)
<1>1. f \in Bijection(A, B)
  BY DEF Bijection, Injection, Surjection, IsInjective
<1>2. ExistsBijection(A, B)
  BY <1>1 DEF ExistsBijection
<1>3. QED
  BY <1>2, FS_Bijection

\* The entry counts once for its own key, and for no other.
LEMMA InsertCount ==
    ASSUME NEW s \in Seq(Entries), NEW d \in Entries, NEW r, r = Insert(s, d), NEW k
    PROVE  Count(r, k) = Count(s, k) + IF Key(d) = k THEN 1 ELSE 0
<1>1. PICK g \in Nat : FirstGreater(s, d, g) /\ Inserted(r, s, g, d, Entries)
  BY InsertPlace
<1>2. 1 <= g /\ g <= Len(s) + 1 /\ Len(s) \in Nat
  BY <1>1 DEF FirstGreater
<1>3. r \in Seq(Entries) /\ Len(r) = Len(s) + 1 /\ r[g] = d
  BY <1>1 DEF Inserted
<1>4. \A i \in Nat : 1 <= i /\ i < g => r[i] = s[i]
  BY <1>1 DEF Inserted
<1>5. \A i, l \in Nat : g <= l /\ l <= Len(s) /\ i = l + 1 => r[i] = s[l]
  BY <1>1 DEF Inserted
<1> DEFINE A == Places(s, k)
           B == Places(r, k) \ {g}
           f == [i \in A |-> IF i < g THEN i ELSE i + 1]
<1>6. ASSUME NEW i \in A PROVE f[i] \in B
  <2>1. i \in Nat /\ 1 <= i /\ i <= Len(s) /\ Key(s[i]) = k
    BY DEF Places
  <2>2. CASE i < g
    <3>1. i \in DOMAIN r /\ r[i] = s[i] /\ f[i] = i /\ i # g
      BY <1>2, <1>3, <1>4, <2>1, <2>2
    <3>2. QED
      BY <2>1, <3>1 DEF Places
  <2>3. CASE g <= i
    <3>1. i + 1 \in Nat /\ i + 1 \in DOMAIN r /\ f[i] = i + 1 /\ i + 1 # g
      BY <1>2, <1>3, <2>1, <2>3
    <3>2. r[i + 1] = s[i]
      BY <1>5, <2>1, <2>3, <3>1
    <3>3. QED
      BY <2>1, <3>1, <3>2 DEF Places
  <2>4. QED
    BY <2>1, <2>2, <2>3
<1>7. f \in [A -> B]
  BY <1>6
<1>8. \A x, y \in A : f[x] = f[y] => x = y
  <2>1. \A x \in A : x \in Nat
    BY DEF Places
  <2>2. QED
    BY <1>2, <2>1
<1>9. ASSUME NEW y \in B PROVE \E x \in A : f[x] = y
  <2>1. y \in Nat /\ 1 <= y /\ y <= Len(s) + 1 /\ Key(r[y]) = k /\ y # g
    BY <1>3 DEF Places
  <2>2. CASE y < g
    <3>1. y \in DOMAIN s /\ r[y] = s[y]
      BY <1>2, <1>4, <2>1, <2>2
    <3>2. y \in A
      BY <2>1, <3>1 DEF Places
    <3>3. QED
      BY <2>2, <3>2
  <2>3. CASE y > g
    <3> DEFINE x == y - 1
    <3>1. x \in Nat /\ x \in DOMAIN s /\ g <= x /\ x <= Len(s) /\ y = x + 1
      BY <1>2, <2>1, <2>3
    <3>2. r[y] = s[x]
      BY <1>5, <2>1, <3>1
    <3>3. x \in A
      BY <2>1, <3>1, <3>2 DEF Places
    <3>4. f[x] = y
      BY <3>1, <3>3
    <3>5. QED
      BY <3>3, <3>4
  <2>4. QED
    BY <2>1, <2>2, <2>3
<1>10. IsFiniteSet(A) /\ Cardinality(A) \in Nat
  BY PlacesFinite
<1> HIDE DEF A, B, f
<1>11. IsFiniteSet(B) /\ Cardinality(B) = Cardinality(A)
  BY <1>7, <1>8, <1>9, <1>10, Moved
<1>12. g \in DOMAIN r
  BY <1>2, <1>3
<1>13. Count(s, k) = Cardinality(A) /\ Count(r, k) = Cardinality(Places(r, k))
  BY DEF Count, A, Places
<1>14. CASE Key(d) = k
  <2>1. Places(r, k) = B \cup {g} /\ g \notin B
    BY <1>3, <1>12, <1>14 DEF B, Places
  <2>2. Cardinality(B \cup {g}) = Cardinality(B) + 1
    BY <1>11, <2>1, FS_AddElement
  <2>3. QED
    BY <1>10, <1>11, <1>13, <1>14, <2>1, <2>2
<1>15. CASE Key(d) # k
  <2>1. Places(r, k) = B
    BY <1>3, <1>15 DEF B, Places
  <2>2. QED
    BY <1>10, <1>11, <1>13, <1>15, <2>1
<1>16. QED
  BY <1>14, <1>15

\* The keys of the new array are those of the old one and the new entry's.
LEMMA InsertKeys ==
    ASSUME NEW s \in Seq(Entries), NEW d \in Entries, NEW r, r = Insert(s, d)
    PROVE  KeysOf(r) = KeysOf(s) \cup {Key(d)}
<1>1. /\ \A i \in DOMAIN r : r[i] = d \/ \E k \in DOMAIN s : r[i] = s[k]
      /\ \A k \in DOMAIN s : \E i \in DOMAIN r : r[i] = s[k]
      /\ \E i \in DOMAIN r : r[i] = d
  <2>1. Members(r, s, d)
    BY InsertMembers
  <2>2. QED
    BY <2>1 DEF Members
<1>2. ASSUME NEW x \in KeysOf(r) PROVE x \in KeysOf(s) \cup {Key(d)}
  <2>1. PICK i \in DOMAIN r : x = Key(r[i])
    BY <1>2 DEF KeysOf
  <2>2. QED
    BY <1>1, <2>1 DEF KeysOf
<1>3. ASSUME NEW x \in KeysOf(s) PROVE x \in KeysOf(r)
  <2>1. PICK k \in DOMAIN s : x = Key(s[k])
    BY <1>3 DEF KeysOf
  <2>2. PICK i \in DOMAIN r : r[i] = s[k]
    BY <1>1
  <2>3. QED
    BY <2>1, <2>2 DEF KeysOf
<1>4. Key(d) \in KeysOf(r)
  <2>1. PICK i \in DOMAIN r : r[i] = d
    BY <1>1
  <2>2. QED
    BY <2>1 DEF KeysOf
<1>5. QED
  BY <1>2, <1>3, <1>4

\* A key that is not in an array is in it no times.
LEMMA CountZero ==
    ASSUME NEW s \in Seq(Entries), NEW k, k \notin KeysOf(s)
    PROVE  Count(s, k) = 0
<1>1. {i \in DOMAIN s : Key(s[i]) = k} = {}
  BY DEF KeysOf
<1>2. QED
  BY <1>1, FS_EmptySet DEF Count

-----------------------------------------------------------------------------
(* What the vendors' leaves report.                                          *)

Filled == {"unless", "mem", "tlb"}
Reports == [array : Filled, d : Entries] \cup {Bad, Fault, Skip}

\* An entry is shared by a core's threads, or is an AMD L3.
Wide(d, tpc, vendor) == d.shared >= tpc \/ (vendor = "amd" /\ d.level = 3)

\* A report that may be added: Intel's never go in unconditionally.
Reported(r, tpc, vendor) ==
    /\ r \in Reports
    /\ r.array \in Filled => r.d \in Entries /\ Wide(r.d, tpc, vendor)
    /\ vendor = "intel" => r.array # "mem"

\* The columns of the cache table are naturals.
LEMMA CacheRowsFact ==
    ASSUME NEW r \in CacheRows
    PROVE  r[2] \in Nat /\ r[3] \in Nat /\ r[4] \in Nat /\ r[5] \in Nat /\ r[6] \in Nat
<1>1. CASE r \in CacheRowsA
  BY <1>1 DEF CacheRowsA, Code, Data, Unified
<1>2. CASE r \in CacheRowsB
  BY <1>2 DEF CacheRowsB, Code, Data, Unified
<1>3. CASE r \in CacheRowsC
  BY <1>3 DEF CacheRowsC, Code, Data, Unified
<1>4. CASE r \in CacheRowsD
  BY <1>4 DEF CacheRowsD, Code, Data, Unified
<1>5. QED
  BY <1>1, <1>2, <1>3, <1>4 DEF CacheRows

\* The columns of the TLB table are naturals.
LEMMA TlbRowsFact ==
    ASSUME NEW r \in TlbRows
    PROVE  r[2] \in Nat /\ r[3] \in Nat /\ r[4] \in Nat /\ r[5] \in Nat /\ r[6] \in Nat
<1>1. CASE r \in TlbRowsA
  BY <1>1 DEF TlbRowsA, Code, Data, Unified
<1>2. CASE r \in TlbRowsB
  BY <1>2, SMT DEF TlbRowsB, Code, Data, Unified
<1>3. QED
  BY <1>1, <1>2 DEF TlbRows

\* What is bad, a fault or skipped has nothing to add.
LEMMA NothingToAdd ==
    ASSUME NEW r \in {Bad, Fault, Skip}, NEW tpc, NEW vendor
    PROVE  Reported(r, tpc, vendor)
<1>1. r \in Reports /\ r.array \in {"bad", "fault", "skip"}
  BY DEF Reports, Bad, Fault, Skip, Report
<1>2. QED
  BY <1>1 DEF Reported, Filled

\* An entry shared widely enough is one to add.
LEMMA SomethingToAdd ==
    ASSUME NEW array, array \in Filled, NEW vendor, ~(vendor = "intel" /\ array = "mem"),
           NEW tpc, NEW d, d \in Entries, Wide(d, tpc, vendor), NEW r, r = Report(array, d)
    PROVE  Reported(r, tpc, vendor)
<1>1. r.array = array /\ r.d = d /\ r \in [array : Filled, d : Entries]
  BY DEF Report
<1>2. QED
  BY <1>1 DEF Reported, Reports

\* A byte of leaf 2 is reported as shared by the threads of a core.
LEMMA DescribedFact ==
    ASSUME NEW b, NEW tpc \in Nat, NEW vendor, NEW r, r = Described(b, tpc)
    PROVE  Reported(r, tpc, vendor)
<1> DEFINE cache == {x \in CacheRows : x[1] = b}
           tlb == {x \in TlbRows : x[1] = b}
           desc(x) == Desc(x[2], x[3], x[4], x[5], x[6], tpc)
<1>1. CASE b = 0
  BY <1>1, NothingToAdd DEF Described
<1>2. CASE b # 0 /\ cache # {}
  <2> DEFINE x == CHOOSE y \in cache : TRUE
  <2> DEFINE e == desc(x)
  <2>1. r = Report("unless", e)
    BY <1>2 DEF Described
  <2>2. x \in CacheRows
    BY <1>2
  <2> HIDE DEF x
  <2>3. e \in Entries /\ e.shared = tpc
    <3>1. x[2] \in Nat /\ x[3] \in Nat /\ x[4] \in Nat /\ x[5] \in Nat /\ x[6] \in Nat
      BY <2>2, CacheRowsFact
    <3>2. QED
      BY ONLY <3>1, tpc \in Nat DEF Desc, Entries, e, desc
  <2> HIDE DEF e
  <2>4. Wide(e, tpc, vendor)
    BY <2>3 DEF Wide
  <2>5. "unless" \in Filled /\ "unless" # "mem"
    BY DEF Filled
  <2>6. QED
    BY ONLY <2>1, <2>3, <2>4, <2>5, SomethingToAdd
<1>3. CASE b # 0 /\ cache = {} /\ tlb # {}
  <2> DEFINE x == CHOOSE y \in tlb : TRUE
  <2> DEFINE e == desc(x)
  <2>1. r = Report("tlb", e)
    BY <1>3 DEF Described
  <2>2. x \in TlbRows
    BY <1>3
  <2> HIDE DEF x
  <2>3. e \in Entries /\ e.shared = tpc
    <3>1. x[2] \in Nat /\ x[3] \in Nat /\ x[4] \in Nat /\ x[5] \in Nat /\ x[6] \in Nat
      BY <2>2, TlbRowsFact
    <3>2. QED
      BY ONLY <3>1, tpc \in Nat DEF Desc, Entries, e, desc
  <2> HIDE DEF e
  <2>4. Wide(e, tpc, vendor)
    BY <2>3 DEF Wide
  <2>5. "tlb" \in Filled /\ "tlb" # "mem"
    BY DEF Filled
  <2>6. QED
    BY ONLY <2>1, <2>3, <2>4, <2>5, SomethingToAdd
<1>4. CASE b # 0 /\ cache = {} /\ tlb = {}
  <2>1. r \in {Skip, Bad}
    BY <1>4 DEF Described
  <2>2. QED
    BY <2>1, NothingToAdd
<1>5. QED
  BY <1>1, <1>2, <1>3, <1>4

\* The reports of a processor with that many threads per core.
ToAdd(tpc, vendor) == {r \in Reports : Reported(r, tpc, vendor)}

\* A report that may be added is in the set.
LEMMA ToAddFact ==
    ASSUME NEW r, NEW tpc, NEW vendor
    PROVE  r \in ToAdd(tpc, vendor) <=> Reported(r, tpc, vendor)
BY DEF ToAdd, Reported

\* An AMD report with a zero in it is bad, and the others are entries.
LEMMA ValidFact ==
    ASSUME NEW array \in {"mem", "tlb"}, NEW lev \in Nat, NEW type \in Nat, NEW size \in Nat,
           NEW unit \in Nat, NEW assoc \in Nat, NEW shared \in Nat, NEW tpc \in Nat,
           shared >= tpc \/ lev = 3, NEW r,
           r = Valid(Report(array, Desc(lev, type, size, unit, assoc, shared)))
    PROVE  Reported(r, tpc, "amd")
<1> DEFINE e == Desc(lev, type, size, unit, assoc, shared)
           f == Report(array, e)
<1>1. e \in Entries /\ e.shared = shared /\ e.level = lev
  BY DEF Desc, Entries
<1>2. r \in {Bad, f}
  BY DEF Valid
<1> HIDE DEF e
<1>3. Wide(e, tpc, "amd")
  BY <1>1 DEF Wide
<1> HIDE DEF f
<1>4. Reported(f, tpc, "amd")
  <2>1. array \in Filled /\ ~("amd" = "intel" /\ array = "mem") /\ f = Report(array, e)
    BY DEF Filled, f
  <2>2. QED
    BY ONLY <1>1, <1>3, <2>1, SomethingToAdd
<1>5. Reported(Bad, tpc, "amd")
  BY NothingToAdd
<1>6. QED
  BY <1>2, <1>4, <1>5

\* An associativity is a natural.
LEMMA AssocFact ==
    ASSUME NEW idx \in Nat, NEW lines \in Nat
    PROVE  L23Assoc(idx, lines) \in Nat /\ L1Assoc(idx, lines) \in Nat
<1>1. L1Assoc(idx, lines) \in Nat
  BY DEF L1Assoc
<1>2. L23Assoc(idx, lines) \in Nat
  BY DEF L23Assoc
<1>3. QED
  BY <1>1, <1>2

\* The size of a cache and the number of its lines are naturals.
LEMMA LinesFact ==
    ASSUME NEW n \in Nat, NEW line \in Nat, line # 0
    PROVE  Kib(n) \in Nat /\ Lines(Kib(n), line) \in Nat
<1>1. Kib(n) \in Nat
  BY SMT DEF Kib
<1> DEFINE m == Kib(n) * 1024
<1>2. m \in Nat
  BY <1>1
<1> HIDE DEF m
<1>3. m \div line \in Nat
  BY <1>2
<1>4. QED
  BY <1>1, <1>3 DEF Lines, m

\* The first-level caches of an AMD processor.
LEMMA L1CacheFact ==
    ASSUME NEW type \in Nat, NEW reg \in L1Registers, cpu.tpc \in Nat, NEW r, r = L1Cache(type, reg)
    PROVE  Reported(r, cpu.tpc, "amd")
<1>1. reg.kib \in Nat /\ reg.line \in Nat /\ reg.assoc \in Nat
  BY DEF L1Registers
<1>2. CASE reg.line = 0
  BY <1>2, NothingToAdd DEF L1Cache
<1>3. CASE reg.line # 0
  <2> DEFINE size == Kib(reg.kib)
             assoc == L1Assoc(reg.assoc, Lines(size, reg.line))
  <2>1. size \in Nat /\ Lines(size, reg.line) \in Nat
    BY <1>1, <1>3, LinesFact
  <2>2. assoc \in Nat
    BY <1>1, <2>1, AssocFact
  <2>3. r = Valid(Report("mem", Desc(1, type, size, reg.line, assoc, cpu.tpc)))
    BY <1>3 DEF L1Cache
  <2> HIDE DEF size, assoc
  <2>4. cpu.tpc >= cpu.tpc /\ 1 \in Nat /\ "mem" \in {"mem", "tlb"}
    OBVIOUS
  <2>5. QED
    BY ONLY <1>1, <2>1, <2>2, <2>3, <2>4, type \in Nat, cpu.tpc \in Nat, ValidFact
<1>4. QED
  BY <1>2, <1>3

\* Its other caches.
LEMMA L23CacheFact ==
    ASSUME NEW lev \in Nat, NEW reg \in L23Registers, NEW mul \in Nat, NEW shared \in Nat,
           cpu.tpc \in Nat, shared >= cpu.tpc \/ lev = 3, NEW r, r = L23Cache(lev, reg, mul, shared)
    PROVE  Reported(r, cpu.tpc, "amd")
<1>1. reg.size \in Nat /\ reg.line \in Nat /\ reg.assoc \in Nat
  BY DEF L23Registers
<1>2. CASE reg.line = 0
  BY <1>2, NothingToAdd DEF L23Cache
<1>3. CASE reg.line # 0
  <2> DEFINE n == reg.size * mul
             size == Kib(n)
             assoc == L23Assoc(reg.assoc, Lines(size, reg.line))
  <2>1. n \in Nat
    BY <1>1
  <2>2. r = Valid(Report("mem", Desc(lev, Unified, size, reg.line, assoc, shared)))
    BY <1>3 DEF L23Cache
  <2> HIDE DEF n
  <2>3. size \in Nat /\ Lines(size, reg.line) \in Nat
    BY <1>1, <1>3, <2>1, LinesFact
  <2>4. assoc \in Nat
    BY <1>1, <2>3, AssocFact
  <2> HIDE DEF size, assoc
  <2>5. Unified \in Nat /\ "mem" \in {"mem", "tlb"}
    BY DEF Unified
  <2>6. QED
    BY ONLY <1>1, <2>2, <2>3, <2>4, <2>5, lev \in Nat, shared \in Nat, cpu.tpc \in Nat,
            shared >= cpu.tpc \/ lev = 3, ValidFact
<1>4. QED
  BY <1>2, <1>3

\* Its TLBs.
LEMMA TlbFact ==
    ASSUME NEW lev \in Nat, NEW type \in Nat, NEW page \in Nat, NEW entries \in Nat, NEW idx \in Nat,
           cpu.tpc \in Nat
    PROVE  /\ Reported(L1Tlb(type, page, entries, idx), cpu.tpc, "amd")
           /\ Reported(L23Tlb(lev, type, page, entries, idx), cpu.tpc, "amd")
<1> DEFINE n == Scaled(entries, page)
           one == L1Assoc(idx, entries)
           more == L23Assoc(idx, n)
           r == L1Tlb(type, page, entries, idx)
           q == L23Tlb(lev, type, page, entries, idx)
<1>1. n \in Nat
  BY DEF Scaled
<1>2. one \in Nat
  BY AssocFact
<1>3. r = Valid(Report("tlb", Desc(1, type, page, entries, one, cpu.tpc)))
  BY DEF L1Tlb
<1>4. q = Valid(Report("tlb", Desc(lev, type, page, n, more, cpu.tpc)))
  BY DEF L23Tlb
<1> HIDE DEF n, one, r, q
<1>5. more \in Nat
  BY <1>1, AssocFact
<1> HIDE DEF more
<1>6. cpu.tpc >= cpu.tpc /\ 1 \in Nat /\ "tlb" \in {"mem", "tlb"}
  OBVIOUS
<1>7. Reported(r, cpu.tpc, "amd")
  BY ONLY <1>2, <1>3, <1>6, type \in Nat, page \in Nat, entries \in Nat, cpu.tpc \in Nat, ValidFact
<1>8. Reported(q, cpu.tpc, "amd")
  BY ONLY <1>1, <1>4, <1>5, <1>6, lev \in Nat, type \in Nat, page \in Nat, cpu.tpc \in Nat, ValidFact
<1>9. QED
  BY <1>7, <1>8 DEF r, q

\* Lists of reports can be joined.
LEMMA Joined ==
    ASSUME NEW S, NEW p \in Seq(S), NEW q \in Seq(S)
    PROVE  p \o q \in Seq(S)
OBVIOUS

\* The halves of a TLB register, each if it is there.
LEMMA L23TlbsFact ==
    ASSUME NEW lev \in Nat, NEW page \in Nat, NEW reg \in Halves, cpu.tpc \in Nat
    PROVE  L23Tlbs(lev, page, reg) \in Seq(ToAdd(cpu.tpc, "amd"))
<1> DEFINE S == ToAdd(cpu.tpc, "amd")
           data == L23Tlb(lev, Data, page, reg.de, reg.da)
           code == L23Tlb(lev, Code, page, reg.ie, reg.ia)
           p == IF reg.da # 0 /\ reg.de # 0 THEN <<data>> ELSE <<>>
           q == IF reg.ia # 0 /\ reg.ie # 0 THEN <<code>> ELSE <<>>
<1>1. reg.da \in Nat /\ reg.de \in Nat /\ reg.ia \in Nat /\ reg.ie \in Nat
  BY DEF Halves
<1>2. Data \in Nat /\ Code \in Nat
  BY DEF Data, Code
<1>3. data \in S
  BY <1>1, <1>2, TlbFact, ToAddFact
<1>4. code \in S
  BY <1>1, <1>2, TlbFact, ToAddFact
<1>5. L23Tlbs(lev, page, reg) = p \o q
  BY DEF L23Tlbs
<1> HIDE DEF S, data, code
<1>6. p \in Seq(S) /\ q \in Seq(S)
  BY <1>3, <1>4
<1> HIDE DEF p, q
<1>7. p \o q \in Seq(S)
  BY <1>6, Joined
<1>8. QED
  BY <1>5, <1>7 DEF S

\* The TLBs of pages of 1 GiB.
LEMMA GbTlbsFact ==
    ASSUME proc \in Processors, proc.vendor = "amd", cpu.tpc \in Nat
    PROVE  GbTlbs \in Seq(ToAdd(cpu.tpc, "amd"))
<1> DEFINE S == ToAdd(cpu.tpc, "amd")
           p == L23Tlbs(1, GbPage, proc.amd19.eax)
           q == L23Tlbs(2, GbPage, proc.amd19.ebx)
<1>1. proc.amd19.eax \in Halves /\ proc.amd19.ebx \in Halves
  BY ProcessorsAssumption
<1>2. p \in Seq(S) /\ q \in Seq(S)
  <2>1. GbPage \in Nat
    BY SMT DEF GbPage
  <2>2. QED
    BY <1>1, <2>1, L23TlbsFact
<1>3. GbTlbs \in {<<>>, p \o q}
  BY DEF GbTlbs
<1> HIDE DEF S, p, q
<1>4. p \o q \in Seq(S)
  BY <1>2, Joined
<1>5. <<>> \in Seq(S)
  OBVIOUS
<1>6. QED
  BY <1>3, <1>4, <1>5 DEF S

\* The second- and third-level reports of an AMD processor.
LEMMA L23ReportsFact ==
    ASSUME proc \in Processors, proc.vendor = "amd", cpu.tpc \in Nat, cpu.cpp \in Nat
    PROVE  L23Reports \in Seq(ToAdd(cpu.tpc, "amd"))
<1> DEFINE S == ToAdd(cpu.tpc, "amd")
           two == L23Cache(2, proc.amd6.ecx, 1, cpu.tpc)
           three == L23Cache(3, proc.amd6.edx, 512, cpu.cpp)
           p == IF proc.amd6.ecx.assoc # 0 THEN <<two>> ELSE <<>>
           q == IF proc.amd6.edx.assoc # 0 THEN <<three>> ELSE <<>>
           u == L23Tlbs(2, LargePage, proc.amd6.eax)
           v == L23Tlbs(2, 4, proc.amd6.ebx)
<1>1. /\ proc.amd6.ecx \in L23Registers /\ proc.amd6.edx \in L23Registers
      /\ proc.amd6.eax \in Halves /\ proc.amd6.ebx \in Halves
  BY ProcessorsAssumption
<1>2. Reported(two, cpu.tpc, "amd")
  <2>1. 2 \in Nat /\ 1 \in Nat /\ cpu.tpc >= cpu.tpc
    OBVIOUS
  <2>2. QED
    BY <1>1, <2>1, L23CacheFact
<1>3. Reported(three, cpu.tpc, "amd")
  BY <1>1, L23CacheFact
<1>4. two \in S /\ three \in S
  BY <1>2, <1>3, ToAddFact
<1>5. LargePage \in Nat
  BY DEF LargePage
<1>6. u \in Seq(S) /\ v \in Seq(S)
  BY <1>1, <1>5, L23TlbsFact
<1>7. GbTlbs \in Seq(S)
  BY GbTlbsFact
<1>8. L23Reports \in {<<>>, p \o q \o u \o v \o GbTlbs}
  BY DEF L23Reports
<1> HIDE DEF S, two, three, u, v
<1>9. p \in Seq(S) /\ q \in Seq(S) /\ <<>> \in Seq(S)
  BY <1>4
<1> HIDE DEF p, q
<1>10. p \o q \in Seq(S)
  BY <1>9, Joined
<1>11. p \o q \o u \in Seq(S)
  BY <1>6, <1>10, Joined
<1>12. p \o q \o u \o v \in Seq(S)
  BY <1>6, <1>11, Joined
<1>13. p \o q \o u \o v \o GbTlbs \in Seq(S)
  BY <1>7, <1>12, Joined
<1>14. QED
  BY <1>8, <1>9, <1>13 DEF S

\* What id_amd_caches() leaves to be added.
LEMMA AmdCachesFact ==
    ASSUME proc \in Processors, proc.vendor = "amd", cpu.tpc \in Nat, cpu.cpp \in Nat, AmdCaches,
           pc' = "reports"
    PROVE  todo' \in Seq(ToAdd(cpu.tpc, "amd"))
<1> DEFINE S == ToAdd(cpu.tpc, "amd")
           large == proc.amd5.eax
           small == proc.amd5.ebx
           a == L1Cache(Code, proc.amd5.ecx)
           b == L1Cache(Data, proc.amd5.edx)
           c == L1Tlb(Data, 4, small.de, small.da)
           d == L1Tlb(Data, LargePage, large.de, large.da)
           e == L1Tlb(Code, 4, small.ie, small.ia)
           f == L1Tlb(Code, LargePage, large.ie, large.ia)
           first == <<a, b, c, d, e, f>>
           bad == {i \in 1 .. 6 : first[i].array \in {"bad", "fault"}}
<1>1. /\ proc.amd5.ecx \in L1Registers /\ proc.amd5.edx \in L1Registers
      /\ large \in Halves /\ small \in Halves
  BY ProcessorsAssumption
<1>2. /\ large.da \in Nat /\ large.de \in Nat /\ large.ia \in Nat /\ large.ie \in Nat
      /\ small.da \in Nat /\ small.de \in Nat /\ small.ia \in Nat /\ small.ie \in Nat
  BY <1>1 DEF Halves
<1>3. Data \in Nat /\ Code \in Nat /\ LargePage \in Nat /\ 4 \in Nat /\ 1 \in Nat
  BY DEF Data, Code, LargePage
<1>4. a \in S /\ b \in S
  BY <1>1, <1>3, L1CacheFact, ToAddFact
<1>5. c \in S /\ d \in S
  BY <1>2, <1>3, TlbFact, ToAddFact
<1>6. e \in S /\ f \in S
  BY <1>2, <1>3, TlbFact, ToAddFact
<1>7. L23Reports \in Seq(S)
  BY L23ReportsFact
<1>8. todo' = IF bad # {} THEN <<first[Min(bad)]>> ELSE first \o L23Reports
  BY DEF AmdCaches, Fails
<1> HIDE DEF S, a, b, c, d, e, f
<1>9. first \in Seq(S) /\ \A i \in 1 .. 6 : first[i] \in S
  BY <1>4, <1>5, <1>6
<1> HIDE DEF first
<1>10. first \o L23Reports \in Seq(S)
  BY <1>7, <1>9, Joined
<1>11. bad # {} => Min(bad) \in 1 .. 6
  <2>1. SUFFICES ASSUME bad # {} PROVE Min(bad) \in 1 .. 6
    OBVIOUS
  <2>2. bad \subseteq 1 .. 6 /\ bad \subseteq Nat
    OBVIOUS
  <2> HIDE DEF bad
  <2>3. \E x \in bad : \A y \in bad : x <= y
    BY <2>1, <2>2, Least
  <2>4. Min(bad) \in bad
    BY <2>3 DEF Min
  <2>5. QED
    BY <2>2, <2>4
<1> HIDE DEF bad
<1>12. CASE bad # {}
  <2>1. first[Min(bad)] \in S
    BY <1>9, <1>11, <1>12
  <2>2. <<first[Min(bad)]>> \in Seq(S)
    BY <2>1
  <2>3. QED
    BY <1>8, <1>12, <2>2 DEF S
<1>13. CASE bad = {}
  BY <1>8, <1>10, <1>13 DEF S
<1>14. QED
  BY <1>12, <1>13

\* What leaf 2 leaves to be added.
LEMMA Leaf2Fact ==
    ASSUME NEW c, c.tpc \in Nat, Leaf2Starts(c), pc' = "reports", NEW vendor
    PROVE  todo' \in Seq(ToAdd(c.tpc, vendor))
<1> DEFINE S == ToAdd(c.tpc, vendor)
           byte(n) == Descriptor(proc.leaf2.regs, ((n - 1) \div 4) + 1, ((n - 1) % 4) + 1)
           r(n) == Described(byte(n), c.tpc)
<1>1. todo' = [n \in 1 .. 16 |-> r(n)]
  BY DEF Leaf2Starts, Fails
<1>2. \A n \in 1 .. 16 : r(n) \in S
  BY DescribedFact, ToAddFact
<1> HIDE DEF S, r
<1>3. [n \in 1 .. 16 |-> r(n)] \in Seq(S)
  BY <1>2
<1>4. QED
  BY <1>1, <1>3 DEF S

-----------------------------------------------------------------------------
(* The description.                                                          *)

Fields == {"tpc", "cpp", "apic", "sig", "mems", "tlbs", "brand", "place", "holds"}

\* An array is in order, and its entries are shared by a core's threads.
ArrayFine(s, tpc, vendor) ==
    /\ s \in Seq(Entries) /\ Sorted(s)
    /\ \A i \in DOMAIN s : Wide(s[i], tpc, vendor)

CpuFine(c, vendor) ==
    /\ DOMAIN c = Fields /\ c.tpc \in Nat /\ c.cpp \in Nat
    /\ ArrayFine(c.mems, c.tpc, vendor) /\ ArrayFine(c.tlbs, c.tpc, vendor)

\* An array stays fine when threads per core go down.
LEMMA NarrowerFine ==
    ASSUME NEW s, NEW vendor, NEW t \in Nat, NEW u \in Nat, u <= t, ArrayFine(s, t, vendor)
    PROVE  ArrayFine(s, u, vendor)
<1>1. s \in Seq(Entries) /\ Sorted(s)
  BY DEF ArrayFine
<1>2. ASSUME NEW i \in DOMAIN s PROVE Wide(s[i], u, vendor)
  <2>1. s[i] \in Entries
    BY <1>1
  <2>2. s[i].shared \in Nat
    BY <2>1 DEF Entries
  <2>3. Wide(s[i], t, vendor)
    BY DEF ArrayFine
  <2>4. QED
    BY <2>2, <2>3 DEF Wide
<1>3. QED
  BY <1>1, <1>2 DEF ArrayFine

\* An array stays fine when an entry is inserted.
LEMMA InsertFine ==
    ASSUME NEW s, NEW tpc, NEW vendor, ArrayFine(s, tpc, vendor), NEW d \in Entries,
           Wide(d, tpc, vendor), NEW r, r = Insert(s, d)
    PROVE  ArrayFine(r, tpc, vendor)
<1>1. s \in Seq(Entries) /\ Sorted(s) /\ \A i \in DOMAIN s : Wide(s[i], tpc, vendor)
  BY DEF ArrayFine
<1>2. Members(r, s, d)
  BY <1>1, InsertMembers
<1>3. r \in Seq(Entries) /\ \A i \in DOMAIN r : r[i] = d \/ \E k \in DOMAIN s : r[i] = s[k]
  BY <1>2 DEF Members
<1>4. Sorted(r)
  BY <1>1, InsertSorted
<1>5. ASSUME NEW i \in DOMAIN r PROVE Wide(r[i], tpc, vendor)
  BY <1>1, <1>3
<1>6. QED
  BY <1>3, <1>4, <1>5 DEF ArrayFine

\* What Added changes.
LEMMA AddedFact ==
    ASSUME NEW c, DOMAIN c = Fields, NEW array \in {"mem", "tlb"}, NEW d, NEW n, n = Added(c, array, d)
    PROVE  /\ DOMAIN n = Fields /\ n.tpc = c.tpc /\ n.cpp = c.cpp
           /\ n.mems = IF array = "mem" THEN Insert(c.mems, d) ELSE c.mems
           /\ n.tlbs = IF array = "tlb" THEN Insert(c.tlbs, d) ELSE c.tlbs
           /\ n.holds = c.holds \cup {array}
<1>1. {"tpc", "cpp", "mems", "tlbs", "holds"} \subseteq Fields
  BY DEF Fields
<1>2. CASE array = "mem"
  <2>1. n = [c EXCEPT !.mems = Insert(@, d), !.holds = @ \cup {"mem"}]
    BY <1>2 DEF Added
  <2>2. QED
    BY <1>1, <1>2, <2>1
<1>3. CASE array = "tlb"
  <2>1. n = [c EXCEPT !.tlbs = Insert(@, d), !.holds = @ \cup {"tlb"}]
    BY <1>3 DEF Added
  <2>2. QED
    BY <1>1, <1>3, <2>1
<1>4. QED
  BY <1>2, <1>3

\* A description stays fine when an entry is added.
LEMMA AddedFine ==
    ASSUME NEW c, NEW vendor, CpuFine(c, vendor), NEW array \in {"mem", "tlb"}, NEW d \in Entries,
           Wide(d, c.tpc, vendor), NEW n, n = Added(c, array, d)
    PROVE  CpuFine(n, vendor)
<1>1. /\ DOMAIN c = Fields /\ c.tpc \in Nat /\ c.cpp \in Nat
      /\ ArrayFine(c.mems, c.tpc, vendor) /\ ArrayFine(c.tlbs, c.tpc, vendor)
  BY DEF CpuFine
<1>2. /\ DOMAIN n = Fields /\ n.tpc = c.tpc /\ n.cpp = c.cpp
      /\ n.mems = IF array = "mem" THEN Insert(c.mems, d) ELSE c.mems
      /\ n.tlbs = IF array = "tlb" THEN Insert(c.tlbs, d) ELSE c.tlbs
  BY <1>1, AddedFact
<1>3. ArrayFine(Insert(c.mems, d), c.tpc, vendor) /\ ArrayFine(Insert(c.tlbs, d), c.tpc, vendor)
  BY <1>1, InsertFine
<1>4. ArrayFine(n.mems, n.tpc, vendor)
  BY <1>1, <1>2, <1>3
<1>5. ArrayFine(n.tlbs, n.tpc, vendor)
  BY <1>1, <1>2, <1>3
<1>6. QED
  BY <1>1, <1>2, <1>4, <1>5 DEF CpuFine

\* What the first cache of the level settles.
LEMMA CoresFact ==
    ASSUME DOMAIN cpu = Fields, cpu.tpc \in Nat, cpu.cpp \in Nat, NEW s, s.cores \in Nat,
           NEW n, n = Cores(s)
    PROVE  /\ DOMAIN n = Fields /\ n.tpc \in Nat /\ n.tpc <= cpu.tpc /\ n.cpp \in Nat
           /\ n.mems = cpu.mems /\ n.tlbs = cpu.tlbs /\ n.holds = cpu.holds
<1>1. {"tpc", "cpp", "mems", "tlbs", "holds"} \subseteq Fields
  BY DEF Fields
<1>2. CASE cpu.cpp # 0
  BY <1>2 DEF Cores
<1>3. CASE cpu.cpp = 0
  <2> DEFINE t == IF proc.max < StandardTopology THEN cpu.tpc \div (s.cores + 1) ELSE cpu.tpc
  <2>1. n = [cpu EXCEPT !.tpc = t, !.cpp = s.cores + 1]
    BY <1>3 DEF Cores
  <2>2. t \in Nat /\ t <= cpu.tpc
    <3>1. cpu.tpc \div (s.cores + 1) \in Nat /\ cpu.tpc \div (s.cores + 1) <= cpu.tpc
      <4> DEFINE k == s.cores + 1
                 q == cpu.tpc \div k
      <4>1. k \in Nat /\ k >= 1
        OBVIOUS
      <4> HIDE DEF k
      <4>2. q \in Int /\ k * q <= cpu.tpc /\ cpu.tpc < k * q + k
        BY <4>1
      <4> HIDE DEF q
      <4>3. q >= 0
        <5>1. ASSUME q <= -1 PROVE FALSE
          <6>1. k * q <= -k
            BY <4>1, <4>2, <5>1
          <6>2. QED
            BY <4>1, <4>2, <6>1
        <5>2. QED
          BY <4>2, <5>1
      <4>4. q <= k * q
        BY <4>1, <4>2, <4>3
      <4>5. QED
        BY <4>2, <4>3, <4>4, <4>1 DEF q, k
    <3>2. QED
      BY <3>1
  <2> HIDE DEF t
  <2>3. QED
    BY <1>1, <2>1, <2>2
<1>4. QED
  BY <1>2, <1>3

\* A description stays fine when threads per core go down.
LEMMA CoresFine ==
    ASSUME NEW vendor, CpuFine(cpu, vendor), NEW s, s.cores \in Nat, NEW n, n = Cores(s)
    PROVE  CpuFine(n, vendor)
<1>1. /\ DOMAIN cpu = Fields /\ cpu.tpc \in Nat /\ cpu.cpp \in Nat
      /\ ArrayFine(cpu.mems, cpu.tpc, vendor) /\ ArrayFine(cpu.tlbs, cpu.tpc, vendor)
  BY DEF CpuFine
<1>2. /\ DOMAIN n = Fields /\ n.tpc \in Nat /\ n.tpc <= cpu.tpc /\ n.cpp \in Nat
      /\ n.mems = cpu.mems /\ n.tlbs = cpu.tlbs
  BY <1>1, CoresFact
<1>3. ArrayFine(cpu.mems, n.tpc, vendor)
  BY <1>1, <1>2, NarrowerFine
<1>4. ArrayFine(cpu.tlbs, n.tpc, vendor)
  BY <1>1, <1>2, NarrowerFine
<1>5. QED
  BY <1>2, <1>3, <1>4 DEF CpuFine

\* A cache of leaf 4 is an entry, shared by the threads of a core.
LEMMA Leaf4CacheFact ==
    ASSUME NEW s \in Subleaves, s.type \in 1 .. 3, NEW tpc \in Nat, NEW vendor,
           NEW d, d = Leaf4Cache(s, tpc)
    PROVE  d \in Entries /\ Wide(d, tpc, vendor)
<1> DEFINE assoc == IF s.direct THEN 1 ELSE s.ways + 1
           p == (s.parts % 512) + 1
           type == CASE s.type = 1 -> Data [] s.type = 2 -> Code [] s.type = 3 -> Unified
           shared == AtLeast(s.shared + 1, tpc)
           size == (assoc * p * (s.line + 1) * (s.sets + 1)) \div 1024
<1>1. /\ s.ways \in Nat /\ s.parts \in Nat /\ s.line \in Nat /\ s.sets \in Nat /\ s.shared \in Nat
      /\ s.level \in Nat
  BY DEF Subleaves
<1>2. assoc \in Nat /\ p \in Nat
  BY <1>1
<1>3. type \in Nat
  BY DEF Data, Code, Unified
<1>4. shared \in Nat /\ shared >= tpc
  BY <1>1 DEF AtLeast
<1>5. size \in Nat
  <2> HIDE DEF assoc, p
  <2> DEFINE a == assoc * p
             b == s.line + 1
             c == a * b
             e == s.sets + 1
             f == c * e
  <2>1. a \in Nat
    BY <1>2
  <2> HIDE DEF a
  <2>2. b \in Nat
    BY <1>1
  <2> HIDE DEF b
  <2>3. c \in Nat
    BY <2>1, <2>2
  <2> HIDE DEF c
  <2>4. e \in Nat
    BY <1>1
  <2> HIDE DEF e
  <2>5. f \in Nat
    BY <2>3, <2>4
  <2>6. size = f \div 1024
    BY DEF a, b, c, e
  <2> HIDE DEF f
  <2>7. f \div 1024 \in Nat
    BY <2>5
  <2>8. QED
    BY ONLY <2>6, <2>7
<1>6. d = Desc(s.level, type, size, s.line + 1, assoc, shared)
  BY DEF Leaf4Cache
<1>7. s.line + 1 \in Nat
  BY <1>1
<1> HIDE DEF assoc, type, shared, size
<1>8. d \in Entries /\ d.shared = shared
  BY ONLY <1>1, <1>2, <1>3, <1>4, <1>5, <1>6, <1>7 DEF Desc, Entries
<1>9. QED
  BY <1>4, <1>8 DEF Wide

-----------------------------------------------------------------------------
(* The first inductive invariant: the arrays, the reports and the blocks.    *)

\* Where x86cpuid() is, and what it has done so far.
Phase ==
    /\ pc \in {"identify", "leaf4", "amd"} => todo = <<>>
    /\ pc = "identify" => cpu.mems = <<>> /\ cpu.tlbs = <<>>
    /\ pc = "leaf4" => proc.vendor = "intel" /\ proc.max >= CacheConf
    /\ pc = "amd" => proc.vendor = "amd"

Base ==
    /\ proc \in Processors /\ level \in Nat /\ maxdc \in Nat /\ sub \in Nat
    /\ CpuFine(cpu, proc.vendor)
    /\ todo \in Seq(ToAdd(cpu.tpc, proc.vendor))
    /\ Phase
    /\ NothingLost

\* The power of two a count is rounded up to is a natural.
LEMMA RoundUpFact ==
    ASSUME NEW n \in Nat, 1 <= n, n <= 32768
    PROVE  RoundUp(n) \in Nat
<1> DEFINE T == {p \in Powers : p >= n}
<1>1. T \subseteq Nat
  BY SMT DEF Powers
<1>2. RoundUp(n) = Min(T)
  BY DEF RoundUp
<1>3. T # {}
  <2>1. 32768 \in T
    BY SMT DEF Powers
  <2>2. QED
    BY <2>1, SMT
<1> HIDE DEF T
<1>4. \E x \in T : \A y \in T : x <= y
  BY ONLY <1>1, <1>3, Least
<1>5. Min(T) \in T
  BY ONLY <1>4 DEF Min
<1>6. QED
  BY ONLY <1>1, <1>2, <1>5

\* Threads per core and cores per package are naturals.
LEMMA TopologyFact ==
    ASSUME NEW p \in Processors, NEW cpp \in Nat
    PROVE  /\ IdX86Topology(p, cpp).tpc \in Nat /\ IdX86Topology(p, cpp).cpp \in Nat
           /\ p.vendor = "intel" => IdIntelTopology(p).tpc \in Nat /\ IdIntelTopology(p).cpp \in Nat
<1>1. p.logical \in Nat /\ p.logical < 256
  BY ProcessorsAssumption
<1>2. p.logical # 0 => RoundUp(p.logical) \in Nat
  BY <1>1, RoundUpFact
<1>3. RoundUp(1) \in Nat
  BY RoundUpFact
<1>4. \A c \in Nat : IdX86Topology(p, c).tpc \in Nat /\ IdX86Topology(p, c).cpp \in Nat
  BY <1>2, <1>3 DEF IdX86Topology, NoTopology
<1>5. ASSUME p.vendor = "intel"
      PROVE  IdIntelTopology(p).tpc \in Nat /\ IdIntelTopology(p).cpp \in Nat
  <2>1. p.b[0].count \in Nat /\ p.b[1].count \in Nat
    BY <1>5, ProcessorsAssumption
  <2>2. QED
    BY <1>4, <2>1 DEF IdIntelTopology, NoTopology
<1>6. QED
  BY <1>4, <1>5

\* The initial states.
LEMMA BaseInit == Init => Base
<1>1. SUFFICES ASSUME Init PROVE Base
  OBVIOUS
<1>2. /\ pc = "identify" /\ proc \in Processors /\ level \in Nat /\ maxdc \in Nat /\ sub \in Nat
      /\ todo = <<>> /\ live = {}
  BY <1>1 DEF Init
<1>3. /\ DOMAIN cpu = Fields /\ cpu.tpc = 0 /\ cpu.cpp = 0 /\ cpu.mems = <<>> /\ cpu.tlbs = <<>>
      /\ cpu.holds = {}
  BY <1>1 DEF Init, Fields
<1>4. ArrayFine(<<>>, 0, proc.vendor)
  BY DEF ArrayFine, Sorted
<1>5. CpuFine(cpu, proc.vendor)
  BY <1>3, <1>4 DEF CpuFine
<1>6. QED
  BY <1>2, <1>3, <1>5 DEF Base, Phase, NothingLost

\* A call that fails leaves the description for the caller to free.
LEMMA FailsStep ==
    ASSUME Base, Fails, CpuFine(cpu', proc.vendor), cpu'.holds = cpu.holds, pc # "freed",
           cpu'.tpc = cpu.tpc \/ todo = <<>>
    PROVE  Base'
<1>1. /\ pc' = "failed" /\ proc' = proc /\ level' = level /\ maxdc' = maxdc /\ sub' = sub
      /\ todo' = todo /\ live' = live
  BY DEF Fails
<1>2. /\ proc' \in Processors /\ level' \in Nat /\ maxdc' \in Nat /\ sub' \in Nat
      /\ CpuFine(cpu, proc.vendor)'
  BY <1>1 DEF Base
<1>3. todo' \in Seq(ToAdd(cpu'.tpc, proc'.vendor))
  <2>1. CASE cpu'.tpc = cpu.tpc
    BY <1>1, <2>1 DEF Base
  <2>2. CASE todo = <<>>
    BY <1>1, <2>2
  <2>3. QED
    BY <2>1, <2>2
<1>4. NothingLost' /\ Phase'
  BY <1>1 DEF Base, NothingLost, Phase
<1>5. QED
  BY <1>2, <1>3, <1>4 DEF Base

\* An entry of description c is added, and its block is held.
LEMMA AddStep ==
    ASSUME Base, pc # "freed", NEW c, CpuFine(c, proc.vendor), c.holds = cpu.holds,
           NEW array \in {"mem", "tlb"}, NEW d \in Entries, Wide(d, c.tpc, proc.vendor),
           cpu' = Added(c, array, d), live' = live \cup {array}
    PROVE  CpuFine(cpu', proc.vendor) /\ cpu'.tpc = c.tpc /\ live' = cpu'.holds
<1>1. DOMAIN c = Fields
  BY DEF CpuFine
<1>2. cpu'.tpc = c.tpc /\ cpu'.holds = c.holds \cup {array}
  BY <1>1, AddedFact
<1>3. CpuFine(cpu', proc.vendor)
  BY AddedFine
<1>4. live = cpu.holds
  BY DEF Base, NothingLost
<1>5. QED
  BY <1>2, <1>3, <1>4

\* Where the vendor's functions take x86cpuid().
LEMMA IdentifyCases ==
    ASSUME Identify
    PROVE  \/ proc.vendor = "via" /\ proc.max >= CpuVersion
           \/ /\ proc.vendor = "intel" /\ proc.max >= CacheConf /\ pc' = "leaf4"
              /\ UNCHANGED <<proc, level, maxdc, sub, todo, live>>
           \/ proc.vendor = "intel" /\ proc.max < CacheConf /\ Leaf2Starts(cpu')
           \/ proc.vendor = "amd" /\ pc' = "amd" /\ UNCHANGED <<proc, level, maxdc, sub, todo, live>>
           \/ Fails
<1> DEFINE top == CASE proc.vendor = "intel" -> IdIntelTopology(proc)
                    [] proc.vendor = "amd" -> IdAmdTopology(proc) [] OTHER -> NoTopology
<1>1. CASE proc.vendor = "via" /\ proc.max >= CpuVersion
  BY <1>1
<1>2. CASE proc.vendor = "intel" /\ top # NoTopology /\ proc.max >= CacheConf
  BY <1>2 DEF Identify
<1>3. CASE proc.vendor = "intel" /\ top # NoTopology /\ proc.max < CacheConf
  BY <1>3 DEF Identify
<1>4. CASE proc.vendor = "amd" /\ top # NoTopology
  BY <1>4 DEF Identify
<1>5. CASE ~(\/ proc.vendor = "via" /\ proc.max >= CpuVersion
             \/ proc.vendor = "intel" /\ top # NoTopology /\ proc.max >= CacheConf
             \/ proc.vendor = "intel" /\ top # NoTopology /\ proc.max < CacheConf
             \/ proc.vendor = "amd" /\ top # NoTopology)
  BY <1>5 DEF Identify
<1>6. QED
  BY ONLY <1>1, <1>2, <1>3, <1>4, <1>5

\* Vendor, signature and topology.
LEMMA IdentifyBase == Base /\ Identify => Base'
<1>1. SUFFICES ASSUME Base, Identify PROVE Base'
  OBVIOUS
<1> DEFINE top == CASE proc.vendor = "intel" -> IdIntelTopology(proc)
                    [] proc.vendor = "amd" -> IdAmdTopology(proc) [] OTHER -> NoTopology
           cpp == IF proc.vendor = "intel" /\ proc.max < CacheConf THEN 1 ELSE top.cpp
           via == Report("mem", Desc(1, Unknown, 0, 32, 0, 0))
<1>2. /\ pc = "identify" /\ todo = <<>> /\ cpu.mems = <<>> /\ cpu.tlbs = <<>> /\ proc \in Processors
      /\ level \in Nat /\ maxdc \in Nat /\ sub \in Nat /\ live = cpu.holds /\ DOMAIN cpu = Fields
  BY <1>1 DEF Identify, Base, Phase, NothingLost, CpuFine
<1>3. top.tpc \in Nat /\ top.cpp \in Nat /\ cpp \in Nat
  BY <1>2, TopologyFact DEF IdAmdTopology, NoTopology
<1>4. cpu' = [cpu EXCEPT !.tpc = top.tpc, !.apic = top.apic, !.sig = Signature(proc.sig), !.cpp = cpp]
  BY <1>1 DEF Identify
<1>5. CASE proc.vendor = "via" /\ proc.max >= CpuVersion
  <2>1. pc' = "reports" /\ todo' = <<via>> /\ UNCHANGED <<proc, level, maxdc, sub, live>>
    BY <1>1, <1>5 DEF Identify
  <2>2. top.tpc = 0
    BY <1>5 DEF NoTopology
  <2> HIDE DEF top, cpp
  <2>3. /\ DOMAIN cpu' = Fields /\ cpu'.tpc = 0 /\ cpu'.cpp = cpp /\ cpu'.mems = <<>>
        /\ cpu'.tlbs = <<>> /\ cpu'.holds = cpu.holds
    BY <1>2, <1>4, <2>2 DEF Fields
  <2>4. CpuFine(cpu', proc.vendor)
    BY <1>3, <2>3 DEF CpuFine, ArrayFine, Sorted
  <2>5. Reported(via, 0, proc.vendor)
    <3> DEFINE e == Desc(1, Unknown, 0, 32, 0, 0)
    <3>1. e \in Entries /\ e.shared = 0
      BY DEF Desc, Entries, Unknown
    <3> HIDE DEF e
    <3>2. Wide(e, 0, proc.vendor)
      BY <3>1 DEF Wide
    <3>3. via = Report("mem", e)
      BY DEF e
    <3>4. "mem" \in Filled /\ ~(proc.vendor = "intel" /\ "mem" = "mem")
      BY <1>5 DEF Filled
    <3> HIDE DEF via
    <3>5. QED
      BY ONLY <3>1, <3>2, <3>3, <3>4, SomethingToAdd
  <2> HIDE DEF via
  <2>6. todo' \in Seq(ToAdd(cpu'.tpc, proc.vendor))
    <3>1. via \in ToAdd(cpu'.tpc, proc.vendor)
      BY <2>3, <2>5, ToAddFact
    <3>2. QED
      BY <2>1, <3>1
  <2>7. QED
    BY <1>2, <2>1, <2>3, <2>4, <2>6 DEF Base, Phase, NothingLost
<1>6. ASSUME pc' \in {"leaf4", "amd"}, UNCHANGED <<proc, level, maxdc, sub, todo, live>>,
             pc' = "leaf4" => proc.vendor = "intel" /\ proc.max >= CacheConf,
             pc' = "amd" => proc.vendor = "amd"
      PROVE  Base'
  <2> HIDE DEF top, cpp
  <2>1. /\ DOMAIN cpu' = Fields /\ cpu'.tpc = top.tpc /\ cpu'.cpp = cpp /\ cpu'.mems = <<>>
        /\ cpu'.tlbs = <<>> /\ cpu'.holds = cpu.holds
    BY <1>2, <1>4 DEF Fields
  <2>2. CpuFine(cpu', proc.vendor)
    BY <1>3, <2>1 DEF CpuFine, ArrayFine, Sorted
  <2>3. todo' \in Seq(ToAdd(cpu'.tpc, proc'.vendor))
    BY <1>2, <1>6
  <2>4. QED
    BY <1>2, <1>6, <2>1, <2>2, <2>3 DEF Base, Phase, NothingLost
<1>7. ASSUME Fails PROVE Base'
  <2> HIDE DEF top, cpp
  <2>1. /\ DOMAIN cpu' = Fields /\ cpu'.tpc = top.tpc /\ cpu'.cpp = cpp /\ cpu'.mems = <<>>
        /\ cpu'.tlbs = <<>> /\ cpu'.holds = cpu.holds
    BY <1>2, <1>4 DEF Fields
  <2>2. CpuFine(cpu', proc.vendor)
    BY <1>3, <2>1 DEF CpuFine, ArrayFine, Sorted
  <2>3. QED
    BY <1>1, <1>2, <1>7, <2>1, <2>2, FailsStep
<1>8. ASSUME proc.vendor = "intel", Leaf2Starts(cpu') PROVE Base'
  <2> HIDE DEF top, cpp
  <2>1. /\ DOMAIN cpu' = Fields /\ cpu'.tpc = top.tpc /\ cpu'.cpp = cpp /\ cpu'.mems = <<>>
        /\ cpu'.tlbs = <<>> /\ cpu'.holds = cpu.holds
    BY <1>2, <1>4 DEF Fields
  <2>2. CASE Fails
    BY <1>7, <2>2
  <2>3. CASE ~Fails
    <3>1. pc' = "reports" /\ UNCHANGED <<proc, level, maxdc, sub, live>>
      BY <1>8, <2>3 DEF Leaf2Starts
    <3>2. CpuFine(cpu', proc.vendor)
      BY <1>3, <2>1 DEF CpuFine, ArrayFine, Sorted
    <3>3. cpu'.tpc \in Nat
      BY <1>3, <2>1
    <3>4. todo' \in Seq(ToAdd(cpu'.tpc, proc.vendor))
      BY <1>8, <3>1, <3>3, Leaf2Fact
    <3>5. QED
      BY <1>2, <2>1, <3>1, <3>2, <3>4 DEF Base, Phase, NothingLost
  <2>4. QED
    BY <2>2, <2>3
<1>9. \/ proc.vendor = "via" /\ proc.max >= CpuVersion
      \/ /\ proc.vendor = "intel" /\ proc.max >= CacheConf /\ pc' = "leaf4"
         /\ UNCHANGED <<proc, level, maxdc, sub, todo, live>>
      \/ proc.vendor = "intel" /\ proc.max < CacheConf /\ Leaf2Starts(cpu')
      \/ proc.vendor = "amd" /\ pc' = "amd" /\ UNCHANGED <<proc, level, maxdc, sub, todo, live>>
      \/ Fails
  BY <1>1, IdentifyCases
<1>10. QED
  BY <1>5, <1>6, <1>7, <1>8, <1>9

\* A subleaf is one of the list or the null one.
LEMMA SubleafFact ==
    ASSUME proc \in Processors, proc.vendor = "intel", NEW n \in Nat, NEW s, s = Subleaf(n)
    PROVE  /\ n < Len(proc.leaf4) => s = proc.leaf4[n + 1] /\ n + 1 \in DOMAIN proc.leaf4 /\ s \in Subleaves
           /\ n >= Len(proc.leaf4) => s.type = 0
           /\ s.type \in Nat
           /\ s.type # 0 => n < Len(proc.leaf4)
<1>1. proc.leaf4 \in Seq(Subleaves)
  BY ProcessorsAssumption
<1>2. ASSUME n < Len(proc.leaf4)
      PROVE  s = proc.leaf4[n + 1] /\ n + 1 \in DOMAIN proc.leaf4 /\ s \in Subleaves
  <2>1. s = proc.leaf4[n + 1]
    BY <1>2 DEF Subleaf
  <2>2. n + 1 \in DOMAIN proc.leaf4
    BY <1>1, <1>2
  <2>3. QED
    BY <1>1, <2>1, <2>2
<1>3. ASSUME n >= Len(proc.leaf4) PROVE s.type = 0
  <2>1. Len(proc.leaf4) \in Nat
    BY <1>1
  <2>2. ~(n < Len(proc.leaf4))
    BY <1>3, <2>1
  <2>3. QED
    BY <2>2 DEF Subleaf
<1>4. s \in Subleaves => s.type \in Nat /\ s.type # 0
  BY DEF Subleaves
<1>5. Len(proc.leaf4) \in Nat
  BY <1>1
<1>6. QED
  BY <1>2, <1>3, <1>4, <1>5

\* One subleaf of leaf 4.
LEMMA Leaf4Base == Base /\ Leaf4 => Base'
<1>1. SUFFICES ASSUME Base, Leaf4 PROVE Base'
  OBVIOUS
<1> DEFINE s == Subleaf(sub)
           c == Cores(s)
<1>2. /\ pc = "leaf4" /\ todo = <<>> /\ proc \in Processors /\ proc.vendor = "intel"
      /\ proc.max >= CacheConf /\ level \in Nat /\ maxdc \in Nat /\ sub \in Nat
      /\ CpuFine(cpu, proc.vendor) /\ live = cpu.holds
  BY <1>1 DEF Leaf4, Base, Phase, NothingLost
<1>3. DOMAIN cpu = Fields /\ cpu.tpc \in Nat /\ cpu.cpp \in Nat
  BY <1>2 DEF CpuFine
<1>4. CASE s.type = 0 /\ LevelLeft /\ level' = level + 1 /\ sub' = 0 /\ UNCHANGED <<pc, proc, cpu, maxdc, todo, live>>
  BY <1>1, <1>2, <1>4 DEF Base, Phase, NothingLost
<1>5. CASE Fails /\ UNCHANGED cpu
  BY <1>1, <1>2, <1>5, FailsStep
<1>6. CASE Leaf2Starts(cpu) /\ UNCHANGED cpu
  <2>1. CASE Fails
    BY <1>5, <1>6, <2>1
  <2>2. CASE ~Fails
    <3>1. pc' = "reports" /\ UNCHANGED <<proc, level, maxdc, sub, live>>
      BY <1>6, <2>2 DEF Leaf2Starts
    <3>2. todo' \in Seq(ToAdd(cpu.tpc, proc.vendor))
      BY <1>3, <1>6, <3>1, Leaf2Fact
    <3>3. QED
      BY <1>2, <1>6, <3>1, <3>2 DEF Base, Phase, NothingLost
  <2>3. QED
    BY <2>1, <2>2
<1>7. CASE /\ s.type \in 1 .. 3 /\ s.level # level
           /\ sub' = sub + 1 /\ maxdc' = IF s.level > maxdc THEN s.level ELSE maxdc
           /\ UNCHANGED <<pc, proc, cpu, level, todo, live>>
  <2>1. s \in Subleaves
    <3>1. s.type # 0
      BY <1>7
    <3>2. QED
      BY <1>2, <3>1, SubleafFact
  <2>2. s.level \in Nat
    BY <2>1 DEF Subleaves
  <2>3. maxdc' \in Nat /\ sub' \in Nat
    BY <1>2, <1>7, <2>2
  <2>4. QED
    BY <1>1, <1>2, <1>7, <2>3 DEF Base, Phase, NothingLost
<1>8. CASE /\ s.type \in 1 .. 3 /\ s.level = level
           /\ IF c.tpc = 0 \/ (cpu.cpp # 0 /\ cpu.cpp \div cpu.tpc > s.cores + 1)
              THEN Fails /\ cpu' = [cpu EXCEPT !.tpc = c.tpc]
              ELSE Add(c, "mem", Leaf4Cache(s, c.tpc),
                       sub' = sub + 1 /\ UNCHANGED <<pc, proc, level, maxdc, todo>>)
  <2>1. s \in Subleaves
    <3>1. s.type # 0
      BY <1>8
    <3>2. QED
      BY <1>2, <3>1, SubleafFact
  <2>2. s.cores \in Nat /\ s.type \in 1 .. 3
    BY <1>8, <2>1 DEF Subleaves
  <2> HIDE DEF s
  <2>3. /\ DOMAIN c = Fields /\ c.tpc \in Nat /\ c.tpc <= cpu.tpc /\ c.cpp \in Nat
        /\ c.mems = cpu.mems /\ c.tlbs = cpu.tlbs /\ c.holds = cpu.holds
    BY <1>3, <2>2, CoresFact
  <2>4. CpuFine(c, proc.vendor)
    BY <1>2, <2>2, CoresFine
  <2> HIDE DEF c
  <2>5. CASE Fails /\ cpu' = [cpu EXCEPT !.tpc = c.tpc]
    <3>1. /\ DOMAIN cpu' = Fields /\ cpu'.tpc = c.tpc /\ cpu'.cpp = cpu.cpp /\ cpu'.mems = cpu.mems
          /\ cpu'.tlbs = cpu.tlbs /\ cpu'.holds = cpu.holds
      BY <1>3, <2>5 DEF Fields
    <3>2. CpuFine(cpu', proc.vendor)
      BY <1>3, <2>3, <2>4, <3>1 DEF CpuFine
    <3>3. QED
      BY <1>1, <1>2, <2>5, <3>1, <3>2, FailsStep
  <2>6. CASE Fails /\ cpu' = c
    BY <1>1, <1>2, <2>3, <2>4, <2>6, FailsStep
  <2>7. CASE /\ sub' = sub + 1 /\ UNCHANGED <<pc, proc, level, maxdc, todo>>
             /\ cpu' = Added(c, "mem", Leaf4Cache(s, c.tpc)) /\ live' = live \cup {"mem"}
    <3> DEFINE d == Leaf4Cache(s, c.tpc)
    <3>1. d \in Entries /\ Wide(d, c.tpc, proc.vendor)
      BY <2>1, <2>2, <2>3, Leaf4CacheFact
    <3> HIDE DEF d
    <3>2. cpu' = Added(c, "mem", d) /\ live' = live \cup {"mem"} /\ "mem" \in {"mem", "tlb"}
      BY <2>7 DEF d
    <3>3. CpuFine(cpu', proc.vendor) /\ live' = cpu'.holds
      BY <1>1, <1>2, <2>3, <2>4, <3>1, <3>2, AddStep
    <3>4. todo' \in Seq(ToAdd(cpu'.tpc, proc'.vendor))
      BY <1>2, <2>7
    <3>5. QED
      BY <1>2, <2>7, <3>3, <3>4 DEF Base, Phase, NothingLost
  <2>8. QED
    BY <1>8, <2>5, <2>6, <2>7 DEF Add
<1>9. QED
  <2>1. \/ s.type = 0 /\ LevelLeft /\ level' = level + 1 /\ sub' = 0 /\ UNCHANGED <<pc, proc, cpu, maxdc, todo, live>>
        \/ s.type = 0 /\ ~LevelLeft /\ Leaf2Starts(cpu) /\ UNCHANGED cpu
        \/ s.type > 3 /\ Fails /\ UNCHANGED cpu
        \/ /\ s.type \in 1 .. 3 /\ s.level # level
           /\ sub' = sub + 1 /\ maxdc' = IF s.level > maxdc THEN s.level ELSE maxdc
           /\ UNCHANGED <<pc, proc, cpu, level, todo, live>>
        \/ /\ s.type \in 1 .. 3 /\ s.level = level
           /\ IF c.tpc = 0 \/ (cpu.cpp # 0 /\ cpu.cpp \div cpu.tpc > s.cores + 1)
              THEN Fails /\ cpu' = [cpu EXCEPT !.tpc = c.tpc]
              ELSE Add(c, "mem", Leaf4Cache(s, c.tpc),
                       sub' = sub + 1 /\ UNCHANGED <<pc, proc, level, maxdc, todo>>)
    BY <1>1 DEF Leaf4
  <2>2. QED
    BY ONLY <1>4, <1>5, <1>6, <1>7, <1>8, <2>1

\* AMD's leaves are decoded.
LEMMA AmdCachesBase == Base /\ AmdCaches => Base'
<1>1. SUFFICES ASSUME Base, AmdCaches PROVE Base'
  OBVIOUS
<1>2. /\ pc = "amd" /\ todo = <<>> /\ proc \in Processors /\ proc.vendor = "amd"
      /\ level \in Nat /\ maxdc \in Nat /\ sub \in Nat
      /\ CpuFine(cpu, proc.vendor) /\ live = cpu.holds /\ UNCHANGED cpu
  BY <1>1 DEF AmdCaches, Base, Phase, NothingLost
<1>3. CASE Fails
  BY <1>1, <1>2, <1>3, FailsStep
<1>4. CASE ~Fails
  <2>1. pc' = "reports" /\ UNCHANGED <<proc, level, maxdc, sub, live>>
    BY <1>1, <1>4 DEF AmdCaches
  <2>2. cpu.tpc \in Nat /\ cpu.cpp \in Nat
    BY <1>2 DEF CpuFine
  <2>3. todo' \in Seq(ToAdd(cpu.tpc, "amd"))
    BY <1>1, <1>2, <2>1, <2>2, AmdCachesFact
  <2>4. QED
    BY <1>2, <2>1, <2>3 DEF Base, Phase, NothingLost
<1>5. QED
  BY <1>3, <1>4

\* What a report does: the ways NextReport can go.
LEMMA ReportCases ==
    ASSUME Base, NextReport, NEW r, r = Head(todo)
    PROVE  /\ Reported(r, cpu.tpc, proc.vendor) /\ pc = "reports" /\ todo # <<>>
           /\ \/ Fails /\ UNCHANGED cpu
              \/ pc' = "sigfpe" /\ UNCHANGED <<proc, cpu, level, maxdc, sub, todo, live>>
              \/ /\ r.array = "skip" \/ (r.array = "unless" /\ Key(r.d) \in KeysOf(cpu.mems))
                 /\ todo' = Tail(todo) /\ UNCHANGED <<pc, proc, level, maxdc, sub, cpu, live>>
              \/ /\ r.array = "unless" /\ Key(r.d) \notin KeysOf(cpu.mems)
                 /\ todo' = Tail(todo) /\ UNCHANGED <<pc, proc, level, maxdc, sub>>
                 /\ cpu' = Added(cpu, "mem", r.d) /\ live' = live \cup {"mem"}
              \/ /\ r.array \in {"mem", "tlb"}
                 /\ todo' = Tail(todo) /\ UNCHANGED <<pc, proc, level, maxdc, sub>>
                 /\ cpu' = Added(cpu, r.array, r.d) /\ live' = live \cup {r.array}
<1> DEFINE known == \E i \in DOMAIN cpu.mems : Key(cpu.mems[i]) = Key(r.d)
           pass == todo' = Tail(todo) /\ UNCHANGED <<pc, proc, level, maxdc, sub>>
<1>1. pc = "reports" /\ todo # <<>> /\ todo \in Seq(ToAdd(cpu.tpc, proc.vendor))
  BY DEF NextReport, Base
<1>2. r \in ToAdd(cpu.tpc, proc.vendor)
  BY <1>1
<1>3. Reported(r, cpu.tpc, proc.vendor)
  BY <1>2, ToAddFact
<1>4. r.array \in {"bad", "fault", "skip", "unless", "mem", "tlb"}
  <2>1. r \in [array : Filled, d : Entries] \/ r \in {Bad, Fault, Skip}
    BY <1>3 DEF Reported, Reports
  <2>2. r \in [array : Filled, d : Entries] => r.array \in Filled
    OBVIOUS
  <2>3. r \in {Bad, Fault, Skip} => r.array \in {"bad", "fault", "skip"}
    BY DEF Bad, Fault, Skip, Report
  <2>4. QED
    BY <2>1, <2>2, <2>3 DEF Filled
<1>5. known <=> Key(r.d) \in KeysOf(cpu.mems)
  BY DEF KeysOf
<1>6. CASE r.array = "bad"
  BY <1>1, <1>3, <1>6 DEF NextReport
<1>7. CASE r.array = "fault"
  BY <1>1, <1>3, <1>7 DEF NextReport
<1>8. CASE r.array = "skip"
  BY <1>1, <1>3, <1>8 DEF NextReport
<1>9. CASE r.array = "unless" /\ known
  <2>1. pass /\ UNCHANGED <<cpu, live>>
    BY <1>9 DEF NextReport
  <2>2. QED
    BY <1>1, <1>3, <1>5, <1>9, <2>1
<1>10. CASE r.array = "unless" /\ ~known
  <2>1. Add(cpu, "mem", r.d, pass)
    BY <1>10 DEF NextReport
  <2>2. QED
    BY <1>1, <1>3, <1>5, <1>10, <2>1 DEF Add
<1>11. CASE r.array \in {"mem", "tlb"}
  <2>1. Add(cpu, r.array, r.d, pass)
    BY <1>11 DEF NextReport
  <2>2. QED
    BY <1>1, <1>3, <1>11, <2>1 DEF Add
<1>12. QED
  BY ONLY <1>4, <1>6, <1>7, <1>8, <1>9, <1>10, <1>11

\* The next report is dealt with.
LEMMA NextReportBase == Base /\ NextReport => Base'
<1>1. SUFFICES ASSUME Base, NextReport PROVE Base'
  OBVIOUS
<1> DEFINE r == Head(todo)
           S == ToAdd(cpu.tpc, proc.vendor)
<1>2. /\ Reported(r, cpu.tpc, proc.vendor) /\ pc = "reports" /\ todo # <<>>
      /\ \/ Fails /\ UNCHANGED cpu
         \/ pc' = "sigfpe" /\ UNCHANGED <<proc, cpu, level, maxdc, sub, todo, live>>
         \/ /\ r.array = "skip" \/ (r.array = "unless" /\ Key(r.d) \in KeysOf(cpu.mems))
            /\ todo' = Tail(todo) /\ UNCHANGED <<pc, proc, level, maxdc, sub, cpu, live>>
         \/ /\ r.array = "unless" /\ Key(r.d) \notin KeysOf(cpu.mems)
            /\ todo' = Tail(todo) /\ UNCHANGED <<pc, proc, level, maxdc, sub>>
            /\ cpu' = Added(cpu, "mem", r.d) /\ live' = live \cup {"mem"}
         \/ /\ r.array \in {"mem", "tlb"}
            /\ todo' = Tail(todo) /\ UNCHANGED <<pc, proc, level, maxdc, sub>>
            /\ cpu' = Added(cpu, r.array, r.d) /\ live' = live \cup {r.array}
  BY <1>1, ReportCases
<1>3. /\ proc \in Processors /\ level \in Nat /\ maxdc \in Nat /\ sub \in Nat
      /\ CpuFine(cpu, proc.vendor) /\ todo \in Seq(S) /\ live = cpu.holds
  BY <1>1, <1>2 DEF Base, NothingLost
<1> HIDE DEF S
<1>4. Tail(todo) \in Seq(S)
  BY <1>2, <1>3
<1> HIDE DEF r
<1>5. r.array \in Filled => r.d \in Entries /\ Wide(r.d, cpu.tpc, proc.vendor)
  BY <1>2 DEF Reported
<1>6. CASE Fails /\ UNCHANGED cpu
  BY <1>1, <1>2, <1>3, <1>6, FailsStep
<1>7. CASE pc' = "sigfpe" /\ UNCHANGED <<proc, cpu, level, maxdc, sub, todo, live>>
  BY <1>1, <1>2, <1>7 DEF Base, Phase, NothingLost
<1>8. CASE todo' = Tail(todo) /\ UNCHANGED <<pc, proc, level, maxdc, sub, cpu, live>>
  BY <1>2, <1>3, <1>4, <1>8 DEF Base, Phase, NothingLost, S
<1>9. ASSUME NEW array \in {"mem", "tlb"}, r.array \in Filled,
             todo' = Tail(todo), UNCHANGED <<pc, proc, level, maxdc, sub>>,
             cpu' = Added(cpu, array, r.d), live' = live \cup {array}
      PROVE  Base'
  <2>1. CpuFine(cpu', proc.vendor) /\ cpu'.tpc = cpu.tpc /\ live' = cpu'.holds
    BY <1>1, <1>2, <1>3, <1>5, <1>9, AddStep
  <2>2. QED
    BY <1>2, <1>3, <1>4, <1>9, <2>1 DEF Base, Phase, NothingLost, S
<1>10. QED
  <2>1. "unless" \in Filled /\ "mem" \in Filled /\ "tlb" \in Filled
    BY DEF Filled
  <2>2. QED
    BY <1>2, <1>6, <1>7, <1>8, <1>9, <2>1

\* A field other than the arrays is set.
LEMMA OtherField ==
    ASSUME NEW vendor, CpuFine(cpu, vendor), NEW n, DOMAIN n = Fields, n.tpc = cpu.tpc,
           n.cpp = cpu.cpp, n.mems = cpu.mems, n.tlbs = cpu.tlbs
    PROVE  CpuFine(n, vendor)
BY DEF CpuFine

\* The brand name is copied.
LEMMA GetBrandnameBase == Base /\ GetBrandname => Base'
<1>1. SUFFICES ASSUME Base, GetBrandname PROVE Base'
  OBVIOUS
<1>2. /\ pc = "reports" /\ proc \in Processors /\ level \in Nat /\ maxdc \in Nat /\ sub \in Nat
      /\ CpuFine(cpu, proc.vendor) /\ todo \in Seq(ToAdd(cpu.tpc, proc.vendor)) /\ live = cpu.holds
  BY <1>1 DEF GetBrandname, Base, NothingLost
<1>3. CASE Fails /\ UNCHANGED cpu
  BY <1>1, <1>2, <1>3, FailsStep
<1>4. CASE /\ pc' = "place" /\ live' = live \cup {"brand"} /\ UNCHANGED <<proc, level, maxdc, sub, todo>>
           /\ cpu' = [cpu EXCEPT !.brand = Collapsed(proc.brand), !.holds = @ \cup {"brand"}]
  <2>1. DOMAIN cpu = Fields
    BY <1>2 DEF CpuFine
  <2>2. /\ DOMAIN cpu' = Fields /\ cpu'.tpc = cpu.tpc /\ cpu'.cpp = cpu.cpp /\ cpu'.mems = cpu.mems
        /\ cpu'.tlbs = cpu.tlbs /\ cpu'.holds = cpu.holds \cup {"brand"}
    BY <1>4, <2>1 DEF Fields
  <2>3. CpuFine(cpu', proc.vendor)
    BY <1>2, <2>2, OtherField
  <2>4. QED
    BY <1>2, <1>4, <2>2, <2>3 DEF Base, Phase, NothingLost
<1>5. QED
  BY <1>1, <1>3, <1>4 DEF GetBrandname

\* The processor is placed.
LEMMA PlacedBase == Base /\ Placed => Base'
<1>1. SUFFICES ASSUME Base, Placed PROVE Base'
  OBVIOUS
<1> DEFINE place == X86TopologyOf(cpu)
<1>2. /\ pc = "place" /\ proc \in Processors /\ level \in Nat /\ maxdc \in Nat /\ sub \in Nat
      /\ CpuFine(cpu, proc.vendor) /\ todo \in Seq(ToAdd(cpu.tpc, proc.vendor)) /\ live = cpu.holds
  BY <1>1 DEF Placed, Base, NothingLost
<1>3. DOMAIN cpu = Fields
  BY <1>2 DEF CpuFine
<1>4. cpu' = [cpu EXCEPT !.place = place]
  BY <1>1 DEF Placed
<1>5. \/ Fails
      \/ pc' = "known" /\ UNCHANGED <<proc, level, maxdc, sub, todo, live>>
  BY <1>1 DEF Placed
<1> HIDE DEF place
<1>6. /\ DOMAIN cpu' = Fields /\ cpu'.tpc = cpu.tpc /\ cpu'.cpp = cpu.cpp /\ cpu'.mems = cpu.mems
      /\ cpu'.tlbs = cpu.tlbs /\ cpu'.holds = cpu.holds
  BY <1>3, <1>4 DEF Fields
<1>7. CpuFine(cpu', proc.vendor)
  BY <1>2, <1>6, OtherField
<1>8. CASE Fails
  BY <1>1, <1>2, <1>6, <1>7, <1>8, FailsStep
<1>9. CASE pc' = "known" /\ UNCHANGED <<proc, level, maxdc, sub, todo, live>>
  BY <1>2, <1>6, <1>7, <1>9 DEF Base, Phase, NothingLost
<1>10. QED
  BY <1>5, <1>8, <1>9

\* The caller frees what the description holds.
LEMMA FreeBase == Base /\ FreeCpudetails => Base'
<1>1. SUFFICES ASSUME Base, FreeCpudetails PROVE Base'
  OBVIOUS
<1>2. /\ pc = "failed" /\ pc' = "freed" /\ live' = live \ cpu.holds
      /\ UNCHANGED <<proc, cpu, level, maxdc, sub, todo>>
  BY <1>1 DEF FreeCpudetails
<1>3. live' = {}
  BY <1>1, <1>2 DEF Base, NothingLost
<1>4. QED
  BY <1>1, <1>2, <1>3 DEF Base, Phase, NothingLost

\* Every step keeps the invariant.
LEMMA BaseStep == Base /\ [Next]_vars => Base'
<1>1. ASSUME Base, UNCHANGED vars PROVE Base'
  BY <1>1 DEF Base, Phase, NothingLost, vars
<1>2. QED
  BY <1>1, IdentifyBase, Leaf4Base, AmdCachesBase, NextReportBase, GetBrandnameBase, PlacedBase,
     FreeBase DEF Next

\* At every step of x86cpuid() the arrays are in order and their entries
\* shared by a core's threads, what remains to be reported is too, and the
\* description points to every block.
THEOREM BaseAlways == Spec => []Base
BY BaseInit, BaseStep, PTL DEF Spec

\* free_cpudetails() releases every block that a failed description has
\* allocated, whichever call failed.
THEOREM NothingLostAlways == Spec => []NothingLost
<1>1. Base => NothingLost
  BY DEF Base
<1>2. QED
  BY <1>1, BaseAlways, PTL

\* No cache or TLB of a finished description, an AMD L3 apart, is shared by
\* fewer processors than a core has threads.
THEOREM SharedByCoreAlways == Spec => []SharedByCore
<1>1. Base => SharedByCore
  <2>1. SUFFICES ASSUME Base, NEW s \in {cpu.mems, cpu.tlbs}, NEW i \in DOMAIN s
                 PROVE  s[i].shared >= cpu.tpc \/ (proc.vendor = "amd" /\ s[i].level = 3)
    BY DEF SharedByCore
  <2>2. ArrayFine(s, cpu.tpc, proc.vendor)
    BY <2>1 DEF Base, CpuFine
  <2>3. QED
    BY <2>1, <2>2 DEF ArrayFine, Wide
<1>2. QED
  BY <1>1, BaseAlways, PTL

-----------------------------------------------------------------------------
(* The caches of an Intel processor: leaf 2.                                 *)

\* The descriptors of one part of the table are in a range, and distinct.
LEMMA RowsA ==
    ASSUME NEW r \in CacheRowsA
    PROVE  /\ r[1] \in Nat /\ 6 <= r[1] /\ r[1] <= 60
           /\ \A s \in CacheRowsA : s[1] = r[1] => s = r
BY SMT DEF CacheRowsA, Code, Data, Unified

\* The same for the second part.
LEMMA RowsB ==
    ASSUME NEW r \in CacheRowsB
    PROVE  /\ r[1] \in Nat /\ 61 <= r[1] /\ r[1] <= 96
           /\ \A s \in CacheRowsB : s[1] = r[1] => s = r
BY SMT DEF CacheRowsB, Code, Data, Unified

\* The same for the third part.
LEMMA RowsC ==
    ASSUME NEW r \in CacheRowsC
    PROVE  /\ r[1] \in Nat /\ 102 <= r[1] /\ r[1] <= 134
           /\ \A s \in CacheRowsC : s[1] = r[1] => s = r
BY SMT DEF CacheRowsC, Code, Data, Unified

\* The same for the fourth part.
LEMMA RowsD ==
    ASSUME NEW r \in CacheRowsD
    PROVE  /\ r[1] \in Nat /\ 135 <= r[1] /\ r[1] <= 236
           /\ \A s \in CacheRowsD : s[1] = r[1] => s = r
BY SMT DEF CacheRowsD, Code, Data, Unified

\* No descriptor is null or in the cache table twice, so that the first row
\* that get_intel_cache() finds is the only one.
LEMMA RowsDistinct ==
    ASSUME NEW r \in CacheRows, NEW s \in CacheRows, r[1] = s[1]
    PROVE  r = s /\ r[1] # 0
<1>1. r \in CacheRowsA \/ r \in CacheRowsB \/ r \in CacheRowsC \/ r \in CacheRowsD
  BY DEF CacheRows
<1>2. s \in CacheRowsA \/ s \in CacheRowsB \/ s \in CacheRowsC \/ s \in CacheRowsD
  BY DEF CacheRows
<1>3. CASE r \in CacheRowsA
  <2>1. s \in CacheRowsA
    BY <1>2, <1>3, RowsA, RowsB, RowsC, RowsD
  <2>2. QED
    BY <1>3, <2>1, RowsA
<1>4. CASE r \in CacheRowsB
  <2>1. s \in CacheRowsB
    BY <1>2, <1>4, RowsA, RowsB, RowsC, RowsD
  <2>2. QED
    BY <1>4, <2>1, RowsB
<1>5. CASE r \in CacheRowsC
  <2>1. s \in CacheRowsC
    BY <1>2, <1>5, RowsA, RowsB, RowsC, RowsD
  <2>2. QED
    BY <1>5, <2>1, RowsC
<1>6. CASE r \in CacheRowsD
  <2>1. s \in CacheRowsD
    BY <1>2, <1>6, RowsA, RowsB, RowsC, RowsD
  <2>2. QED
    BY <1>6, <2>1, RowsD
<1>7. QED
  BY <1>1, <1>3, <1>4, <1>5, <1>6

RowKey(r) == <<r[2], r[3], r[4], r[5], r[6]>>

\* What a byte is described as, if it is the descriptor of a cache.
LEMMA CacheByte ==
    ASSUME NEW b, NEW tpc, NEW r, r = Described(b, tpc)
    PROVE  /\ r.array = "unless" => b # 0 /\ \E row \in CacheRows : row[1] = b /\ Key(r.d) = RowKey(row)
           /\ \A row \in CacheRows : row[1] = b => r.array = "unless" /\ Key(r.d) = RowKey(row)
<1> DEFINE cache == {x \in CacheRows : x[1] = b}
           desc(x) == Desc(x[2], x[3], x[4], x[5], x[6], tpc)
           x0 == CHOOSE y \in cache : TRUE
<1>1. CASE b # 0 /\ cache # {}
  <2>1. r = Report("unless", desc(x0))
    BY <1>1 DEF Described
  <2>2. x0 \in CacheRows /\ x0[1] = b
    BY <1>1
  <2> HIDE DEF x0
  <2>3. r.array = "unless" /\ r.d = desc(x0)
    BY <2>1 DEF Report
  <2>4. Key(desc(x0)) = RowKey(x0)
    BY DEF Key, Desc, RowKey
  <2> HIDE DEF desc
  <2>5. \A row \in CacheRows : row[1] = b => row = x0
    BY <2>2, RowsDistinct
  <2>6. QED
    BY <1>1, <2>2, <2>3, <2>4, <2>5
<1>2. CASE b = 0
  <2>1. r.array = "skip"
    BY <1>2 DEF Described, Skip, Report
  <2>2. \A row \in CacheRows : row[1] # b
    BY <1>2, RowsDistinct
  <2>3. QED
    BY <2>1, <2>2
<1>3. CASE b # 0 /\ cache = {}
  <2>1. r.array \in {"tlb", "skip", "bad"}
    BY <1>3 DEF Described, Skip, Bad, Report
  <2>2. \A row \in CacheRows : row[1] # b
    BY <1>3
  <2>3. QED
    BY <2>1, <2>2
<1>4. QED
  BY <1>1, <1>2, <1>3

\* The keys of leaf 2 are those of the caches its bytes are described as.
LEMMA Leaf2KeysFact ==
    ASSUME NEW q, NEW tpc,
           q = [n \in 1 .. 16 |->
                   Described(Descriptor(proc.leaf2.regs, ((n - 1) \div 4) + 1, ((n - 1) % 4) + 1), tpc)]
    PROVE  /\ \A n \in 1 .. 16 : q[n].array = "unless" => Key(q[n].d) \in Leaf2Keys
           /\ \A k \in Leaf2Keys : \E n \in 1 .. 16 : q[n].array = "unless" /\ Key(q[n].d) = k
<1> DEFINE regs == proc.leaf2.regs
           rows == {row \in CacheRows : \E z \in 1 .. 4 : \E i \in 1 .. 4 :
                       /\ ~regs[z].invalid /\ <<z, i>> # <<1, 4>> /\ regs[z].bytes[i] = row[1]}
<1>1. Leaf2Keys = {RowKey(row) : row \in rows}
  BY DEF Leaf2Keys, RowKey
<1>2. \A n \in 1 .. 16 : q[n] = Described(Descriptor(regs, ((n - 1) \div 4) + 1, ((n - 1) % 4) + 1), tpc)
  OBVIOUS
<1>3. ASSUME NEW n \in 1 .. 16, q[n].array = "unless" PROVE Key(q[n].d) \in Leaf2Keys
  <2> DEFINE z == ((n - 1) \div 4) + 1
             i == ((n - 1) % 4) + 1
             b == Descriptor(regs, z, i)
  <2>1. z \in 1 .. 4 /\ i \in 1 .. 4
    OBVIOUS
  <2>2. q[n] = Described(b, tpc)
    BY <1>2
  <2> HIDE DEF z, i
  <2>3. b # 0 /\ \E row \in CacheRows : row[1] = b /\ Key(q[n].d) = RowKey(row)
    <3> HIDE DEF b
    <3> QED
      BY <1>3, <2>2, CacheByte
  <2>4. PICK row \in CacheRows : row[1] = b /\ Key(q[n].d) = RowKey(row)
    BY <2>3
  <2>5. ~regs[z].invalid /\ ~(z = 1 /\ i = 4) /\ regs[z].bytes[i] = row[1]
    BY <2>3, <2>4 DEF Descriptor
  <2>6. <<z, i>> # <<1, 4>>
    BY <2>5
  <2>7. row \in rows
    BY <2>1, <2>5, <2>6
  <2>8. QED
    BY <1>1, <2>4, <2>7
<1>4. ASSUME NEW k \in Leaf2Keys PROVE \E n \in 1 .. 16 : q[n].array = "unless" /\ Key(q[n].d) = k
  <2>1. PICK row \in rows : k = RowKey(row)
    BY <1>1
  <2>2. PICK z \in 1 .. 4, i \in 1 .. 4 :
           ~regs[z].invalid /\ <<z, i>> # <<1, 4>> /\ regs[z].bytes[i] = row[1]
    BY <2>1
  <2> DEFINE n == 4 * (z - 1) + i
  <2>3. n \in 1 .. 16 /\ ((n - 1) \div 4) + 1 = z /\ ((n - 1) % 4) + 1 = i
    OBVIOUS
  <2> HIDE DEF n
  <2>4. Descriptor(regs, z, i) = row[1]
    BY <2>2 DEF Descriptor
  <2>5. q[n] = Described(row[1], tpc)
    BY <1>2, <2>3, <2>4
  <2>6. row \in CacheRows
    BY <2>1
  <2>7. q[n].array = "unless" /\ Key(q[n].d) = RowKey(row)
    BY <2>5, <2>6, CacheByte
  <2>8. QED
    BY <2>1, <2>3, <2>7
<1>5. QED
  BY <1>3, <1>4

-----------------------------------------------------------------------------
(* The caches of an Intel processor: leaf 4.                                 *)

FourKey(p, i) == Key(Leaf4Cache(p.leaf4[i], 0))

\* The subleaves already added when level lev is looked for and n subleaves
\* have been seen.
Gone(p, lev, n) ==
    {i \in DOMAIN p.leaf4 :
        /\ p.leaf4[i].level >= 1
        /\ p.leaf4[i].level < lev \/ (p.leaf4[i].level = lev /\ i <= n)}

\* Those that are there in the end.
Real(p) == {i \in DOMAIN p.leaf4 : p.leaf4[i].level >= 1}

\* Array m has the caches of the subleaves in D, as often as they are listed.
Counted(p, m, D) ==
    /\ KeysOf(m) = {FourKey(p, i) : i \in D}
    /\ \A k : Count(m, k) = Cardinality({i \in D : FourKey(p, i) = k})

\* Threads per core are not in the key.
LEMMA KeyWithoutSharing ==
    ASSUME NEW s, NEW t
    PROVE  Key(Leaf4Cache(s, t)) = Key(Leaf4Cache(s, 0))
<1> DEFINE assoc == IF s.direct THEN 1 ELSE s.ways + 1
           type == CASE s.type = 1 -> Data [] s.type = 2 -> Code [] s.type = 3 -> Unified
           size == (assoc * ((s.parts % 512) + 1) * (s.line + 1) * (s.sets + 1)) \div 1024
           unit == s.line + 1
<1>1. ASSUME NEW u PROVE Leaf4Cache(s, u) = Desc(s.level, type, size, unit, assoc, AtLeast(s.shared + 1, u))
  BY DEF Leaf4Cache
<1> HIDE DEF assoc, type, size, unit
<1>2. \A x : Key(Desc(s.level, type, size, unit, assoc, x)) = <<s.level, type, size, unit, assoc>>
  BY DEF Key, Desc
<1>3. QED
  BY <1>1, <1>2

\* One more subleaf is added.
LEMMA CountedAdd ==
    ASSUME NEW p, NEW m \in Seq(Entries), NEW D, IsFiniteSet(D), Counted(p, m, D), NEW j, j \notin D,
           NEW d \in Entries, Key(d) = FourKey(p, j), NEW r, r = Insert(m, d)
    PROVE  Counted(p, r, D \cup {j})
<1>1. KeysOf(r) = KeysOf(m) \cup {Key(d)}
  BY InsertKeys
<1>2. KeysOf(r) = {FourKey(p, i) : i \in D \cup {j}}
  BY <1>1 DEF Counted
<1>3. ASSUME NEW k PROVE Count(r, k) = Cardinality({i \in D \cup {j} : FourKey(p, i) = k})
  <2> DEFINE T == {i \in D : FourKey(p, i) = k}
             U == {i \in D \cup {j} : FourKey(p, i) = k}
  <2>1. IsFiniteSet(T) /\ Cardinality(T) \in Nat
    <3>1. T \subseteq D
      OBVIOUS
    <3> HIDE DEF T
    <3>2. QED
      BY ONLY <3>1, IsFiniteSet(D), FS_Subset, FS_CardinalityType
  <2>2. Count(m, k) = Cardinality(T)
    BY DEF Counted
  <2>3. Count(r, k) = Count(m, k) + IF Key(d) = k THEN 1 ELSE 0
    BY InsertCount
  <2>4. CASE Key(d) = k
    <3>1. U = T \cup {j} /\ j \notin T
      BY <2>4
    <3> HIDE DEF T, U
    <3>2. Cardinality(U) = Cardinality(T) + 1
      BY <2>1, <3>1, FS_AddElement
    <3>3. QED
      BY <2>1, <2>2, <2>3, <2>4, <3>2 DEF U
  <2>5. CASE Key(d) # k
    <3>1. U = T
      BY <2>5
    <3> HIDE DEF T, U
    <3>2. Count(r, k) = Count(m, k) + 0
      BY <2>3, <2>5
    <3>3. Count(r, k) = Cardinality(U)
      BY <2>1, <2>2, <3>1, <3>2
    <3>4. QED
      BY <3>3 DEF U
  <2>6. QED
    BY <2>4, <2>5
<1>4. QED
  BY <1>2, <1>3 DEF Counted

\* Nothing is counted in an empty array.
LEMMA CountedNone ==
    ASSUME NEW p
    PROVE  Counted(p, <<>>, {}) /\ KeysOf(<<>>) = {}
<1>1. KeysOf(<<>>) = {}
  BY DEF KeysOf
<1>2. {FourKey(p, i) : i \in {}} = {}
  OBVIOUS
<1>3. ASSUME NEW k PROVE Count(<<>>, k) = Cardinality({i \in {} : FourKey(p, i) = k})
  <2>1. {i \in DOMAIN <<>> : Key(<<>>[i]) = k} = {} /\ {i \in {} : FourKey(p, i) = k} = {}
    OBVIOUS
  <2>2. QED
    BY <2>1 DEF Count
<1>4. QED
  BY <1>1, <1>2, <1>3 DEF Counted

\* How the subleaves that are gone change.
LEMMA GoneFact ==
    ASSUME NEW p, p.leaf4 \in Seq(Subleaves), NEW lev \in Nat, lev >= 1, NEW n \in Nat
    PROVE  /\ IsFiniteSet(Gone(p, lev, n))
           /\ Gone(p, 1, 0) = {}
           /\ n = Len(p.leaf4) => Gone(p, lev + 1, 0) = Gone(p, lev, n)
           /\ n < Len(p.leaf4) /\ p.leaf4[n + 1].level # lev => Gone(p, lev, n + 1) = Gone(p, lev, n)
           /\ n < Len(p.leaf4) /\ p.leaf4[n + 1].level = lev =>
                 Gone(p, lev, n + 1) = Gone(p, lev, n) \cup {n + 1} /\ n + 1 \notin Gone(p, lev, n)
           /\ n = Len(p.leaf4) /\ (\A i \in DOMAIN p.leaf4 : p.leaf4[i].level <= lev) =>
                 Gone(p, lev, n) = Real(p)
<1> DEFINE L == Len(p.leaf4)
           l(i) == p.leaf4[i].level
<1>1. /\ L \in Nat /\ DOMAIN p.leaf4 = 1 .. L
      /\ \A i \in DOMAIN p.leaf4 : i \in Nat /\ 1 <= i /\ i <= L
      /\ \A i \in Nat : 1 <= i /\ i <= L => i \in DOMAIN p.leaf4
  OBVIOUS
<1>2. \A i \in DOMAIN p.leaf4 : l(i) \in Nat
  <2>1. \A i \in DOMAIN p.leaf4 : p.leaf4[i] \in Subleaves
    OBVIOUS
  <2>2. QED
    BY <2>1 DEF Subleaves
<1>3. \A v, m : Gone(p, v, m) = {i \in DOMAIN p.leaf4 : l(i) >= 1 /\ (l(i) < v \/ (l(i) = v /\ i <= m))}
  BY DEF Gone
<1>4. Real(p) = {i \in DOMAIN p.leaf4 : l(i) >= 1}
  BY DEF Real
<1> HIDE DEF l
<1>5. IsFiniteSet(Gone(p, lev, n))
  <2>1. IsFiniteSet(1 .. L)
    BY <1>1, FS_Interval
  <2>2. Gone(p, lev, n) \subseteq 1 .. L
    BY <1>1, <1>3
  <2>3. QED
    BY ONLY <2>1, <2>2, FS_Subset
<1> HIDE DEF L
<1>6. Gone(p, 1, 0) = {}
  BY <1>1, <1>2, <1>3
<1>7. n = L => Gone(p, lev + 1, 0) = Gone(p, lev, n)
  <2>1. SUFFICES ASSUME n = L PROVE Gone(p, lev + 1, 0) = Gone(p, lev, n)
    OBVIOUS
  <2>2. ASSUME NEW i \in DOMAIN p.leaf4
        PROVE  (l(i) < lev + 1 \/ (l(i) = lev + 1 /\ i <= 0)) <=> (l(i) < lev \/ (l(i) = lev /\ i <= n))
    BY <1>1, <1>2, <2>1
  <2>3. /\ Gone(p, lev + 1, 0) = {i \in DOMAIN p.leaf4 :
              l(i) >= 1 /\ (l(i) < lev + 1 \/ (l(i) = lev + 1 /\ i <= 0))}
        /\ Gone(p, lev, n) = {i \in DOMAIN p.leaf4 : l(i) >= 1 /\ (l(i) < lev \/ (l(i) = lev /\ i <= n))}
    BY <1>3
  <2>4. QED
    BY ONLY <2>2, <2>3
<1>8. n < L /\ l(n + 1) # lev => Gone(p, lev, n + 1) = Gone(p, lev, n)
  <2>1. SUFFICES ASSUME n < L, l(n + 1) # lev PROVE Gone(p, lev, n + 1) = Gone(p, lev, n)
    OBVIOUS
  <2>2. ASSUME NEW i \in DOMAIN p.leaf4 PROVE (l(i) = lev /\ i <= n + 1) <=> (l(i) = lev /\ i <= n)
    <3>1. i = n + 1 \/ (i <= n + 1 <=> i <= n)
      BY <1>1
    <3>2. QED
      BY <2>1, <3>1
  <2>3. /\ Gone(p, lev, n + 1) = {i \in DOMAIN p.leaf4 :
              l(i) >= 1 /\ (l(i) < lev \/ (l(i) = lev /\ i <= n + 1))}
        /\ Gone(p, lev, n) = {i \in DOMAIN p.leaf4 : l(i) >= 1 /\ (l(i) < lev \/ (l(i) = lev /\ i <= n))}
    BY <1>3
  <2>4. QED
    BY ONLY <2>2, <2>3
<1>9. n < L /\ l(n + 1) = lev =>
         Gone(p, lev, n + 1) = Gone(p, lev, n) \cup {n + 1} /\ n + 1 \notin Gone(p, lev, n)
  <2>1. SUFFICES ASSUME n < L, l(n + 1) = lev
                 PROVE  Gone(p, lev, n + 1) = Gone(p, lev, n) \cup {n + 1} /\ n + 1 \notin Gone(p, lev, n)
    OBVIOUS
  <2>2. n + 1 \in DOMAIN p.leaf4
    BY <1>1, <2>1
  <2>3. n + 1 \notin Gone(p, lev, n)
    <3>1. ~(n + 1 <= n) /\ ~(lev < lev)
      OBVIOUS
    <3>2. QED
      BY <1>3, <2>1, <3>1
  <2>4. ASSUME NEW i \in DOMAIN p.leaf4
        PROVE  (i <= n + 1) <=> (i <= n \/ i = n + 1)
    BY <1>1
  <2>5. n + 1 \in Gone(p, lev, n + 1)
    BY <1>3, <2>1, <2>2
  <2>6. QED
    BY <1>3, <2>1, <2>3, <2>4, <2>5
<1>10. n = L /\ (\A i \in DOMAIN p.leaf4 : l(i) <= lev) => Gone(p, lev, n) = Real(p)
  <2>1. SUFFICES ASSUME n = L, \A i \in DOMAIN p.leaf4 : l(i) <= lev PROVE Gone(p, lev, n) = Real(p)
    OBVIOUS
  <2>2. ASSUME NEW i \in DOMAIN p.leaf4 PROVE l(i) < lev \/ (l(i) = lev /\ i <= n)
    <3>1. l(i) \in Nat /\ l(i) <= lev /\ i <= n
      BY <1>1, <1>2, <2>1
    <3>2. QED
      BY <3>1
  <2>3. QED
    BY <1>3, <1>4, <2>2
<1>11. QED
  BY <1>5, <1>6, <1>7, <1>8, <1>9, <1>10 DEF l, L

-----------------------------------------------------------------------------
(* The second inductive invariant: the caches of an Intel processor.         *)

\* The subleaves of leaf 4, if it is there, and their keys.
Leaf4Domain(p) == IF p.max >= CacheConf THEN Real(p) ELSE {}
FourSet(p) == {FourKey(p, i) : i \in Leaf4Domain(p)}

\* Array m has the caches of leaf 4 as often as they are listed, and others,
\* each once, only from leaf 2.
Merged(p, m, two) ==
    /\ FourSet(p) \subseteq KeysOf(m) /\ KeysOf(m) \subseteq FourSet(p) \cup two
    /\ \A k \in FourSet(p) : Count(m, k) = Cardinality({i \in Leaf4Domain(p) : FourKey(p, i) = k})
    /\ \A k \in KeysOf(m) \ FourSet(p) : Count(m, k) = 1

\* The reports q still to come are of leaf 2, and a cache of leaf 2 that is
\* not in m is among them.
Announced(q, m, two) ==
    /\ \A n \in DOMAIN q : q[n].array = "unless" => Key(q[n].d) \in two
    /\ \A k \in two : k \in KeysOf(m) \/ \E n \in DOMAIN q : q[n].array = "unless" /\ Key(q[n].d) = k

Started == pc = "identify" => level = 1 /\ maxdc = 1 /\ sub = 0

Four ==
    pc = "leaf4" =>
        /\ level >= 1 /\ level <= maxdc /\ sub <= Len(proc.leaf4)
        /\ \A i \in DOMAIN proc.leaf4 : level > 1 \/ i <= sub => proc.leaf4[i].level <= maxdc
        /\ Counted(proc, cpu.mems, Gone(proc, level, sub))

Two ==
    pc \in {"reports", "place", "known"} /\ proc.vendor = "intel" =>
        /\ Merged(proc, cpu.mems, Leaf2Keys)
        /\ Announced(todo, cpu.mems, Leaf2Keys)
        /\ pc # "reports" => todo = <<>>

Canon == Started /\ Four /\ Two

\* With leaf 4 done, nothing else is in the array.
LEMMA MergedStart ==
    ASSUME NEW p, NEW m, NEW two, Counted(p, m, Leaf4Domain(p))
    PROVE  Merged(p, m, two)
<1>1. KeysOf(m) = FourSet(p)
  BY DEF Counted, FourSet
<1>2. \A k : Count(m, k) = Cardinality({i \in Leaf4Domain(p) : FourKey(p, i) = k})
  BY DEF Counted
<1>3. QED
  BY <1>1, <1>2 DEF Merged

\* A cache of leaf 2 that was not there is there once.
LEMMA MergedAdd ==
    ASSUME NEW p, NEW m \in Seq(Entries), NEW two, Merged(p, m, two), NEW d \in Entries,
           Key(d) \in two, Key(d) \notin KeysOf(m), NEW r, r = Insert(m, d)
    PROVE  Merged(p, r, two)
<1>1. KeysOf(r) = KeysOf(m) \cup {Key(d)}
  BY InsertKeys
<1>2. /\ FourSet(p) \subseteq KeysOf(m) /\ KeysOf(m) \subseteq FourSet(p) \cup two
      /\ \A k \in FourSet(p) : Count(m, k) = Cardinality({i \in Leaf4Domain(p) : FourKey(p, i) = k})
      /\ \A k \in KeysOf(m) \ FourSet(p) : Count(m, k) = 1
  BY DEF Merged
<1>3. \A k : k # Key(d) => Count(r, k) = Count(m, k)
  <2>1. SUFFICES ASSUME NEW k, k # Key(d) PROVE Count(r, k) = Count(m, k)
    OBVIOUS
  <2>2. Count(r, k) = Count(m, k) + IF Key(d) = k THEN 1 ELSE 0
    BY InsertCount
  <2>3. Count(m, k) \in Nat
    BY PlacesFinite DEF Count, Places
  <2>4. QED
    BY <2>1, <2>2, <2>3
<1>4. Count(r, Key(d)) = 1
  <2>1. Count(m, Key(d)) = 0
    BY CountZero
  <2>2. Count(r, Key(d)) = Count(m, Key(d)) + IF Key(d) = Key(d) THEN 1 ELSE 0
    BY InsertCount
  <2>3. QED
    BY <2>1, <2>2
<1>5. FourSet(p) \subseteq KeysOf(r) /\ KeysOf(r) \subseteq FourSet(p) \cup two
  BY <1>1, <1>2
<1>6. ASSUME NEW k \in FourSet(p)
      PROVE  Count(r, k) = Cardinality({i \in Leaf4Domain(p) : FourKey(p, i) = k})
  <2>1. k # Key(d)
    BY <1>2
  <2>2. Count(r, k) = Count(m, k)
    BY <1>3, <2>1
  <2>3. Count(m, k) = Cardinality({i \in Leaf4Domain(p) : FourKey(p, i) = k})
    BY <1>2
  <2>4. QED
    BY ONLY <2>2, <2>3
<1>7. ASSUME NEW k \in KeysOf(r) \ FourSet(p) PROVE Count(r, k) = 1
  <2>1. CASE k = Key(d)
    BY <1>4, <2>1
  <2>2. CASE k # Key(d)
    <3>1. k \in KeysOf(m) \ FourSet(p)
      BY <1>1, <2>2
    <3>2. QED
      BY <1>2, <1>3, <2>2, <3>1
  <2>3. QED
    BY <2>1, <2>2
<1>8. QED
  BY <1>5, <1>6, <1>7 DEF Merged

\* The first report is dealt with.
LEMMA AnnouncedTail ==
    ASSUME NEW S, NEW q \in Seq(S), q # <<>>, NEW m, NEW r, NEW two, Announced(q, m, two),
           KeysOf(m) \subseteq KeysOf(r), Head(q).array = "unless" => Key(Head(q).d) \in KeysOf(r)
    PROVE  Announced(Tail(q), r, two)
<1> DEFINE t == Tail(q)
<1>1. /\ \A n \in DOMAIN q : q[n].array = "unless" => Key(q[n].d) \in two
      /\ \A k \in two : k \in KeysOf(m) \/ \E n \in DOMAIN q : q[n].array = "unless" /\ Key(q[n].d) = k
  BY DEF Announced
<1>2. Len(q) \in Nat /\ Len(q) >= 1 /\ Head(q) = q[1] /\ DOMAIN q = 1 .. Len(q)
  OBVIOUS
<1>3. /\ DOMAIN t = 1 .. Len(q) - 1
      /\ \A n, o \in Nat : 1 <= n /\ n <= Len(q) - 1 /\ o = n + 1 => t[n] = q[o]
  OBVIOUS
<1> HIDE DEF t
<1>4. ASSUME NEW n \in DOMAIN t, t[n].array = "unless" PROVE Key(t[n].d) \in two
  <2>1. n \in Nat /\ 1 <= n /\ n <= Len(q) - 1
    BY <1>2, <1>3
  <2>2. n + 1 \in DOMAIN q /\ n + 1 \in Nat
    BY <1>2, <2>1
  <2>3. t[n] = q[n + 1]
    BY <1>3, <2>1, <2>2
  <2>4. QED
    BY <1>1, <1>4, <2>2, <2>3
<1>5. ASSUME NEW k \in two, k \notin KeysOf(r)
      PROVE  \E n \in DOMAIN t : t[n].array = "unless" /\ Key(t[n].d) = k
  <2>1. PICK o \in DOMAIN q : q[o].array = "unless" /\ Key(q[o].d) = k
    BY <1>1, <1>5
  <2>2. o # 1
    BY <1>2, <1>5, <2>1
  <2> DEFINE n == o - 1
  <2>3. n \in Nat /\ 1 <= n /\ n <= Len(q) - 1 /\ o = n + 1 /\ o \in Nat
    BY <1>2, <2>1, <2>2
  <2>4. n \in DOMAIN t
    BY <1>2, <1>3, <2>3
  <2>5. t[n] = q[o]
    BY <1>3, <2>3
  <2>6. QED
    BY <2>1, <2>4, <2>5
<1>6. QED
  BY <1>4, <1>5 DEF Announced, t

\* Leaf 2 is read.
LEMMA Leaf2Canon ==
    ASSUME NEW c, Leaf2Starts(c), ~Fails, NEW m, Counted(proc, m, Leaf4Domain(proc)), cpu'.mems = m
    PROVE  Two' /\ pc' = "reports"
<1> DEFINE q == [n \in 1 .. 16 |->
                    Described(Descriptor(proc.leaf2.regs, ((n - 1) \div 4) + 1, ((n - 1) % 4) + 1), c.tpc)]
<1>1. pc' = "reports" /\ todo' = q /\ UNCHANGED <<proc, level, maxdc, sub, live>>
  BY DEF Leaf2Starts
<1>2. /\ \A n \in 1 .. 16 : q[n].array = "unless" => Key(q[n].d) \in Leaf2Keys
      /\ \A k \in Leaf2Keys : \E n \in 1 .. 16 : q[n].array = "unless" /\ Key(q[n].d) = k
  BY Leaf2KeysFact
<1>3. DOMAIN q = 1 .. 16
  OBVIOUS
<1> HIDE DEF q
<1>4. Announced(todo', cpu'.mems, Leaf2Keys)
  BY <1>1, <1>2, <1>3 DEF Announced
<1>5. Merged(proc, cpu'.mems, Leaf2Keys)
  BY MergedStart
<1>6. Leaf2Keys' = Leaf2Keys
  BY <1>1 DEF Leaf2Keys
<1>7. QED
  BY <1>1, <1>4, <1>5, <1>6 DEF Two

\* Nothing is promised of a description that has failed.
LEMMA CanonEnds ==
    ASSUME pc' \in {"failed", "freed", "sigfpe", "amd"}
    PROVE  Canon'
BY DEF Canon, Started, Four, Two

\* The initial states.
LEMMA CanonInit == Init => Canon
BY DEF Init, Canon, Started, Four, Two

\* Vendor, signature and topology.
LEMMA IdentifyCanon == Base /\ Canon /\ Identify => Canon'
<1>1. SUFFICES ASSUME Base, Canon, Identify PROVE Canon'
  OBVIOUS
<1>2. /\ pc = "identify" /\ level = 1 /\ maxdc = 1 /\ sub = 0 /\ cpu.mems = <<>> /\ DOMAIN cpu = Fields
      /\ proc \in Processors
  BY <1>1 DEF Identify, Base, Phase, CpuFine, Canon, Started
<1>3. cpu'.mems = <<>>
  <2> DEFINE top == CASE proc.vendor = "intel" -> IdIntelTopology(proc)
                      [] proc.vendor = "amd" -> IdAmdTopology(proc) [] OTHER -> NoTopology
             cpp == IF proc.vendor = "intel" /\ proc.max < CacheConf THEN 1 ELSE top.cpp
  <2>1. cpu' = [cpu EXCEPT !.tpc = top.tpc, !.apic = top.apic, !.sig = Signature(proc.sig), !.cpp = cpp]
    BY <1>1 DEF Identify
  <2> HIDE DEF top, cpp
  <2>2. QED
    BY <1>2, <2>1 DEF Fields
<1>4. CASE proc.vendor = "intel"
  <2>1. CASE Fails
    BY <2>1, CanonEnds DEF Fails
  <2>2. CASE ~Fails
    <3>1. \/ proc.max >= CacheConf /\ pc' = "leaf4" /\ UNCHANGED <<proc, level, maxdc, sub, todo, live>>
          \/ proc.max < CacheConf /\ Leaf2Starts(cpu')
      BY <1>1, <1>4, <2>2, IdentifyCases
    <3>2. CASE proc.max >= CacheConf /\ pc' = "leaf4" /\ UNCHANGED <<proc, level, maxdc, sub, todo, live>>
      <4>1. pc' = "leaf4" /\ UNCHANGED <<proc, level, maxdc, sub, todo, live>>
        BY <3>2
      <4>2. proc.leaf4 \in Seq(Subleaves)
        BY <1>2, <1>4, ProcessorsAssumption
      <4>3. Gone(proc, 1, 0) = {}
        BY <4>2, GoneFact
      <4>4. Counted(proc, cpu'.mems, Gone(proc, 1, 0))
        BY <1>3, <4>3, CountedNone
      <4>5. /\ level' = 1 /\ maxdc' = 1 /\ sub' = 0 /\ proc' = proc
            /\ Len(proc.leaf4) \in Nat /\ \A i \in DOMAIN proc.leaf4 : i \in Nat /\ i >= 1
        BY <1>2, <4>1, <4>2
      <4>6. Four'
        BY <4>4, <4>5 DEF Four
      <4>7. QED
        BY <4>1, <4>6 DEF Canon, Started, Two
    <3>3. CASE proc.max < CacheConf /\ Leaf2Starts(cpu')
      <4>1. Leaf2Starts(cpu')
        BY <3>3
      <4>2. Leaf4Domain(proc) = {}
        <5>1. proc.max \in Nat
          BY <1>2, ProcessorsAssumption
        <5>2. ~(proc.max >= CacheConf)
          BY <3>3, <5>1 DEF CacheConf
        <5>3. QED
          BY <5>2 DEF Leaf4Domain
      <4>3. Counted(proc, <<>>, Leaf4Domain(proc))
        BY <4>2, CountedNone
      <4>4. Two' /\ pc' = "reports"
        BY <1>3, <2>2, <4>1, <4>3, Leaf2Canon
      <4>5. QED
        BY <4>4 DEF Canon, Started, Four
    <3>4. QED
      BY <3>1, <3>2, <3>3
  <2>3. QED
    BY <2>1, <2>2
<1>5. CASE proc.vendor # "intel"
  <2>1. pc' \in {"reports", "failed", "amd"} /\ proc' = proc
    <3>1. CASE proc.vendor = "via" /\ proc.max >= CpuVersion
      BY <1>1, <3>1 DEF Identify
    <3>2. CASE proc.vendor = "amd" /\ IdAmdTopology(proc) # NoTopology
      BY <1>1, <3>2 DEF Identify
    <3>3. CASE /\ ~(proc.vendor = "via" /\ proc.max >= CpuVersion)
               /\ ~(proc.vendor = "amd" /\ IdAmdTopology(proc) # NoTopology)
      <4>1. Fails
        BY <1>1, <1>5, <3>3 DEF Identify
      <4>2. QED
        BY <4>1 DEF Fails
    <3>4. QED
      BY <3>1, <3>2, <3>3
  <2>2. QED
    BY <1>5, <2>1 DEF Canon, Started, Four, Two
<1>6. QED
  BY <1>4, <1>5

\* One subleaf of leaf 4.
LEMMA Leaf4Canon == Base /\ Canon /\ Leaf4 => Canon'
<1>1. SUFFICES ASSUME Base, Canon, Leaf4 PROVE Canon'
  OBVIOUS
<1> DEFINE s == Subleaf(sub)
           c == Cores(s)
           L == Len(proc.leaf4)
<1>2. /\ pc = "leaf4" /\ proc \in Processors /\ proc.vendor = "intel" /\ proc.max >= CacheConf
      /\ level \in Nat /\ maxdc \in Nat /\ sub \in Nat /\ CpuFine(cpu, proc.vendor)
  BY <1>1 DEF Leaf4, Base, Phase
<1>3. DOMAIN cpu = Fields /\ cpu.tpc \in Nat /\ cpu.cpp \in Nat /\ cpu.mems \in Seq(Entries)
  BY <1>2 DEF CpuFine, ArrayFine
<1>4. /\ level >= 1 /\ level <= maxdc /\ sub <= L
      /\ \A i \in DOMAIN proc.leaf4 : level > 1 \/ i <= sub => proc.leaf4[i].level <= maxdc
      /\ Counted(proc, cpu.mems, Gone(proc, level, sub))
  BY <1>1, <1>2 DEF Canon, Four
<1>5. proc.leaf4 \in Seq(Subleaves)
  BY <1>2, ProcessorsAssumption
<1>6. /\ L \in Nat /\ \A i \in DOMAIN proc.leaf4 : i \in Nat /\ 1 <= i /\ i <= L
      /\ \A i \in DOMAIN proc.leaf4 : proc.leaf4[i] \in Subleaves
  BY <1>5
<1>7. \A i \in DOMAIN proc.leaf4 : proc.leaf4[i].level \in Nat
  BY <1>6 DEF Subleaves
<1>8. /\ sub < L => s = proc.leaf4[sub + 1] /\ sub + 1 \in DOMAIN proc.leaf4 /\ s \in Subleaves
      /\ s.type # 0 => sub < L
      /\ s \in Subleaves => s.type # 0
  <2>1. s \in Subleaves => s.type # 0
    BY DEF Subleaves
  <2>2. QED
    BY <1>2, <2>1, SubleafFact
<1>9. s.type = 0 => sub = L
  BY <1>2, <1>4, <1>6, <1>8
<1> DEFINE G == Gone(proc, level, sub)
<1>10. /\ IsFiniteSet(G)
       /\ sub = L => Gone(proc, level + 1, 0) = G
       /\ sub < L /\ proc.leaf4[sub + 1].level # level => Gone(proc, level, sub + 1) = G
       /\ sub < L /\ proc.leaf4[sub + 1].level = level =>
             Gone(proc, level, sub + 1) = G \cup {sub + 1} /\ sub + 1 \notin G
       /\ sub = L /\ (\A i \in DOMAIN proc.leaf4 : proc.leaf4[i].level <= level) => G = Real(proc)
  BY <1>2, <1>4, <1>5, GoneFact
<1> HIDE DEF G, L
<1>11. CASE s.type = 0 /\ LevelLeft /\ level' = level + 1 /\ sub' = 0 /\ UNCHANGED <<pc, proc, cpu, maxdc, todo, live>>
  <2>1. sub = L
    BY <1>9, <1>11
  <2>2. Counted(proc, cpu.mems, Gone(proc, level + 1, 0))
    BY <1>4, <1>10, <2>1 DEF G
  <2>3. level + 1 >= 1 /\ level + 1 <= maxdc /\ 0 <= L
    BY <1>2, <1>6, <1>11 DEF LevelLeft
  <2>4. \A i \in DOMAIN proc.leaf4 : proc.leaf4[i].level <= maxdc
    BY <1>4, <1>6, <2>1
  <2>5. Four'
    BY <1>11, <2>2, <2>3, <2>4 DEF Four, L
  <2>6. QED
    BY <1>2, <1>11, <2>5 DEF Canon, Started, Two
<1>12. CASE Fails
  BY <1>12, CanonEnds DEF Fails
<1>13. CASE s.type = 0 /\ ~LevelLeft /\ Leaf2Starts(cpu) /\ UNCHANGED cpu /\ ~Fails
  <2>1. sub = L
    BY <1>9, <1>13
  <2>2. level = maxdc
    BY <1>2, <1>4, <1>13 DEF LevelLeft
  <2>3. \A i \in DOMAIN proc.leaf4 : proc.leaf4[i].level <= level
    BY <1>4, <1>6, <2>1, <2>2
  <2>4. G = Real(proc)
    BY <1>10, <2>1, <2>3
  <2>5. Leaf4Domain(proc) = Real(proc)
    BY <1>2 DEF Leaf4Domain
  <2>6. Counted(proc, cpu.mems, Leaf4Domain(proc))
    BY <1>4, <2>4, <2>5 DEF G
  <2>7. Two' /\ pc' = "reports"
    BY <1>13, <2>6, Leaf2Canon
  <2>8. QED
    BY <2>7 DEF Canon, Started, Four
<1>14. CASE /\ s.type \in 1 .. 3 /\ s.level # level
            /\ sub' = sub + 1 /\ maxdc' = IF s.level > maxdc THEN s.level ELSE maxdc
            /\ UNCHANGED <<pc, proc, cpu, level, todo, live>>
  <2>1. sub < L /\ s = proc.leaf4[sub + 1] /\ sub + 1 \in DOMAIN proc.leaf4
    BY <1>8, <1>14
  <2>2. s.level \in Nat
    BY <1>7, <2>1
  <2>3. maxdc' \in Nat /\ maxdc' >= maxdc /\ s.level <= maxdc'
    BY <1>2, <1>14, <2>2
  <2>4. Counted(proc, cpu.mems, Gone(proc, level, sub + 1))
    BY <1>4, <1>10, <1>14, <2>1 DEF G
  <2>5. ASSUME NEW i \in DOMAIN proc.leaf4, level > 1 \/ i <= sub + 1 PROVE proc.leaf4[i].level <= maxdc'
    <3>1. CASE i = sub + 1
      BY <2>1, <2>3, <3>1
    <3>2. CASE i # sub + 1
      <4>1. level > 1 \/ i <= sub
        BY <1>2, <1>6, <2>5, <3>2
      <4>2. proc.leaf4[i].level <= maxdc /\ proc.leaf4[i].level \in Nat
        BY <1>4, <1>7, <4>1
      <4>3. QED
        BY <1>2, <2>3, <4>2
    <3>3. QED
      BY <3>1, <3>2
  <2>6. level <= maxdc' /\ sub + 1 <= L
    BY <1>2, <1>4, <1>6, <2>1, <2>3
  <2>7. Four'
    BY <1>4, <1>14, <2>4, <2>5, <2>6 DEF Four, L
  <2>8. QED
    BY <1>2, <1>14, <2>7 DEF Canon, Started, Two
<1>15. CASE /\ s.type \in 1 .. 3 /\ s.level = level
            /\ sub' = sub + 1 /\ UNCHANGED <<pc, proc, level, maxdc, todo>>
            /\ cpu' = Added(c, "mem", Leaf4Cache(s, c.tpc)) /\ live' = live \cup {"mem"}
  <2> DEFINE d == Leaf4Cache(s, c.tpc)
  <2>1. sub < L /\ s = proc.leaf4[sub + 1] /\ sub + 1 \in DOMAIN proc.leaf4 /\ s \in Subleaves
    BY <1>8, <1>15
  <2>2. s.cores \in Nat /\ s.type \in 1 .. 3
    BY <1>15, <2>1 DEF Subleaves
  <2>3. Key(d) = FourKey(proc, sub + 1)
    BY <2>1, KeyWithoutSharing DEF FourKey
  <2> HIDE DEF s
  <2>4. DOMAIN c = Fields /\ c.tpc \in Nat /\ c.mems = cpu.mems
    BY <1>3, <2>2, CoresFact
  <2> HIDE DEF c
  <2>5. d \in Entries
    BY <2>1, <2>2, <2>4, Leaf4CacheFact
  <2>6. cpu' = Added(c, "mem", d) /\ "mem" \in {"mem", "tlb"}
    BY <1>15
  <2> HIDE DEF d
  <2>7. cpu'.mems = Insert(cpu.mems, d)
    BY <2>4, <2>6, AddedFact
  <2>8. /\ Gone(proc, level, sub + 1) = G \cup {sub + 1} /\ sub + 1 \notin G /\ IsFiniteSet(G)
        /\ Counted(proc, cpu.mems, G)
    BY <1>4, <1>10, <1>15, <2>1 DEF G
  <2>9. Counted(proc, cpu'.mems, G \cup {sub + 1})
    BY ONLY <1>3, <2>3, <2>5, <2>7, <2>8, CountedAdd
  <2>10. ASSUME NEW i \in DOMAIN proc.leaf4, level > 1 \/ i <= sub + 1 PROVE proc.leaf4[i].level <= maxdc
    <3>1. CASE i = sub + 1
      BY <1>4, <1>15, <2>1, <3>1
    <3>2. CASE i # sub + 1
      <4>1. level > 1 \/ i <= sub
        BY <1>2, <1>6, <2>10, <3>2
      <4>2. QED
        BY <1>4, <4>1
    <3>3. QED
      BY <3>1, <3>2
  <2>11. sub + 1 <= L
    BY <1>2, <1>6, <2>1
  <2>12. Four'
    BY <1>4, <1>15, <2>8, <2>9, <2>10, <2>11 DEF Four, L
  <2>13. QED
    BY <1>2, <1>15, <2>12 DEF Canon, Started, Two
<1>16. QED
  <2>1. \/ s.type = 0 /\ LevelLeft /\ level' = level + 1 /\ sub' = 0 /\ UNCHANGED <<pc, proc, cpu, maxdc, todo, live>>
        \/ s.type = 0 /\ ~LevelLeft /\ Leaf2Starts(cpu) /\ UNCHANGED cpu
        \/ Fails
        \/ /\ s.type \in 1 .. 3 /\ s.level # level
           /\ sub' = sub + 1 /\ maxdc' = IF s.level > maxdc THEN s.level ELSE maxdc
           /\ UNCHANGED <<pc, proc, cpu, level, todo, live>>
        \/ /\ s.type \in 1 .. 3 /\ s.level = level
           /\ sub' = sub + 1 /\ UNCHANGED <<pc, proc, level, maxdc, todo>>
           /\ cpu' = Added(c, "mem", Leaf4Cache(s, c.tpc)) /\ live' = live \cup {"mem"}
    BY <1>1 DEF Leaf4, Add
  <2>2. QED
    BY ONLY <1>11, <1>12, <1>13, <1>14, <1>15, <2>1

\* The next report is dealt with.
LEMMA NextReportCanon == Base /\ Canon /\ NextReport => Canon'
<1>1. SUFFICES ASSUME Base, Canon, NextReport PROVE Canon'
  OBVIOUS
<1> DEFINE r == Head(todo)
           S == ToAdd(cpu.tpc, proc.vendor)
<1>2. /\ Reported(r, cpu.tpc, proc.vendor) /\ pc = "reports" /\ todo # <<>>
      /\ \/ Fails /\ UNCHANGED cpu
         \/ pc' = "sigfpe" /\ UNCHANGED <<proc, cpu, level, maxdc, sub, todo, live>>
         \/ /\ r.array = "skip" \/ (r.array = "unless" /\ Key(r.d) \in KeysOf(cpu.mems))
            /\ todo' = Tail(todo) /\ UNCHANGED <<pc, proc, level, maxdc, sub, cpu, live>>
         \/ /\ r.array = "unless" /\ Key(r.d) \notin KeysOf(cpu.mems)
            /\ todo' = Tail(todo) /\ UNCHANGED <<pc, proc, level, maxdc, sub>>
            /\ cpu' = Added(cpu, "mem", r.d) /\ live' = live \cup {"mem"}
         \/ /\ r.array \in {"mem", "tlb"}
            /\ todo' = Tail(todo) /\ UNCHANGED <<pc, proc, level, maxdc, sub>>
            /\ cpu' = Added(cpu, r.array, r.d) /\ live' = live \cup {r.array}
  BY <1>1, ReportCases
<1>3. CASE pc' \in {"failed", "sigfpe"}
  BY <1>3, CanonEnds
<1>4. CASE pc' = "reports" /\ proc' = proc /\ proc.vendor # "intel"
  BY <1>4 DEF Canon, Started, Four, Two
<1>5. ASSUME proc.vendor = "intel", pc' = "reports", proc' = proc, todo' = Tail(todo),
             KeysOf(cpu.mems) \subseteq KeysOf(cpu'.mems), Merged(proc, cpu'.mems, Leaf2Keys),
             r.array = "unless" => Key(r.d) \in KeysOf(cpu'.mems)
      PROVE  Canon'
  <2>1. todo \in Seq(S) /\ Announced(todo, cpu.mems, Leaf2Keys)
    BY <1>1, <1>2, <1>5 DEF Base, Canon, Two
  <2> HIDE DEF S
  <2>2. Announced(Tail(todo), cpu'.mems, Leaf2Keys)
    BY <1>2, <1>5, <2>1, AnnouncedTail
  <2>3. Leaf2Keys' = Leaf2Keys
    BY <1>5 DEF Leaf2Keys
  <2>4. QED
    BY <1>5, <2>2, <2>3 DEF Canon, Started, Four, Two
<1>6. CASE proc.vendor = "intel" /\ pc' = "reports"
  <2>1. Merged(proc, cpu.mems, Leaf2Keys) /\ Announced(todo, cpu.mems, Leaf2Keys)
    BY <1>1, <1>2, <1>6 DEF Canon, Two
  <2>2. DOMAIN cpu = Fields /\ cpu.mems \in Seq(Entries) /\ todo \in Seq(S)
    BY <1>1 DEF Base, CpuFine, ArrayFine
  <2>3. 1 \in DOMAIN todo /\ r = todo[1]
    BY <1>2, <2>2
  <2> HIDE DEF r, S
  <2>4. r.array = "unless" => Key(r.d) \in Leaf2Keys
    BY <2>1, <2>3 DEF Announced
  <2>5. r.array # "mem" /\ (r.array \in Filled => r.d \in Entries)
    BY <1>2, <1>6 DEF Reported
  <2>6. CASE /\ r.array = "skip" \/ (r.array = "unless" /\ Key(r.d) \in KeysOf(cpu.mems))
             /\ todo' = Tail(todo) /\ UNCHANGED <<pc, proc, level, maxdc, sub, cpu, live>>
    BY <1>2, <1>5, <1>6, <2>1, <2>6
  <2>7. CASE /\ r.array = "unless" /\ Key(r.d) \notin KeysOf(cpu.mems)
             /\ todo' = Tail(todo) /\ UNCHANGED <<pc, proc, level, maxdc, sub>>
             /\ cpu' = Added(cpu, "mem", r.d) /\ live' = live \cup {"mem"}
    <3>1. r.d \in Entries
      BY <2>5, <2>7 DEF Filled
    <3>2. cpu'.mems = Insert(cpu.mems, r.d)
      <4>1. "mem" \in {"mem", "tlb"} /\ cpu' = Added(cpu, "mem", r.d)
        BY <2>7
      <4>2. QED
        BY <2>2, <4>1, AddedFact
    <3>3. KeysOf(cpu'.mems) = KeysOf(cpu.mems) \cup {Key(r.d)}
      BY <2>2, <3>1, <3>2, InsertKeys
    <3>4. Merged(proc, cpu'.mems, Leaf2Keys)
      BY <2>1, <2>2, <2>4, <2>7, <3>1, <3>2, MergedAdd
    <3>5. QED
      BY <1>2, <1>5, <1>6, <2>7, <3>3, <3>4
  <2>8. CASE /\ r.array \in {"mem", "tlb"}
             /\ todo' = Tail(todo) /\ UNCHANGED <<pc, proc, level, maxdc, sub>>
             /\ cpu' = Added(cpu, r.array, r.d) /\ live' = live \cup {r.array}
    <3>1. r.array = "tlb"
      BY <2>5, <2>8
    <3>2. cpu'.mems = cpu.mems
      <4>1. "tlb" \in {"mem", "tlb"} /\ cpu' = Added(cpu, "tlb", r.d) /\ "tlb" # "mem"
        BY <2>8, <3>1
      <4>2. QED
        BY <2>2, <4>1, AddedFact
    <3>3. QED
      BY <1>2, <1>5, <1>6, <2>1, <2>8, <3>1, <3>2
  <2>9. QED
    BY <1>2, <1>6, <2>6, <2>7, <2>8 DEF Fails
<1>7. QED
  BY <1>2, <1>3, <1>4, <1>6 DEF Fails

\* The brand name and the place leave the caches alone.
LEMMA LaterCanon == Base /\ Canon /\ (GetBrandname \/ Placed) => Canon'
<1>1. SUFFICES ASSUME Base, Canon, GetBrandname \/ Placed PROVE Canon'
  OBVIOUS
<1>2. DOMAIN cpu = Fields
  BY <1>1 DEF Base, CpuFine
<1>3. CASE Fails
  BY <1>3, CanonEnds DEF Fails
<1>4. CASE GetBrandname /\ ~Fails
  <2>1. pc = "reports" /\ pc' = "place" /\ todo = <<>> /\ UNCHANGED <<proc, level, maxdc, sub, todo>>
    BY <1>4 DEF GetBrandname
  <2>2. cpu' = [cpu EXCEPT !.brand = Collapsed(proc.brand), !.holds = @ \cup {"brand"}]
    BY <1>4 DEF GetBrandname
  <2>3. cpu'.mems = cpu.mems
    BY <1>2, <2>2 DEF Fields
  <2>4. Leaf2Keys' = Leaf2Keys
    BY <2>1 DEF Leaf2Keys
  <2>5. QED
    BY <1>1, <2>1, <2>3, <2>4 DEF Canon, Started, Four, Two
<1>5. CASE Placed /\ ~Fails
  <2>1. pc = "place" /\ pc' = "known" /\ UNCHANGED <<proc, level, maxdc, sub, todo>>
    BY <1>5 DEF Placed
  <2> DEFINE place == X86TopologyOf(cpu)
  <2>2. cpu' = [cpu EXCEPT !.place = place]
    BY <1>5 DEF Placed
  <2> HIDE DEF place
  <2>3. cpu'.mems = cpu.mems
    BY <1>2, <2>2 DEF Fields
  <2>4. Leaf2Keys' = Leaf2Keys
    BY <2>1 DEF Leaf2Keys
  <2>5. QED
    BY <1>1, <2>1, <2>3, <2>4 DEF Canon, Started, Four, Two
<1>6. QED
  BY <1>1, <1>3, <1>4, <1>5

\* Every step keeps the invariant.
LEMMA CanonStep == Base /\ Canon /\ [Next]_vars => Canon'
<1>1. ASSUME Canon, UNCHANGED vars PROVE Canon'
  <2>1. Leaf2Keys' = Leaf2Keys
    BY <1>1 DEF Leaf2Keys, vars
  <2>2. QED
    BY <1>1, <2>1 DEF Canon, Started, Four, Two, vars
<1>2. ASSUME Base, AmdCaches PROVE Canon'
  <2>1. CASE Fails
    BY <2>1, CanonEnds DEF Fails
  <2>2. CASE ~Fails
    <3>1. pc' = "reports" /\ proc' = proc
      BY <1>2, <2>2 DEF AmdCaches
    <3>2. proc.vendor # "intel"
      BY <1>2 DEF AmdCaches, Base, Phase
    <3>3. QED
      BY <3>1, <3>2 DEF Canon, Started, Four, Two
  <2>3. QED
    BY <2>1, <2>2
<1>3. ASSUME FreeCpudetails PROVE Canon'
  BY <1>3, CanonEnds DEF FreeCpudetails
<1>4. QED
  BY <1>1, <1>2, <1>3, IdentifyCanon, Leaf4Canon, NextReportCanon, LaterCanon DEF Next

\* While an Intel processor is described the array has just the caches of
\* leaf 4 that have been gone through, then those of leaf 2 that are new.
THEOREM CanonAlways == Spec => [](Base /\ Canon)
<1>1. Init => Base /\ Canon
  BY BaseInit, CanonInit
<1>2. Base /\ Canon /\ [Next]_vars => (Base /\ Canon)'
  BY BaseStep, CanonStep
<1>3. QED
  BY <1>1, <1>2, PTL DEF Spec

\* A finished description is canonical: both arrays are in the order of
\* compare_memdetails() and an Intel processor's caches are those its leaves
\* list, whatever order they list them in.
THEOREM CanonicalAlways == Spec => []CanonicalDetails
<1>1. Base /\ Canon => CanonicalDetails
  <2>1. SUFFICES ASSUME Base, Canon PROVE CanonicalDetails
    OBVIOUS
  <2>2. Sorted(cpu.mems) /\ Sorted(cpu.tlbs)
    BY <2>1 DEF Base, CpuFine, ArrayFine
  <2> DEFINE four == {Leaf4Keys[i] : i \in DOMAIN Leaf4Keys}
  <2>3. ASSUME pc = "known", proc.vendor = "intel"
        PROVE  /\ KeysOf(cpu.mems) = four \cup Leaf2Keys
               /\ \A k \in four : Count(cpu.mems, k) = Cardinality({i \in DOMAIN Leaf4Keys : Leaf4Keys[i] = k})
               /\ \A k \in Leaf2Keys \ four : Count(cpu.mems, k) = 1
    <3>1. Merged(proc, cpu.mems, Leaf2Keys) /\ Announced(todo, cpu.mems, Leaf2Keys) /\ todo = <<>>
      BY <2>1, <2>3 DEF Canon, Two
    <3>2. DOMAIN Leaf4Keys = Leaf4Domain(proc) /\ \A i \in Leaf4Domain(proc) : Leaf4Keys[i] = FourKey(proc, i)
      BY DEF Leaf4Keys, Leaf4Domain, Real, FourKey
    <3>3. four = FourSet(proc)
      BY <3>2 DEF FourSet
    <3>4. \A k : {i \in DOMAIN Leaf4Keys : Leaf4Keys[i] = k} = {i \in Leaf4Domain(proc) : FourKey(proc, i) = k}
      BY <3>2
    <3> HIDE DEF four
    <3>5. Leaf2Keys \subseteq KeysOf(cpu.mems)
      BY <3>1 DEF Announced
    <3>6. /\ FourSet(proc) \subseteq KeysOf(cpu.mems) /\ KeysOf(cpu.mems) \subseteq FourSet(proc) \cup Leaf2Keys
          /\ \A k \in FourSet(proc) :
                Count(cpu.mems, k) = Cardinality({i \in Leaf4Domain(proc) : FourKey(proc, i) = k})
          /\ \A k \in KeysOf(cpu.mems) \ FourSet(proc) : Count(cpu.mems, k) = 1
      BY <3>1 DEF Merged
    <3>7. KeysOf(cpu.mems) = four \cup Leaf2Keys
      BY <3>3, <3>5, <3>6
    <3>8. ASSUME NEW k \in four
          PROVE  Count(cpu.mems, k) = Cardinality({i \in DOMAIN Leaf4Keys : Leaf4Keys[i] = k})
      <4>1. Count(cpu.mems, k) = Cardinality({i \in Leaf4Domain(proc) : FourKey(proc, i) = k})
        BY <3>3, <3>6
      <4>2. {i \in DOMAIN Leaf4Keys : Leaf4Keys[i] = k} = {i \in Leaf4Domain(proc) : FourKey(proc, i) = k}
        BY <3>4
      <4>3. QED
        BY ONLY <4>1, <4>2
    <3>9. \A k \in Leaf2Keys \ four : Count(cpu.mems, k) = 1
      BY <3>3, <3>5, <3>6
    <3>10. QED
      BY <3>7, <3>8, <3>9
  <2>4. QED
    BY <2>2, <2>3 DEF CanonicalDetails
<1>2. QED
  BY <1>1, CanonAlways, PTL
=============================================================================
